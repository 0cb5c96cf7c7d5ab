---------------------------- MODULE EvaluationServer ---------------------------
(***************************************************************************)
(* What the library around the machine (public/) does for a program: it    *)
(* evaluates and calls values (Evaluator), runs functions in parallel      *)
(* (ParallelCall), finds what a name imports (ImportResolver), loads the   *)
(* libraries that others are built on (Libraries), and answers a user's    *)
(* statements (InteractiveSession).  What they share is only values, so    *)
(* their steps need not be interleaved: each behaviour is one of one of    *)
(* them.                                                                   *)
(***************************************************************************)
EXTENDS ParallelCall

CONSTANTS Letters, MaxLength, Keys, Resolvers,
          LibraryCount, MaxDependencies, MaxRequests,
          EvaluatorCount, MaxCalls, MaxContexts, MaxHops, MaxMixed, Nothing,
          FileCount, Variables, MaxStatements, MaxEdits, MaxAbandoned, Nil

VARIABLES importMap,
          dependencies, loaded, stack, loads, owned, requests, crashed,
          parent, life, forked, single, refcount, idle, created, mainInUse,
          contexts, pending, answer, hops, values, mixed, aborted,
          version, uses, typed, nested, variableNames, importedFiles, latest, abandoned,
          made, rpcs, interpreters, savedVariables, importResolver,
          part    \* which of them moves

Imports == INSTANCE ImportResolver
Loader == INSTANCE Libraries
Evaluation == INSTANCE Evaluator
Session == INSTANCE InteractiveSession

ASSUME ImportsAssumption == Imports!MapBounds
ASSUME LibrariesAssumption == Loader!LibraryBounds
ASSUME EvaluationAssumption == Evaluation!EvaluatorBounds
ASSUME SessionAssumption == Session!SessionBounds

libraryVars == <<dependencies, loaded, stack, loads, owned, requests, crashed>>
evaluatorVars == <<parent, life, forked, single, refcount, idle, created, mainInUse,
                   contexts, pending, answer, hops, values, mixed, aborted>>
sessionVars == <<version, uses, typed, nested, variableNames, importedFiles, latest, abandoned,
                 made, rpcs, interpreters, savedVariables, importResolver>>
serverVars == <<vars, importMap, libraryVars, evaluatorVars, sessionVars, part>>

(* Two letters; the empty prefix, nested keys, and neighbours that come    *)
(* between a name and its prefixes in string order.                        *)
MappedKeys == {<<>>, <<1>>, <<1, 1>>, <<1, 2>>, <<1, 1, 2>>}

ServerInit == /\ Init
              /\ Imports!Init
              /\ Loader!Init
              /\ Evaluation!Init
              /\ Session!Init
              /\ part \in {"parallel", "imports", "libraries", "evaluators", "sessions"}
              /\ part # "parallel" => allowed = 0
              /\ part # "libraries" => dependencies = [l \in 1..LibraryCount |-> <<>>]
              /\ part # "evaluators" => ~single
              /\ part # "sessions" => \A f \in 1..FileCount : uses[f] = {}

InParallel(A) == part = "parallel" /\ A
                 /\ UNCHANGED <<importMap, libraryVars, evaluatorVars, sessionVars, part>>

Evaluates(A) == part = "evaluators" /\ A
                /\ UNCHANGED <<vars, importMap, libraryVars, sessionVars, part>>

InSession(A) == part = "sessions" /\ A
                /\ UNCHANGED <<vars, importMap, libraryVars, evaluatorVars, part>>

ServerNext == \/ InParallel(Next)
              \/ /\ part = "imports" /\ Imports!Next
                 /\ UNCHANGED <<vars, libraryVars, evaluatorVars, sessionVars, part>>
              \/ /\ part = "libraries" /\ Loader!Next
                 /\ UNCHANGED <<vars, importMap, evaluatorVars, sessionVars, part>>
              \/ Evaluates(Evaluation!Next)
              \/ InSession(Session!Next)

(* Whoever has something to run goes on: the executor and the functions,   *)
(* the threads in evaluators and the host code they enter, the client that *)
(* waits for its call.                                                     *)
GoesOn == \/ InParallel(Next)
          \/ Evaluates(Evaluation!GoOn)
          \/ InSession(Session!ClientActs)

(* What may come late comes: non-blocking values complete, and the server  *)
(* answers the client.                                                     *)
ComesLate == \/ Evaluates(Evaluation!Complete)
             \/ InSession(Session!ServerActs)

ServerSpec == /\ ServerInit
              /\ [][ServerNext]_serverVars
              /\ WF_serverVars(GoesOn)
              /\ WF_serverVars(ComesLate)

(* The properties of the parts.  Of a parallel call: one array is          *)
(* delivered, with the defaults that were allowed, and in the end one is.  *)
(* Of imports: the longest prefix of a name is found.  Of libraries: each  *)
(* is loaded with the values of what it names, and once, since the values  *)
(* that exist are accounted for; only what depends on itself fails.  Of    *)
(* evaluators: contexts are counted and share no memory manager, values    *)
(* reach no memory that may go before theirs.  Of sessions: client and     *)
(* server agree on variables and files.  Of all that is deleted when calls *)
(* come back: it outlives them.  Every call ends.                          *)
DeliversOnce == DeliveredOnce /\ AbandonsAsAllowed
OutlivesCalls == StateOutlivesCallbacks /\ Session!InterpretersOutliveCalls
FindsLongestPrefix == Imports!FindsLongestPrefix
LoadedOnce == /\ Loader!LoadedWithDependencies
              /\ Loader!NoValueLeaks
              /\ Loader!OnlyCyclesFail
RefcountExact == Evaluation!RefcountExact
ManagersExclusive == Evaluation!ManagersExclusive
ValuesStayInside == Evaluation!ValuesStayInside
SessionsAgree == Session!SessionsAgree
CallsEnd == []<>(/\ part = "parallel" => Delivered
                 /\ part = "evaluators" => Evaluation!AllOver
                 /\ part = "sessions" => Session!AtPrompt)
=============================================================================
