---------------------------- MODULE InteractiveSession --------------------------
(***************************************************************************)
(* A user at the client of an evaluation server (public/client.cc): each   *)
(* statement is sent to the EvaluatorService (public/server.cc), after the *)
(* files it imports.  The server keeps an InteractiveInterpreter for each  *)
(* context id (public/interactive_interpreter.cc), with the variables that *)
(* statements assigned and the values of the files.  The client remembers  *)
(* which variables there are and which version of a file it has sent.      *)
(* Files change while this goes on, and a connection may break under a     *)
(* call that the server has or has not got.                                *)
(*                                                                         *)
(* A variable's value is the number of the call that assigned it, a file's *)
(* value the version it was read from and what its evaluation lacked.      *)
(* Files do not import each other in cycles: MaybeImport would not return. *)
(***************************************************************************)
EXTENDS Integers, Sequences, FiniteSets

CONSTANTS
  FileCount,      \* files that may be imported; each imports later ones only
  Variables,      \* the names that statements assign
  MaxStatements,  \* how many statements the user types
  MaxEdits,       \* how often files change
  MaxAbandoned,   \* how many calls break
  Nil             \* no variable

SessionBounds == {FileCount, MaxStatements, MaxEdits, MaxAbandoned} \subseteq Nat

Files == 1..FileCount
Texts(f) == SUBSET (f + 1 .. FileCount)

VARIABLES
  version,         \* per file when it was last written
  uses,            \* per file what its text imports
  typed,           \* how many statements were typed
  nested,          \* Evaluate and the calls of MaybeImport under it, last the innermost
  variableNames,   \* variable_names_
  importedFiles,   \* imported_files_, 0 for a file that is not there
  latest,          \* per variable the last statement that succeeded to assign it
  abandoned,       \* the calls that broke
  made,            \* how many calls the client made
  rpcs,            \* requests on their way, being evaluated, or answered
  interpreters,    \* the interpreters that exist: of the context, of a call without one
  savedVariables,  \* saved_variables_ of the context, 0 for what is not there
  importResolver   \* import_resolver_ of the context

client == <<typed, nested, variableNames, importedFiles, latest, abandoned, made>>
server == <<interpreters, savedVariables, importResolver>>
sessionVars == <<version, uses, client, rpcs, server>>

(* A file being imported, or the statement (0); a request; what is mapped. *)
Frames == [file : 0..FileCount, step : {"stat", "importing", "calling"},
           mtime : Nat, version : Nat, uses : SUBSET Files, left : SUBSET Files,
           assign : Variables \cup {Nil}, inputs : SUBSET Variables]

Requests == [number : Nat, context : BOOLEAN, waited : BOOLEAN,
             step : {"sent", "evaluating", "answered"}, file : 0..FileCount, version : Nat,
             uses : SUBSET Files, assign : Variables \cup {Nil}, inputs : SUBSET Variables,
             unknown : SUBSET Variables, lacks : SUBSET Files]

Mappings == [version : Nat, by : Nat, lacks : SUBSET Files]

TypeOK ==
  /\ version \in [Files -> Nat] /\ \A f \in Files : version[f] # 0
  /\ uses \in [Files -> SUBSET Files] /\ \A f \in Files : uses[f] \in Texts(f)
  /\ nested \in Seq(Frames)
  /\ rpcs \subseteq Requests /\ made \in Nat
  /\ variableNames \subseteq Variables \ {Nil}
  /\ importedFiles \in [Files -> Nat]
  /\ savedVariables \in [Variables -> Nat]
  /\ importResolver \in [Files -> Mappings]

Unmapped == [version |-> 0, by |-> 0, lacks |-> {}]

Init ==
  /\ version = [f \in Files |-> 1]
  /\ uses \in [Files -> SUBSET Files] /\ \A f \in Files : uses[f] \in Texts(f)
  /\ typed = 0 /\ nested = <<>>
  /\ variableNames = {} /\ importedFiles = [f \in Files |-> 0]
  /\ latest = [x \in Variables |-> 0] /\ abandoned = {} /\ made = 0
  /\ rpcs = {}
  /\ interpreters = {}
  /\ savedVariables = [x \in Variables |-> 0]
  /\ importResolver = [f \in Files |-> Unmapped]

(* Someone writes a file.                                                  *)
Edits == LET sum[f \in 0..FileCount] == IF f = 0 THEN 0 ELSE sum[f - 1] + version[f] - 1
         IN  sum[FileCount]

Edit(f) == /\ Edits < MaxEdits
           /\ version' = [version EXCEPT ![f] = @ + 1]
           /\ \E text \in Texts(f) : uses' = [uses EXCEPT ![f] = text]
           /\ UNCHANGED <<client, rpcs, server>>

-----------------------------------------------------------------------------
(* The client.  A statement assigns a variable if it starts with a name    *)
(* and, after parameters up to the first parenthesis that closes, an "=".  *)
IsTopLevelAssignment(tokens) ==
  /\ tokens # <<>> /\ tokens[1] = "identifier"
  /\ \E equals \in 2..Len(tokens) :
       /\ tokens[equals] = "="
       /\ \/ equals = 2
          \/ /\ tokens[2] = "(" /\ tokens[equals - 1] = ")"
             /\ \A i \in 3..(equals - 2) : tokens[i] # ")"

Codes == {<<"other">>,
          <<"identifier", "=", "other">>,
          <<"identifier", "(", "other", ")">>,
          <<"identifier", "(", "identifier", ")", "=", "other">>}

AssignTo(tokens, x) == IF IsTopLevelAssignment(tokens) THEN x ELSE Nil

Frame(f, step) ==
  [file |-> f, step |-> step, mtime |-> 0, version |-> 0, uses |-> {}, left |-> {},
   assign |-> Nil, inputs |-> {}]

Inner == nested[Len(nested)]
Outer == SubSeq(nested, 1, Len(nested) - 1)
At(step) == nested # <<>> /\ Inner.step = step

Evaluate ==
  /\ nested = <<>> /\ typed < MaxStatements
  /\ typed' = typed + 1
  /\ \E code \in Codes, x \in Variables, imports \in SUBSET Files :
       nested' = <<[Frame(0, "importing") EXCEPT !.assign = AssignTo(code, x), !.uses = imports,
                                                 !.left = imports, !.inputs = variableNames]>>
  /\ UNCHANGED <<version, uses, variableNames, importedFiles, latest, abandoned, made,
                 rpcs, server>>

MaybeImport(f) ==
  /\ At("importing") /\ f \in Inner.left
  /\ LET rest == Append(Outer, [Inner EXCEPT !.left = @ \ {f}])
     IN  nested' = IF importedFiles[f] = version[f]
                   THEN rest
                   ELSE Append(rest, [Frame(f, "stat") EXCEPT !.mtime = version[f]])
  /\ UNCHANGED <<version, uses, typed, variableNames, importedFiles, latest, abandoned, made,
                 rpcs, server>>

ReadFile ==
  /\ At("stat")
  /\ nested' = Append(Outer, [Inner EXCEPT !.step = "importing",
                                           !.version = version[Inner.file],
                                           !.uses = uses[Inner.file],
                                           !.left = uses[Inner.file]])
  /\ UNCHANGED <<version, uses, typed, variableNames, importedFiles, latest, abandoned, made,
                 rpcs, server>>

Request(number, frame) ==
  [number |-> number, context |-> TRUE, waited |-> TRUE, step |-> "sent",
   file |-> frame.file, version |-> frame.version, uses |-> frame.uses,
   assign |-> frame.assign, inputs |-> frame.inputs,
   unknown |-> {}, lacks |-> {}]

CallEvaluate ==
  /\ At("importing") /\ Inner.left = {}
  /\ made' = made + 1
  /\ rpcs' = rpcs \cup {Request(made + 1, Inner)}
  /\ nested' = Append(Outer, [Inner EXCEPT !.step = "calling"])
  /\ UNCHANGED <<version, uses, typed, variableNames, importedFiles, latest, abandoned, server>>

Recorded_Anew(frame) == version[frame.file]
Recorded(frame) == frame.mtime

(* The call returns: of a statement, then of a file.                       *)
Evaluated(call) ==
  /\ Inner.file = 0
  /\ variableNames' = variableNames \cup ({call.assign} \ {Nil})
  /\ latest' = [x \in Variables |-> IF x = call.assign THEN call.number ELSE latest[x]]
  /\ UNCHANGED importedFiles

Imported(call) ==
  /\ Inner.file # 0
  /\ importedFiles' = [importedFiles EXCEPT ![Inner.file] = Recorded(Inner)]
  /\ UNCHANGED <<variableNames, latest>>

Succeed(call) ==
  /\ call.waited /\ call.step = "answered"
  /\ Evaluated(call) \/ Imported(call)
  /\ nested' = Outer
  /\ rpcs' = rpcs \ {call}
  /\ UNCHANGED <<version, uses, typed, abandoned, made, server>>

(* Or it breaks; the server may have got it, or get it yet.                *)
Fail(call) ==
  /\ call.waited /\ Cardinality(abandoned) < MaxAbandoned
  /\ abandoned' = abandoned \cup {call.number}
  /\ nested' = Outer
  /\ \/ /\ call.step # "answered"
        /\ rpcs' = (rpcs \ {call}) \cup {[call EXCEPT !.waited = FALSE]}
     \/ /\ call.step # "evaluating"
        /\ rpcs' = rpcs \ {call}
  /\ UNCHANGED <<version, uses, typed, variableNames, importedFiles, latest, made, server>>

(* Another program's request, which names no context.  It shares nothing   *)
(* with the session, so it is enough that one comes in the end, when only  *)
(* abandoned calls may still be about.                                     *)
OtherClient ==
  /\ typed = MaxStatements /\ nested = <<>> /\ \A c \in rpcs : c.context
  /\ \E inputs \in SUBSET Variables :
       rpcs' = rpcs \cup {[Request(0, [Frame(0, "calling") EXCEPT !.inputs = inputs])
                             EXCEPT !.context = FALSE, !.waited = FALSE]}
  /\ UNCHANGED <<version, uses, client, server>>

-----------------------------------------------------------------------------
(* The server.                                                             *)
Interpreter(call) == IF call.context THEN "of context" ELSE "of call"

(* GetGlobals finds errors for these.                                      *)
NoSuchVariable(call) ==
  IF call.context THEN {x \in call.inputs : savedVariables[x] = 0} ELSE call.inputs

NotMapped(call) == {f \in call.uses : importResolver[f].version = 0}

MaybeSaveResult(call) ==
  /\ savedVariables' = [x \in Variables |-> IF call.context /\ x = call.assign
                                            THEN call.number ELSE savedVariables[x]]
  /\ importResolver' =
       [f \in Files |-> IF call.context /\ f = call.file
                        THEN [version |-> call.version, by |-> call.number, lacks |-> call.lacks]
                        ELSE importResolver[f]]

DeleteInterpreter_Always(call) == TRUE
DeletesInterpreter(call) == ~call.context

AsyncDone(call) ==
  /\ MaybeSaveResult(call)
  /\ interpreters' = IF DeletesInterpreter(call)
                     THEN interpreters \ {Interpreter(call)}
                     ELSE interpreters \cup {Interpreter(call)}
  /\ rpcs' = {c \in rpcs : c.number # call.number}
              \cup (IF call.waited THEN {[call EXCEPT !.step = "answered"]} ELSE {})

(* The module is evaluated, and applied to the variables if there are any. *)
EvaluateNonBlocking(call) ==
  LET found == [call EXCEPT !.unknown = NoSuchVariable(call), !.lacks = NotMapped(call)] IN
  /\ call.step = "sent"
  /\ IF call.inputs = {}
     THEN AsyncDone(found)
     ELSE /\ interpreters' = interpreters \cup {Interpreter(call)}
          /\ rpcs' = (rpcs \ {call}) \cup {[found EXCEPT !.step = "evaluating"]}
          /\ UNCHANGED <<savedVariables, importResolver>>
  /\ UNCHANGED <<version, uses, client>>

CallDone(call) == /\ call.step = "evaluating"
                  /\ AsyncDone(call)
                  /\ UNCHANGED <<version, uses, client>>

Serve(call) == EvaluateNonBlocking(call) \/ CallDone(call)

ClientActs == \/ \E f \in Files : MaybeImport(f)
              \/ ReadFile
              \/ CallEvaluate
              \/ \E call \in rpcs : Succeed(call)

ServerActs == \E call \in rpcs : call.waited /\ Serve(call)

OthersAct == \/ Evaluate
             \/ OtherClient
             \/ \E f \in Files : Edit(f)
             \/ \E call \in rpcs : Fail(call)
             \/ \E call \in rpcs : ~call.waited /\ Serve(call)

Next == ServerActs \/ ClientActs \/ OthersAct

(* The client goes on, and the server ends what it evaluates for it;       *)
(* nobody has to type, write files or break connections.                   *)
Spec == Init /\ [][Next]_sessionVars
             /\ WF_sessionVars(ClientActs) /\ WF_sessionVars(ServerActs)

-----------------------------------------------------------------------------
(* What the client believes of the server is so whenever it waits for the  *)
(* user, but for what calls it gave up on did since.  A variable it names  *)
(* in a request exists and holds what the last statement assigned.  A file *)
(* that it does not send again is mapped, from what it is now or was later *)
(* than the time the client remembers, and found all that it imports.      *)
SessionsAgree ==
  /\ \A call \in rpcs : call.context => call.unknown = {}
  /\ nested = <<>> =>
       /\ \A x \in variableNames : savedVariables[x] \in {latest[x]} \cup abandoned
       /\ \A f \in Files : importedFiles[f] # 0 =>
            \/ importResolver[f].by \in abandoned
            \/ importResolver[f].version >= importedFiles[f]
       /\ abandoned = {} => \A f \in Files : importResolver[f].lacks = {}

(* A call that completes later finds the interpreter it began in, and one  *)
(* made for a single call does not outlast it.                             *)
InterpretersOutliveCalls ==
  /\ \A call \in rpcs : call.step = "evaluating" => Interpreter(call) \in interpreters
  /\ "of call" \in interpreters => \E call \in rpcs : ~call.context /\ call.step = "evaluating"

(* The user is asked for the next statement in the end.                    *)
AtPrompt == nested = <<>>
PromptReturns == []<>AtPrompt
=============================================================================
