------------------------- MODULE EvaluationServer_proofs -----------------------
(***************************************************************************)
(* Proofs about an evaluation server, for any evaluators, calls, managers, *)
(* functions and names.  Its parts move one at a time and share no state,  *)
(* so each keeps an inductive invariant of its own: the parallel calls     *)
(* Parallel, the evaluators EvaluatorsInv.  That says how evaluators are   *)
(* related and what of the family still runs or is owed to them, which of  *)
(* its steps a call has taken, that the references count just those, whom  *)
(* a factory's managers are lent to, and that what may be reached lies in  *)
(* live ancestors where nobody mixed values.  None of these keeps without  *)
(* the others: a count that is off frees a family that still runs, and a   *)
(* call that is given its answer twice drops a reference twice.            *)
(***************************************************************************)
EXTENDS EvaluationServer, Sequences, SequenceTheorems, FiniteSetTheorems, WellFoundedInduction, TLAPS

-----------------------------------------------------------------------------
(* A parallel call delivers one array with the defaults that were allowed, *)
(* and its state outlives its callbacks, for any number of functions, any  *)
(* abandon count and any order in which functions end.                     *)

(* How many results the call still waits for; not above zero once it has   *)
(* what it wants.                                                          *)
Awaited == numLeft - abandonCount
Stored == {i \in Functions : results[i] # "NULL"}

(* The count is that of the functions that are out.  An abandoned function *)
(* is not awaited to begin with, so only a stored result brings the array  *)
(* nearer; it is made in the step that stores the last one awaited.        *)
Parallel ==
  /\ TypeOK
  /\ numLeft = Count - Cardinality(finished)
  /\ state = IF numLeft = 0 THEN "deleted" ELSE "live"
  /\ Stored \subseteq finished
  /\ Cardinality(Stored) = Count - allowed - (IF Awaited > 0 THEN Awaited ELSE 0)
  /\ deliveries = IF Awaited > 0 THEN 0 ELSE 1
  /\ Awaited <= 0 => delivered = FinalResult(results)

(* The functions are finitely many, and so are the sets of some of them.   *)
LEMMA FunctionsCount ==
  /\ IsFiniteSet(Functions) /\ Cardinality(Functions) = Count
  /\ \A S \in SUBSET Functions : /\ IsFiniteSet(S)
                                 /\ Cardinality(S) \in 0..Count
                                 /\ Cardinality(S) = Count => S = Functions
<1>1. IsFiniteSet(Functions) /\ Cardinality(Functions) = Count
  BY CountAssumption, FS_Interval DEF Functions
<1>2. ASSUME NEW S \in SUBSET Functions
      PROVE  /\ IsFiniteSet(S) /\ Cardinality(S) \in 0..Count
             /\ Cardinality(S) = Count => S = Functions
  <2>1. IsFiniteSet(S) /\ Cardinality(S) <= Count
    BY <1>1, FS_Subset
  <2>2. Cardinality(S) \in Nat
    BY <2>1, FS_CardinalityType
  <2>3. Cardinality(S) = Count => S = Functions
    BY <1>1, FS_Subset
  <2> QED BY <2>1, <2>2, <2>3, CountAssumption
<1> QED BY <1>1, <1>2

LEMMA ParallelStart == Init => Parallel
<1> SUFFICES ASSUME Init
             PROVE  Parallel
  OBVIOUS
<1>1. allowed \in AbandonCounts /\ allowed \in 0..Count - 1 /\ Count \in Nat
  BY CountAssumption, AbandonAssumption DEF Init, Functions
<1>2. TypeOK
  BY <1>1 DEF Init, TypeOK, Functions, Outcome
<1>3. Stored = {} /\ finished = {} /\ Cardinality({}) = 0
  BY FS_EmptySet DEF Init, Stored
<1> QED BY <1>1, <1>2, <1>3, CountAssumption DEF Init, Parallel, Awaited

LEMMA ParallelStep == Parallel /\ [Next]_vars => Parallel'
<1> SUFFICES ASSUME Parallel, [Next]_vars
             PROVE  Parallel'
  OBVIOUS
<1>1. /\ started \subseteq Functions /\ finished \subseteq started
      /\ Count \in Nat \ {0} /\ numLeft \in 0..Count /\ abandonCount \in 0..Count - 1
      /\ allowed \in AbandonCounts /\ allowed \in 0..Count - 1
      /\ deliveries \in Nat
      /\ results \in [Functions -> {"value", "error", "NULL"}]
      /\ delivered \in [Functions -> {"value", "error", "default", "none"}]
  BY CountAssumption, AbandonAssumption DEF Parallel, TypeOK, Outcome, Functions
<1>2. CASE \E i \in Functions : Start(i)
  <2>1. PICK i \in Functions : Start(i)
    BY <1>2
  <2>2. TypeOK'
    BY <2>1 DEF Parallel, TypeOK, Start, outputs
  <2> QED BY <2>1, <2>2 DEF Parallel, Start, outputs, Stored, Awaited, FinalResult
<1>3. CASE \E i \in Functions : FinishSome(i)
  <2>1. PICK i \in Functions, x \in {"value", "error"} : Finish(i, x)
    BY <1>3 DEF FinishSome, Outcome
  <2>2. /\ i \in started \ finished
        /\ finished' = finished \cup {i}
        /\ numLeft' = numLeft - 1
        /\ started' = started /\ allowed' = allowed
        /\ state' = IF numLeft - 1 = 0 THEN "deleted" ELSE state
    BY <2>1 DEF Finish, LeftAfter, LastOne
  <2>3. /\ Cardinality(finished') = Cardinality(finished) + 1
        /\ Cardinality(finished') \in 0..Count
    BY <1>1, <2>2, FunctionsCount, FS_AddElement
  <2>4. numLeft' = Count - Cardinality(finished') /\ numLeft' \in 0..Count
    BY <1>1, <2>2, <2>3, FunctionsCount DEF Parallel
  <2>5. state' = IF numLeft' = 0 THEN "deleted" ELSE "live"
    BY <1>1, <2>2, <2>4 DEF Parallel
  <2>6. Cardinality(Stored) = Count - allowed - (IF Awaited > 0 THEN Awaited ELSE 0)
    BY DEF Parallel
  <2>7. Stored \subseteq finished /\ i \notin Stored /\ results[i] = "NULL"
    BY <1>1, <2>2 DEF Parallel, Stored
  <2>8. CASE Abandons(x) /\ Abandon
    <3>1. /\ abandonCount' = abandonCount - 1 /\ abandonCount > 0
          /\ UNCHANGED <<results, delivered, deliveries, keepAlive>>
      BY <2>8 DEF Abandons, Abandon, outputs
    <3>2. Awaited' = Awaited /\ Stored' = Stored /\ FinalResult(results)' = FinalResult(results)
      BY <1>1, <2>2, <3>1 DEF Awaited, Stored, FinalResult
    <3>3. TypeOK'
      BY <1>1, <2>2, <2>4, <2>5, <3>1 DEF Parallel, TypeOK, Functions
    <3>4. /\ Stored' \subseteq finished'
          /\ Cardinality(Stored') = Count - allowed' - (IF Awaited' > 0 THEN Awaited' ELSE 0)
          /\ deliveries' = IF Awaited' > 0 THEN 0 ELSE 1
      BY <2>2, <2>6, <2>7, <3>1, <3>2 DEF Parallel
    <3>5. Awaited' <= 0 => delivered' = FinalResult(results)'
      BY <3>1, <3>2 DEF Parallel
    <3> QED BY <2>4, <2>5, <3>3, <3>4, <3>5 DEF Parallel
  <2>9. CASE ~Abandons(x) /\ Wanted(numLeft - 1) /\ Store(i, x, numLeft - 1)
    <3>1. /\ abandonCount' = abandonCount /\ numLeft - 1 >= abandonCount
          /\ results' = [results EXCEPT ![i] = x]
          /\ IF numLeft - 1 = abandonCount
             THEN /\ delivered' = FinalResult(results') /\ deliveries' = deliveries + 1
                  /\ keepAlive' = {}
             ELSE UNCHANGED <<delivered, deliveries, keepAlive>>
      BY <2>9 DEF Wanted, Store, Complete, Deliver, outputs
    <3>2. Awaited' = Awaited - 1 /\ Awaited' >= 0 /\ Awaited \in Int
      BY <1>1, <2>2, <3>1 DEF Awaited
    <3>3. Stored' = Stored \cup {i}
      BY <1>1, <3>1 DEF Stored
    <3>4. Cardinality(Stored') = Cardinality(Stored) + 1 /\ Cardinality(Stored) \in Nat
      BY <1>1, <2>7, <3>3, FunctionsCount, FS_AddElement
    <3>5. results' \in [Functions -> {"value", "error", "NULL"}]
      BY <1>1, <3>1
    <3>6. FinalResult(results') \in [Functions -> {"value", "error", "default", "none"}]
      BY <3>5 DEF FinalResult
    <3>7. delivered' \in [Functions -> {"value", "error", "default", "none"}]
      BY <1>1, <3>1, <3>6
    <3>8. TypeOK'
      BY <1>1, <2>2, <2>4, <2>5, <3>1, <3>5, <3>7 DEF Parallel, TypeOK, Functions, Outcome
    <3>9. /\ Stored' \subseteq finished'
          /\ Cardinality(Stored') = Count - allowed' - (IF Awaited' > 0 THEN Awaited' ELSE 0)
      BY <1>1, <2>2, <2>6, <2>7, <3>2, <3>3, <3>4
    <3>10. deliveries' = IF Awaited' > 0 THEN 0 ELSE 1
      BY <1>1, <2>2, <3>1, <3>2 DEF Parallel, Awaited
    <3>11. Awaited' <= 0 => delivered' = FinalResult(results')
      BY <1>1, <2>2, <3>1, <3>2 DEF Awaited
    <3> QED BY <2>4, <2>5, <3>8, <3>9, <3>10, <3>11 DEF Parallel, FinalResult
  <2>10. CASE /\ ~Abandons(x) /\ ~Wanted(numLeft - 1)
              /\ UNCHANGED <<abandonCount, results, outputs>>
    <3>1. numLeft - 1 < abandonCount /\ UNCHANGED <<abandonCount, results, delivered, deliveries, keepAlive>>
      BY <1>1, <2>10 DEF Wanted, outputs
    <3>2. Awaited' = Awaited - 1 /\ Awaited <= 0 /\ Awaited \in Int
      BY <1>1, <2>2, <3>1 DEF Awaited
    <3>3. Stored' = Stored /\ FinalResult(results)' = FinalResult(results)
      BY <3>1 DEF Stored, FinalResult
    <3>4. TypeOK'
      BY <1>1, <2>2, <2>4, <2>5, <3>1 DEF Parallel, TypeOK
    <3>5. /\ Stored' \subseteq finished'
          /\ Cardinality(Stored') = Count - allowed' - (IF Awaited' > 0 THEN Awaited' ELSE 0)
          /\ deliveries' = IF Awaited' > 0 THEN 0 ELSE 1
      BY <2>2, <2>6, <2>7, <3>1, <3>2, <3>3 DEF Parallel
    <3>6. delivered' = FinalResult(results)'
      BY <3>1, <3>2, <3>3 DEF Parallel
    <3> QED BY <2>4, <2>5, <3>4, <3>5, <3>6 DEF Parallel
  <2> QED BY <2>1, <2>8, <2>9, <2>10 DEF Finish, LeftAfter
<1>4. CASE UNCHANGED vars
  BY <1>4 DEF Parallel, TypeOK, vars, calls, outputs, Stored, Awaited, FinalResult
<1> QED BY <1>2, <1>3, <1>4 DEF Next

(* Who delivered has what it wanted; who has no state left has finished.   *)
LEMMA ParallelKeeps == Parallel => DeliveredOnce /\ StateOutlivesCallbacks /\ AbandonsAsAllowed
<1> SUFFICES ASSUME Parallel
             PROVE  DeliveredOnce /\ StateOutlivesCallbacks /\ AbandonsAsAllowed
  OBVIOUS
<1>1. DeliveredOnce
  BY DEF Parallel, DeliveredOnce
<1>2. StateOutlivesCallbacks
  <2>1. numLeft = 0 => finished = Functions
    BY FunctionsCount, CountAssumption DEF Parallel, TypeOK
  <2> QED BY <2>1 DEF Parallel, StateOutlivesCallbacks
<1>3. ASSUME deliveries > 0
      PROVE  /\ Cardinality({i \in Functions : delivered[i] = "default"}) = allowed
             /\ \A i \in Functions :
                  IF delivered[i] = "default" THEN results[i] = "NULL" ELSE delivered[i] = results[i]
  <2>1. Awaited <= 0 /\ delivered = FinalResult(results)
    <3>1. Awaited \in Int
      BY CountAssumption DEF Parallel, TypeOK, Awaited, Functions
    <3> QED BY <1>3, <3>1 DEF Parallel
  <2>2. results \in [Functions -> {"value", "error", "NULL"}]
    BY DEF Parallel, TypeOK, Outcome
  <2>3. {i \in Functions : delivered[i] = "default"} = Functions \ Stored
    BY <2>1, <2>2 DEF FinalResult, Stored
  <2>4. Cardinality(Functions \ Stored) = Cardinality(Functions) - Cardinality(Functions \cap Stored)
    BY FunctionsCount, FS_Difference
  <2>5. Functions \cap Stored = Stored
    BY DEF Stored
  <2>6. Cardinality(Stored) = Count - allowed /\ Count \in Nat /\ allowed \in Nat
    <3>1. Awaited \in Int /\ allowed \in 0..Count - 1
      BY CountAssumption, AbandonAssumption DEF Parallel, TypeOK, Awaited, Functions
    <3> QED BY <2>1, <3>1, CountAssumption DEF Parallel
  <2>7. Cardinality({i \in Functions : delivered[i] = "default"}) = allowed
    <3>1. Cardinality(Functions) = Count
      BY FunctionsCount
    <3>2. Cardinality(Functions \ Stored) = Count - (Count - allowed)
      BY <2>4, <2>5, <2>6, <3>1
    <3> QED BY <2>3, <2>6, <3>2
  <2>8. \A i \in Functions :
          IF delivered[i] = "default" THEN results[i] = "NULL" ELSE delivered[i] = results[i]
    BY <2>1, <2>2 DEF FinalResult
  <2> QED BY <2>7, <2>8
<1> QED BY <1>1, <1>2, <1>3 DEF AbandonsAsAllowed

(* Whatever the functions return and in whatever order, the callback of    *)
(* parallel() runs at most once, with as many defaults as were allowed,    *)
(* and no ParallelCallback finds its ParallelState deleted.                *)
THEOREM ParallelCallsDeliver ==
  Spec => [](DeliveredOnce /\ StateOutlivesCallbacks /\ AbandonsAsAllowed)
  BY ParallelStart, ParallelStep, ParallelKeeps, PTL DEF Spec
-----------------------------------------------------------------------------

(* The instanced definition of a cardinality is the library's.             *)
LEMMA SameCount == \A S : Evaluation!Cardinality(S) = Cardinality(S)
  BY DEF Evaluation!Cardinality, Cardinality

(* Numbers have a least one.                                               *)
LEMMA LeastNumber ==
  ASSUME NEW T, T \subseteq Nat, T # {}
  PROVE  \E n \in T : \A m \in T : n <= m
<1> DEFINE R == OpToRel(<, Nat)
<1>1. \A x, y \in Nat : <<x, y>> \in R <=> x < y
  BY DEF OpToRel
<1>2. IsWellFoundedOn(R, Nat)
  BY NatLessThanWellFounded, Zenon DEF R
<1> HIDE DEF R
<1>3. PICK x \in T : \A y \in T : <<y, x>> \notin R
  BY <1>2, WFMin
<1>4. ASSUME NEW y \in T
      PROVE  x <= y
  <2>1. ~(y < x)
    BY <1>1, <1>3
  <2> QED BY <2>1
<1> QED BY <1>4

-----------------------------------------------------------------------------
(* The evaluators.                                                         *)

LEMMA LeastIsMember ==
  ASSUME NEW S, S \subseteq Nat, S # {}
  PROVE  Evaluation!Least(S) \in S /\ \A m \in S : Evaluation!Least(S) <= m
  BY LeastNumber DEF Evaluation!Least

(* Ancestors of a node are in every set of nodes that holds it and the     *)
(* parents of what it holds; so they are the node and its parent's.        *)
LEMMA AncestorsMean ==
  ASSUME NEW e, NEW a
  PROVE  a \in Evaluation!Ancestors(e) <=>
           /\ a \in Evaluation!Evaluators
           /\ \A S \in SUBSET Evaluation!Evaluators :
                e \in S /\ Evaluation!HasParents(S) => a \in S
<1>1. ASSUME a \in Evaluation!Ancestors(e),
             NEW S \in SUBSET Evaluation!Evaluators, e \in S, Evaluation!HasParents(S)
      PROVE  a \in S
  <2>1. S \in SUBSET (Evaluation!Evaluators \ {a}) \/ a \in S
    OBVIOUS
  <2> QED BY <1>1, <2>1 DEF Evaluation!Ancestors
<1>2. SUBSET (Evaluation!Evaluators \ {a}) \subseteq SUBSET Evaluation!Evaluators
  OBVIOUS
<1>3. \A S \in SUBSET (Evaluation!Evaluators \ {a}) : a \notin S
  OBVIOUS
<1> QED BY <1>1, <1>2, <1>3 DEF Evaluation!Ancestors

LEMMA AncestorsIn ==
  ASSUME NEW e, NEW S, e \in S, S \subseteq Evaluation!Evaluators, Evaluation!HasParents(S)
  PROVE  Evaluation!Ancestors(e) \subseteq S
  BY AncestorsMean

LEMMA AncestorsOfAncestor ==
  ASSUME NEW e \in Evaluation!Evaluators, NEW a \in Evaluation!Ancestors(e)
  PROVE  Evaluation!Ancestors(a) \subseteq Evaluation!Ancestors(e)
  BY AncestorsMean

LEMMA OwnAncestor ==
  ASSUME NEW e \in Evaluation!Evaluators
  PROVE  e \in Evaluation!Ancestors(e)
  BY AncestorsMean

LEMMA AncestorsTyped == \A e : Evaluation!Ancestors(e) \subseteq Evaluation!Evaluators
  BY DEF Evaluation!Ancestors

LEMMA SameAncestors ==
  ASSUME UNCHANGED parent
  PROVE  \A e : Evaluation!Ancestors(e)' = Evaluation!Ancestors(e)
  BY DEF Evaluation!Ancestors, Evaluation!HasParents

(* An evaluator is forked before it has children; it lives as long as they *)
(* do, as what the host has of it and as what runs for it.                 *)
Families ==
  /\ \A a \in Evaluation!Evaluators :
       /\ life[a] = "none" => parent[a] = Nothing
       /\ parent[a] # Nothing => life[parent[a]] # "none" /\ forked[parent[a]]
       /\ life[a] = "live" /\ parent[a] # Nothing => life[parent[a]] = "live"
       /\ values[a] # {} => life[a] = "live"
  /\ \A x \in Evaluation!Running : life[contexts[x].evaluator] = "live"
  /\ \A k \in Evaluation!Owed : life[pending[k].evaluator] = "live"

(* All contexts of a call, and the completion it waits for, are of one     *)
(* evaluator, and only one of them can go on.  The result that a call      *)
(* awaits has a context that waits for it.                                 *)
GoesForward(x) == contexts[x].step \in {"running", "customValue"}

CallsApart ==
  /\ \A x, y \in Evaluation!Running : contexts[x].call = contexts[y].call =>
       /\ contexts[x].evaluator = contexts[y].evaluator
       /\ GoesForward(x) /\ GoesForward(y) => x = y
  /\ \A x \in Evaluation!Running : contexts[x].call \in Evaluation!Owed =>
       /\ pending[contexts[x].call].evaluator = contexts[x].evaluator
       /\ ~GoesForward(x)
  /\ \A k \in Evaluation!Calls :
       /\ answer[k] = "none" =>
            pending[k] = Nothing /\ \A x \in Evaluation!Running : contexts[x].call # k
       /\ answer[k] = "awaited" =>
            \E x \in Evaluation!Running : contexts[x].call = k /\ contexts[x].returns = "result"

(* A factory of several contexts has made all managers that it lends; each *)
(* is lent or idle, once.  One of a single context lends only its main one.*)
Managers ==
  /\ Evaluation!ManagersExclusive
  /\ \A e \in Evaluation!Evaluators :
       /\ Evaluation!SingleContext(e) =>
            idle[e] = <<>> /\ created[e] = 0 /\ (mainInUse[e] <=> Evaluation!In(e) # {})
       /\ ~Evaluation!SingleContext(e) => ~mainInUse[e]
       /\ \A i \in 1..Len(idle[e]) : idle[e][i] <= created[e]
       /\ \A i, j \in 1..Len(idle[e]) : idle[e][i] = idle[e][j] => i = j
  /\ \A x \in Evaluation!Running : contexts[x].manager <= created[contexts[x].evaluator]

EvaluatorsInv ==
  /\ Evaluation!TypeOK
  /\ Families
  /\ CallsApart
  /\ Evaluation!RefcountExact
  /\ Managers
  /\ Evaluation!ValuesStayInside

(* Nothing runs and nothing did: in the beginning, and when the program    *)
(* ended itself.                                                           *)
NothingRuns ==
  /\ parent = [e \in Evaluation!Evaluators |-> Nothing]
  /\ life = [e \in Evaluation!Evaluators |-> IF e = 1 THEN "live" ELSE "none"]
  /\ forked = [e \in Evaluation!Evaluators |-> FALSE]
  /\ single \in BOOLEAN
  /\ refcount = [e \in Evaluation!Evaluators |-> 0]
  /\ idle = [e \in Evaluation!Evaluators |-> <<>>]
  /\ created = [e \in Evaluation!Evaluators |-> 0]
  /\ mainInUse = [e \in Evaluation!Evaluators |-> FALSE]
  /\ contexts = [x \in Evaluation!Slots |-> Nothing]
  /\ pending = [k \in Evaluation!Calls |-> Nothing]
  /\ answer = [k \in Evaluation!Calls |-> "none"]
  /\ hops = [k \in Evaluation!Calls |-> 0]
  /\ values = [e \in Evaluation!Evaluators |-> IF e = 1 THEN {1} ELSE {}]
  /\ mixed \subseteq Evaluation!Evaluators

(* The completions owed to an evaluator.                                   *)
OwedTo(e) == {k \in Evaluation!Owed : pending[k].evaluator = e}

LEMMA ExactMeans ==
  Evaluation!RefcountExact <=>
    \A e \in Evaluation!Evaluators :
      refcount[e] = Cardinality(Evaluation!In(e)) + Cardinality(OwedTo(e))
  BY SameCount DEF Evaluation!RefcountExact, OwedTo

LEMMA NothingRunsInit == Evaluation!Init => NothingRuns
  BY DEF Evaluation!Init, Evaluation!Fresh, Evaluation!Root, NothingRuns

LEMMA NothingRunsAbort ==
  ASSUME NEW why, Evaluation!Abort(why), Evaluation!TypeOK, mixed' \subseteq Evaluation!Evaluators
  PROVE  NothingRuns'
  BY DEF Evaluation!Abort, Evaluation!Fresh, Evaluation!Root, Evaluation!TypeOK, NothingRuns

LEMMA NothingRunsIsFine == NothingRuns => EvaluatorsInv
<1> SUFFICES ASSUME NothingRuns
             PROVE  EvaluatorsInv
  OBVIOUS
<1>1. 1 \in Evaluation!Evaluators /\ Nothing \notin Nat
  BY EvaluationAssumption DEF Evaluation!EvaluatorBounds, Evaluation!Evaluators
<1>2. Evaluation!Running = {} /\ Evaluation!Owed = {} /\ \A e : Evaluation!In(e) = {}
  BY DEF NothingRuns, Evaluation!Running, Evaluation!Owed, Evaluation!In
<1>3. Evaluation!TypeOK
  BY <1>1 DEF NothingRuns, Evaluation!TypeOK
<1>4. Families
  BY <1>2 DEF NothingRuns, Families
<1>5. CallsApart
  BY <1>2 DEF NothingRuns, CallsApart
<1>6. Evaluation!RefcountExact
  <2>1. \A e \in Evaluation!Evaluators : OwedTo(e) = {} /\ Evaluation!In(e) = {} /\ refcount[e] = 0
    BY <1>2 DEF NothingRuns, OwedTo
  <2> QED BY <2>1, ExactMeans, FS_EmptySet
<1>7. Managers
  <2>1. \A e \in Evaluation!Evaluators : idle[e] = <<>> /\ created[e] = 0 /\ ~mainInUse[e]
    BY DEF NothingRuns
  <2> QED BY <1>2, <2>1 DEF Managers, Evaluation!ManagersExclusive
<1>8. Evaluation!ValuesStayInside
  BY <1>1, <1>2, OwnAncestor
     DEF NothingRuns, Evaluation!ValuesStayInside, Evaluation!StaysInside, Evaluation!Live
<1> QED BY <1>3, <1>4, <1>5, <1>6, <1>7, <1>8 DEF EvaluatorsInv

LEMMA AbortIsFine ==
  ASSUME NEW why, Evaluation!Abort(why), EvaluatorsInv, mixed' \subseteq Evaluation!Evaluators
  PROVE  EvaluatorsInv'
<1>1. NothingRuns'
  BY NothingRunsAbort DEF EvaluatorsInv
<1> QED BY <1>1, NothingRunsIsFine, PTL

-----------------------------------------------------------------------------
(* What the host does without a call.                                      *)

(* The constants' types, as the provers want them.                         *)
LEMMA Bounds ==
  /\ EvaluatorCount \in Nat \ {0} /\ MaxCalls \in Nat \ {0}
  /\ MaxContexts \in Nat \ {0} /\ MaxHops \in Nat \ {0}
  /\ Nothing \notin Nat /\ Nothing \notin Evaluation!Contexts /\ Nothing \notin Evaluation!Completions
  BY EvaluationAssumption DEF Evaluation!EvaluatorBounds

(* A running context and an owed completion are what their types say.      *)
LEMMA RunningTyped ==
  ASSUME Evaluation!TypeOK
  PROVE  /\ Evaluation!Running \subseteq Evaluation!Slots
         /\ \A x \in Evaluation!Running : contexts[x] \in Evaluation!Contexts
         /\ \A x \in Evaluation!Slots : contexts[x] \in Evaluation!Contexts => x \in Evaluation!Running
         /\ Evaluation!Owed \subseteq Evaluation!Calls
         /\ \A k \in Evaluation!Owed : pending[k] \in Evaluation!Completions
         /\ \A k \in Evaluation!Calls : pending[k] \in Evaluation!Completions => k \in Evaluation!Owed
  BY Bounds DEF Evaluation!TypeOK, Evaluation!Running, Evaluation!Owed

(* What was mixed stays so, and only evaluators are.                       *)
MixedGrows == mixed \subseteq mixed' /\ mixed' \subseteq Evaluation!Evaluators

LEMMA NothingMixed ==
  ASSUME Evaluation!TypeOK, UNCHANGED mixed
  PROVE  MixedGrows
  BY DEF MixedGrows, Evaluation!TypeOK

LEMMA MixGrows ==
  ASSUME Evaluation!TypeOK, NEW e \in Evaluation!Evaluators, NEW known \in BOOLEAN,
         Evaluation!Mix(e, known)
  PROVE  MixedGrows /\ (~known => e \in mixed')
<1>1. mixed \subseteq Evaluation!Evaluators
  BY DEF Evaluation!TypeOK
<1>2. CASE known
  BY <1>1, <1>2 DEF Evaluation!Mix, MixedGrows
<1>3. CASE ~known
  BY <1>1, <1>3 DEF Evaluation!Mix, MixedGrows
<1> QED BY <1>2, <1>3

LEMMA ForkIsFine ==
  ASSUME NEW e \in Evaluation!Evaluators, EvaluatorsInv, Evaluation!Fork(e)
  PROVE  EvaluatorsInv'
<1> USE DEF EvaluatorsInv
<1>1. PICK n \in Evaluation!Evaluators :
        /\ life[n] = "none"
        /\ parent' = [parent EXCEPT ![n] = e]
        /\ life' = [life EXCEPT ![n] = "live"]
  BY DEF Evaluation!Fork
<1>2. /\ life[e] = "live"
      /\ forked' = [forked EXCEPT ![e] = TRUE]
      /\ UNCHANGED <<single, refcount, idle, created, mainInUse, contexts, pending, answer, hops,
                     values, mixed>>
  BY DEF Evaluation!Fork, Evaluation!Live, Evaluation!factories, Evaluation!work
<1>3. Evaluation!TypeOK'
  BY <1>1, <1>2 DEF Evaluation!TypeOK
<1>4. /\ Evaluation!Running' = Evaluation!Running /\ Evaluation!Owed' = Evaluation!Owed
      /\ \A x : Evaluation!In(x)' = Evaluation!In(x) /\ OwedTo(x)' = OwedTo(x)
  BY <1>2 DEF Evaluation!Running, Evaluation!Owed, Evaluation!In, OwedTo
<1>5. Families'
  <2>1. e # n /\ parent[n] = Nothing /\ values[n] = {}
    BY <1>1, <1>2 DEF Families
  <2>2. /\ parent'[n] = e /\ life'[n] = "live" /\ forked'[e]
        /\ \A a \in Evaluation!Evaluators \ {n} : parent'[a] = parent[a] /\ life'[a] = life[a]
        /\ \A a \in Evaluation!Evaluators : forked[a] => forked'[a]
    BY <1>1, <1>2 DEF Evaluation!TypeOK
  <2>3. \A a \in Evaluation!Evaluators : parent[a] # Nothing =>
          parent[a] \in Evaluation!Evaluators /\ parent[a] # n
    BY <1>1 DEF Families, Evaluation!TypeOK
  <2>4. ASSUME NEW a \in Evaluation!Evaluators
        PROVE  /\ life'[a] = "none" => parent'[a] = Nothing
               /\ parent'[a] # Nothing => life'[parent'[a]] # "none" /\ forked'[parent'[a]]
               /\ life'[a] = "live" /\ parent'[a] # Nothing => life'[parent'[a]] = "live"
               /\ values'[a] # {} => life'[a] = "live"
    <3>1. CASE a = n
      BY <3>1, <1>2, <2>1, <2>2
    <3>2. CASE a # n
      BY <3>2, <1>2, <2>2, <2>3 DEF Families
    <3> QED BY <3>1, <3>2
  <2>5. /\ \A x \in Evaluation!Running : contexts[x].evaluator \in Evaluation!Evaluators
        /\ \A k \in Evaluation!Owed : pending[k].evaluator \in Evaluation!Evaluators
    BY RunningTyped DEF Evaluation!Contexts, Evaluation!Completions
  <2>6. /\ \A x \in Evaluation!Running : life'[contexts[x].evaluator] = "live"
        /\ \A k \in Evaluation!Owed : life'[pending[k].evaluator] = "live"
    BY <2>2, <2>5 DEF Families
  <2> QED BY <2>4, <2>6, <1>2, <1>4 DEF Families
<1>6. CallsApart' /\ Managers' /\ Evaluation!RefcountExact'
  BY <1>2 DEF CallsApart, Managers, Evaluation!RefcountExact, Evaluation!Running, Evaluation!Owed,
     Evaluation!In, Evaluation!ManagersExclusive, Evaluation!SingleContext, GoesForward
<1>7. \A a, r : Evaluation!StaysInside(a, r) => Evaluation!StaysInside(a, r)'
  <2>1. ASSUME NEW S \in SUBSET Evaluation!Evaluators, Evaluation!HasParents(S)'
        PROVE  Evaluation!HasParents(S)
    <3>1. \A a \in S : parent[a] # Nothing => parent'[a] = parent[a]
      BY <1>1 DEF Families, Evaluation!TypeOK
    <3> QED BY <2>1, <3>1 DEF Evaluation!HasParents
  <2>2. \A a : Evaluation!Ancestors(a) \subseteq Evaluation!Ancestors(a)'
    BY <2>1 DEF Evaluation!Ancestors
  <2>3. \A a \in Evaluation!Evaluators : Evaluation!Live(a) => Evaluation!Live(a)'
    BY <1>1 DEF Evaluation!Live, Evaluation!TypeOK
  <2>4. \A a : Evaluation!Pure(a)' => Evaluation!Pure(a)
    BY <1>2, <2>2 DEF Evaluation!Pure
  <2> QED BY <2>2, <2>3, <2>4, AncestorsTyped DEF Evaluation!StaysInside
<1>8. Evaluation!ValuesStayInside'
  BY <1>2, <1>4, <1>7 DEF Evaluation!ValuesStayInside
<1> QED BY <1>3, <1>5, <1>6, <1>8

(* What may be reached from an evaluator: live ancestors, or anything once *)
(* values were mixed into one of them.                                     *)
Below(e) == IF Evaluation!Pure(e)
            THEN {a \in Evaluation!Ancestors(e) : Evaluation!Live(a)}
            ELSE Evaluation!Evaluators

LEMMA BelowTyped == \A e : Below(e) \subseteq Evaluation!Evaluators
  BY AncestorsTyped DEF Below

LEMMA BelowItself ==
  ASSUME NEW e \in Evaluation!Evaluators, life[e] = "live"
  PROVE  e \in Below(e)
  BY OwnAncestor DEF Below, Evaluation!Live

LEMMA InsideMeans ==
  ASSUME Evaluation!TypeOK
  PROVE  Evaluation!ValuesStayInside <=>
           /\ \A e \in Evaluation!Evaluators : values[e] \subseteq Below(e)
           /\ \A x \in Evaluation!Running : contexts[x].reach \subseteq Below(contexts[x].evaluator)
           /\ \A k \in Evaluation!Owed : pending[k].reach \subseteq Below(pending[k].evaluator)
<1>1. /\ \A e \in Evaluation!Evaluators : values[e] \subseteq Evaluation!Evaluators
      /\ \A x \in Evaluation!Running : contexts[x].reach \subseteq Evaluation!Evaluators
      /\ \A k \in Evaluation!Owed : pending[k].reach \subseteq Evaluation!Evaluators
  <2>1. /\ \A x \in Evaluation!Running : contexts[x].reach \in SUBSET Evaluation!Evaluators
        /\ \A k \in Evaluation!Owed : pending[k].reach \in SUBSET Evaluation!Evaluators
    BY RunningTyped DEF Evaluation!Contexts, Evaluation!Completions
  <2> QED BY <2>1 DEF Evaluation!TypeOK
<1>2. \A e, r : r \subseteq Evaluation!Evaluators =>
        (Evaluation!StaysInside(e, r) <=> r \subseteq Below(e))
  BY DEF Evaluation!StaysInside, Below
<1> QED BY <1>1, <1>2 DEF Evaluation!ValuesStayInside

LEMMA DeleteIsFine ==
  ASSUME NEW e \in Evaluation!Evaluators, EvaluatorsInv, Evaluation!Delete(e)
  PROVE  EvaluatorsInv'
<1>1. CASE refcount[e] # 0 \/ mainInUse[e]
  <2>1. Evaluation!Abort("destroyed while running")
    BY <1>1, Zenon DEF Evaluation!Delete
  <2>2. mixed' \subseteq Evaluation!Evaluators
    BY DEF Evaluation!Delete, EvaluatorsInv, Evaluation!TypeOK
  <2> QED BY <2>1, <2>2, AbortIsFine
<1>2. CASE ~(refcount[e] # 0 \/ mainInUse[e])
  <2> USE DEF EvaluatorsInv
  <2>1. /\ life[e] = "live" /\ Evaluation!In(e) = {}
        /\ \A c \in Evaluation!Evaluators : parent[c] = e => life[c] # "live"
        /\ \A k \in Evaluation!Owed : pending[k].evaluator # e
        /\ life' = [life EXCEPT ![e] = "deleted"]
        /\ values' = [values EXCEPT ![e] = {}]
        /\ UNCHANGED <<parent, forked, single, refcount, idle, created, mainInUse,
                       contexts, pending, answer, hops, mixed>>
    BY <1>2 DEF Evaluation!Delete, Evaluation!Live, Evaluation!factories, Evaluation!work
  <2>2. Evaluation!TypeOK'
    BY <2>1 DEF Evaluation!TypeOK
  <2>3. /\ Evaluation!Running' = Evaluation!Running /\ Evaluation!Owed' = Evaluation!Owed
        /\ \A a : Evaluation!In(a)' = Evaluation!In(a)
    BY <2>1 DEF Evaluation!Running, Evaluation!Owed, Evaluation!In
  <2>4. CallsApart' /\ Managers' /\ Evaluation!RefcountExact'
    BY <2>1 DEF CallsApart, Managers, Evaluation!RefcountExact, Evaluation!Running, Evaluation!Owed,
       Evaluation!In, Evaluation!ManagersExclusive, Evaluation!SingleContext, GoesForward
  <2>5. /\ life'[e] = "deleted" /\ values'[e] = {}
        /\ \A a \in Evaluation!Evaluators \ {e} : life'[a] = life[a] /\ values'[a] = values[a]
    BY <2>1 DEF Evaluation!TypeOK
  <2>6. /\ \A x \in Evaluation!Running :
             contexts[x].evaluator \in Evaluation!Evaluators /\ contexts[x].evaluator # e
        /\ \A k \in Evaluation!Owed :
             pending[k].evaluator \in Evaluation!Evaluators /\ pending[k].evaluator # e
    BY <2>1, RunningTyped DEF Evaluation!Contexts, Evaluation!Completions, Evaluation!In
  <2>7. Families'
    <3>1. ASSUME NEW a \in Evaluation!Evaluators
          PROVE  /\ life'[a] = "none" => parent[a] = Nothing
                 /\ parent[a] # Nothing => life'[parent[a]] # "none" /\ forked[parent[a]]
                 /\ life'[a] = "live" /\ parent[a] # Nothing => life'[parent[a]] = "live"
                 /\ values'[a] # {} => life'[a] = "live"
      <4>1. parent[a] # Nothing => parent[a] \in Evaluation!Evaluators
        BY DEF Evaluation!TypeOK
      <4> QED BY <2>1, <2>5, <4>1 DEF Families
    <3>2. /\ \A x \in Evaluation!Running : life'[contexts[x].evaluator] = "live"
          /\ \A k \in Evaluation!Owed : life'[pending[k].evaluator] = "live"
      BY <2>5, <2>6 DEF Families
    <3> QED BY <3>1, <3>2, <2>1, <2>3 DEF Families
  <2>8. ASSUME NEW a \in Evaluation!Evaluators, a # e, life[a] = "live"
        PROVE  Below(a) \subseteq Below(a)'
    <3> DEFINE S == {b \in Evaluation!Evaluators : life[b] = "live" /\ b # e}
    <3>1. Evaluation!HasParents(S)
      BY <2>1 DEF Evaluation!HasParents, Families, Evaluation!TypeOK
    <3>2. Evaluation!Ancestors(a) \subseteq S
      BY <2>8, <3>1, AncestorsIn
    <3>3. Evaluation!Ancestors(a)' = Evaluation!Ancestors(a) /\ (Evaluation!Pure(a)' <=> Evaluation!Pure(a))
      BY <2>1, SameAncestors DEF Evaluation!Pure
    <3>4. \A b \in Evaluation!Ancestors(a) : Evaluation!Live(b)'
      BY <2>5, <3>2 DEF Evaluation!Live
    <3> QED BY <3>3, <3>4, AncestorsTyped DEF Below
  <2>9. Evaluation!ValuesStayInside'
    <3> USE InsideMeans
    <3>1. \A a \in Evaluation!Evaluators : values'[a] \subseteq Below(a)'
      <4>1. TAKE a \in Evaluation!Evaluators
      <4>2. CASE values'[a] # {}
        <5>1. a # e /\ values'[a] = values[a] /\ life[a] = "live"
          BY <4>2, <2>5 DEF Families
        <5> QED BY <5>1, <2>8
      <4> QED BY <4>2
    <3>2. \A x \in Evaluation!Running : (contexts[x].reach \subseteq Below(contexts[x].evaluator))'
      BY <2>1, <2>6, <2>8 DEF Families
    <3>3. \A k \in Evaluation!Owed : (pending[k].reach \subseteq Below(pending[k].evaluator))'
      BY <2>1, <2>6, <2>8 DEF Families
    <3> QED BY <2>1, <2>3, <3>1, <3>2, <3>3
         DEF Evaluation!ValuesStayInside, Evaluation!StaysInside, Below
  <2> QED BY <2>2, <2>4, <2>7, <2>9
<1> QED BY <1>1, <1>2

(* An evaluator that was not forked is no other's ancestor, so what works  *)
(* on values of several runs in a descendant of all.                       *)
LEMMA UnforkedIsLeaf ==
  ASSUME EvaluatorsInv, NEW e \in Evaluation!Evaluators, NEW o \in Evaluation!Evaluators,
         ~forked[e], e \in Evaluation!Ancestors(o)
  PROVE  o = e
<1> SUFFICES ASSUME o # e
             PROVE  FALSE
  OBVIOUS
<1> DEFINE S == Evaluation!Evaluators \ {e}
<1>1. Evaluation!HasParents(S)
  BY DEF Evaluation!HasParents, EvaluatorsInv, Families, Evaluation!TypeOK
<1> QED BY <1>1, AncestorsIn

LEMMA CommonIsBelow ==
  ASSUME EvaluatorsInv, NEW e \in Evaluation!Evaluators, NEW o \in Evaluation!Evaluators,
         NEW c, c = Evaluation!FindCommonEvaluator(e, o), c # Nothing, ~forked[c]
  PROVE  c \in {e, o} /\ e \in Evaluation!Ancestors(c) /\ o \in Evaluation!Ancestors(c)
  BY OwnAncestor DEF Evaluation!FindCommonEvaluator, Evaluation!IsDescendantOf

LEMMA ValuesOfAncestor ==
  ASSUME EvaluatorsInv, NEW e \in Evaluation!Evaluators, NEW o \in Evaluation!Ancestors(e)
  PROVE  values[o] \subseteq Below(e)
<1>1. Evaluation!Ancestors(o) \subseteq Evaluation!Ancestors(e) /\ o \in Evaluation!Evaluators
  BY AncestorsOfAncestor, AncestorsTyped
<1>2. values[o] \subseteq Below(o)
  BY <1>1, InsideMeans DEF EvaluatorsInv
<1>3. Below(o) \subseteq Below(e)
  <2>1. Evaluation!Pure(e) => Evaluation!Pure(o)
    BY <1>1 DEF Evaluation!Pure
  <2> QED BY <1>1, <2>1, AncestorsTyped DEF Below
<1> QED BY <1>2, <1>3

(* What may be reached when a step has mixed values: no less than before,  *)
(* and anything where it has.                                              *)
StillBelow(e) == IF Evaluation!Ancestors(e) \cap mixed' = {}
                 THEN {a \in Evaluation!Ancestors(e) : Evaluation!Live(a)}
                 ELSE Evaluation!Evaluators

LEMMA BelowStays ==
  ASSUME MixedGrows
  PROVE  /\ \A e : Below(e) \subseteq StillBelow(e)
         /\ \A e : StillBelow(e) \subseteq Evaluation!Evaluators
<1>1. \A e : StillBelow(e) \subseteq Evaluation!Evaluators
  BY AncestorsTyped DEF StillBelow
<1>2. ASSUME NEW e
      PROVE  Below(e) \subseteq StillBelow(e)
  <2>1. CASE Evaluation!Ancestors(e) \cap mixed' = {}
    <3>1. Evaluation!Pure(e)
      BY <2>1 DEF MixedGrows, Evaluation!Pure
    <3> QED BY <2>1, <3>1 DEF Below, StillBelow
  <2>2. CASE Evaluation!Ancestors(e) \cap mixed' # {}
    BY <2>2, BelowTyped DEF StillBelow
  <2> QED BY <2>1, <2>2
<1> QED BY <1>1, <1>2

LEMMA AllIsBelow ==
  ASSUME NEW e \in Evaluation!Evaluators, e \in mixed'
  PROVE  StillBelow(e) = Evaluation!Evaluators
  BY OwnAncestor DEF StillBelow

LEMMA SameBelow ==
  ASSUME UNCHANGED <<parent, life>>
  PROVE  \A e : Below(e)' = StillBelow(e)
<1>1. \A e : Evaluation!Ancestors(e)' = Evaluation!Ancestors(e)
  BY SameAncestors
<1>2. \A a : Evaluation!Live(a)' <=> Evaluation!Live(a)
  BY DEF Evaluation!Live
<1> QED BY <1>1, <1>2 DEF Below, StillBelow, Evaluation!Pure

LEMMA ReachesInside ==
  ASSUME UNCHANGED <<parent, life>>,
         \A e \in Evaluation!Evaluators : values'[e] \subseteq StillBelow(e),
         \A x \in Evaluation!Running' : contexts'[x].reach \subseteq StillBelow(contexts'[x].evaluator),
         \A k \in Evaluation!Owed' : pending'[k].reach \subseteq StillBelow(pending'[k].evaluator)
  PROVE  Evaluation!ValuesStayInside'
<1>1. \A e : Below(e)' = StillBelow(e)
  BY SameBelow
<1>2. /\ \A e \in Evaluation!Evaluators : (values[e] \subseteq Below(e))'
      /\ \A x \in Evaluation!Running' : (contexts[x].reach \subseteq Below(contexts[x].evaluator))'
      /\ \A k \in Evaluation!Owed' : (pending[k].reach \subseteq Below(pending[k].evaluator))'
  BY <1>1
<1> QED BY <1>2 DEF Evaluation!ValuesStayInside, Evaluation!StaysInside, Below

(* What was inside still is.                                               *)
LEMMA StillInside ==
  ASSUME EvaluatorsInv, MixedGrows
  PROVE  /\ \A a \in Evaluation!Evaluators :
              values[a] \subseteq StillBelow(a) /\ (values[a] # {} => life[a] = "live")
         /\ \A x \in Evaluation!Running : contexts[x].reach \subseteq StillBelow(contexts[x].evaluator)
         /\ \A k \in Evaluation!Owed : pending[k].reach \subseteq StillBelow(pending[k].evaluator)
<1>1. /\ \A a \in Evaluation!Evaluators : values[a] \subseteq Below(a)
      /\ \A x \in Evaluation!Running : contexts[x].reach \subseteq Below(contexts[x].evaluator)
      /\ \A k \in Evaluation!Owed : pending[k].reach \subseteq Below(pending[k].evaluator)
  BY InsideMeans DEF EvaluatorsInv
<1> QED BY <1>1, BelowStays DEF EvaluatorsInv, Families

(* Whoever asks whether it is handed what belongs to a relative, and is    *)
(* not forked, is handed its ancestor's; who does not ask mixes.           *)
LEMMA HandedInside ==
  ASSUME EvaluatorsInv, NEW e \in Evaluation!Evaluators, NEW o \in Evaluation!Evaluators,
         NEW known \in BOOLEAN, Evaluation!Mix(e, known),
         known => o \in Evaluation!Ancestors(e)
  PROVE  MixedGrows /\ values[o] \subseteq StillBelow(e)
<1>1. MixedGrows /\ (~known => e \in mixed')
  BY MixGrows DEF EvaluatorsInv
<1>2. CASE known
  BY <1>1, <1>2, ValuesOfAncestor, BelowStays
<1>3. CASE ~known
  <2>1. StillBelow(e) = Evaluation!Evaluators
    BY <1>1, <1>3, AllIsBelow
  <2> QED BY <1>1, <2>1 DEF EvaluatorsInv, Evaluation!TypeOK
<1> QED BY <1>1, <1>2, <1>3

LEMMA RelativeIsAncestor ==
  ASSUME EvaluatorsInv, NEW e \in Evaluation!Evaluators, NEW o \in Evaluation!Evaluators, ~forked[e],
         Evaluation!FindCommonEvaluator(e, o) # Nothing
  PROVE  o \in Evaluation!Ancestors(e)
<1>1. CASE e \in Evaluation!Ancestors(o)
  BY <1>1, UnforkedIsLeaf, OwnAncestor
<1> QED BY <1>1 DEF Evaluation!FindCommonEvaluator, Evaluation!IsDescendantOf

(* The host gets a value of an evaluator that lives.                       *)
LEMMA AddedIsFine ==
  ASSUME EvaluatorsInv, MixedGrows, NEW e \in Evaluation!Evaluators, NEW r,
         Evaluation!Add(e, r), life[e] = "live", r \subseteq StillBelow(e)
  PROVE  /\ values' \in [Evaluation!Evaluators -> SUBSET Evaluation!Evaluators]
         /\ \A a \in Evaluation!Evaluators :
              values'[a] \subseteq StillBelow(a) /\ (values'[a] # {} => life[a] = "live")
<1>1. values \in [Evaluation!Evaluators -> SUBSET Evaluation!Evaluators]
  BY DEF EvaluatorsInv, Evaluation!TypeOK
<1>2. /\ values'[e] = values[e] \cup {e} \cup r
      /\ values' = [values EXCEPT ![e] = @ \cup {e} \cup r]
      /\ \A a \in Evaluation!Evaluators \ {e} : values'[a] = values[a]
  BY <1>1 DEF Evaluation!Add
<1>3. e \in StillBelow(e) /\ r \subseteq Evaluation!Evaluators
  BY BelowItself, BelowStays
<1>4. values' \in [Evaluation!Evaluators -> SUBSET Evaluation!Evaluators]
  BY <1>1, <1>2, <1>3
<1>5. \A a \in Evaluation!Evaluators :
        values[a] \subseteq StillBelow(a) /\ (values[a] # {} => life[a] = "live")
  BY StillInside
<1> QED BY <1>2, <1>3, <1>4, <1>5

(* NewTuple and NewArray, and CloneValue.                                  *)
LEMMA GivenIsFine ==
  ASSUME EvaluatorsInv, MixedGrows, NEW e \in Evaluation!Evaluators, NEW r,
         Evaluation!Add(e, r), life[e] = "live", r \subseteq StillBelow(e),
         UNCHANGED <<parent, life, forked, single, refcount, idle, created, mainInUse,
                     contexts, pending, answer, hops>>
  PROVE  EvaluatorsInv'
<1> USE DEF EvaluatorsInv
<1>1. /\ values' \in [Evaluation!Evaluators -> SUBSET Evaluation!Evaluators]
      /\ \A a \in Evaluation!Evaluators :
           values'[a] \subseteq StillBelow(a) /\ (values'[a] # {} => life[a] = "live")
  BY AddedIsFine
<1>2. Evaluation!TypeOK'
  BY <1>1 DEF Evaluation!TypeOK, MixedGrows
<1>3. Evaluation!Running' = Evaluation!Running /\ Evaluation!Owed' = Evaluation!Owed
  BY DEF Evaluation!Running, Evaluation!Owed
<1>4. Families'
  BY <1>1, <1>3 DEF Families
<1>5. CallsApart' /\ Managers' /\ Evaluation!RefcountExact'
  BY DEF CallsApart, Managers, Evaluation!RefcountExact, Evaluation!Running, Evaluation!Owed,
         Evaluation!In, Evaluation!ManagersExclusive, Evaluation!SingleContext, GoesForward
<1> HIDE DEF EvaluatorsInv
<1>6. Evaluation!ValuesStayInside'
  BY <1>1, <1>3, StillInside, ReachesInside
<1> QED BY <1>2, <1>4, <1>5, <1>6 DEF EvaluatorsInv

LEMMA NewValueIsFine ==
  ASSUME NEW e \in Evaluation!Evaluators, EvaluatorsInv, Evaluation!NewValue(e)
  PROVE  EvaluatorsInv'
<1>1. CASE forked[e]
  <2>1. Evaluation!Abort("used after Fork") /\ UNCHANGED mixed
    BY <1>1, Zenon DEF Evaluation!NewValue, Evaluation!NotForked
  <2>2. mixed' \subseteq Evaluation!Evaluators
    BY <2>1 DEF EvaluatorsInv, Evaluation!TypeOK
  <2> QED BY <2>1, <2>2, AbortIsFine, Zenon
<1>2. CASE ~forked[e]
  <2>1. PICK o \in Evaluation!Evaluators :
          /\ life[e] = "live" /\ Evaluation!Add(e, values[o])
          /\ Evaluation!Mix(e, Evaluation!FindCommonEvaluator(e, o) # Nothing)
          /\ UNCHANGED <<Evaluation!tree, Evaluation!factories, Evaluation!work>>
    BY <1>2, Zenon DEF Evaluation!NewValue, Evaluation!NotForked, Evaluation!Live
  <2>2. UNCHANGED <<parent, life, forked, single, refcount, idle, created, mainInUse,
                    contexts, pending, answer, hops>>
    BY <2>1 DEF Evaluation!tree, Evaluation!factories, Evaluation!work
  <2>3. PICK known \in BOOLEAN : known <=> Evaluation!FindCommonEvaluator(e, o) # Nothing
    OBVIOUS
  <2>4. Evaluation!Mix(e, known)
    BY <2>1, <2>3 DEF Evaluation!Mix
  <2>5. MixedGrows /\ values[o] \subseteq StillBelow(e)
    BY <1>2, <2>3, <2>4, RelativeIsAncestor, HandedInside
  <2>6. PICK r : r = values[o]
    OBVIOUS
  <2> QED BY <2>1, <2>2, <2>5, <2>6, GivenIsFine
<1> QED BY <1>1, <1>2

LEMMA CloneValueIsFine ==
  ASSUME NEW e \in Evaluation!Evaluators, EvaluatorsInv, Evaluation!CloneValue(e)
  PROVE  EvaluatorsInv'
<1>1. MixedGrows
  BY NothingMixed DEF Evaluation!CloneValue, EvaluatorsInv
<1>2. CASE Evaluation!Abort("not a descendant")
  BY <1>1, <1>2, AbortIsFine DEF MixedGrows
<1>3. ASSUME NEW o \in Evaluation!Evaluators, Evaluation!IsDescendantOf(e, o),
             Evaluation!Add(e, values[o]),
             UNCHANGED <<Evaluation!tree, Evaluation!factories, Evaluation!work>>
      PROVE  EvaluatorsInv'
  <2>1. life[e] = "live"
    BY DEF Evaluation!CloneValue, Evaluation!Live
  <2>2. UNCHANGED <<parent, life, forked, single, refcount, idle, created, mainInUse,
                    contexts, pending, answer, hops>>
    BY <1>3 DEF Evaluation!tree, Evaluation!factories, Evaluation!work
  <2>3. values[o] \subseteq StillBelow(e)
    BY <1>1, <1>3, ValuesOfAncestor, BelowStays DEF Evaluation!IsDescendantOf
  <2>4. PICK r : r = values[o]
    OBVIOUS
  <2> QED BY <1>1, <1>3, <2>1, <2>2, <2>3, <2>4, GivenIsFine
<1> QED BY <1>2, <1>3, Zenon DEF Evaluation!CloneValue

-----------------------------------------------------------------------------
(* What runs goes on.                                                      *)

(* Contexts stay for what they are there for.                              *)
ContextsKept ==
  /\ contexts' \in [Evaluation!Slots -> Evaluation!Contexts \cup {Nothing}]
  /\ Evaluation!Running' = Evaluation!Running
  /\ \A x \in Evaluation!Running : /\ contexts'[x].evaluator = contexts[x].evaluator
                                   /\ contexts'[x].manager = contexts[x].manager
                                   /\ contexts'[x].call = contexts[x].call
                                   /\ contexts'[x].returns = contexts[x].returns

LEMMA KeptIn ==
  ASSUME ContextsKept
  PROVE  \A e : Evaluation!In(e)' = Evaluation!In(e)
  BY DEF ContextsKept, Evaluation!In

LEMMA KeptManagers ==
  ASSUME ContextsKept, Managers, Evaluation!TypeOK, UNCHANGED <<single, idle, created, mainInUse>>
  PROVE  Managers'
<1>1. Evaluation!ManagersExclusive'
  BY DEF ContextsKept, Managers, Evaluation!ManagersExclusive
<1>2. \A e \in Evaluation!Evaluators :
        /\ Evaluation!SingleContext(e)' =>
             idle'[e] = <<>> /\ created'[e] = 0 /\ (mainInUse'[e] <=> Evaluation!In(e)' # {})
        /\ ~Evaluation!SingleContext(e)' => ~mainInUse'[e]
  BY KeptIn DEF Managers, Evaluation!SingleContext
<1>3. /\ \A e \in Evaluation!Evaluators :
           /\ \A i \in 1..Len(idle'[e]) : idle'[e][i] <= created'[e]
           /\ \A i, j \in 1..Len(idle'[e]) : idle'[e][i] = idle'[e][j] => i = j
      /\ \A x \in Evaluation!Running' : contexts'[x].manager <= created'[contexts'[x].evaluator]
  BY DEF ContextsKept, Managers
<1> QED BY <1>1, <1>2, <1>3 DEF Managers

(* No call starts, and none gets what it can do twice.                     *)
LEMMA KeptApart ==
  ASSUME EvaluatorsInv, ContextsKept, UNCHANGED pending,
         \A x \in Evaluation!Running : GoesForward(x)' => GoesForward(x),
         \A k \in Evaluation!Calls : /\ answer'[k] = "none" => answer[k] = "none"
                                     /\ answer'[k] = "awaited" => answer[k] = "awaited"
  PROVE  CallsApart'
<1>1. Evaluation!Owed' = Evaluation!Owed
  BY DEF Evaluation!Owed
<1>2. \A x, y \in Evaluation!Running : contexts'[x].call = contexts'[y].call =>
       /\ contexts'[x].evaluator = contexts'[y].evaluator
       /\ GoesForward(x)' /\ GoesForward(y)' => x = y
  BY DEF ContextsKept, CallsApart, EvaluatorsInv
<1>3. \A x \in Evaluation!Running : contexts'[x].call \in Evaluation!Owed =>
       /\ pending[contexts'[x].call].evaluator = contexts'[x].evaluator
       /\ ~GoesForward(x)'
  BY DEF ContextsKept, CallsApart, EvaluatorsInv
<1>4. \A k \in Evaluation!Calls :
       /\ answer'[k] = "none" =>
            pending[k] = Nothing /\ \A x \in Evaluation!Running : contexts'[x].call # k
       /\ answer'[k] = "awaited" =>
            \E x \in Evaluation!Running : contexts'[x].call = k /\ contexts'[x].returns = "result"
  BY DEF ContextsKept, CallsApart, EvaluatorsInv
<1>5. Evaluation!Running' = Evaluation!Running
  BY DEF ContextsKept
<1> QED BY <1>1, <1>2, <1>3, <1>4, <1>5 DEF CallsApart

(* The families stay as they are, and the host has and contexts reach what *)
(* they may.                                                               *)
LEMMA SameFamilies ==
  ASSUME EvaluatorsInv, UNCHANGED <<parent, life, forked>>,
         \A e \in Evaluation!Evaluators : values'[e] # {} => life[e] = "live",
         \A x \in Evaluation!Running' : life[contexts'[x].evaluator] = "live",
         \A k \in Evaluation!Owed' : life[pending'[k].evaluator] = "live"
  PROVE  Families'
  BY DEF EvaluatorsInv, Families

LEMMA KeptIsFine ==
  ASSUME EvaluatorsInv, MixedGrows, ContextsKept,
         UNCHANGED <<parent, life, forked, single, refcount, idle, created, mainInUse, pending>>,
         values' \in [Evaluation!Evaluators -> SUBSET Evaluation!Evaluators],
         answer' \in [Evaluation!Calls -> {"none", "awaited", "promised", "given"}],
         hops' \in [Evaluation!Calls -> Nat],
         \A x \in Evaluation!Running : /\ GoesForward(x)' => GoesForward(x)
                                       /\ contexts'[x].reach \subseteq StillBelow(contexts[x].evaluator),
         \A k \in Evaluation!Calls : /\ answer'[k] = "none" => answer[k] = "none"
                                     /\ answer'[k] = "awaited" => answer[k] = "awaited",
         \A a \in Evaluation!Evaluators :
           values'[a] \subseteq StillBelow(a) /\ (values'[a] # {} => life[a] = "live")
  PROVE  EvaluatorsInv'
<1>1. Evaluation!TypeOK'
  BY DEF EvaluatorsInv, Evaluation!TypeOK, ContextsKept, MixedGrows
<1>2. Evaluation!Owed' = Evaluation!Owed /\ Evaluation!Running' = Evaluation!Running
  BY DEF Evaluation!Owed, ContextsKept
<1>3. Families'
  BY <1>2, SameFamilies DEF EvaluatorsInv, Families, ContextsKept
<1>4. CallsApart'
  BY KeptApart
<1>5. Evaluation!RefcountExact'
  BY <1>2, KeptIn DEF EvaluatorsInv, Evaluation!RefcountExact
<1>6. Managers'
  BY KeptManagers DEF EvaluatorsInv
<1>7. Evaluation!ValuesStayInside'
  <2>1. \A k \in Evaluation!Owed : pending[k].reach \subseteq StillBelow(pending[k].evaluator)
    BY StillInside
  <2> QED BY <1>2, <2>1, ReachesInside DEF ContextsKept
<1> QED BY <1>1, <1>3, <1>4, <1>5, <1>6, <1>7 DEF EvaluatorsInv

(* A context that gets another step, and another reach, stays what it is.  *)
LEMMA StepKeeps ==
  ASSUME Evaluation!TypeOK,
         contexts' \in [Evaluation!Slots -> Evaluation!Contexts \cup {Nothing}],
         \A x \in Evaluation!Slots \ Evaluation!Running : contexts'[x] = Nothing,
         \A x \in Evaluation!Running :
           /\ contexts'[x] \in Evaluation!Contexts
           /\ contexts'[x].evaluator = contexts[x].evaluator
           /\ contexts'[x].manager = contexts[x].manager
           /\ contexts'[x].call = contexts[x].call
           /\ contexts'[x].returns = contexts[x].returns
  PROVE  ContextsKept
<1>1. Evaluation!Running' = Evaluation!Running
  BY Bounds DEF Evaluation!Running
<1> QED BY <1>1 DEF ContextsKept

LEMMA OneStepKeeps ==
  ASSUME Evaluation!TypeOK, NEW x \in Evaluation!Running,
         NEW s \in {"running", "customValue", "nonBlockingCustomValue", "answered", "ended"},
         contexts' = [contexts EXCEPT ![x].step = s]
  PROVE  /\ ContextsKept
         /\ contexts'[x].step = s
         /\ \A y \in Evaluation!Running : contexts'[y].reach = contexts[y].reach
         /\ \A y \in Evaluation!Running \ {x} : contexts'[y] = contexts[y]
<1>1. /\ x \in Evaluation!Slots /\ Evaluation!Running \subseteq Evaluation!Slots
      /\ \A y \in Evaluation!Running : contexts[y] \in Evaluation!Contexts
  BY RunningTyped
<1> DEFINE c == [contexts[x] EXCEPT !.step = s]
<1>2. /\ c \in Evaluation!Contexts /\ c.step = s /\ c.evaluator = contexts[x].evaluator
      /\ c.manager = contexts[x].manager /\ c.call = contexts[x].call
      /\ c.returns = contexts[x].returns /\ c.reach = contexts[x].reach
  BY <1>1 DEF Evaluation!Contexts
<1>3. contexts' = [contexts EXCEPT ![x] = c]
  OBVIOUS
<1> HIDE DEF c
<1>4. /\ contexts' \in [Evaluation!Slots -> Evaluation!Contexts \cup {Nothing}]
      /\ contexts'[x] = c
      /\ \A y \in Evaluation!Slots \ {x} : contexts'[y] = contexts[y]
  <2>1. contexts \in [Evaluation!Slots -> Evaluation!Contexts \cup {Nothing}]
    BY DEF Evaluation!TypeOK
  <2> QED BY <1>1, <1>2, <1>3, <2>1
<1>5. \A y \in Evaluation!Slots \ Evaluation!Running : contexts'[y] = Nothing
  BY <1>4 DEF Evaluation!Running
<1>6. ContextsKept
  BY <1>1, <1>2, <1>4, <1>5, StepKeeps
<1> QED BY <1>1, <1>2, <1>4, <1>6

(* The host is given what a context reaches.                               *)
LEMMA GivesReach ==
  ASSUME EvaluatorsInv, MixedGrows, NEW x \in Evaluation!Running, Evaluation!AddResult(x)
  PROVE  /\ values' \in [Evaluation!Evaluators -> SUBSET Evaluation!Evaluators]
         /\ \A a \in Evaluation!Evaluators :
              values'[a] \subseteq StillBelow(a) /\ (values'[a] # {} => life[a] = "live")
<1>1. PICK e, r : e = contexts[x].evaluator /\ r = contexts[x].reach
  OBVIOUS
<1>2. e \in Evaluation!Evaluators /\ life[e] = "live"
  BY <1>1, RunningTyped DEF EvaluatorsInv, Families, Evaluation!Contexts
<1>3. r \subseteq StillBelow(e)
  BY <1>1, StillInside
<1>4. Evaluation!Add(e, r)
  BY <1>1 DEF Evaluation!AddResult
<1> QED BY <1>2, <1>3, <1>4, AddedIsFine

LEMMA RunCustomValueIsFine ==
  ASSUME NEW x \in Evaluation!Slots, EvaluatorsInv, Evaluation!RunCustomValue(x)
  PROVE  EvaluatorsInv'
<1> USE DEF EvaluatorsInv
<1>1. /\ x \in Evaluation!Running /\ contexts[x].step = "running"
      /\ contexts' = [contexts EXCEPT ![x].step = "customValue"]
      /\ hops' = [hops EXCEPT ![contexts[x].call] = @ + 1]
      /\ Evaluation!AddResult(x)
      /\ UNCHANGED <<parent, life, forked, single, refcount, idle, created, mainInUse,
                     pending, answer, mixed>>
  BY DEF Evaluation!RunCustomValue, Evaluation!Enter, Evaluation!Steps, Evaluation!Running,
     Evaluation!tree, Evaluation!factories
<1>2. /\ ContextsKept
      /\ \A y \in Evaluation!Running : contexts'[y].reach = contexts[y].reach
      /\ \A y \in Evaluation!Running \ {x} : contexts'[y] = contexts[y]
  BY <1>1, OneStepKeeps
<1>3. \A y \in Evaluation!Running : GoesForward(y)' => GoesForward(y)
  BY <1>1, <1>2 DEF GoesForward
<1>4. hops' \in [Evaluation!Calls -> Nat]
  <2>1. contexts[x].call \in Evaluation!Calls
    BY <1>1, RunningTyped DEF Evaluation!Contexts
  <2> QED BY <1>1, <2>1 DEF Evaluation!TypeOK
<1>5. MixedGrows
  BY <1>1, NothingMixed
<1> HIDE DEF EvaluatorsInv
<1>6. \A y \in Evaluation!Running : contexts'[y].reach \subseteq StillBelow(contexts[y].evaluator)
  BY <1>2, <1>5, StillInside
<1>7. /\ values' \in [Evaluation!Evaluators -> SUBSET Evaluation!Evaluators]
      /\ \A a \in Evaluation!Evaluators :
           values'[a] \subseteq StillBelow(a) /\ (values'[a] # {} => life[a] = "live")
  BY <1>1, <1>5, GivesReach
<1>8. answer' \in [Evaluation!Calls -> {"none", "awaited", "promised", "given"}]
  BY <1>1 DEF EvaluatorsInv, Evaluation!TypeOK
<1> QED BY <1>1, <1>2, <1>3, <1>4, <1>5, <1>6, <1>7, <1>8, KeptIsFine

LEMMA NonBlockingDoneCallbackIsFine ==
  ASSUME NEW x \in Evaluation!Slots, EvaluatorsInv, Evaluation!NonBlockingDoneCallback(x)
  PROVE  EvaluatorsInv'
<1> USE DEF EvaluatorsInv
<1>1. /\ x \in Evaluation!Running
      /\ contexts' = [contexts EXCEPT ![x].step = "answered"]
      /\ answer' = [answer EXCEPT ![contexts[x].call] = "given"]
      /\ Evaluation!AddResult(x)
      /\ UNCHANGED <<parent, life, forked, single, refcount, idle, created, mainInUse,
                     pending, hops, mixed>>
  BY DEF Evaluation!NonBlockingDoneCallback, Evaluation!Steps, Evaluation!Running,
     Evaluation!tree, Evaluation!factories
<1>2. /\ ContextsKept
      /\ contexts'[x].step = "answered"
      /\ \A y \in Evaluation!Running : contexts'[y].reach = contexts[y].reach
      /\ \A y \in Evaluation!Running \ {x} : contexts'[y] = contexts[y]
  BY <1>1, OneStepKeeps
<1>3. \A y \in Evaluation!Running : GoesForward(y)' => GoesForward(y)
  BY <1>1, <1>2 DEF GoesForward
<1>4. MixedGrows /\ contexts[x].call \in Evaluation!Calls
  BY <1>1, NothingMixed, RunningTyped DEF Evaluation!Contexts
<1> HIDE DEF EvaluatorsInv
<1>5. \A y \in Evaluation!Running : contexts'[y].reach \subseteq StillBelow(contexts[y].evaluator)
  BY <1>2, <1>4, StillInside
<1>6. /\ values' \in [Evaluation!Evaluators -> SUBSET Evaluation!Evaluators]
      /\ \A a \in Evaluation!Evaluators :
           values'[a] \subseteq StillBelow(a) /\ (values'[a] # {} => life[a] = "live")
  BY <1>1, <1>4, GivesReach
<1>7. /\ answer' \in [Evaluation!Calls -> {"none", "awaited", "promised", "given"}]
      /\ \A k \in Evaluation!Calls : answer'[k] \in {answer[k], "given"}
      /\ hops' \in [Evaluation!Calls -> Nat]
  BY <1>1, <1>4 DEF EvaluatorsInv, Evaluation!TypeOK
<1> QED BY <1>1, <1>2, <1>3, <1>4, <1>5, <1>6, <1>7, KeptIsFine

(* A context goes on, and one, itself or another, reaches more.            *)
GoesAndReaches(x, s, y, r) ==
  contexts' = [contexts EXCEPT ![x].step = s, ![y].reach = @ \cup r]

LEMMA ReachStepKeeps ==
  ASSUME Evaluation!TypeOK, NEW x \in Evaluation!Running, NEW y \in Evaluation!Running,
         NEW s \in {"running", "customValue", "nonBlockingCustomValue", "answered", "ended"},
         NEW r \in SUBSET Evaluation!Evaluators,
         GoesAndReaches(x, s, y, r)
  PROVE  /\ ContextsKept
         /\ contexts'[x].step = s
         /\ \A z \in Evaluation!Running \ {x} : contexts'[z].step = contexts[z].step
         /\ contexts'[y].reach = contexts[y].reach \cup r
         /\ \A z \in Evaluation!Running \ {y} : contexts'[z].reach = contexts[z].reach
<1>1. /\ x \in Evaluation!Slots /\ y \in Evaluation!Slots
      /\ Evaluation!Running \subseteq Evaluation!Slots
      /\ \A z \in Evaluation!Running : contexts[z] \in Evaluation!Contexts
  BY RunningTyped
<1> DEFINE c == [contexts[x] EXCEPT !.step = s]
           f == [contexts EXCEPT ![x] = c]
           d == [f[y] EXCEPT !.reach = @ \cup r]
<1>2. /\ c \in Evaluation!Contexts /\ c.step = s /\ c.evaluator = contexts[x].evaluator
      /\ c.manager = contexts[x].manager /\ c.call = contexts[x].call
      /\ c.returns = contexts[x].returns /\ c.reach = contexts[x].reach
  BY <1>1 DEF Evaluation!Contexts
<1>3. contexts' = [f EXCEPT ![y] = d]
  BY DEF GoesAndReaches
<1> HIDE DEF c
<1>4. /\ f \in [Evaluation!Slots -> Evaluation!Contexts \cup {Nothing}]
      /\ f[x] = c
      /\ \A z \in Evaluation!Slots \ {x} : f[z] = contexts[z]
  BY <1>1, <1>2 DEF Evaluation!TypeOK
<1> HIDE DEF f
<1>5. f[y] \in Evaluation!Contexts
  BY <1>1, <1>2, <1>4
<1>6. /\ d \in Evaluation!Contexts /\ d.step = f[y].step /\ d.evaluator = f[y].evaluator
      /\ d.manager = f[y].manager /\ d.call = f[y].call
      /\ d.returns = f[y].returns /\ d.reach = f[y].reach \cup r
  BY <1>5 DEF Evaluation!Contexts
<1> HIDE DEF d
<1>7. /\ contexts' \in [Evaluation!Slots -> Evaluation!Contexts \cup {Nothing}]
      /\ contexts'[y] = d
      /\ \A z \in Evaluation!Slots \ {y} : contexts'[z] = f[z]
  BY <1>1, <1>3, <1>4, <1>6
<1>8. \A z \in Evaluation!Slots \ Evaluation!Running : contexts'[z] = Nothing
  BY <1>4, <1>7 DEF Evaluation!Running
<1>9. \A z \in Evaluation!Running :
        /\ contexts'[z] \in Evaluation!Contexts
        /\ contexts'[z].evaluator = contexts[z].evaluator
        /\ contexts'[z].manager = contexts[z].manager
        /\ contexts'[z].call = contexts[z].call
        /\ contexts'[z].returns = contexts[z].returns
        /\ contexts'[z].step = (IF z = x THEN s ELSE contexts[z].step)
        /\ contexts'[z].reach = (IF z = y THEN contexts[z].reach \cup r ELSE contexts[z].reach)
  <2>1. TAKE z \in Evaluation!Running
  <2>2. CASE z = y /\ z = x
    BY <1>1, <1>2, <1>4, <1>6, <1>7, <2>2
  <2>3. CASE z = y /\ z # x
    BY <1>1, <1>2, <1>4, <1>6, <1>7, <2>3
  <2>4. CASE z # y /\ z = x
    BY <1>1, <1>2, <1>4, <1>6, <1>7, <2>4
  <2>5. CASE z # y /\ z # x
    BY <1>1, <1>2, <1>4, <1>6, <1>7, <2>5
  <2> QED BY <2>2, <2>3, <2>4, <2>5
<1>10. ContextsKept
  BY <1>7, <1>8, <1>9, StepKeeps
<1> QED BY <1>9, <1>10

LEMMA DoneCallbackIsFine ==
  ASSUME NEW x \in Evaluation!Slots, EvaluatorsInv, Evaluation!DoneCallback(x)
  PROVE  EvaluatorsInv'
<1> DEFINE k == contexts[x].call
           y == Evaluation!Awaits(k)
<1> USE DEF EvaluatorsInv
<1>1. /\ x \in Evaluation!Running
      /\ answer[k] = "awaited"
      /\ answer' = [answer EXCEPT ![k] = "given"]
      /\ GoesAndReaches(x, "ended", y, contexts[x].reach)
      /\ UNCHANGED <<parent, life, forked, single, refcount, idle, created, mainInUse,
                     pending, hops, values, mixed>>
  BY DEF Evaluation!DoneCallback, Evaluation!Steps, Evaluation!Running,
     Evaluation!tree, Evaluation!factories, GoesAndReaches
<1>0. MixedGrows
  BY <1>1, NothingMixed
<1>2. /\ contexts[x].evaluator \in Evaluation!Evaluators /\ k \in Evaluation!Calls
      /\ contexts[x].reach \in SUBSET Evaluation!Evaluators
  BY <1>1, RunningTyped DEF Evaluation!Contexts
<1>3. y \in Evaluation!Running /\ contexts[y].call = k
  <2>1. \E z \in Evaluation!Running : contexts[z].call = k /\ contexts[z].returns = "result"
    BY <1>1, <1>2 DEF CallsApart
  <2> QED BY <2>1 DEF Evaluation!Awaits
<1>4. contexts[y].evaluator = contexts[x].evaluator
  BY <1>1, <1>3 DEF CallsApart
<1> HIDE DEF y
<1>5. /\ ContextsKept
      /\ contexts'[x].step = "ended"
      /\ \A z \in Evaluation!Running \ {x} : contexts'[z].step = contexts[z].step
      /\ contexts'[y].reach = contexts[y].reach \cup contexts[x].reach
      /\ \A z \in Evaluation!Running \ {y} : contexts'[z].reach = contexts[z].reach
  BY <1>1, <1>2, <1>3, ReachStepKeeps
<1>6. \A z \in Evaluation!Running : GoesForward(z)' => GoesForward(z)
  BY <1>1, <1>5 DEF GoesForward
<1> HIDE DEF EvaluatorsInv
<1>7. /\ \A z \in Evaluation!Running : contexts'[z].reach \subseteq StillBelow(contexts[z].evaluator)
      /\ \A a \in Evaluation!Evaluators :
           values[a] \subseteq StillBelow(a) /\ (values[a] # {} => life[a] = "live")
  BY <1>0, <1>1, <1>4, <1>5, StillInside
<1>8. /\ values' \in [Evaluation!Evaluators -> SUBSET Evaluation!Evaluators]
      /\ answer' \in [Evaluation!Calls -> {"none", "awaited", "promised", "given"}]
      /\ \A c \in Evaluation!Calls : answer'[c] \in {answer[c], "given"}
      /\ hops' \in [Evaluation!Calls -> Nat]
  BY <1>1, <1>2 DEF EvaluatorsInv, Evaluation!TypeOK
<1> QED BY <1>0, <1>1, <1>5, <1>6, <1>7, <1>8, KeptIsFine

LEMMA ReturnFromHostIsFine ==
  ASSUME NEW x \in Evaluation!Slots, EvaluatorsInv, Evaluation!ReturnFromHost(x)
  PROVE  EvaluatorsInv'
<1>1. PICK e : e = contexts[x].evaluator
  OBVIOUS
<1>2. x \in Evaluation!Running
  BY Bounds DEF Evaluation!ReturnFromHost, Evaluation!HostThreads, Evaluation!Slots
<1>3. e \in Evaluation!Evaluators
  BY <1>1, <1>2, RunningTyped DEF EvaluatorsInv, Evaluation!Contexts
<1>4. Evaluation!TypeOK
  BY DEF EvaluatorsInv
(* It stays what it is, and what it is for.                                *)
<1>5. ASSUME MixedGrows, ContextsKept,
             UNCHANGED <<Evaluation!tree, Evaluation!factories, pending, answer, hops, values>>,
             \A z \in Evaluation!Running : GoesForward(z)' => GoesForward(z),
             \A z \in Evaluation!Running : contexts'[z].reach \subseteq StillBelow(contexts[z].evaluator)
      PROVE  EvaluatorsInv'
  <2>1. UNCHANGED <<parent, life, forked, single, refcount, idle, created, mainInUse,
                    pending, answer, hops, values>>
    BY <1>5 DEF Evaluation!tree, Evaluation!factories
  <2>2. /\ values' \in [Evaluation!Evaluators -> SUBSET Evaluation!Evaluators]
        /\ answer' \in [Evaluation!Calls -> {"none", "awaited", "promised", "given"}]
        /\ hops' \in [Evaluation!Calls -> Nat]
    BY <1>4, <2>1 DEF Evaluation!TypeOK
  <2>3. \A a \in Evaluation!Evaluators :
          values'[a] \subseteq StillBelow(a) /\ (values'[a] # {} => life[a] = "live")
    BY <1>5, <2>1, StillInside
  <2> QED BY <1>5, <2>1, <2>2, <2>3, KeptIsFine
<1>6. CASE contexts[x].step = "customValue"
  <2>1. PICK o \in Evaluation!Evaluators :
          /\ IF Evaluation!OwnManager(e, o)
             THEN /\ GoesAndReaches(x, "running", x, values[o])
                  /\ UNCHANGED <<Evaluation!tree, Evaluation!factories, pending, answer, hops, values,
                                 aborted>>
             ELSE Evaluation!Abort("another memory manager")
          /\ Evaluation!Mix(e, Evaluation!IsDescendantOf(e, o))
    BY <1>1, <1>6, Zenon DEF Evaluation!ReturnFromHost, GoesAndReaches
  <2>2. PICK known \in BOOLEAN : known <=> Evaluation!IsDescendantOf(e, o)
    OBVIOUS
  <2>3. Evaluation!Mix(e, known)
    BY <2>1, <2>2 DEF Evaluation!Mix
  <2>4. MixedGrows /\ values[o] \subseteq StillBelow(e)
    BY <1>3, <2>2, <2>3, HandedInside DEF Evaluation!IsDescendantOf
  <2>5. CASE Evaluation!OwnManager(e, o)
    <3>1. PICK r \in SUBSET Evaluation!Evaluators : r = values[o]
      BY <1>4 DEF Evaluation!TypeOK
    <3>2. /\ GoesAndReaches(x, "running", x, r)
          /\ UNCHANGED <<Evaluation!tree, Evaluation!factories, pending, answer, hops, values>>
      BY <2>1, <2>5, <3>1
    <3>3. /\ ContextsKept
          /\ \A z \in Evaluation!Running \ {x} : contexts'[z].step = contexts[z].step
          /\ contexts'[x].reach = contexts[x].reach \cup r
          /\ \A z \in Evaluation!Running \ {x} : contexts'[z].reach = contexts[z].reach
      BY <1>2, <1>4, <3>2, ReachStepKeeps
    <3>4. \A z \in Evaluation!Running : GoesForward(z)' => GoesForward(z)
      BY <1>6, <3>3 DEF GoesForward
    <3>5. \A z \in Evaluation!Running : contexts'[z].reach \subseteq StillBelow(contexts[z].evaluator)
      BY <1>1, <2>4, <3>1, <3>3, StillInside
    <3> QED BY <1>5, <2>4, <3>2, <3>3, <3>4, <3>5
  <2>6. CASE ~Evaluation!OwnManager(e, o)
    BY <2>1, <2>4, <2>6, AbortIsFine DEF MixedGrows
  <2> QED BY <2>5, <2>6
<1>7. CASE contexts[x].step # "customValue"
  <2>1. /\ contexts' = [contexts EXCEPT ![x].step = "ended"]
        /\ UNCHANGED <<Evaluation!tree, Evaluation!factories, pending, answer, hops, values, mixed>>
    BY <1>7 DEF Evaluation!ReturnFromHost
  <2>2. /\ ContextsKept
        /\ contexts'[x].step = "ended"
        /\ \A y \in Evaluation!Running : contexts'[y].reach = contexts[y].reach
        /\ \A y \in Evaluation!Running \ {x} : contexts'[y] = contexts[y]
    BY <1>2, <1>4, <2>1, OneStepKeeps
  <2>3. MixedGrows
    BY <1>4, <2>1, NothingMixed
  <2>4. \A z \in Evaluation!Running : GoesForward(z)' => GoesForward(z)
    BY <2>2 DEF GoesForward
  <2>5. \A z \in Evaluation!Running : contexts'[z].reach \subseteq StillBelow(contexts[z].evaluator)
    BY <2>2, <2>3, StillInside
  <2> QED BY <1>5, <2>1, <2>2, <2>3, <2>4, <2>5
<1> QED BY <1>6, <1>7

(* Who reaches memory that was freed ends the program or goes on.          *)
LEMMA UseFreedIsFine ==
  ASSUME EvaluatorsInv, NEW x, Evaluation!UseFreed(x)
  PROVE  EvaluatorsInv'
<1>1. mixed' \subseteq Evaluation!Evaluators
  BY DEF Evaluation!UseFreed, EvaluatorsInv, Evaluation!TypeOK
<1> QED BY <1>1, AbortIsFine DEF Evaluation!UseFreed

(* What the counts count.                                                  *)
LEMMA Countable ==
  ASSUME Evaluation!TypeOK
  PROVE  \A e : /\ IsFiniteSet(Evaluation!In(e)) /\ IsFiniteSet(OwedTo(e))
                /\ Cardinality(Evaluation!In(e)) \in Nat /\ Cardinality(OwedTo(e)) \in Nat
<1>1. IsFiniteSet(Evaluation!Slots) /\ IsFiniteSet(Evaluation!Calls)
  BY Bounds, FS_Interval DEF Evaluation!Slots, Evaluation!Calls
<1>2. \A e : Evaluation!In(e) \subseteq Evaluation!Slots /\ OwedTo(e) \subseteq Evaluation!Calls
  BY DEF Evaluation!In, Evaluation!Running, OwedTo, Evaluation!Owed
<1>3. \A e : IsFiniteSet(Evaluation!In(e)) /\ IsFiniteSet(OwedTo(e))
  BY <1>1, <1>2, FS_Subset
<1> QED BY <1>3, FS_CardinalityType

LEMMA CountFits ==
  ASSUME \A e \in Evaluation!Evaluators :
           refcount'[e] = Cardinality(Evaluation!In(e)') + Cardinality(OwedTo(e)')
  PROVE  Evaluation!RefcountExact'
  BY SameCount DEF Evaluation!RefcountExact, OwedTo

LEMMA RunNonBlockingCustomValueIsFine ==
  ASSUME NEW x \in Evaluation!Slots, EvaluatorsInv, Evaluation!RunNonBlockingCustomValue(x)
  PROVE  EvaluatorsInv'
<1> DEFINE k == contexts[x].call
           e == contexts[x].evaluator
           owed == [evaluator |-> e, reach |-> contexts[x].reach]
<1> USE DEF EvaluatorsInv
<1>1. /\ x \in Evaluation!Running /\ contexts[x].step = "running"
      /\ contexts' = [contexts EXCEPT ![x].step = "nonBlockingCustomValue"]
      /\ hops' = [hops EXCEPT ![k] = @ + 1]
      /\ pending' = [pending EXCEPT ![k] = owed]
      /\ refcount' = [refcount EXCEPT ![e] = @ + 1]
      /\ Evaluation!AddResult(x)
      /\ UNCHANGED <<parent, life, forked, single, idle, created, mainInUse, answer, mixed>>
  BY DEF Evaluation!RunNonBlockingCustomValue, Evaluation!Enter, Evaluation!Steps, Evaluation!Running,
     Evaluation!AddReference, Evaluation!tree
<1>2. /\ e \in Evaluation!Evaluators /\ k \in Evaluation!Calls
      /\ contexts[x].reach \in SUBSET Evaluation!Evaluators
      /\ life[e] = "live"
  BY <1>1, RunningTyped DEF Evaluation!Contexts, Families
<1>3. /\ ContextsKept
      /\ contexts'[x].step = "nonBlockingCustomValue"
      /\ \A y \in Evaluation!Running : contexts'[y].reach = contexts[y].reach
      /\ \A y \in Evaluation!Running \ {x} : contexts'[y] = contexts[y]
  BY <1>1, OneStepKeeps
<1>4. k \notin Evaluation!Owed
  BY <1>1 DEF CallsApart, GoesForward
<1>5. owed \in Evaluation!Completions /\ owed # Nothing
  BY <1>2, Bounds DEF Evaluation!Completions
<1>6. /\ pending' \in [Evaluation!Calls -> Evaluation!Completions \cup {Nothing}]
      /\ pending'[k] = owed
      /\ \A j \in Evaluation!Calls \ {k} : pending'[j] = pending[j]
      /\ Evaluation!Owed' = Evaluation!Owed \cup {k}
  <2>1. /\ pending' \in [Evaluation!Calls -> Evaluation!Completions \cup {Nothing}]
        /\ pending'[k] = owed
        /\ \A j \in Evaluation!Calls \ {k} : pending'[j] = pending[j]
    BY <1>1, <1>2, <1>5 DEF Evaluation!TypeOK
  <2> QED BY <1>2, <1>5, <2>1 DEF Evaluation!Owed
<1>7. owed.evaluator = e /\ owed.reach = contexts[x].reach
  OBVIOUS
<1> HIDE DEF owed
<1>7a. MixedGrows
  BY <1>1, NothingMixed
<1>7b. /\ values' \in [Evaluation!Evaluators -> SUBSET Evaluation!Evaluators]
       /\ \A a \in Evaluation!Evaluators :
            values'[a] \subseteq StillBelow(a) /\ (values'[a] # {} => life[a] = "live")
  <2> HIDE DEF EvaluatorsInv
  <2> QED BY <1>1, <1>7a, GivesReach
<1>8. Evaluation!TypeOK'
  <2>1. /\ hops' \in [Evaluation!Calls -> Nat] /\ refcount' \in [Evaluation!Evaluators -> Nat]
    BY <1>1, <1>2 DEF Evaluation!TypeOK
  <2> QED BY <1>1, <1>3, <1>6, <1>7a, <1>7b, <2>1 DEF Evaluation!TypeOK, ContextsKept, MixedGrows
<1>9. Evaluation!Running' = Evaluation!Running
  BY <1>3 DEF ContextsKept
<1>10. Evaluation!Owed \subseteq Evaluation!Calls
  BY DEF Evaluation!Owed
<1>11. Families'
  <2>1. \A y \in Evaluation!Running : life[contexts'[y].evaluator] = "live"
    BY <1>3 DEF Families, ContextsKept
  <2>2. \A j \in Evaluation!Owed' : life[pending'[j].evaluator] = "live"
    BY <1>2, <1>4, <1>6, <1>7, <1>10 DEF Families
  <2> HIDE DEF EvaluatorsInv
  <2> QED BY <1>1, <1>9, <1>7b, <2>1, <2>2, SameFamilies
<1>12. CallsApart'
  <2>1. \A y \in Evaluation!Running : /\ GoesForward(y)' => GoesForward(y)
                                      /\ contexts[y].call = k => ~GoesForward(y)'
    BY <1>1, <1>3 DEF GoesForward, CallsApart
  <2>2. \A y, z \in Evaluation!Running : contexts'[y].call = contexts'[z].call =>
          /\ contexts'[y].evaluator = contexts'[z].evaluator
          /\ GoesForward(y)' /\ GoesForward(z)' => y = z
    BY <1>3, <2>1 DEF ContextsKept, CallsApart
  <2>3. \A y \in Evaluation!Running : contexts'[y].call \in Evaluation!Owed' =>
          /\ pending'[contexts'[y].call].evaluator = contexts'[y].evaluator
          /\ ~GoesForward(y)'
    <3>1. TAKE y \in Evaluation!Running
    <3>2. CASE contexts[y].call = k
      BY <1>1, <1>3, <1>6, <1>7, <2>1, <3>2 DEF ContextsKept, CallsApart
    <3>3. CASE contexts[y].call # k
      BY <1>3, <1>6, <1>10, <2>1, <3>3 DEF ContextsKept, CallsApart
    <3> QED BY <3>2, <3>3
  <2>4. answer[k] # "none"
    BY <1>1, <1>2 DEF CallsApart
  <2>5. \A j \in Evaluation!Calls :
          /\ answer[j] = "none" =>
               pending'[j] = Nothing /\ \A y \in Evaluation!Running : contexts'[y].call # j
          /\ answer[j] = "awaited" =>
               \E y \in Evaluation!Running : contexts'[y].call = j /\ contexts'[y].returns = "result"
    BY <1>3, <1>6, <2>4 DEF ContextsKept, CallsApart
  <2> QED BY <1>1, <1>9, <2>2, <2>3, <2>5 DEF CallsApart
<1>13. Evaluation!RefcountExact'
  <2>1. \A a : Evaluation!In(a)' = Evaluation!In(a)
    BY <1>3, KeptIn
  <2>2. PICK d \in Evaluation!Evaluators : d = e
    BY <1>2
  <2>3. \A a \in Evaluation!Evaluators :
          OwedTo(a)' = IF a = d THEN OwedTo(a) \cup {k} ELSE OwedTo(a)
    BY <1>2, <1>4, <1>6, <1>7, <1>10, <2>2 DEF OwedTo
  <2>4. Cardinality(OwedTo(d)') = Cardinality(OwedTo(d)) + 1
    <3>1. k \notin OwedTo(d)
      BY <1>4 DEF OwedTo
    <3>2. Cardinality(OwedTo(d) \cup {k}) = Cardinality(OwedTo(d)) + 1
      BY <3>1, Countable, FS_AddElement
    <3>3. OwedTo(d)' = OwedTo(d) \cup {k}
      BY <2>3
    <3> QED BY <3>2, <3>3
  <2>5. \A a \in Evaluation!Evaluators :
          refcount'[a] = IF a = d THEN refcount[a] + 1 ELSE refcount[a]
    BY <1>1, <2>2 DEF Evaluation!TypeOK
  <2>6. \A a \in Evaluation!Evaluators :
          refcount'[a] = Cardinality(Evaluation!In(a)') + Cardinality(OwedTo(a)')
    <3>1. TAKE a \in Evaluation!Evaluators
    <3>2. /\ refcount[a] = Cardinality(Evaluation!In(a)) + Cardinality(OwedTo(a))
          /\ Cardinality(Evaluation!In(a)) \in Nat /\ Cardinality(OwedTo(a)) \in Nat
      BY ExactMeans, Countable
    <3>3. Evaluation!In(a)' = Evaluation!In(a)
      BY <2>1
    <3>4. CASE a = d
      BY <2>3, <2>4, <2>5, <3>2, <3>3, <3>4
    <3>5. CASE a # d
      BY <2>3, <2>5, <3>2, <3>3, <3>5
    <3> QED BY <3>4, <3>5
  <2> QED BY <2>6, CountFits
<1>14. Managers'
  BY <1>1, <1>3, KeptManagers
<1>15. Evaluation!ValuesStayInside'
  <2> HIDE DEF EvaluatorsInv
  <2>1. \A y \in Evaluation!Running' : contexts'[y].reach \subseteq StillBelow(contexts'[y].evaluator)
    BY <1>3, <1>9, <1>7a, StillInside DEF ContextsKept
  <2>2. \A j \in Evaluation!Owed' : pending'[j].reach \subseteq StillBelow(pending'[j].evaluator)
    <3>1. TAKE j \in Evaluation!Owed'
    <3>2. CASE j = k
      BY <1>1, <1>6, <1>7, <1>7a, <3>2, StillInside
    <3>3. CASE j # k
      BY <1>6, <1>10, <1>7a, <3>3, StillInside
    <3> QED BY <3>2, <3>3
  <2> QED BY <1>1, <1>7b, <2>1, <2>2, ReachesInside
<1> QED BY <1>8, <1>11, <1>12, <1>13, <1>14, <1>15

-----------------------------------------------------------------------------
(* Contexts come and go.                                                   *)

(* What a factory lends is lent by nobody else, and not idle any more.     *)
LEMMA BorrowedIsFree ==
  ASSUME EvaluatorsInv, NEW e \in Evaluation!Evaluators, Evaluation!MayMakeContext(e),
         NEW b, b = Evaluation!Borrowed(e), NEW s, s = Evaluation!IdleAfter(e),
         NEW m, m = IF b > created[e] THEN b ELSE created[e]
  PROVE  /\ b \in Nat /\ b <= m /\ m \in Nat /\ created[e] <= m
         /\ s \in Seq(Nat)
         /\ \A x \in Evaluation!In(e) : contexts[x].manager # b
         /\ \A i \in 1..Len(s) : s[i] # b /\ s[i] <= m
         /\ \A i, j \in 1..Len(s) : s[i] = s[j] => i = j
         /\ \A x \in Evaluation!In(e) : \A i \in 1..Len(s) : contexts[x].manager # s[i]
         /\ Evaluation!SingleContext(e) => s = <<>> /\ m = 0 /\ Evaluation!In(e) = {}
<1> USE DEF EvaluatorsInv
<1>1. idle[e] \in Seq(Nat) /\ created[e] \in Nat
  BY DEF Evaluation!TypeOK
<1>2. \A x \in Evaluation!In(e) : x \in Evaluation!Running /\ contexts[x].evaluator = e
                                  /\ contexts[x].manager \in Nat /\ contexts[x].manager <= created[e]
  BY RunningTyped DEF Evaluation!In, Managers, Evaluation!Contexts
<1>3. \A x \in Evaluation!In(e) : \A i \in 1..Len(idle[e]) : contexts[x].manager # idle[e][i]
  <2>1. DOMAIN idle[e] = 1..Len(idle[e])
    BY <1>1
  <2>2. \A x \in Evaluation!Running : \A i \in DOMAIN idle[contexts[x].evaluator] :
          contexts[x].manager # idle[contexts[x].evaluator][i]
    BY DEF Managers, Evaluation!ManagersExclusive
  <2> QED BY <1>2, <2>1, <2>2
<1>4. /\ \A i \in 1..Len(idle[e]) : idle[e][i] <= created[e]
      /\ \A i, j \in 1..Len(idle[e]) : idle[e][i] = idle[e][j] => i = j
  BY DEF Managers
<1>5. CASE Evaluation!SingleContext(e)
  <2>1. idle[e] = <<>> /\ created[e] = 0 /\ Evaluation!In(e) = {}
    BY <1>5 DEF Managers, Evaluation!MayMakeContext
  <2>2. s = <<>> /\ b = 0
    BY <1>5, <2>1 DEF Evaluation!IdleAfter, Evaluation!Borrowed
  <2>3. m = 0
    BY <2>1, <2>2
  <2>4. s \in Seq(Nat) /\ 1..Len(s) = {}
    BY <1>1, <2>1, <2>2
  <2>5. b \in Nat /\ b <= m /\ m \in Nat /\ created[e] <= m
    BY <2>1, <2>2, <2>3
  <2>6. (\A x \in Evaluation!In(e) : FALSE) /\ (\A i \in 1..Len(s) : FALSE)
    BY <2>1, <2>4
  <2> HIDE DEF EvaluatorsInv
  <2> QED BY <2>1, <2>2, <2>3, <2>4, <2>5, <2>6
<1>6. CASE ~Evaluation!SingleContext(e) /\ idle[e] = <<>>
  <2>1. s = <<>> /\ b = created[e] + 1
    BY <1>6 DEF Evaluation!IdleAfter, Evaluation!Borrowed
  <2>2. b \in Nat /\ m = b /\ created[e] <= m
    BY <1>1, <2>1
  <2>3. \A x \in Evaluation!In(e) : contexts[x].manager # b
    BY <1>1, <1>2, <2>1
  <2> QED BY <1>6, <2>1, <2>2, <2>3
<1>7. CASE ~Evaluation!SingleContext(e) /\ idle[e] # <<>>
  <2>1. Len(idle[e]) \in Nat \ {0} /\ Len(idle[e]) \in 1..Len(idle[e])
    BY <1>1, <1>7
  <2>2. b = idle[e][Len(idle[e])] /\ s = SubSeq(idle[e], 1, Len(idle[e]) - 1)
    BY <1>7 DEF Evaluation!IdleAfter, Evaluation!Borrowed
  <2>3. b \in Nat /\ m \in Nat /\ b <= m /\ created[e] <= m /\ m = created[e]
    BY <1>1, <1>4, <2>1, <2>2
  <2>4. /\ s \in Seq(Nat) /\ Len(s) = Len(idle[e]) - 1
        /\ \A i \in 1..Len(s) : s[i] = idle[e][i] /\ i \in 1..Len(idle[e]) /\ i # Len(idle[e])
    <3> HIDE DEF EvaluatorsInv
    <3>1. Len(idle[e]) - 1 \in Nat /\ Len(idle[e]) - 1 <= Len(idle[e])
      BY <2>1
    <3> DEFINE q == idle[e]
               n == Len(q) - 1
    <3> HIDE DEF q
    <3>2. s = SubSeq(q, 1, n) /\ q \in Seq(Nat) /\ n \in Nat /\ n <= Len(q)
      BY <1>1, <2>1, <2>2, <3>1 DEF q
    <3> HIDE DEF n
    <3>3. /\ SubSeq(q, 1, n) \in Seq(Nat) /\ Len(SubSeq(q, 1, n)) = n
          /\ \A i \in 1..n : SubSeq(q, 1, n)[i] = q[i]
      BY <3>2
    <3>4. \A i \in 1..(Len(idle[e]) - 1) : i \in 1..Len(idle[e]) /\ i # Len(idle[e])
      BY <2>1, <3>1
    <3> QED BY <3>2, <3>3, <3>4 DEF q, n
  <2>5. \A i \in 1..Len(s) : s[i] # b /\ s[i] <= m
    BY <1>4, <2>1, <2>2, <2>3, <2>4
  <2>6. \A i, j \in 1..Len(s) : s[i] = s[j] => i = j
    BY <1>4, <2>4
  <2>7. \A x \in Evaluation!In(e) :
          contexts[x].manager # b /\ \A i \in 1..Len(s) : contexts[x].manager # s[i]
    BY <1>3, <2>1, <2>2, <2>4
  <2> HIDE DEF EvaluatorsInv
  <2> QED BY <1>7, <2>3, <2>4, <2>5, <2>6, <2>7, Zenon
<1> QED BY <1>5, <1>6, <1>7

LEMMA NewContextAdds ==
  ASSUME EvaluatorsInv, NEW e \in Evaluation!Evaluators, Evaluation!MayMakeContext(e),
         NEW c, c.evaluator = e, c.manager = Evaluation!Borrowed(e),
         Evaluation!Borrowed(e) \in Nat => c \in Evaluation!Contexts,
         Evaluation!NewContext(e, c), UNCHANGED single
  PROVE  \E n \in Evaluation!Slots \ Evaluation!Running :
           /\ c \in Evaluation!Contexts
           /\ contexts' \in [Evaluation!Slots -> Evaluation!Contexts \cup {Nothing}]
           /\ contexts'[n] = c
           /\ \A x \in Evaluation!Running : contexts'[x] = contexts[x]
           /\ Evaluation!Running' = Evaluation!Running \cup {n}
           /\ \A a : Evaluation!In(a)' =
                IF a = e THEN Evaluation!In(a) \cup {n} ELSE Evaluation!In(a)
           /\ idle' \in [Evaluation!Evaluators -> Seq(Nat)]
           /\ created' \in [Evaluation!Evaluators -> Nat]
           /\ mainInUse' \in [Evaluation!Evaluators -> BOOLEAN]
           /\ Managers'
<1> USE DEF EvaluatorsInv
<1>1. PICK b, s, m : /\ b = Evaluation!Borrowed(e) /\ s = Evaluation!IdleAfter(e)
                     /\ m = IF b > created[e] THEN b ELSE created[e]
  OBVIOUS
<1>2. /\ b \in Nat /\ b <= m /\ m \in Nat /\ created[e] <= m
      /\ s \in Seq(Nat)
      /\ \A x \in Evaluation!In(e) : contexts[x].manager # b
      /\ \A i \in 1..Len(s) : s[i] # b /\ s[i] <= m
      /\ \A i, j \in 1..Len(s) : s[i] = s[j] => i = j
      /\ \A x \in Evaluation!In(e) : \A i \in 1..Len(s) : contexts[x].manager # s[i]
      /\ Evaluation!SingleContext(e) => s = <<>> /\ m = 0 /\ Evaluation!In(e) = {}
  BY <1>1, BorrowedIsFree
<1>3. PICK n \in Evaluation!Slots \ Evaluation!Running : n = Evaluation!Least(Evaluation!Slots \ Evaluation!Running)
  <2>1. /\ Evaluation!Slots \ Evaluation!Running # {}
        /\ Evaluation!Slots \ Evaluation!Running \subseteq Nat
    BY Bounds DEF Evaluation!NewContext, Evaluation!Slots, Evaluation!Running
  <2> QED BY <2>1, LeastIsMember
<1>4. /\ contexts' = [contexts EXCEPT ![n] = c]
      /\ mainInUse' = [mainInUse EXCEPT ![e] = @ \/ Evaluation!SingleContext(e)]
      /\ idle' = [idle EXCEPT ![e] = s]
      /\ created' = [created EXCEPT ![e] = m]
  BY <1>1, <1>3 DEF Evaluation!NewContext
<1>5. c \in Evaluation!Contexts /\ c # Nothing
  BY <1>1, <1>2, Bounds
<1>6. /\ contexts' \in [Evaluation!Slots -> Evaluation!Contexts \cup {Nothing}]
      /\ contexts'[n] = c
      /\ \A x \in Evaluation!Slots \ {n} : contexts'[x] = contexts[x]
  BY <1>3, <1>4, <1>5 DEF Evaluation!TypeOK
<1>7. Evaluation!Running' = Evaluation!Running \cup {n}
  BY <1>3, <1>5, <1>6 DEF Evaluation!Running
<1>8. Evaluation!Running \subseteq Evaluation!Slots
  BY DEF Evaluation!Running
<1>9. \A a : Evaluation!In(a)' = IF a = e THEN Evaluation!In(a) \cup {n} ELSE Evaluation!In(a)
  BY <1>3, <1>6, <1>7, <1>8 DEF Evaluation!In
<1>10. /\ idle' \in [Evaluation!Evaluators -> Seq(Nat)] /\ idle'[e] = s
       /\ \A a \in Evaluation!Evaluators \ {e} : idle'[a] = idle[a]
  BY <1>2, <1>4 DEF Evaluation!TypeOK
<1>11. /\ created' \in [Evaluation!Evaluators -> Nat] /\ created'[e] = m
       /\ \A a \in Evaluation!Evaluators \ {e} : created'[a] = created[a]
  BY <1>2, <1>4 DEF Evaluation!TypeOK
<1>12. /\ mainInUse' \in [Evaluation!Evaluators -> BOOLEAN]
       /\ mainInUse'[e] <=> mainInUse[e] \/ Evaluation!SingleContext(e)
       /\ \A a \in Evaluation!Evaluators \ {e} : mainInUse'[a] = mainInUse[a]
  BY <1>4 DEF Evaluation!TypeOK, Evaluation!SingleContext
<1>13. Evaluation!ManagersExclusive'
  <2>1. \A x, y \in Evaluation!Running \cup {n} :
          contexts'[x].evaluator = contexts'[y].evaluator
            /\ contexts'[x].manager = contexts'[y].manager => x = y
    <3>1. \A x, y \in Evaluation!Running :
            contexts[x].evaluator = contexts[y].evaluator
              /\ contexts[x].manager = contexts[y].manager => x = y
      BY DEF Managers, Evaluation!ManagersExclusive
    <3>2. \A x \in Evaluation!Running : contexts[x].evaluator = e => contexts[x].manager # b
      BY <1>2 DEF Evaluation!In
    <3>3. c.evaluator = e /\ c.manager = b
      BY <1>1
    <3>4. \A x \in Evaluation!Running : contexts'[x] = contexts[x]
      BY <1>6, <1>8
    <3>5. TAKE x, y \in Evaluation!Running \cup {n}
    <3>6. CASE x = n /\ y = n
      BY <3>6
    <3>7. CASE x = n /\ y # n
      BY <1>6, <3>2, <3>3, <3>4, <3>7
    <3>8. CASE x # n /\ y = n
      BY <1>6, <3>2, <3>3, <3>4, <3>8
    <3>9. CASE x # n /\ y # n
      BY <3>1, <3>4, <3>9
    <3> QED BY <3>6, <3>7, <3>8, <3>9
  <2>2. \A x \in Evaluation!Running \cup {n} : \A i \in DOMAIN idle'[contexts'[x].evaluator] :
          contexts'[x].manager # idle'[contexts'[x].evaluator][i]
    <3>1. TAKE x \in Evaluation!Running \cup {n}
    <3>2. DOMAIN s = 1..Len(s)
      BY <1>2
    <3>3. CASE x = n
      BY <1>1, <1>2, <1>6, <1>10, <3>2, <3>3
    <3>4. CASE x # n /\ contexts[x].evaluator = e
      <4>1. x \in Evaluation!In(e) /\ contexts'[x] = contexts[x]
        BY <1>6, <1>8, <3>4 DEF Evaluation!In
      <4> QED BY <1>2, <1>10, <3>2, <3>4, <4>1
    <3>5. CASE x # n /\ contexts[x].evaluator # e
      <4>1. x \in Evaluation!Running /\ contexts[x].evaluator \in Evaluation!Evaluators
            /\ contexts'[x] = contexts[x]
        BY <1>6, <1>8, <3>5, RunningTyped DEF Evaluation!Contexts
      <4>2. \A i \in DOMAIN idle[contexts[x].evaluator] :
              contexts[x].manager # idle[contexts[x].evaluator][i]
        BY <4>1 DEF Managers, Evaluation!ManagersExclusive
      <4> QED BY <1>10, <3>5, <4>1, <4>2
    <3> QED BY <3>3, <3>4, <3>5
  <2> QED BY <1>7, <2>1, <2>2 DEF Evaluation!ManagersExclusive
<1>14. ASSUME NEW a \in Evaluation!Evaluators
       PROVE  /\ Evaluation!SingleContext(a) =>
                   /\ idle'[a] = <<>> /\ created'[a] = 0
                   /\ mainInUse'[a] <=> Evaluation!In(a)' # {}
              /\ ~Evaluation!SingleContext(a) => ~mainInUse'[a]
              /\ \A i \in 1..Len(idle'[a]) : idle'[a][i] <= created'[a]
              /\ \A i, j \in 1..Len(idle'[a]) : idle'[a][i] = idle'[a][j] => i = j
  <2>1. CASE a = e
    <3>1. Evaluation!In(a)' # {}
      BY <1>9, <2>1
    <3>2. ~Evaluation!SingleContext(a) => ~mainInUse'[a]
      BY <1>12, <2>1 DEF Managers
    <3>3. Evaluation!SingleContext(a) => idle'[a] = <<>> /\ created'[a] = 0 /\ mainInUse'[a]
      BY <1>2, <1>10, <1>11, <1>12, <2>1
    <3>4. /\ \A i \in 1..Len(idle'[a]) : idle'[a][i] <= created'[a]
          /\ \A i, j \in 1..Len(idle'[a]) : idle'[a][i] = idle'[a][j] => i = j
      BY <1>2, <1>10, <1>11, <2>1
    <3> QED BY <3>1, <3>2, <3>3, <3>4
  <2>2. CASE a # e
    <3>1. /\ Evaluation!In(a)' = Evaluation!In(a) /\ idle'[a] = idle[a]
          /\ created'[a] = created[a] /\ mainInUse'[a] = mainInUse[a]
      BY <1>9, <1>10, <1>11, <1>12, <2>2
    <3>2. Managers
      OBVIOUS
    <3> HIDE DEF EvaluatorsInv
    <3> QED BY <3>1, <3>2 DEF Managers
  <2> QED BY <2>1, <2>2
<1>15. \A x \in Evaluation!Running \cup {n} : contexts'[x].manager <= created'[contexts'[x].evaluator]
  <2>1. TAKE x \in Evaluation!Running \cup {n}
  <2>2. CASE x = n
    BY <1>1, <1>2, <1>6, <1>11, <2>2
  <2>3. CASE x # n
    <3>1. /\ contexts'[x] = contexts[x] /\ contexts[x].manager \in Nat
          /\ contexts[x].evaluator \in Evaluation!Evaluators
          /\ contexts[x].manager <= created[contexts[x].evaluator]
      BY <1>6, <1>8, <2>3, RunningTyped DEF Evaluation!Contexts, Managers
    <3>2. created[e] \in Nat
      BY DEF Evaluation!TypeOK
    <3> QED BY <1>2, <1>11, <3>1, <3>2
  <2> QED BY <2>2, <2>3
<1>16. Managers'
  <2>1. \A a : Evaluation!SingleContext(a)' <=> Evaluation!SingleContext(a)
    BY DEF Evaluation!SingleContext
  <2> QED BY <1>7, <1>13, <1>14, <1>15, <2>1 DEF Managers
<1> QED BY <1>3, <1>5, <1>6, <1>7, <1>8, <1>9, <1>10, <1>11, <1>12, <1>16

(* What a new context is for belongs to one call; its reach is inside.     *)
LEMMA BegunIsFine ==
  ASSUME EvaluatorsInv, MixedGrows,
         NEW n \in Evaluation!Slots \ Evaluation!Running, NEW c \in Evaluation!Contexts,
         contexts' \in [Evaluation!Slots -> Evaluation!Contexts \cup {Nothing}],
         contexts'[n] = c,
         \A x \in Evaluation!Running : contexts'[x] = contexts[x],
         Evaluation!Running' = Evaluation!Running \cup {n},
         idle' \in [Evaluation!Evaluators -> Seq(Nat)],
         created' \in [Evaluation!Evaluators -> Nat],
         mainInUse' \in [Evaluation!Evaluators -> BOOLEAN],
         refcount' \in [Evaluation!Evaluators -> Nat],
         pending' \in [Evaluation!Calls -> Evaluation!Completions \cup {Nothing}],
         answer' \in [Evaluation!Calls -> {"none", "awaited", "promised", "given"}],
         UNCHANGED <<parent, life, forked, single, hops, values>>,
         \A k \in Evaluation!Calls : pending'[k] = IF k = c.call THEN Nothing ELSE pending[k],
         \A k \in Evaluation!Calls \ {c.call} : answer'[k] = answer[k],
         answer'[c.call] # "none",
         answer'[c.call] = "awaited" =>
           c.returns = "result" \/ answer[c.call] = "awaited",
         life[c.evaluator] = "live",
         c.reach \subseteq StillBelow(c.evaluator),
         \A x \in Evaluation!Running : contexts[x].call = c.call =>
           contexts[x].evaluator = c.evaluator /\ ~GoesForward(x)
  PROVE  Evaluation!TypeOK' /\ Families' /\ CallsApart' /\ Evaluation!ValuesStayInside'
<1> USE DEF EvaluatorsInv
<1>1. Evaluation!TypeOK'
  BY DEF Evaluation!TypeOK, MixedGrows
<1>2. /\ Evaluation!Owed' = Evaluation!Owed \ {c.call}
      /\ Evaluation!Owed \subseteq Evaluation!Calls
      /\ Evaluation!Running \subseteq Evaluation!Slots
      /\ c.call \in Evaluation!Calls
  BY DEF Evaluation!Owed, Evaluation!Running, Evaluation!Contexts
<1>3. \A k \in Evaluation!Owed' : pending'[k] = pending[k] /\ k \in Evaluation!Owed
  BY <1>2
<1>0. \A x \in Evaluation!Running' \ {n} : x \in Evaluation!Running /\ contexts'[x] = contexts[x]
  OBVIOUS
<1>4. Families'
  <2>1. \A x \in Evaluation!Running' : life[contexts'[x].evaluator] = "live"
    <3>1. \A x \in Evaluation!Running : life[contexts[x].evaluator] = "live"
      BY DEF Families
    <3> QED BY <1>0, <3>1
  <2>2. \A k \in Evaluation!Owed' : life[pending'[k].evaluator] = "live"
    BY <1>3 DEF Families
  <2>3. \A e \in Evaluation!Evaluators : values'[e] # {} => life[e] = "live"
    BY DEF Families
  <2> HIDE DEF EvaluatorsInv
  <2> QED BY <2>1, <2>2, <2>3, SameFamilies
<1>5. CallsApart'
  <2>1. \A x \in Evaluation!Running : GoesForward(x)' <=> GoesForward(x)
    BY DEF GoesForward
  <2>2. \A x, y \in Evaluation!Running' : contexts'[x].call = contexts'[y].call =>
          /\ contexts'[x].evaluator = contexts'[y].evaluator
          /\ GoesForward(x)' /\ GoesForward(y)' => x = y
    <3>1. TAKE x, y \in Evaluation!Running'
    <3>2. CASE x = n /\ y = n
      BY <3>2
    <3>3. CASE x = n /\ y # n
      BY <2>1, <3>3
    <3>4. CASE x # n /\ y = n
      BY <2>1, <3>4
    <3>5. CASE x # n /\ y # n
      <4>1. contexts[x].call = contexts[y].call =>
              /\ contexts[x].evaluator = contexts[y].evaluator
              /\ GoesForward(x) /\ GoesForward(y) => x = y
        BY <1>0, <3>5 DEF CallsApart
      <4> QED BY <1>0, <2>1, <3>5, <4>1
    <3> QED BY <3>2, <3>3, <3>4, <3>5
  <2>3. \A x \in Evaluation!Running' : contexts'[x].call \in Evaluation!Owed' =>
          /\ pending'[contexts'[x].call].evaluator = contexts'[x].evaluator
          /\ ~GoesForward(x)'
    <3>1. TAKE x \in Evaluation!Running'
    <3>2. CASE x = n
      BY <1>2, <3>2
    <3>3. CASE x # n
      <4>1. contexts[x].call \in Evaluation!Owed =>
              pending[contexts[x].call].evaluator = contexts[x].evaluator /\ ~GoesForward(x)
        BY <1>0, <3>3 DEF CallsApart
      <4> QED BY <1>0, <1>3, <2>1, <3>3, <4>1
    <3> QED BY <3>2, <3>3
  <2>4. \A k \in Evaluation!Calls :
          /\ answer'[k] = "none" =>
               pending'[k] = Nothing /\ \A x \in Evaluation!Running' : contexts'[x].call # k
          /\ answer'[k] = "awaited" =>
               \E x \in Evaluation!Running' : contexts'[x].call = k /\ contexts'[x].returns = "result"
    <3>1. TAKE k \in Evaluation!Calls
    <3>2. CASE k = c.call
      <4>1. answer[k] = "awaited" =>
              \E x \in Evaluation!Running : contexts[x].call = k /\ contexts[x].returns = "result"
        BY DEF CallsApart
      <4> QED BY <3>2, <4>1
    <3>3. CASE k # c.call
      <4>1. /\ answer[k] = "none" =>
                 pending[k] = Nothing /\ \A x \in Evaluation!Running : contexts[x].call # k
            /\ answer[k] = "awaited" =>
                 \E x \in Evaluation!Running : contexts[x].call = k /\ contexts[x].returns = "result"
        BY DEF CallsApart
      <4>2. answer'[k] = answer[k] /\ pending'[k] = pending[k]
        BY <3>3
      <4>3. ASSUME answer[k] = "none"
            PROVE  pending'[k] = Nothing /\ \A x \in Evaluation!Running' : contexts'[x].call # k
        BY <1>0, <3>3, <4>1, <4>2, <4>3
      <4>4. ASSUME answer[k] = "awaited"
            PROVE  \E x \in Evaluation!Running' :
                     contexts'[x].call = k /\ contexts'[x].returns = "result"
        <5>1. PICK x \in Evaluation!Running :
                contexts[x].call = k /\ contexts[x].returns = "result"
          BY <4>1, <4>4
        <5>2. x \in Evaluation!Running' /\ contexts'[x] = contexts[x]
          OBVIOUS
        <5> QED BY <5>1, <5>2
      <4> QED BY <4>2, <4>3, <4>4
    <3> QED BY <3>2, <3>3
  <2> QED BY <2>2, <2>3, <2>4 DEF CallsApart
<1> HIDE DEF EvaluatorsInv
<1>6. Evaluation!ValuesStayInside'
  <2>1. \A x \in Evaluation!Running' : contexts'[x].reach \subseteq StillBelow(contexts'[x].evaluator)
    <3>1. TAKE x \in Evaluation!Running'
    <3>2. CASE x = n
      BY <3>2
    <3>3. CASE x # n
      BY <1>0, <3>3, StillInside
    <3> QED BY <3>2, <3>3
  <2>2. \A k \in Evaluation!Owed' : pending'[k].reach \subseteq StillBelow(pending'[k].evaluator)
    BY <1>3, StillInside
  <2>3. \A e \in Evaluation!Evaluators : values'[e] \subseteq StillBelow(e)
    BY StillInside
  <2> QED BY <2>1, <2>2, <2>3, ReachesInside
<1> QED BY <1>1, <1>4, <1>5, <1>6

LEMMA InGrows ==
  ASSUME Evaluation!TypeOK, NEW n \in Evaluation!Slots \ Evaluation!Running, NEW e,
         \A a : Evaluation!In(a)' = IF a = e THEN Evaluation!In(a) \cup {n} ELSE Evaluation!In(a)
  PROVE  \A a : Cardinality(Evaluation!In(a)') =
                  IF a = e THEN Cardinality(Evaluation!In(a)) + 1 ELSE Cardinality(Evaluation!In(a))
<1>1. n \notin Evaluation!In(e)
  BY DEF Evaluation!In
<1>2. Cardinality(Evaluation!In(e) \cup {n}) = Cardinality(Evaluation!In(e)) + 1
  BY <1>1, Countable, FS_AddElement
<1>3. TAKE a
<1>4. CASE a = e
  <2>1. Evaluation!In(e)' = Evaluation!In(e) \cup {n}
    OBVIOUS
  <2> QED BY <1>2, <1>4, <2>1
<1>5. CASE a # e
  BY <1>5
<1> QED BY <1>4, <1>5

(* A call starts where the values that it works on are valid, or ends the  *)
(* program.                                                                *)
LEMMA StartIsFine ==
  ASSUME EvaluatorsInv, MixedGrows, NEW k \in Evaluation!Calls, answer[k] = "none",
         NEW e \in Evaluation!Evaluators \cup {Nothing}, NEW r,
         e # Nothing /\ ~forked[e] => life[e] = "live" /\ r \subseteq StillBelow(e),
         NEW caller \in Evaluation!Slots \cup {Nothing}, NEW blocking \in BOOLEAN,
         Evaluation!Start(k, e, r, caller, blocking)
  PROVE  EvaluatorsInv'
<1>0. mixed' \subseteq Evaluation!Evaluators
  BY DEF MixedGrows
<1>1. CASE e = Nothing
  <2>1. Evaluation!Abort("independent evaluators")
    BY <1>1, Zenon DEF Evaluation!Start, Evaluation!NotForked
  <2> QED BY <1>0, <2>1, AbortIsFine, Zenon
<1>2. CASE e # Nothing /\ forked[e]
  <2>1. Evaluation!Abort("used after Fork")
    BY <1>2, Zenon DEF Evaluation!Start, Evaluation!NotForked
  <2> QED BY <1>0, <2>1, AbortIsFine, Zenon
<1>3. CASE e # Nothing /\ ~forked[e] /\ ~Evaluation!MayMakeContext(e)
  <2>1. Evaluation!Abort("several contexts")
    BY <1>3, Zenon DEF Evaluation!Start, Evaluation!NotForked
  <2> QED BY <1>0, <2>1, AbortIsFine, Zenon
<1>4. CASE e # Nothing /\ ~forked[e] /\ Evaluation!MayMakeContext(e)
  <2> DEFINE new == [evaluator |-> e, manager |-> Evaluation!Borrowed(e), call |-> k,
                     step |-> "running", reach |-> r \cup {e}, caller |-> caller,
                     returns |-> IF blocking THEN "result" ELSE "nothing"]
             wait == IF blocking THEN "awaited" ELSE "promised"
  <2>1. /\ Evaluation!NewContext(e, new)
        /\ Evaluation!AddReference(e)
        /\ answer' = [answer EXCEPT ![k] = wait]
        /\ UNCHANGED <<Evaluation!tree, pending, hops, values>>
    BY <1>4, Zenon DEF Evaluation!Start, Evaluation!NotForked
  <2>2. UNCHANGED <<parent, life, forked, single>>
    BY <2>1 DEF Evaluation!tree
  <2>3. e \in Evaluation!Evaluators /\ life[e] = "live" /\ r \subseteq StillBelow(e) /\ e \in StillBelow(e)
    BY <1>4, BelowItself, BelowStays
  <2>4. StillBelow(e) \subseteq Evaluation!Evaluators
    BY BelowStays
  <2>5. PICK c : c = new
    OBVIOUS
  <2>6. /\ c.evaluator = e /\ c.manager = Evaluation!Borrowed(e) /\ c.call = k
        /\ c.step = "running" /\ c.reach = r \cup {e} /\ (c.returns = "result" <=> blocking)
        /\ Evaluation!Borrowed(e) \in Nat => c \in Evaluation!Contexts
    BY <2>3, <2>4, <2>5 DEF Evaluation!Contexts
  <2>7. Evaluation!NewContext(e, c)
    BY <2>1, <2>5
  <2>8. PICK n \in Evaluation!Slots \ Evaluation!Running :
          /\ c \in Evaluation!Contexts
          /\ contexts' \in [Evaluation!Slots -> Evaluation!Contexts \cup {Nothing}]
          /\ contexts'[n] = c
          /\ \A x \in Evaluation!Running : contexts'[x] = contexts[x]
          /\ Evaluation!Running' = Evaluation!Running \cup {n}
          /\ \A a : Evaluation!In(a)' =
               IF a = e THEN Evaluation!In(a) \cup {n} ELSE Evaluation!In(a)
          /\ idle' \in [Evaluation!Evaluators -> Seq(Nat)]
          /\ created' \in [Evaluation!Evaluators -> Nat]
          /\ mainInUse' \in [Evaluation!Evaluators -> BOOLEAN]
          /\ Managers'
    BY <1>4, <2>2, <2>3, <2>6, <2>7, NewContextAdds
  <2>9. /\ refcount' \in [Evaluation!Evaluators -> Nat]
        /\ \A a \in Evaluation!Evaluators : refcount'[a] = IF a = e THEN refcount[a] + 1 ELSE refcount[a]
    BY <2>1, <2>3 DEF Evaluation!AddReference, EvaluatorsInv, Evaluation!TypeOK
  <2>10. /\ answer' \in [Evaluation!Calls -> {"none", "awaited", "promised", "given"}]
         /\ answer'[k] = wait
         /\ \A j \in Evaluation!Calls \ {k} : answer'[j] = answer[j]
    BY <2>1 DEF EvaluatorsInv, Evaluation!TypeOK
  <2>11. /\ pending' = pending /\ pending \in [Evaluation!Calls -> Evaluation!Completions \cup {Nothing}]
         /\ pending[k] = Nothing /\ \A x \in Evaluation!Running : contexts[x].call # k
    BY <2>1 DEF EvaluatorsInv, CallsApart, Evaluation!TypeOK
  <2>12. /\ \A j \in Evaluation!Calls : pending'[j] = IF j = c.call THEN Nothing ELSE pending[j]
         /\ \A j \in Evaluation!Calls \ {c.call} : answer'[j] = answer[j]
         /\ answer'[c.call] # "none"
         /\ answer'[c.call] = "awaited" => c.returns = "result" \/ answer[c.call] = "awaited"
         /\ c.reach \subseteq StillBelow(c.evaluator)
         /\ \A x \in Evaluation!Running : contexts[x].call = c.call =>
              contexts[x].evaluator = c.evaluator /\ ~GoesForward(x)
    BY <2>3, <2>6, <2>10, <2>11
  <2>13. Evaluation!TypeOK' /\ Families' /\ CallsApart' /\ Evaluation!ValuesStayInside'
    <3>1. /\ UNCHANGED <<parent, life, forked, single, hops, values>>
          /\ pending' \in [Evaluation!Calls -> Evaluation!Completions \cup {Nothing}]
          /\ life[c.evaluator] = "live"
      BY <2>1, <2>2, <2>3, <2>6, <2>11
    <3> HIDE DEF new, wait
    <3> QED BY <2>8, <2>9, <2>10, <2>12, <3>1, BegunIsFine
  <2>14. Evaluation!RefcountExact'
    <3>1. Evaluation!TypeOK
      BY DEF EvaluatorsInv
    <3>2. \A a : Cardinality(Evaluation!In(a)') =
                   IF a = e THEN Cardinality(Evaluation!In(a)) + 1 ELSE Cardinality(Evaluation!In(a))
      BY <2>8, <3>1, InGrows
    <3>3. \A a : OwedTo(a)' = OwedTo(a)
      BY <2>1 DEF OwedTo, Evaluation!Owed
    <3>4. ASSUME NEW a \in Evaluation!Evaluators
          PROVE  refcount'[a] = Cardinality(Evaluation!In(a)') + Cardinality(OwedTo(a)')
      <4>1. /\ refcount[a] = Cardinality(Evaluation!In(a)) + Cardinality(OwedTo(a))
            /\ Cardinality(Evaluation!In(a)) \in Nat /\ Cardinality(OwedTo(a)) \in Nat
        BY <3>1, ExactMeans, Countable DEF EvaluatorsInv
      <4>2. OwedTo(a)' = OwedTo(a)
        BY <3>3
      <4>3. CASE a = e
        BY <2>9, <3>2, <4>1, <4>2, <4>3
      <4>4. CASE a # e
        BY <2>9, <3>2, <4>1, <4>2, <4>4
      <4> QED BY <4>3, <4>4
    <3> QED BY <3>4, CountFits
  <2> QED BY <2>8, <2>13, <2>14 DEF EvaluatorsInv
<1> QED BY <1>1, <1>2, <1>3, <1>4

LEMMA InternalCallIsFine ==
  ASSUME EvaluatorsInv, NEW e \in Evaluation!Evaluators, NEW o \in Evaluation!Evaluators,
         NEW caller \in Evaluation!HostThreads, NEW blocking \in BOOLEAN,
         Evaluation!InternalCall(e, o, caller, blocking)
  PROVE  EvaluatorsInv'
<1>1. PICK k : k = Evaluation!NextCall
  OBVIOUS
<1>2. k \in Evaluation!Calls /\ answer[k] = "none"
  <2> DEFINE S == {j \in Evaluation!Calls : answer[j] = "none"}
  <2>1. S # {} /\ S \subseteq Nat
    BY Bounds DEF Evaluation!InternalCall, Evaluation!MayCall, Evaluation!Calls
  <2>2. Evaluation!Least(S) \in S
    BY <2>1, LeastIsMember
  <2> QED BY <1>1, <2>2 DEF Evaluation!NextCall
<1>3. PICK c, r : c = Evaluation!FindCommonEvaluator(e, o) /\ r = values[e] \cup values[o]
  OBVIOUS
<1>4. c \in Evaluation!Evaluators \cup {Nothing}
  BY <1>3 DEF Evaluation!FindCommonEvaluator
<1>5. caller \in Evaluation!Slots \cup {Nothing}
  BY DEF Evaluation!HostThreads, Evaluation!Running
<1>0. MixedGrows
  BY NothingMixed DEF Evaluation!InternalCall, EvaluatorsInv
<1>6. c # Nothing /\ ~forked[c] => life[c] = "live" /\ r \subseteq StillBelow(c)
  <2> SUFFICES ASSUME c # Nothing, ~forked[c]
               PROVE  life[c] = "live" /\ r \subseteq StillBelow(c)
    OBVIOUS
  <2>1. c \in {e, o} /\ e \in Evaluation!Ancestors(c) /\ o \in Evaluation!Ancestors(c)
    BY <1>3, CommonIsBelow
  <2>2. values[e] \subseteq Below(c) /\ values[o] \subseteq Below(c)
    BY <2>1, ValuesOfAncestor
  <2>3. life[e] = "live" /\ life[o] = "live"
    BY DEF Evaluation!InternalCall, Evaluation!HasValues, EvaluatorsInv, Families
  <2> QED BY <1>0, <1>3, <2>1, <2>2, <2>3, BelowStays
<1>7. Evaluation!Start(k, c, r, caller, blocking)
  BY <1>1, <1>3 DEF Evaluation!InternalCall
<1> QED BY <1>0, <1>2, <1>4, <1>5, <1>6, <1>7, StartIsFine

LEMMA EvaluateIsFine ==
  ASSUME EvaluatorsInv, NEW e \in Evaluation!Evaluators, NEW o \in Evaluation!Evaluators,
         NEW caller \in Evaluation!HostThreads, Evaluation!Evaluate(e, o, caller)
  PROVE  EvaluatorsInv'
<1>1. PICK k : k = Evaluation!NextCall
  OBVIOUS
<1>2. k \in Evaluation!Calls /\ answer[k] = "none"
  <2> DEFINE S == {j \in Evaluation!Calls : answer[j] = "none"}
  <2>1. S # {} /\ S \subseteq Nat
    BY Bounds DEF Evaluation!Evaluate, Evaluation!MayCall, Evaluation!Calls
  <2>2. Evaluation!Least(S) \in S
    BY <2>1, LeastIsMember
  <2> QED BY <1>1, <2>2 DEF Evaluation!NextCall
<1>3. PICK r : r = values[o]
  OBVIOUS
<1>4. caller \in Evaluation!Slots \cup {Nothing}
  BY DEF Evaluation!HostThreads, Evaluation!Running
<1>5. PICK known \in BOOLEAN : known <=> Evaluation!FindCommonEvaluator(e, o) # Nothing
  OBVIOUS
<1>6. Evaluation!Mix(e, known)
  BY <1>5 DEF Evaluation!Evaluate, Evaluation!Mix
<1>7. MixedGrows
  BY <1>6, MixGrows DEF EvaluatorsInv
<1>8. ~forked[e] => life[e] = "live" /\ r \subseteq StillBelow(e)
  BY <1>3, <1>5, <1>6, RelativeIsAncestor, HandedInside DEF Evaluation!Evaluate, Evaluation!Live
<1>9. Evaluation!Start(k, e, r, caller, TRUE)
  BY <1>1, <1>3 DEF Evaluation!Evaluate
<1> QED BY <1>2, <1>4, <1>7, <1>8, <1>9, StartIsFine

(* What completes runs in a context of its own before the reference held   *)
(* for it goes, so the count stays.                                        *)
LEMMA DoneIsFine ==
  ASSUME EvaluatorsInv, NEW k \in Evaluation!Owed, NEW o \in Evaluation!Evaluators,
         NEW caller \in Evaluation!HostThreads, Evaluation!Done(k, o, caller)
  PROVE  EvaluatorsInv'
<1>1. PICK e, owed : owed = pending[k] /\ e = owed.evaluator
  OBVIOUS
<1>2. /\ k \in Evaluation!Calls /\ owed \in Evaluation!Completions
      /\ e \in Evaluation!Evaluators /\ owed.reach \subseteq Evaluation!Evaluators
  BY <1>1, RunningTyped DEF EvaluatorsInv, Evaluation!Completions
<1>3. PICK known \in BOOLEAN, r \in SUBSET Evaluation!Evaluators :
        (known <=> Evaluation!IsDescendantOf(e, o)) /\ r = values[o]
  BY DEF EvaluatorsInv, Evaluation!TypeOK
<1>4. Evaluation!Mix(e, known)
  BY <1>1, <1>3 DEF Evaluation!Done, Evaluation!Mix
<1>5. MixedGrows /\ mixed' \subseteq Evaluation!Evaluators /\ r \subseteq StillBelow(e)
  BY <1>2, <1>3, <1>4, HandedInside DEF Evaluation!IsDescendantOf, MixedGrows
<1>6. life[e] = "live" /\ owed.reach \subseteq StillBelow(e)
  BY <1>1, <1>5, StillInside DEF EvaluatorsInv, Families
<1>7. caller \in Evaluation!Slots \cup {Nothing}
  BY DEF Evaluation!HostThreads, Evaluation!Running
<1>8. CASE ~Evaluation!MayMakeContext(e)
  <2>1. Evaluation!Abort("several contexts")
    BY <1>1, <1>8, Zenon DEF Evaluation!Done
  <2> QED BY <1>5, <2>1, AbortIsFine, Zenon
<1>9. CASE Evaluation!MayMakeContext(e) /\ ~Evaluation!OwnManager(e, o)
  <2>1. Evaluation!Abort("another memory manager")
    BY <1>1, <1>9, Zenon DEF Evaluation!Done
  <2> QED BY <1>5, <2>1, AbortIsFine, Zenon
<1>10. CASE Evaluation!MayMakeContext(e) /\ Evaluation!OwnManager(e, o)
  <2> DEFINE new == [evaluator |-> e, manager |-> Evaluation!Borrowed(e), call |-> k,
                     step |-> Evaluation!AfterDone, reach |-> owed.reach \cup r,
                     caller |-> caller, returns |-> "nothing"]
  <2>1. /\ Evaluation!NewContext(e, new)
        /\ pending' = [pending EXCEPT ![k] = Nothing]
        /\ refcount' = [refcount EXCEPT ![e] = Evaluation!RefcountAfterDone(e)]
        /\ UNCHANGED <<Evaluation!tree, answer, hops, values>>
    BY <1>1, <1>3, <1>10, Zenon DEF Evaluation!Done
  <2>2. UNCHANGED <<parent, life, forked, single>>
    BY <2>1 DEF Evaluation!tree
  <2>3. PICK c : c = new
    OBVIOUS
  <2>4. /\ c.evaluator = e /\ c.manager = Evaluation!Borrowed(e) /\ c.call = k
        /\ c.step = "running" /\ c.reach = owed.reach \cup r
        /\ Evaluation!Borrowed(e) \in Nat => c \in Evaluation!Contexts
    BY <1>2, <1>7, <2>3 DEF Evaluation!Contexts, Evaluation!AfterDone
  <2>5. Evaluation!NewContext(e, c)
    BY <2>1, <2>3
  <2> HIDE DEF new
  <2>6. PICK n \in Evaluation!Slots \ Evaluation!Running :
          /\ c \in Evaluation!Contexts
          /\ contexts' \in [Evaluation!Slots -> Evaluation!Contexts \cup {Nothing}]
          /\ contexts'[n] = c
          /\ \A x \in Evaluation!Running : contexts'[x] = contexts[x]
          /\ Evaluation!Running' = Evaluation!Running \cup {n}
          /\ \A a : Evaluation!In(a)' =
               IF a = e THEN Evaluation!In(a) \cup {n} ELSE Evaluation!In(a)
          /\ idle' \in [Evaluation!Evaluators -> Seq(Nat)]
          /\ created' \in [Evaluation!Evaluators -> Nat]
          /\ mainInUse' \in [Evaluation!Evaluators -> BOOLEAN]
          /\ Managers'
    BY <1>2, <1>10, <2>2, <2>4, <2>5, NewContextAdds
  <2>7. refcount' = refcount /\ refcount \in [Evaluation!Evaluators -> Nat]
    BY <1>2, <2>1 DEF Evaluation!RefcountAfterDone, EvaluatorsInv, Evaluation!TypeOK
  <2>8. /\ pending' \in [Evaluation!Calls -> Evaluation!Completions \cup {Nothing}]
        /\ \A j \in Evaluation!Calls : pending'[j] = IF j = k THEN Nothing ELSE pending[j]
    BY <1>2, <2>1 DEF EvaluatorsInv, Evaluation!TypeOK
  <2>9. /\ answer' \in [Evaluation!Calls -> {"none", "awaited", "promised", "given"}]
        /\ \A j \in Evaluation!Calls : answer'[j] = answer[j]
        /\ answer[k] # "none"
    BY <1>1, <1>2, <2>1 DEF EvaluatorsInv, Evaluation!TypeOK, CallsApart, Evaluation!Owed
  <2>10. \A x \in Evaluation!Running : contexts[x].call = k =>
           contexts[x].evaluator = e /\ ~GoesForward(x)
    BY <1>1 DEF EvaluatorsInv, CallsApart
  <2>11. /\ UNCHANGED <<parent, life, forked, single, hops, values>>
         /\ refcount' \in [Evaluation!Evaluators -> Nat]
         /\ \A j \in Evaluation!Calls : pending'[j] = IF j = c.call THEN Nothing ELSE pending[j]
         /\ \A j \in Evaluation!Calls \ {c.call} : answer'[j] = answer[j]
         /\ answer'[c.call] # "none"
         /\ answer'[c.call] = "awaited" => c.returns = "result" \/ answer[c.call] = "awaited"
         /\ life[c.evaluator] = "live"
         /\ c.reach \subseteq StillBelow(c.evaluator)
         /\ \A x \in Evaluation!Running : contexts[x].call = c.call =>
              contexts[x].evaluator = c.evaluator /\ ~GoesForward(x)
    BY <1>2, <1>5, <1>6, <2>1, <2>2, <2>4, <2>7, <2>8, <2>9, <2>10
  <2>12. Evaluation!TypeOK' /\ Families' /\ CallsApart' /\ Evaluation!ValuesStayInside'
    BY <1>5, <2>6, <2>8, <2>9, <2>11, BegunIsFine
  <2>13. Evaluation!RefcountExact'
    <3>1. Evaluation!TypeOK
      BY DEF EvaluatorsInv
    <3>2. \A a : Cardinality(Evaluation!In(a)') =
                   IF a = e THEN Cardinality(Evaluation!In(a)) + 1 ELSE Cardinality(Evaluation!In(a))
      BY <2>6, <3>1, InGrows
    <3>3. \A a : OwedTo(a)' = IF a = e THEN OwedTo(a) \ {k} ELSE OwedTo(a)
      <4>1. Evaluation!Owed' = Evaluation!Owed \ {k} /\ Evaluation!Owed \subseteq Evaluation!Calls
        BY <2>8 DEF Evaluation!Owed
      <4> QED BY <1>1, <2>8, <4>1 DEF OwedTo
    <3>4. Cardinality(OwedTo(e)') = Cardinality(OwedTo(e)) - 1
      <4>1. k \in OwedTo(e)
        BY <1>1 DEF OwedTo
      <4>2. Cardinality(OwedTo(e) \ {k}) = Cardinality(OwedTo(e)) - 1
        BY <3>1, <4>1, Countable, FS_RemoveElement
      <4>3. OwedTo(e)' = OwedTo(e) \ {k}
        BY <3>3
      <4> QED BY <4>2, <4>3
    <3>5. ASSUME NEW a \in Evaluation!Evaluators
          PROVE  refcount'[a] = Cardinality(Evaluation!In(a)') + Cardinality(OwedTo(a)')
      <4>1. /\ refcount[a] = Cardinality(Evaluation!In(a)) + Cardinality(OwedTo(a))
            /\ Cardinality(Evaluation!In(a)) \in Nat /\ Cardinality(OwedTo(a)) \in Nat
        BY <3>1, ExactMeans, Countable DEF EvaluatorsInv
      <4>2. CASE a = e
        BY <2>7, <3>2, <3>4, <4>1, <4>2
      <4>3. CASE a # e
        <5>1. OwedTo(a)' = OwedTo(a)
          BY <3>3, <4>3
        <5> QED BY <2>7, <3>2, <4>1, <4>3, <5>1
      <4> QED BY <4>2, <4>3
    <3> QED BY <3>5, CountFits
  <2> QED BY <2>6, <2>12, <2>13 DEF EvaluatorsInv
<1> QED BY <1>8, <1>9, <1>10

(* What comes back to a factory may be lent again.                         *)
LEMMA ReleaseIsFine ==
  ASSUME EvaluatorsInv, NEW x \in Evaluation!Running, Evaluation!ReleaseContext(x), UNCHANGED single
  PROVE  /\ contexts' \in [Evaluation!Slots -> Evaluation!Contexts \cup {Nothing}]
         /\ Evaluation!Running' = Evaluation!Running \ {x}
         /\ \A y \in Evaluation!Running \ {x} : contexts'[y] = contexts[y]
         /\ idle' \in [Evaluation!Evaluators -> Seq(Nat)]
         /\ created' \in [Evaluation!Evaluators -> Nat]
         /\ mainInUse' \in [Evaluation!Evaluators -> BOOLEAN]
         /\ Managers'
<1> USE DEF EvaluatorsInv
<1>1. PICK e, b : e = contexts[x].evaluator /\ b = contexts[x].manager
  OBVIOUS
<1>2. /\ e \in Evaluation!Evaluators /\ b \in Nat /\ b <= created[e] /\ x \in Evaluation!Slots
  BY <1>1, RunningTyped DEF Evaluation!Contexts, Managers
<1>3. /\ contexts' = [contexts EXCEPT ![x] = Nothing]
      /\ mainInUse' = [mainInUse EXCEPT ![e] = @ /\ ~Evaluation!SingleContext(e)]
      /\ idle' = [idle EXCEPT ![e] = IF Evaluation!SingleContext(e) THEN @ ELSE Append(@, b)]
      /\ created' = created
  BY <1>1 DEF Evaluation!ReleaseContext
<1>4. /\ contexts' \in [Evaluation!Slots -> Evaluation!Contexts \cup {Nothing}]
      /\ contexts'[x] = Nothing
      /\ \A y \in Evaluation!Slots \ {x} : contexts'[y] = contexts[y]
  BY <1>2, <1>3 DEF Evaluation!TypeOK
<1>5. /\ Evaluation!Running' = Evaluation!Running \ {x}
      /\ Evaluation!Running \subseteq Evaluation!Slots
  BY <1>4 DEF Evaluation!Running
<1>6. \A a : Evaluation!In(a)' = Evaluation!In(a) \ {x}
  BY <1>4, <1>5 DEF Evaluation!In
<1>7. \A a \in Evaluation!Evaluators \ {e} : x \notin Evaluation!In(a)
  BY <1>1 DEF Evaluation!In
<1> DEFINE s == IF Evaluation!SingleContext(e) THEN idle[e] ELSE Append(idle[e], b)
<1>8. idle[e] \in Seq(Nat) /\ created \in [Evaluation!Evaluators -> Nat]
  BY <1>2 DEF Evaluation!TypeOK
<1>9. s \in Seq(Nat)
  BY <1>2, <1>8
<1>10. /\ idle' \in [Evaluation!Evaluators -> Seq(Nat)] /\ idle'[e] = s
       /\ \A a \in Evaluation!Evaluators \ {e} : idle'[a] = idle[a]
  <2>1. idle' = [idle EXCEPT ![e] = s]
    BY <1>3
  <2> HIDE DEF s
  <2> QED BY <1>2, <1>9, <2>1 DEF Evaluation!TypeOK
<1>11. /\ mainInUse' \in [Evaluation!Evaluators -> BOOLEAN]
       /\ mainInUse'[e] <=> mainInUse[e] /\ ~Evaluation!SingleContext(e)
       /\ \A a \in Evaluation!Evaluators \ {e} : mainInUse'[a] = mainInUse[a]
  BY <1>2, <1>3 DEF Evaluation!TypeOK, Evaluation!SingleContext
<1>12. /\ \A y \in Evaluation!Running \ {x} : contexts[y].evaluator = e => contexts[y].manager # b
       /\ \A y \in Evaluation!Running : contexts[y].evaluator = e =>
            \A i \in 1..Len(idle[e]) : contexts[y].manager # idle[e][i]
  <2>1. DOMAIN idle[e] = 1..Len(idle[e])
    BY <1>8
  <2>2. /\ \A y, z \in Evaluation!Running :
             contexts[y].evaluator = contexts[z].evaluator
               /\ contexts[y].manager = contexts[z].manager => y = z
        /\ \A y \in Evaluation!Running : \A i \in DOMAIN idle[contexts[y].evaluator] :
             contexts[y].manager # idle[contexts[y].evaluator][i]
    BY DEF Managers, Evaluation!ManagersExclusive
  <2> QED BY <1>1, <2>1, <2>2
<1>13. /\ \A y \in Evaluation!Running \ {x} : contexts[y].evaluator = e =>
            \A i \in 1..Len(s) : contexts[y].manager # s[i]
       /\ \A i \in 1..Len(s) : s[i] <= created[e]
       /\ \A i, j \in 1..Len(s) : s[i] = s[j] => i = j
  <2>1. /\ \A i \in 1..Len(idle[e]) : idle[e][i] <= created[e] /\ idle[e][i] # b
        /\ \A i, j \in 1..Len(idle[e]) : idle[e][i] = idle[e][j] => i = j
    BY <1>1, <1>2, <1>12 DEF Managers
  <2>2. CASE Evaluation!SingleContext(e)
    BY <1>12, <2>1, <2>2
  <2>3. CASE ~Evaluation!SingleContext(e)
    <3>1. /\ Len(s) = Len(idle[e]) + 1 /\ s[Len(s)] = b
          /\ Len(idle[e]) \in Nat
          /\ \A i \in 1..Len(idle[e]) : s[i] = idle[e][i]
      BY <1>2, <1>8, <2>3
    <3>2. \A i \in 1..Len(s) : i = Len(s) \/ i \in 1..Len(idle[e])
      BY <3>1
    <3> HIDE DEF s
    <3> QED BY <1>2, <1>12, <2>1, <3>1, <3>2
  <2> QED BY <2>2, <2>3
<1> HIDE DEF s
<1>14. Evaluation!ManagersExclusive'
  <2>1. \A y \in Evaluation!Running' : y \in Evaluation!Running /\ y # x /\ contexts'[y] = contexts[y]
    BY <1>4, <1>5
  <2>2. \A y, z \in Evaluation!Running' :
          contexts'[y].evaluator = contexts'[z].evaluator
            /\ contexts'[y].manager = contexts'[z].manager => y = z
    BY <2>1 DEF Managers, Evaluation!ManagersExclusive
  <2>3. \A y \in Evaluation!Running' : \A i \in DOMAIN idle'[contexts'[y].evaluator] :
          contexts'[y].manager # idle'[contexts'[y].evaluator][i]
    <3>1. TAKE y \in Evaluation!Running'
    <3>2. CASE contexts[y].evaluator = e
      <4>1. DOMAIN s = 1..Len(s)
        BY <1>9
      <4> QED BY <1>10, <1>13, <2>1, <3>2, <4>1
    <3>3. CASE contexts[y].evaluator # e
      <4>1. contexts[y].evaluator \in Evaluation!Evaluators
        BY <2>1, RunningTyped DEF Evaluation!Contexts
      <4>2. \A i \in DOMAIN idle[contexts[y].evaluator] :
              contexts[y].manager # idle[contexts[y].evaluator][i]
        BY <2>1 DEF Managers, Evaluation!ManagersExclusive
      <4> QED BY <1>10, <2>1, <3>3, <4>1, <4>2
    <3> QED BY <3>2, <3>3
  <2> QED BY <2>2, <2>3 DEF Evaluation!ManagersExclusive
<1>15. ASSUME NEW a \in Evaluation!Evaluators
       PROVE  /\ Evaluation!SingleContext(a) =>
                   /\ idle'[a] = <<>> /\ created'[a] = 0
                   /\ mainInUse'[a] <=> Evaluation!In(a)' # {}
              /\ ~Evaluation!SingleContext(a) => ~mainInUse'[a]
              /\ \A i \in 1..Len(idle'[a]) : idle'[a][i] <= created'[a]
              /\ \A i, j \in 1..Len(idle'[a]) : idle'[a][i] = idle'[a][j] => i = j
  <2>1. CASE a = e
    <3>1. ASSUME Evaluation!SingleContext(a)
          PROVE  idle'[a] = <<>> /\ created'[a] = 0 /\ ~mainInUse'[a] /\ Evaluation!In(a)' = {}
      <4>1. idle[e] = <<>> /\ created[e] = 0
        BY <2>1, <3>1 DEF Managers
      <4>2. s = <<>>
        BY <2>1, <3>1, <4>1 DEF s
      <4>3. \A y \in Evaluation!In(e) : contexts[y].manager = 0 /\ y \in Evaluation!Running
                                        /\ contexts[y].evaluator = e
        <5>1. TAKE y \in Evaluation!In(e)
        <5>2. y \in Evaluation!Running /\ contexts[y].evaluator = e
          BY DEF Evaluation!In
        <5>3. contexts[y].manager \in Nat /\ contexts[y].manager <= created[e]
          BY <5>2, RunningTyped DEF Evaluation!Contexts, Managers
        <5> QED BY <4>1, <5>2, <5>3
      <4>4. b = 0
        BY <1>2, <4>1
      <4>5. Evaluation!In(e)' = {}
        BY <1>6, <1>12, <4>3, <4>4
      <4> QED BY <1>3, <1>10, <1>11, <2>1, <3>1, <4>1, <4>2, <4>5
    <3>2. ~Evaluation!SingleContext(a) => ~mainInUse'[a]
      BY <1>11, <2>1 DEF Managers
    <3>3. /\ \A i \in 1..Len(idle'[a]) : idle'[a][i] <= created'[a]
          /\ \A i, j \in 1..Len(idle'[a]) : idle'[a][i] = idle'[a][j] => i = j
      <4>1. idle'[a] = s /\ created'[a] = created[e]
        BY <1>3, <1>10, <2>1
      <4> HIDE DEF EvaluatorsInv
      <4> QED BY <1>13, <4>1
    <3> QED BY <3>1, <3>2, <3>3
  <2>2. CASE a # e
    <3>1. /\ Evaluation!In(a)' = Evaluation!In(a) /\ idle'[a] = idle[a]
          /\ created'[a] = created[a] /\ mainInUse'[a] = mainInUse[a]
      <4> HIDE DEF EvaluatorsInv, s
      <4>1. Evaluation!In(a)' = Evaluation!In(a) \ {x} /\ x \notin Evaluation!In(a)
        BY <1>6, <1>7, <2>2
      <4>2. Evaluation!In(a)' = Evaluation!In(a)
        BY <4>1
      <4>3. idle'[a] = idle[a] /\ mainInUse'[a] = mainInUse[a]
        BY <1>10, <1>11, <2>2
      <4> QED BY <1>3, <4>2, <4>3
    <3>2. Managers
      OBVIOUS
    <3> HIDE DEF EvaluatorsInv
    <3> QED BY <3>1, <3>2 DEF Managers
  <2> QED BY <2>1, <2>2
<1>16. Managers'
  <2>1. \A a : Evaluation!SingleContext(a)' <=> Evaluation!SingleContext(a)
    BY DEF Evaluation!SingleContext
  <2>2. \A y \in Evaluation!Running' : contexts'[y].manager <= created'[contexts'[y].evaluator]
    BY <1>3, <1>4, <1>5 DEF Managers
  <2> QED BY <1>14, <1>15, <2>1, <2>2 DEF Managers
<1> QED BY <1>3, <1>4, <1>5, <1>8, <1>10, <1>11, <1>16

(* A context returns: what it reaches is the host's only when the call     *)
(* that it was for asked for the result, which by then is there.           *)
LEMMA ReturnIsFine ==
  ASSUME EvaluatorsInv, NEW x \in Evaluation!Slots, Evaluation!Return(x)
  PROVE  EvaluatorsInv'
<1> DEFINE missing == contexts[x].returns = "result" /\ answer[contexts[x].call] # "given"
<1>0a. UNCHANGED mixed
  BY DEF Evaluation!Return
<1>0b. MixedGrows /\ mixed' \subseteq Evaluation!Evaluators
  BY <1>0a, NothingMixed DEF EvaluatorsInv, MixedGrows
<1>1. CASE missing
  <2>1. Evaluation!Abort("result not ready")
    BY <1>1, Zenon DEF Evaluation!Return
  <2> QED BY <1>0b, <2>1, AbortIsFine, Zenon
<1>2. CASE ~missing
  <2>1. PICK e, k : e = contexts[x].evaluator /\ k = contexts[x].call
    OBVIOUS
  <2>2. /\ x \in Evaluation!Running /\ contexts[x].step = "ended"
        /\ Evaluation!ReleaseContext(x)
        /\ IF contexts[x].returns = "result" THEN Evaluation!AddResult(x) ELSE UNCHANGED values
        /\ UNCHANGED <<Evaluation!tree, pending, answer, hops>>
    BY <1>2, Zenon DEF Evaluation!Return, Evaluation!Running
  <2>3. UNCHANGED <<parent, life, forked, single>>
    BY <2>2 DEF Evaluation!tree
  <2>4. refcount' = [refcount EXCEPT ![e] = @ - 1]
    BY <2>1, <2>2 DEF Evaluation!ReleaseContext
  <2>5. /\ contexts' \in [Evaluation!Slots -> Evaluation!Contexts \cup {Nothing}]
        /\ Evaluation!Running' = Evaluation!Running \ {x}
        /\ \A y \in Evaluation!Running \ {x} : contexts'[y] = contexts[y]
        /\ idle' \in [Evaluation!Evaluators -> Seq(Nat)]
        /\ created' \in [Evaluation!Evaluators -> Nat]
        /\ mainInUse' \in [Evaluation!Evaluators -> BOOLEAN]
        /\ Managers'
    BY <2>2, <2>3, ReleaseIsFine
  <2> USE DEF EvaluatorsInv
  <2>6. /\ e \in Evaluation!Evaluators /\ k \in Evaluation!Calls /\ life[e] = "live"
    BY <2>1, <2>2, RunningTyped DEF Evaluation!Contexts, Families
  <2>7. /\ values' \in [Evaluation!Evaluators -> SUBSET Evaluation!Evaluators]
        /\ \A a \in Evaluation!Evaluators :
             values'[a] \subseteq StillBelow(a) /\ (values'[a] # {} => life[a] = "live")
    <3> HIDE DEF EvaluatorsInv
    <3>1. CASE contexts[x].returns = "result"
      BY <1>0b, <2>2, <3>1, GivesReach
    <3>2. CASE contexts[x].returns # "result"
      <4>1. values' = values
        BY <2>2, <3>2
      <4> QED BY <1>0b, <4>1, StillInside DEF EvaluatorsInv, Evaluation!TypeOK
    <3> QED BY <3>1, <3>2
  <2>8. Evaluation!Owed' = Evaluation!Owed /\ \A a : OwedTo(a)' = OwedTo(a)
    BY <2>2 DEF Evaluation!Owed, OwedTo
  <2>9. \A a : Evaluation!In(a)' = IF a = e THEN Evaluation!In(a) \ {x} ELSE Evaluation!In(a)
    <3>1. \A y \in Evaluation!Running' : y \in Evaluation!Running /\ y # x /\ contexts'[y] = contexts[y]
      BY <2>5
    <3> QED BY <2>1, <2>5, <3>1 DEF Evaluation!In
  <2>10. Cardinality(Evaluation!In(e)') = Cardinality(Evaluation!In(e)) - 1
    <3>1. x \in Evaluation!In(e)
      BY <2>1, <2>2 DEF Evaluation!In
    <3>2. Cardinality(Evaluation!In(e) \ {x}) = Cardinality(Evaluation!In(e)) - 1
      BY <3>1, Countable, FS_RemoveElement
    <3>3. Evaluation!In(e)' = Evaluation!In(e) \ {x}
      BY <2>9
    <3> QED BY <3>2, <3>3
  <2>11. \A a \in Evaluation!Evaluators :
           /\ refcount[a] = Cardinality(Evaluation!In(a)) + Cardinality(OwedTo(a))
           /\ Cardinality(Evaluation!In(a)) \in Nat /\ Cardinality(OwedTo(a)) \in Nat
    BY ExactMeans, Countable
  <2>12. Cardinality(Evaluation!In(e)') \in Nat
    <3>1. IsFiniteSet(Evaluation!In(e) \ {x})
      BY Countable, FS_RemoveElement
    <3>2. Evaluation!In(e)' = Evaluation!In(e) \ {x}
      BY <2>9
    <3> QED BY <3>1, <3>2, FS_CardinalityType
  <2>13. /\ refcount' \in [Evaluation!Evaluators -> Nat]
         /\ \A a \in Evaluation!Evaluators : refcount'[a] = IF a = e THEN refcount[a] - 1 ELSE refcount[a]
    <3>1. refcount \in [Evaluation!Evaluators -> Nat] /\ refcount[e] - 1 \in Nat
      BY <2>6, <2>10, <2>11, <2>12 DEF Evaluation!TypeOK
    <3> HIDE DEF EvaluatorsInv
    <3> QED BY <2>4, <2>6, <3>1
  <2>14. Evaluation!RefcountExact'
    <3>1. ASSUME NEW a \in Evaluation!Evaluators
          PROVE  refcount'[a] = Cardinality(Evaluation!In(a)') + Cardinality(OwedTo(a)')
      <4>1. OwedTo(a)' = OwedTo(a)
        BY <2>8
      <4>2. CASE a = e
        BY <2>10, <2>11, <2>13, <4>1, <4>2
      <4>3. CASE a # e
        <5>1. Evaluation!In(a)' = Evaluation!In(a)
          BY <2>9, <4>3
        <5> QED BY <2>11, <2>13, <4>1, <4>3, <5>1
      <4> QED BY <4>2, <4>3
    <3> HIDE DEF EvaluatorsInv
    <3> QED BY <3>1, CountFits
  <2>15. Evaluation!TypeOK'
    BY <1>0b, <2>2, <2>3, <2>5, <2>7, <2>13 DEF Evaluation!TypeOK
  <2>16. \A y \in Evaluation!Running' : y \in Evaluation!Running /\ y # x /\ contexts'[y] = contexts[y]
    BY <2>5
  <2>17. Families'
    <3>1. \A y \in Evaluation!Running' : life[contexts'[y].evaluator] = "live"
      BY <2>16 DEF Families
    <3>2. \A j \in Evaluation!Owed' : life[pending'[j].evaluator] = "live"
      BY <2>2, <2>8 DEF Families
    <3> HIDE DEF EvaluatorsInv
    <3> QED BY <2>3, <2>7, <3>1, <3>2, SameFamilies
  <2>18. CallsApart'
    <3>1. \A y, z \in Evaluation!Running' : contexts'[y].call = contexts'[z].call =>
            /\ contexts'[y].evaluator = contexts'[z].evaluator
            /\ GoesForward(y)' /\ GoesForward(z)' => y = z
      BY <2>16 DEF CallsApart, GoesForward
    <3>2. \A y \in Evaluation!Running' : contexts'[y].call \in Evaluation!Owed' =>
            /\ pending'[contexts'[y].call].evaluator = contexts'[y].evaluator
            /\ ~GoesForward(y)'
      BY <2>2, <2>8, <2>16 DEF CallsApart, GoesForward
    <3>3. \A j \in Evaluation!Calls :
            /\ answer'[j] = "none" =>
                 pending'[j] = Nothing /\ \A y \in Evaluation!Running' : contexts'[y].call # j
            /\ answer'[j] = "awaited" =>
                 \E y \in Evaluation!Running' : contexts'[y].call = j /\ contexts'[y].returns = "result"
      <4>1. TAKE j \in Evaluation!Calls
      <4>2. /\ answer'[j] = answer[j] /\ pending'[j] = pending[j]
            /\ answer[j] = "none" =>
                 pending[j] = Nothing /\ \A y \in Evaluation!Running : contexts[y].call # j
        BY <2>2 DEF CallsApart
      <4>3. ASSUME answer[j] = "awaited"
            PROVE  \E y \in Evaluation!Running' : contexts'[y].call = j /\ contexts'[y].returns = "result"
        <5>1. PICK y \in Evaluation!Running : contexts[y].call = j /\ contexts[y].returns = "result"
          BY <4>3 DEF CallsApart
        <5>2. y # x
          BY <1>2, <4>3, <5>1
        <5>3. y \in Evaluation!Running' /\ contexts'[y] = contexts[y]
          BY <2>5, <5>2
        <5> QED BY <5>1, <5>3
      <4> QED BY <2>16, <4>2, <4>3
    <3> QED BY <3>1, <3>2, <3>3 DEF CallsApart
  <2>19. Evaluation!ValuesStayInside'
    <3> HIDE DEF EvaluatorsInv
    <3>1. \A y \in Evaluation!Running' : contexts'[y].reach \subseteq StillBelow(contexts'[y].evaluator)
      BY <1>0b, <2>16, StillInside
    <3>2. \A j \in Evaluation!Owed' : pending'[j].reach \subseteq StillBelow(pending'[j].evaluator)
      BY <1>0b, <2>2, <2>8, StillInside
    <3> QED BY <2>3, <2>7, <3>1, <3>2, ReachesInside
  <2> QED BY <2>5, <2>14, <2>15, <2>17, <2>18, <2>19
<1> QED BY <1>1, <1>2

(* All that the evaluators do keeps their invariant.                       *)
LEMMA EvaluatorsStart == Evaluation!Init => EvaluatorsInv
  BY NothingRunsInit, NothingRunsIsFine

LEMMA EvaluatorsStep == EvaluatorsInv /\ [Evaluation!Next]_evaluatorVars => EvaluatorsInv'
<1> SUFFICES ASSUME EvaluatorsInv, [Evaluation!Next]_evaluatorVars
             PROVE  EvaluatorsInv'
  OBVIOUS
<1>1. CASE UNCHANGED evaluatorVars
  <2>1. UNCHANGED <<parent, life, forked, single, refcount, idle, created, mainInUse,
                    contexts, pending, answer, hops, values, mixed>>
    BY <1>1 DEF evaluatorVars
  <2>2. /\ Evaluation!Running' = Evaluation!Running /\ Evaluation!Owed' = Evaluation!Owed
        /\ \A a : Evaluation!In(a)' = Evaluation!In(a)
        /\ MixedGrows
    BY <2>1, NothingMixed DEF Evaluation!Running, Evaluation!Owed, Evaluation!In, EvaluatorsInv
  <2>3. Evaluation!TypeOK' /\ Families'
    BY <2>1, <2>2 DEF EvaluatorsInv, Evaluation!TypeOK, Families
  <2>4. CallsApart'
    BY <2>1, <2>2 DEF EvaluatorsInv, CallsApart, GoesForward
  <2>5. Evaluation!RefcountExact'
    BY <2>1, <2>2 DEF EvaluatorsInv, Evaluation!RefcountExact
  <2>6. Managers'
    BY <2>1, <2>2 DEF EvaluatorsInv, Managers, Evaluation!ManagersExclusive, Evaluation!SingleContext
  <2>7. Evaluation!ValuesStayInside'
    BY <2>1, <2>2, StillInside, ReachesInside
  <2> QED BY <2>3, <2>4, <2>5, <2>6, <2>7 DEF EvaluatorsInv
<1>2. CASE Evaluation!HostActs
  <2>1. ASSUME NEW e \in Evaluation!Evaluators,
               \/ Evaluation!Fork(e) \/ Evaluation!Delete(e)
               \/ Evaluation!NewValue(e) \/ Evaluation!CloneValue(e)
        PROVE  EvaluatorsInv'
    BY <2>1, ForkIsFine, DeleteIsFine, NewValueIsFine, CloneValueIsFine
  <2>2. ASSUME NEW e \in Evaluation!Evaluators, NEW o \in Evaluation!Evaluators,
               NEW caller \in Evaluation!HostThreads, Evaluation!Evaluate(e, o, caller)
        PROVE  EvaluatorsInv'
    BY <2>2, EvaluateIsFine
  <2>3. ASSUME NEW e \in Evaluation!Evaluators, NEW o \in Evaluation!Evaluators,
               NEW caller \in Evaluation!HostThreads, NEW blocking \in BOOLEAN,
               Evaluation!InternalCall(e, o, caller, blocking)
        PROVE  EvaluatorsInv'
    BY <2>3, InternalCallIsFine
  <2> QED BY <1>2, <2>1, <2>2, <2>3, Zenon DEF Evaluation!HostActs
<1>3. CASE Evaluation!GoOn
  <2>1. ASSUME NEW x \in Evaluation!Slots, Evaluation!RunContext(x)
        PROVE  EvaluatorsInv'
    BY <2>1, DoneCallbackIsFine, NonBlockingDoneCallbackIsFine, RunCustomValueIsFine,
       RunNonBlockingCustomValueIsFine, UseFreedIsFine, Zenon DEF Evaluation!RunContext
  <2>2. ASSUME NEW x \in Evaluation!Slots, Evaluation!ReturnFromHost(x) \/ Evaluation!Return(x)
        PROVE  EvaluatorsInv'
    BY <2>2, ReturnFromHostIsFine, ReturnIsFine
  <2> QED BY <1>3, <2>1, <2>2, Zenon DEF Evaluation!GoOn
<1>4. CASE Evaluation!Complete
  <2>1. ASSUME NEW k \in Evaluation!Calls, Evaluation!DoneSome(k)
        PROVE  EvaluatorsInv'
    <3>1. PICK o \in Evaluation!Evaluators, caller \in Evaluation!HostThreads :
            k \in Evaluation!Owed /\ Evaluation!Done(k, o, caller)
      BY <2>1, Zenon DEF Evaluation!DoneSome
    <3> QED BY <3>1, DoneIsFine
  <2> QED BY <1>4, <2>1, Zenon DEF Evaluation!Complete
<1> QED BY <1>1, <1>2, <1>3, <1>4 DEF Evaluation!Next

-----------------------------------------------------------------------------
(* The server: each of its parts keeps what it keeps alone.                *)

LEMMA EvaluatorsKeep ==
  ServerSpec => []EvaluatorsInv
<1>1. ServerInit => EvaluatorsInv
  BY EvaluatorsStart DEF ServerInit
<1>2. EvaluatorsInv /\ [ServerNext]_serverVars => EvaluatorsInv'
  <2>1. [ServerNext]_serverVars => [Evaluation!Next]_evaluatorVars
    BY DEF ServerNext, serverVars, evaluatorVars, InParallel, Evaluates, InSession
  <2> QED BY <2>1, EvaluatorsStep
<1> QED BY <1>1, <1>2, PTL DEF ServerSpec

LEMMA ParallelCallsKeep ==
  ServerSpec => []Parallel
<1>1. ServerInit => Parallel
  BY ParallelStart DEF ServerInit
<1>2. Parallel /\ [ServerNext]_serverVars => Parallel'
  <2>1. [ServerNext]_serverVars => [Next]_vars
    BY DEF ServerNext, serverVars, vars, InParallel, Evaluates, InSession
  <2> QED BY <2>1, ParallelStep
<1> QED BY <1>1, <1>2, PTL DEF ServerSpec

(* DeliversOnce: DoParallel gives its callback the results once, all of    *)
(* them and in order, with defaults only for the calls that it was allowed *)
(* to abandon, whatever order the functions end in (public/server.cc).     *)
THEOREM OneArrayIsDelivered == ServerSpec => []DeliversOnce
<1>1. Parallel => DeliversOnce
  BY ParallelKeeps DEF DeliversOnce
<1> QED BY <1>1, ParallelCallsKeep, PTL

(* RefcountExact: the count of an evaluator's context factory is that of   *)
(* its contexts and of the completions that host code owes it, so that the *)
(* destructor's check of it means what it says (public/evaluator.cc).      *)
THEOREM FactoriesCountExactly == ServerSpec => []RefcountExact
<1>1. EvaluatorsInv => RefcountExact
  BY DEF EvaluatorsInv, RefcountExact
<1> QED BY <1>1, EvaluatorsKeep, PTL

(* ManagersExclusive: no two contexts, on whatever threads and at whatever *)
(* depth of calls into host code, are lent the same memory manager, and    *)
(* none that is in use lies among those to lend again (public/evaluator.cc,*)
(* ContextFactory).                                                        *)
THEOREM ManagersAreNotShared == ServerSpec => []ManagersExclusive
<1>1. EvaluatorsInv => ManagersExclusive
  BY DEF EvaluatorsInv, Managers, ManagersExclusive
<1> QED BY <1>1, EvaluatorsKeep, PTL

(* ValuesStayInside: unless host code mixed values into an evaluator or an *)
(* ancestor of it, where the code takes parts, imports and answers without *)
(* asking whose they are, whatever its values, contexts and pending        *)
(* completions reach is memory of it or of its ancestors, and all of those *)
(* live.  So deleting an evaluator leaves nothing dangling, and what is    *)
(* mixed spreads to descendants at most (public/evaluator.cc).             *)
THEOREM NoValueDangles == ServerSpec => []ValuesStayInside
<1>1. EvaluatorsInv => ValuesStayInside
  BY DEF EvaluatorsInv, ValuesStayInside
<1> QED BY <1>1, EvaluatorsKeep, PTL
=============================================================================
