------------------------------ MODULE ParallelCall -----------------------------
(***************************************************************************)
(* The parallel() builtin of the evaluation server (ParallelLogic and      *)
(* ParallelCallback in public/server.cc): it calls N functions at once and *)
(* its callback gets the array of their results.  As many as abandon_count *)
(* of them may be given up, those that fail or, when all the others have   *)
(* come, those that are slow; a default result stands in for them.         *)
(*                                                                         *)
(* The callbacks run on the executor's threads in any order; each holds    *)
(* the mutex of the shared ParallelState throughout.                       *)
(***************************************************************************)
EXTENDS Integers, FiniteSets

CONSTANTS
  Count,          \* how many functions there are
  AbandonCounts   \* the abandon counts that callers pass

Functions == 0..Count - 1

ASSUME CountAssumption == Count \in Nat \ {0}
ASSUME AbandonAssumption == AbandonCounts \subseteq Functions

VARIABLES
  started,       \* the functions that have been called
  finished,      \* those whose callback has run
  numLeft,       \* num_left
  abandonCount,  \* abandon_count
  results,       \* results: what each function left there
  delivered,     \* the array that the caller's callback was last given
  deliveries,    \* how often it was called
  keepAlive,     \* which of callback and default_result are not yet released
  state,         \* whether the ParallelState exists
  allowed        \* the abandon count that was asked for

calls == <<started, finished>>
outputs == <<delivered, deliveries, keepAlive>>
vars == <<calls, numLeft, abandonCount, results, outputs, state, allowed>>

Outcome == {"value", "error"}
Shared == {"callback", "default_result"}

TypeOK == /\ started \subseteq Functions
          /\ finished \subseteq started
          /\ numLeft \in 0..Count
          /\ abandonCount \in Functions
          /\ results \in [Functions -> Outcome \cup {"NULL"}]
          /\ delivered \in [Functions -> Outcome \cup {"default", "none"}]
          /\ deliveries \in Nat
          /\ keepAlive \subseteq Shared
          /\ state \in {"live", "deleted"}
          /\ allowed \in AbandonCounts

(* ParallelLogic::Run builds the state before it calls anything.           *)
Init == /\ started = {}
        /\ finished = {}
        /\ numLeft = Count
        /\ allowed \in AbandonCounts
        /\ abandonCount = allowed
        /\ results = [i \in Functions |-> "NULL"]
        /\ delivered = [i \in Functions |-> "none"]
        /\ deliveries = 0
        /\ keepAlive = Shared
        /\ state = "live"

(* Function 0 runs in the caller's own context, the others on the          *)
(* executor, where another thread may take one before the loop that queues *)
(* them is done.                                                           *)
Start(i) == /\ i \notin started
            /\ started' = started \cup {i}
            /\ UNCHANGED <<finished, numLeft, abandonCount, results, outputs, state, allowed>>

-----------------------------------------------------------------------------
(* ParallelCallback::Run, for the outcome x of function i.                 *)
Abandons(x) == x = "error" /\ abandonCount > 0
Wanted(left) == left >= abandonCount
Complete(left) == left = abandonCount

FinalResult(r) == [j \in Functions |-> IF r[j] = "NULL" THEN "default" ELSE r[j]]

Deliver(r) == /\ delivered' = FinalResult(r)
              /\ deliveries' = deliveries + 1
              /\ keepAlive' = {}

Abandon == /\ abandonCount' = abandonCount - 1
           /\ UNCHANGED <<results, outputs>>

Store(i, x, left) ==
  /\ results' = [results EXCEPT ![i] = x]
  /\ IF Complete(left) THEN Deliver(results') ELSE UNCHANGED outputs
  /\ UNCHANGED abandonCount

LeftAfter_Given(x) == IF Abandons(x) THEN numLeft ELSE numLeft - 1
LeftAfter(x) == numLeft - 1

LastOne_WhenComplete(left) == left = abandonCount
LastOne(left) == left = 0

Finish(i, x) ==
  LET left == LeftAfter(x) IN
  /\ i \in started \ finished
  /\ finished' = finished \cup {i}
  /\ numLeft' = left
  /\ \/ Abandons(x) /\ Abandon
     \/ ~Abandons(x) /\ Wanted(left) /\ Store(i, x, left)
     \/ ~Abandons(x) /\ ~Wanted(left) /\ UNCHANGED <<abandonCount, results, outputs>>
  /\ state' = IF LastOne(left) THEN "deleted" ELSE state
  /\ UNCHANGED <<started, allowed>>

FinishSome(i) == \E x \in Outcome : Finish(i, x)
Next == \E i \in Functions : Start(i) \/ FinishSome(i)

Spec == Init /\ [][Next]_vars

(* The executor runs what it is given, and every function returns.         *)
FairSpec == Spec /\ \A i \in Functions : WF_vars(Start(i)) /\ WF_vars(FinishSome(i))

-----------------------------------------------------------------------------
(* The caller's callback runs at most once, in whatever order the          *)
(* functions end and however many of them fail.                            *)
DeliveredOnce == deliveries <= 1

(* Nothing but the last callback deletes the state, so that no callback    *)
(* finds it gone: those of the functions that are still out will come.     *)
StateOutlivesCallbacks == finished # Functions => state = "live"

(* What is delivered gives up exactly as many functions as the caller      *)
(* allowed, neither more nor, while others are awaited, fewer; all the     *)
(* other elements are their functions' own results.  No result is stored   *)
(* once the array was made: it would be kept alive for ever, since only    *)
(* the delivery releases results.                                          *)
AbandonsAsAllowed ==
  deliveries > 0 =>
    /\ Cardinality({i \in Functions : delivered[i] = "default"}) = allowed
    /\ \A i \in Functions :
         IF delivered[i] = "default" THEN results[i] = "NULL" ELSE delivered[i] = results[i]

(* The caller gets its array in the end.                                   *)
Delivered == deliveries > 0
EventuallyDelivered == <>Delivered
=============================================================================
