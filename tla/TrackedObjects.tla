----------------------------- MODULE TrackedObjects ----------------------------
(***************************************************************************)
(* What memory_manager.h promises about tracked objects, the C++ objects   *)
(* that a table lists but that the collector keeps alive or not: the       *)
(* ground under every table of values that remove themselves when they are *)
(* garbage-collected (remote workers, cached values, atoms).               *)
(*                                                                         *)
(* Threads share one set of trackers.  The collector finds an object       *)
(* unreachable at one moment and its NotReachable() runs at a later one;   *)
(* in between it is "doomed" and ReviveTrackedObject() answers false.      *)
(***************************************************************************)
EXTENDS Integers, FiniteSets

CONSTANTS
  Objects,   \* the tracked objects that can ever be made: a bound
  Threads,   \* the threads that run code
  None,      \* no object: the null pointer
  Collectors \* the kinds of collector considered, values of prompt

ASSUME TrackedAssumption == None \notin Objects /\ Collectors \subseteq BOOLEAN
ASSUME ObjectsAssumption == IsFiniteSet(Objects)

VARIABLES
  prompt,    \* TRUE: NotReachable() runs as soon as an object is found
             \* unreachable, as in the managers of this tree, which delete a
             \* tracker where they find it unmarked; FALSE: any time later
  life,      \* where each object is in its life
  external,  \* the count of external references of each tracker
  held       \* the objects each thread's roots reach

trackedVars == <<life, external, held>>

Life == {"unborn", "live", "doomed", "gone"}

TrackedTypeOK == /\ prompt \in BOOLEAN
                 /\ life \in [Objects -> Life]
                 /\ external \in [Objects -> Nat]
                 /\ held \in [Threads -> SUBSET Objects]

TrackedInit == /\ prompt \in Collectors
               /\ life = [o \in Objects |-> "unborn"]
               /\ external = [o \in Objects |-> 0]
               /\ held = [t \in Threads |-> {}]

(* A tracker is there, and so is the object: NotReachable has not returned.*)
Exists(o) == life[o] \in {"live", "doomed"}

(* AddTrackedObject, or a ReviveTrackedObject that answers true: thread t  *)
(* can use the object until its roots let go of it.                        *)
AddTrackedObject(o) == /\ life[o] = "unborn"
                       /\ life' = [life EXCEPT ![o] = "live"]
Revived(o) == life[o] = "live"
Hold(t, o) == held' = [held EXCEPT ![t] = @ \cup {o}]

LetGo(t, o) == /\ o \in held[t]
               /\ held' = [held EXCEPT ![t] = @ \ {o}]
               /\ UNCHANGED <<life, external>>

AddExternalReference(o) == external' = [external EXCEPT ![o] = @ + 1]
RemoveExternalReference(o) == external' = [external EXCEPT ![o] = @ - 1]

(* The collector may reclaim whatever no root reaches and no external      *)
(* reference pins, but need not.                                           *)
Unreachable(o) == /\ life[o] = "live"
                  /\ external[o] = 0
                  /\ \A t \in Threads : o \notin held[t]

FindUnreachable(o) == /\ ~prompt
                      /\ Unreachable(o)
                      /\ life' = [life EXCEPT ![o] = "doomed"]
                      /\ UNCHANGED <<external, held>>

(* The moment at which NotReachable(o) may run; when it returns the object *)
(* and its tracker are gone.                                               *)
MayTell(o) == IF prompt THEN Unreachable(o) ELSE life[o] = "doomed"
Vanish(o) == life' = [life EXCEPT ![o] = "gone"]

(* Nobody runs code any more: no thread holds anything and every external  *)
(* reference has been dropped.                                             *)
CodeStopped == /\ \A t \in Threads : held[t] = {}
               /\ \A o \in Objects : external[o] = 0
=============================================================================
