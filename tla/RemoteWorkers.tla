------------------------------ MODULE RemoteWorkers ----------------------------
(***************************************************************************)
(* RemoteWorkerFactoryImpl (remote_worker_impl.cc): the table that gives   *)
(* every thread the same RemoteWorker for the same address, although       *)
(* workers are garbage-collected behind its back.  Every operation on the  *)
(* table holds mutex_, so it is one step; NotReachable waits for that lock *)
(* while its worker is already doomed.                                     *)
(***************************************************************************)
EXTENDS TrackedObjects, FiniteSets

CONSTANTS
  Addresses,  \* of the servers, by key
  MaxCalls    \* bound on the calls in progress on one worker

VARIABLES
  remoteWorkers,  \* remote_workers_: the worker of each address, or None
  address,        \* remote_address_ of each worker
  attached,       \* workers whose remote_worker_factory_ is not NULL
  destroyed       \* the factory's destructor has run

vars == <<prompt, trackedVars, remoteWorkers, address, attached, destroyed>>

TypeOK == /\ TrackedTypeOK
          /\ remoteWorkers \in [Addresses -> Objects \cup {None}]
          /\ address \in [Objects -> Addresses \cup {None}]
          /\ attached \subseteq Objects
          /\ destroyed \in BOOLEAN

Init == /\ TrackedInit
        /\ remoteWorkers = [a \in Addresses |-> None]
        /\ address = [o \in Objects |-> None]
        /\ attached = {}
        /\ destroyed = FALSE

-----------------------------------------------------------------------------
(* A worker found in the table is used only if it can be revived.          *)
Usable_Unrevived(o) == o # None
Usable(o) == o # None /\ Revived(o)

FindWorker(t, a) ==
  /\ Usable(remoteWorkers[a])
  /\ Hold(t, remoteWorkers[a])
  /\ UNCHANGED <<life, external, remoteWorkers, address, attached>>

NewWorker(t, a, o) ==
  /\ ~Usable(remoteWorkers[a])
  /\ AddTrackedObject(o)
  /\ Hold(t, o)
  /\ remoteWorkers' = [remoteWorkers EXCEPT ![a] = o]
  /\ address' = [address EXCEPT ![o] = a]
  /\ attached' = attached \cup {o}
  /\ UNCHANGED external

(* The factory must not be destroyed while code still runs, so code only   *)
(* runs while it is there.                                                 *)
GetRemoteWorker(t, a) ==
  /\ ~destroyed
  /\ FindWorker(t, a) \/ \E o \in Objects : NewWorker(t, a, o)
  /\ UNCHANGED destroyed

(* Call makes a CallSession, which pins the worker until it is returned to *)
(* the freelist.                                                           *)
NewCallSession(t, o) ==
  /\ o \in held[t]
  /\ external[o] < MaxCalls
  /\ AddExternalReference(o)
  /\ UNCHANGED <<life, held, remoteWorkers, address, attached, destroyed>>

DeleteCallSession_Twice(o) ==
  /\ external[o] > 0
  /\ external' = [external EXCEPT ![o] = @ - 2]
  /\ UNCHANGED <<life, held, remoteWorkers, address, attached, destroyed>>
DeleteCallSession(o) ==
  /\ external[o] > 0
  /\ RemoveExternalReference(o)
  /\ UNCHANGED <<life, held, remoteWorkers, address, attached, destroyed>>

(* Remove empties the slot only if it still holds this very worker.        *)
Remove_Unchecked(o) ==
  remoteWorkers' = [remoteWorkers EXCEPT ![address[o]] = None]
Remove(o) ==
  remoteWorkers' = [remoteWorkers EXCEPT ![address[o]] = IF @ = o THEN None ELSE @]

NotReachable_Listed(o) ==
  /\ MayTell(o)
  /\ Vanish(o)
  /\ UNCHANGED <<external, held, remoteWorkers, address, attached, destroyed>>
NotReachable(o) ==
  /\ MayTell(o)
  /\ IF o \in attached THEN Remove(o) ELSE UNCHANGED remoteWorkers
  /\ Vanish(o)
  /\ UNCHANGED <<external, held, address, attached, destroyed>>

(* The destructor detaches the workers that the table lists.               *)
Detached_None == {}
Detached == {o \in Objects : \E a \in Addresses : remoteWorkers[a] = o}

DestroyFactory ==
  /\ ~destroyed
  /\ CodeStopped
  /\ destroyed' = TRUE
  /\ attached' = attached \ Detached
  /\ UNCHANGED <<trackedVars, remoteWorkers, address>>

Collector(o) ==
  \/ FindUnreachable(o) /\ UNCHANGED <<remoteWorkers, address, attached, destroyed>>
  \/ NotReachable(o)

Next ==
  /\ UNCHANGED prompt
  /\ \/ \E t \in Threads :
          \/ \E a \in Addresses : GetRemoteWorker(t, a)
          \/ \E o \in Objects :
               \/ NewCallSession(t, o)
               \/ /\ LetGo(t, o)
                  /\ UNCHANGED <<remoteWorkers, address, attached, destroyed>>
     \/ \E o \in Objects : DeleteCallSession(o) \/ Collector(o)
     \/ DestroyFactory

Spec == Init /\ [][Next]_vars

-----------------------------------------------------------------------------
(* A worker that a thread was given, or that a call runs on, is never one  *)
(* that the collector has condemned: ReviveTrackedObject is asked under    *)
(* the lock before a listed worker is handed out.                          *)
WorkersInUseLive ==
  \A o \in Objects : (external[o] > 0 \/ \E t \in Threads : o \in held[t]) => life[o] = "live"

(* Two usable workers for one address never exist side by side, and the    *)
(* usable one is the one listed: the old worker's late Remove does not     *)
(* take the new worker off the table (the race that remote_worker_impl.cc  *)
(* 429-438 describes).                                                     *)
OneWorkerPerAddress ==
  ~destroyed => \A o \in Objects : life[o] = "live" => remoteWorkers[address[o]] = o

(* After the factory is gone no worker that still exists points at it, so  *)
(* no late NotReachable locks the mutex of a deleted factory               *)
(* (remote_worker_impl.cc 396-399).  It takes a prompt collector: a worker   *)
(* that was condemned and replaced is not in the table that Detach walks.  *)
NoneAttachedToDead == prompt /\ destroyed => \A o \in attached : ~Exists(o)
=============================================================================
