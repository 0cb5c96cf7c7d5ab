----------------------------- MODULE ValueRegistries ---------------------------
(***************************************************************************)
(* The two registries of value_registry_impl.cc through which workers name *)
(* values to each other: PersistentValueRegistry, which keeps its values   *)
(* alive, behind CachedValueRegistry, which lets the collector take them.  *)
(* Both are chained the way server.cc sets them up: the cache is asked     *)
(* first and falls back on the persistent one.                             *)
(*                                                                         *)
(* The tracked objects are the TrackedValues of the cache and the          *)
(* KeepAliveValues of the persistent registry; each guards one value.      *)
(***************************************************************************)
EXTENDS TrackedObjects

CONSTANTS
  Ids,       \* value ids
  Values     \* the values that code registers

VARIABLES
  cached,      \* CachedValueRegistry::values_
  persistent,  \* PersistentValueRegistry::values_
  id,          \* id_ of each TrackedValue, None for a KeepAliveValue
  guards,      \* value_ of each tracked object
  using,       \* the values each thread's roots reach
  freed,       \* the values whose memory was reclaimed
  destroyed    \* the registries' destructors have run

vars == <<prompt, trackedVars, cached, persistent, id, guards, using, freed, destroyed>>
unchanged == <<id, guards, using, freed, destroyed>>

Table == [Ids -> Objects \cup {None}]

TypeOK == /\ TrackedTypeOK
          /\ cached \in Table /\ persistent \in Table
          /\ id \in [Objects -> Ids \cup {None}]
          /\ guards \in [Objects -> Values \cup {None}]
          /\ using \in [Threads -> SUBSET Values]
          /\ freed \subseteq Values
          /\ destroyed \in BOOLEAN

Init == /\ TrackedInit
        /\ cached = [i \in Ids |-> None]
        /\ persistent = [i \in Ids |-> None]
        /\ id = [o \in Objects |-> None]
        /\ guards = [o \in Objects |-> None]
        /\ using = [t \in Threads |-> {}]
        /\ freed = {}
        /\ destroyed = FALSE

-----------------------------------------------------------------------------
(* What the code under the registries does with values.                    *)
Use(t, v) == using' = [using EXCEPT ![t] = @ \cup {v}]

(* A thread computes a value: one that nothing refers to yet.              *)
Evaluate(t, v) ==
  /\ ~destroyed
  /\ v \notin freed
  /\ \A o \in Objects : guards[o] # v
  /\ \A u \in Threads : v \notin using[u]
  /\ Use(t, v)
  /\ UNCHANGED <<trackedVars, cached, persistent, id, guards, freed, destroyed>>

Forget(t, v) ==
  /\ v \in using[t]
  /\ using' = [using EXCEPT ![t] = @ \ {v}]
  /\ UNCHANGED <<trackedVars, cached, persistent, id, guards, freed, destroyed>>

(* The collector reclaims a value that no root and no live tracked object  *)
(* reaches; so a condemned object loses its value before it is told.       *)
Reclaim(v) ==
  /\ \A t \in Threads : v \notin using[t]
  /\ \E o \in Objects : guards[o] = v
  /\ \A o \in Objects : guards[o] = v => life[o] # "live"
  /\ freed' = freed \cup {v}
  /\ UNCHANGED <<trackedVars, cached, persistent, id, guards, using, destroyed>>

-----------------------------------------------------------------------------
(* PersistentValueRegistry.                                                *)
NewGuard(o, i, v) == /\ AddTrackedObject(o)
                     /\ id' = [id EXCEPT ![o] = i]
                     /\ guards' = [guards EXCEPT ![o] = v]

KeepsAlive(o) == \E i \in Ids : persistent[i] = o

(* The KeepAliveValue that a registration replaces is released.            *)
SwapReference_Leaked(old, new) ==
  external' = [o \in Objects |-> external[o] + (IF o = new THEN 1 ELSE 0)]
SwapReference(old, new) ==
  external' = [o \in Objects |-> external[o] + (IF o = new THEN 1 ELSE 0)
                                             - (IF o = old THEN 1 ELSE 0)]

RegisterPersistent(t, i, v) ==
  /\ ~destroyed
  /\ v \in using[t]
  /\ \E o \in Objects : /\ NewGuard(o, None, v)
                        /\ SwapReference(persistent[i], o)
                        /\ persistent' = [persistent EXCEPT ![i] = o]
  /\ UNCHANGED <<held, cached, using, freed, destroyed>>

(* KeepAliveValue::Get checks that its object can be revived.              *)
FindPersistent(t, i) == /\ persistent[i] # None
                        /\ Use(t, guards[persistent[i]])

-----------------------------------------------------------------------------
(* CachedValueRegistry.  Register overwrites what the id was mapped to.    *)
RegisterCached(t, i, v) ==
  /\ ~destroyed
  /\ v \in using[t]
  /\ \E o \in Objects : /\ NewGuard(o, i, v)
                        /\ cached' = [cached EXCEPT ![i] = o]
  /\ UNCHANGED <<external, held, persistent, using, freed, destroyed>>

CacheHit_Unrevived(i) == cached[i] # None
CacheHit(i) == cached[i] # None /\ Revived(cached[i])

Find(t, i) ==
  /\ ~destroyed
  /\ IF CacheHit(i) THEN Use(t, guards[cached[i]]) ELSE FindPersistent(t, i)
  /\ UNCHANGED <<trackedVars, cached, persistent, id, guards, freed, destroyed>>

(* NotReachable of a TrackedValue removes its entry, if it is still its    *)
(* own; that of a KeepAliveValue only deletes it.  What a TrackedValue does*)
(* to a registry that is destroyed is undefined, and left out.             *)
Remove_Unchecked(o) == cached' = [cached EXCEPT ![id[o]] = None]
Remove_Never(o) == o \in Objects /\ UNCHANGED cached
Remove(o) == cached' = [cached EXCEPT ![id[o]] = IF @ = o THEN None ELSE @]

NotReachable(o) ==
  /\ MayTell(o)
  /\ IF id[o] = None THEN UNCHANGED cached ELSE ~destroyed /\ Remove(o)
  /\ Vanish(o)
  /\ UNCHANGED <<external, held, persistent, unchanged>>

-----------------------------------------------------------------------------
(* The destructors: the persistent registry releases what it keeps alive,  *)
(* the cache lets its TrackedValues be.                                    *)
DestroyReleases_All(o) == life[o] # "unborn"
DestroyReleases(o) == KeepsAlive(o)

Destroy ==
  /\ ~destroyed
  /\ \A t \in Threads : using[t] = {}
  /\ destroyed' = TRUE
  /\ external' = [o \in Objects |->
                    external[o] - (IF DestroyReleases(o) THEN 1 ELSE 0)]
  /\ UNCHANGED <<life, held, cached, persistent, id, guards, using, freed>>

Next ==
  /\ UNCHANGED prompt
  /\ \/ \E t \in Threads :
          \/ \E v \in Values : Evaluate(t, v) \/ Forget(t, v)
          \/ \E i \in Ids :
               \/ Find(t, i)
               \/ \E v \in Values : RegisterPersistent(t, i, v) \/ RegisterCached(t, i, v)
     \/ \E v \in Values : Reclaim(v)
     \/ \E o \in Objects :
          \/ FindUnreachable(o) /\ UNCHANGED <<cached, persistent, unchanged>>
          \/ NotReachable(o)
     \/ Destroy

Spec == Init /\ [][Next]_vars

-----------------------------------------------------------------------------
(* A value that a thread found, or still uses, has not been reclaimed: the *)
(* cache hands out only what it could revive.  Nor has a persistent value, *)
(* so that a remote worker that was told its id can always have it.        *)
UsedNotFreed ==
  /\ \A t \in Threads : using[t] \cap freed = {}
  /\ ~destroyed => \A i \in Ids : persistent[i] # None =>
                      life[persistent[i]] = "live" /\ guards[persistent[i]] \notin freed

(* Exactly the listed KeepAliveValues are pinned, once each; the replaced  *)
(* ones, and all of them after the destructor, are left to the collector.  *)
PinnedAreListed ==
  \A o \in Objects : external[o] = IF KeepsAlive(o) /\ ~destroyed THEN 1 ELSE 0

(* A newer registration survives the end of the object it replaced: an     *)
(* entry leaves the cache only when its own object does.                   *)
EntryLeavesWithObject ==
  [][\A i \in Ids : cached[i] # None /\ cached'[i] = None => life'[cached[i]] = "gone"]_vars
=============================================================================
