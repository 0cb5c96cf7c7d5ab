------------------------------- MODULE WeakTables ------------------------------
(***************************************************************************)
(* The three tables of a process that list objects without keeping them    *)
(* alive: its remote workers (RemoteWorkers), the values that it has sent  *)
(* or received (ValueRegistries), and its atoms (Atoms).  They rely on the *)
(* same promises of the collector (TrackedObjects) and share no state, so  *)
(* their steps need not be interleaved: each behaviour is one of one of    *)
(* them.                                                                   *)
(***************************************************************************)
EXTENDS TrackedObjects

CONSTANTS Addresses, MaxCalls, Ids, Values, Names

VARIABLES remoteWorkers, address, attached, destroyed,
          cached, persistent, id, guards, using, freed,
          atomMap, keyOf, name, stateOf, refcount, registry, making,
          part    \* which of them moves

Workers == INSTANCE RemoteWorkers
Registries == INSTANCE ValueRegistries
AtomTable == INSTANCE Atoms

(* The null pointer is no state of a registry and no name.                 *)
ASSUME NoneAssumption == None \notin AtomTable!States \cup Names

workerVars == <<remoteWorkers, address, attached>>
registryVars == <<cached, persistent, id, guards, using, freed>>
atomVars == <<atomMap, keyOf, name, stateOf, refcount, registry, making>>
tableVars == <<prompt, trackedVars, workerVars, registryVars, destroyed, atomVars, part>>

TablesInit == /\ Workers!Init
              /\ Registries!Init
              /\ AtomTable!Init
              /\ part \in {"workers", "registries", "atoms"}

TablesNext ==
  /\ \/ part = "workers" /\ Workers!Next /\ UNCHANGED <<registryVars, atomVars>>
     \/ part = "registries" /\ Registries!Next /\ UNCHANGED <<workerVars, atomVars>>
     \/ part = "atoms" /\ AtomTable!Next /\ UNCHANGED <<workerVars, registryVars, destroyed>>
  /\ UNCHANGED part

TablesSpec == TablesInit /\ [][TablesNext]_tableVars

(* The properties of the tables: what they give out is alive, is listed    *)
(* under its name once, and leaves the table when it goes; and what the    *)
(* tables count and keep alive is what they have to.                       *)
OneLiveWorkerPerAddress ==
  part = "workers" => /\ Workers!WorkersInUseLive
                      /\ Workers!NoneAttachedToDead
                      /\ Workers!OneWorkerPerAddress
ValuesListedAndAlive ==
  part = "registries" => Registries!UsedNotFreed /\ Registries!PinnedAreListed
EntryLeavesWithObject == Registries!EntryLeavesWithObject
AtomsUnique == part = "atoms" => AtomTable!OneAtomPerName /\ AtomTable!KeysExist
RefcountExact == part = "atoms" => AtomTable!RefcountExact
=============================================================================
