--------------------------- MODULE WeakTables_proofs ---------------------------
(***************************************************************************)
(* Proofs that the three weak tables keep their promises, for any number   *)
(* of threads, objects, addresses, ids, values and names, and whatever     *)
(* moment the collector chooses.                                           *)
(*                                                                         *)
(* Each table has an inductive invariant of its own, which says what a     *)
(* listed object still is and who may have it; only the table that moves   *)
(* has to keep its.                                                        *)
(***************************************************************************)
EXTENDS WeakTables, FiniteSetTheorems, TLAPS

-----------------------------------------------------------------------------
(* The remote workers.                                                     *)

(* A live worker is listed under its address as long as there is a table,  *)
(* and points at the factory no longer than the factory is there.          *)
WorkersInv ==
  /\ Workers!TypeOK
  /\ Workers!WorkersInUseLive
  /\ prompt => \A o \in Objects : life[o] # "doomed"
  /\ \A o \in Objects : life[o] = "live" => address[o] \in Addresses
  /\ Workers!OneWorkerPerAddress
  /\ Workers!NoneAttachedToDead

LEMMA WorkersStart == Workers!Init => WorkersInv
<1> SUFFICES ASSUME Workers!Init
             PROVE  WorkersInv
  OBVIOUS
<1>1. /\ prompt \in BOOLEAN
      /\ life = [o \in Objects |-> "unborn"]
      /\ external = [o \in Objects |-> 0]
      /\ held = [t \in Threads |-> {}]
      /\ remoteWorkers = [a \in Addresses |-> None]
      /\ address = [o \in Objects |-> None]
      /\ attached = {} /\ destroyed = FALSE
  BY TrackedAssumption DEF Workers!Init, Workers!TrackedInit
<1>2. Workers!TypeOK
  BY <1>1 DEF Workers!TypeOK, Workers!TrackedTypeOK, Workers!Life
<1>3. Workers!WorkersInUseLive
  BY <1>1 DEF Workers!WorkersInUseLive
<1> QED BY <1>1, <1>2, <1>3
        DEF WorkersInv, Workers!OneWorkerPerAddress, Workers!NoneAttachedToDead

LEMMA WorkersStep == WorkersInv /\ Workers!Next => WorkersInv'
<1> SUFFICES ASSUME WorkersInv, Workers!Next
             PROVE  WorkersInv'
  OBVIOUS
<1> USE TrackedAssumption
<1>1. /\ prompt' = prompt /\ prompt \in BOOLEAN
      /\ life \in [Objects -> {"unborn", "live", "doomed", "gone"}]
      /\ external \in [Objects -> Nat]
      /\ held \in [Threads -> SUBSET Objects]
      /\ remoteWorkers \in [Addresses -> Objects \cup {None}]
      /\ address \in [Objects -> Addresses \cup {None}]
      /\ attached \subseteq Objects
      /\ destroyed \in BOOLEAN
  BY DEF WorkersInv, Workers!Next, Workers!TypeOK, Workers!TrackedTypeOK, Workers!Life
<1> USE DEF WorkersInv, Workers!TypeOK, Workers!TrackedTypeOK, Workers!Life,
            Workers!WorkersInUseLive, Workers!OneWorkerPerAddress,
            Workers!NoneAttachedToDead, Workers!Exists
<1>2. CASE \E t \in Threads, a \in Addresses : Workers!GetRemoteWorker(t, a)
  <2>1. PICK t \in Threads, a \in Addresses : Workers!GetRemoteWorker(t, a)
    BY <1>2
  <2>2. CASE Workers!FindWorker(t, a)
    BY <1>1, <2>1, <2>2 DEF Workers!GetRemoteWorker, Workers!FindWorker, Workers!Usable,
         Workers!Revived, Workers!Hold
  <2>3. CASE \E o \in Objects : Workers!NewWorker(t, a, o)
    <3>1. PICK o \in Objects : Workers!NewWorker(t, a, o)
      BY <2>3
    <3> QED
      BY <1>1, <2>1, <3>1 DEF Workers!GetRemoteWorker, Workers!NewWorker, Workers!Usable,
         Workers!Revived, Workers!Hold, Workers!AddTrackedObject
  <2> QED BY <2>1, <2>2, <2>3 DEF Workers!GetRemoteWorker
<1>3. CASE \E t \in Threads, o \in Objects : Workers!NewCallSession(t, o)
  BY <1>1, <1>3 DEF Workers!NewCallSession, Workers!AddExternalReference
<1>4. CASE \E t \in Threads, o \in Objects :
             Workers!LetGo(t, o) /\ UNCHANGED <<remoteWorkers, address, attached, destroyed>>
  BY <1>1, <1>4 DEF Workers!LetGo
<1>5. CASE \E o \in Objects : Workers!DeleteCallSession(o)
  BY <1>1, <1>5 DEF Workers!DeleteCallSession, Workers!RemoveExternalReference
<1>6. CASE \E o \in Objects : Workers!Collector(o)
  <2>1. PICK o \in Objects : Workers!Collector(o)
    BY <1>6
  <2>2. CASE Workers!FindUnreachable(o) /\ UNCHANGED <<remoteWorkers, address, attached, destroyed>>
    BY <1>1, <2>2 DEF Workers!FindUnreachable, Workers!Unreachable
  <2>3. CASE Workers!NotReachable(o)
    BY <1>1, <2>3 DEF Workers!NotReachable, Workers!MayTell, Workers!Unreachable,
         Workers!Remove, Workers!Vanish
  <2> QED BY <2>1, <2>2, <2>3 DEF Workers!Collector
<1>7. CASE Workers!DestroyFactory
  BY <1>1, <1>7 DEF Workers!DestroyFactory, Workers!CodeStopped, Workers!Detached,
         Workers!trackedVars
<1> QED BY <1>2, <1>3, <1>4, <1>5, <1>6, <1>7 DEF Workers!Next

-----------------------------------------------------------------------------
(* The value registries.                                                   *)

(* A live tracked object guards a value that was not reclaimed; the        *)
(* objects that the persistent registry lists are live, each under one id, *)
(* and are the ones that external references pin.                          *)
RegistriesInv ==
  /\ Registries!TypeOK
  /\ \A o \in Objects : life[o] = "live" => guards[o] \in Values \ freed
  /\ Registries!UsedNotFreed
  /\ Registries!PinnedAreListed
  /\ \A i, j \in Ids : persistent[i] = persistent[j] /\ persistent[i] # None => i = j
  /\ \A i \in Ids : persistent[i] # None => life[persistent[i]] # "unborn"

LEMMA RegistriesStart == Registries!Init => RegistriesInv
<1> SUFFICES ASSUME Registries!Init
             PROVE  RegistriesInv
  OBVIOUS
<1>1. /\ prompt \in BOOLEAN
      /\ life = [o \in Objects |-> "unborn"]
      /\ external = [o \in Objects |-> 0]
      /\ held = [t \in Threads |-> {}]
      /\ cached = [i \in Ids |-> None]
      /\ persistent = [i \in Ids |-> None]
      /\ id = [o \in Objects |-> None]
      /\ guards = [o \in Objects |-> None]
      /\ using = [t \in Threads |-> {}]
      /\ freed = {} /\ destroyed = FALSE
  BY TrackedAssumption DEF Registries!Init, Registries!TrackedInit
<1>2. Registries!TypeOK
  BY <1>1 DEF Registries!TypeOK, Registries!TrackedTypeOK, Registries!Life, Registries!Table
<1>3. Registries!UsedNotFreed
  BY <1>1 DEF Registries!UsedNotFreed
<1>4. Registries!PinnedAreListed
  BY <1>1, TrackedAssumption DEF Registries!PinnedAreListed, Registries!KeepsAlive
<1> QED BY <1>1, <1>2, <1>3, <1>4 DEF RegistriesInv

LEMMA RegistriesStep == RegistriesInv /\ Registries!Next => RegistriesInv'
<1> SUFFICES ASSUME RegistriesInv, Registries!Next
             PROVE  RegistriesInv'
  OBVIOUS
<1> USE TrackedAssumption
<1>1. /\ prompt' = prompt /\ prompt \in BOOLEAN
      /\ life \in [Objects -> {"unborn", "live", "doomed", "gone"}]
      /\ external \in [Objects -> Nat]
      /\ held \in [Threads -> SUBSET Objects]
      /\ cached \in [Ids -> Objects \cup {None}]
      /\ persistent \in [Ids -> Objects \cup {None}]
      /\ id \in [Objects -> Ids \cup {None}]
      /\ guards \in [Objects -> Values \cup {None}]
      /\ using \in [Threads -> SUBSET Values]
      /\ freed \subseteq Values
      /\ destroyed \in BOOLEAN
  BY DEF RegistriesInv, Registries!Next, Registries!TypeOK, Registries!TrackedTypeOK,
         Registries!Life, Registries!Table
<1> USE DEF RegistriesInv, Registries!TypeOK, Registries!TrackedTypeOK, Registries!Life,
            Registries!Table, Registries!UsedNotFreed, Registries!PinnedAreListed,
            Registries!KeepsAlive, Registries!trackedVars
<1>2. CASE \E t \in Threads, v \in Values : Registries!Evaluate(t, v)
  BY <1>1, <1>2 DEF Registries!Evaluate, Registries!Use
<1>3. CASE \E t \in Threads, v \in Values : Registries!Forget(t, v)
  BY <1>1, <1>3 DEF Registries!Forget
<1>4. CASE \E t \in Threads, i \in Ids : Registries!Find(t, i)
  <2>1. PICK t \in Threads, i \in Ids : Registries!Find(t, i)
    BY <1>4
  <2>2. PICK o \in Objects : life[o] = "live" /\ Registries!Use(t, guards[o])
    BY <1>1, <2>1 DEF Registries!Find, Registries!CacheHit, Registries!Revived,
       Registries!FindPersistent
  <2> QED BY <1>1, <2>1, <2>2 DEF Registries!Find, Registries!Use
<1>5. CASE \E t \in Threads, i \in Ids, v \in Values : Registries!RegisterPersistent(t, i, v)
  BY <1>1, <1>5 DEF Registries!RegisterPersistent, Registries!NewGuard,
     Registries!AddTrackedObject, Registries!SwapReference
<1>6. CASE \E t \in Threads, i \in Ids, v \in Values : Registries!RegisterCached(t, i, v)
  BY <1>1, <1>6 DEF Registries!RegisterCached, Registries!NewGuard, Registries!AddTrackedObject
<1>7. CASE \E v \in Values : Registries!Reclaim(v)
  BY <1>1, <1>7 DEF Registries!Reclaim
<1>8. CASE \E o \in Objects : /\ Registries!FindUnreachable(o)
                              /\ UNCHANGED <<cached, persistent, Registries!unchanged>>
  BY <1>1, <1>8 DEF Registries!FindUnreachable, Registries!Unreachable, Registries!unchanged
<1>9. CASE \E o \in Objects : Registries!NotReachable(o)
  BY <1>1, <1>9 DEF Registries!NotReachable, Registries!MayTell, Registries!Unreachable,
     Registries!Remove, Registries!Vanish, Registries!unchanged
<1>10. CASE Registries!Destroy
  BY <1>1, <1>10 DEF Registries!Destroy, Registries!DestroyReleases
<1> QED BY <1>2, <1>3, <1>4, <1>5, <1>6, <1>7, <1>8, <1>9, <1>10 DEF Registries!Next

-----------------------------------------------------------------------------
(* The atoms.                                                              *)

(* An atom belongs to a state whose registry was made, for good.           *)
AtomsBelong ==
  /\ registry["base"] # "none"
  /\ \A o \in Objects : IF life[o] = "unborn"
                        THEN stateOf[o] = None
                        ELSE /\ name[o] \in Names /\ stateOf[o] \in AtomTable!States
                             /\ registry[stateOf[o]] # "none"

(* What a thread is making between its two critical sections is its own,   *)
(* and its registry stays in use meanwhile.                                *)
MakingOwn ==
  /\ \A t \in Threads : making[t] # AtomTable!Idle =>
       /\ making[t].state \in AtomTable!States
       /\ AtomTable!InUse(making[t].state)
       /\ making[t].atom \in held[t]
       /\ life[making[t].atom] = "live"
       /\ stateOf[making[t].atom] = making[t].state
  /\ \A t, u \in Threads : making[t].atom = making[u].atom /\ making[t].atom # None => t = u

(* With a prompt collector the table lists live atoms only, each at its    *)
(* place, and all those that threads were given; a fork lists no name that *)
(* its parent does.                                                        *)
TableExact ==
  prompt =>
    /\ keyOf = atomMap
    /\ \A o \in Objects : life[o] # "doomed"
    /\ \A s \in AtomTable!States, n \in Names : atomMap[s][n] # None =>
         /\ life[atomMap[s][n]] = "live"
         /\ stateOf[atomMap[s][n]] = s /\ name[atomMap[s][n]] = n
    /\ \A t \in Threads : making[t] # AtomTable!Idle =>
         atomMap[making[t].state][name[making[t].atom]] # making[t].atom
    /\ \A t \in Threads : \A o \in held[t] :
         /\ life[o] = "live"
         /\ stateOf[o] = "fork" => registry["fork"] = "open"
         /\ o # making[t].atom => atomMap[stateOf[o]][name[o]] = o
    /\ registry["fork"] = "open" =>
         \A n \in Names : atomMap["base"][n] # None =>
           /\ atomMap["fork"][n] = None
           /\ \A t \in Threads : making[t].state = "fork" => name[making[t].atom] # n

AtomsInv == /\ AtomTable!TypeOK
            /\ AtomsBelong
            /\ MakingOwn
            /\ TableExact
            /\ AtomTable!RefcountExact

Counted(s) == {o \in Objects : /\ stateOf[o] = s /\ AtomTable!Exists(o)
                               /\ \A t \in Threads : making[t].atom # o}

(* The instance counts a set as this module does.                          *)
LEMMA SameCount == \A S : AtomTable!Cardinality(S) = Cardinality(S)
  BY DEF AtomTable!Cardinality, Cardinality

LEMMA AtomsStart == AtomTable!Init => AtomsInv
<1> SUFFICES ASSUME AtomTable!Init
             PROVE  AtomsInv
  OBVIOUS
<1>1. /\ prompt \in BOOLEAN
      /\ life = [o \in Objects |-> "unborn"]
      /\ external = [o \in Objects |-> 0]
      /\ held = [t \in Threads |-> {}]
      /\ atomMap = [s \in AtomTable!States |-> [n \in Names |-> None]]
      /\ keyOf = atomMap
      /\ name = [o \in Objects |-> None]
      /\ stateOf = [o \in Objects |-> None]
      /\ refcount = [s \in AtomTable!States |-> IF s = "base" THEN 1 ELSE 0]
      /\ registry = [s \in AtomTable!States |-> IF s = "base" THEN "open" ELSE "none"]
      /\ making = [t \in Threads |-> AtomTable!Idle]
  BY TrackedAssumption DEF AtomTable!Init, AtomTable!TrackedInit
<1>2. AtomTable!Idle = [state |-> None, atom |-> None]
  BY DEF AtomTable!Idle
<1>3. AtomTable!States = {"base", "fork"}
  BY DEF AtomTable!States
<1>4. AtomTable!TypeOK
  BY <1>1, <1>2, <1>3
     DEF AtomTable!TypeOK, AtomTable!TrackedTypeOK, AtomTable!Life, AtomTable!SlotTables
<1>5. AtomsBelong /\ MakingOwn
  BY <1>1, <1>2, <1>3 DEF AtomsBelong, MakingOwn
<1>6. TableExact
  BY <1>1, <1>2, <1>3 DEF TableExact
<1>7. AtomTable!RefcountExact
  <2>1. \A s \in AtomTable!States : Counted(s) = {}
    BY <1>1 DEF Counted, AtomTable!Exists
  <2>2. \A s \in AtomTable!States :
          refcount[s] = (IF registry[s] = "open" THEN 1 ELSE 0) + 0
    BY <1>1, <1>3
  <2> QED BY <2>1, <2>2, FS_EmptySet, SameCount DEF Counted, AtomTable!RefcountExact
<1> QED BY <1>4, <1>5, <1>6, <1>7 DEF AtomsInv

(* A name is usable as soon as the search found an atom of it: nothing of  *)
(* the search's outcome asks whether it can be revived.                    *)
LEMMA UsableIsFound ==
  ASSUME NEW s \in AtomTable!States, NEW n \in Names
  PROVE  /\ AtomTable!Usable(s, n) <=> AtomTable!Found(s, n) # None
         /\ s = "base" => AtomTable!Found(s, n) = atomMap["base"][n]
         /\ s = "fork" => AtomTable!Found(s, n) =
                            IF atomMap["fork"][n] # None THEN atomMap["fork"][n]
                                                        ELSE atomMap["base"][n]
  BY NoneAssumption DEF AtomTable!States, AtomTable!Usable, AtomTable!Found,
     AtomTable!Cursor, AtomTable!Holder, AtomTable!Parent

(* The types of the table's variables, with the states named.              *)
AtomTypes ==
  /\ life \in [Objects -> {"unborn", "live", "doomed", "gone"}]
  /\ external \in [Objects -> Nat]
  /\ held \in [Threads -> SUBSET Objects]
  /\ atomMap \in [{"base", "fork"} -> [Names -> Objects \cup {None}]]
  /\ keyOf \in [{"base", "fork"} -> [Names -> Objects \cup {None}]]
  /\ name \in [Objects -> Names \cup {None}]
  /\ stateOf \in [Objects -> {"base", "fork", None}]
  /\ refcount \in [{"base", "fork"} -> Nat]
  /\ registry \in [{"base", "fork"} -> {"none", "open", "closed"}]
  /\ making \in [Threads -> [state : {"base", "fork", None}, atom : Objects \cup {None}]]

LEMMA AtomTypesMeanTypeOK ==
  AtomTable!TypeOK <=> prompt \in BOOLEAN /\ AtomTypes
<1>1. /\ AtomTable!States = {"base", "fork"}
      /\ AtomTable!States \cup {None} = {"base", "fork", None}
  BY DEF AtomTable!States
<1> QED BY <1>1 DEF AtomTable!TypeOK, AtomTable!TrackedTypeOK, AtomTable!Life,
        AtomTable!SlotTables, AtomTypes

(* The references of a state are those of its open registry and of the     *)
(* atoms that count.                                                       *)
Opened(s) == IF registry[s] = "open" THEN 1 ELSE 0

LEMMA ExactMeans ==
  AtomTable!RefcountExact <=>
    \A s \in {"base", "fork"} : refcount[s] = Opened(s) + Cardinality(Counted(s))
  BY SameCount DEF AtomTable!RefcountExact, Counted, Opened, AtomTable!States

LEMMA CountedFinite ==
  ASSUME NEW s
  PROVE  IsFiniteSet(Counted(s)) /\ Cardinality(Counted(s)) \in Nat
<1>1. Counted(s) \subseteq Objects
  BY DEF Counted
<1> QED BY <1>1, ObjectsAssumption, FS_Subset, FS_CardinalityType

(* What the registry of the atoms does leaves the invariant's first three  *)
(* parts true, whatever it does to the count.                              *)
AtomsParts == prompt \in BOOLEAN /\ AtomTypes /\ AtomsBelong /\ MakingOwn /\ TableExact

(* One entry of the tables changes.                                        *)
LEMMA SetSlot ==
  ASSUME NEW V, NEW f \in [{"base", "fork"} -> [Names -> V]],
         NEW s \in {"base", "fork"}, NEW n \in Names, NEW v \in V, NEW g,
         g = [f EXCEPT ![s][n] = v]
  PROVE  /\ g \in [{"base", "fork"} -> [Names -> V]]
         /\ \A r \in {"base", "fork"}, m \in Names :
              g[r][m] = IF r = s /\ m = n THEN v ELSE f[r][m]
<1>1. f[s] \in [Names -> V]
  OBVIOUS
<1>2. [f[s] EXCEPT ![n] = v] \in [Names -> V]
  BY <1>1
<1>3. g = [f EXCEPT ![s] = [f[s] EXCEPT ![n] = v]]
  OBVIOUS
<1> QED BY <1>1, <1>2, <1>3

(* The next step leaves the types and the three parts true.                *)
LEMMA AtomsPartsStep ==
  AtomsParts /\ AtomTable!RefcountExact /\ AtomTable!Next /\ refcount' \in [{"base", "fork"} -> Nat]
    => AtomsParts'
<1> SUFFICES ASSUME AtomsParts, AtomTable!RefcountExact, AtomTable!Next,
                    refcount' \in [{"base", "fork"} -> Nat]
             PROVE  AtomsParts'
  OBVIOUS
<1> USE TrackedAssumption, NoneAssumption
<1>1. /\ prompt' = prompt /\ prompt \in BOOLEAN
      /\ AtomTable!States = {"base", "fork"}
      /\ AtomTable!Idle = [state |-> None, atom |-> None]
      /\ AtomTypes /\ AtomsBelong /\ MakingOwn /\ TableExact
  BY DEF AtomsParts, AtomTable!Next, AtomTable!States, AtomTable!Idle
<1>2. CASE \E t \in Threads, s \in AtomTable!States, n \in Names : AtomTable!FindAtom(t, s, n)
  <2>1. PICK t \in Threads, s \in AtomTable!States, n \in Names : AtomTable!FindAtom(t, s, n)
    BY <1>2
  <2> DEFINE o == AtomTable!Found(s, n)
  <2>2. /\ making[t] = AtomTable!Idle /\ AtomTable!InUse(s)
        /\ o # None
        /\ s = "base" => o = atomMap["base"][n]
        /\ s = "fork" => o = IF atomMap["fork"][n] # None THEN atomMap["fork"][n]
                                                          ELSE atomMap["base"][n]
        /\ held' = [held EXCEPT ![t] = @ \cup {o}]
        /\ UNCHANGED <<life, external, atomMap, keyOf, refcount, name, stateOf, registry, making>>
    BY <2>1, UsableIsFound DEF AtomTable!FindAtom, AtomTable!Hold, AtomTable!tables, AtomTable!atoms
  <2> HIDE DEF o
  <2>3. o \in Objects
    BY <1>1, <2>2 DEF AtomTypes
  <2>4. AtomTypes'
    BY <1>1, <2>2, <2>3 DEF AtomTypes
  <2>5. AtomsBelong'
    BY <1>1, <2>2 DEF AtomsBelong
  <2>6. MakingOwn'
    BY <1>1, <2>2 DEF MakingOwn, AtomTypes, AtomTable!InUse, AtomTable!HasChildren
  <2>7. TableExact'
    BY <1>1, <2>2, <2>3 DEF TableExact, AtomTypes, AtomTable!InUse
  <2> QED BY <1>1, <2>4, <2>5, <2>6, <2>7 DEF AtomsParts
<1>3. CASE \E t \in Threads, s \in AtomTable!States, n \in Names : AtomTable!MakeAtom(t, s, n)
  <2>1. PICK t \in Threads, s \in AtomTable!States, n \in Names : AtomTable!MakeAtom(t, s, n)
    BY <1>3
  <2>2. PICK o \in Objects :
          /\ life[o] = "unborn"
          /\ life' = [life EXCEPT ![o] = "live"]
          /\ held' = [held EXCEPT ![t] = @ \cup {o}]
          /\ name' = [name EXCEPT ![o] = n]
          /\ stateOf' = [stateOf EXCEPT ![o] = s]
          /\ making' = [making EXCEPT ![t] = [state |-> s, atom |-> o]]
    BY <2>1 DEF AtomTable!MakeAtom, AtomTable!AddTrackedObject, AtomTable!Hold
  <2>3. /\ making[t] = AtomTable!Idle /\ AtomTable!InUse(s)
        /\ AtomTable!Found(s, n) = None
        /\ s = "base" => atomMap["base"][n] = None
        /\ s = "fork" => atomMap["fork"][n] = None /\ atomMap["base"][n] = None
        /\ keyOf' = [keyOf EXCEPT ![s][n] = None]
        /\ atomMap' = [atomMap EXCEPT ![s][n] = None]
        /\ UNCHANGED <<external, refcount, registry>>
    BY <2>1, UsableIsFound DEF AtomTable!MakeAtom
  <2>4. atomMap' = atomMap
    BY <1>1, <2>3 DEF AtomTypes
  <2>5. AtomTypes'
    BY <1>1, <2>2, <2>3 DEF AtomTypes
  <2>6. AtomsBelong'
    BY <1>1, <2>2, <2>3 DEF AtomsBelong, AtomTypes, AtomTable!InUse
  <2>7. MakingOwn'
    BY <1>1, <2>2, <2>3 DEF MakingOwn, AtomTypes, AtomTable!InUse, AtomTable!HasChildren
  <2>8. TableExact'
    <3> SUFFICES ASSUME prompt
                 PROVE  TableExact'
      BY <1>1 DEF TableExact
    <3>1. keyOf' = atomMap' /\ \A q \in Objects : life'[q] # "doomed"
      BY <1>1, <2>2, <2>3, <2>4
         DEF TableExact, AtomTypes, MakingOwn, AtomTable!InUse, AtomTable!HasChildren
    <3>2. \A r \in AtomTable!States, m \in Names : atomMap'[r][m] # None =>
           /\ life'[atomMap'[r][m]] = "live"
           /\ stateOf'[atomMap'[r][m]] = r /\ name'[atomMap'[r][m]] = m
      BY <1>1, <2>2, <2>3, <2>4
         DEF TableExact, AtomTypes, MakingOwn, AtomTable!InUse, AtomTable!HasChildren
    <3>3. \A u \in Threads : making'[u] # AtomTable!Idle =>
           atomMap'[making'[u].state][name'[making'[u].atom]] # making'[u].atom
      BY <1>1, <2>2, <2>3, <2>4
         DEF TableExact, AtomTypes, MakingOwn, AtomTable!InUse, AtomTable!HasChildren
    <3>4. \A u \in Threads : \A q \in held'[u] :
           /\ life'[q] = "live"
           /\ stateOf'[q] = "fork" => registry'["fork"] = "open"
      BY <1>1, <2>2, <2>3, <2>4
         DEF TableExact, AtomTypes, MakingOwn, AtomTable!InUse, AtomTable!HasChildren
    <3>5. \A u \in Threads : \A q \in held'[u] :
           q # making'[u].atom => atomMap'[stateOf'[q]][name'[q]] = q
      BY <1>1, <2>2, <2>3, <2>4
         DEF TableExact, AtomTypes, MakingOwn, AtomTable!InUse, AtomTable!HasChildren
    <3>6. registry'["fork"] = "open" =>
           \A m \in Names : atomMap'["base"][m] # None =>
             /\ atomMap'["fork"][m] = None
             /\ \A u \in Threads : making'[u].state = "fork" => name'[making'[u].atom] # m
      BY <1>1, <2>2, <2>3, <2>4
         DEF TableExact, AtomTypes, MakingOwn, AtomTable!InUse, AtomTable!HasChildren
    <3> QED BY <3>1, <3>2, <3>3, <3>4, <3>5, <3>6 DEF TableExact
  <2> QED BY <1>1, <2>5, <2>6, <2>7, <2>8 DEF AtomsParts
<1>4. CASE \E t \in Threads : AtomTable!ListAtom(t)
  <2>1. PICK t \in Threads : AtomTable!ListAtom(t)
    BY <1>4
  <2> DEFINE s == making[t].state
             o == making[t].atom
             n == name[o]
  <2>2. /\ making[t] # AtomTable!Idle
        /\ making' = [making EXCEPT ![t] = AtomTable!Idle]
        /\ UNCHANGED <<life, external, name, stateOf, registry>>
    BY <2>1 DEF AtomTable!ListAtom, AtomTable!atoms
  <2>3. /\ s \in {"base", "fork"} /\ o \in Objects /\ n \in Names
        /\ AtomTable!InUse(s) /\ o \in held[t] /\ life[o] = "live" /\ stateOf[o] = s
        /\ \A u \in Threads : making[u].atom = o => u = t
    BY <1>1, <2>2 DEF AtomTypes, MakingOwn, AtomsBelong
  <2>4. IF atomMap[s][n] = None \/ life[atomMap[s][n]] # "live"
        THEN /\ atomMap' = [atomMap EXCEPT ![s][n] = o]
             /\ keyOf' = [keyOf EXCEPT ![s][n] = IF @ = None THEN o ELSE @]
             /\ held' = held
        ELSE /\ held' = [held EXCEPT ![t] = (@ \ {o}) \cup {atomMap[s][n]}]
             /\ atomMap' = atomMap /\ keyOf' = keyOf
    BY <2>1 DEF AtomTable!ListAtom, AtomTable!CanList, AtomTable!Revived
  <2> HIDE DEF s, o, n
  <2>5. AtomTypes'
    <3>1. /\ atomMap' \in [{"base", "fork"} -> [Names -> Objects \cup {None}]]
          /\ keyOf' \in [{"base", "fork"} -> [Names -> Objects \cup {None}]]
      <4>1. (IF keyOf[s][n] = None THEN o ELSE keyOf[s][n]) \in Objects \cup {None}
        BY <1>1, <2>3 DEF AtomTypes
      <4>2. /\ atomMap \in [{"base", "fork"} -> [Names -> Objects \cup {None}]]
            /\ keyOf \in [{"base", "fork"} -> [Names -> Objects \cup {None}]]
            /\ o \in Objects \cup {None}
        BY <1>1, <2>3 DEF AtomTypes
      <4>3. CASE atomMap' = atomMap /\ keyOf' = keyOf
        BY <4>2, <4>3
      <4>4. CASE /\ atomMap' = [atomMap EXCEPT ![s][n] = o]
                 /\ keyOf' = [keyOf EXCEPT ![s][n] = IF keyOf[s][n] = None THEN o ELSE keyOf[s][n]]
        <5>1. atomMap' \in [{"base", "fork"} -> [Names -> Objects \cup {None}]]
          BY <2>3, <4>2, <4>4, SetSlot
        <5>2. keyOf' \in [{"base", "fork"} -> [Names -> Objects \cup {None}]]
          BY <2>3, <4>1, <4>2, <4>4, SetSlot
        <5> QED BY <5>1, <5>2
      <4> QED BY <2>4, <4>3, <4>4
    <3>2. held' \in [Threads -> SUBSET Objects]
      BY <1>1, <2>3, <2>4 DEF AtomTypes
    <3>3. making' \in [Threads -> [state : {"base", "fork", None}, atom : Objects \cup {None}]]
      BY <1>1, <2>2 DEF AtomTypes
    <3> QED BY <1>1, <2>2, <3>1, <3>2, <3>3 DEF AtomTypes
  <2>6. AtomsBelong'
    BY <1>1, <2>2 DEF AtomsBelong
  <2>7. MakingOwn'
    BY <1>1, <2>2, <2>3, <2>4 DEF MakingOwn, AtomTypes, AtomTable!InUse, AtomTable!HasChildren
  <2>8. TableExact'
    <3>1. n = name[o] /\ o = making[t].atom /\ s = making[t].state
      BY DEF s, o, n
    <3> SUFFICES ASSUME prompt
                 PROVE  TableExact'
      BY <1>1 DEF TableExact
    <3>2. /\ keyOf = atomMap /\ \A q \in Objects : life[q] # "doomed"
          /\ \A r \in {"base", "fork"}, m \in Names : atomMap[r][m] # None =>
               /\ life[atomMap[r][m]] = "live"
               /\ stateOf[atomMap[r][m]] = r /\ name[atomMap[r][m]] = m
      BY <1>1 DEF TableExact, AtomTable!States
    <3>3. \A u \in Threads : making[u] # AtomTable!Idle =>
            /\ atomMap[making[u].state][name[making[u].atom]] # making[u].atom
            /\ making[u].state \in {"base", "fork"} /\ name[making[u].atom] \in Names
      BY <1>1 DEF TableExact, MakingOwn, AtomsBelong, AtomTypes, AtomTable!States
    <3>4. \A u \in Threads : \A q \in held[u] :
            /\ q \in Objects /\ life[q] = "live"
            /\ stateOf[q] = "fork" => registry["fork"] = "open"
            /\ q # making[u].atom => atomMap[stateOf[q]][name[q]] = q
      BY <1>1 DEF TableExact, AtomTypes
    <3>5. registry["fork"] = "open" =>
            \A m \in Names : atomMap["base"][m] # None =>
              /\ atomMap["fork"][m] = None
              /\ \A u \in Threads : making[u].state = "fork" => name[making[u].atom] # m
      BY <1>1 DEF TableExact
    <3>6. making'[t] = AtomTable!Idle /\ \A u \in Threads : u # t => making'[u] = making[u]
      BY <1>1, <2>2 DEF AtomTypes
    <3>7. CASE atomMap[s][n] = None
      <4>1. /\ atomMap' = [atomMap EXCEPT ![s][n] = o]
            /\ keyOf' = atomMap' /\ held' = held
        <5>1. /\ atomMap' = [atomMap EXCEPT ![s][n] = o]
              /\ keyOf' = [keyOf EXCEPT ![s][n] = IF keyOf[s][n] = None THEN o ELSE keyOf[s][n]]
              /\ held' = held /\ keyOf = atomMap
          BY <2>3, <2>4, <3>2, <3>7
        <5>2. (IF keyOf[s][n] = None THEN o ELSE keyOf[s][n]) = o
          BY <3>7, <5>1
        <5> QED BY <5>1, <5>2
      <4>2. \A r \in {"base", "fork"}, m \in Names :
              atomMap'[r][m] = IF r = s /\ m = n THEN o ELSE atomMap[r][m]
        BY <1>1, <2>3, <4>1, SetSlot DEF AtomTypes
      <4>3. \A u \in Threads : making'[u] # AtomTable!Idle =>
              u # t /\ making'[u] = making[u] /\ making[u].atom # o
        BY <1>1, <2>2, <2>3 DEF AtomTypes
      <4>4. \A r \in {"base", "fork"}, m \in Names : atomMap'[r][m] # None =>
              /\ life'[atomMap'[r][m]] = "live"
              /\ stateOf'[atomMap'[r][m]] = r /\ name'[atomMap'[r][m]] = m
        BY <2>2, <2>3, <3>1, <3>2, <4>2
      <4>5. \A u \in Threads : making'[u] # AtomTable!Idle =>
              atomMap'[making'[u].state][name'[making'[u].atom]] # making'[u].atom
        BY <2>2, <3>3, <4>2, <4>3
      <4>6. ASSUME NEW u \in Threads, NEW q \in held'[u], q # making'[u].atom
            PROVE  atomMap'[stateOf'[q]][name'[q]] = q
        <5>1. /\ q \in held[u] /\ q \in Objects /\ life[q] = "live"
              /\ stateOf'[q] = stateOf[q] /\ name'[q] = name[q]
              /\ stateOf[q] \in {"base", "fork"} /\ name[q] \in Names
          BY <1>1, <2>2, <3>4, <4>1 DEF AtomsBelong, AtomTypes, AtomTable!States
        <5>2. CASE q = o
          BY <2>3, <3>1, <4>2, <5>1, <5>2
        <5>3. CASE q # o
          <6>1. q # making[u].atom
            BY <3>1, <3>6, <4>6, <5>3
          <6>2. atomMap[stateOf[q]][name[q]] = q /\ q # None
            BY <3>4, <5>1, <6>1, NoneAssumption
          <6>3. ~(stateOf[q] = s /\ name[q] = n)
            BY <3>7, <6>2
          <6> QED BY <4>2, <5>1, <6>2, <6>3
        <5> QED BY <5>2, <5>3
      <4>7. ASSUME registry["fork"] = "open", NEW m \in Names, atomMap'["base"][m] # None
            PROVE  /\ atomMap'["fork"][m] = None
                   /\ \A u \in Threads : making'[u].state = "fork" => name'[making'[u].atom] # m
        <5>1. s = "fork"
          BY <2>3, <4>7 DEF AtomTable!InUse, AtomTable!HasChildren
        <5>2. atomMap["base"][m] # None
          BY <4>2, <4>7, <5>1
        <5>3. m # n
          BY <1>1, <2>2, <2>3, <3>1, <3>5, <4>7, <5>1, <5>2 DEF AtomTypes
        <5>4. atomMap'["fork"][m] = None
          BY <3>5, <4>2, <4>7, <5>2, <5>3
        <5>5. \A u \in Threads : making'[u].state = "fork" => making'[u] = making[u]
          BY <1>1, <2>2 DEF AtomTypes
        <5> QED BY <2>2, <3>5, <4>7, <5>2, <5>4, <5>5
      <4>8. \A u \in Threads : \A q \in held'[u] :
              life'[q] = "live" /\ (stateOf'[q] = "fork" => registry'["fork"] = "open")
        BY <2>2, <3>4, <4>1
      <4> QED BY <2>2, <3>2, <4>1, <4>4, <4>5, <4>6, <4>7, <4>8 DEF TableExact, AtomTable!States
    <3>8. CASE atomMap[s][n] # None
      <4>1. life[atomMap[s][n]] = "live" /\ stateOf[atomMap[s][n]] = s /\ name[atomMap[s][n]] = n
        BY <2>3, <3>2, <3>8
      <4>2. /\ atomMap' = atomMap /\ keyOf' = keyOf
            /\ held' = [held EXCEPT ![t] = (held[t] \ {o}) \cup {atomMap[s][n]}]
        BY <2>4, <3>8, <4>1
      <4>3. /\ \A r \in {"base", "fork"}, m \in Names : atomMap'[r][m] # None =>
                 /\ life'[atomMap'[r][m]] = "live"
                 /\ stateOf'[atomMap'[r][m]] = r /\ name'[atomMap'[r][m]] = m
            /\ keyOf' = atomMap' /\ \A q \in Objects : life'[q] # "doomed"
        BY <2>2, <3>2, <4>2
      <4>4. \A u \in Threads : making'[u] # AtomTable!Idle =>
              atomMap'[making'[u].state][name'[making'[u].atom]] # making'[u].atom
        BY <2>2, <3>3, <3>6, <4>2
      <4>5. \A u \in Threads, q \in Objects : q \in held'[u] =>
              (q \in held[u] /\ (u = t => q # o)) \/ q = atomMap[s][n]
        BY <1>1, <4>2 DEF AtomTypes
      <4>6. held' \in [Threads -> SUBSET Objects]
        BY <2>5 DEF AtomTypes
      <4>7. atomMap[s][n] \in held'[t] /\ (s = "fork" => registry["fork"] = "open")
        BY <1>1, <2>3, <4>2 DEF AtomTypes, AtomTable!InUse
      <4>8. ASSUME NEW u \in Threads, NEW q \in held'[u]
            PROVE  /\ life'[q] = "live"
                   /\ stateOf'[q] = "fork" => registry'["fork"] = "open"
                   /\ q # making'[u].atom => atomMap'[stateOf'[q]][name'[q]] = q
        <5>1. q \in Objects
          BY <4>6
        <5>2. CASE q = atomMap[s][n]
          BY <2>2, <4>1, <4>2, <4>7, <5>2
        <5>3. CASE q \in held[u] /\ (u = t => q # o)
          BY <2>2, <3>1, <3>4, <3>6, <4>2, <5>3
        <5> QED BY <4>5, <5>1, <5>2, <5>3
      <4>9. \A u \in Threads : making'[u].state = "fork" => making'[u] = making[u]
        BY <1>1, <2>2 DEF AtomTypes
      <4>10. registry["fork"] = "open" =>
               \A m \in Names : atomMap'["base"][m] # None =>
                 /\ atomMap'["fork"][m] = None
                 /\ \A u \in Threads : making'[u].state = "fork" => name'[making'[u].atom] # m
        BY <2>2, <3>5, <4>2, <4>9
      <4> QED BY <2>2, <4>3, <4>4, <4>8, <4>10 DEF TableExact, AtomTable!States
    <3> QED BY <3>7, <3>8
  <2> QED BY <1>1, <2>5, <2>6, <2>7, <2>8 DEF AtomsParts
<1>5. CASE \E t \in Threads, o \in Objects : AtomTable!Drop(t, o)
  <2>1. PICK t \in Threads, o \in Objects : AtomTable!Drop(t, o)
    BY <1>5
  <2>2. /\ o # making[t].atom
        /\ held' = [held EXCEPT ![t] = @ \ {o}]
        /\ UNCHANGED <<life, external, atomMap, keyOf, refcount, name, stateOf, registry, making>>
    BY <2>1 DEF AtomTable!Drop, AtomTable!LetGo, AtomTable!tables, AtomTable!atoms
  <2>3. AtomTypes' /\ AtomsBelong' /\ MakingOwn' /\ TableExact'
    BY <1>1, <2>2 DEF AtomTypes, AtomsBelong, MakingOwn, TableExact, AtomTable!InUse,
       AtomTable!HasChildren
  <2> QED BY <1>1, <2>3 DEF AtomsParts
<1>6. CASE \E o \in Objects : AtomTable!Condemn(o)
  <2>1. PICK o \in Objects : AtomTable!Condemn(o)
    BY <1>6
  <2>2. /\ ~prompt /\ life[o] = "live"
        /\ \A t \in Threads : o \notin held[t]
        /\ life' = [life EXCEPT ![o] = "doomed"]
        /\ UNCHANGED <<held, external, atomMap, keyOf, refcount, name, stateOf, registry, making>>
    BY <2>1 DEF AtomTable!Condemn, AtomTable!FindUnreachable, AtomTable!Unreachable,
       AtomTable!tables, AtomTable!atoms
  <2>3. AtomTypes' /\ AtomsBelong' /\ MakingOwn' /\ TableExact'
    BY <1>1, <2>2 DEF AtomTypes, AtomsBelong, MakingOwn, TableExact, AtomTable!InUse,
       AtomTable!HasChildren
  <2> QED BY <1>1, <2>3 DEF AtomsParts
<1>7. CASE \E o \in Objects : AtomTable!NotReachable(o)
  <2>1. PICK o \in Objects : AtomTable!NotReachable(o)
    BY <1>7
  <2>2. /\ IF prompt THEN life[o] = "live" /\ \A t \in Threads : o \notin held[t]
                     ELSE life[o] = "doomed"
        /\ life' = [life EXCEPT ![o] = "gone"]
        /\ IF atomMap[stateOf[o]][name[o]] = o
           THEN /\ atomMap' = [atomMap EXCEPT ![stateOf[o]][name[o]] = None]
                /\ keyOf' = [keyOf EXCEPT ![stateOf[o]][name[o]] = None]
           ELSE atomMap' = atomMap /\ keyOf' = keyOf
        /\ UNCHANGED <<held, external, name, stateOf, registry, making>>
    BY <2>1 DEF AtomTable!NotReachable, AtomTable!MayTell, AtomTable!Unreachable,
       AtomTable!Vanish, AtomTable!Unlists, AtomTable!atoms
  <2>3. /\ stateOf[o] \in {"base", "fork"} /\ name[o] \in Names
        /\ life[o] # "unborn"
    BY <1>1, <2>2 DEF AtomsBelong
  <2>4. AtomTypes'
    <3>1. /\ atomMap' \in [{"base", "fork"} -> [Names -> Objects \cup {None}]]
          /\ keyOf' \in [{"base", "fork"} -> [Names -> Objects \cup {None}]]
      <4>1. /\ atomMap \in [{"base", "fork"} -> [Names -> Objects \cup {None}]]
            /\ keyOf \in [{"base", "fork"} -> [Names -> Objects \cup {None}]]
        BY <1>1 DEF AtomTypes
      <4>2. CASE atomMap' = atomMap /\ keyOf' = keyOf
        BY <4>1, <4>2
      <4>3. CASE /\ atomMap' = [atomMap EXCEPT ![stateOf[o]][name[o]] = None]
                 /\ keyOf' = [keyOf EXCEPT ![stateOf[o]][name[o]] = None]
        <5>1. atomMap' \in [{"base", "fork"} -> [Names -> Objects \cup {None}]]
          BY <2>3, <4>1, <4>3, SetSlot
        <5>2. keyOf' \in [{"base", "fork"} -> [Names -> Objects \cup {None}]]
          BY <2>3, <4>1, <4>3, SetSlot
        <5> QED BY <5>1, <5>2
      <4> QED BY <2>2, <4>2, <4>3
    <3> QED BY <1>1, <2>2, <3>1 DEF AtomTypes
  <2>5. AtomsBelong' /\ MakingOwn'
    BY <1>1, <2>2, <2>3 DEF AtomTypes, AtomsBelong, MakingOwn, AtomTable!InUse, AtomTable!HasChildren
  <2>6. TableExact'
    <3> SUFFICES ASSUME prompt
                 PROVE  TableExact'
      BY <1>1 DEF TableExact
    <3>1. \A r \in {"base", "fork"}, m \in Names :
            atomMap'[r][m] = IF atomMap[r][m] = o THEN None ELSE atomMap[r][m]
      <4>1. \A r \in {"base", "fork"}, m \in Names :
              atomMap[r][m] = o => r = stateOf[o] /\ m = name[o]
        BY <1>1 DEF TableExact
      <4>2. CASE atomMap[stateOf[o]][name[o]] = o
        <5>1. \A r \in {"base", "fork"}, m \in Names :
                atomMap'[r][m] = IF r = stateOf[o] /\ m = name[o] THEN None ELSE atomMap[r][m]
          BY <1>1, <2>2, <2>3, <4>2, SetSlot DEF AtomTypes
        <5> QED BY <4>1, <4>2, <5>1
      <4> QED BY <2>2, <2>3, <4>1, <4>2
    <3>2. keyOf' = atomMap'
      BY <1>1, <2>2 DEF TableExact
    <3>3. /\ life[o] = "live" /\ \A t \in Threads : o \notin held[t]
          /\ \A t \in Threads : making[t] # AtomTable!Idle => making[t].atom # o
      BY <1>1, <2>2 DEF MakingOwn
    <3>4. \A p \in Objects : p # o => life'[p] = life[p]
      BY <1>1, <2>2 DEF AtomTypes
    <3>5. /\ \A p \in Objects : life'[p] # "doomed"
          /\ \A r \in {"base", "fork"}, m \in Names : atomMap'[r][m] # None =>
               /\ life'[atomMap'[r][m]] = "live"
               /\ stateOf[atomMap'[r][m]] = r /\ name[atomMap'[r][m]] = m
      <4>1. \A r \in {"base", "fork"}, m \in Names : atomMap'[r][m] # None =>
              /\ atomMap'[r][m] = atomMap[r][m] /\ atomMap[r][m] # o
              /\ atomMap[r][m] \in Objects
        BY <1>1, <3>1 DEF AtomTypes
      <4> QED BY <1>1, <2>2, <3>4, <4>1 DEF TableExact, AtomTypes
    <3>6. \A t \in Threads : making[t] # AtomTable!Idle =>
            atomMap'[making[t].state][name[making[t].atom]] # making[t].atom
      <4>1. \A t \in Threads : making[t] # AtomTable!Idle =>
              /\ making[t].state \in {"base", "fork"}
              /\ making[t].atom \in Objects /\ name[making[t].atom] \in Names
        BY <1>1 DEF AtomTypes, MakingOwn, AtomsBelong
      <4> QED BY <1>1, <3>1, <4>1 DEF TableExact
    <3>7. \A t \in Threads : \A p \in held[t] :
            /\ life'[p] = "live"
            /\ stateOf[p] = "fork" => registry["fork"] = "open"
            /\ p # making[t].atom => atomMap'[stateOf[p]][name[p]] = p
      <4>1. \A t \in Threads : \A p \in held[t] :
              /\ p \in Objects /\ p # o /\ life[p] = "live"
              /\ stateOf[p] \in {"base", "fork"} /\ name[p] \in Names
        BY <1>1, <3>3 DEF AtomTypes, AtomsBelong, TableExact
      <4> QED BY <1>1, <3>1, <3>4, <4>1 DEF TableExact
    <3>8. registry["fork"] = "open" =>
            \A n \in Names : atomMap'["base"][n] # None =>
              /\ atomMap'["fork"][n] = None
              /\ \A t \in Threads : making[t].state = "fork" => name[making[t].atom] # n
      BY <1>1, <3>1 DEF TableExact
    <3> QED BY <1>1, <2>2, <3>2, <3>5, <3>6, <3>7, <3>8 DEF TableExact
  <2> QED BY <1>1, <2>4, <2>5, <2>6 DEF AtomsParts
<1>8. CASE AtomTable!Fork
  <2>1. /\ registry["base"] = "open" /\ registry["fork"] = "none"
        /\ \A t \in Threads : making[t] = AtomTable!Idle
        /\ registry' = [registry EXCEPT !["fork"] = "open"]
        /\ UNCHANGED <<life, held, external, atomMap, keyOf, name, stateOf, making>>
    BY <1>8 DEF AtomTable!Fork, AtomTable!trackedVars, AtomTable!atoms
  <2>2. AtomTypes' /\ AtomsBelong' /\ MakingOwn'
    BY <1>1, <2>1 DEF AtomTypes, AtomsBelong, MakingOwn
  <2>3. TableExact'
    BY <1>1, <2>1 DEF TableExact, AtomTypes, AtomsBelong
  <2> QED BY <1>1, <2>2, <2>3 DEF AtomsParts
<1>9. CASE \E s \in AtomTable!States : AtomTable!Close(s)
  <2>1. PICK s \in AtomTable!States : AtomTable!Close(s)
    BY <1>9
  <2>2. /\ registry[s] = "open"
        /\ \A t \in Threads : /\ making[t] = AtomTable!Idle
                              /\ \A o \in held[t] : stateOf[o] # s
        /\ registry' = [registry EXCEPT ![s] = "closed"]
        /\ UNCHANGED <<life, held, external, atomMap, keyOf, name, stateOf, making>>
    BY <2>1 DEF AtomTable!Close, AtomTable!InUse, AtomTable!trackedVars, AtomTable!atoms
  <2>3. AtomTypes' /\ AtomsBelong' /\ MakingOwn'
    BY <1>1, <2>2 DEF AtomTypes, AtomsBelong, MakingOwn
  <2>4. TableExact'
    BY <1>1, <2>2 DEF TableExact, AtomTypes
  <2> QED BY <1>1, <2>3, <2>4 DEF AtomsParts
<1> QED BY <1>2, <1>3, <1>4, <1>5, <1>6, <1>7, <1>8, <1>9 DEF AtomTable!Next

(* The next step counts every reference that it makes or drops.            *)
LEMMA AtomsCountStep ==
  AtomsParts /\ AtomTable!RefcountExact /\ AtomTable!Next
    => refcount' \in [{"base", "fork"} -> Nat] /\ AtomTable!RefcountExact'
<1> SUFFICES ASSUME AtomsParts, AtomTable!RefcountExact, AtomTable!Next
             PROVE  refcount' \in [{"base", "fork"} -> Nat] /\ AtomTable!RefcountExact'
  OBVIOUS
<1> USE TrackedAssumption, NoneAssumption
<1>1. /\ prompt' = prompt /\ prompt \in BOOLEAN
      /\ AtomTable!States = {"base", "fork"}
      /\ AtomTable!Idle = [state |-> None, atom |-> None]
      /\ AtomTypes /\ AtomsBelong /\ MakingOwn
  BY DEF AtomsParts, AtomTable!Next, AtomTable!States, AtomTable!Idle
<1>2. \A s \in {"base", "fork"} : refcount[s] = Opened(s) + Cardinality(Counted(s))
  BY ExactMeans
<1>3. \A s : IsFiniteSet(Counted(s)) /\ Cardinality(Counted(s)) \in Nat
  BY CountedFinite
<1>4. \A s : IsFiniteSet(Counted(s)') /\ Cardinality(Counted(s)') \in Nat
  <2>1. \A s : Counted(s)' \subseteq Objects
    BY DEF Counted
  <2> QED BY <2>1, ObjectsAssumption, FS_Subset, FS_CardinalityType
<1>5. refcount \in [{"base", "fork"} -> Nat]
  BY <1>1 DEF AtomTypes
<1> SUFFICES /\ \E r \in {"base", "fork"} : \E k : refcount' = [refcount EXCEPT ![r] = k]
             /\ \A s \in {"base", "fork"} :
                  refcount'[s] = Opened(s)' + Cardinality(Counted(s)')
  <2>1. \A s \in {"base", "fork"} : refcount'[s] \in Nat
    BY <1>4 DEF Opened
  <2>2. refcount' \in [{"base", "fork"} -> Nat]
    BY <1>5, <2>1
  <2>3. AtomTable!RefcountExact'
    BY SameCount DEF AtomTable!RefcountExact, Counted, Opened, AtomTable!States
  <2> QED BY <2>2, <2>3
<1>6. ASSUME refcount' = refcount
      PROVE  \E r \in {"base", "fork"} : \E k : refcount' = [refcount EXCEPT ![r] = k]
  <2>1. refcount' = [refcount EXCEPT !["base"] = refcount["base"]]
    BY <1>5, <1>6
  <2> QED BY <2>1
<1>7. ASSUME refcount' = refcount, \A s \in {"base", "fork"} : Counted(s)' = Counted(s) /\ Opened(s)' = Opened(s)
      PROVE  /\ \E r \in {"base", "fork"} : \E k : refcount' = [refcount EXCEPT ![r] = k]
             /\ \A s \in {"base", "fork"} :
                  refcount'[s] = Opened(s)' + Cardinality(Counted(s)')
  BY <1>2, <1>6, <1>7
<1>8. CASE \E t \in Threads, s \in AtomTable!States, n \in Names : AtomTable!FindAtom(t, s, n)
  BY <1>7, <1>8 DEF AtomTable!FindAtom, AtomTable!tables, AtomTable!atoms, Counted, Opened,
     AtomTable!Exists
<1>9. CASE \E t \in Threads, s \in AtomTable!States, n \in Names : AtomTable!MakeAtom(t, s, n)
  <2>1. PICK t \in Threads, s \in AtomTable!States, n \in Names : AtomTable!MakeAtom(t, s, n)
    BY <1>9
  <2>2. PICK o \in Objects :
          /\ making[t] = AtomTable!Idle
          /\ life[o] = "unborn"
          /\ life' = [life EXCEPT ![o] = "live"]
          /\ stateOf' = [stateOf EXCEPT ![o] = s]
          /\ making' = [making EXCEPT ![t] = [state |-> s, atom |-> o]]
          /\ refcount' = refcount /\ registry' = registry
    BY <2>1 DEF AtomTable!MakeAtom, AtomTable!AddTrackedObject
  <2>3. \A r \in {"base", "fork"} : Counted(r)' = Counted(r)
    BY <1>1, <2>2 DEF Counted, AtomTable!Exists, AtomTypes
  <2> QED BY <1>7, <2>2, <2>3 DEF Opened
<1>10. CASE \E t \in Threads : AtomTable!ListAtom(t)
  <2>1. PICK t \in Threads : AtomTable!ListAtom(t)
    BY <1>10
  <2>2. PICK s, o :
          /\ s = making[t].state /\ o = making[t].atom
          /\ making[t] # AtomTable!Idle
          /\ making' = [making EXCEPT ![t] = AtomTable!Idle]
          /\ refcount' = [refcount EXCEPT ![s] = @ + 1]
          /\ UNCHANGED <<life, stateOf, registry>>
    BY <2>1 DEF AtomTable!ListAtom, AtomTable!atoms, AtomTable!NewRefs
  <2>3. /\ s \in {"base", "fork"} /\ o \in Objects
        /\ life[o] = "live" /\ stateOf[o] = s
        /\ \A u \in Threads : making[u].atom = o => u = t
    BY <1>1, <2>2 DEF AtomTypes, MakingOwn
  <2>4. Counted(s)' = Counted(s) \cup {o} /\ o \notin Counted(s)
    BY <1>1, <2>2, <2>3 DEF Counted, AtomTable!Exists, AtomTypes
  <2>5. \A r \in {"base", "fork"} \ {s} : Counted(r)' = Counted(r)
    BY <1>1, <2>2, <2>3 DEF Counted, AtomTable!Exists, AtomTypes
  <2>6. Cardinality(Counted(s)') = Cardinality(Counted(s)) + 1
    BY <1>3, <2>4, FS_AddElement
  <2>7. \A r \in {"base", "fork"} : Opened(r)' = Opened(r) /\ Opened(r) \in Nat
    BY <2>2 DEF Opened
  <2>8. refcount'[s] = Opened(s)' + Cardinality(Counted(s)')
    BY <1>2, <1>3, <1>5, <2>2, <2>3, <2>6, <2>7
  <2>9. \A r \in {"base", "fork"} \ {s} : refcount'[r] = Opened(r)' + Cardinality(Counted(r)')
    BY <1>2, <1>5, <2>2, <2>5, <2>7
  <2> QED BY <2>2, <2>3, <2>8, <2>9
<1>11. CASE \E t \in Threads, o \in Objects : AtomTable!Drop(t, o)
  BY <1>7, <1>11 DEF AtomTable!Drop, AtomTable!LetGo, AtomTable!tables, AtomTable!atoms, Counted,
     Opened, AtomTable!Exists
<1>12. CASE \E o \in Objects : AtomTable!Condemn(o)
  <2>1. PICK o \in Objects :
          /\ life[o] = "live" /\ life' = [life EXCEPT ![o] = "doomed"]
          /\ UNCHANGED <<stateOf, registry, making, refcount>>
    BY <1>12 DEF AtomTable!Condemn, AtomTable!FindUnreachable, AtomTable!Unreachable,
       AtomTable!tables, AtomTable!atoms
  <2>2. \A r \in {"base", "fork"} : Counted(r)' = Counted(r)
    BY <1>1, <2>1 DEF Counted, AtomTable!Exists, AtomTypes
  <2> QED BY <1>7, <2>1, <2>2 DEF Opened
<1>13. CASE \E o \in Objects : AtomTable!NotReachable(o)
  <2>1. PICK o \in Objects : AtomTable!NotReachable(o)
    BY <1>13
  <2>2. PICK s :
          /\ s = stateOf[o]
          /\ IF prompt THEN life[o] = "live" /\ \A t \in Threads : o \notin held[t]
                       ELSE life[o] = "doomed"
          /\ life' = [life EXCEPT ![o] = "gone"]
          /\ refcount' = [refcount EXCEPT ![s] = @ - 1]
          /\ UNCHANGED <<stateOf, registry, making>>
    BY <2>1 DEF AtomTable!NotReachable, AtomTable!MayTell, AtomTable!Unreachable,
       AtomTable!Vanish, AtomTable!atoms
  <2>3. /\ s \in {"base", "fork"}
        /\ life[o] \in {"live", "doomed"}
        /\ \A t \in Threads : making[t].atom # o
    BY <1>1, <2>2 DEF AtomsBelong, MakingOwn, AtomTypes
  <2>4. Counted(s)' = Counted(s) \ {o} /\ o \in Counted(s)
    BY <1>1, <2>2, <2>3 DEF Counted, AtomTable!Exists, AtomTypes
  <2>5. \A r \in {"base", "fork"} \ {s} : Counted(r)' = Counted(r)
    BY <1>1, <2>2, <2>3 DEF Counted, AtomTable!Exists, AtomTypes
  <2>6. Cardinality(Counted(s)') = Cardinality(Counted(s)) - 1
    BY <1>3, <2>4, FS_RemoveElement
  <2>7. \A r \in {"base", "fork"} : Opened(r)' = Opened(r) /\ Opened(r) \in Nat
    BY <2>2 DEF Opened
  <2>8. refcount'[s] = Opened(s)' + Cardinality(Counted(s)')
    BY <1>2, <1>3, <1>5, <2>2, <2>3, <2>6, <2>7
  <2>9. \A r \in {"base", "fork"} \ {s} : refcount'[r] = Opened(r)' + Cardinality(Counted(r)')
    BY <1>2, <1>5, <2>2, <2>5, <2>7
  <2> QED BY <2>2, <2>3, <2>8, <2>9
<1>14. CASE AtomTable!Fork
  <2>1. /\ registry["fork"] = "none"
        /\ registry' = [registry EXCEPT !["fork"] = "open"]
        /\ refcount' = [refcount EXCEPT !["fork"] = 1]
        /\ UNCHANGED <<life, stateOf, making>>
    BY <1>14 DEF AtomTable!Fork, AtomTable!trackedVars, AtomTable!atoms
  <2>2. \A r \in {"base", "fork"} : Counted(r)' = Counted(r)
    BY <2>1 DEF Counted, AtomTable!Exists
  <2>3. Counted("fork") = {}
    BY <1>1, <2>1 DEF Counted, AtomsBelong, AtomTable!Exists
  <2>4. Opened("base")' = Opened("base") /\ Opened("fork")' = 1
    BY <1>1, <2>1 DEF Opened, AtomTypes
  <2>5. refcount'["base"] = refcount["base"] /\ refcount'["fork"] = 1
    BY <1>5, <2>1
  <2>6. refcount'["fork"] = Opened("fork")' + Cardinality(Counted("fork")')
    BY <2>2, <2>3, <2>4, <2>5, FS_EmptySet
  <2>7. refcount'["base"] = Opened("base")' + Cardinality(Counted("base")')
    BY <1>2, <2>2, <2>4, <2>5
  <2> QED BY <2>1, <2>6, <2>7
<1>15. CASE \E s \in AtomTable!States : AtomTable!Close(s)
  <2>1. PICK s \in {"base", "fork"} :
          /\ registry[s] = "open"
          /\ registry' = [registry EXCEPT ![s] = "closed"]
          /\ refcount' = [refcount EXCEPT ![s] = @ - 1]
          /\ UNCHANGED <<life, stateOf, making>>
    BY <1>1, <1>15 DEF AtomTable!Close, AtomTable!InUse, AtomTable!trackedVars, AtomTable!atoms
  <2>2. \A r \in {"base", "fork"} : Counted(r)' = Counted(r)
    BY <2>1 DEF Counted, AtomTable!Exists
  <2>3. \A r \in {"base", "fork"} : Opened(r) \in Nat /\ Opened(r)' = IF r = s THEN 0 ELSE Opened(r)
    BY <1>1, <2>1 DEF Opened, AtomTypes
  <2>4. \A r \in {"base", "fork"} : refcount'[r] = IF r = s THEN refcount[r] - 1 ELSE refcount[r]
    BY <1>5, <2>1
  <2>5. Opened(s) = 1
    BY <2>1 DEF Opened
  <2>6. \A r \in {"base", "fork"} : refcount'[r] = Opened(r)' + Cardinality(Counted(r)')
    BY <1>2, <1>3, <2>2, <2>3, <2>4, <2>5
  <2> QED BY <2>1, <2>6
<1> QED BY <1>8, <1>9, <1>10, <1>11, <1>12, <1>13, <1>14, <1>15 DEF AtomTable!Next

LEMMA AtomsStep == AtomsInv /\ AtomTable!Next => AtomsInv'
<1> SUFFICES ASSUME AtomsInv, AtomTable!Next
             PROVE  AtomsInv'
  OBVIOUS
<1>1. AtomsParts /\ AtomTable!RefcountExact
  BY AtomTypesMeanTypeOK DEF AtomsInv, AtomsParts
<1>2. refcount' \in [{"base", "fork"} -> Nat] /\ AtomTable!RefcountExact'
  BY <1>1, AtomsCountStep
<1>3. AtomsParts'
  BY <1>1, <1>2, AtomsPartsStep
<1>4. AtomTable!TypeOK'
  <2>1. /\ AtomTable!States = {"base", "fork"}
        /\ AtomTable!States \cup {None} = {"base", "fork", None}
    BY DEF AtomTable!States
  <2> QED BY <1>3, <2>1 DEF AtomsParts, AtomTable!TypeOK, AtomTable!TrackedTypeOK, AtomTable!Life,
          AtomTable!SlotTables, AtomTypes
<1> QED BY <1>2, <1>3, <1>4 DEF AtomsInv, AtomsParts

(* What TableExact says with a prompt collector is all that the names and  *)
(* the keys need: two threads that were given atoms of one name found them *)
(* at one place, the parent's if the parent lists the name.                *)
LEMMA TableExactMakesUnique ==
  AtomsInv => AtomTable!OneAtomPerName /\ AtomTable!KeysExist
<1> SUFFICES ASSUME AtomsInv, prompt
             PROVE  AtomTable!OneAtomPerName /\ AtomTable!KeysExist
  BY DEF AtomTable!OneAtomPerName, AtomTable!KeysExist
<1> USE NoneAssumption, TrackedAssumption
<1>1. AtomTypes /\ AtomsBelong /\ TableExact /\ AtomTable!States = {"base", "fork"}
  BY AtomTypesMeanTypeOK DEF AtomsInv, AtomTable!States
<1>2. AtomTable!KeysExist
  <2>1. \A s \in {"base", "fork"}, n \in Names : keyOf[s][n] # None => life[keyOf[s][n]] = "live"
    BY <1>1 DEF TableExact
  <2> QED BY <1>1, <2>1 DEF AtomTable!KeysExist, AtomTable!Exists
<1>3. ASSUME NEW t \in Threads, NEW u \in Threads,
             NEW o \in held[t] \ {making[t].atom}, NEW p \in held[u] \ {making[u].atom}
      PROVE  life[o] = "live" /\ (name[o] = name[p] => o = p)
  <2>1. /\ o \in Objects /\ p \in Objects
        /\ life[o] = "live" /\ life[p] = "live"
        /\ stateOf[o] \in {"base", "fork"} /\ stateOf[p] \in {"base", "fork"}
        /\ name[o] \in Names /\ name[p] \in Names
        /\ atomMap[stateOf[o]][name[o]] = o /\ atomMap[stateOf[p]][name[p]] = p
        /\ stateOf[o] = "fork" => registry["fork"] = "open"
        /\ stateOf[p] = "fork" => registry["fork"] = "open"
    BY <1>1, <1>3 DEF AtomTypes, AtomsBelong, TableExact
  <2>2. registry["fork"] = "open" =>
          \A n \in Names : atomMap["base"][n] # None => atomMap["fork"][n] = None
    BY <1>1 DEF TableExact
  <2> QED BY <2>1, <2>2
<1> QED BY <1>2, <1>3 DEF AtomTable!OneAtomPerName, AtomTable!Given

-----------------------------------------------------------------------------
(* The three tables together.                                              *)

(* The table that moves keeps its invariant; the others stand still.       *)
TablesInv ==
  /\ part \in {"workers", "registries", "atoms"}
  /\ part = "workers" => WorkersInv
  /\ part = "registries" => RegistriesInv
  /\ part = "atoms" => AtomsInv

LEMMA TablesStep == TablesInv /\ [TablesNext]_tableVars => TablesInv'
<1> SUFFICES ASSUME TablesInv, [TablesNext]_tableVars
             PROVE  TablesInv'
  OBVIOUS
<1>1. CASE part = "workers" /\ Workers!Next /\ part' = part
  BY <1>1, WorkersStep DEF TablesInv
<1>2. CASE part = "registries" /\ Registries!Next /\ part' = part
  BY <1>2, RegistriesStep DEF TablesInv
<1>3. CASE part = "atoms" /\ AtomTable!Next /\ part' = part
  BY <1>3, AtomsStep DEF TablesInv
<1>4. CASE UNCHANGED tableVars
  <2> USE <1>4 DEF tableVars, trackedVars, workerVars, registryVars, atomVars
  <2>1. WorkersInv => WorkersInv'
    BY DEF WorkersInv, Workers!TypeOK, Workers!TrackedTypeOK, Workers!WorkersInUseLive,
       Workers!OneWorkerPerAddress, Workers!NoneAttachedToDead, Workers!Exists
  <2>2. RegistriesInv => RegistriesInv'
    BY DEF RegistriesInv, Registries!TypeOK, Registries!TrackedTypeOK, Registries!UsedNotFreed,
       Registries!PinnedAreListed, Registries!KeepsAlive
  <2>3. AtomsInv => AtomsInv'
    BY DEF AtomsInv, AtomTable!TypeOK, AtomTable!TrackedTypeOK, AtomsBelong, MakingOwn, TableExact,
       AtomTable!RefcountExact, AtomTable!InUse, AtomTable!HasChildren, AtomTable!Exists
  <2> QED BY <2>1, <2>2, <2>3 DEF TablesInv
<1> QED BY <1>1, <1>2, <1>3, <1>4 DEF TablesNext

(* The tables of a process always satisfy the inductive invariant of the   *)
(* one whose operations and objects' ends are considered.                  *)
THEOREM TablesInvHolds == TablesSpec => []TablesInv
<1>1. TablesInit => TablesInv
  BY WorkersStart, RegistriesStart, AtomsStart DEF TablesInit, TablesInv
<1> QED BY <1>1, TablesStep, PTL DEF TablesSpec

(* However the collector and the threads interleave, a worker in use is    *)
(* alive, no dead one is attached to the factory, and an address has at    *)
(* most one live worker.                                                   *)
THEOREM WorkersStayUnique == TablesSpec => []OneLiveWorkerPerAddress
<1>1. TablesInv => OneLiveWorkerPerAddress
  BY DEF TablesInv, WorkersInv, OneLiveWorkerPerAddress
<1> QED BY <1>1, TablesInvHolds, PTL

(* A value that a thread looked up or still uses was not reclaimed, nor    *)
(* was one registered for good; and the registry pins exactly the objects  *)
(* that it lists, once each.                                               *)
THEOREM ValuesStayAlive == TablesSpec => []ValuesListedAndAlive
<1>1. TablesInv => ValuesListedAndAlive
  BY DEF TablesInv, RegistriesInv, ValuesListedAndAlive
<1> QED BY <1>1, TablesInvHolds, PTL

(* With a prompt collector two atoms of one name in use are one object,    *)
(* across threads and a fork, and every key of the table still has its     *)
(* bytes.                                                                  *)
THEOREM NamesHaveOneAtom == TablesSpec => []AtomsUnique
<1>1. TablesInv => AtomsUnique
  BY TableExactMakesUnique DEF TablesInv, AtomsUnique
<1> QED BY <1>1, TablesInvHolds, PTL

(* The state of an atom registry counts its registry and every atom that   *)
(* will yet release it, so that the last of them, and no earlier one,      *)
(* deletes it; whenever the collector runs.                                *)
THEOREM StatesCountAtoms == TablesSpec => []RefcountExact
<1>1. TablesInv => RefcountExact
  BY DEF TablesInv, AtomsInv, RefcountExact
<1> QED BY <1>1, TablesInvHolds, PTL

(* An entry of the cache of values leaves it only in the step in which its *)
(* own object ends: the end of an object that was replaced under the same  *)
(* id takes no newer registration away.                                    *)
THEOREM EntriesLeaveWithObjects == TablesSpec => EntryLeavesWithObject
<1> DEFINE Leaves == \A i \in Ids : cached[i] # None /\ cached'[i] = None =>
                                    life'[cached[i]] = "gone"
<1>1. TablesInv /\ [TablesNext]_tableVars => Leaves
  <2> SUFFICES ASSUME TablesInv, [TablesNext]_tableVars, cached' # cached
               PROVE  Leaves
    OBVIOUS
  <2>1. RegistriesInv /\ Registries!Next
    BY DEF TablesInv, TablesNext, tableVars, registryVars
  <2>2. /\ life \in [Objects -> {"unborn", "live", "doomed", "gone"}]
        /\ cached \in [Ids -> Objects \cup {None}]
        /\ id \in [Objects -> Ids \cup {None}]
    BY <2>1 DEF RegistriesInv, Registries!TypeOK, Registries!TrackedTypeOK, Registries!Life,
       Registries!Table
  <2>3. CASE \E o \in Objects : Registries!NotReachable(o)
    BY <2>2, <2>3 DEF Registries!NotReachable, Registries!Remove, Registries!Vanish
  <2>4. CASE \E t \in Threads, i \in Ids, v \in Values : Registries!RegisterCached(t, i, v)
    BY <2>2, <2>4, TrackedAssumption DEF Registries!RegisterCached
  <2> QED
    BY <2>1, <2>3, <2>4 DEF Registries!Next, Registries!Evaluate, Registries!Forget,
       Registries!Find, Registries!RegisterPersistent, Registries!Reclaim, Registries!Destroy
<1>2. TablesInv /\ [TablesNext]_tableVars => [Leaves]_(Registries!vars)
  BY <1>1
<1> HIDE DEF Leaves
<1>3. TablesSpec => [][Leaves]_(Registries!vars)
  BY <1>2, TablesInvHolds, PTL DEF TablesSpec
<1> QED BY <1>3 DEF EntryLeavesWithObject, Registries!EntryLeavesWithObject, Leaves
=============================================================================
