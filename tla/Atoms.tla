---------------------------------- MODULE Atoms --------------------------------
(***************************************************************************)
(* AtomRegistry (builtin/atom.cc): the table that makes two atoms of the   *)
(* same name the same pointer, although atoms are garbage-collected and    *)
(* threads look names up at the same time.  The table lives in a State     *)
(* that the registry and every atom count references to, and a forked      *)
(* registry shares the atoms of its parent, which is frozen meanwhile.     *)
(*                                                                         *)
(* GetAtomData takes the lock twice: to look the name up, and, if it made  *)
(* an atom meanwhile, to list it.  Each critical section is one step.      *)
(***************************************************************************)
EXTENDS TrackedObjects, FiniteSets

CONSTANT Names   \* the names that code asks for

(* The state of the registry of an evaluator, and of the fork of it.       *)
States == {"base", "fork"}
Parent(s) == IF s = "fork" THEN "base" ELSE None

VARIABLES
  atomMap,   \* atom_map_ of each state
  keyOf,     \* the atom whose name_ holds the bytes of each key of atom_map_
  name,      \* name_ of each atom
  stateOf,   \* registry_state_ of each atom
  refcount,  \* refcount_ of each state
  registry,  \* the AtomRegistry object of each state
  making     \* what each thread is in the middle of making, if anything

vars == <<prompt, trackedVars, atomMap, keyOf, name, stateOf, refcount, registry, making>>
tables == <<atomMap, keyOf, refcount>>
atoms == <<name, stateOf>>

SlotTables == [States -> [Names -> Objects \cup {None}]]
Idle == [state |-> None, atom |-> None]

TypeOK ==
  /\ TrackedTypeOK
  /\ atomMap \in SlotTables /\ keyOf \in SlotTables
  /\ name \in [Objects -> Names \cup {None}]
  /\ stateOf \in [Objects -> States \cup {None}]
  /\ refcount \in [States -> Nat]
  /\ registry \in [States -> {"none", "open", "closed"}]
  /\ making \in [Threads -> [state : States \cup {None}, atom : Objects \cup {None}]]

Init ==
  /\ TrackedInit
  /\ atomMap = [s \in States |-> [n \in Names |-> None]]
  /\ keyOf = atomMap
  /\ name = [o \in Objects |-> None]
  /\ stateOf = [o \in Objects |-> None]
  /\ refcount = [s \in States |-> IF s = "base" THEN 1 ELSE 0]
  /\ registry = [s \in States |-> IF s = "base" THEN "open" ELSE "none"]
  /\ making = [t \in Threads |-> Idle]

-----------------------------------------------------------------------------
HasChildren(s) == s = "base" /\ registry["fork"] = "open"
InUse(s) == /\ registry[s] = "open"
            /\ ~HasChildren(s)

(* The search goes up through the parents.  When it ends, the cursor has   *)
(* already moved on to the parent of the state that had the name.          *)
Holder(s, n) == IF atomMap[s][n] # None \/ Parent(s) = None THEN s ELSE Parent(s)
Found(s, n) == atomMap[Holder(s, n)][n]
Cursor(s, n) == Parent(Holder(s, n))

(* An atom of a parent needs no reviving; one of its own does.             *)
Usable(s, n) == /\ Found(s, n) # None
                /\ Cursor(s, n) # s \/ Revived(Found(s, n))

FindAtom(t, s, n) ==
  /\ making[t] = Idle
  /\ InUse(s)
  /\ Usable(s, n)
  /\ Hold(t, Found(s, n))
  /\ UNCHANGED <<life, external, tables, atoms, registry, making>>

(* A name that is missing, or whose atom is about to be deleted: the slot  *)
(* is emptied and, outside of the lock, a new atom is made.                *)
MakeAtom(t, s, n) ==
  /\ making[t] = Idle
  /\ InUse(s)
  /\ ~Usable(s, n)
  /\ atomMap' = [atomMap EXCEPT ![s][n] = None]
  /\ keyOf' = [keyOf EXCEPT ![s][n] = None]
  /\ \E o \in Objects : /\ AddTrackedObject(o)
                        /\ Hold(t, o)
                        /\ name' = [name EXCEPT ![o] = n]
                        /\ stateOf' = [stateOf EXCEPT ![o] = s]
                        /\ making' = [making EXCEPT ![t] = [state |-> s, atom |-> o]]
  /\ UNCHANGED <<external, refcount, registry>>

(* Back under the lock.  Another thread may have listed an atom meanwhile; *)
(* it is used if it can be revived, and replaced if not: the value of the  *)
(* slot is, its key stays the old atom's name.                             *)
CanList(s, n) == atomMap[s][n] = None \/ ~Revived(atomMap[s][n])

NewRefs_Listed(s, n) == IF CanList(s, n) THEN 1 ELSE 0
NewRefs(s, n) == 1

ListAtom(t) ==
  LET s == making[t].state
      o == making[t].atom
      n == name[o]
  IN /\ making[t] # Idle
     /\ IF CanList(s, n)
          THEN /\ atomMap' = [atomMap EXCEPT ![s][n] = o]
               /\ keyOf' = [keyOf EXCEPT ![s][n] = IF @ = None THEN o ELSE @]
               /\ UNCHANGED held
          ELSE /\ held' = [held EXCEPT ![t] = (@ \ {o}) \cup {atomMap[s][n]}]
               /\ UNCHANGED <<atomMap, keyOf>>
     /\ refcount' = [refcount EXCEPT ![s] = @ + NewRefs(s, n)]
     /\ making' = [making EXCEPT ![t] = Idle]
     /\ UNCHANGED <<life, external, atoms, registry>>

Drop(t, o) == /\ o # making[t].atom
              /\ LetGo(t, o)
              /\ UNCHANGED <<tables, atoms, registry, making>>

(* The collector leaves the atoms of a frozen registry alone.              *)
Condemn(o) == /\ FindUnreachable(o)
              /\ ~HasChildren(stateOf[o])
              /\ UNCHANGED <<tables, atoms, registry, making>>

Unlists_Unchecked(o) == o \in Objects
Unlists(o) == atomMap[stateOf[o]][name[o]] = o

NotReachable(o) ==
  /\ MayTell(o)
  /\ ~HasChildren(stateOf[o])
  /\ IF Unlists(o)
       THEN /\ atomMap' = [atomMap EXCEPT ![stateOf[o]][name[o]] = None]
            /\ keyOf' = [keyOf EXCEPT ![stateOf[o]][name[o]] = None]
       ELSE UNCHANGED <<atomMap, keyOf>>
  /\ refcount' = [refcount EXCEPT ![stateOf[o]] = @ - 1]
  /\ Vanish(o)
  /\ UNCHANGED <<external, held, atoms, registry, making>>

-----------------------------------------------------------------------------
(* Fork freezes the evaluator: none of its threads is in the registry, and *)
(* no atom of it is on its way out.                                        *)
Fork == /\ registry["base"] = "open"
        /\ registry["fork"] = "none"
        /\ \A t \in Threads : making[t] = Idle
        /\ \A o \in Objects : life[o] # "doomed"
        /\ registry' = [registry EXCEPT !["fork"] = "open"]
        /\ refcount' = [refcount EXCEPT !["fork"] = 1]
        /\ UNCHANGED <<trackedVars, atomMap, keyOf, atoms, making>>

(* The destructor, once no thread uses the registry's atoms any more; the  *)
(* atoms themselves may stay behind for the collector.                     *)
Close(s) == /\ InUse(s)
            /\ \A t \in Threads : /\ making[t] = Idle
                                  /\ \A o \in held[t] : stateOf[o] # s
            /\ registry' = [registry EXCEPT ![s] = "closed"]
            /\ refcount' = [refcount EXCEPT ![s] = @ - 1]
            /\ UNCHANGED <<trackedVars, atomMap, keyOf, atoms, making>>

Next ==
  /\ UNCHANGED prompt
  /\ \/ \E t \in Threads, s \in States, n \in Names :
          FindAtom(t, s, n) \/ MakeAtom(t, s, n)
     \/ \E t \in Threads : ListAtom(t)
     \/ \E t \in Threads, o \in Objects : Drop(t, o)
     \/ \E o \in Objects : Condemn(o) \/ NotReachable(o)
     \/ Fork
     \/ \E s \in States : Close(s)

Spec == Init /\ [][Next]_vars

-----------------------------------------------------------------------------
(* The atoms that GetAtom has returned to thread t and t still uses.       *)
Given(t) == held[t] \ {making[t].atom}
Freed(s) == registry[s] # "none" /\ refcount[s] = 0

(* With a prompt collector "two atoms with the same name end up having the *)
(* same pointer value" (atom.h), whichever threads asked for them, however *)
(* often atoms of that name were collected, and across a fork; and GetAtom *)
(* never returns an atom that the collector has condemned: "it's possible  *)
(* that the atom is being destroyed in another thread as we speak.  We     *)
(* must use ReviveTrackedObject() to check for this."                      *)
OneAtomPerName ==
  prompt => \A t, u \in Threads : \A o \in Given(t), p \in Given(u) :
              life[o] = "live" /\ (name[o] = name[p] => o = p)

(* The bytes of every key of the table are still there: a key is a         *)
(* StringPiece into the name_ of the atom it was inserted for.  A late     *)
(* collector breaks this: ListAtom leaves the key of a condemned atom.     *)
KeysExist ==
  prompt => \A s \in States, n \in Names :
              ~Freed(s) /\ keyOf[s][n] # None => Exists(keyOf[s][n])

(* A state counts its registry and each atom that will yet drop a          *)
(* reference, so it is deleted once, after the last of them.               *)
RefcountExact ==
  \A s \in States :
     refcount[s] = (IF registry[s] = "open" THEN 1 ELSE 0) +
                   Cardinality({o \in Objects : /\ stateOf[o] = s /\ Exists(o)
                                                /\ \A t \in Threads : making[t].atom # o})
=============================================================================
