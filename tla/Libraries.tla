--------------------------------- MODULE Libraries -----------------------------
(***************************************************************************)
(* LibraryLoader (public/library.cc): loads Evlan libraries and, before    *)
(* each, what it depends on, so that none is loaded twice.  LoadInternal's *)
(* recursion is the stack of its activations; a library is marked in       *)
(* loaded_libraries_ (with NULL) before its dependencies are loaded and    *)
(* mapped to its value after.                                              *)
(***************************************************************************)
EXTENDS Integers, Sequences, SequencesExt, FiniteSets

CONSTANTS
  LibraryCount,     \* the libraries are 1..LibraryCount
  MaxDependencies,  \* bound on how many libraries one names
  MaxRequests       \* bound on how often Load returns each library

LibraryBounds == LibraryCount \in Nat /\ MaxDependencies \in Nat

Libraries == 1..LibraryCount

(* GetDependencies: each library names what it needs in an order of its    *)
(* own, perhaps twice, perhaps in a circle.                                *)
Dependencies == [Libraries -> BoundedSeq(Libraries, MaxDependencies)]

VARIABLES
  dependencies,  \* what GetDependencies of each library returns
  loaded,        \* loaded_libraries_: "absent", "NULL" or "value"
  stack,         \* the activations of LoadInternal, the innermost last
  loads,         \* the calls of Library::Load so far: the library and, as the
                 \* libraries they represent, the values it was given
  owned,         \* how many values of each library exist
  requests,      \* how many values of each library Load has returned to callers
  crashed        \* Clone() was called through a NULL pointer

vars == <<dependencies, loaded, stack, loads, owned, requests, crashed>>

Activation == [library : Libraries, values : BoundedSeq(Libraries, MaxDependencies)]

TypeOK == /\ dependencies \in Dependencies
          /\ loaded \in [Libraries -> {"absent", "NULL", "value"}]
          /\ stack \in Seq(Activation)
          /\ loads \in Seq(Activation)
          /\ owned \in [Libraries -> Nat]
          /\ requests \in [Libraries -> Nat]
          /\ crashed \in BOOLEAN

Init == /\ dependencies \in Dependencies
        /\ loaded = [l \in Libraries |-> "absent"]
        /\ stack = <<>>
        /\ loads = <<>>
        /\ owned = [l \in Libraries |-> 0]
        /\ requests = [l \in Libraries |-> 0]
        /\ crashed = FALSE

-----------------------------------------------------------------------------
(* What a LoadInternal that returns hands its value to: the activation     *)
(* below it, or, at the bottom, the caller of Load.                        *)
Receive(s, l) ==
  IF s = <<>> THEN s
  ELSE [s EXCEPT ![Len(s)].values = Append(@, l)]

Returned(s, l) == requests' = IF s = <<>> THEN [requests EXCEPT ![l] = @ + 1] ELSE requests

(* LoadInternal of a library that is in the map clones its value, be it    *)
(* NULL or not.                                                            *)
IsListed(l) == loaded[l] # "absent"

Clone(l) ==
  /\ IF loaded[l] = "NULL"
       THEN crashed' = TRUE /\ UNCHANGED <<stack, owned, requests>>
       ELSE /\ stack' = Receive(stack, l)
            /\ owned' = [owned EXCEPT ![l] = @ + 1]
            /\ Returned(stack, l)
            /\ UNCHANGED crashed
  /\ UNCHANGED <<loaded, loads>>

Enter(l) ==
  /\ stack' = Append(stack, [library |-> l, values |-> <<>>])
  /\ loaded' = [loaded EXCEPT ![l] = "NULL"]
  /\ UNCHANGED <<loads, owned, requests, crashed>>

LoadInternal(l) == IF IsListed(l) THEN Clone(l) ELSE Enter(l)

Load(l) == /\ stack = <<>>
           /\ requests[l] < MaxRequests
           /\ LoadInternal(l)

-----------------------------------------------------------------------------
Top == Last(stack)

HasAll_One(a) == Len(a.values) > 0 \/ dependencies[a.library] = <<>>
HasAll(a) == Len(a.values) = Len(dependencies[a.library])

LoadDependency ==
  /\ ~HasAll(Top)
  /\ LoadInternal(dependencies[Top.library][Len(Top.values) + 1])

(* The library is loaded, its dependencies' values are deleted, and its    *)
(* own value is kept in the map beside the one that is returned.           *)
Deleted_Twice(a, l) == 2 * Cardinality({i \in 1..Len(a.values) : a.values[i] = l})
Deleted(a, l) == Cardinality({i \in 1..Len(a.values) : a.values[i] = l})

Remember(l) == loaded' = [loaded EXCEPT ![l] = "value"]

LoadLibrary ==
  LET a == Top IN
  /\ HasAll(a)
  /\ loads' = Append(loads, a)
  /\ Remember(a.library)
  /\ owned' = [l \in Libraries |-> owned[l] - Deleted(a, l)
                                   + (IF l = a.library THEN 2 ELSE 0)]
  /\ stack' = Receive(Front(stack), a.library)
  /\ Returned(Front(stack), a.library)
  /\ UNCHANGED crashed

Step == /\ stack # <<>>
        /\ ~crashed
        /\ LoadDependency \/ LoadLibrary

Next == /\ \/ ~crashed /\ \E l \in Libraries : Load(l)
           \/ Step
        /\ UNCHANGED dependencies

Spec == Init /\ [][Next]_vars

-----------------------------------------------------------------------------
(* A library is loaded with the values of exactly its dependencies, in the *)
(* order in which it names them, all of them loaded before.                *)
LoadedWithDependencies ==
  \A i \in 1..Len(loads) :
     /\ loads[i].values = dependencies[loads[i].library]
     /\ \A d \in ToSet(loads[i].values) : \E j \in 1..i - 1 : loads[j].library = d

(* Between requests the only values that exist are one in the map for each *)
(* library loaded, and those that callers were given: "no single library   *)
(* is loaded twice, even when multiple libraries depend on it" (library.h) *)
(* and what was loaded for a dependent is gone.                            *)
InMap(l) == IF loaded[l] = "value" THEN 1 ELSE 0
NoValueLeaks == stack = <<>> => \A l \in Libraries : owned[l] = InMap(l) + requests[l]

(* Clone() meets the NULL of a library that is being loaded only if that   *)
(* library depends on itself, so every library that does not can be        *)
(* loaded.  ("Returns NULL if a cyclic dependency is detected",            *)
(* library.h 135: the loader crashes where it means to detect one.)        *)
OnlyCyclesFail ==
  crashed =>
    \E path \in BoundedSeq(Libraries, LibraryCount) :
      /\ path # <<>>
      /\ \A i \in 1..Len(path) :
           path[IF i = Len(path) THEN 1 ELSE i + 1] \in ToSet(dependencies[path[i]])
=============================================================================
