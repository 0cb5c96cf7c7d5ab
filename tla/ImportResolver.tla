------------------------------ MODULE ImportResolver ---------------------------
(***************************************************************************)
(* MappedImportResolver (public/import_resolver.cc): import names mapped   *)
(* to values, and prefixes of names mapped to other resolvers, all in one  *)
(* map ordered by string comparison.  Import looks the name up by walking  *)
(* that map backwards from the name.                                       *)
(***************************************************************************)
EXTENDS Integers, Sequences, SequencesExt

CONSTANTS
  Letters,      \* a set of integers: the alphabet
  MaxLength,    \* bound on the length of a name
  Keys,         \* the names and prefixes that are mapped
  Resolvers     \* the sub-resolvers

MapBounds == Letters \subseteq Int /\ MaxLength \in Nat /\ Keys \subseteq Seq(Int)

Names == BoundedSeq(Letters, MaxLength)

VARIABLE
  importMap     \* import_map_: "absent", "value" or a resolver

Init == importMap = [k \in Keys |-> "absent"]

(* Either kind of mapping takes the place of what the key was mapped to.   *)
Map(k) == importMap' = [importMap EXCEPT ![k] = "value"]

MapPrefix(k, r) == importMap' = [importMap EXCEPT ![k] = r]

Next == \E k \in Keys : Map(k) \/ \E r \in Resolvers : MapPrefix(k, r)

Spec == Init /\ [][Next]_importMap

-----------------------------------------------------------------------------
(* The order of map<string, ...>.                                          *)
Before(a, b) ==
  \/ IsStrictPrefix(a, b)
  \/ \E i \in 1..Len(a) : /\ i <= Len(b)
                          /\ a[i] < b[i]
                          /\ SubSeq(a, 1, i - 1) = SubSeq(b, 1, i - 1)

Mapped == {k \in Keys : importMap[k] # "absent"}

(* upper_bound, and the walk backwards from it: the greatest key that is   *)
(* neither after the name nor other than a prefix of it.                   *)
StartsWith_Letter(name, k) == k = <<>> \/ (name # <<>> /\ name[1] = k[1])
StartsWith(name, k) == IsPrefix(k, name)
Candidates(name) == {k \in Mapped : ~Before(name, k) /\ StartsWith(name, k)}
Match(name) == CHOOSE k \in Candidates(name) :
                 \A c \in Candidates(name) : c = k \/ Before(c, k)

(* Import returns NULL, a clone of a value, or what a sub-resolver makes   *)
(* of the rest of the name.                                                *)
None == [by |-> "NULL", rest |-> <<>>]
Exact(name, k) == name = k

Import(name) ==
  IF Candidates(name) = {} THEN None
  ELSE LET k == Match(name) IN
    IF importMap[k] # "value"
      THEN [by |-> importMap[k], rest |-> SubSeq(name, Len(k) + 1, Len(name))]
      ELSE IF Exact(name, k) THEN [by |-> "value", rest |-> <<>>] ELSE None

-----------------------------------------------------------------------------
(* What import_resolver.h promises: a name that is mapped to a value is    *)
(* that value; otherwise the longest mapped prefix takes it.               *)
PrefixesOf(name) == {k \in Mapped : importMap[k] # "value" /\ IsPrefix(k, name)}
Promised(name) ==
  IF name \in Mapped /\ importMap[name] = "value" THEN [by |-> "value", rest |-> <<>>]
  ELSE IF PrefixesOf(name) = {} THEN None
  ELSE LET k == CHOOSE k \in PrefixesOf(name) :
                  \A c \in PrefixesOf(name) : Len(c) <= Len(k)
       IN [by |-> importMap[k], rest |-> SubSeq(name, Len(k) + 1, Len(name))]

(* A value hides the prefixes of its name from the longer names after it,  *)
(* although "any import beginning with this prefix will be forwarded"      *)
(* (import_resolver.h 79).                                                 *)
Hidden(name) ==
  \E v \in Mapped : /\ importMap[v] = "value"
                    /\ IsStrictPrefix(v, name)
                    /\ \A k \in PrefixesOf(name) : Len(k) < Len(v)

(* The backward walk in string order finds the longest match, although the *)
(* keys between the name and its prefixes are no prefixes: every name that *)
(* no value hides is imported as promised.                                 *)
FindsLongestPrefix == \A name \in Names : ~Hidden(name) => Import(name) = Promised(name)
=============================================================================
