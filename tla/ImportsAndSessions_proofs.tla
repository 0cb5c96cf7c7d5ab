------------------------ MODULE ImportsAndSessions_proofs ----------------------
(***************************************************************************)
(* Proofs about what an evaluation server imports, loads and remembers.    *)
(*                                                                         *)
(* What the walk through the map of imports finds is a property of names   *)
(* and their order, proved of sequences of any length.                     *)
(*                                                                         *)
(* The libraries, any number of them with any dependencies: the invariant  *)
(* says that the activations of LoadInternal are a path from a library to  *)
(* what it depends on, which is what is marked NULL in the map, and counts *)
(* who owns each value.                                                    *)
(*                                                                         *)
(* The sessions, for any statements, variables and files that import each  *)
(* other without cycles, and whatever calls break: the invariant says of   *)
(* each thing that the client believes why it is so, be it a call that the *)
(* client waits for, a call it gave up on, or what the server has saved.   *)
(***************************************************************************)
EXTENDS EvaluationServer_proofs, FunctionTheorems

-----------------------------------------------------------------------------
(* Sequences that grow, or lose their last element.                        *)
LEMMA Popped ==
  ASSUME NEW S, NEW s \in Seq(S), s # <<>>
  PROVE  /\ SubSeq(s, 1, Len(s) - 1) \in Seq(S)
         /\ Len(SubSeq(s, 1, Len(s) - 1)) = Len(s) - 1
         /\ \A i \in 1..(Len(s) - 1) : SubSeq(s, 1, Len(s) - 1)[i] = s[i]
<1>1. Len(s) \in Nat \ {0}
  BY EmptySeq
<1>2. \A i \in 1..(Len(s) - 1) : s[i] \in S
  BY <1>1, ElementOfSeq
<1> DEFINE n == Len(s) - 1
           t == SubSeq(s, 1, n)
<1>3. n \in Int /\ n >= 0 /\ 1 \in Int /\ \A i \in 1..n : s[i] \in S
  BY <1>1, <1>2
<1> HIDE DEF n
<1>4. /\ t \in Seq(S) /\ Len(t) = IF 1 <= n THEN n - 1 + 1 ELSE 0
      /\ \A i \in 1..(n - 1 + 1) : t[i] = s[1 + i - 1]
  BY <1>3, SubSeqProperties
<1>5. Len(t) = n /\ \A i \in 1..n : t[i] = s[i]
  BY <1>3, <1>4
<1> QED BY <1>4, <1>5 DEF n

LEMMA Pushed ==
  ASSUME NEW S, NEW s \in Seq(S), NEW e \in S
  PROVE  /\ Append(s, e) \in Seq(S)
         /\ Len(Append(s, e)) = Len(s) + 1
         /\ Append(s, e)[Len(s) + 1] = e
         /\ \A i \in 1..Len(s) : Append(s, e)[i] = s[i]
  BY AppendProperties

(* The innermost import is replaced.                                       *)
LEMMA Replaced ==
  ASSUME NEW S, NEW s \in Seq(S), s # <<>>, NEW e \in S
  PROVE  LET t == Append(SubSeq(s, 1, Len(s) - 1), e)
         IN  /\ t \in Seq(S) /\ Len(t) = Len(s) /\ t # <<>>
             /\ t[Len(s)] = e
             /\ \A i \in 1..(Len(s) - 1) : t[i] = s[i]
<1> DEFINE o == SubSeq(s, 1, Len(s) - 1)
<1>1. o \in Seq(S) /\ Len(o) = Len(s) - 1 /\ \A i \in 1..(Len(s) - 1) : o[i] = s[i]
  BY Popped
<1>2. Len(s) \in Nat \ {0}
  BY EmptySeq
<1> HIDE DEF o
<1>3. /\ Append(o, e) \in Seq(S)
      /\ Len(Append(o, e)) = Len(o) + 1
      /\ Append(o, e)[Len(o) + 1] = e
      /\ \A i \in 1..Len(o) : Append(o, e)[i] = o[i]
  BY <1>1, Pushed
<1>4. Len(Append(o, e)) = Len(s) /\ Append(o, e) # <<>>
  BY <1>1, <1>2, <1>3
<1> QED BY <1>1, <1>2, <1>3, <1>4 DEF o

-----------------------------------------------------------------------------
(* Imports.  What two sequences that begin the same one have in common     *)
(* makes their order that of their lengths.                                *)

LEMMA Prefixes ==
  ASSUME NEW k \in Seq(Int), NEW n \in Seq(Int)
  PROVE  Imports!IsPrefix(k, n) <=> Len(k) <= Len(n) /\ \A i \in 1..Len(k) : k[i] = n[i]
<1>1. SubSeq(k, 1, Len(k)) = k
  BY SubSeqFull
<1>2. CASE Len(k) <= Len(n)
  <2> DEFINE s == SubSeq(n, 1, Len(k))
  <2>1. s \in Seq(Int) /\ Len(s) = Len(k) /\ \A i \in 1..Len(k) : s[i] = n[i]
    BY <1>2
  <2> HIDE DEF s
  <2>2. k = s <=> \A i \in 1..Len(k) : k[i] = n[i]
    BY <2>1, SeqEqual
  <2>3. Imports!IsPrefix(k, n) <=> k = s
    BY <1>1, <1>2 DEF Imports!IsPrefix, s
  <2> QED BY <1>2, <2>2, <2>3
<1>3. CASE ~(Len(k) <= Len(n))
  BY <1>3 DEF Imports!IsPrefix
<1> QED BY <1>2, <1>3

LEMMA SamePrefix ==
  ASSUME NEW n \in Seq(Int), NEW k \in Seq(Int), NEW c \in Seq(Int),
         Imports!IsPrefix(k, n), Imports!IsPrefix(c, n), Len(k) = Len(c)
  PROVE  k = c
<1>1. \A i \in 1..Len(k) : k[i] = c[i]
  BY Prefixes
<1> QED BY <1>1, SeqEqual

LEMMA PrefixOrder ==
  ASSUME NEW n \in Seq(Int), NEW k \in Seq(Int), NEW c \in Seq(Int),
         Imports!IsPrefix(k, n), Imports!IsPrefix(c, n)
  PROVE  Imports!Before(c, k) <=> Len(c) < Len(k)
<1>1. \A i \in 1..Len(c) : i <= Len(k) => c[i] \in Int /\ c[i] = k[i]
  BY Prefixes
<1>2. Imports!Before(c, k) <=> Imports!IsStrictPrefix(c, k)
  BY <1>1 DEF Imports!Before
<1>3. Imports!IsPrefix(c, k) <=> Len(c) <= Len(k)
  BY <1>1, Prefixes
<1>4. Len(c) \in Nat /\ Len(k) \in Nat
  OBVIOUS
<1> QED BY <1>2, <1>3, <1>4, SamePrefix DEF Imports!IsStrictPrefix

(* The walk backwards looks at the mapped prefixes of the name only.       *)
LEMMA CandidatesAre ==
  ASSUME NEW n \in Seq(Int)
  PROVE  Imports!Candidates(n) = {k \in Imports!Mapped : Imports!IsPrefix(k, n)}
<1>1. Imports!Mapped \subseteq Seq(Int)
  BY ImportsAssumption DEF Imports!Mapped, Imports!MapBounds
<1>2. Imports!IsPrefix(n, n)
  BY Prefixes
<1>3. ASSUME NEW k \in Seq(Int), Imports!IsPrefix(k, n)
      PROVE  ~Imports!Before(n, k)
  BY <1>2, <1>3, PrefixOrder, Prefixes
<1> QED BY <1>1, <1>3 DEF Imports!Candidates, Imports!StartsWith

LEMMA LongestPrefix ==
  ASSUME NEW n \in Seq(Int), NEW S, S # {}, S \subseteq Seq(Int), \A k \in S : Imports!IsPrefix(k, n)
  PROVE  \E k \in S : \A c \in S : Len(c) <= Len(k)
<1> DEFINE T == {Len(n) - Len(k) : k \in S}
<1>1. \A k \in S : Len(k) \in Nat /\ Len(n) - Len(k) \in Nat /\ Len(n) \in Nat
  BY Prefixes
<1>2. T \subseteq Nat /\ T # {}
  BY <1>1
<1>3. PICK d \in T : \A m \in T : d <= m
  BY <1>2, LeastNumber
<1>4. PICK k \in S : d = Len(n) - Len(k)
  BY <1>3
<1>5. \A c \in S : Len(n) - Len(k) <= Len(n) - Len(c)
  BY <1>3, <1>4
<1> QED BY <1>1, <1>5

(* The match is the longest mapped prefix.                                 *)
LEMMA MatchIsLongest ==
  ASSUME NEW n \in Seq(Int), Imports!Candidates(n) # {}
  PROVE  /\ Imports!Match(n) \in Imports!Candidates(n)
         /\ \A c \in Imports!Candidates(n) :
              c = Imports!Match(n) \/ Len(c) < Len(Imports!Match(n))
<1> DEFINE S == Imports!Candidates(n)
<1>1. S \subseteq Seq(Int) /\ \A k \in S : Imports!IsPrefix(k, n)
  BY CandidatesAre, ImportsAssumption DEF Imports!Mapped, Imports!MapBounds
<1> HIDE DEF S
<1>2. \A c, k \in S : Imports!Before(c, k) <=> Len(c) < Len(k)
  BY <1>1, PrefixOrder
<1>3. \A c, k \in S : Len(c) = Len(k) => c = k
  BY <1>1, SamePrefix
<1>4. \E k \in S : \A c \in S : c = k \/ Imports!Before(c, k)
  <2>1. PICK k \in S : \A c \in S : Len(c) <= Len(k)
    BY <1>1, LongestPrefix DEF S
  <2>2. \A c \in S : Len(c) \in Nat
    BY <1>1
  <2> QED BY <1>2, <1>3, <2>1, <2>2
<1>5. Imports!Match(n) \in S /\ \A c \in S : c = Imports!Match(n) \/ Imports!Before(c, Imports!Match(n))
  BY <1>4 DEF Imports!Match, S
<1> QED BY <1>2, <1>5 DEF S

LEMMA ImportsAsPromised == Imports!FindsLongestPrefix
<1> SUFFICES ASSUME NEW n \in Imports!Names, ~Imports!Hidden(n)
             PROVE  Imports!Import(n) = Imports!Promised(n)
  BY DEF Imports!FindsLongestPrefix
<1>1. n \in Seq(Int)
  <2>1. PICK m \in 0..MaxLength : n \in [1..m -> Letters]
    BY DEF Imports!Names, Imports!BoundedSeq, Imports!SeqOf
  <2>2. m \in Nat /\ n \in [1..m -> Int]
    <3>1. Letters \subseteq Int /\ MaxLength \in Nat
      BY ImportsAssumption DEF Imports!MapBounds
    <3>2. \A i \in 1..m : n[i] \in Int
      BY <2>1, <3>1
    <3> QED BY <2>1, <3>1, <3>2
  <2> QED BY <2>2
<1> DEFINE S == Imports!Candidates(n)
           k == Imports!Match(n)
           value == n \in Imports!Mapped /\ importMap[n] = "value"
<1>2. /\ S = {c \in Imports!Mapped : Imports!IsPrefix(c, n)}
      /\ S \subseteq Seq(Int)
  BY <1>1, CandidatesAre, ImportsAssumption DEF Imports!Mapped, Imports!MapBounds
<1>3. Imports!PrefixesOf(n) = {c \in S : importMap[c] # "value"}
  BY <1>2 DEF Imports!PrefixesOf
<1>4. S # {} => k \in S /\ \A c \in S : c = k \/ Len(c) < Len(k)
  BY <1>1, MatchIsLongest
<1>5. n \in Imports!Mapped => n \in S
  BY <1>1, <1>2, Prefixes
<1>6. \A c \in S : Len(c) \in Nat /\ Len(c) <= Len(n) /\ Len(n) \in Nat
  BY <1>1, <1>2, Prefixes
<1>7. n \in S => k = n
  BY <1>4, <1>6
<1> HIDE DEF S, k
<1>8. CASE value
  <2>1. S # {} /\ k = n /\ importMap[k] = "value"
    BY <1>5, <1>7, <1>8
  <2>2. Imports!Import(n) = [by |-> "value", rest |-> <<>>]
    BY <2>1 DEF Imports!Import, Imports!Exact, S, k
  <2> QED BY <1>8, <2>2 DEF Imports!Promised
<1>9. CASE ~value /\ Imports!PrefixesOf(n) = {}
  <2>1. Imports!Promised(n) = Imports!None
    BY <1>9 DEF Imports!Promised
  <2>2. CASE S = {}
    BY <2>1, <2>2 DEF Imports!Import, S
  <2>3. CASE S # {}
    <3>1. k \in S /\ importMap[k] = "value"
      BY <1>3, <1>4, <1>9, <2>3
    <3>2. k # n
      BY <1>2, <1>9, <3>1
    <3> QED BY <2>1, <2>3, <3>1, <3>2 DEF Imports!Import, Imports!Exact, S, k
  <2> QED BY <2>2, <2>3
<1>10. CASE ~value /\ Imports!PrefixesOf(n) # {}
  <2>1. S # {} /\ k \in S
    BY <1>3, <1>4, <1>10
  <2>2. importMap[k] # "value"
    <3> SUFFICES ASSUME importMap[k] = "value"
                 PROVE  FALSE
      OBVIOUS
    <3>1. k \in Imports!Mapped /\ Imports!IsPrefix(k, n) /\ k # n
      BY <1>2, <1>10, <2>1
    <3>2. \A c \in Imports!PrefixesOf(n) : Len(c) < Len(k)
      BY <1>3, <1>4, <2>1
    <3> QED BY <3>1, <3>2 DEF Imports!Hidden, Imports!IsStrictPrefix
  <2>3. \A c \in Imports!PrefixesOf(n) : c = k \/ Len(c) < Len(k)
    BY <1>3, <1>4, <2>1
  <2>4. k \in Imports!PrefixesOf(n)
    BY <1>3, <2>1, <2>2
  <2>5. k = CHOOSE c \in Imports!PrefixesOf(n) : \A d \in Imports!PrefixesOf(n) : Len(d) <= Len(c)
    <3>1. \A d \in Imports!PrefixesOf(n) : Len(d) \in Nat
      BY <1>3, <1>6
    <3>2. \A d \in Imports!PrefixesOf(n) : Len(d) <= Len(k)
      BY <2>3, <2>4, <3>1
    <3>3. \A c \in Imports!PrefixesOf(n) : (\A d \in Imports!PrefixesOf(n) : Len(d) <= Len(c)) => c = k
      BY <2>3, <2>4, <3>1
    <3> QED BY <2>4, <3>2, <3>3
  <2>6. Imports!Promised(n) = [by |-> importMap[k], rest |-> SubSeq(n, Len(k) + 1, Len(n))]
    BY <1>10, <2>5 DEF Imports!Promised
  <2>7. Imports!Import(n) = [by |-> importMap[k], rest |-> SubSeq(n, Len(k) + 1, Len(n))]
    BY <2>1, <2>2 DEF Imports!Import, S, k
  <2> QED BY <2>6, <2>7
<1> QED BY <1>8, <1>9, <1>10

(* FindsLongestPrefix: walking the map backwards from a name, in string    *)
(* order, finds the longest mapped prefix of it, whatever keys come in     *)
(* between, so that Import gives what import_resolver.h promises for every *)
(* name that no mapped value hides (public/import_resolver.cc).            *)
THEOREM LongestPrefixIsFound == ServerSpec => []FindsLongestPrefix
<1>1. FindsLongestPrefix
  BY ImportsAsPromised DEF FindsLongestPrefix
<1> QED BY <1>1, PTL

-----------------------------------------------------------------------------
(* Libraries.                                                              *)

(* An activation was given the values of the first libraries that its own  *)
(* names, and the one above it loads the next.                             *)
ActivationFits(a, map) ==
  /\ Len(a.values) <= Len(dependencies[a.library])
  /\ \A j \in 1..Len(a.values) : /\ a.values[j] = dependencies[a.library][j]
                                 /\ map[a.values[j]] = "value"

IsNext(a, l) ==
  /\ Len(a.values) < Len(dependencies[a.library])
  /\ dependencies[a.library][Len(a.values) + 1] = l

Path(s, map) ==
  /\ \A i \in 1..Len(s) : ActivationFits(s[i], map)
  /\ \A i, j \in 1..Len(s) : s[i].library = s[j].library => i = j
  /\ \A i \in 1..(Len(s) - 1) : IsNext(s[i], s[i + 1].library)

OnPath(s, l) == \E i \in 1..Len(s) : s[i].library = l

(* The values of a library that activations hold.                          *)
HeldBy(s, l) ==
  {p \in (1..Len(s)) \X (1..MaxDependencies) :
     p[2] <= Len(s[p[1]].values) /\ s[p[1]].values[p[2]] = l}

LoaderInv ==
  /\ Loader!TypeOK
  /\ Path(stack, loaded)
  /\ \A l \in Loader!Libraries :
       /\ loaded[l] = "NULL" <=> OnPath(stack, l)
       /\ loaded[l] = "value" => \E j \in 1..Len(loads) : loads[j].library = l
       /\ owned[l] = Loader!InMap(l) + requests[l] + Cardinality(HeldBy(stack, l))
  /\ Loader!LoadedWithDependencies
  /\ Loader!OnlyCyclesFail

(* The types, as the provers want them.                                    *)
LEMMA LoaderBounds == LibraryCount \in Nat /\ MaxDependencies \in Nat
  BY LibrariesAssumption DEF Loader!LibraryBounds

LEMMA ShortSequences ==
  ASSUME NEW S, NEW n \in Nat, NEW s
  PROVE  s \in Loader!BoundedSeq(S, n) <=> s \in Seq(S) /\ Len(s) <= n
<1>1. Loader!BoundedSeq(S, n) = UNION {[1..m -> S] : m \in 0..n}
  BY DEF Loader!BoundedSeq, Loader!SeqOf
<1>2. ASSUME s \in Seq(S), Len(s) <= n
      PROVE  s \in Loader!BoundedSeq(S, n)
  <2>1. Len(s) \in 0..n /\ s \in [1..Len(s) -> S]
    BY <1>2, LenProperties
  <2> QED BY <1>1, <2>1
<1>3. ASSUME s \in Loader!BoundedSeq(S, n)
      PROVE  s \in Seq(S) /\ Len(s) <= n
  <2>1. PICK m \in 0..n : s \in [1..m -> S]
    BY <1>1, <1>3
  <2>2. s \in Seq(S) /\ Len(s) = m
    BY <2>1, SeqDef
  <2> QED BY <2>1, <2>2
<1> QED BY <1>2, <1>3

LEMMA ActivationsTyped ==
  /\ \A a \in Loader!Activation : /\ a.library \in Loader!Libraries
                                  /\ a.values \in Seq(Loader!Libraries)
                                  /\ Len(a.values) \in 0..MaxDependencies
  /\ \A l \in Loader!Libraries, v \in Seq(Loader!Libraries) :
       Len(v) <= MaxDependencies => [library |-> l, values |-> v] \in Loader!Activation
  /\ Loader!TypeOK => \A l \in Loader!Libraries : /\ dependencies[l] \in Seq(Loader!Libraries)
                                                  /\ Len(dependencies[l]) \in 0..MaxDependencies
<1>1. \A v : v \in Loader!BoundedSeq(Loader!Libraries, MaxDependencies) <=>
               v \in Seq(Loader!Libraries) /\ Len(v) <= MaxDependencies
  BY LoaderBounds, ShortSequences
<1>2. \A v \in Seq(Loader!Libraries) : Len(v) \in Nat
  BY LenProperties
<1> QED BY <1>1, <1>2, LoaderBounds DEF Loader!Activation, Loader!TypeOK, Loader!Dependencies

(* What an activation receives.                                            *)
LEMMA Received ==
  ASSUME NEW s \in Seq(Loader!Activation), s # <<>>, NEW d \in Loader!Libraries,
         Len(s[Len(s)].values) < MaxDependencies
  PROVE  LET t == Loader!Receive(s, d) IN
         /\ t \in Seq(Loader!Activation) /\ Len(t) = Len(s)
         /\ \A i \in 1..Len(s) : i # Len(s) => t[i] = s[i]
         /\ t[Len(s)].library = s[Len(s)].library
         /\ t[Len(s)].values = Append(s[Len(s)].values, d)
<1> DEFINE n == Len(s)
           a == s[n]
           b == [a EXCEPT !.values = Append(a.values, d)]
           t == Loader!Receive(s, d)
<1>1. n \in Nat \ {0} /\ n \in 1..n /\ a \in Loader!Activation
  BY EmptySeq, ElementOfSeq
<1>2. a.library \in Loader!Libraries /\ a.values \in Seq(Loader!Libraries)
  BY <1>1, ActivationsTyped
<1>3. Append(a.values, d) \in Seq(Loader!Libraries)
      /\ Len(Append(a.values, d)) <= MaxDependencies
  BY <1>1, <1>2, LoaderBounds, Pushed, LenProperties
<1>4. b = [library |-> a.library, values |-> Append(a.values, d)]
  <2>1. PICK l, v : a = [library |-> l, values |-> v]
    BY <1>1 DEF Loader!Activation
  <2>2. b = [a EXCEPT !.values = Append(a.values, d)]
    OBVIOUS
  <2> HIDE DEF a, b
  <2>3. b = [library |-> l, values |-> Append(a.values, d)] /\ a.library = l
    BY <2>1, <2>2
  <2> QED BY <2>3
<1>5. b \in Loader!Activation /\ b.library = a.library /\ b.values = Append(a.values, d)
  <2> HIDE DEF b
  <2>1. b.library = a.library /\ b.values = Append(a.values, d)
    BY <1>4
  <2>2. \A l \in Loader!Libraries, v \in Seq(Loader!Libraries) :
          Len(v) <= MaxDependencies => [library |-> l, values |-> v] \in Loader!Activation
    BY ActivationsTyped
  <2>3. [library |-> a.library, values |-> Append(a.values, d)] \in Loader!Activation
    BY <1>2, <1>3, <2>2
  <2> QED BY <1>4, <2>1, <2>3
<1>6. t = [s EXCEPT ![n] = b]
  BY DEF Loader!Receive
<1> HIDE DEF b
<1>7. /\ [s EXCEPT ![n] = b] \in Seq(Loader!Activation)
      /\ Len([s EXCEPT ![n] = b]) = Len(s)
      /\ \A j \in 1..Len(s) : [s EXCEPT ![n] = b][j] = IF j = n THEN b ELSE s[j]
  BY <1>1, <1>5, ExceptSeq
<1> QED BY <1>1, <1>5, <1>6, <1>7

(* How many values are held.                                               *)
LEMMA HeldFinite ==
  ASSUME NEW s \in Seq(Loader!Activation), NEW l
  PROVE  IsFiniteSet(HeldBy(s, l)) /\ Cardinality(HeldBy(s, l)) \in Nat
<1>1. Len(s) \in Nat
  BY LenProperties
<1>2. IsFiniteSet(1..Len(s)) /\ IsFiniteSet(1..MaxDependencies)
  BY <1>1, LoaderBounds, FS_Interval
<1>3. IsFiniteSet((1..Len(s)) \X (1..MaxDependencies))
  BY <1>2, FS_Product
<1>4. IsFiniteSet(HeldBy(s, l))
  BY <1>3, FS_Subset DEF HeldBy
<1> QED BY <1>4, FS_CardinalityType

LEMMA HeldWhenReceived ==
  ASSUME NEW s \in Seq(Loader!Activation), s # <<>>, NEW d \in Loader!Libraries,
         Len(s[Len(s)].values) < MaxDependencies, NEW l
  PROVE  Cardinality(HeldBy(Loader!Receive(s, d), l)) =
           Cardinality(HeldBy(s, l)) + (IF l = d THEN 1 ELSE 0)
<1> DEFINE t == Loader!Receive(s, d)
           n == Len(s)
           v == s[n].values
           p == <<n, Len(v) + 1>>
<1>1. /\ t \in Seq(Loader!Activation) /\ Len(t) = n
      /\ \A i \in 1..n : i # n => t[i] = s[i]
      /\ t[n].values = Append(v, d)
  BY Received
<1>2. n \in Nat \ {0} /\ n \in 1..n /\ s[n] \in Loader!Activation
  BY EmptySeq, ElementOfSeq
<1>3. v \in Seq(Loader!Libraries) /\ Len(v) \in Nat
  BY <1>2, ActivationsTyped
<1>4. /\ Len(Append(v, d)) = Len(v) + 1 /\ Append(v, d)[Len(v) + 1] = d
      /\ \A i \in 1..Len(v) : Append(v, d)[i] = v[i]
  BY <1>3, Pushed
<1> HIDE DEF t, v
<1>5. \A i \in 1..n, j \in 1..MaxDependencies :
        <<i, j>> \in HeldBy(t, l) <=>
          <<i, j>> \in HeldBy(s, l) \/ (i = n /\ j = Len(v) + 1 /\ l = d)
  <2> TAKE i \in 1..n, j \in 1..MaxDependencies
  <2>1. CASE i # n
    BY <1>1, <2>1 DEF HeldBy
  <2>2. CASE i = n
    <3>1. <<i, j>> \in HeldBy(t, l) <=> j <= Len(v) + 1 /\ Append(v, d)[j] = l
      BY <1>1, <1>4, <2>2 DEF HeldBy
    <3>2. <<i, j>> \in HeldBy(s, l) <=> j <= Len(v) /\ v[j] = l
      BY <2>2 DEF HeldBy, v
    <3>3. CASE j <= Len(v)
      BY <1>3, <1>4, <2>2, <3>1, <3>2, <3>3
    <3>4. CASE j = Len(v) + 1
      BY <1>3, <1>4, <2>2, <3>1, <3>2, <3>4
    <3>5. CASE j > Len(v) + 1
      BY <1>3, <3>1, <3>2, <3>5
    <3> QED BY <1>3, <3>3, <3>4, <3>5
  <2> QED BY <2>1, <2>2
<1>6. HeldBy(t, l) \subseteq (1..n) \X (1..MaxDependencies)
      /\ HeldBy(s, l) \subseteq (1..n) \X (1..MaxDependencies)
  BY <1>1 DEF HeldBy
<1>7. n \in 1..n /\ Len(v) + 1 \in 1..MaxDependencies
  <2>1. Len(v) < MaxDependencies
    BY DEF v
  <2> QED BY <1>2, <1>3, <2>1, LoaderBounds
<1>8. p \notin HeldBy(s, l)
  <2>1. ~(Len(v) + 1 <= Len(v))
    BY <1>3
  <2> QED BY <2>1 DEF HeldBy, v
<1>9. HeldBy(t, l) = IF l = d THEN HeldBy(s, l) \cup {p} ELSE HeldBy(s, l)
  <2>1. \A q \in (1..n) \X (1..MaxDependencies) :
          q \in HeldBy(t, l) <=> q \in HeldBy(s, l) \/ (q = p /\ l = d)
    BY <1>5
  <2>2. p \in (1..n) \X (1..MaxDependencies)
    BY <1>7
  <2>3. CASE l = d
    BY <1>6, <2>1, <2>2, <2>3
  <2>4. CASE l # d
    BY <1>6, <2>1, <2>4
  <2> QED BY <2>3, <2>4
<1>10. IsFiniteSet(HeldBy(s, l)) /\ Cardinality(HeldBy(s, l)) \in Nat
  BY HeldFinite
<1>11. Cardinality(HeldBy(s, l) \cup {p}) = Cardinality(HeldBy(s, l)) + 1
  BY <1>8, <1>10, FS_AddElement
<1>12. CASE l = d
  BY <1>9, <1>11, <1>12 DEF t
<1>13. CASE l # d
  BY <1>9, <1>10, <1>13 DEF t
<1> QED BY <1>12, <1>13

LEMMA HeldWhenEntered ==
  ASSUME NEW s \in Seq(Loader!Activation), NEW a \in Loader!Activation, a.values = <<>>, NEW l
  PROVE  HeldBy(Append(s, a), l) = HeldBy(s, l)
<1> DEFINE t == Append(s, a)
<1>1. /\ Len(t) = Len(s) + 1 /\ t[Len(s) + 1] = a
      /\ \A i \in 1..Len(s) : t[i] = s[i]
  BY Pushed
<1>2. Len(s) \in Nat /\ Len(a.values) = 0
  BY LenProperties, EmptySeq
<1> HIDE DEF t
<1>3. \A i \in 1..Len(t), j \in 1..MaxDependencies :
        <<i, j>> \in HeldBy(t, l) <=> i \in 1..Len(s) /\ <<i, j>> \in HeldBy(s, l)
  <2> TAKE i \in 1..Len(t), j \in 1..MaxDependencies
  <2>1. CASE i \in 1..Len(s)
    BY <1>1, <2>1 DEF HeldBy
  <2>2. CASE i = Len(s) + 1
    <3>1. ~(j <= Len(t[i].values)) /\ i \notin 1..Len(s)
      BY <1>1, <1>2, <2>2, LoaderBounds
    <3> QED BY <3>1 DEF HeldBy
  <2> QED BY <1>1, <1>2, <2>1, <2>2
<1>4. /\ HeldBy(t, l) \subseteq (1..Len(t)) \X (1..MaxDependencies)
      /\ HeldBy(s, l) \subseteq (1..Len(s)) \X (1..MaxDependencies)
      /\ 1..Len(s) \subseteq 1..Len(t)
  BY <1>1, <1>2 DEF HeldBy
<1>5. ASSUME NEW p \in HeldBy(t, l)
      PROVE  p \in HeldBy(s, l)
  <2>1. PICK i \in 1..Len(t), j \in 1..MaxDependencies : p = <<i, j>>
    BY <1>4
  <2> QED BY <1>3, <1>5, <2>1
<1>6. ASSUME NEW p \in HeldBy(s, l)
      PROVE  p \in HeldBy(t, l)
  <2>1. PICK i \in 1..Len(s), j \in 1..MaxDependencies : i \in 1..Len(t) /\ p = <<i, j>>
    BY <1>4
  <2> QED BY <1>3, <1>6, <2>1
<1>7. HeldBy(t, l) = HeldBy(s, l)
  BY <1>5, <1>6
<1> QED BY <1>7 DEF t

LEMMA HeldWhenLeft ==
  ASSUME NEW s \in Seq(Loader!Activation), s # <<>>, NEW l
  PROVE  LET v == s[Len(s)].values IN
         Cardinality(HeldBy(s, l)) = Cardinality(HeldBy(SubSeq(s, 1, Len(s) - 1), l))
                                      + Cardinality({i \in 1..Len(v) : v[i] = l})
<1> DEFINE t == SubSeq(s, 1, Len(s) - 1)
           n == Len(s)
           v == s[n].values
           I == {i \in 1..Len(v) : v[i] = l}
           P == {<<n, i>> : i \in I}
<1>1. /\ t \in Seq(Loader!Activation) /\ Len(t) = n - 1 /\ \A i \in 1..(n - 1) : t[i] = s[i]
  BY Popped
<1>2. n \in Nat \ {0} /\ s[n] \in Loader!Activation
  BY EmptySeq, ElementOfSeq
<1>3. v \in Seq(Loader!Libraries) /\ Len(v) \in 0..MaxDependencies
  BY <1>2, ActivationsTyped
<1> HIDE DEF t, v
<1>4. IsFiniteSet(I) /\ IsFiniteSet(1..Len(v))
  <2>1. Len(v) \in Int /\ 1 \in Int
    BY <1>3, LoaderBounds
  <2>2. IsFiniteSet(1..Len(v))
    BY <2>1, FS_Interval
  <2>3. I \in SUBSET (1..Len(v))
    OBVIOUS
  <2> QED BY <2>2, <2>3, FS_Subset
<1>5. Cardinality(P) = Cardinality(I) /\ IsFiniteSet(P)
  <2> DEFINE f == [i \in I |-> <<n, i>>]
  <2>1. f \in Bijection(I, P)
    <3>1. f \in [I -> P] /\ \A i, j \in I : f[i] = f[j] => i = j
      OBVIOUS
    <3>2. \A p \in P : \E i \in I : f[i] = p
      OBVIOUS
    <3> QED BY <3>1, <3>2, Fun_IsBij
  <2>2. ExistsBijection(I, P)
    BY <2>1 DEF ExistsBijection
  <2> QED BY <1>4, <2>2, FS_Bijection
<1>6. \A i \in 1..n, j \in 1..MaxDependencies :
        <<i, j>> \in HeldBy(s, l) <=> <<i, j>> \in HeldBy(t, l) \/ <<i, j>> \in P
  <2> TAKE i \in 1..n, j \in 1..MaxDependencies
  <2>1. CASE i = n
    <3>1. i \notin 1..Len(t)
      BY <1>1, <1>2, <2>1
    <3>2. <<i, j>> \in HeldBy(s, l) <=> j <= Len(v) /\ v[j] = l
      BY <2>1 DEF HeldBy, v
    <3>3. j <= Len(v) <=> j \in 1..Len(v)
      BY <1>3
    <3> QED BY <2>1, <3>1, <3>2, <3>3 DEF HeldBy
  <2>2. CASE i # n
    <3>1. i \in 1..(n - 1) /\ i \in 1..Len(t) /\ t[i] = s[i]
      BY <1>1, <1>2, <2>2
    <3> QED BY <2>2, <3>1 DEF HeldBy
  <2> QED BY <2>1, <2>2
<1>7. /\ HeldBy(s, l) \subseteq (1..n) \X (1..MaxDependencies)
      /\ HeldBy(t, l) \subseteq (1..n) \X (1..MaxDependencies)
      /\ P \subseteq (1..n) \X (1..MaxDependencies)
  <2>1. 1..Len(t) \subseteq 1..n /\ n \in 1..n
    BY <1>1, <1>2
  <2>2. 1..Len(v) \subseteq 1..MaxDependencies
    BY <1>3, LoaderBounds
  <2> QED BY <2>1, <2>2 DEF HeldBy
<1>8. HeldBy(s, l) = HeldBy(t, l) \cup P
  BY <1>6, <1>7
<1>9. HeldBy(t, l) \cap P = {}
  <2>1. n \notin 1..Len(t)
    BY <1>1, <1>2
  <2> QED BY <2>1 DEF HeldBy
<1>10. IsFiniteSet(HeldBy(t, l)) /\ Cardinality(HeldBy(t, l)) \in Nat
  BY <1>1, HeldFinite
<1>11. Cardinality(P) \in Nat
  BY <1>5, FS_CardinalityType
<1>12. Cardinality(HeldBy(t, l) \cup P) =
         Cardinality(HeldBy(t, l)) + Cardinality(P) - Cardinality(HeldBy(t, l) \cap P)
  BY <1>5, <1>10, FS_Union
<1>13. Cardinality(HeldBy(t, l) \cap P) = 0
  BY <1>9, FS_EmptySet
<1>14. Cardinality(HeldBy(s, l)) = Cardinality(HeldBy(t, l)) + Cardinality(I)
  BY <1>5, <1>8, <1>10, <1>11, <1>12, <1>13
<1> QED BY <1>14 DEF t, v

(* What the path keeps.                                                    *)
LEMMA PathReceived ==
  ASSUME NEW s \in Seq(Loader!Activation), s # <<>>, NEW map, Path(s, map),
         NEW l \in Loader!Libraries, map[l] = "value", IsNext(s[Len(s)], l), Loader!TypeOK
  PROVE  LET t == Loader!Receive(s, l) IN
         /\ t \in Seq(Loader!Activation) /\ Path(t, map)
         /\ \A x : OnPath(t, x) <=> OnPath(s, x)
         /\ \A x : Cardinality(HeldBy(t, x)) =
                     Cardinality(HeldBy(s, x)) + (IF x = l THEN 1 ELSE 0)
<1> DEFINE t == Loader!Receive(s, l)
           n == Len(s)
<1>1. n \in Nat \ {0} /\ n \in 1..n /\ s[n] \in Loader!Activation
  BY EmptySeq, ElementOfSeq
<1>2. /\ s[n].library \in Loader!Libraries
      /\ s[n].values \in Seq(Loader!Libraries) /\ Len(s[n].values) \in Nat
      /\ Len(dependencies[s[n].library]) \in 0..MaxDependencies
  BY <1>1, ActivationsTyped, LoaderBounds
<1>3. Len(s[n].values) < MaxDependencies
  BY <1>2, LoaderBounds DEF IsNext
<1>4. /\ t \in Seq(Loader!Activation) /\ Len(t) = n
      /\ \A i \in 1..n : i # n => t[i] = s[i]
      /\ t[n].library = s[n].library
      /\ t[n].values = Append(s[n].values, l)
  BY <1>3, Received
<1>5. \A x : Cardinality(HeldBy(t, x)) =
               Cardinality(HeldBy(s, x)) + (IF x = l THEN 1 ELSE 0)
  BY <1>3, HeldWhenReceived
<1> HIDE DEF t
<1>6. ActivationFits(t[n], map)
  <2>1. /\ Len(t[n].values) = Len(s[n].values) + 1
        /\ t[n].values[Len(s[n].values) + 1] = l
        /\ \A i \in 1..Len(s[n].values) : t[n].values[i] = s[n].values[i]
    BY <1>2, <1>4, Pushed
  <2>2. ActivationFits(s[n], map)
    BY <1>1 DEF Path
  <2>3. Len(t[n].values) <= Len(dependencies[t[n].library])
    BY <1>2, <1>4, <2>1 DEF IsNext
  <2>4. \A j \in 1..Len(t[n].values) : /\ t[n].values[j] = dependencies[t[n].library][j]
                                       /\ map[t[n].values[j]] = "value"
    <3> TAKE j \in 1..Len(t[n].values)
    <3>1. CASE j \in 1..Len(s[n].values)
      BY <1>4, <2>1, <2>2, <3>1 DEF ActivationFits
    <3>2. CASE j = Len(s[n].values) + 1
      BY <1>4, <2>1, <3>2 DEF IsNext
    <3> QED BY <1>2, <2>1, <3>1, <3>2
  <2> QED BY <2>3, <2>4 DEF ActivationFits
<1>7. \A i \in 1..n : t[i].library = s[i].library
  BY <1>4
<1>8. Path(t, map)
  <2>1. \A i \in 1..Len(t) : ActivationFits(t[i], map)
    BY <1>4, <1>6 DEF Path
  <2>2. \A i, j \in 1..Len(t) : t[i].library = t[j].library => i = j
    BY <1>4, <1>7 DEF Path
  <2>3. \A i \in 1..(Len(t) - 1) : IsNext(t[i], t[i + 1].library)
    <3> TAKE i \in 1..(Len(t) - 1)
    <3>1. i \in 1..(n - 1) /\ i \in 1..n /\ i + 1 \in 1..n /\ i # n
      BY <1>1, <1>4
    <3>2. IsNext(s[i], s[i + 1].library)
      BY <3>1 DEF Path
    <3> QED BY <1>4, <1>7, <3>1, <3>2
  <2> QED BY <2>1, <2>2, <2>3 DEF Path
<1>9. \A x : OnPath(t, x) <=> OnPath(s, x)
  BY <1>4, <1>7 DEF OnPath
<1> QED BY <1>4, <1>5, <1>8, <1>9 DEF t

LEMMA PathEntered ==
  ASSUME NEW s \in Seq(Loader!Activation), NEW map, Path(s, map), Loader!TypeOK,
         NEW l \in Loader!Libraries, ~OnPath(s, l), s # <<>> => IsNext(s[Len(s)], l)
  PROVE  LET t == Append(s, [library |-> l, values |-> <<>>]) IN
         /\ t \in Seq(Loader!Activation) /\ Path(t, map)
         /\ \A x : OnPath(t, x) <=> OnPath(s, x) \/ x = l
         /\ \A x : HeldBy(t, x) = HeldBy(s, x)
<1> DEFINE a == [library |-> l, values |-> <<>>]
           t == Append(s, a)
           n == Len(s)
<1>1. <<>> \in Seq(Loader!Libraries) /\ Len(<<>>) = 0
  BY EmptySeq
<1>2. a \in Loader!Activation /\ a.library = l /\ a.values = <<>>
  <2>1. Len(<<>>) <= MaxDependencies
    BY <1>1, LoaderBounds
  <2>2. [library |-> l, values |-> <<>>] \in Loader!Activation
    BY <1>1, <2>1, ActivationsTyped
  <2> QED BY <2>2
<1>3. n \in Nat /\ (s # <<>> => n # 0)
  BY EmptySeq, LenProperties
<1> HIDE DEF a
<1>4. /\ t \in Seq(Loader!Activation) /\ Len(t) = n + 1 /\ t[n + 1] = a
      /\ \A i \in 1..n : t[i] = s[i]
  BY <1>2, Pushed
<1>5. \A x : HeldBy(t, x) = HeldBy(s, x)
  BY <1>2, HeldWhenEntered
<1> HIDE DEF t
<1>6. Path(t, map)
  <2>1. ActivationFits(a, map)
    <3>1. Len(dependencies[l]) \in Nat /\ Len(a.values) = 0
      BY <1>1, <1>2, ActivationsTyped, LoaderBounds
    <3> QED BY <1>2, <3>1 DEF ActivationFits
  <2>2. \A i \in 1..Len(t) : ActivationFits(t[i], map)
    BY <1>3, <1>4, <2>1 DEF Path
  <2>3. \A i, j \in 1..Len(t) : t[i].library = t[j].library => i = j
    <3> SUFFICES ASSUME NEW i \in 1..(n + 1), NEW j \in 1..(n + 1),
                        t[i].library = t[j].library
                 PROVE  i = j
      BY <1>4
    <3>1. \A k \in 1..n : t[k].library # l
      BY <1>4 DEF OnPath
    <3>2. t[n + 1].library = l
      BY <1>2, <1>4
    <3>3. CASE i \in 1..n /\ j \in 1..n
      BY <1>4, <3>3 DEF Path
    <3>4. CASE i = n + 1 \/ j = n + 1
      BY <1>3, <3>1, <3>2, <3>4
    <3> QED BY <1>3, <3>3, <3>4
  <2>4. \A i \in 1..(Len(t) - 1) : IsNext(t[i], t[i + 1].library)
    <3> SUFFICES ASSUME NEW i \in 1..n
                 PROVE  IsNext(t[i], t[i + 1].library)
      BY <1>3, <1>4
    <3>1. CASE i = n
      BY <1>2, <1>3, <1>4, <3>1, EmptySeq
    <3>2. CASE i # n
      <4>1. i \in 1..(n - 1) /\ i + 1 \in 1..n
        BY <1>3, <3>2
      <4>2. IsNext(s[i], s[i + 1].library)
        BY <4>1 DEF Path
      <4> QED BY <1>4, <4>1, <4>2
    <3> QED BY <3>1, <3>2
  <2> QED BY <2>2, <2>3, <2>4 DEF Path
<1>7. \A x : OnPath(t, x) <=> OnPath(s, x) \/ x = l
  <2> TAKE x
  <2>1. OnPath(t, x) <=> \E i \in 1..(n + 1) : t[i].library = x
    BY <1>4 DEF OnPath
  <2>2. (\E i \in 1..(n + 1) : t[i].library = x) <=>
          (\E i \in 1..n : t[i].library = x) \/ t[n + 1].library = x
    <3>1. \A i : i \in 1..(n + 1) <=> i \in 1..n \/ i = n + 1
      BY <1>3
    <3> QED BY <3>1
  <2> QED BY <1>2, <1>4, <2>1, <2>2 DEF OnPath
<1> QED BY <1>4, <1>5, <1>6, <1>7 DEF t, a

LEMMA PathLeft ==
  ASSUME NEW s \in Seq(Loader!Activation), s # <<>>, NEW map, Path(s, map)
  PROVE  LET t == SubSeq(s, 1, Len(s) - 1) IN
         /\ t \in Seq(Loader!Activation) /\ Path(t, map)
         /\ t # <<>> => IsNext(t[Len(t)], s[Len(s)].library)
         /\ \A x : OnPath(t, x) <=> OnPath(s, x) /\ x # s[Len(s)].library
<1> DEFINE t == SubSeq(s, 1, Len(s) - 1)
           n == Len(s)
<1>1. /\ t \in Seq(Loader!Activation) /\ Len(t) = n - 1 /\ \A i \in 1..(n - 1) : t[i] = s[i]
  BY Popped
<1>2. n \in Nat \ {0} /\ (t # <<>> => Len(t) # 0)
  BY <1>1, EmptySeq
<1> HIDE DEF t
<1>3. Path(t, map)
  <2>1. /\ \A i \in 1..(n - 1) : i \in 1..n
        /\ \A i \in 1..(n - 2) : i \in 1..(n - 1) /\ i + 1 \in 1..(n - 1)
    BY <1>2
  <2>2. \A i \in 1..(n - 1) : ActivationFits(t[i], map)
    BY <1>1, <2>1 DEF Path
  <2>3. \A i, j \in 1..(n - 1) : t[i].library = t[j].library => i = j
    BY <1>1, <2>1 DEF Path
  <2>4. \A i \in 1..(n - 2) : IsNext(t[i], t[i + 1].library)
    BY <1>1, <2>1 DEF Path
  <2>5. Len(t) = n - 1 /\ Len(t) - 1 = n - 2
    BY <1>1, <1>2
  <2> QED BY <2>2, <2>3, <2>4, <2>5 DEF Path
<1>4. ASSUME t # <<>>
      PROVE  IsNext(t[Len(t)], s[n].library)
  <2>1. n - 1 \in 1..(n - 1) /\ (n - 1) + 1 = n
    BY <1>1, <1>2, <1>4
  <2>2. IsNext(s[n - 1], s[(n - 1) + 1].library)
    BY <2>1 DEF Path
  <2> QED BY <1>1, <2>1, <2>2
<1>5. \A x : OnPath(t, x) <=> OnPath(s, x) /\ x # s[n].library
  <2> TAKE x
  <2>1. \A i : i \in 1..n <=> i \in 1..(n - 1) \/ i = n
    BY <1>2
  <2>2. \A i \in 1..(n - 1) : s[i].library # s[n].library
    BY <1>2, <2>1 DEF Path
  <2> QED BY <1>1, <2>1, <2>2 DEF OnPath
<1> QED BY <1>1, <1>3, <1>4, <1>5 DEF t

LEMMA PathWithMore ==
  ASSUME NEW s \in Seq(Loader!Activation), NEW map, NEW more, Path(s, map),
         \A x \in Loader!Libraries : map[x] = "value" => more[x] = "value"
  PROVE  Path(s, more)
<1>1. ASSUME NEW i \in 1..Len(s)
      PROVE  ActivationFits(s[i], more)
  <2>1. s[i].values \in Seq(Loader!Libraries)
    BY ElementOfSeq, ActivationsTyped
  <2>2. \A j \in 1..Len(s[i].values) : s[i].values[j] \in Loader!Libraries
    BY <2>1, ElementOfSeq
  <2>3. ActivationFits(s[i], map)
    BY DEF Path
  <2> QED BY <2>2, <2>3 DEF ActivationFits
<1> QED BY <1>1 DEF Path

LEMMA WithinThePath ==
  ASSUME NEW n \in Nat, NEW k \in 1..n, NEW m, m = n - k + 1, NEW i \in 1..m, i # m
  PROVE  /\ i + 1 \in 1..m /\ k + i - 1 \in 1..(n - 1)
         /\ k + (i + 1) - 1 = (k + i - 1) + 1
  OBVIOUS

(* A library that is met again while it is loaded depends on itself, by    *)
(* way of the path from it to where it is met.                             *)
LEMMA CycleFound ==
  ASSUME LoaderInv, NEW l \in Loader!Libraries, loaded[l] = "NULL",
         stack # <<>> => IsNext(stack[Len(stack)], l)
  PROVE  \E path \in Loader!BoundedSeq(Loader!Libraries, LibraryCount) :
           /\ path # <<>>
           /\ \A i \in 1..Len(path) :
                path[IF i = Len(path) THEN 1 ELSE i + 1] \in Loader!ToSet(dependencies[path[i]])
<1> DEFINE n == Len(stack)
<1>1. stack \in Seq(Loader!Activation) /\ Path(stack, loaded) /\ Loader!TypeOK /\ n \in Nat
  BY LenProperties DEF LoaderInv, Loader!TypeOK
<1>2. PICK k \in 1..n : stack[k].library = l
  BY DEF LoaderInv, OnPath
<1>3. \A i \in 1..n : stack[i] \in Loader!Activation /\ stack[i].library \in Loader!Libraries
  BY <1>1, ElementOfSeq, ActivationsTyped
<1>4. stack # <<>> /\ n \in 1..n
  BY <1>1, <1>2, EmptySeq
<1> PICK m : m = n - k + 1
  OBVIOUS
<1> PICK path : path = [i \in 1..m |-> stack[k + i - 1].library]
  OBVIOUS
<1>5. /\ m = n - k + 1 /\ m \in Nat /\ m >= 1 /\ \A i \in 1..m : k + i - 1 \in 1..n
      /\ \A i \in 1..m : path[i] = stack[k + i - 1].library
  BY <1>1, <1>2
<1>6. path \in Seq(Loader!Libraries) /\ Len(path) = m
  <2>1. path \in [1..m -> Loader!Libraries]
    BY <1>3, <1>5
  <2>2. path \in Seq(Loader!Libraries)
    BY <1>5, <2>1, SeqDef
  <2>3. DOMAIN path = 1..m /\ DOMAIN path = 1..Len(path) /\ Len(path) \in Nat
    BY <2>1, <2>2, LenProperties
  <2>4. Len(path) = m
    BY <1>5, <2>3
  <2> QED BY <2>2, <2>4
<1>7. m <= LibraryCount
  <2>1. path \in [1..m -> 1..LibraryCount]
    BY <1>3, <1>5 DEF Loader!Libraries
  <2>2. \A i, j \in 1..m : path[i] = path[j] => i = j
    <3> SUFFICES ASSUME NEW i \in 1..m, NEW j \in 1..m, path[i] = path[j]
                 PROVE  i = j
      OBVIOUS
    <3>1. k + i - 1 = k + j - 1
      BY <1>1, <1>5 DEF Path
    <3>2. k \in Int /\ i \in Int /\ j \in Int
      BY <1>5
    <3> QED BY <3>1, <3>2
  <2>3. path \in Injection(1..m, 1..LibraryCount)
    <3>1. PICK S, T : S = 1..m /\ T = 1..LibraryCount
      OBVIOUS
    <3>2. path \in [S -> T] /\ \A i, j \in S : path[i] = path[j] => i = j
      BY <2>1, <2>2, <3>1
    <3>3. path \in Injection(S, T)
      BY <3>2, Fun_IsInj
    <3> QED BY <3>1, <3>3
  <2>4. IsFiniteSet(1..LibraryCount) /\ Cardinality(1..LibraryCount) = LibraryCount
    <3>1. LibraryCount \in Int /\ 1 \in Int /\ LibraryCount >= 0
      BY LoaderBounds
    <3>2. /\ IsFiniteSet(1..LibraryCount)
          /\ Cardinality(1..LibraryCount) =
               IF 1 > LibraryCount THEN 0 ELSE LibraryCount - 1 + 1
      BY <3>1, FS_Interval
    <3> QED BY <3>1, <3>2
  <2>5. Cardinality(1..m) = m
    BY <1>5, FS_Interval
  <2>6. Cardinality(1..m) <= Cardinality(1..LibraryCount)
    BY <2>3, <2>4, FS_Injection
  <2> QED BY <2>4, <2>5, <2>6
<1>8. path \in Loader!BoundedSeq(Loader!Libraries, LibraryCount)
  BY <1>6, <1>7, ShortSequences, LoaderBounds
<1>9. path # <<>>
  <2>1. Len(path) # 0 /\ Len(<<>>) = 0
    BY <1>5, <1>6, EmptySeq
  <2> QED BY <2>1
<1>10. ASSUME NEW a \in Loader!Activation, NEW x, IsNext(a, x)
       PROVE  x \in Loader!ToSet(dependencies[a.library])
  <2>1. /\ dependencies[a.library] \in Seq(Loader!Libraries)
        /\ Len(dependencies[a.library]) \in Nat /\ Len(a.values) \in Nat
    BY <1>1, ActivationsTyped, LoaderBounds
  <2>2. Len(a.values) + 1 \in DOMAIN dependencies[a.library]
    BY <1>10, <2>1, LenProperties DEF IsNext
  <2> QED BY <1>10, <2>2 DEF IsNext, Loader!ToSet
<1>11. ASSUME NEW i \in 1..m
       PROVE  path[IF i = m THEN 1 ELSE i + 1] \in Loader!ToSet(dependencies[path[i]])
  <2>1. k + i - 1 \in 1..n /\ path[i] = stack[k + i - 1].library
    BY <1>5
  <2>2. CASE i = m
    <3>1. 1 \in 1..m /\ k + 1 - 1 = k /\ k + i - 1 = n
      BY <1>1, <1>2, <1>5, <2>2
    <3>2. path[1] = l
      BY <1>2, <1>5, <3>1
    <3> QED BY <1>3, <1>4, <1>10, <2>1, <2>2, <3>1, <3>2
  <2>3. CASE i # m
    <3>1. /\ i + 1 \in 1..m /\ k + i - 1 \in 1..(n - 1)
          /\ k + (i + 1) - 1 = (k + i - 1) + 1
      BY <1>1, <1>2, <1>5, <2>3, WithinThePath
    <3>2. path[i + 1] = stack[(k + i - 1) + 1].library
      BY <3>1
    <3>3. IsNext(stack[k + i - 1], stack[(k + i - 1) + 1].library)
      BY <1>1, <3>1 DEF Path
    <3> QED BY <1>3, <1>10, <2>1, <2>3, <3>2, <3>3
  <2> QED BY <2>2, <2>3
<1> QED BY <1>6, <1>8, <1>9, <1>11

(* What was loaded stays as it was loaded.                                 *)
LEMMA SameLoads ==
  ASSUME Loader!LoadedWithDependencies, loads' = loads, dependencies' = dependencies
  PROVE  Loader!LoadedWithDependencies'
<1> SUFFICES ASSUME NEW i \in 1..Len(loads)
             PROVE  /\ loads'[i].values = dependencies'[loads'[i].library]
                    /\ \A d \in Loader!ToSet(loads'[i].values) :
                         \E j \in 1..(i - 1) : loads'[j].library = d
  BY Zenon DEF Loader!LoadedWithDependencies
<1>1. /\ loads[i].values = dependencies[loads[i].library]
      /\ \A d \in Loader!ToSet(loads[i].values) :
           \E j \in 1..(i - 1) : loads[j].library = d
  BY DEF Loader!LoadedWithDependencies
<1> QED BY <1>1, Zenon

(* What cloning keeps, or finds.                                           *)
LEMMA CloneIsFine ==
  ASSUME LoaderInv, NEW l \in Loader!Libraries, loaded[l] # "absent",
         stack # <<>> => IsNext(stack[Len(stack)], l),
         Loader!Clone(l), dependencies' = dependencies
  PROVE  LoaderInv'
<1>1. /\ Loader!TypeOK /\ stack \in Seq(Loader!Activation) /\ Path(stack, loaded)
      /\ UNCHANGED <<loaded, loads>>
  BY DEF LoaderInv, Loader!TypeOK, Loader!Clone
<1>2. Loader!LoadedWithDependencies'
  BY <1>1, SameLoads DEF LoaderInv
<1>3. CASE loaded[l] = "NULL"
  <2>1. crashed' = TRUE /\ UNCHANGED <<stack, owned, requests>>
    BY <1>3 DEF Loader!Clone
  <2>2. Loader!TypeOK'
    BY <1>1, <2>1 DEF Loader!TypeOK
  <2>3. Loader!OnlyCyclesFail'
    BY <1>3, CycleFound DEF Loader!OnlyCyclesFail
  <2>4. Path(stack, loaded)'
    BY <1>1, <2>1 DEF Path, ActivationFits, IsNext
  <2>5. \A x \in Loader!Libraries :
          /\ (loaded[x] = "NULL" <=> OnPath(stack, x))'
          /\ (loaded[x] = "value" => \E j \in 1..Len(loads) : loads[j].library = x)'
          /\ (owned[x] = Loader!InMap(x) + requests[x] + Cardinality(HeldBy(stack, x)))'
    <3> TAKE x \in Loader!Libraries
    <3>1. HeldBy(stack, x)' = HeldBy(stack, x) /\ (OnPath(stack, x)' <=> OnPath(stack, x))
      BY <2>1 DEF HeldBy, OnPath
    <3> QED BY <1>1, <2>1, <3>1 DEF LoaderInv, Loader!InMap
  <2> QED BY <1>2, <2>2, <2>3, <2>4, <2>5 DEF LoaderInv
<1>4. CASE loaded[l] = "value"
  <2>1. /\ stack' = Loader!Receive(stack, l)
        /\ owned' = [owned EXCEPT ![l] = @ + 1]
        /\ requests' = IF stack = <<>> THEN [requests EXCEPT ![l] = @ + 1] ELSE requests
        /\ UNCHANGED crashed
    BY <1>4 DEF Loader!Clone, Loader!Returned
  <2>2. /\ stack' \in Seq(Loader!Activation) /\ Path(stack', loaded)
        /\ \A x : OnPath(stack', x) <=> OnPath(stack, x)
        /\ \A x : Cardinality(HeldBy(stack', x)) =
                    Cardinality(HeldBy(stack, x))
                      + (IF x = l /\ stack # <<>> THEN 1 ELSE 0)
    <3>1. CASE stack = <<>>
      <4>1. stack' = stack
        BY <2>1, <3>1 DEF Loader!Receive
      <4>2. \A x : Cardinality(HeldBy(stack, x)) \in Nat
        BY <1>1, HeldFinite
      <4> QED BY <1>1, <3>1, <4>1, <4>2
    <3>2. CASE stack # <<>>
      BY <1>1, <1>4, <2>1, <3>2, PathReceived
    <3> QED BY <3>1, <3>2
  <2>3. /\ owned \in [Loader!Libraries -> Nat] /\ requests \in [Loader!Libraries -> Nat]
        /\ owned' \in [Loader!Libraries -> Nat] /\ requests' \in [Loader!Libraries -> Nat]
    BY <1>1, <2>1 DEF Loader!TypeOK
  <2>4. Loader!TypeOK'
    BY <1>1, <2>1, <2>2, <2>3 DEF Loader!TypeOK
  <2>5. Path(stack, loaded)'
    BY <1>1, <2>2 DEF Path, ActivationFits, IsNext
  <2>6. \A x \in Loader!Libraries :
          /\ (loaded[x] = "NULL" <=> OnPath(stack, x))'
          /\ (loaded[x] = "value" => \E j \in 1..Len(loads) : loads[j].library = x)'
    <3>1. \A x : OnPath(stack, x)' <=> OnPath(stack, x)
      BY <2>2 DEF OnPath
    <3> QED BY <1>1, <3>1 DEF LoaderInv
  <2>7. \A x \in Loader!Libraries :
          (owned[x] = Loader!InMap(x) + requests[x] + Cardinality(HeldBy(stack, x)))'
    <3> TAKE x \in Loader!Libraries
    <3>1. owned[x] = Loader!InMap(x) + requests[x] + Cardinality(HeldBy(stack, x))
      BY DEF LoaderInv
    <3>2. Cardinality(HeldBy(stack, x)) \in Nat
      BY <1>1, HeldFinite
    <3>3. Loader!InMap(x) \in Nat /\ Loader!InMap(x)' = Loader!InMap(x)
      BY <1>1 DEF Loader!InMap
    <3>4. owned'[x] = owned[x] + (IF x = l THEN 1 ELSE 0)
      BY <2>1, <2>3
    <3>5. requests'[x] = requests[x] + (IF x = l /\ stack = <<>> THEN 1 ELSE 0)
      BY <2>1, <2>3
    <3>6. Cardinality(HeldBy(stack', x)) =
            Cardinality(HeldBy(stack, x)) + (IF x = l /\ stack # <<>> THEN 1 ELSE 0)
      BY <2>2
    <3>0. owned[x] \in Nat /\ requests[x] \in Nat
      BY <2>3
    <3>7. owned'[x] = Loader!InMap(x)' + requests'[x] + Cardinality(HeldBy(stack', x))
      <4>1. CASE x # l
        BY <3>1, <3>2, <3>3, <3>4, <3>5, <3>6, <3>0, <4>1
      <4>2. CASE x = l /\ stack = <<>>
        BY <3>1, <3>2, <3>3, <3>4, <3>5, <3>6, <3>0, <4>2
      <4>3. CASE x = l /\ stack # <<>>
        BY <3>1, <3>2, <3>3, <3>4, <3>5, <3>6, <3>0, <4>3
      <4> QED BY <4>1, <4>2, <4>3
    <3>8. HeldBy(stack, x)' = HeldBy(stack', x)
      BY DEF HeldBy
    <3> QED BY <3>7, <3>8
  <2>8. Loader!OnlyCyclesFail'
    BY <2>1 DEF LoaderInv, Loader!OnlyCyclesFail
  <2> QED BY <1>2, <2>4, <2>5, <2>6, <2>7, <2>8 DEF LoaderInv
<1> QED BY <1>1, <1>3, <1>4 DEF Loader!TypeOK

LEMMA EnterIsFine ==
  ASSUME LoaderInv, NEW l \in Loader!Libraries, loaded[l] = "absent",
         stack # <<>> => IsNext(stack[Len(stack)], l),
         Loader!Enter(l), dependencies' = dependencies
  PROVE  LoaderInv'
<1>1. /\ Loader!TypeOK /\ stack \in Seq(Loader!Activation) /\ Path(stack, loaded)
      /\ loaded \in [Loader!Libraries -> {"absent", "NULL", "value"}]
  BY DEF LoaderInv, Loader!TypeOK
<1>2. /\ stack' = Append(stack, [library |-> l, values |-> <<>>])
      /\ loaded' = [loaded EXCEPT ![l] = "NULL"]
      /\ UNCHANGED <<loads, owned, requests, crashed>>
  BY DEF Loader!Enter
<1>3. ~OnPath(stack, l)
  BY DEF LoaderInv
<1>4. /\ stack' \in Seq(Loader!Activation) /\ Path(stack', loaded)
      /\ \A x : OnPath(stack', x) <=> OnPath(stack, x) \/ x = l
      /\ \A x : HeldBy(stack', x) = HeldBy(stack, x)
  BY <1>1, <1>2, <1>3, PathEntered
<1>5. Path(stack', loaded')
  <2>1. \A x \in Loader!Libraries : loaded[x] = "value" => loaded'[x] = "value"
    BY <1>1, <1>2
  <2> QED BY <1>4, <2>1, PathWithMore
<1>6. Path(stack, loaded)'
  BY <1>5 DEF Path, ActivationFits, IsNext
<1>7. Loader!TypeOK'
  BY <1>1, <1>2, <1>4 DEF Loader!TypeOK
<1>8. \A x \in Loader!Libraries :
        /\ (loaded[x] = "NULL" <=> OnPath(stack, x))'
        /\ (loaded[x] = "value" => \E j \in 1..Len(loads) : loads[j].library = x)'
        /\ (owned[x] = Loader!InMap(x) + requests[x] + Cardinality(HeldBy(stack, x)))'
  <2> TAKE x \in Loader!Libraries
  <2>1. HeldBy(stack, x)' = HeldBy(stack, x)
    BY <1>4 DEF HeldBy
  <2>2. OnPath(stack, x)' <=> OnPath(stack, x) \/ x = l
    BY <1>4 DEF OnPath
  <2>3. Loader!InMap(x)' = Loader!InMap(x)
    BY <1>1, <1>2 DEF Loader!InMap
  <2> QED BY <1>1, <1>2, <2>1, <2>2, <2>3 DEF LoaderInv
<1>9. Loader!LoadedWithDependencies' /\ Loader!OnlyCyclesFail'
  BY <1>2, SameLoads DEF LoaderInv, Loader!OnlyCyclesFail
<1> QED BY <1>6, <1>7, <1>8, <1>9 DEF LoaderInv

LEMMA LoadersCount == \A S : Loader!Cardinality(S) = Cardinality(S)
  BY DEF Loader!Cardinality, Cardinality

(* A library that is loaded was given all that it names; its value is then *)
(* owned by the map and by whoever asked for it.                           *)
LEMMA LoadLibraryIsFine ==
  ASSUME LoaderInv, stack # <<>>, Loader!LoadLibrary, dependencies' = dependencies
  PROVE  LoaderInv'
<1> DEFINE n == Len(stack)
<1>1. /\ Loader!TypeOK /\ stack \in Seq(Loader!Activation) /\ Path(stack, loaded)
      /\ loaded \in [Loader!Libraries -> {"absent", "NULL", "value"}]
      /\ n \in Nat \ {0} /\ n \in 1..n
  BY EmptySeq DEF LoaderInv, Loader!TypeOK
<1>2. PICK a : a = stack[n]
  OBVIOUS
<1>3. PICK b : b = a.library
  OBVIOUS
<1>4. PICK F : F = SubSeq(stack, 1, n - 1)
  OBVIOUS
<1>5. Loader!Top = a /\ Loader!Front(stack) = F
  BY <1>2, <1>4 DEF Loader!Top, Loader!Last, Loader!Front
<1>6. a \in Loader!Activation /\ b \in Loader!Libraries
      /\ a.values \in Seq(Loader!Libraries) /\ Len(a.values) \in Nat
      /\ dependencies[b] \in Seq(Loader!Libraries)
  BY <1>1, <1>2, <1>3, ElementOfSeq, ActivationsTyped, LoaderBounds
<1>7. /\ Len(a.values) = Len(dependencies[b])
      /\ loads' = Append(loads, a)
      /\ loaded' = [loaded EXCEPT ![b] = "value"]
      /\ owned' = [x \in Loader!Libraries |-> owned[x] - Loader!Deleted(a, x)
                                              + (IF x = b THEN 2 ELSE 0)]
      /\ stack' = Loader!Receive(F, b)
      /\ requests' = IF F = <<>> THEN [requests EXCEPT ![b] = @ + 1] ELSE requests
      /\ crashed' = crashed
  BY <1>3, <1>5 DEF Loader!LoadLibrary, Loader!HasAll, Loader!Remember, Loader!Returned
<1>8. /\ F \in Seq(Loader!Activation) /\ Path(F, loaded)
      /\ F # <<>> => IsNext(F[Len(F)], b)
      /\ \A x : OnPath(F, x) <=> OnPath(stack, x) /\ x # b
  BY <1>1, <1>2, <1>3, <1>4, PathLeft
<1>9. Path(F, loaded')
  <2>1. \A x \in Loader!Libraries : loaded[x] = "value" => loaded'[x] = "value"
    BY <1>1, <1>6, <1>7
  <2> QED BY <1>8, <2>1, PathWithMore
<1>10. loaded'[b] = "value" /\ \A x \in Loader!Libraries : x # b => loaded'[x] = loaded[x]
  BY <1>1, <1>6, <1>7
<1>11. /\ stack' \in Seq(Loader!Activation) /\ Path(stack', loaded')
       /\ \A x : OnPath(stack', x) <=> OnPath(F, x)
       /\ \A x : Cardinality(HeldBy(stack', x)) =
                   Cardinality(HeldBy(F, x)) + (IF x = b /\ F # <<>> THEN 1 ELSE 0)
  <2>1. CASE F = <<>>
    <3>1. stack' = F
      BY <1>7, <2>1 DEF Loader!Receive
    <3>2. \A x : Cardinality(HeldBy(F, x)) \in Nat
      BY <1>8, HeldFinite
    <3> QED BY <1>8, <1>9, <2>1, <3>1, <3>2
  <2>2. CASE F # <<>>
    <3>1. /\ Loader!Receive(F, b) \in Seq(Loader!Activation)
          /\ Path(Loader!Receive(F, b), loaded')
          /\ \A x : OnPath(Loader!Receive(F, b), x) <=> OnPath(F, x)
          /\ \A x : Cardinality(HeldBy(Loader!Receive(F, b), x)) =
                      Cardinality(HeldBy(F, x)) + (IF x = b THEN 1 ELSE 0)
      BY <1>1, <1>6, <1>8, <1>9, <1>10, <2>2, PathReceived
    <3> QED BY <1>7, <2>2, <3>1
  <2> QED BY <2>1, <2>2
<1>12. Path(stack, loaded)'
  BY <1>11 DEF Path, ActivationFits, IsNext
<1>13. /\ loads \in Seq(Loader!Activation) /\ Len(loads) \in Nat
       /\ loads' \in Seq(Loader!Activation) /\ Len(loads') = Len(loads) + 1
       /\ loads'[Len(loads) + 1] = a /\ \A i \in 1..Len(loads) : loads'[i] = loads[i]
  BY <1>1, <1>6, <1>7, Pushed, LenProperties DEF Loader!TypeOK
<1>14. loaded[b] = "NULL"
  BY <1>1, <1>2, <1>3, <1>6 DEF LoaderInv, OnPath
<1>15. \A x \in Loader!Libraries :
         /\ owned[x] = Loader!InMap(x) + requests[x] + Cardinality(HeldBy(stack, x))
         /\ owned[x] \in Nat /\ requests[x] \in Nat
         /\ Loader!InMap(x) \in Nat /\ Cardinality(HeldBy(F, x)) \in Nat
         /\ Cardinality({i \in 1..Len(a.values) : a.values[i] = x}) \in Nat
         /\ Cardinality(HeldBy(stack, x)) =
              Cardinality(HeldBy(F, x)) + Cardinality({i \in 1..Len(a.values) : a.values[i] = x})
  <2> TAKE x \in Loader!Libraries
  <2> DEFINE I == {i \in 1..Len(a.values) : a.values[i] = x}
  <2>1. IsFiniteSet(1..Len(a.values)) /\ I \in SUBSET (1..Len(a.values))
    <3>1. 1 \in Int /\ Len(a.values) \in Int
      BY <1>6
    <3>2. IsFiniteSet(1..Len(a.values))
      BY <3>1, FS_Interval
    <3> QED BY <3>2
  <2>2. Cardinality(I) \in Nat
    BY <2>1, FS_Subset, FS_CardinalityType
  <2>3. Cardinality(HeldBy(stack, x)) = Cardinality(HeldBy(F, x)) + Cardinality(I)
    BY <1>1, <1>2, <1>4, HeldWhenLeft
  <2>4. Cardinality(HeldBy(F, x)) \in Nat
    BY <1>8, HeldFinite
  <2> QED BY <1>1, <2>2, <2>3, <2>4 DEF LoaderInv, Loader!TypeOK, Loader!InMap
<1>16. \A x \in Loader!Libraries :
         /\ owned'[x] = Loader!InMap(x)' + requests'[x] + Cardinality(HeldBy(stack', x))
         /\ owned'[x] \in Nat /\ requests'[x] \in Nat
  <2> TAKE x \in Loader!Libraries
  <2> DEFINE I == {i \in 1..Len(a.values) : a.values[i] = x}
  <2>1. owned'[x] = owned[x] - Cardinality(I) + (IF x = b THEN 2 ELSE 0)
    BY <1>7, LoadersCount DEF Loader!Deleted
  <2>2. requests'[x] = requests[x] + (IF x = b /\ F = <<>> THEN 1 ELSE 0)
    BY <1>1, <1>6, <1>7, <1>15 DEF Loader!TypeOK
  <2>3. Loader!InMap(x)' = Loader!InMap(x) + (IF x = b THEN 1 ELSE 0)
    BY <1>10, <1>14 DEF Loader!InMap
  <2>4. Cardinality(HeldBy(stack', x)) =
          Cardinality(HeldBy(F, x)) + (IF x = b /\ F # <<>> THEN 1 ELSE 0)
    BY <1>11
  <2> HIDE DEF I
  <2>5. /\ owned[x] = Loader!InMap(x) + requests[x] + Cardinality(HeldBy(F, x)) + Cardinality(I)
        /\ owned[x] \in Nat /\ requests[x] \in Nat
        /\ Loader!InMap(x) \in Nat /\ Cardinality(HeldBy(F, x)) \in Nat
        /\ Cardinality(I) \in Nat
    <3>1. /\ owned[x] = Loader!InMap(x) + requests[x] + Cardinality(HeldBy(stack, x))
          /\ owned[x] \in Nat /\ requests[x] \in Nat
          /\ Loader!InMap(x) \in Nat /\ Cardinality(HeldBy(F, x)) \in Nat
      BY <1>15
    <3>2. /\ Cardinality(I) \in Nat
          /\ Cardinality(HeldBy(stack, x)) = Cardinality(HeldBy(F, x)) + Cardinality(I)
      BY <1>15, Zenon DEF I
    <3> QED BY <3>1, <3>2
  <2>6. PICK o, r, h, c, p : /\ o = owned[x] /\ r = requests[x] /\ p = Loader!InMap(x)
                             /\ h = Cardinality(HeldBy(F, x)) /\ c = Cardinality(I)
    OBVIOUS
  <2>7. o = p + r + h + c /\ o \in Nat /\ r \in Nat /\ p \in Nat /\ h \in Nat /\ c \in Nat
    BY <2>5, <2>6
  <2>8. /\ owned'[x] = o - c + (IF x = b THEN 2 ELSE 0)
        /\ requests'[x] = r + (IF x = b /\ F = <<>> THEN 1 ELSE 0)
        /\ Loader!InMap(x)' = p + (IF x = b THEN 1 ELSE 0)
        /\ Cardinality(HeldBy(stack', x)) = h + (IF x = b /\ F # <<>> THEN 1 ELSE 0)
    BY <2>1, <2>2, <2>3, <2>4, <2>6
  <2>9. CASE x # b
    BY <2>7, <2>8, <2>9
  <2>10. CASE x = b /\ F = <<>>
    BY <2>7, <2>8, <2>10
  <2>11. CASE x = b /\ F # <<>>
    BY <2>7, <2>8, <2>11
  <2> QED BY <2>9, <2>10, <2>11
<1>17. Loader!TypeOK'
  <2>1. owned' \in [Loader!Libraries -> Nat]
    BY <1>7, <1>16
  <2>2. requests' \in [Loader!Libraries -> Nat]
    BY <1>1, <1>6, <1>7 DEF Loader!TypeOK
  <2> QED BY <1>1, <1>7, <1>11, <1>13, <2>1, <2>2 DEF Loader!TypeOK
<1>18. \A x \in Loader!Libraries :
         /\ (loaded[x] = "NULL" <=> OnPath(stack, x))'
         /\ (loaded[x] = "value" => \E j \in 1..Len(loads) : loads[j].library = x)'
         /\ (owned[x] = Loader!InMap(x) + requests[x] + Cardinality(HeldBy(stack, x)))'
  <2> TAKE x \in Loader!Libraries
  <2>1. HeldBy(stack, x)' = HeldBy(stack', x)
    BY DEF HeldBy
  <2>2. OnPath(stack, x)' <=> OnPath(stack, x) /\ x # b
    BY <1>8, <1>11 DEF OnPath
  <2>3. (loaded[x] = "NULL" <=> OnPath(stack, x))'
    BY <1>10, <2>2 DEF LoaderInv
  <2>4. (loaded[x] = "value" => \E j \in 1..Len(loads) : loads[j].library = x)'
    <3>1. CASE x = b
      BY <1>3, <1>13, <3>1
    <3>2. CASE x # b
      <4> SUFFICES ASSUME loaded[x] = "value"
                   PROVE  \E j \in 1..Len(loads') : loads'[j].library = x
        BY <1>10, <3>2
      <4>1. PICK j \in 1..Len(loads) : loads[j].library = x
        BY DEF LoaderInv
      <4> QED BY <1>13, <4>1
    <3> QED BY <3>1, <3>2
  <2> QED BY <1>16, <2>1, <2>3, <2>4
<1>19. a.values = dependencies[b]
       /\ \A d \in Loader!ToSet(a.values) : \E j \in 1..Len(loads) : loads[j].library = d
  <2>1. ActivationFits(a, loaded)
    BY <1>1, <1>2 DEF Path
  <2>2. a.values = dependencies[b]
    BY <1>3, <1>6, <1>7, <2>1, SeqEqual DEF ActivationFits
  <2>3. DOMAIN a.values = 1..Len(a.values)
    BY <1>6, LenProperties
  <2>4. \A d \in Loader!ToSet(a.values) : d \in Loader!Libraries /\ loaded[d] = "value"
    BY <1>6, <2>1, <2>3, ElementOfSeq DEF ActivationFits, Loader!ToSet
  <2> QED BY <2>2, <2>4 DEF LoaderInv
<1>20. Loader!LoadedWithDependencies'
  <2> SUFFICES ASSUME NEW i \in 1..(Len(loads) + 1)
               PROVE  /\ loads'[i].values = dependencies[loads'[i].library]
                      /\ \A d \in Loader!ToSet(loads'[i].values) :
                           \E j \in 1..(i - 1) : loads'[j].library = d
    BY <1>13 DEF Loader!LoadedWithDependencies
  <2>1. CASE i = Len(loads) + 1
    <3>1. i - 1 = Len(loads) /\ loads'[i] = a
      BY <1>13, <2>1
    <3> QED BY <1>3, <1>13, <1>19, <3>1
  <2>2. CASE i # Len(loads) + 1
    <3>1. i \in 1..Len(loads) /\ loads'[i] = loads[i]
          /\ \A j \in 1..(i - 1) : loads'[j] = loads[j]
      BY <1>13, <2>2
    <3>2. /\ loads[i].values = dependencies[loads[i].library]
          /\ \A d \in Loader!ToSet(loads[i].values) :
               \E j \in 1..(i - 1) : loads[j].library = d
      BY <3>1 DEF LoaderInv, Loader!LoadedWithDependencies
    <3>3. ASSUME NEW d \in Loader!ToSet(loads[i].values)
          PROVE  \E j \in 1..(i - 1) : loads'[j].library = d
      BY <3>1, <3>2
    <3> QED BY <3>1, <3>2, <3>3
  <2> QED BY <2>1, <2>2
<1>21. Loader!OnlyCyclesFail'
  BY <1>7 DEF LoaderInv, Loader!OnlyCyclesFail
<1> QED BY <1>12, <1>17, <1>18, <1>20, <1>21 DEF LoaderInv

LEMMA LoadInternalIsFine ==
  ASSUME LoaderInv, NEW l \in Loader!Libraries,
         stack # <<>> => IsNext(stack[Len(stack)], l),
         Loader!LoadInternal(l), dependencies' = dependencies
  PROVE  LoaderInv'
  BY CloneIsFine, EnterIsFine DEF Loader!LoadInternal, Loader!IsListed

LEMMA LoaderStart == Loader!Init => LoaderInv
<1> SUFFICES ASSUME Loader!Init
             PROVE  LoaderInv
  OBVIOUS
<1>1. /\ dependencies \in Loader!Dependencies
      /\ loaded = [l \in Loader!Libraries |-> "absent"]
      /\ stack = <<>> /\ loads = <<>>
      /\ owned = [l \in Loader!Libraries |-> 0]
      /\ requests = [l \in Loader!Libraries |-> 0]
      /\ crashed = FALSE
  BY DEF Loader!Init
<1>2. stack \in Seq(Loader!Activation) /\ loads \in Seq(Loader!Activation)
      /\ Len(stack) = 0 /\ Len(loads) = 0
  BY <1>1, EmptySeq
<1>3. Loader!TypeOK
  BY <1>1, <1>2 DEF Loader!TypeOK
<1>4. Path(stack, loaded) /\ \A l : ~OnPath(stack, l) /\ HeldBy(stack, l) = {}
  BY <1>2 DEF Path, OnPath, HeldBy
<1>5. Cardinality({}) = 0
  BY FS_EmptySet
<1>6. \A l \in Loader!Libraries :
        /\ loaded[l] = "NULL" <=> OnPath(stack, l)
        /\ loaded[l] = "value" => \E j \in 1..Len(loads) : loads[j].library = l
        /\ owned[l] = Loader!InMap(l) + requests[l] + Cardinality(HeldBy(stack, l))
  <2> TAKE l \in Loader!Libraries
  <2>1. loaded[l] = "absent" /\ owned[l] = 0 /\ requests[l] = 0
    BY <1>1
  <2>2. ~OnPath(stack, l) /\ Cardinality(HeldBy(stack, l)) = 0
    BY <1>4, <1>5
  <2>3. Loader!InMap(l) = 0
    BY <2>1 DEF Loader!InMap
  <2> QED BY <2>1, <2>2, <2>3
<1>7. Loader!LoadedWithDependencies /\ Loader!OnlyCyclesFail
  BY <1>1, <1>2 DEF Loader!LoadedWithDependencies, Loader!OnlyCyclesFail
<1> QED BY <1>3, <1>4, <1>6, <1>7 DEF LoaderInv

LEMMA LoaderStep == LoaderInv /\ [Loader!Next]_libraryVars => LoaderInv'
<1> SUFFICES ASSUME LoaderInv, [Loader!Next]_libraryVars
             PROVE  LoaderInv'
  OBVIOUS
<1>1. CASE UNCHANGED libraryVars
  <2>1. UNCHANGED <<dependencies, loaded, stack, loads, owned, requests, crashed>>
    BY <1>1 DEF libraryVars
  <2>2. Loader!TypeOK' /\ Loader!LoadedWithDependencies' /\ Loader!OnlyCyclesFail'
    BY <2>1, SameLoads DEF LoaderInv, Loader!TypeOK, Loader!OnlyCyclesFail
  <2>3. Path(stack, loaded)'
    BY <2>1 DEF LoaderInv, Path, ActivationFits, IsNext
  <2>4. \A l : HeldBy(stack, l)' = HeldBy(stack, l) /\ (OnPath(stack, l)' <=> OnPath(stack, l))
    BY <2>1 DEF HeldBy, OnPath
  <2>5. (\A l \in Loader!Libraries :
          /\ loaded[l] = "NULL" <=> OnPath(stack, l)
          /\ loaded[l] = "value" => \E j \in 1..Len(loads) : loads[j].library = l
          /\ owned[l] = Loader!InMap(l) + requests[l] + Cardinality(HeldBy(stack, l)))'
    BY <2>1, <2>4 DEF LoaderInv, Loader!InMap
  <2> QED BY <2>2, <2>3, <2>5 DEF LoaderInv
<1>2. ASSUME NEW l \in Loader!Libraries, Loader!Load(l), dependencies' = dependencies
      PROVE  LoaderInv'
  BY <1>2, LoadInternalIsFine DEF Loader!Load
<1>3. CASE Loader!Step /\ dependencies' = dependencies
  <2>1. stack # <<>>
    BY <1>3 DEF Loader!Step
  <2>2. CASE Loader!LoadLibrary
    BY <1>3, <2>1, <2>2, LoadLibraryIsFine
  <2>3. CASE Loader!LoadDependency
    <3>1. PICK a : a = stack[Len(stack)]
      OBVIOUS
    <3>2. Loader!Top = a
      BY <3>1 DEF Loader!Top, Loader!Last
    <3>3. stack \in Seq(Loader!Activation) /\ Len(stack) \in 1..Len(stack) /\ Loader!TypeOK
      BY <2>1, EmptySeq DEF LoaderInv, Loader!TypeOK
    <3>4. a \in Loader!Activation /\ ActivationFits(a, loaded)
      BY <3>1, <3>3, ElementOfSeq DEF LoaderInv, Path
    <3>5. /\ a.library \in Loader!Libraries /\ Len(a.values) \in Nat
          /\ dependencies[a.library] \in Seq(Loader!Libraries)
          /\ Len(dependencies[a.library]) \in Nat
      BY <3>3, <3>4, ActivationsTyped, LoaderBounds
    <3>6. Len(a.values) < Len(dependencies[a.library])
      BY <2>3, <3>2, <3>4, <3>5 DEF Loader!LoadDependency, Loader!HasAll, ActivationFits
    <3>7. PICK l : l = dependencies[a.library][Len(a.values) + 1]
      OBVIOUS
    <3>8. l \in Loader!Libraries
      <4>1. Len(a.values) + 1 \in 1..Len(dependencies[a.library])
        BY <3>5, <3>6
      <4> QED BY <3>5, <3>7, <4>1, ElementOfSeq
    <3>9. IsNext(stack[Len(stack)], l)
      BY <3>1, <3>6, <3>7 DEF IsNext
    <3>10. Loader!LoadInternal(l)
      BY <2>3, <3>2, <3>7 DEF Loader!LoadDependency
    <3> QED BY <1>3, <3>8, <3>9, <3>10, LoadInternalIsFine
  <2> QED BY <1>3, <2>2, <2>3 DEF Loader!Step
<1> QED BY <1>1, <1>2, <1>3 DEF Loader!Next

(* LoadedOnce: a library is loaded with the values of just what it names,  *)
(* in that order and each loaded before; the map owns one value of each    *)
(* library and the callers of Load own those that they were given, so none *)
(* leaks and none is loaded twice; and the loader meets NULL only in a     *)
(* library that depends on itself (public/library.cc).                     *)
THEOREM LibrariesLoadOnce == ServerSpec => []LoadedOnce
<1>1. ServerInit => LoaderInv
  BY LoaderStart DEF ServerInit
<1>2. LoaderInv /\ [ServerNext]_serverVars => LoaderInv'
  <2>1. [ServerNext]_serverVars => [Loader!Next]_libraryVars
    BY DEF ServerNext, serverVars, libraryVars, InParallel, Evaluates, InSession
  <2> QED BY <2>1, LoaderStep
<1>3. LoaderInv => LoadedOnce
  <2> SUFFICES ASSUME LoaderInv
               PROVE  Loader!NoValueLeaks
    BY DEF LoadedOnce, LoaderInv
  <2> SUFFICES ASSUME stack = <<>>, NEW l \in Loader!Libraries
               PROVE  owned[l] = Loader!InMap(l) + requests[l]
    BY DEF Loader!NoValueLeaks
  <2>1. Len(stack) = 0
    BY EmptySeq
  <2>2. HeldBy(stack, l) = {}
    BY <2>1 DEF HeldBy
  <2>3. Cardinality(HeldBy(stack, l)) = 0
    BY <2>2, FS_EmptySet
  <2> QED BY <2>3 DEF LoaderInv, Loader!InMap, Loader!TypeOK
<1> QED BY <1>1, <1>2, <1>3, PTL DEF ServerSpec

-----------------------------------------------------------------------------
(* What is nested imports later files, and what it imports was read from a *)
(* file as it was when, or after, it was last looked at.                   *)
FrameFits(r) ==
  /\ r.left \subseteq r.uses /\ r.uses \subseteq (r.file + 1)..FileCount
  /\ \A x \in r.inputs : savedVariables[x] # 0
  /\ r.step = "calling" => r.left = {}
  /\ r.step = "stat" => r.file # 0 /\ r.uses = {}
  /\ r.file # 0 => /\ r.assign = Nil
                   /\ 1 <= r.mtime /\ r.mtime <= version[r.file]
                   /\ r.step # "stat" => r.mtime <= r.version /\ importedFiles[r.file] <= r.version

(* Unless a call was given up, all that a nested import does not have left *)
(* has come, but for the one that it waits for; the innermost waits for    *)
(* none, or is about to import one.                                        *)
Chain(n, next) ==
  /\ \A i \in 1..Len(n) : FrameFits(n[i])
  /\ \A i, j \in 1..Len(n) : i < j => n[i].file < n[j].file
  /\ abandoned = {} =>
       \A i \in 1..Len(n) : \A f \in n[i].uses \ n[i].left :
         \/ importedFiles[f] # 0
         \/ IF i < Len(n) THEN n[i + 1].file = f ELSE f = next

NestedFits == Chain(nested, 0)

(* A request names what exists; one that the client waits for is that of   *)
(* the innermost import.  An answered one was saved, and what was saved    *)
(* since came from a call given up.                                        *)
CallFits(c) ==
  /\ c.context <=> c.number # 0
  /\ c.context => c.unknown = {} /\ \A x \in c.inputs : savedVariables[x] # 0
  /\ c.context /\ ~c.waited => c.number \in abandoned
  /\ c.context /\ abandoned = {} => c.lacks = {}
  /\ c.waited => /\ c.context /\ nested # <<>>
                 /\ nested[Len(nested)].step = "calling"
                 /\ c.file = nested[Len(nested)].file
                 /\ c.version = nested[Len(nested)].version
                 /\ c.uses = nested[Len(nested)].uses
                 /\ c.file # 0 => c.assign = Nil
  /\ c.waited /\ c.step = "answered" =>
       /\ c.assign \in Variables => savedVariables[c.assign] \in ({c.number} \cup abandoned) \ {0}
       /\ c.file # 0 => \/ importResolver[c.file].by \in abandoned
                        \/ importResolver[c.file].version = c.version

CallsFit ==
  /\ \A c \in rpcs : CallFits(c)
  /\ \A c, d \in rpcs : c.waited /\ d.waited => c = d

VariableFits(x) ==
  /\ savedVariables[x] # 0
  /\ \/ savedVariables[x] \in {latest[x]} \cup abandoned
     \/ \E c \in rpcs : /\ c.waited /\ c.step = "answered"
                        /\ c.assign = x /\ c.number = savedVariables[x]

FileFits(f) ==
  /\ importedFiles[f] <= version[f]
  /\ importedFiles[f] # 0 => \/ importResolver[f].by \in abandoned
                             \/ importResolver[f].version >= importedFiles[f]
  /\ abandoned = {} => importResolver[f].lacks = {}

SessionInv ==
  /\ Session!TypeOK
  /\ NestedFits
  /\ CallsFit
  /\ \A x \in variableNames : VariableFits(x)
  /\ \A f \in Session!Files : FileFits(f)
  /\ Session!InterpretersOutliveCalls

-----------------------------------------------------------------------------
(* What the chain of imports keeps when one is replaced, added or removed. *)
LEMMA FilesAreNumbers ==
  FileCount \in Nat /\ \A r \in Session!Frames : r.file \in Nat
  BY SessionAssumption DEF Session!SessionBounds, Session!Frames

LEMMA ReplaceInChain ==
  ASSUME NEW n \in Seq(Session!Frames), n # <<>>, Chain(n, 0),
         NEW e \in Session!Frames, NEW next, FrameFits(e), e.file = n[Len(n)].file,
         abandoned = {} => \A f \in e.uses \ e.left : importedFiles[f] # 0 \/ f = next
  PROVE  /\ Append(SubSeq(n, 1, Len(n) - 1), e) \in Seq(Session!Frames)
         /\ Chain(Append(SubSeq(n, 1, Len(n) - 1), e), next)
<1> DEFINE t == Append(SubSeq(n, 1, Len(n) - 1), e)
<1>1. /\ t \in Seq(Session!Frames) /\ Len(t) = Len(n) /\ t # <<>>
      /\ t[Len(n)] = e
      /\ \A i \in 1..(Len(n) - 1) : t[i] = n[i]
  BY Replaced
<1>2. Len(n) \in Nat \ {0}
  BY EmptySeq
<1> HIDE DEF t
<1>3. \A i \in 1..Len(t) : FrameFits(t[i])
  BY <1>1, <1>2 DEF Chain
<1>4. \A i \in 1..Len(n) : t[i].file = n[i].file
  BY <1>1, <1>2
<1>5. \A i, j \in 1..Len(t) : i < j => t[i].file < t[j].file
  BY <1>1, <1>4 DEF Chain
<1>6. abandoned = {} =>
        \A i \in 1..Len(t) : \A f \in t[i].uses \ t[i].left :
          \/ importedFiles[f] # 0
          \/ IF i < Len(t) THEN t[i + 1].file = f ELSE f = next
  <2> SUFFICES ASSUME abandoned = {}, NEW i \in 1..Len(n), NEW f \in t[i].uses \ t[i].left,
                      importedFiles[f] = 0
               PROVE  IF i < Len(n) THEN t[i + 1].file = f ELSE f = next
    BY <1>1
  <2>1. CASE i = Len(n)
    BY <1>1, <2>1
  <2>2. CASE i # Len(n)
    <3>1. i \in 1..(Len(n) - 1) /\ i < Len(n) /\ i + 1 \in 1..Len(n)
      BY <1>2, <2>2
    <3>2. n[i + 1].file = f
      BY <1>1, <3>1 DEF Chain
    <3> QED BY <1>4, <3>1, <3>2
  <2> QED BY <2>1, <2>2
<1> QED BY <1>1, <1>3, <1>5, <1>6 DEF Chain, t

LEMMA PushOnChain ==
  ASSUME NEW n \in Seq(Session!Frames), n # <<>>,
         NEW e \in Session!Frames, Chain(n, e.file), FrameFits(e),
         n[Len(n)].file < e.file, e.uses = {}
  PROVE  Append(n, e) \in Seq(Session!Frames) /\ Chain(Append(n, e), 0)
<1> DEFINE t == Append(n, e)
<1>1. /\ t \in Seq(Session!Frames) /\ Len(t) = Len(n) + 1
      /\ t[Len(n) + 1] = e
      /\ \A i \in 1..Len(n) : t[i] = n[i]
  BY Pushed
<1>2. Len(n) \in Nat \ {0} /\ \A i \in 1..Len(n) : n[i] \in Session!Frames
  BY EmptySeq, ElementOfSeq
<1> HIDE DEF t
<1>3. \A i \in 1..Len(t) : FrameFits(t[i])
  BY <1>1, <1>2 DEF Chain
<1>4. \A i \in 1..Len(n) : n[i].file < e.file
  <2> TAKE i \in 1..Len(n)
  <2>1. i = Len(n) \/ n[i].file < n[Len(n)].file
    BY <1>2 DEF Chain
  <2>2. n[i].file \in Nat /\ n[Len(n)].file \in Nat /\ e.file \in Nat
    BY <1>2, FilesAreNumbers
  <2> QED BY <2>1, <2>2
<1>5. \A i, j \in 1..Len(t) : i < j => t[i].file < t[j].file
  <2> TAKE i \in 1..Len(t), j \in 1..Len(t)
  <2>1. CASE j = Len(n) + 1
    BY <1>1, <1>2, <1>4, <2>1
  <2>2. CASE j # Len(n) + 1
    BY <1>1, <1>2, <2>2 DEF Chain
  <2> QED BY <2>1, <2>2
<1>6. abandoned = {} =>
        \A i \in 1..Len(t) : \A f \in t[i].uses \ t[i].left :
          \/ importedFiles[f] # 0
          \/ IF i < Len(t) THEN t[i + 1].file = f ELSE f = 0
  <2> SUFFICES ASSUME abandoned = {}, NEW i \in 1..Len(t), NEW f \in t[i].uses \ t[i].left,
                      importedFiles[f] = 0
               PROVE  i < Len(t) /\ t[i + 1].file = f
    OBVIOUS
  <2>1. i \in 1..Len(n) /\ i < Len(t)
    BY <1>1, <1>2
  <2>2. IF i < Len(n) THEN n[i + 1].file = f ELSE f = e.file
    BY <1>1, <2>1 DEF Chain
  <2>3. CASE i < Len(n)
    BY <1>1, <1>2, <2>1, <2>2, <2>3
  <2>4. CASE i = Len(n)
    BY <1>1, <1>2, <2>1, <2>2, <2>4
  <2> QED BY <1>2, <2>1, <2>3, <2>4
<1> QED BY <1>1, <1>3, <1>5, <1>6 DEF Chain, t

(* An import that returns is the one that was awaited, and no other's file *)
(* is the same.                                                            *)
LEMMA PopFromChain ==
  ASSUME NEW n \in Seq(Session!Frames), n # <<>>, Chain(n, 0)
  PROVE  LET t == SubSeq(n, 1, Len(n) - 1)
         IN  /\ t \in Seq(Session!Frames)
             /\ Chain(t, n[Len(n)].file)
             /\ \A i \in 1..Len(t) : t[i].file # n[Len(n)].file
<1> DEFINE t == SubSeq(n, 1, Len(n) - 1)
<1>1. /\ t \in Seq(Session!Frames) /\ Len(t) = Len(n) - 1
      /\ \A i \in 1..(Len(n) - 1) : t[i] = n[i]
  BY Popped
<1>2. Len(n) \in Nat \ {0} /\ \A i \in 1..Len(n) : n[i] \in Session!Frames
  BY EmptySeq, ElementOfSeq
<1> HIDE DEF t
<1>3. \A i \in 1..Len(t) : FrameFits(t[i])
  BY <1>1, <1>2 DEF Chain
<1>4. \A i, j \in 1..Len(t) : i < j => t[i].file < t[j].file
  BY <1>1, <1>2 DEF Chain
<1>5. abandoned = {} =>
        \A i \in 1..Len(t) : \A f \in t[i].uses \ t[i].left :
          \/ importedFiles[f] # 0
          \/ IF i < Len(t) THEN t[i + 1].file = f ELSE f = n[Len(n)].file
  <2> SUFFICES ASSUME abandoned = {}, NEW i \in 1..Len(t), NEW f \in t[i].uses \ t[i].left,
                      importedFiles[f] = 0
               PROVE  IF i < Len(t) THEN t[i + 1].file = f ELSE f = n[Len(n)].file
    OBVIOUS
  <2>1. i \in 1..Len(n) /\ i < Len(n) /\ i + 1 \in 1..Len(n) /\ t[i] = n[i]
    BY <1>1, <1>2
  <2>2. n[i + 1].file = f
    BY <2>1 DEF Chain
  <2> QED BY <1>1, <1>2, <2>1, <2>2
<1>6. \A i \in 1..Len(t) : t[i].file # n[Len(n)].file
  <2> TAKE i \in 1..Len(t)
  <2>1. i \in 1..Len(n) /\ Len(n) \in 1..Len(n) /\ i < Len(n) /\ t[i] = n[i]
    BY <1>1, <1>2
  <2>2. n[i].file < n[Len(n)].file
    BY <2>1 DEF Chain
  <2>3. n[i].file \in Nat /\ n[Len(n)].file \in Nat
    BY <1>2, <2>1, FilesAreNumbers
  <2> QED BY <2>1, <2>2, <2>3
<1> QED BY <1>1, <1>3, <1>4, <1>5, <1>6 DEF Chain, t

-----------------------------------------------------------------------------
(* Each step of the client.                                                *)
LEMMA InnerTyped ==
  ASSUME Session!TypeOK, nested # <<>>
  PROVE  /\ nested \in Seq(Session!Frames) /\ Len(nested) \in Nat \ {0}
         /\ Session!Inner = nested[Len(nested)]
         /\ Session!Inner \in Session!Frames
         /\ Session!Outer = SubSeq(nested, 1, Len(nested) - 1)
  BY EmptySeq, ElementOfSeq DEF Session!TypeOK, Session!Inner, Session!Outer

LEMMA InnerFits ==
  ASSUME SessionInv, nested # <<>>
  PROVE  /\ FrameFits(Session!Inner)
         /\ abandoned = {} =>
              \A f \in Session!Inner.uses \ Session!Inner.left : importedFiles[f] # 0
<1>1. Len(nested) \in 1..Len(nested) /\ Session!Inner = nested[Len(nested)]
  BY InnerTyped DEF SessionInv
<1>2. FrameFits(Session!Inner)
  BY <1>1 DEF SessionInv, NestedFits, Chain
<1>3. \A f \in Session!Files : f # 0
  BY FilesAreNumbers DEF Session!Files
<1>4. Session!Inner.uses \subseteq Session!Files
  BY InnerTyped DEF SessionInv, Session!Frames
<1> QED BY <1>1, <1>2, <1>3, <1>4 DEF SessionInv, NestedFits, Chain

(* As long as the client does not wait for a call, it may change what is   *)
(* nested.                                                                 *)
LEMMA NestedOnly ==
  ASSUME SessionInv, \A c \in rpcs : ~c.waited,
         UNCHANGED <<version, uses, variableNames, importedFiles, latest, abandoned, made,
                     rpcs, interpreters, savedVariables, importResolver>>,
         nested' \in Seq(Session!Frames), Chain(nested', 0)
  PROVE  SessionInv'
<1>1. Session!TypeOK'
  BY DEF SessionInv, Session!TypeOK
<1>2. NestedFits'
  BY DEF NestedFits, Chain, FrameFits
<1>3. CallsFit'
  BY DEF SessionInv, CallsFit, CallFits
<1>4. (\A x \in variableNames : VariableFits(x))' /\ (\A f \in Session!Files : FileFits(f))'
  BY DEF SessionInv, VariableFits, FileFits
<1>5. Session!InterpretersOutliveCalls'
  BY DEF SessionInv, Session!InterpretersOutliveCalls, Session!Interpreter
<1> QED BY <1>1, <1>2, <1>3, <1>4, <1>5 DEF SessionInv

LEMMA NoneWaited ==
  ASSUME SessionInv, nested = <<>> \/ Session!Inner.step # "calling"
  PROVE  \A c \in rpcs : ~c.waited
  BY DEF SessionInv, CallsFit, CallFits, Session!Inner

LEMMA EvaluateIsKept ==
  ASSUME SessionInv, Session!Evaluate
  PROVE  SessionInv'
<1>1. PICK code \in Session!Codes, x \in Variables, imports \in SUBSET Session!Files :
        nested' = <<[Session!Frame(0, "importing") EXCEPT
                       !.assign = Session!AssignTo(code, x), !.uses = imports,
                       !.left = imports, !.inputs = variableNames]>>
  BY DEF Session!Evaluate
<1> DEFINE r == [Session!Frame(0, "importing") EXCEPT
                   !.assign = Session!AssignTo(code, x), !.uses = imports,
                   !.left = imports, !.inputs = variableNames]
<1>2. Session!AssignTo(code, x) \in Variables \cup {Nil}
  BY DEF Session!AssignTo
<1>3. variableNames \subseteq Variables /\ 0 \in 0..FileCount
  BY FilesAreNumbers DEF SessionInv, Session!TypeOK
<1>4. /\ r.file = 0 /\ r.step = "importing" /\ r.uses = imports /\ r.left = imports
      /\ r.inputs = variableNames /\ r \in Session!Frames
  BY <1>2, <1>3 DEF Session!Frame, Session!Frames
<1>5. FrameFits(r)
  BY <1>4, FilesAreNumbers DEF FrameFits, SessionInv, VariableFits, Session!Files
<1> HIDE DEF r
<1>6. nested' = <<r>>
  BY <1>1 DEF r
<1>7. nested' \in Seq(Session!Frames) /\ Len(nested') = 1 /\ nested'[1] = r
  BY <1>4, <1>6
<1>8. Chain(nested', 0)
  BY <1>4, <1>5, <1>7 DEF Chain
<1>9. \A c \in rpcs : ~c.waited
  BY NoneWaited DEF Session!Evaluate
<1> QED BY <1>7, <1>8, <1>9, NestedOnly DEF Session!Evaluate, Session!server

LEMMA MaybeImportIsKept ==
  ASSUME SessionInv, NEW f \in Session!Files, Session!MaybeImport(f)
  PROVE  SessionInv'
<1>1. nested # <<>> /\ Session!Inner.step = "importing" /\ f \in Session!Inner.left
  BY DEF Session!MaybeImport, Session!At
<1> DEFINE inner == [Session!Inner EXCEPT !.left = @ \ {f}]
           rest == Append(Session!Outer, inner)
           e == [Session!Frame(f, "stat") EXCEPT !.mtime = version[f]]
<1>2. nested' = IF importedFiles[f] = version[f] THEN rest ELSE Append(rest, e)
  BY DEF Session!MaybeImport
<1>3. /\ FrameFits(Session!Inner) /\ Session!Inner \in Session!Frames
      /\ abandoned = {} =>
           \A g \in Session!Inner.uses \ Session!Inner.left : importedFiles[g] # 0
  BY <1>1, InnerFits, InnerTyped DEF SessionInv
<1>4. /\ inner \in Session!Frames /\ FrameFits(inner)
      /\ inner.file = nested[Len(nested)].file
      /\ inner.uses = Session!Inner.uses /\ inner.left = Session!Inner.left \ {f}
  BY <1>1, <1>3 DEF Session!Frames, FrameFits, Session!Inner
<1>5. version[f] \in Nat /\ version[f] # 0 /\ importedFiles[f] \in Nat
  BY DEF SessionInv, Session!TypeOK
<1>6. /\ e.file = f /\ e.step = "stat" /\ e.mtime = version[f] /\ e.uses = {} /\ e.left = {}
      /\ e.assign = Nil /\ e.inputs = {} /\ e \in Session!Frames
  BY <1>5, FilesAreNumbers DEF Session!Frame, Session!Frames, Session!Files
<1>7. FrameFits(e)
  BY <1>5, <1>6, FilesAreNumbers DEF FrameFits, Session!Files
<1>8. inner.file < f
  BY <1>1, <1>3, <1>4, FilesAreNumbers DEF FrameFits, Session!Files
<1> HIDE DEF inner, e
<1>9. nested \in Seq(Session!Frames) /\ Chain(nested, 0)
      /\ rest = Append(SubSeq(nested, 1, Len(nested) - 1), inner)
  BY DEF SessionInv, Session!TypeOK, NestedFits, Session!Outer
<1>10. CASE importedFiles[f] = version[f]
  <2>1. abandoned = {} => \A g \in inner.uses \ inner.left : importedFiles[g] # 0 \/ g = 0
    BY <1>3, <1>4, <1>5, <1>10
  <2>2. rest \in Seq(Session!Frames) /\ Chain(rest, 0)
    BY <1>1, <1>4, <1>9, <2>1, ReplaceInChain
  <2>3. nested' \in Seq(Session!Frames) /\ Chain(nested', 0)
    BY <1>2, <1>10, <2>2
  <2>4. \A c \in rpcs : ~c.waited
    BY <1>1, NoneWaited
  <2> QED BY <2>3, <2>4, NestedOnly DEF Session!MaybeImport, Session!server
<1>11. CASE importedFiles[f] # version[f]
  <2>1. abandoned = {} => \A g \in inner.uses \ inner.left : importedFiles[g] # 0 \/ g = f
    BY <1>3, <1>4
  <2>2. rest \in Seq(Session!Frames) /\ Chain(rest, f)
    BY <1>1, <1>4, <1>9, <2>1, ReplaceInChain
  <2>3. Len(rest) = Len(nested) /\ rest # <<>> /\ rest[Len(rest)] = inner
    BY <1>1, <1>4, <1>9, Replaced
  <2>4. Append(rest, e) \in Seq(Session!Frames) /\ Chain(Append(rest, e), 0)
    BY <1>6, <1>7, <1>8, <2>2, <2>3, PushOnChain
  <2>5. nested' \in Seq(Session!Frames) /\ Chain(nested', 0)
    BY <1>2, <1>11, <2>4
  <2>6. \A c \in rpcs : ~c.waited
    BY <1>1, NoneWaited
  <2> QED BY <2>5, <2>6, NestedOnly DEF Session!MaybeImport, Session!server
<1> QED BY <1>10, <1>11

LEMMA ReadFileIsKept ==
  ASSUME SessionInv, Session!ReadFile
  PROVE  SessionInv'
<1>1. nested # <<>> /\ Session!Inner.step = "stat"
  BY DEF Session!ReadFile, Session!At
<1> DEFINE g == Session!Inner.file
           e == [Session!Inner EXCEPT !.step = "importing", !.version = version[g],
                                      !.uses = uses[g], !.left = uses[g]]
<1>2. FrameFits(Session!Inner) /\ Session!Inner \in Session!Frames
  BY <1>1, InnerFits, InnerTyped DEF SessionInv
<1>3. g \in Session!Files
  BY <1>1, <1>2, FilesAreNumbers DEF FrameFits, Session!Frames, Session!Files
<1>4. /\ version[g] \in Nat /\ uses[g] \subseteq Session!Files
      /\ uses[g] \subseteq (g + 1)..FileCount
      /\ importedFiles[g] <= version[g]
  BY <1>3 DEF SessionInv, Session!TypeOK, Session!Texts, FileFits
<1>5. /\ e.file = g /\ e.step = "importing" /\ e.mtime = Session!Inner.mtime
      /\ e.version = version[g] /\ e.uses = uses[g] /\ e.left = uses[g]
      /\ e.inputs = Session!Inner.inputs /\ e.assign = Session!Inner.assign
      /\ e \in Session!Frames
  BY <1>2, <1>4 DEF Session!Frames
<1>6. FrameFits(e)
  BY <1>1, <1>2, <1>3, <1>4, <1>5 DEF FrameFits
<1>7. nested' = Append(Session!Outer, e)
  BY DEF Session!ReadFile
<1> HIDE DEF e
<1>8. nested \in Seq(Session!Frames) /\ Chain(nested, 0) /\ e.file = nested[Len(nested)].file
      /\ nested' = Append(SubSeq(nested, 1, Len(nested) - 1), e)
  BY <1>5, <1>7 DEF SessionInv, Session!TypeOK, NestedFits, Session!Outer, Session!Inner
<1>9. nested' \in Seq(Session!Frames) /\ Chain(nested', 0)
  BY <1>1, <1>5, <1>6, <1>8, ReplaceInChain
<1>10. \A c \in rpcs : ~c.waited
  BY <1>1, NoneWaited
<1> QED BY <1>9, <1>10, NestedOnly DEF Session!ReadFile, Session!server

LEMMA EditIsKept ==
  ASSUME SessionInv, NEW f \in Session!Files, Session!Edit(f)
  PROVE  SessionInv'
<1>1. PICK text \in Session!Texts(f) : uses' = [uses EXCEPT ![f] = text]
  BY DEF Session!Edit
<1>2. /\ version' = [version EXCEPT ![f] = @ + 1]
      /\ UNCHANGED <<nested, variableNames, importedFiles, latest, abandoned, made, rpcs,
                     interpreters, savedVariables, importResolver>>
  BY DEF Session!Edit, Session!client, Session!server
<1>3. \A g \in Session!Files : version[g] \in Nat /\ version'[g] \in Nat /\ version'[g] # 0
                               /\ version[g] <= version'[g]
  BY <1>2 DEF SessionInv, Session!TypeOK
<1>4. \A g \in Session!Files : uses'[g] \in Session!Texts(g)
  BY <1>1 DEF SessionInv, Session!TypeOK
<1>5. \A g \in Session!Files : Session!Texts(g) \subseteq SUBSET Session!Files
  BY FilesAreNumbers DEF Session!Texts, Session!Files
<1>6. Session!TypeOK'
  BY <1>1, <1>2, <1>3, <1>4, <1>5 DEF SessionInv, Session!TypeOK
<1>7. \A i \in 1..Len(nested) : FrameFits(nested[i])'
  <2> TAKE i \in 1..Len(nested)
  <2>1. FrameFits(nested[i]) /\ nested[i] \in Session!Frames
    BY ElementOfSeq DEF SessionInv, Session!TypeOK, NestedFits, Chain
  <2>2. nested[i].file # 0 => nested[i].file \in Session!Files
    BY <2>1, FilesAreNumbers DEF Session!Frames, Session!Files
  <2>3. nested[i].mtime \in Nat
    BY <2>1 DEF Session!Frames
  <2>4. nested[i].file # 0 => nested[i].mtime <= version'[nested[i].file]
    BY <1>3, <2>1, <2>2, <2>3 DEF FrameFits
  <2> QED BY <1>2, <2>1, <2>4 DEF FrameFits
<1>8. NestedFits'
  BY <1>2, <1>7 DEF SessionInv, NestedFits, Chain
<1>9. CallsFit'
  BY <1>2 DEF SessionInv, CallsFit, CallFits
<1>10. (\A x \in variableNames : VariableFits(x))'
  BY <1>2 DEF SessionInv, VariableFits
<1>11. (\A g \in Session!Files : FileFits(g))'
  <2>1. \A g \in Session!Files : importedFiles[g] \in Nat /\ importedFiles[g] <= version'[g]
    BY <1>3 DEF SessionInv, Session!TypeOK, FileFits
  <2> QED BY <1>2, <2>1 DEF SessionInv, FileFits
<1>12. Session!InterpretersOutliveCalls'
  BY <1>2 DEF SessionInv, Session!InterpretersOutliveCalls, Session!Interpreter
<1> QED BY <1>6, <1>8, <1>9, <1>10, <1>11, <1>12 DEF SessionInv

(* A request that is added or goes through: variables fit as long as what  *)
(* was answered and not yet taken stays.                                   *)
LEMMA OthersKeep ==
  ASSUME SessionInv, UNCHANGED <<latest, variableNames, importedFiles, version, abandoned,
                                 savedVariables, importResolver>>,
         \A c \in rpcs : c.waited /\ c.step = "answered" => c \in rpcs'
  PROVE  (\A x \in variableNames : VariableFits(x))' /\ (\A f \in Session!Files : FileFits(f))'
<1>1. (\A x \in variableNames : VariableFits(x))'
  <2> SUFFICES ASSUME NEW x \in variableNames
               PROVE  VariableFits(x)'
    OBVIOUS
  <2>1. VariableFits(x)
    BY DEF SessionInv
  <2> QED BY <2>1 DEF VariableFits
<1>2. (\A f \in Session!Files : FileFits(f))'
  BY DEF SessionInv, FileFits
<1> QED BY <1>1, <1>2

LEMMA CallEvaluateIsKept ==
  ASSUME SessionInv, Session!CallEvaluate
  PROVE  SessionInv'
<1>1. nested # <<>> /\ Session!Inner.step = "importing" /\ Session!Inner.left = {}
  BY DEF Session!CallEvaluate, Session!At
<1> DEFINE e == [Session!Inner EXCEPT !.step = "calling"]
<1>0. PICK c : c = Session!Request(made + 1, Session!Inner)
  OBVIOUS
<1>2. /\ made' = made + 1
      /\ rpcs' = rpcs \cup {c}
      /\ nested' = Append(Session!Outer, e)
      /\ UNCHANGED <<version, uses, variableNames, importedFiles, latest, abandoned,
                     interpreters, savedVariables, importResolver>>
  BY <1>0 DEF Session!CallEvaluate, Session!server
<1>3. /\ FrameFits(Session!Inner) /\ Session!Inner \in Session!Frames
      /\ abandoned = {} =>
           \A g \in Session!Inner.uses \ Session!Inner.left : importedFiles[g] # 0
  BY <1>1, InnerFits, InnerTyped DEF SessionInv
<1>4. /\ e \in Session!Frames /\ e.step = "calling" /\ e.file = Session!Inner.file
      /\ e.version = Session!Inner.version /\ e.uses = Session!Inner.uses
      /\ e.left = Session!Inner.left /\ e.mtime = Session!Inner.mtime
      /\ e.inputs = Session!Inner.inputs /\ e.assign = Session!Inner.assign
  BY <1>3 DEF Session!Frames
<1>5. FrameFits(e)
  BY <1>1, <1>3, <1>4 DEF FrameFits
<1>6. made + 1 \in Nat /\ made + 1 # 0
  BY DEF SessionInv, Session!TypeOK
<1>7. /\ c.number = made + 1 /\ c.context = TRUE /\ c.waited = TRUE /\ c.step = "sent"
      /\ c.file = e.file /\ c.version = e.version /\ c.uses = e.uses
      /\ c.inputs = e.inputs /\ c.assign = e.assign /\ c.unknown = {} /\ c.lacks = {}
      /\ c \in Session!Requests
  BY <1>0, <1>3, <1>4, <1>6 DEF Session!Request, Session!Requests, Session!Frames
<1> HIDE DEF e
<1>8. nested \in Seq(Session!Frames) /\ Chain(nested, 0) /\ e.file = nested[Len(nested)].file
      /\ nested' = Append(SubSeq(nested, 1, Len(nested) - 1), e)
  BY <1>2, <1>4 DEF SessionInv, Session!TypeOK, NestedFits, Session!Outer, Session!Inner
<1>9. abandoned = {} => \A g \in e.uses \ e.left : importedFiles[g] # 0 \/ g = 0
  BY <1>3, <1>4
<1>10. nested' \in Seq(Session!Frames) /\ Chain(nested', 0)
  BY <1>1, <1>4, <1>5, <1>8, <1>9, ReplaceInChain
<1>11. nested' # <<>> /\ nested'[Len(nested')] = e
  BY <1>1, <1>4, <1>8, Replaced
<1>12. Session!TypeOK'
  BY <1>2, <1>6, <1>7, <1>10 DEF SessionInv, Session!TypeOK
<1>13. NestedFits'
  BY <1>2, <1>10 DEF NestedFits, Chain, FrameFits
<1>14. \A d \in rpcs : ~d.waited
  BY <1>1, NoneWaited
<1>15. CallFits(c)'
  BY <1>2, <1>3, <1>4, <1>6, <1>7, <1>11 DEF CallFits, FrameFits
<1>16. \A d \in rpcs : CallFits(d)'
  BY <1>2, <1>14 DEF SessionInv, CallsFit, CallFits
<1>17. CallsFit'
  BY <1>2, <1>14, <1>15, <1>16 DEF CallsFit
<1>18. (\A x \in variableNames : VariableFits(x))' /\ (\A f \in Session!Files : FileFits(f))'
  BY <1>2, OthersKeep
<1>19. Session!InterpretersOutliveCalls'
  BY <1>2, <1>7 DEF SessionInv, Session!InterpretersOutliveCalls, Session!Interpreter
<1> QED BY <1>12, <1>13, <1>17, <1>18, <1>19 DEF SessionInv

LEMMA OtherClientIsKept ==
  ASSUME SessionInv, Session!OtherClient
  PROVE  SessionInv'
<1>1. PICK inputs \in SUBSET Variables :
        rpcs' = rpcs \cup {[Session!Request(0, [Session!Frame(0, "calling") EXCEPT
                                                  !.inputs = inputs])
                              EXCEPT !.context = FALSE, !.waited = FALSE]}
  BY DEF Session!OtherClient
<1> DEFINE r == [Session!Frame(0, "calling") EXCEPT !.inputs = inputs]
           q == Session!Request(0, r)
           c == [q EXCEPT !.context = FALSE, !.waited = FALSE]
<1>2. UNCHANGED <<version, uses, nested, variableNames, importedFiles, latest, abandoned,
                  made, interpreters, savedVariables, importResolver>>
  BY DEF Session!OtherClient, Session!client, Session!server
<1>3. /\ c.number = 0 /\ c.context = FALSE /\ c.waited = FALSE /\ c.step = "sent"
      /\ c \in Session!Requests
  <2>1. r.file = 0 /\ r.version = 0 /\ r.uses = {} /\ r.assign = Nil /\ r.inputs = inputs
    BY DEF Session!Frame
  <2> HIDE DEF r
  <2>2. 0 \in 0..FileCount /\ 0 \in Nat
    BY FilesAreNumbers
  <2>3. /\ q.number = 0 /\ q.step = "sent" /\ q \in Session!Requests
    BY <2>1, <2>2 DEF Session!Request, Session!Requests
  <2> HIDE DEF q
  <2> QED BY <2>3 DEF Session!Requests
<1> HIDE DEF c
<1>4. rpcs' = rpcs \cup {c}
  BY <1>1 DEF c
<1>5. Session!TypeOK'
  BY <1>2, <1>3, <1>4 DEF SessionInv, Session!TypeOK
<1>6. NestedFits'
  BY <1>2 DEF SessionInv, NestedFits, Chain, FrameFits
<1>7. CallFits(c)'
  BY <1>3 DEF CallFits
<1>8. \A d \in rpcs : CallFits(d)'
  BY <1>2 DEF SessionInv, CallsFit, CallFits
<1>9. CallsFit'
  BY <1>3, <1>4, <1>7, <1>8 DEF SessionInv, CallsFit
<1>10. (\A x \in variableNames : VariableFits(x))' /\ (\A f \in Session!Files : FileFits(f))'
  BY <1>2, <1>4, OthersKeep
<1>11. Session!InterpretersOutliveCalls'
  BY <1>2, <1>3, <1>4 DEF SessionInv, Session!InterpretersOutliveCalls, Session!Interpreter
<1> QED BY <1>5, <1>6, <1>9, <1>10, <1>11 DEF SessionInv

(* What the server saved of the answer is what the client comes to believe.*)
LEMMA SucceedIsKept ==
  ASSUME SessionInv, NEW call \in rpcs, Session!Succeed(call)
  PROVE  SessionInv'
<1>1. /\ call.waited /\ call.step = "answered"
      /\ nested' = Session!Outer /\ rpcs' = rpcs \ {call}
      /\ UNCHANGED <<version, uses, abandoned, made, interpreters, savedVariables,
                     importResolver>>
  BY DEF Session!Succeed, Session!server
<1>2. CallFits(call) /\ call \in Session!Requests
  BY DEF SessionInv, CallsFit, Session!TypeOK
<1>3. PICK g : g = Session!Inner.file
  OBVIOUS
<1>4. PICK mtime : mtime = Session!Inner.mtime
  OBVIOUS
<1>5. /\ nested # <<>> /\ nested \in Seq(Session!Frames) /\ Chain(nested, 0)
      /\ call.file = g /\ call.context /\ call.version = Session!Inner.version
      /\ Session!Inner.step = "calling" /\ g = nested[Len(nested)].file
      /\ nested' = SubSeq(nested, 1, Len(nested) - 1)
  BY <1>1, <1>2, <1>3 DEF CallFits, Session!Inner, Session!Outer, SessionInv, Session!TypeOK,
                          NestedFits
<1>6. FrameFits(Session!Inner) /\ Session!Inner \in Session!Frames
  BY <1>5, InnerFits, InnerTyped DEF SessionInv
<1>7. /\ g # 0 => g \in Session!Files /\ call.assign = Nil
      /\ mtime \in Nat /\ call.version \in Nat
      /\ g # 0 => mtime # 0 /\ mtime <= version[g] /\ mtime <= call.version
  <2>1. g \in 0..FileCount /\ mtime \in Nat /\ call.version \in Nat
    BY <1>2, <1>3, <1>4, <1>6 DEF Session!Frames, Session!Requests
  <2>2. g # 0 => g \in Session!Files
    BY <2>1, FilesAreNumbers DEF Session!Files
  <2>3. g # 0 => call.assign = Nil
    BY <1>1, <1>2, <1>5 DEF CallFits
  <2>4. g # 0 => 1 <= mtime /\ mtime <= version[g] /\ mtime <= call.version
    BY <1>3, <1>4, <1>5, <1>6 DEF FrameFits
  <2> QED BY <2>1, <2>2, <2>3, <2>4
<1>8. /\ nested' \in Seq(Session!Frames)
      /\ Chain(nested', g)
      /\ \A i \in 1..Len(nested') : nested'[i].file # g
  BY <1>5, PopFromChain
<1>9. \A c \in rpcs' : ~c.waited
  BY <1>1 DEF SessionInv, CallsFit
<1>10. CallsFit'
  <2>1. \A c \in rpcs' : CallFits(c)'
    BY <1>1, <1>9 DEF SessionInv, CallsFit, CallFits
  <2> QED BY <1>9, <2>1 DEF CallsFit
<1>11. Session!InterpretersOutliveCalls'
  <2>1. \A c \in rpcs' : c \in rpcs
    BY <1>1
  <2>2. \A c \in rpcs : c.step = "evaluating" => c \in rpcs'
    BY <1>1
  <2> QED BY <1>1, <2>1, <2>2
          DEF SessionInv, Session!InterpretersOutliveCalls, Session!Interpreter
<1>12. CASE Session!Evaluated(call)
  <2>1. /\ g = 0 /\ importedFiles' = importedFiles
        /\ variableNames' = variableNames \cup ({call.assign} \ {Nil})
        /\ latest' = [x \in Variables |-> IF x = call.assign THEN call.number ELSE latest[x]]
    BY <1>3, <1>12 DEF Session!Evaluated
  <2>2. variableNames' \subseteq Variables \ {Nil}
    BY <1>2, <2>1 DEF SessionInv, Session!TypeOK, Session!Requests
  <2>3. Session!TypeOK'
    BY <1>1, <1>8, <2>1, <2>2 DEF SessionInv, Session!TypeOK
  <2>4. NestedFits'
    BY <1>1, <1>8, <2>1 DEF NestedFits, Chain, FrameFits
  <2>5. (\A x \in variableNames : VariableFits(x))'
    <3> SUFFICES ASSUME NEW x \in variableNames'
                 PROVE  VariableFits(x)'
      OBVIOUS
    <3>1. x \in Variables /\ x # Nil
      BY <2>2
    <3>2. CASE x = call.assign
      <4>1. latest'[x] = call.number
        BY <2>1, <3>1, <3>2
      <4>2. savedVariables[x] \in ({call.number} \cup abandoned) \ {0}
        BY <1>1, <1>2, <3>1, <3>2 DEF CallFits
      <4> QED BY <1>1, <4>1, <4>2 DEF VariableFits
    <3>3. CASE x # call.assign
      <4>1. x \in variableNames /\ latest'[x] = latest[x]
        BY <2>1, <3>1, <3>3
      <4>2. VariableFits(x)
        BY <4>1 DEF SessionInv
      <4>3. savedVariables[x] \in {latest[x]} \cup abandoned
        BY <1>1, <3>3, <4>2 DEF VariableFits, SessionInv, CallsFit
      <4> QED BY <1>1, <4>1, <4>2, <4>3 DEF VariableFits
    <3> QED BY <3>2, <3>3
  <2>6. (\A f \in Session!Files : FileFits(f))'
    BY <1>1, <2>1 DEF SessionInv, FileFits
  <2> QED BY <1>10, <1>11, <2>3, <2>4, <2>5, <2>6 DEF SessionInv
<1>13. CASE Session!Imported(call)
  <2>1. /\ g # 0 /\ importedFiles' = [importedFiles EXCEPT ![g] = mtime]
        /\ UNCHANGED <<variableNames, latest>>
    BY <1>3, <1>4, <1>13 DEF Session!Imported, Session!Recorded
  <2>2. /\ importedFiles' \in [Session!Files -> Nat] /\ importedFiles'[g] = mtime
        /\ \A f \in Session!Files : f # g => importedFiles'[f] = importedFiles[f]
    BY <1>7, <2>1 DEF SessionInv, Session!TypeOK
  <2>3. Session!TypeOK'
    BY <1>1, <1>8, <2>1, <2>2 DEF SessionInv, Session!TypeOK
  <2>4. \A i \in 1..Len(nested') : nested'[i] \in Session!Frames
    BY <1>8, ElementOfSeq
  <2>5. \A i \in 1..Len(nested') : (FrameFits(nested[i]))'
    <3> TAKE i \in 1..Len(nested')
    <3>1. nested'[i].file \in 0..FileCount /\ nested'[i].file # g /\ FrameFits(nested'[i])
      BY <1>8, <2>4 DEF Session!Frames, Chain
    <3>2. nested'[i].file # 0 =>
            importedFiles'[nested'[i].file] = importedFiles[nested'[i].file]
      BY <2>2, <3>1, FilesAreNumbers DEF Session!Files
    <3> QED BY <1>1, <3>1, <3>2 DEF FrameFits
  <2>6. abandoned = {} =>
          \A i \in 1..Len(nested') : \A f \in nested'[i].uses \ nested'[i].left :
            importedFiles'[f] # 0 \/ IF i < Len(nested') THEN nested'[i + 1].file = f ELSE f = 0
    <3> SUFFICES ASSUME abandoned = {}, NEW i \in 1..Len(nested'),
                        NEW f \in nested'[i].uses \ nested'[i].left, importedFiles'[f] = 0
                 PROVE  IF i < Len(nested') THEN nested'[i + 1].file = f ELSE f = 0
      OBVIOUS
    <3>1. f \in Session!Files
      BY <2>4 DEF Session!Frames
    <3>2. f # g /\ importedFiles[f] = 0
      BY <1>7, <2>1, <2>2, <3>1
    <3> QED BY <1>8, <3>2 DEF Chain
  <2>7. NestedFits'
    BY <1>1, <1>8, <2>5, <2>6 DEF NestedFits, Chain
  <2>8. (\A x \in variableNames : VariableFits(x))'
    <3> SUFFICES ASSUME NEW x \in variableNames
                 PROVE  VariableFits(x)'
      BY <2>1
    <3>1. VariableFits(x) /\ x # Nil
      BY DEF SessionInv, Session!TypeOK
    <3>2. savedVariables[x] \in {latest[x]} \cup abandoned
      BY <1>1, <1>7, <2>1, <3>1 DEF VariableFits, SessionInv, CallsFit
    <3> QED BY <1>1, <2>1, <3>1, <3>2 DEF VariableFits
  <2>9. (\A f \in Session!Files : FileFits(f))'
    <3> SUFFICES ASSUME NEW f \in Session!Files
                 PROVE  FileFits(f)'
      OBVIOUS
    <3>1. FileFits(f) /\ importResolver[f].version \in Nat
      BY DEF SessionInv, Session!TypeOK, Session!Mappings
    <3>2. CASE f # g
      BY <1>1, <2>2, <3>1, <3>2 DEF FileFits
    <3>3. CASE f = g
      <4>1. importResolver[g].by \in abandoned \/ importResolver[g].version = call.version
        BY <1>1, <1>2, <1>5, <2>1 DEF CallFits
      <4> QED BY <1>1, <1>7, <2>1, <2>2, <3>1, <3>3, <4>1 DEF FileFits
    <3> QED BY <3>2, <3>3
  <2> QED BY <1>10, <1>11, <2>3, <2>7, <2>8, <2>9 DEF SessionInv
<1> QED BY <1>12, <1>13 DEF Session!Succeed

(* What the client gives up, it stops to believe.                          *)
LEMMA FailIsKept ==
  ASSUME SessionInv, NEW call \in rpcs, Session!Fail(call)
  PROVE  SessionInv'
<1>1. /\ call.waited
      /\ abandoned' = abandoned \cup {call.number}
      /\ nested' = Session!Outer
      /\ UNCHANGED <<version, uses, variableNames, importedFiles, latest, made, interpreters,
                     savedVariables, importResolver>>
  BY DEF Session!Fail, Session!server
<1>2. CallFits(call) /\ call \in Session!Requests
  BY DEF SessionInv, CallsFit, Session!TypeOK
<1>3. PICK d : d = [call EXCEPT !.waited = FALSE]
  OBVIOUS
<1>4. /\ d \in Session!Requests /\ d.waited = FALSE
      /\ d.number = call.number /\ d.context = call.context /\ d.step = call.step
      /\ d.inputs = call.inputs /\ d.unknown = call.unknown
  BY <1>2, <1>3 DEF Session!Requests
<1>5. \/ rpcs' = (rpcs \ {call}) \cup {d}
      \/ rpcs' = rpcs \ {call} /\ call.step # "evaluating"
  BY <1>3, Zenon DEF Session!Fail
<1>6. /\ nested # <<>> /\ nested \in Seq(Session!Frames) /\ Chain(nested, 0)
      /\ nested' = SubSeq(nested, 1, Len(nested) - 1)
  BY <1>1, <1>2 DEF CallFits, Session!Outer, SessionInv, Session!TypeOK, NestedFits
<1>7. nested' \in Seq(Session!Frames) /\ Chain(nested', nested[Len(nested)].file)
  BY <1>6, PopFromChain
<1>8. Session!TypeOK'
  BY <1>1, <1>4, <1>5, <1>7 DEF SessionInv, Session!TypeOK
<1>9. NestedFits'
  BY <1>1, <1>7 DEF NestedFits, Chain, FrameFits
<1>10. \A c \in rpcs \ {call} : ~c.waited
  BY <1>1 DEF SessionInv, CallsFit
<1>11. CallsFit'
  <2>1. \A c \in rpcs \ {call} : CallFits(c)'
    BY <1>1, <1>10 DEF SessionInv, CallsFit, CallFits
  <2>2. CallFits(d)'
    BY <1>1, <1>2, <1>4 DEF CallFits
  <2> QED BY <1>4, <1>5, <1>10, <2>1, <2>2 DEF CallsFit
<1>12. (\A x \in variableNames : VariableFits(x))'
  <2> SUFFICES ASSUME NEW x \in variableNames
               PROVE  VariableFits(x)'
    BY <1>1
  <2>1. VariableFits(x)
    BY DEF SessionInv
  <2>2. savedVariables[x] \in {latest[x]} \cup abandoned'
    BY <1>1, <2>1 DEF VariableFits, SessionInv, CallsFit
  <2> QED BY <1>1, <2>1, <2>2 DEF VariableFits
<1>13. (\A f \in Session!Files : FileFits(f))'
  BY <1>1 DEF SessionInv, FileFits
<1>14. Session!InterpretersOutliveCalls'
  <2>1. \A c \in rpcs' : c \in rpcs \/ c = d
    BY <1>5
  <2>2. \A c \in rpcs' : c.step = "evaluating" => Session!Interpreter(c) \in interpreters
    BY <1>4, <2>1 DEF SessionInv, Session!InterpretersOutliveCalls, Session!Interpreter
  <2>3. \A c \in rpcs : ~c.context => c \in rpcs'
    BY <1>1, <1>2, <1>5 DEF CallFits
  <2> QED BY <1>1, <2>2, <2>3 DEF SessionInv, Session!InterpretersOutliveCalls,
                                 Session!Interpreter
<1> QED BY <1>8, <1>9, <1>11, <1>12, <1>13, <1>14 DEF SessionInv

-----------------------------------------------------------------------------
(* Each step of the server.                                                *)

(* Every name in a request of the client exists, and, as long as it gave   *)
(* up no call, every file that it imports is mapped.                       *)
LEMMA AllIsFound ==
  ASSUME SessionInv, NEW call \in rpcs, call.context
  PROVE  /\ Session!NoSuchVariable(call) = {}
         /\ abandoned = {} => Session!NotMapped(call) = {}
<1>1. CallFits(call) /\ call \in Session!Requests
  BY DEF SessionInv, CallsFit, Session!TypeOK
<1>2. Session!NoSuchVariable(call) = {}
  BY <1>1 DEF Session!NoSuchVariable, CallFits
<1>3. ASSUME abandoned = {}, NEW f \in call.uses
      PROVE  importResolver[f].version # 0
  <2>1. /\ call.waited /\ nested # <<>> /\ Session!Inner.step = "calling"
        /\ call.uses = Session!Inner.uses
    BY <1>1, <1>3 DEF CallFits, Session!Inner
  <2>2. FrameFits(Session!Inner) /\ importedFiles[f] # 0
    BY <1>3, <2>1, InnerFits DEF FrameFits
  <2>3. f \in Session!Files
    BY <1>1 DEF Session!Requests
  <2>4. FileFits(f) /\ importedFiles[f] \in Nat /\ importResolver[f].version \in Nat
    BY <2>3 DEF SessionInv, Session!TypeOK, Session!Mappings
  <2>5. importResolver[f].version >= importedFiles[f]
    BY <1>3, <2>2, <2>4 DEF FileFits
  <2> QED BY <2>2, <2>4, <2>5
<1> QED BY <1>2, <1>3 DEF Session!NotMapped

(* The result is saved under the number of its call, whoever still waits.  *)
LEMMA AsyncDoneIsKept ==
  ASSUME SessionInv, NEW old \in rpcs, old.step # "answered",
         NEW call \in Session!Requests,
         call.number = old.number, call.context = old.context, call.waited = old.waited,
         call.file = old.file, call.version = old.version, call.uses = old.uses,
         call.assign = old.assign, call.inputs = old.inputs,
         call.context => call.unknown = {},
         call.context /\ abandoned = {} => call.lacks = {},
         Session!AsyncDone(call),
         UNCHANGED <<version, uses, nested, variableNames, importedFiles, latest, abandoned,
                     made>>
  PROVE  SessionInv'
<1>1. CallFits(old) /\ \A c \in rpcs : CallFits(c) /\ c \in Session!Requests
  BY DEF SessionInv, CallsFit, Session!TypeOK
<1>2. PICK a : a = [call EXCEPT !.step = "answered"]
  OBVIOUS
<1>3. /\ a \in Session!Requests /\ a.step = "answered"
      /\ a.number = call.number /\ a.context = call.context /\ a.waited = call.waited
      /\ a.file = call.file /\ a.version = call.version /\ a.uses = call.uses
      /\ a.assign = call.assign /\ a.inputs = call.inputs /\ a.unknown = call.unknown
      /\ a.lacks = call.lacks
  BY <1>2 DEF Session!Requests
<1>4. rpcs' = {c \in rpcs : c.number # call.number} \cup (IF call.waited THEN {a} ELSE {})
  BY <1>2 DEF Session!AsyncDone
<1>5. interpreters' = IF ~call.context THEN interpreters \ {"of call"}
                                       ELSE interpreters \cup {"of context"}
  BY DEF Session!AsyncDone, Session!DeletesInterpreter, Session!Interpreter
<1>6. /\ savedVariables' \in [Variables -> Nat]
      /\ \A x \in Variables : savedVariables'[x] = IF call.context /\ x = call.assign
                                                   THEN call.number ELSE savedVariables[x]
  BY DEF Session!AsyncDone, Session!MaybeSaveResult, SessionInv, Session!TypeOK,
         Session!Requests
<1>7. PICK m : m = [version |-> call.version, by |-> call.number, lacks |-> call.lacks]
  OBVIOUS
<1>8. /\ m.version = call.version /\ m.by = call.number /\ m.lacks = call.lacks
      /\ m \in Session!Mappings
  BY <1>7 DEF Session!Mappings, Session!Requests
<1>9. importResolver' = [f \in Session!Files |-> IF call.context /\ f = call.file
                                                 THEN m ELSE importResolver[f]]
  BY <1>7 DEF Session!AsyncDone, Session!MaybeSaveResult
<1>10. importResolver' \in [Session!Files -> Session!Mappings]
  BY <1>8, <1>9 DEF SessionInv, Session!TypeOK
<1>11. call.context <=> call.number # 0
  BY <1>1 DEF CallFits
<1>12. \A x \in Variables : savedVariables[x] # 0 => savedVariables'[x] # 0
  BY <1>6, <1>11
<1>13. call.context /\ ~call.waited => call.number \in abandoned
  BY <1>1 DEF CallFits
<1>14. Session!TypeOK'
  BY <1>3, <1>4, <1>6, <1>10 DEF SessionInv, Session!TypeOK
<1>15. NestedFits'
  <2>1. \A i \in 1..Len(nested) : FrameFits(nested[i])'
    <3> TAKE i \in 1..Len(nested)
    <3>1. FrameFits(nested[i]) /\ nested[i].inputs \subseteq Variables
      <4>1. nested[i] \in Session!Frames
        BY ElementOfSeq DEF SessionInv, Session!TypeOK
      <4>2. FrameFits(nested[i])
        BY DEF SessionInv, NestedFits, Chain
      <4> QED BY <4>1, <4>2 DEF Session!Frames
    <3>2. \A x \in nested[i].inputs : savedVariables'[x] # 0
      BY <1>12, <3>1 DEF FrameFits
    <3> QED BY <3>1, <3>2 DEF FrameFits
  <2> QED BY <2>1 DEF SessionInv, NestedFits, Chain
<1>16. \A c \in rpcs : c.number # call.number /\ c.waited => ~call.waited
  BY DEF SessionInv, CallsFit
<1>17. \A c \in rpcs : c.number # call.number => CallFits(c)'
  <2> TAKE c \in rpcs
  <2> HAVE c.number # call.number
  <2>1. CallFits(c) /\ c.inputs \subseteq Variables /\ c.file \in 0..FileCount
    BY <1>1 DEF Session!Requests
  <2>2. c.context => \A x \in c.inputs : savedVariables'[x] # 0
    BY <1>12, <2>1 DEF CallFits
  <2>3. c.waited /\ c.step = "answered" /\ c.assign \in Variables =>
          savedVariables'[c.assign] \in ({c.number} \cup abandoned) \ {0}
    BY <1>6, <1>11, <1>13, <1>16, <2>1 DEF CallFits
  <2>4. c.waited /\ c.step = "answered" /\ c.file # 0 =>
          \/ importResolver'[c.file].by \in abandoned
          \/ importResolver'[c.file].version = c.version
    <3> SUFFICES ASSUME c.waited, c.step = "answered", c.file # 0
                 PROVE  \/ importResolver'[c.file].by \in abandoned
                        \/ importResolver'[c.file].version = c.version
      OBVIOUS
    <3>1. c.file \in Session!Files
      BY <2>1, FilesAreNumbers DEF Session!Files
    <3>2. CASE call.context /\ c.file = call.file
      BY <1>8, <1>9, <1>13, <1>16, <3>1, <3>2
    <3>3. CASE ~(call.context /\ c.file = call.file)
      BY <1>9, <2>1, <3>1, <3>3 DEF CallFits
    <3> QED BY <3>2, <3>3
  <2> QED BY <2>1, <2>2, <2>3, <2>4 DEF CallFits
<1>18. call.waited => CallFits(a)'
  <2> HAVE call.waited
  <2>1. CallFits(old) /\ call.context /\ call.inputs \subseteq Variables
        /\ call.file \in 0..FileCount
    BY <1>1 DEF CallFits, Session!Requests
  <2>2. \A x \in a.inputs : savedVariables'[x] # 0
    BY <1>3, <1>12, <2>1 DEF CallFits
  <2>3. a.assign \in Variables => savedVariables'[a.assign] \in ({a.number} \cup abandoned) \ {0}
    BY <1>3, <1>6, <1>11, <2>1
  <2>4. a.file # 0 => importResolver'[a.file].version = a.version
    <3> HAVE a.file # 0
    <3>1. a.file \in Session!Files
      BY <1>3, <2>1, FilesAreNumbers DEF Session!Files
    <3> QED BY <1>3, <1>8, <1>9, <2>1, <3>1
  <2> QED BY <1>3, <1>11, <2>1, <2>2, <2>3, <2>4 DEF CallFits
<1>19. CallsFit'
  <2>1. \A c \in rpcs' : CallFits(c)'
    BY <1>4, <1>17, <1>18
  <2>2. \A c, d \in rpcs' : c.waited /\ d.waited => c = d
    BY <1>4, <1>16 DEF SessionInv, CallsFit
  <2> QED BY <2>1, <2>2 DEF CallsFit
<1>20. (\A x \in variableNames : VariableFits(x))'
  <2> SUFFICES ASSUME NEW x \in variableNames
               PROVE  VariableFits(x)'
    OBVIOUS
  <2>1. VariableFits(x) /\ x \in Variables
    BY DEF SessionInv, Session!TypeOK
  <2>2. savedVariables'[x] # 0
    BY <1>12, <2>1 DEF VariableFits
  <2>3. CASE call.context /\ x = call.assign
    <3>1. savedVariables'[x] = call.number
      BY <1>6, <2>1, <2>3
    <3>2. CASE call.waited
      <4>1. a \in rpcs' /\ a.waited /\ a.step = "answered" /\ a.assign = x /\ a.number = call.number
        BY <1>3, <1>4, <2>3, <3>2
      <4> QED BY <2>2, <3>1, <4>1 DEF VariableFits
    <3>3. CASE ~call.waited
      BY <1>13, <2>2, <2>3, <3>1, <3>3 DEF VariableFits
    <3> QED BY <3>2, <3>3
  <2>4. CASE ~(call.context /\ x = call.assign)
    <3>1. savedVariables'[x] = savedVariables[x]
      BY <1>6, <2>1, <2>4
    <3>2. CASE savedVariables[x] \in {latest[x]} \cup abandoned
      BY <2>2, <3>1, <3>2 DEF VariableFits
    <3>3. ASSUME NEW c \in rpcs, c.waited, c.step = "answered",
                 c.assign = x, c.number = savedVariables[x]
          PROVE  VariableFits(x)'
      <4>1. CASE c.number # call.number
        <5>1. c \in rpcs'
          BY <1>4, <4>1
        <5> QED BY <2>2, <3>1, <3>3, <5>1 DEF VariableFits
      <4>2. CASE c.number = call.number
        <5>1. ~call.waited /\ call.context
          BY <1>1, <1>11, <3>3, <4>2 DEF CallFits, SessionInv, CallsFit
        <5>2. savedVariables'[x] \in abandoned
          BY <1>13, <3>1, <3>3, <4>2, <5>1
        <5> QED BY <2>2, <5>2 DEF VariableFits
      <4> QED BY <4>1, <4>2
    <3> QED BY <2>1, <3>2, <3>3 DEF VariableFits
  <2> QED BY <2>3, <2>4
<1>21. (\A f \in Session!Files : FileFits(f))'
  <2> SUFFICES ASSUME NEW f \in Session!Files
               PROVE  FileFits(f)'
    OBVIOUS
  <2>1. FileFits(f)
    BY DEF SessionInv
  <2>2. CASE call.context /\ f = call.file
    <3>1. importResolver'[f] = m /\ f # 0
      BY <1>9, <2>2, FilesAreNumbers DEF Session!Files
    <3>2. CASE call.waited
      <4>1. /\ nested # <<>> /\ Session!Inner.step = "calling"
            /\ Session!Inner.file = f /\ Session!Inner.version = call.version
        BY <1>1, <2>2, <3>2 DEF CallFits, Session!Inner
      <4>2. importedFiles[f] <= call.version
        BY <3>1, <4>1, InnerFits DEF FrameFits
      <4>3. importedFiles[f] \in Nat /\ call.version \in Nat
        BY DEF SessionInv, Session!TypeOK, Session!Requests
      <4> QED BY <1>8, <2>1, <2>2, <3>1, <4>2, <4>3 DEF FileFits
    <3>3. CASE ~call.waited
      BY <1>8, <1>13, <2>1, <2>2, <3>1, <3>3 DEF FileFits
    <3> QED BY <3>2, <3>3
  <2>3. CASE ~(call.context /\ f = call.file)
    BY <1>9, <2>1, <2>3 DEF FileFits
  <2> QED BY <2>2, <2>3
<1>22. Session!InterpretersOutliveCalls'
  <2>1. \A c \in rpcs' : c.step = "evaluating" => c \in rpcs /\ c.number # call.number
    BY <1>3, <1>4
  <2>2. \A c \in rpcs : c.context <=> c.number # 0
    BY <1>1 DEF CallFits
  <2>3. \A c \in rpcs : c.step = "evaluating" => Session!Interpreter(c) \in interpreters
    BY DEF SessionInv, Session!InterpretersOutliveCalls
  <2>4. CASE ~call.context
    <3>1. \A c \in rpcs' : c.step = "evaluating" => c \in rpcs /\ c.context
      BY <1>11, <2>1, <2>2, <2>4
    <3> QED BY <1>5, <2>3, <2>4, <3>1 DEF Session!InterpretersOutliveCalls, Session!Interpreter
  <2>5. CASE call.context
    <3>1. \A c \in rpcs : ~c.context => c \in rpcs'
      BY <1>4, <1>11, <2>2, <2>5
    <3> QED BY <1>5, <2>1, <2>3, <2>5, <3>1
            DEF SessionInv, Session!InterpretersOutliveCalls, Session!Interpreter
  <2> QED BY <2>4, <2>5
<1> QED BY <1>14, <1>15, <1>19, <1>20, <1>21, <1>22 DEF SessionInv

LEMMA EvaluateNonBlockingIsKept ==
  ASSUME SessionInv, NEW call \in rpcs, Session!EvaluateNonBlocking(call)
  PROVE  SessionInv'
<1>1. PICK unknown, lacks : unknown = Session!NoSuchVariable(call)
                            /\ lacks = Session!NotMapped(call)
  OBVIOUS
<1>2. PICK found : found = [call EXCEPT !.unknown = unknown, !.lacks = lacks]
  OBVIOUS
<1>3. CallFits(call) /\ call \in Session!Requests
  BY DEF SessionInv, CallsFit, Session!TypeOK
<1>4. unknown \subseteq Variables /\ lacks \subseteq Session!Files
  BY <1>1, <1>3 DEF Session!NoSuchVariable, Session!NotMapped, Session!Requests
<1>5. /\ found \in Session!Requests /\ found.unknown = unknown /\ found.lacks = lacks
      /\ found.number = call.number /\ found.context = call.context
      /\ found.waited = call.waited /\ found.file = call.file
      /\ found.version = call.version /\ found.uses = call.uses
      /\ found.assign = call.assign /\ found.inputs = call.inputs
      /\ found.step = call.step
  BY <1>2, <1>3, <1>4 DEF Session!Requests
<1>6. /\ call.context => unknown = {}
      /\ call.context /\ abandoned = {} => lacks = {}
  BY <1>1, AllIsFound
<1>7. /\ call.step = "sent"
      /\ UNCHANGED <<version, uses, nested, variableNames, importedFiles, latest, abandoned,
                     made>>
      /\ IF call.inputs = {}
         THEN Session!AsyncDone(found)
         ELSE /\ interpreters' = interpreters \cup {Session!Interpreter(call)}
              /\ rpcs' = (rpcs \ {call}) \cup {[found EXCEPT !.step = "evaluating"]}
              /\ UNCHANGED <<savedVariables, importResolver>>
  BY <1>1, <1>2 DEF Session!EvaluateNonBlocking, Session!client
<1>8. CASE call.inputs = {}
  BY <1>5, <1>6, <1>7, <1>8, AsyncDoneIsKept
<1>9. CASE call.inputs # {}
  <2>1. PICK d : d = [found EXCEPT !.step = "evaluating"]
    OBVIOUS
  <2>2. /\ d \in Session!Requests /\ d.unknown = unknown /\ d.lacks = lacks
        /\ d.number = call.number /\ d.context = call.context
        /\ d.waited = call.waited /\ d.file = call.file
        /\ d.version = call.version /\ d.uses = call.uses
        /\ d.assign = call.assign /\ d.inputs = call.inputs
        /\ d.step = "evaluating"
    BY <1>5, <2>1 DEF Session!Requests
  <2>3. /\ interpreters' = interpreters \cup {Session!Interpreter(call)}
        /\ rpcs' = (rpcs \ {call}) \cup {d}
        /\ UNCHANGED <<savedVariables, importResolver>>
    BY <1>7, <1>9, <2>1
  <2>4. Session!TypeOK'
    BY <1>7, <2>2, <2>3 DEF SessionInv, Session!TypeOK
  <2>5. NestedFits'
    BY <1>7, <2>3 DEF SessionInv, NestedFits, Chain, FrameFits
  <2>6. CallsFit'
    <3>1. CallFits(d)'
      BY <1>3, <1>6, <1>7, <2>2, <2>3 DEF CallFits
    <3>2. \A c \in rpcs : CallFits(c)'
      BY <1>7, <2>3 DEF SessionInv, CallsFit, CallFits
    <3> QED BY <2>2, <2>3, <3>1, <3>2 DEF SessionInv, CallsFit
  <2>7. (\A x \in variableNames : VariableFits(x))' /\ (\A f \in Session!Files : FileFits(f))'
    BY <1>7, <2>3, OthersKeep
  <2>8. Session!InterpretersOutliveCalls'
    <3>1. Session!Interpreter(d) = Session!Interpreter(call)
      BY <2>2 DEF Session!Interpreter
    <3>2. \A c \in rpcs' : c.step = "evaluating" => Session!Interpreter(c) \in interpreters'
      BY <2>3, <3>1 DEF SessionInv, Session!InterpretersOutliveCalls
    <3>3. \A c \in rpcs : c.step = "evaluating" => c \in rpcs'
      BY <1>7, <2>3
    <3>4. "of call" \in interpreters' =>
            "of call" \in interpreters \/ ~d.context
      BY <2>2, <2>3 DEF Session!Interpreter
    <3> QED BY <2>2, <2>3, <3>2, <3>3, <3>4 DEF SessionInv, Session!InterpretersOutliveCalls
  <2> QED BY <2>4, <2>5, <2>6, <2>7, <2>8 DEF SessionInv
<1> QED BY <1>8, <1>9

LEMMA ServeIsKept ==
  ASSUME SessionInv, NEW call \in rpcs, Session!Serve(call)
  PROVE  SessionInv'
<1>1. CASE Session!EvaluateNonBlocking(call)
  BY <1>1, EvaluateNonBlockingIsKept
<1>2. CASE Session!CallDone(call)
  <2>1. CallFits(call) /\ call \in Session!Requests
    BY DEF SessionInv, CallsFit, Session!TypeOK
  <2>2. /\ call.context => call.unknown = {}
        /\ call.context /\ abandoned = {} => call.lacks = {}
    BY <2>1 DEF CallFits
  <2>3. /\ call.step = "evaluating" /\ Session!AsyncDone(call)
        /\ UNCHANGED <<version, uses, nested, variableNames, importedFiles, latest, abandoned,
                       made>>
    BY <1>2 DEF Session!CallDone, Session!client
  <2> QED BY <2>1, <2>2, <2>3, AsyncDoneIsKept
<1> QED BY <1>1, <1>2 DEF Session!Serve

-----------------------------------------------------------------------------
(* The sessions keep what they keep, whatever happens.                     *)
LEMMA SessionStart == Session!Init => SessionInv
<1> SUFFICES ASSUME Session!Init
             PROVE  SessionInv
  OBVIOUS
<1>1. /\ version = [f \in Session!Files |-> 1]
      /\ uses \in [Session!Files -> SUBSET Session!Files]
      /\ \A f \in Session!Files : uses[f] \in Session!Texts(f)
      /\ nested = <<>> /\ variableNames = {}
      /\ importedFiles = [f \in Session!Files |-> 0]
      /\ abandoned = {} /\ made = 0 /\ rpcs = {} /\ interpreters = {}
      /\ savedVariables = [x \in Variables |-> 0]
      /\ importResolver = [f \in Session!Files |-> Session!Unmapped]
  BY DEF Session!Init
<1>2. /\ Session!Unmapped \in Session!Mappings
      /\ Session!Unmapped.lacks = {}
  BY DEF Session!Unmapped, Session!Mappings
<1>3. nested \in Seq(Session!Frames) /\ Len(nested) = 0
  BY <1>1, EmptySeq
<1>4. Session!TypeOK
  BY <1>1, <1>2, <1>3 DEF Session!TypeOK
<1>5. NestedFits
  BY <1>3 DEF NestedFits, Chain
<1>6. \A f \in Session!Files : FileFits(f)
  BY <1>1, <1>2 DEF FileFits
<1>7. Session!InterpretersOutliveCalls
  BY <1>1 DEF Session!InterpretersOutliveCalls
<1> QED BY <1>1, <1>4, <1>5, <1>6, <1>7 DEF SessionInv, CallsFit

LEMMA SessionStep == SessionInv /\ [Session!Next]_sessionVars => SessionInv'
<1> SUFFICES ASSUME SessionInv, [Session!Next]_sessionVars
             PROVE  SessionInv'
  OBVIOUS
<1>1. CASE UNCHANGED sessionVars
  <2>1. /\ Session!TypeOK' /\ NestedFits' /\ CallsFit'
    BY <1>1 DEF sessionVars, SessionInv, Session!TypeOK, NestedFits, Chain, FrameFits,
                CallsFit, CallFits
  <2>2. /\ (\A x \in variableNames : VariableFits(x))'
        /\ (\A f \in Session!Files : FileFits(f))'
        /\ Session!InterpretersOutliveCalls'
    BY <1>1 DEF sessionVars, SessionInv, VariableFits, FileFits,
                Session!InterpretersOutliveCalls, Session!Interpreter
  <2> QED BY <2>1, <2>2 DEF SessionInv
<1>2. CASE Session!ServerActs
  BY <1>2, ServeIsKept DEF Session!ServerActs
<1>3. CASE Session!ClientActs
  BY <1>3, MaybeImportIsKept, ReadFileIsKept, CallEvaluateIsKept, SucceedIsKept
     DEF Session!ClientActs
<1>4. CASE Session!OthersAct
  BY <1>4, EvaluateIsKept, OtherClientIsKept, EditIsKept, FailIsKept, ServeIsKept
     DEF Session!OthersAct
<1> QED BY <1>1, <1>2, <1>3, <1>4 DEF Session!Next

LEMMA SessionsKeep == ServerSpec => []SessionInv
<1>1. ServerInit => SessionInv
  BY SessionStart DEF ServerInit
<1>2. SessionInv /\ [ServerNext]_serverVars => SessionInv'
  <2>1. [ServerNext]_serverVars => [Session!Next]_sessionVars
    BY DEF ServerNext, serverVars, sessionVars, InParallel, Evaluates, InSession
  <2> QED BY <2>1, SessionStep
<1> QED BY <1>1, <1>2, PTL DEF ServerSpec

(* SessionsAgree: whenever a statement is done the variables that the      *)
(* client names exist at the server with the values that the last          *)
(* statements gave them, and the files that it will not send again are     *)
(* mapped from a version at least as new as it remembers and found all     *)
(* that they import, but for what calls that broke changed                 *)
(* (public/client.cc, public/server.cc, public/interactive_interpreter.cc).*)
THEOREM ClientsAndServersAgree == ServerSpec => []SessionsAgree
<1>1. SessionInv => SessionsAgree
  <2> SUFFICES ASSUME SessionInv
               PROVE  Session!SessionsAgree
    BY DEF SessionsAgree
  <2>1. \A call \in rpcs : call.context => call.unknown = {}
    BY DEF SessionInv, CallsFit, CallFits
  <2>2. ASSUME nested = <<>>
        PROVE  \A x \in variableNames : savedVariables[x] \in {latest[x]} \cup abandoned
    BY <2>2, NoneWaited DEF SessionInv, VariableFits
  <2>3. \A f \in Session!Files : importedFiles[f] # 0 =>
          \/ importResolver[f].by \in abandoned
          \/ importResolver[f].version >= importedFiles[f]
    BY DEF SessionInv, FileFits
  <2>4. abandoned = {} => \A f \in Session!Files : importResolver[f].lacks = {}
    BY DEF SessionInv, FileFits
  <2> QED BY <2>1, <2>2, <2>3, <2>4 DEF Session!SessionsAgree
<1> QED BY <1>1, SessionsKeep, PTL

(* OutlivesCalls: the state of a parallel call and the interpreter of a    *)
(* request that names no context stay until everything that runs for them  *)
(* has come back, and go with it (public/server.cc).                       *)
THEOREM StateOutlivesCalls == ServerSpec => []OutlivesCalls
<1>1. Parallel /\ SessionInv => OutlivesCalls
  BY ParallelKeeps DEF OutlivesCalls, SessionInv
<1> QED BY <1>1, ParallelCallsKeep, SessionsKeep, PTL
=============================================================================
