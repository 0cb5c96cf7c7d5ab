------------------------- MODULE MemoryManagers_proofs -------------------------
(***************************************************************************)
(* Proof that the manager that never collects and the allocators below it  *)
(* give no byte out twice, for any sizes, alignment, pool, guard and hold  *)
(* limits, and any number of blocks; and that all is given back.  Then     *)
(* that pointers follow what the collector moves, that its checks hold and *)
(* that it leaves nothing behind, for any slots, objects and backlinks and *)
(* whatever is written.                                                    *)
(*                                                                         *)
(* What the program may read is a set of blocks.  Either allocator is in   *)
(* order with respect to such a set, and freeing a block of it leaves the  *)
(* allocator in order with respect to the others; so does a whole list.    *)
(*                                                                         *)
(* What a collection visits is the least set of pointers that is closed:   *)
(* each of them leads to the cells that it was made to point at, and on to *)
(* others of the set.  A step keeps that if it leaves some closed set with *)
(* all that the program points at.                                         *)
(***************************************************************************)
EXTENDS MemoryManagers, Sequences, SequenceTheorems, FiniteSetTheorems, FunctionTheorems,
        NaturalsInduction, WellFoundedInduction, TLAPS

ListRange(f) == {f[i] : i \in DOMAIN f}
Distinct(list) == \A i, j \in DOMAIN list : list[i] = list[j] => i = j
Given == [at : Int, size : Nat]

AllocatorStates ==
  [malloc : SUBSET Given, pools : Seq(Given), start : Int, position : Int, remaining : Int,
   allocations : SUBSET Given, held : Seq(Given), written : SUBSET Int, failed : BOOLEAN]

(* What operator new gave is in memory, and apart.                         *)
MallocInOrder(s) ==
  /\ \A m \in s.malloc : m.at >= 1 /\ m.size >= 1
  /\ \A m, n \in s.malloc : m # n => Memory!Apart(m, n)

(* What a pool has in use for a block of the program.                      *)
Piece(b) == Memory!Block(b.at, Memory!Align(b.size))
Pool(s) == Memory!Block(s.start, kNewPoolSize)
Inside(b, m) == m.at <= b.at /\ b.at + b.size <= m.at + m.size

(* The free end of the current pool is behind all that is used of it.      *)
PoolInOrder(s, R) ==
  /\ ListRange(s.pools) = s.malloc
  /\ s.held = <<>> /\ s.written = {}
  /\ s.start = 0 => s.position = 0 /\ s.remaining = 0
  /\ s.start # 0 => /\ Pool(s) \in s.malloc
                    /\ s.start <= s.position /\ 0 <= s.remaining
                    /\ s.position + s.remaining = s.start + kNewPoolSize
                    /\ \A b \in R : \/ Memory!Apart(Piece(b), Pool(s))
                                    \/ s.start <= b.at /\ b.at + Memory!Align(b.size) <= s.position
  /\ \A b \in R : \E m \in s.malloc : Inside(Piece(b), m)
  /\ \A b, c \in R : b # c => Memory!Apart(Piece(b), Piece(c))

(* What operator new gave is around a block, or held; or is spare, while a *)
(* block is freed.  No byte of known value was written, or it was found.   *)
HeldInOrder(s, R, spare) ==
  /\ s.allocations = R
  /\ s.malloc = {Memory!Guarded(b) : b \in R} \cup ListRange(s.held) \cup spare
  /\ \A b \in R : Memory!Guarded(b) \notin ListRange(s.held) \cup spare
  /\ ListRange(s.held) \cap spare = {}
  /\ Distinct(s.held)
  /\ s.failed \/ s.written \subseteq Memory!Watched(s)

InOrder(s, R) ==
  /\ s \in AllocatorStates
  /\ MallocInOrder(s)
  /\ layer = "pool" => PoolInOrder(s, R)
  /\ layer = "debug" => HeldInOrder(s, R, {})

InHand == ListRange(blocks) \cup ListRange(withdrawn)

MemoryInv ==
  /\ layer \in {"pool", "debug"}
  /\ ended \in BOOLEAN
  /\ blocks \in Seq(Given) /\ withdrawn \in Seq(Given)
  /\ Distinct(blocks) /\ Distinct(withdrawn)
  /\ ListRange(blocks) \cap ListRange(withdrawn) = {}
  /\ ~ended => InOrder(allocator, InHand)
  /\ ended => /\ blocks = <<>> /\ withdrawn = <<>>
              /\ allocator.malloc = {} /\ allocator.held = <<>>
              /\ allocator.failed \/ allocator.written \subseteq Memory!Watched(allocator)
-----------------------------------------------------------------------------
(* Numbers, and lists.                                                     *)

(* Numbers have a least one.                                               *)
LEMMA LeastNumber ==
  ASSUME NEW T, T \subseteq Nat, T # {}
  PROVE  \E n \in T : \A m \in T : n <= m
<1> DEFINE R == OpToRel(<, Nat)
<1>1. \A x, y \in Nat : <<x, y>> \in R <=> x < y
  BY DEF OpToRel
<1>2. IsWellFoundedOn(R, Nat)
  BY NatLessThanWellFounded, Zenon DEF R
<1> HIDE DEF R
<1>3. PICK x \in T : \A y \in T : <<y, x>> \notin R
  BY <1>2, WFMin
<1>4. ASSUME NEW y \in T
      PROVE  x <= y
  <2>1. ~(y < x)
    BY <1>1, <1>3
  <2> QED BY <2>1
<1> QED BY <1>4

(* What holds at first and after each step holds up to any number.         *)
LEMMA Stepwise ==
  ASSUME NEW n \in Nat, NEW Good, 0 \in Good,
         \A i \in 1..n : i - 1 \in Good => i \in Good
  PROVE  \A i \in 0..n : i \in Good
<1> SUFFICES ASSUME NEW k \in 0..n, k \notin Good
             PROVE  FALSE
  OBVIOUS
<1> DEFINE Bad == {i \in 0..n : i \notin Good}
<1>1. Bad \subseteq Nat /\ Bad # {}
  OBVIOUS
<1>2. PICK i \in Bad : \A j \in Bad : i <= j
  BY <1>1, LeastNumber
<1>3. i \in 1..n /\ i - 1 \in 0..n /\ ~(i <= i - 1)
  BY <1>2
<1>4. i - 1 \in Good
  BY <1>2, <1>3
<1> QED BY <1>2, <1>3, <1>4

(* A step that is a function of a number and a state can be repeated.      *)
AreSteps(step, n, S) == step \in [1..n -> [S -> S]]
IsRun(f, n, S, s, step) == /\ f \in [0..n -> S] /\ f[0] = s
                           /\ \A i \in 1..n : f[i] = step[i][f[i - 1]]
LEMMA Repeats ==
  ASSUME NEW n \in Nat, NEW S, NEW s \in S, NEW step, AreSteps(step, n, S)
  PROVE  \E f : IsRun(f, n, S, s, step)
<1> USE DEF AreSteps
<1> DEFINE Run(k, f) == IsRun(f, k, S, s, step)
           Good == {k \in 0..n : \E f : Run(k, f)}
<1>1. 0 \in Good
  <2> DEFINE f == [i \in 0..0 |-> s]
  <2>1. Run(0, f)
    BY DEF IsRun
  <2> HIDE DEF Run, f
  <2> QED BY <2>1
<1>2. ASSUME NEW k \in 1..n, k - 1 \in Good
      PROVE  k \in Good
  <2>1. PICK f : Run(k - 1, f)
    BY <1>2
  <2> DEFINE g == [i \in 0..k |-> IF i = k THEN step[k][f[k - 1]] ELSE f[i]]
  <2>2. f[k - 1] \in S /\ step[k][f[k - 1]] \in S
    BY <2>1 DEF IsRun
  <2>3. g \in [0..k -> S] /\ g[0] = s
    BY <2>1, <2>2 DEF IsRun
  <2>4. g[k] = step[k][f[k - 1]] /\ \A i \in 0..(k - 1) : g[i] = f[i]
    OBVIOUS
  <2> HIDE DEF g
  <2>5. ASSUME NEW i \in 1..k
        PROVE  g[i] = step[i][g[i - 1]]
    <3>1. CASE i = k
      BY <2>4, <3>1
    <3>2. CASE i # k
      <4>1. i \in 1..(k - 1) /\ i \in 0..(k - 1) /\ i - 1 \in 0..(k - 1)
        BY <3>2
      <4> QED BY <2>1, <2>4, <4>1 DEF IsRun
    <3> QED BY <3>1, <3>2
  <2>6. Run(k, g)
    BY <2>3, <2>5 DEF IsRun
  <2> HIDE DEF Run
  <2> QED BY <2>6
<1> HIDE DEF Run
<1>3. \A i \in 0..n : i \in Good
  BY <1>1, <1>2, Stepwise
<1> QED BY <1>3 DEF Run

(* A piece is never empty, and has room for its block.                     *)
LEMMA AlignFits ==
  ASSUME NEW size \in Nat
  PROVE  Memory!Align(size) \in Nat /\ Memory!Align(size) >= 1 /\ Memory!Align(size) >= size
<1> USE AllocatorAssumption
<1>1. CASE size = 0
  BY <1>1 DEF Memory!Align
<1>2. CASE size > 0
  <2> DEFINE q == (size - 1) \div kAlignment
             r == (size - 1) % kAlignment
  <2>1. /\ q \in Nat /\ r \in 0..(kAlignment - 1)
        /\ size - 1 = q * kAlignment + r
    BY <1>2
  <2>2. Memory!Align(size) = q * kAlignment + kAlignment
    BY <1>2 DEF Memory!Align
  <2>3. q * kAlignment \in Nat
    BY <2>1
  <2> HIDE DEF q, r
  <2> QED BY <2>1, <2>2, <2>3
<1> QED BY <1>1, <1>2
-----------------------------------------------------------------------------
(* Freeing one block leaves the allocator in order for the others.         *)

LEMMA PoolFreeKeeps ==
  ASSUME NEW s \in AllocatorStates, NEW R, NEW b \in R, R \subseteq Given,
         MallocInOrder(s), PoolInOrder(s, R)
  PROVE  LET t == Memory!PoolFree(s, b)
         IN t \in AllocatorStates /\ MallocInOrder(t) /\ PoolInOrder(t, R \ {b})
<1> DEFINE t == Memory!PoolFree(s, b)
<1>1. PICK n \in Nat : n = Memory!Align(b.size) /\ n >= 1
  BY AlignFits DEF Given
<1>2. b.at \in Int /\ s.position \in Int /\ s.remaining \in Int /\ s.start \in Int
  BY DEF Given, AllocatorStates
<1>3. CASE ~(b.at + n = s.position /\ b.at >= s.start)
  <2>1. t = s
    BY <1>1, <1>3 DEF Memory!PoolFree
  <2> QED BY <2>1 DEF PoolInOrder
<1>4. CASE b.at + n = s.position /\ b.at >= s.start
  <2>1. t = [s EXCEPT !.position = b.at, !.remaining = s.remaining + n]
    <3>1. t = [s EXCEPT !.position = s.position + (-n), !.remaining = s.remaining - (-n)]
      BY <1>1, <1>4 DEF Memory!PoolFree, Memory!Bump
    <3>2. s.position + (-n) = b.at /\ s.remaining - (-n) = s.remaining + n
      BY <1>1, <1>2, <1>4
    <3> QED BY <3>1, <3>2
  <2>2. /\ t \in AllocatorStates
        /\ t.position = b.at /\ t.remaining = s.remaining + n
        /\ t.start = s.start /\ t.malloc = s.malloc /\ t.pools = s.pools
        /\ t.held = s.held /\ t.written = s.written
    <3> HIDE DEF t
    <3>1. PICK p \in Int, r \in Int : p = b.at /\ r = s.remaining + n
      BY <1>1, <1>2
    <3>2. t = [s EXCEPT !.position = p, !.remaining = r]
      BY <2>1, <3>1
    <3>3. /\ t \in AllocatorStates
          /\ t.position = p /\ t.remaining = r
          /\ t.start = s.start /\ t.malloc = s.malloc /\ t.pools = s.pools
          /\ t.held = s.held /\ t.written = s.written
      BY <3>2 DEF AllocatorStates
    <3> QED BY <3>1, <3>3
  <2> HIDE DEF t
  <2>3. s.start # 0
    BY <1>1, <1>2, <1>4 DEF PoolInOrder
  <2>4. ASSUME NEW c \in R \ {b}, ~Memory!Apart(Piece(c), Pool(s))
        PROVE  s.start <= c.at /\ c.at + Memory!Align(c.size) <= t.position
    <3>1. PICK m \in Nat : m = Memory!Align(c.size) /\ m >= 1
      BY AlignFits DEF Given
    <3>2. c.at \in Int /\ s.start <= c.at /\ c.at + m <= s.position
      BY <2>3, <2>4, <3>1 DEF PoolInOrder, Given
    <3>3. c.at + m <= b.at \/ b.at + n <= c.at
      BY <1>1, <3>1 DEF PoolInOrder, Memory!Apart, Piece, Memory!Block
    <3> QED BY <1>1, <1>2, <1>4, <2>2, <3>1, <3>2, <3>3
  <2>5. MallocInOrder(t)
    BY <2>2 DEF MallocInOrder
  <2>6. /\ t.start <= t.position /\ 0 <= t.remaining
        /\ t.position + t.remaining = t.start + kNewPoolSize
    BY <1>1, <1>2, <1>4, <2>2, <2>3, AllocatorAssumption DEF PoolInOrder
  <2>7. Pool(t) = Pool(s) /\ Pool(s) \in s.malloc
    BY <2>2, <2>3 DEF Pool, PoolInOrder
  <2>8. \A c \in R \ {b} : \/ Memory!Apart(Piece(c), Pool(t))
                           \/ t.start <= c.at /\ c.at + Memory!Align(c.size) <= t.position
    BY <2>2, <2>4, <2>7
  <2>9. /\ \A c \in R \ {b} : \E m \in t.malloc : Inside(Piece(c), m)
        /\ \A c, d \in R \ {b} : c # d => Memory!Apart(Piece(c), Piece(d))
        /\ ListRange(t.pools) = t.malloc /\ t.held = <<>> /\ t.written = {}
    BY <2>2 DEF PoolInOrder
  <2>10. PoolInOrder(t, R \ {b})
    BY <2>2, <2>3, <2>6, <2>7, <2>8, <2>9 DEF PoolInOrder
  <2> QED BY <2>2, <2>5, <2>10 DEF t
<1> QED BY <1>3, <1>4

(* What the operators of the debugging allocator mean, element by element. *)
LEMMA SameRange == \A f : Memory!Range(f) = ListRange(f)
BY DEF Memory!Range, ListRange

LEMMA BytesOfMeans ==
  \A S, x : x \in Memory!BytesOf(S) <=> \E b \in S : x \in Memory!Bytes(b)
BY DEF Memory!BytesOf

LEMMA WatchedMeans ==
  \A s, x : x \in Memory!Watched(s) <=>
              \/ \E b \in s.allocations : x \in Memory!GuardBytes(b)
              \/ \E g \in ListRange(s.held) : x \in Memory!Bytes(g)
<1> SUFFICES ASSUME NEW s, NEW x
             PROVE  x \in Memory!Watched(s) <=>
                      \/ \E b \in s.allocations : x \in Memory!GuardBytes(b)
                      \/ \E g \in ListRange(s.held) : x \in Memory!Bytes(g)
  OBVIOUS
<1>1. x \in Memory!BytesOf(ListRange(s.held)) <=>
        \E g \in ListRange(s.held) : x \in Memory!Bytes(g)
  BY BytesOfMeans
<1>2. Memory!Range(s.held) = ListRange(s.held)
  BY SameRange
<1>3. x \in Memory!Watched(s) <=>
        \/ x \in UNION {Memory!GuardBytes(b) : b \in s.allocations}
        \/ x \in Memory!BytesOf(ListRange(s.held))
  BY <1>2, Zenon DEF Memory!Watched
<1>4. x \in UNION {Memory!GuardBytes(b) : b \in s.allocations} <=>
        \E b \in s.allocations : x \in Memory!GuardBytes(b)
  OBVIOUS
<1> QED BY <1>1, <1>3, <1>4

LEMMA GuardedMeans ==
  ASSUME NEW b \in Given
  PROVE  /\ Memory!Guarded(b) \in Given
         /\ Memory!Guarded(b).at = b.at - kGuardByteCount
         /\ Memory!Guarded(b).size = b.size + 2 * kGuardByteCount
BY AllocatorAssumption DEF Given, Memory!Guarded, Memory!Block

LEMMA GuardedApart ==
  ASSUME NEW b \in Given, NEW c \in Given, Memory!Guarded(b) = Memory!Guarded(c)
  PROVE  b = c
<1>1. b.at = c.at /\ b.size = c.size
  <2>1. /\ b.at - kGuardByteCount = c.at - kGuardByteCount
        /\ b.size + 2 * kGuardByteCount = c.size + 2 * kGuardByteCount
    BY GuardedMeans
  <2>2. b.at \in Int /\ c.at \in Int /\ b.size \in Nat /\ c.size \in Nat
    BY DEF Given
  <2> QED BY <2>1, <2>2, AllocatorAssumption
<1> QED BY <1>1 DEF Given

(* The rest of a list, and a list with one more.                           *)
Splits(list, n, first, rest) ==
  /\ rest \in Seq(Given) /\ Distinct(rest)
  /\ Len(rest) = Len(list) - n
  /\ ListRange(list) = ListRange(first) \cup ListRange(rest)
  /\ ListRange(first) \cap ListRange(rest) = {}
LEMMA RestOfList ==
  ASSUME NEW list \in Seq(Given), Distinct(list), NEW n \in 0..Len(list)
  PROVE  Splits(list, n, SubSeq(list, 1, n), SubSeq(list, n + 1, Len(list)))
<1> PICK first, rest : first = SubSeq(list, 1, n) /\ rest = SubSeq(list, n + 1, Len(list))
  OBVIOUS
<1>1. PICK k \in Nat : k = Len(list)
  OBVIOUS
<1>2. /\ DOMAIN list = 1..k /\ n \in Nat /\ n <= k
      /\ \A i \in 1..k : list[i] \in Given
  BY <1>1
<1>3. /\ rest \in Seq(Given) /\ Len(rest) = k - n /\ DOMAIN rest = 1..(k - n)
      /\ \A i \in 1..(k - n) : rest[i] = list[n + i]
  <2>1. \A i \in (n + 1)..k : i \in 1..k
    BY <1>2
  <2>2. rest = [i \in 1..(k - (n + 1) + 1) |-> list[(n + 1) + i - 1]]
    BY <1>1
  <2>3. k - (n + 1) + 1 = k - n /\ \A i \in 1..(k - n) : (n + 1) + i - 1 = n + i /\ n + i \in 1..k
    BY <1>2
  <2>4. rest = [i \in 1..(k - n) |-> list[n + i]]
    BY <2>2, <2>3
  <2> QED BY <1>2, <2>3, <2>4
<1>4. DOMAIN first = 1..n /\ \A i \in 1..n : first[i] = list[i]
  <2>1. first = [i \in 1..(n - 1 + 1) |-> list[1 + i - 1]]
    OBVIOUS
  <2>2. n - 1 + 1 = n /\ \A i \in 1..n : 1 + i - 1 = i
    BY <1>2
  <2> QED BY <2>1, <2>2
<1>5. Distinct(rest)
  <2> SUFFICES ASSUME NEW i \in 1..(k - n), NEW j \in 1..(k - n), rest[i] = rest[j]
               PROVE  i = j
    BY <1>3 DEF Distinct
  <2>1. n + i \in 1..k /\ n + j \in 1..k /\ list[n + i] = list[n + j]
    BY <1>2, <1>3
  <2>2. n + i = n + j
    BY <1>2, <2>1 DEF Distinct
  <2> QED BY <1>2, <2>2
<1>6. ASSUME NEW x \in ListRange(list)
      PROVE  x \in ListRange(first) \cup ListRange(rest)
  <2>1. PICK i \in 1..k : x = list[i]
    BY <1>2 DEF ListRange
  <2>2. CASE i <= n
    <3>1. i \in 1..n
      BY <1>2, <2>2
    <3> QED BY <1>4, <2>1, <3>1 DEF ListRange
  <2>3. CASE i > n
    <3>1. i - n \in 1..(k - n) /\ n + (i - n) = i
      BY <1>2, <2>3
    <3> QED BY <1>3, <2>1, <3>1 DEF ListRange
  <2> QED BY <1>2, <2>2, <2>3
<1>7. ASSUME NEW i \in 1..n
      PROVE  list[i] \in ListRange(list) /\ list[i] \notin ListRange(rest)
  <2>1. i \in 1..k
    BY <1>2
  <2>2. ASSUME NEW j \in 1..(k - n)
        PROVE  list[i] # rest[j]
    <3>1. n + j \in 1..k /\ n + j # i
      BY <1>2
    <3> QED BY <1>2, <1>3, <2>1, <3>1 DEF Distinct
  <2> QED BY <1>2, <1>3, <2>1, <2>2 DEF ListRange
<1>8. ASSUME NEW j \in 1..(k - n)
      PROVE  rest[j] \in ListRange(list)
  <2>1. n + j \in 1..k
    BY <1>2
  <2> QED BY <1>2, <1>3, <2>1 DEF ListRange
<1>9. /\ \A x \in ListRange(first) : x \in ListRange(list) /\ x \notin ListRange(rest)
      /\ \A x \in ListRange(rest) : x \in ListRange(list)
  <2>1. ASSUME NEW x \in ListRange(first)
        PROVE  x \in ListRange(list) /\ x \notin ListRange(rest)
    <3>1. PICK i \in 1..n : x = first[i]
      BY <1>4 DEF ListRange
    <3> QED BY <1>4, <1>7, <3>1
  <2>2. ASSUME NEW x \in ListRange(rest)
        PROVE  x \in ListRange(list)
    <3>1. PICK j \in 1..(k - n) : x = rest[j]
      BY <1>3 DEF ListRange
    <3> QED BY <1>8, <3>1
  <2> QED BY <2>1, <2>2
<1>10. /\ ListRange(list) = ListRange(first) \cup ListRange(rest)
       /\ ListRange(first) \cap ListRange(rest) = {}
  BY <1>6, <1>9
<1> QED BY <1>1, <1>3, <1>5, <1>10 DEF Splits

LEMMA ListAndOne ==
  ASSUME NEW list \in Seq(Given), Distinct(list), NEW x \in Given, x \notin ListRange(list),
         NEW more, more = Append(list, x)
  PROVE  /\ more \in Seq(Given) /\ Distinct(more)
         /\ ListRange(more) = ListRange(list) \cup {x}
<1>1. PICK k \in Nat : k = Len(list)
  OBVIOUS
<1>2. DOMAIN list = 1..k
  BY <1>1
<1>3. /\ more \in Seq(Given) /\ DOMAIN more = 1..(k + 1) /\ more[k + 1] = x
      /\ \A i \in 1..k : more[i] = list[i]
  BY <1>1
<1>4. \A i : i \in 1..(k + 1) <=> i \in 1..k \/ i = k + 1
  OBVIOUS
<1>5. Distinct(more)
  <2> SUFFICES ASSUME NEW i \in 1..(k + 1), NEW j \in 1..(k + 1), more[i] = more[j]
               PROVE  i = j
    BY <1>3 DEF Distinct
  <2>1. \A l \in 1..k : list[l] # x
    BY <1>2 DEF ListRange
  <2>2. CASE i = k + 1 \/ j = k + 1
    BY <1>3, <1>4, <2>1, <2>2
  <2>3. CASE i \in 1..k /\ j \in 1..k
    BY <1>2, <1>3, <2>3 DEF Distinct
  <2> QED BY <1>4, <2>2, <2>3
<1>6. \A y : (\E i \in 1..(k + 1) : y = more[i]) <=> (\E i \in 1..k : y = list[i]) \/ y = x
  BY <1>3, <1>4
<1>7. \A y : y \in ListRange(more) <=> y \in ListRange(list) \/ y = x
  BY <1>2, <1>3, <1>6 DEF ListRange
<1> QED BY <1>3, <1>5, <1>7

(* What is flushed was held longest, and is looked at before it goes.      *)
LEMMA FlushKeeps ==
  ASSUME NEW s \in AllocatorStates, NEW R, NEW spare,
         MallocInOrder(s), HeldInOrder(s, R, spare), NEW n \in 0..Len(s.held),
         NEW t, t = Memory!FlushHeldAllocations(s, n)
  PROVE  /\ t \in AllocatorStates /\ MallocInOrder(t) /\ HeldInOrder(t, R, spare)
         /\ Len(t.held) = Len(s.held) - n
<1> DEFINE first == SubSeq(s.held, 1, n)
           rest == SubSeq(s.held, n + 1, Len(s.held))
           flushed == ListRange(first)
<1>1. /\ s.held \in Seq(Given) /\ s.malloc \in SUBSET Given /\ s.written \subseteq Int
      /\ s.failed \in BOOLEAN /\ Distinct(s.held)
  BY DEF AllocatorStates, HeldInOrder
<1>2. /\ rest \in Seq(Given) /\ Distinct(rest) /\ Len(rest) = Len(s.held) - n
      /\ ListRange(s.held) = flushed \cup ListRange(rest)
      /\ flushed \cap ListRange(rest) = {}
  <2>1. Splits(s.held, n, first, rest)
    BY <1>1, RestOfList, Zenon
  <2> HIDE DEF first, rest, flushed
  <2> QED BY <2>1 DEF Splits, flushed
<1> DEFINE holds == Memory!BytesOf(flushed) \cap s.written = {}
<1>3. t = [s EXCEPT !.failed = s.failed \/ ~holds, !.malloc = s.malloc \ flushed, !.held = rest]
  <2>1. Memory!Range(first) = flushed
    BY SameRange
  <2> HIDE DEF flushed, rest
  <2> QED BY <2>1 DEF Memory!FlushHeldAllocations, Memory!Check, rest
<1> HIDE DEF first, rest, flushed
<1>4. PICK bad \in BOOLEAN : bad <=> ~holds
  OBVIOUS
<1> HIDE DEF holds
<1>5. /\ t \in AllocatorStates
      /\ t.malloc = s.malloc \ flushed /\ t.held = rest /\ t.failed = (s.failed \/ ~holds)
      /\ t.allocations = s.allocations /\ t.written = s.written
  BY <1>1, <1>2, <1>3 DEF AllocatorStates
<1>6. MallocInOrder(t)
  BY <1>5 DEF MallocInOrder
<1>7. t.malloc = {Memory!Guarded(b) : b \in R} \cup ListRange(t.held) \cup spare
  <2> DEFINE guarded == {Memory!Guarded(b) : b \in R}
  <2>1. s.malloc = guarded \cup ListRange(s.held) \cup spare
    BY DEF HeldInOrder
  <2>2. guarded \cap ListRange(s.held) = {}
    BY DEF HeldInOrder
  <2>3. ListRange(s.held) \cap spare = {}
    BY DEF HeldInOrder
  <2> HIDE DEF guarded
  <2>4. t.malloc = guarded \cup ListRange(t.held) \cup spare
    BY <1>2, <1>5, <2>1, <2>2, <2>3
  <2> QED BY <2>4 DEF guarded
<1>8. ListRange(t.held) \subseteq ListRange(s.held)
  BY <1>2, <1>5
<1>9. ASSUME ~t.failed, NEW x \in t.written
      PROVE  x \in Memory!Watched(t)
  <2>1. holds /\ ~s.failed
    BY <1>1, <1>5, <1>9
  <2>2. x \in s.written /\ x \in Memory!Watched(s)
    BY <1>5, <1>9, <2>1 DEF HeldInOrder
  <2>3. x \notin Memory!BytesOf(flushed)
    BY <2>1, <2>2 DEF holds
  <2>4. CASE \E b \in s.allocations : x \in Memory!GuardBytes(b)
    BY <1>5, <2>4, WatchedMeans
  <2>5. CASE \E g \in ListRange(s.held) : x \in Memory!Bytes(g)
    <3>1. PICK g \in ListRange(s.held) : x \in Memory!Bytes(g)
      BY <2>5
    <3>2. g \notin flushed
      BY <2>3, <3>1, BytesOfMeans
    <3>3. g \in ListRange(t.held)
      BY <1>2, <1>5, <3>1, <3>2
    <3> QED BY <3>1, <3>3, WatchedMeans
  <2> QED BY <2>2, <2>4, <2>5, WatchedMeans
<1>10. t.failed \/ t.written \subseteq Memory!Watched(t)
  BY <1>9
<1>11. /\ t.allocations = R /\ Distinct(t.held)
       /\ \A b \in R : Memory!Guarded(b) \notin ListRange(t.held) \cup spare
       /\ ListRange(t.held) \cap spare = {}
  BY <1>2, <1>5, <1>8 DEF HeldInOrder
<1>12. HeldInOrder(t, R, spare)
  BY <1>7, <1>10, <1>11 DEF HeldInOrder
<1> QED BY <1>2, <1>5, <1>6, <1>12

LEMMA FlushDownToKeeps ==
  ASSUME NEW s \in AllocatorStates, NEW R, NEW spare,
         MallocInOrder(s), HeldInOrder(s, R, spare), NEW bytes,
         NEW t, t = Memory!FlushDownTo(s, bytes)
  PROVE  t \in AllocatorStates /\ MallocInOrder(t) /\ HeldInOrder(t, R, spare)
<1> DEFINE T == {n \in 0..Len(s.held) : Memory!FewEnough(s, n, bytes)}
           m == Memory!Min(T)
<1>1. Len(s.held) \in T /\ T \subseteq Nat
  <2>1. Len(s.held) \in Nat
    BY LenProperties DEF AllocatorStates
  <2> QED BY <2>1 DEF Memory!FewEnough
<1>2. t = Memory!FlushHeldAllocations(s, m)
  BY DEF Memory!FlushDownTo
<1>3. T \subseteq 0..Len(s.held)
  OBVIOUS
<1> HIDE DEF T
<1>4. \E n \in T : \A k \in T : n <= k
  BY <1>1, LeastNumber
<1>5. m \in T
  BY <1>4 DEF Memory!Min
<1> HIDE DEF m
<1>6. PICK n \in 0..Len(s.held) : n = m
  BY <1>3, <1>5
<1>7. t = Memory!FlushHeldAllocations(s, n)
  BY <1>2, <1>6
<1> QED BY <1>7, FlushKeeps

(* What is spare is held, or given back.                                   *)
LEMMA HoldKeeps ==
  ASSUME NEW s \in AllocatorStates, NEW R, NEW g \in Given,
         MallocInOrder(s), HeldInOrder(s, R, {g}),
         NEW t, t = Memory!HoldAllocation(s, g)
  PROVE  t \in AllocatorStates /\ MallocInOrder(t) /\ HeldInOrder(t, R, {})
<1>1. /\ s.held \in Seq(Given) /\ Distinct(s.held) /\ g \notin ListRange(s.held)
      /\ s.written \subseteq Int
  BY DEF AllocatorStates, HeldInOrder
<1>2. PICK more : more = Append(s.held, g)
  OBVIOUS
<1>3. /\ more \in Seq(Given) /\ Distinct(more)
      /\ ListRange(more) = ListRange(s.held) \cup {g}
  BY <1>1, <1>2, ListAndOne
<1>4. t = [s EXCEPT !.held = more, !.written = s.written \ Memory!Bytes(g)]
  BY <1>2 DEF Memory!HoldAllocation
<1>5. /\ t \in AllocatorStates
      /\ t.held = more /\ t.written = s.written \ Memory!Bytes(g)
      /\ t.malloc = s.malloc /\ t.allocations = s.allocations /\ t.failed = s.failed
  BY <1>1, <1>3, <1>4 DEF AllocatorStates
<1>6. MallocInOrder(t)
  BY <1>5 DEF MallocInOrder
<1>7. /\ t.allocations = R /\ Distinct(t.held)
      /\ t.malloc = {Memory!Guarded(b) : b \in R} \cup ListRange(t.held) \cup {}
  BY <1>3, <1>5 DEF HeldInOrder
<1>8. /\ \A b \in R : Memory!Guarded(b) \notin ListRange(t.held) \cup {}
      /\ ListRange(t.held) \cap {} = {}
  BY <1>3, <1>5 DEF HeldInOrder
<1>9. ASSUME ~s.failed, NEW x \in t.written
      PROVE  x \in Memory!Watched(t)
  <2>1. x \in Memory!Watched(s)
    BY <1>5, <1>9 DEF HeldInOrder
  <2> QED BY <1>3, <1>5, <2>1, WatchedMeans
<1>10. t.failed \/ t.written \subseteq Memory!Watched(t)
  BY <1>5, <1>9
<1>11. HeldInOrder(t, R, {})
  BY <1>7, <1>8, <1>10 DEF HeldInOrder
<1> QED BY <1>5, <1>6, <1>11

LEMMA GiveBackKeeps ==
  ASSUME NEW s \in AllocatorStates, NEW R, NEW g \in Given,
         MallocInOrder(s), HeldInOrder(s, R, {g}),
         NEW t, t = Memory!GivenBack(s, g)
  PROVE  t \in AllocatorStates /\ MallocInOrder(t) /\ HeldInOrder(t, R, {})
<1>1. t = [s EXCEPT !.malloc = s.malloc \ {g}]
  BY DEF Memory!GivenBack
<1>2. /\ t \in AllocatorStates
      /\ t.malloc = s.malloc \ {g} /\ t.held = s.held /\ t.written = s.written
      /\ t.allocations = s.allocations /\ t.failed = s.failed
  BY <1>1 DEF AllocatorStates
<1>3. MallocInOrder(t)
  BY <1>2 DEF MallocInOrder
<1>4. t.malloc = {Memory!Guarded(b) : b \in R} \cup ListRange(t.held) \cup {}
  BY <1>2 DEF HeldInOrder
<1>5. Memory!Watched(t) = Memory!Watched(s)
  BY <1>2, WatchedMeans
<1>6. HeldInOrder(t, R, {})
  BY <1>2, <1>4, <1>5 DEF HeldInOrder
<1> QED BY <1>2, <1>3, <1>6

LEMMA DebugFreeKeeps ==
  ASSUME NEW s \in AllocatorStates, NEW R, NEW b \in R, R \subseteq Given,
         MallocInOrder(s), HeldInOrder(s, R, {}),
         NEW t, t = Memory!DebugFree(s, b)
  PROVE  t \in AllocatorStates /\ MallocInOrder(t) /\ HeldInOrder(t, R \ {b}, {})
<1>1. PICK g : g = Memory!Guarded(b)
  OBVIOUS
<1>2. b \in Given /\ g \in Given /\ b \in s.allocations
  BY <1>1, GuardedMeans DEF HeldInOrder
<1>3. PICK bad \in BOOLEAN : bad <=> Memory!GuardBytes(b) \cap s.written # {}
  OBVIOUS
<1>4. PICK c : c = Memory!Check([s EXCEPT !.allocations = s.allocations \ {b}],
                                b \in s.allocations /\ Memory!GuardBytes(b) \cap s.written = {})
  OBVIOUS
<1>5. t = IF g.size <= kMaxHeldBytes
            THEN Memory!HoldAllocation(Memory!FlushDownTo(c, kMaxHeldBytes - g.size), g)
            ELSE Memory!GivenBack(c, g)
  BY <1>1, <1>4 DEF Memory!DebugFree
<1>6. c = [s EXCEPT !.allocations = s.allocations \ {b}, !.failed = s.failed \/ bad]
  BY <1>2, <1>3, <1>4 DEF Memory!Check, AllocatorStates
<1>7. /\ c \in AllocatorStates
      /\ c.allocations = s.allocations \ {b} /\ c.failed = (s.failed \/ bad)
      /\ c.malloc = s.malloc /\ c.held = s.held /\ c.written = s.written
  BY <1>6 DEF AllocatorStates
<1>8. MallocInOrder(c)
  BY <1>7 DEF MallocInOrder
<1>9. \A d \in R \ {b} : Memory!Guarded(d) # g
  BY <1>1, GuardedApart
<1>10. c.malloc = {Memory!Guarded(d) : d \in R \ {b}} \cup ListRange(c.held) \cup {g}
  <2>1. {Memory!Guarded(d) : d \in R} = {Memory!Guarded(d) : d \in R \ {b}} \cup {g}
    BY <1>1
  <2> QED BY <1>7, <2>1 DEF HeldInOrder
<1>11. ASSUME ~c.failed, NEW x \in c.written
       PROVE  x \in Memory!Watched(c)
  <2>1. ~s.failed /\ x \in s.written /\ x \notin Memory!GuardBytes(b)
    BY <1>3, <1>7, <1>11
  <2>2. x \in Memory!Watched(s)
    BY <2>1 DEF HeldInOrder
  <2>3. CASE \E d \in s.allocations : x \in Memory!GuardBytes(d)
    <3>1. PICK d \in s.allocations : x \in Memory!GuardBytes(d)
      BY <2>3
    <3>2. d \in c.allocations
      BY <1>7, <2>1, <3>1
    <3> QED BY <3>1, <3>2, WatchedMeans
  <2>4. CASE \E h \in ListRange(s.held) : x \in Memory!Bytes(h)
    BY <1>7, <2>4, WatchedMeans
  <2> QED BY <2>2, <2>3, <2>4, WatchedMeans
<1>12. /\ c.allocations = R \ {b} /\ Distinct(c.held)
       /\ \A d \in R \ {b} : Memory!Guarded(d) \notin ListRange(c.held) \cup {g}
       /\ ListRange(c.held) \cap {g} = {}
  BY <1>1, <1>7, <1>9 DEF HeldInOrder
<1>13. c.failed \/ c.written \subseteq Memory!Watched(c)
  BY <1>11
<1>14. HeldInOrder(c, R \ {b}, {g})
  BY <1>10, <1>12, <1>13 DEF HeldInOrder
<1>15. CASE g.size <= kMaxHeldBytes
  <2>1. PICK f : f = Memory!FlushDownTo(c, kMaxHeldBytes - g.size)
    OBVIOUS
  <2>2. f \in AllocatorStates /\ MallocInOrder(f) /\ HeldInOrder(f, R \ {b}, {g})
    BY <1>7, <1>8, <1>14, <2>1, FlushDownToKeeps
  <2>3. t = Memory!HoldAllocation(f, g)
    BY <1>5, <1>15, <2>1
  <2> QED BY <1>2, <2>2, <2>3, HoldKeeps
<1>16. CASE ~(g.size <= kMaxHeldBytes)
  <2>1. t = Memory!GivenBack(c, g)
    BY <1>5, <1>16
  <2> QED BY <1>2, <1>7, <1>8, <1>14, <2>1, GiveBackKeeps
<1> QED BY <1>15, <1>16

LEMMA FreeKeeps ==
  ASSUME NEW s, NEW R, NEW b \in R, R \subseteq Given, layer \in {"pool", "debug"},
         InOrder(s, R)
  PROVE  InOrder(Memory!Free(s, b), R \ {b})
<1>1. s \in AllocatorStates /\ MallocInOrder(s)
  BY DEF InOrder
<1>2. CASE layer = "pool"
  <2>1. PICK t : t = Memory!PoolFree(s, b)
    OBVIOUS
  <2>2. PoolInOrder(s, R)
    BY <1>2 DEF InOrder
  <2>3. t \in AllocatorStates /\ MallocInOrder(t) /\ PoolInOrder(t, R \ {b})
    BY <1>1, <2>1, <2>2, PoolFreeKeeps
  <2>4. Memory!Free(s, b) = t
    BY <1>2, <2>1 DEF Memory!Free
  <2> QED BY <1>2, <2>3, <2>4 DEF InOrder
<1>3. CASE layer = "debug"
  <2>1. PICK t : t = Memory!DebugFree(s, b)
    OBVIOUS
  <2>2. HeldInOrder(s, R, {})
    BY <1>3 DEF InOrder
  <2>3. t \in AllocatorStates /\ MallocInOrder(t) /\ HeldInOrder(t, R \ {b}, {})
    BY <1>1, <2>1, <2>2, DebugFreeKeeps
  <2>4. Memory!Free(s, b) = t
    BY <1>3, <2>1 DEF Memory!Free
  <2> QED BY <1>3, <2>3, <2>4 DEF InOrder
<1> QED BY <1>2, <1>3

(* So does freeing all of a list.                                          *)
LEMMA FreeAllKeeps ==
  ASSUME NEW s, NEW R, R \subseteq Given, NEW list \in Seq(Given),
         Distinct(list), ListRange(list) \subseteq R,
         layer \in {"pool", "debug"}, InOrder(s, R)
  PROVE  InOrder(Memory!FreeAll(s, list), R \ ListRange(list))
<1> DEFINE n == Len(list)
           Left(i) == R \ {list[j] : j \in 1..i}
           frees == [i \in 1..n |-> [t \in AllocatorStates |->
                       IF Memory!Free(t, list[i]) \in AllocatorStates
                         THEN Memory!Free(t, list[i]) ELSE t]]
<1>1. n \in Nat /\ DOMAIN list = 1..n /\ \A i \in 1..n : list[i] \in R
  BY DEF ListRange
<1>2. s \in AllocatorStates
  BY DEF InOrder
<1> HIDE DEF n
<1>3. AreSteps(frees, n, AllocatorStates)
  BY DEF AreSteps
<1>4. PICK f : /\ f \in [0..n -> AllocatorStates] /\ f[0] = s
               /\ \A i \in 1..n : f[i] = frees[i][f[i - 1]]
  <2> HIDE DEF frees
  <2>1. \E f : IsRun(f, n, AllocatorStates, s, frees)
    BY <1>1, <1>2, <1>3, Repeats, Zenon
  <2> QED BY <2>1 DEF IsRun
<1>5. \A i \in 1..n : f[i] = IF Memory!Free(f[i - 1], list[i]) \in AllocatorStates
                             THEN Memory!Free(f[i - 1], list[i]) ELSE f[i - 1]
  <2> TAKE i \in 1..n
  <2>1. f[i - 1] \in AllocatorStates
    BY <1>1, <1>4
  <2> QED BY <1>4, <2>1
<1> HIDE DEF frees
<1> DEFINE Good == {i \in 0..n : /\ InOrder(f[i], Left(i))
                                 /\ i # 0 => f[i] = Memory!Free(f[i - 1], list[i])}
<1>6. 0 \in Good
  <2>1. {list[j] : j \in 1..0} = {}
    OBVIOUS
  <2>2. Left(0) = R
    BY <2>1
  <2> HIDE DEF Left
  <2>3. InOrder(f[0], Left(0)) /\ 0 \in 0..n
    BY <1>1, <1>4, <2>2
  <2> QED BY <2>3
<1>7. ASSUME NEW i \in 1..n, i - 1 \in Good
      PROVE  i \in Good
  <2>1. list[i] \in Left(i - 1) /\ Left(i - 1) \subseteq Given
    <3>1. \A j \in 1..(i - 1) : j \in 1..n /\ j # i
      BY <1>1
    <3>2. \A j \in 1..(i - 1) : list[j] # list[i]
      BY <1>1, <3>1 DEF Distinct
    <3> QED BY <1>1, <3>2
  <2>2. InOrder(f[i - 1], Left(i - 1))
    <3> HIDE DEF Left
    <3> QED BY <1>7
  <2>3. Left(i) = Left(i - 1) \ {list[i]}
    <3>1. \A j : j \in 1..i <=> j \in 1..(i - 1) \/ j = i
      BY <1>1
    <3> QED BY <3>1
  <2> HIDE DEF Left
  <2>4. InOrder(Memory!Free(f[i - 1], list[i]), Left(i - 1) \ {list[i]})
    BY <2>1, <2>2, FreeKeeps
  <2>5. Memory!Free(f[i - 1], list[i]) \in AllocatorStates
    BY <2>4 DEF InOrder
  <2>6. f[i] = Memory!Free(f[i - 1], list[i])
    BY <1>5, <2>5
  <2>7. i \in 0..n /\ InOrder(f[i], Left(i))
    BY <1>1, <2>3, <2>4, <2>6
  <2> QED BY <2>6, <2>7
<1>8. \A i \in 0..n : i \in Good
  <2> HIDE DEF Good
  <2> QED BY <1>1, <1>6, <1>7, Stepwise
<1>9. \A i \in 0..n : InOrder(f[i], Left(i))
  <2> HIDE DEF Left
  <2> QED BY <1>8
<1>10. \A i \in 1..n : f[i] = Memory!Free(f[i - 1], list[i])
  <2> HIDE DEF Left
  <2> TAKE i \in 1..n
  <2>1. i \in Good /\ i # 0
    <3> HIDE DEF Good
    <3> QED BY <1>1, <1>8
  <2> QED BY <2>1
<1> HIDE DEF Good
<1> DEFINE Steps(g) == [i \in 0..n |-> IF i = 0 THEN s ELSE Memory!Free(g[i - 1], list[i])]
           after == CHOOSE g : g = Steps(g)
<1>11. f = Steps(f)
  <2>1. \A i \in 0..n : f[i] = IF i = 0 THEN s ELSE Memory!Free(f[i - 1], list[i])
    <3> TAKE i \in 0..n
    <3>1. i = 0 \/ i \in 1..n
      BY <1>1
    <3> QED BY <1>4, <1>10, <3>1
  <2> QED BY <1>4, <2>1
<1>12. after = Steps(after)
  <2> HIDE DEF Steps
  <2>1. \E g : g = Steps(g)
    BY <1>11
  <2> QED BY <2>1
<1>13. Memory!FreeAll(s, list) = after[n]
  BY DEF Memory!FreeAll, n
<1> HIDE DEF after
<1>14. /\ after[0] = s
       /\ \A i \in 1..n : after[i] = Memory!Free(after[i - 1], list[i])
  BY <1>1, <1>12
<1>15. \A i \in 0..n : after[i] = f[i]
  <2> DEFINE Same == {i \in 0..n : after[i] = f[i]}
  <2>1. 0 \in Same
    BY <1>1, <1>4, <1>14
  <2>2. ASSUME NEW i \in 1..n, i - 1 \in Same
        PROVE  i \in Same
    <3>1. i \in 0..n /\ after[i - 1] = f[i - 1]
      BY <1>1, <2>2
    <3> QED BY <1>14, <1>10, <3>1
  <2> HIDE DEF Same
  <2>3. \A i \in 0..n : i \in Same
    BY <1>1, <2>1, <2>2, Stepwise
  <2> QED BY <2>3 DEF Same
<1>16. InOrder(f[n], Left(n))
  <2>1. n \in 0..n
    BY <1>1
  <2> HIDE DEF Left
  <2> QED BY <1>9, <2>1
<1>17. Left(n) = R \ ListRange(list)
  BY <1>1 DEF ListRange
<1> HIDE DEF Left
<1> QED BY <1>1, <1>13, <1>15, <1>16, <1>17
-----------------------------------------------------------------------------
(* A new block is apart from all that the program has.                     *)

LEMMA PieceMeans ==
  ASSUME NEW b \in Given
  PROVE  /\ Piece(b).at = b.at /\ Piece(b).size = Memory!Align(b.size)
         /\ b.at \in Int /\ b.size \in Nat
         /\ Memory!Align(b.size) \in Nat /\ Memory!Align(b.size) >= 1
         /\ Memory!Align(b.size) >= b.size
         /\ Piece(b) \in Given
<1>1. b.at \in Int /\ b.size \in Nat
  BY DEF Given
<1>2. Piece(b) = [at |-> b.at, size |-> Memory!Align(b.size)]
  BY DEF Piece, Memory!Block
<1> QED BY <1>1, <1>2, AlignFits DEF Given

LEMMA ApartInside ==
  ASSUME NEW p \in Given, NEW m \in Given, NEW b \in Given, Inside(p, m), Memory!Apart(b, m)
  PROVE  Memory!Apart(p, b) /\ Memory!Apart(b, p)
BY DEF Given, Inside, Memory!Apart

(* What operator new gives is apart from all that it gave.                 *)
LEMMA TakenMeans ==
  ASSUME NEW s \in AllocatorStates, MallocInOrder(s), NEW size \in Nat, size >= 1,
         NEW b \in Memory!Malloc(s, size)
  PROVE  /\ b \in Given /\ b.at >= 1 /\ b.size = size /\ b = Memory!Block(b.at, size)
         /\ \A c \in s.malloc : Memory!Apart(b, c) /\ b # c
         /\ \A m \in s.malloc \cup {b} : m.at >= 1 /\ m.size >= 1
         /\ \A m, n \in s.malloc \cup {b} : m # n => Memory!Apart(m, n)
<1>1. PICK at \in 1..(MaxAddress - size + 1) : b = [at |-> at, size |-> size]
  BY DEF Memory!Malloc, Memory!Block
<1>2. b \in Given /\ b.at >= 1 /\ b.size = size
  BY <1>1, AllocatorAssumption DEF Given
<1>3. \A c \in s.malloc : Memory!Apart(b, c) /\ c \in Given
  BY DEF Memory!Malloc, AllocatorStates
<1>4. \A c \in s.malloc : b # c /\ Memory!Apart(c, b)
  BY <1>2, <1>3 DEF Memory!Apart, Given
<1>5. b = Memory!Block(b.at, size)
  BY <1>1 DEF Memory!Block
<1>6. \A m \in s.malloc \cup {b} : m.at >= 1 /\ m.size >= 1
  BY <1>2 DEF MallocInOrder
<1>7. \A m, n \in s.malloc \cup {b} : m # n => Memory!Apart(m, n)
  BY <1>3, <1>4 DEF MallocInOrder
<1> QED BY <1>2, <1>3, <1>4, <1>5, <1>6, <1>7

LEMMA ListWithOne ==
  ASSUME NEW list \in Seq(Given), NEW x \in Given
  PROVE  /\ Append(list, x) \in Seq(Given)
         /\ ListRange(Append(list, x)) = ListRange(list) \cup {x}
<1>1. PICK k \in Nat : k = Len(list)
  OBVIOUS
<1>2. PICK more : more = Append(list, x)
  OBVIOUS
<1>3. /\ more \in Seq(Given) /\ DOMAIN more = 1..(k + 1) /\ more[k + 1] = x
      /\ \A i \in 1..k : more[i] = list[i]
      /\ DOMAIN list = 1..k
  BY <1>1, <1>2
<1>4. \A i : i \in 1..(k + 1) <=> i \in 1..k \/ i = k + 1
  OBVIOUS
<1>5. \A y : (\E i \in 1..(k + 1) : y = more[i]) <=> (\E i \in 1..k : y = list[i]) \/ y = x
  BY <1>3, <1>4
<1>6. \A y : y \in ListRange(more) <=> y \in ListRange(list) \/ y = x
  BY <1>3, <1>5 DEF ListRange
<1> QED BY <1>2, <1>3, <1>6

(* In the rest of the current pool.                                        *)
LEMMA BumpFits ==
  ASSUME NEW s \in AllocatorStates, NEW R, R \subseteq Given,
         MallocInOrder(s), PoolInOrder(s, R),
         NEW size \in Nat, NEW n \in Nat, n = Memory!Align(size), n <= s.remaining,
         NEW t, t = Memory!Bump(s, n), NEW b, b = Memory!Block(s.position, size)
  PROVE  /\ b \in Given /\ b \notin R
         /\ t \in AllocatorStates /\ MallocInOrder(t) /\ PoolInOrder(t, R \cup {b})
<1>1. s.position \in Int /\ s.remaining \in Int /\ s.start \in Int
  BY DEF AllocatorStates
<1>2. b \in Given /\ b.at = s.position /\ b.size = size /\ n >= 1 /\ n >= size
  BY <1>1, AlignFits DEF Memory!Block, Given
<1>3. s.start # 0
  BY <1>1, <1>2 DEF PoolInOrder
<1>4. /\ Pool(s) \in s.malloc /\ s.start <= s.position
      /\ s.position + s.remaining = s.start + kNewPoolSize
  BY <1>3 DEF PoolInOrder
<1>5. Pool(s).at = s.start /\ Pool(s).size = kNewPoolSize
  BY DEF Pool, Memory!Block
<1>6. Piece(b).at = s.position /\ Piece(b).size = n
  BY <1>2, PieceMeans
<1>7. t = [s EXCEPT !.position = s.position + n, !.remaining = s.remaining - n]
  BY DEF Memory!Bump
<1>8. /\ t \in AllocatorStates
      /\ t.position = s.position + n /\ t.remaining = s.remaining - n
      /\ t.start = s.start /\ t.malloc = s.malloc /\ t.pools = s.pools
      /\ t.held = s.held /\ t.written = s.written
  <2>1. PICK p \in Int, r \in Int : p = s.position + n /\ r = s.remaining - n
    BY <1>1
  <2>2. t = [s EXCEPT !.position = p, !.remaining = r]
    BY <1>7, <2>1
  <2>3. /\ t \in AllocatorStates
        /\ t.position = p /\ t.remaining = r
        /\ t.start = s.start /\ t.malloc = s.malloc /\ t.pools = s.pools
        /\ t.held = s.held /\ t.written = s.written
    BY <2>2 DEF AllocatorStates
  <2> QED BY <2>1, <2>3
<1>9. Inside(Piece(b), Pool(s))
  BY <1>1, <1>2, <1>4, <1>5, <1>6, AllocatorAssumption DEF Inside
<1>10. ASSUME NEW c \in R
       PROVE  /\ Memory!Apart(Piece(c), Piece(b)) /\ Memory!Apart(Piece(b), Piece(c)) /\ c # b
              /\ \/ Memory!Apart(Piece(c), Pool(s))
                 \/ s.start <= c.at /\ c.at + Memory!Align(c.size) <= t.position
  <2>1. PICK m \in Nat : m = Memory!Align(c.size) /\ m >= 1
    BY PieceMeans
  <2>2. c \in Given /\ Piece(c).at = c.at /\ Piece(c).size = m /\ c.at \in Int
    BY <2>1, PieceMeans
  <2>3. CASE Memory!Apart(Piece(c), Pool(s))
    <3>1. Memory!Apart(Piece(c), Piece(b)) /\ Memory!Apart(Piece(b), Piece(c))
      BY <1>1, <1>2, <1>5, <1>6, <1>9, <2>2, <2>3, AllocatorAssumption
         DEF Memory!Apart, Inside
    <3> QED BY <1>1, <1>2, <1>6, <2>1, <2>2, <2>3, <3>1 DEF Memory!Apart
  <2>4. CASE s.start <= c.at /\ c.at + m <= s.position
    BY <1>1, <1>2, <1>6, <1>8, <2>1, <2>2, <2>4 DEF Memory!Apart
  <2> QED BY <1>3, <2>1, <2>3, <2>4 DEF PoolInOrder
<1>11. MallocInOrder(t)
  BY <1>8 DEF MallocInOrder
<1>12. Pool(t) = Pool(s)
  BY <1>8 DEF Pool
<1>13. t.start <= b.at /\ b.at + Memory!Align(b.size) <= t.position
  BY <1>1, <1>2, <1>4, <1>8
<1>14. \A c \in R \cup {b} : \/ Memory!Apart(Piece(c), Pool(t))
                             \/ t.start <= c.at /\ c.at + Memory!Align(c.size) <= t.position
  BY <1>8, <1>10, <1>12, <1>13
<1>15. \A c \in R \cup {b} : \E m \in t.malloc : Inside(Piece(c), m)
  BY <1>4, <1>8, <1>9 DEF PoolInOrder
<1>16. \A c, d \in R \cup {b} : c # d => Memory!Apart(Piece(c), Piece(d))
  BY <1>10 DEF PoolInOrder
<1>17. /\ t.start <= t.position /\ 0 <= t.remaining
       /\ t.position + t.remaining = t.start + kNewPoolSize
  BY <1>1, <1>2, <1>4, <1>8, AllocatorAssumption
<1>18. ListRange(t.pools) = t.malloc /\ t.held = <<>> /\ t.written = {}
  BY <1>8 DEF PoolInOrder
<1>19. PoolInOrder(t, R \cup {b})
  BY <1>3, <1>4, <1>8, <1>12, <1>14, <1>15, <1>16, <1>17, <1>18 DEF PoolInOrder
<1> QED BY <1>2, <1>8, <1>10, <1>11, <1>19

(* What another pool, or a block of its own, adds to the allocator.         *)
Grown(t, R, b, g) ==
  /\ b \notin R
  /\ MallocInOrder(t)
  /\ ListRange(t.pools) = t.malloc /\ t.held = <<>> /\ t.written = {}
  /\ \A c \in R \cup {b} : \E m \in t.malloc : Inside(Piece(c), m)
  /\ \A c, d \in R \cup {b} : c # d => Memory!Apart(Piece(c), Piece(d))
  /\ \A c \in R : Memory!Apart(Piece(c), g)

LEMMA TakeKeeps ==
  ASSUME NEW s \in AllocatorStates, NEW R, R \subseteq Given,
         MallocInOrder(s), PoolInOrder(s, R),
         NEW k \in Nat, k >= 1, NEW g \in Memory!Malloc(s, k),
         NEW b \in Given, Inside(Piece(b), g),
         NEW t \in AllocatorStates,
         t.malloc = s.malloc \cup {g}, t.pools = Append(s.pools, g),
         t.held = s.held, t.written = s.written
  PROVE  Grown(t, R, b, g)
<1>1. /\ g \in Given /\ g.at >= 1 /\ g.size = k /\ g = Memory!Block(g.at, k)
      /\ \A c \in s.malloc : Memory!Apart(g, c) /\ g # c
      /\ \A m \in s.malloc \cup {g} : m.at >= 1 /\ m.size >= 1
      /\ \A m, n \in s.malloc \cup {g} : m # n => Memory!Apart(m, n)
  BY TakenMeans
<1>2. MallocInOrder(t)
  BY <1>1 DEF MallocInOrder
<1>3. ListRange(t.pools) = t.malloc /\ t.held = <<>> /\ t.written = {}
  <2>1. s.pools \in Seq(Given)
    BY DEF AllocatorStates
  <2>2. ListRange(Append(s.pools, g)) = ListRange(s.pools) \cup {g}
    BY <1>1, <2>1, ListWithOne
  <2> QED BY <2>2 DEF PoolInOrder
<1>4. ASSUME NEW c \in R
      PROVE  /\ Memory!Apart(Piece(c), g)
             /\ Memory!Apart(Piece(c), Piece(b)) /\ Memory!Apart(Piece(b), Piece(c)) /\ c # b
             /\ \E m \in t.malloc : Inside(Piece(c), m)
  <2>1. PICK m \in s.malloc : Inside(Piece(c), m)
    BY DEF PoolInOrder
  <2>2. m \in Given /\ Piece(c) \in Given /\ Memory!Apart(g, m)
    BY <1>1, PieceMeans DEF AllocatorStates
  <2>3. Memory!Apart(Piece(c), g)
    BY <1>1, <2>1, <2>2, ApartInside
  <2>4. Piece(b) \in Given /\ Piece(b).size >= 1
    BY PieceMeans
  <2>5. Memory!Apart(Piece(b), Piece(c)) /\ Memory!Apart(Piece(c), Piece(b))
    BY <1>1, <2>2, <2>3, <2>4, ApartInside
  <2>6. c # b
    BY <2>4, <2>5 DEF Memory!Apart, Given
  <2> QED BY <2>1, <2>3, <2>5, <2>6
<1>5. \A c \in R \cup {b} : \E m \in t.malloc : Inside(Piece(c), m)
  BY <1>4
<1>6. \A c, d \in R \cup {b} : c # d => Memory!Apart(Piece(c), Piece(d))
  BY <1>4 DEF PoolInOrder
<1> QED BY <1>2, <1>3, <1>4, <1>5, <1>6 DEF Grown

LEMMA SeparateFits ==
  ASSUME NEW s \in AllocatorStates, NEW R, R \subseteq Given,
         MallocInOrder(s), PoolInOrder(s, R),
         NEW size \in Nat, NEW n \in Nat, n = Memory!Align(size),
         NEW g \in Memory!Malloc(s, n),
         NEW t, t = [Memory!Taken(s, g) EXCEPT !.pools = Append(@, g)],
         NEW b, b = Memory!Block(g.at, size)
  PROVE  /\ b \in Given /\ b \notin R
         /\ t \in AllocatorStates /\ MallocInOrder(t) /\ PoolInOrder(t, R \cup {b})
<1>1. n >= 1 /\ n >= size
  BY AlignFits
<1>2. /\ g \in Given /\ g.at >= 1 /\ g.size = n /\ g = Memory!Block(g.at, n)
      /\ \A c \in s.malloc : Memory!Apart(g, c) /\ g # c
  BY <1>1, TakenMeans
<1>3. b \in Given /\ b.at = g.at /\ b.size = size
  BY <1>2 DEF Given, Memory!Block
<1>4. Piece(b) = g /\ Inside(g, g)
  BY <1>2, <1>3 DEF Piece, Inside, Given
<1>5. PICK more \in Seq(Given) : more = Append(s.pools, g)
  BY <1>2, ListWithOne DEF AllocatorStates
<1>6. t = [s EXCEPT !.malloc = s.malloc \cup {g}, !.pools = more]
  <2>1. Memory!Taken(s, g) = [s EXCEPT !.malloc = s.malloc \cup {g}]
    BY DEF Memory!Taken
  <2> QED BY <1>5, <2>1 DEF AllocatorStates
<1>7. /\ t \in AllocatorStates
      /\ t.malloc = s.malloc \cup {g} /\ t.pools = more
      /\ t.start = s.start /\ t.position = s.position /\ t.remaining = s.remaining
      /\ t.held = s.held /\ t.written = s.written
  <2>1. PICK M \in SUBSET Given : M = s.malloc \cup {g}
    BY <1>2 DEF AllocatorStates
  <2>2. t = [s EXCEPT !.malloc = M, !.pools = more]
    BY <1>6, <2>1
  <2>3. /\ t \in AllocatorStates
        /\ t.malloc = M /\ t.pools = more
        /\ t.start = s.start /\ t.position = s.position /\ t.remaining = s.remaining
        /\ t.held = s.held /\ t.written = s.written
    BY <2>2 DEF AllocatorStates
  <2> QED BY <2>1, <2>3
<1>8. /\ b \notin R
      /\ MallocInOrder(t)
      /\ ListRange(t.pools) = t.malloc /\ t.held = <<>> /\ t.written = {}
      /\ \A c \in R \cup {b} : \E m \in t.malloc : Inside(Piece(c), m)
      /\ \A c, d \in R \cup {b} : c # d => Memory!Apart(Piece(c), Piece(d))
      /\ \A c \in R : Memory!Apart(Piece(c), g)
  <2>1. Inside(Piece(b), g)
    BY <1>4
  <2>2. t.pools = Append(s.pools, g)
    BY <1>5, <1>7
  <2>3. Grown(t, R, b, g)
    BY <1>1, <1>3, <1>7, <2>1, <2>2, TakeKeeps, Zenon
  <2> QED BY <2>3 DEF Grown
<1>9. Pool(t) = Pool(s)
  BY <1>7 DEF Pool
<1>10. ASSUME t.start # 0, NEW c \in R \cup {b}
       PROVE  \/ Memory!Apart(Piece(c), Pool(t))
              \/ t.start <= c.at /\ c.at + Memory!Align(c.size) <= t.position
  <2>1. CASE c \in R
    BY <1>7, <1>9, <1>10, <2>1 DEF PoolInOrder
  <2>2. CASE c = b
    <3>1. Pool(s) \in s.malloc
      BY <1>7, <1>10 DEF PoolInOrder
    <3>2. Memory!Apart(g, Pool(s))
      BY <1>2, <3>1
    <3> QED BY <1>4, <1>9, <2>2, <3>2
  <2> QED BY <2>1, <2>2
<1>11. t.start = 0 => t.position = 0 /\ t.remaining = 0
  BY <1>7 DEF PoolInOrder
<1>12. t.start # 0 => /\ Pool(t) \in t.malloc
                      /\ t.start <= t.position /\ 0 <= t.remaining
                      /\ t.position + t.remaining = t.start + kNewPoolSize
  BY <1>7, <1>9 DEF PoolInOrder
<1>13. PoolInOrder(t, R \cup {b})
  BY <1>8, <1>10, <1>11, <1>12 DEF PoolInOrder
<1> QED BY <1>3, <1>7, <1>8, <1>13

LEMMA NewPoolFits ==
  ASSUME NEW s \in AllocatorStates, NEW R, R \subseteq Given,
         MallocInOrder(s), PoolInOrder(s, R),
         NEW size \in Nat, NEW n \in Nat, n = Memory!Align(size), n <= kNewPoolSize,
         NEW g \in Memory!Malloc(s, kNewPoolSize),
         NEW t, t = Memory!Bump(Memory!NewPool(s, g), n),
         NEW b, b = Memory!Block(g.at, size)
  PROVE  /\ b \in Given /\ b \notin R
         /\ t \in AllocatorStates /\ MallocInOrder(t) /\ PoolInOrder(t, R \cup {b})
<1>1. n >= 1 /\ n >= size /\ kNewPoolSize \in Nat /\ kNewPoolSize >= 1
  BY AlignFits, AllocatorAssumption
<1>2. /\ g \in Given /\ g.at >= 1 /\ g.size = kNewPoolSize
      /\ g = Memory!Block(g.at, kNewPoolSize) /\ g.at \in Int
  BY <1>1, TakenMeans DEF Given
<1>3. b \in Given /\ b.at = g.at /\ b.size = size
  BY <1>2 DEF Given, Memory!Block
<1>4. Piece(b).at = g.at /\ Piece(b).size = n
  BY <1>3, PieceMeans
<1>5. Inside(Piece(b), g)
  BY <1>1, <1>2, <1>4 DEF Inside
<1>6. PICK more \in Seq(Given) : more = Append(s.pools, g)
  BY <1>2, ListWithOne DEF AllocatorStates
<1>7. PICK p \in Int, r \in Int : p = g.at + n /\ r = kNewPoolSize - n
  BY <1>1, <1>2
<1>8. /\ t \in AllocatorStates
      /\ t.malloc = s.malloc \cup {g} /\ t.pools = more
      /\ t.start = g.at /\ t.position = p /\ t.remaining = r
      /\ t.held = s.held /\ t.written = s.written
  <2>1. PICK u : u = Memory!NewPool(s, g)
    OBVIOUS
  <2>2. Memory!Taken(s, g) = [s EXCEPT !.malloc = s.malloc \cup {g}]
    BY DEF Memory!Taken
  <2>3. u = [s EXCEPT !.malloc = s.malloc \cup {g}, !.pools = more,
                      !.start = g.at, !.position = g.at, !.remaining = kNewPoolSize]
    <3>1. PICK v : v = [s EXCEPT !.malloc = s.malloc \cup {g}]
      OBVIOUS
    <3>2. v.pools = s.pools
      BY <3>1 DEF AllocatorStates
    <3>3. u = [v EXCEPT !.pools = more, !.start = g.at, !.position = g.at,
                        !.remaining = kNewPoolSize]
      BY <1>2, <1>6, <2>1, <2>2, <3>1, <3>2 DEF Memory!NewPool
    <3> QED BY <3>1, <3>3
  <2>4. /\ u \in AllocatorStates
        /\ u.malloc = s.malloc \cup {g} /\ u.pools = more /\ u.start = g.at
        /\ u.position = g.at /\ u.remaining = kNewPoolSize
        /\ u.held = s.held /\ u.written = s.written
    <3>1. PICK M \in SUBSET Given : M = s.malloc \cup {g}
      BY <1>2 DEF AllocatorStates
    <3>2. PICK a \in Int, k \in Int : a = g.at /\ k = kNewPoolSize
      BY <1>1, <1>2
    <3>3. u = [s EXCEPT !.malloc = M, !.pools = more,
                        !.start = a, !.position = a, !.remaining = k]
      BY <2>3, <3>1, <3>2
    <3>4. u \in AllocatorStates
      BY <3>3 DEF AllocatorStates
    <3>5. /\ u.malloc = M /\ u.pools = more /\ u.start = a
          /\ u.position = a /\ u.remaining = k
          /\ u.held = s.held /\ u.written = s.written
      BY <3>3 DEF AllocatorStates
    <3> QED BY <3>1, <3>2, <3>4, <3>5
  <2>5. t = [u EXCEPT !.position = p, !.remaining = r]
    BY <1>7, <2>1, <2>4 DEF Memory!Bump
  <2> QED BY <2>4, <2>5 DEF AllocatorStates
<1>9. /\ b \notin R
      /\ MallocInOrder(t)
      /\ ListRange(t.pools) = t.malloc /\ t.held = <<>> /\ t.written = {}
      /\ \A c \in R \cup {b} : \E m \in t.malloc : Inside(Piece(c), m)
      /\ \A c, d \in R \cup {b} : c # d => Memory!Apart(Piece(c), Piece(d))
      /\ \A c \in R : Memory!Apart(Piece(c), g)
  <2>1. t.pools = Append(s.pools, g)
    BY <1>6, <1>8
  <2>2. Grown(t, R, b, g)
    BY <1>1, <1>3, <1>5, <1>8, <2>1, TakeKeeps, Zenon
  <2> QED BY <2>2 DEF Grown
<1>10. Pool(t) = g /\ g \in t.malloc /\ t.start # 0
  BY <1>2, <1>8 DEF Pool
<1>11. t.start <= b.at /\ b.at + Memory!Align(b.size) <= t.position
  BY <1>2, <1>3, <1>7, <1>8
<1>12. \A c \in R \cup {b} : \/ Memory!Apart(Piece(c), Pool(t))
                             \/ t.start <= c.at /\ c.at + Memory!Align(c.size) <= t.position
  BY <1>9, <1>10, <1>11
<1>13. /\ t.start <= t.position /\ 0 <= t.remaining
       /\ t.position + t.remaining = t.start + kNewPoolSize
  BY <1>1, <1>2, <1>7, <1>8
<1>14. PoolInOrder(t, R \cup {b})
  BY <1>9, <1>10, <1>12, <1>13 DEF PoolInOrder
<1> QED BY <1>3, <1>8, <1>9, <1>14

LEMMA PoolAllocateFits ==
  ASSUME NEW s \in AllocatorStates, NEW R, R \subseteq Given,
         MallocInOrder(s), PoolInOrder(s, R),
         NEW size \in Nat, NEW given \in Memory!PoolAllocate(s, size),
         NEW t, t = given.state, NEW b, b = Memory!Block(given.at, size)
  PROVE  /\ b \in Given /\ b \notin R
         /\ t \in AllocatorStates /\ MallocInOrder(t) /\ PoolInOrder(t, R \cup {b})
<1>1. PICK n \in Nat : n = Memory!Align(size)
  BY AlignFits
<1>2. s.remaining \in Int /\ kSeparateAllocationThreshold <= kNewPoolSize
      /\ kSeparateAllocationThreshold \in Nat /\ kNewPoolSize \in Nat
  BY AllocatorAssumption DEF AllocatorStates
<1>3. CASE n <= s.remaining
  <2>1. given = Memory!Allocated(Memory!Bump(s, n), s.position)
    BY <1>1, <1>2, <1>3 DEF Memory!PoolAllocate
  <2>2. t = Memory!Bump(s, n) /\ b = Memory!Block(s.position, size)
    BY <2>1 DEF Memory!Allocated
  <2> QED BY <1>1, <1>3, <2>2, BumpFits
<1>4. CASE n > s.remaining /\ n > kSeparateAllocationThreshold
  <2>1. /\ ~(Memory!Align(size) <= s.remaining)
        /\ Memory!Align(size) > s.remaining
        /\ Memory!Align(size) > kSeparateAllocationThreshold
    BY <1>1, <1>2, <1>4
  <2>2. PICK g \in Memory!Malloc(s, Memory!Align(size)) :
          given = Memory!Allocated([Memory!Taken(s, g) EXCEPT !.pools = Append(@, g)], g.at)
    <3>1. Memory!PoolAllocate(s, size) =
            {Memory!Allocated([Memory!Taken(s, g) EXCEPT !.pools = Append(@, g)], g.at) :
               g \in Memory!Malloc(s, Memory!Align(size))}
      BY <2>1, Zenon DEF Memory!PoolAllocate
    <3> QED BY <3>1
  <2>3. /\ t = [Memory!Taken(s, g) EXCEPT !.pools = Append(@, g)]
        /\ b = Memory!Block(g.at, size)
    BY <2>2 DEF Memory!Allocated
  <2> QED BY <1>1, <2>3, SeparateFits
<1>5. CASE n > s.remaining /\ n <= kSeparateAllocationThreshold
  <2>1. Memory!PoolAllocate(s, size) =
          {Memory!Allocated(Memory!Bump(Memory!NewPool(s, g), n), g.at) :
             g \in Memory!Malloc(s, kNewPoolSize)}
    BY <1>1, <1>2, <1>5 DEF Memory!PoolAllocate
  <2>2. PICK g \in Memory!Malloc(s, kNewPoolSize) :
          given = Memory!Allocated(Memory!Bump(Memory!NewPool(s, g), n), g.at)
    BY <2>1
  <2>3. t = Memory!Bump(Memory!NewPool(s, g), n) /\ b = Memory!Block(g.at, size)
    BY <2>2 DEF Memory!Allocated
  <2>4. n <= kNewPoolSize
    BY <1>2, <1>5
  <2> QED BY <1>1, <2>3, <2>4, NewPoolFits
<1> QED BY <1>2, <1>3, <1>4, <1>5

LEMMA DebugAllocateFits ==
  ASSUME NEW s \in AllocatorStates, NEW R, R \subseteq Given,
         MallocInOrder(s), HeldInOrder(s, R, {}),
         NEW size \in Nat, NEW given \in Memory!DebugAllocate(s, size),
         NEW t, t = given.state, NEW b, b = Memory!Block(given.at, size)
  PROVE  /\ b \in Given /\ b \notin R
         /\ t \in AllocatorStates /\ MallocInOrder(t) /\ HeldInOrder(t, R \cup {b}, {})
<1>1. PICK k \in Nat : k = size + 2 * kGuardByteCount /\ k >= 1
  BY AllocatorAssumption
<1>2. PICK g \in Memory!Malloc(s, k) :
        given = LET c == Memory!Block(g.at + kGuardByteCount, size)
                IN Memory!Allocated([Memory!Taken(s, g) EXCEPT
                                       !.allocations = @ \cup {c},
                                       !.written = @ \ Memory!GuardBytes(c)], c.at)
  BY <1>1 DEF Memory!DebugAllocate
<1>3. /\ g \in Given /\ g.at >= 1 /\ g.size = k /\ g = Memory!Block(g.at, k) /\ g.at \in Int
      /\ \A c \in s.malloc : Memory!Apart(g, c) /\ g # c
      /\ \A m \in s.malloc \cup {g} : m.at >= 1 /\ m.size >= 1
      /\ \A m, n \in s.malloc \cup {g} : m # n => Memory!Apart(m, n)
  BY <1>1, TakenMeans DEF Given
<1>4. /\ b = Memory!Block(g.at + kGuardByteCount, size)
      /\ t = [Memory!Taken(s, g) EXCEPT !.allocations = @ \cup {b},
                                        !.written = @ \ Memory!GuardBytes(b)]
  <2>1. PICK c : c = Memory!Block(g.at + kGuardByteCount, size)
    OBVIOUS
  <2>2. given = Memory!Allocated([Memory!Taken(s, g) EXCEPT !.allocations = @ \cup {c},
                                    !.written = @ \ Memory!GuardBytes(c)], c.at)
    BY <1>2, <2>1
  <2>3. c.at = g.at + kGuardByteCount
    BY <2>1 DEF Memory!Block
  <2>4. b = c
    BY <2>1, <2>2, <2>3 DEF Memory!Allocated
  <2> QED BY <2>1, <2>2, <2>4 DEF Memory!Allocated
<1>5. b \in Given /\ b.at = g.at + kGuardByteCount /\ b.size = size
  BY <1>3, <1>4, AllocatorAssumption DEF Given, Memory!Block
<1>6. Memory!Guarded(b) = g
  <2>1. b.at - kGuardByteCount = g.at /\ b.size + 2 * kGuardByteCount = k
    BY <1>1, <1>3, <1>5, AllocatorAssumption
  <2> QED BY <1>3, <2>1 DEF Memory!Guarded
<1>7. PICK W \in SUBSET Int : W = s.written \ Memory!GuardBytes(b)
  BY DEF AllocatorStates
<1>8. PICK M \in SUBSET Given, A \in SUBSET Given :
        M = s.malloc \cup {g} /\ A = s.allocations \cup {b}
  BY <1>3, <1>5 DEF AllocatorStates
<1>9. t = [s EXCEPT !.malloc = M, !.allocations = A, !.written = W]
  <2>1. PICK u : u = Memory!Taken(s, g)
    OBVIOUS
  <2>2. u = [s EXCEPT !.malloc = M]
    BY <1>8, <2>1 DEF Memory!Taken
  <2>3. u.allocations = s.allocations /\ u.written = s.written
    BY <2>2 DEF AllocatorStates
  <2>4. t = [u EXCEPT !.allocations = A, !.written = W]
    BY <1>4, <1>7, <1>8, <2>1, <2>3
  <2> QED BY <2>2, <2>4
<1>10. /\ t \in AllocatorStates
       /\ t.malloc = M /\ t.allocations = A /\ t.written = W
       /\ t.held = s.held /\ t.failed = s.failed
  BY <1>9 DEF AllocatorStates
<1>11. MallocInOrder(t)
  BY <1>3, <1>8, <1>10 DEF MallocInOrder
<1>12. /\ s.allocations = R
       /\ s.malloc = {Memory!Guarded(c) : c \in R} \cup ListRange(s.held) \cup {}
  BY DEF HeldInOrder
<1>13. g \notin s.malloc
  BY <1>3
<1>14. b \notin R /\ g \notin ListRange(t.held)
  BY <1>6, <1>10, <1>12, <1>13
<1>15. t.malloc = {Memory!Guarded(c) : c \in R \cup {b}} \cup ListRange(t.held) \cup {}
  <2>1. {Memory!Guarded(c) : c \in R \cup {b}} = {Memory!Guarded(c) : c \in R} \cup {g}
    BY <1>6
  <2> QED BY <1>8, <1>10, <1>12, <2>1
<1>16. ASSUME ~t.failed, NEW x \in t.written
       PROVE  x \in Memory!Watched(t)
  <2>1. x \in s.written /\ ~s.failed
    BY <1>7, <1>10, <1>16
  <2>2. x \in Memory!Watched(s)
    BY <2>1 DEF HeldInOrder
  <2> QED BY <1>8, <1>10, <2>2, WatchedMeans
<1>17. /\ t.allocations = R \cup {b} /\ Distinct(t.held)
       /\ \A c \in R \cup {b} : Memory!Guarded(c) \notin ListRange(t.held) \cup {}
       /\ ListRange(t.held) \cap {} = {}
  BY <1>6, <1>8, <1>10, <1>12, <1>14 DEF HeldInOrder
<1>18. t.failed \/ t.written \subseteq Memory!Watched(t)
  BY <1>16
<1>19. HeldInOrder(t, R \cup {b}, {})
  BY <1>15, <1>17, <1>18 DEF HeldInOrder
<1> QED BY <1>5, <1>10, <1>11, <1>14, <1>19

LEMMA AllocateFits ==
  ASSUME NEW s, NEW R, R \subseteq Given, layer \in {"pool", "debug"}, InOrder(s, R),
         NEW size \in Nat, NEW given \in Memory!Allocate(s, size),
         NEW b, b = Memory!Block(given.at, size)
  PROVE  b \in Given /\ b \notin R /\ InOrder(given.state, R \cup {b})
<1>1. s \in AllocatorStates /\ MallocInOrder(s)
  BY DEF InOrder
<1>2. PICK t : t = given.state
  OBVIOUS
<1>3. CASE layer = "pool"
  <2>1. given \in Memory!PoolAllocate(s, size) /\ PoolInOrder(s, R)
    BY <1>3 DEF Memory!Allocate, InOrder
  <2>2. /\ b \in Given /\ b \notin R
        /\ t \in AllocatorStates /\ MallocInOrder(t) /\ PoolInOrder(t, R \cup {b})
    BY <1>1, <1>2, <2>1, PoolAllocateFits
  <2> QED BY <1>2, <1>3, <2>2 DEF InOrder
<1>4. CASE layer = "debug"
  <2>1. given \in Memory!DebugAllocate(s, size) /\ HeldInOrder(s, R, {})
    BY <1>4 DEF Memory!Allocate, InOrder
  <2>2. /\ b \in Given /\ b \notin R
        /\ t \in AllocatorStates /\ MallocInOrder(t) /\ HeldInOrder(t, R \cup {b}, {})
    BY <1>1, <1>2, <2>1, DebugAllocateFits
  <2> QED BY <1>2, <1>4, <2>2 DEF InOrder
<1> QED BY <1>3, <1>4

-----------------------------------------------------------------------------
(* What the program has, and what is withdrawn, as lists.                  *)

LEMMA EmptyList == ListRange(<<>>) = {} /\ Distinct(<<>>) /\ <<>> \in Seq(Given)
BY DEF ListRange, Distinct

LEMMA FrontOfList ==
  ASSUME NEW list \in Seq(Given), Distinct(list), list # <<>>
  PROVE  /\ Memory!Front(list) \in Seq(Given) /\ Distinct(Memory!Front(list))
         /\ Memory!Last(list) \in ListRange(list)
         /\ ListRange(Memory!Front(list)) = ListRange(list) \ {Memory!Last(list)}
<1>1. PICK k \in Nat : k = Len(list)
  OBVIOUS
<1>2. DOMAIN list = 1..k /\ k >= 1 /\ \A i \in 1..k : list[i] \in Given
  BY <1>1, EmptySeq
<1>3. PICK x, front : x = list[k] /\ front = SubSeq(list, 1, k - 1)
  OBVIOUS
<1>4. Memory!Front(list) = front /\ Memory!Last(list) = x
  BY <1>1, <1>3 DEF Memory!Front, Memory!Last
<1>5. front = [i \in 1..(k - 1) |-> list[i]]
  <2>1. front = [i \in 1..(k - 1 - 1 + 1) |-> list[1 + i - 1]]
    BY <1>3
  <2>2. k - 1 - 1 + 1 = k - 1 /\ \A i \in 1..(k - 1) : 1 + i - 1 = i
    OBVIOUS
  <2> QED BY <2>1, <2>2
<1>6. \A i \in 1..(k - 1) : i \in 1..k /\ i # k
  BY <1>2
<1>7. front \in Seq(Given) /\ DOMAIN front = 1..(k - 1) /\ \A i \in 1..(k - 1) : front[i] = list[i]
  <2>1. front \in [1..(k - 1) -> Given] /\ k - 1 \in Nat
    BY <1>2, <1>5, <1>6
  <2> QED BY <1>5, <2>1
<1>8. Distinct(front)
  BY <1>2, <1>6, <1>7 DEF Distinct
<1>9. k \in 1..k /\ \A i \in 1..k : i \in 1..(k - 1) \/ i = k
  BY <1>2
<1>10. \A i \in 1..(k - 1) : list[i] # x
  BY <1>2, <1>3, <1>6, <1>9 DEF Distinct
<1>11. \A y : (\E i \in 1..(k - 1) : y = front[i]) <=> (\E i \in 1..k : y = list[i]) /\ y # x
  <2> TAKE y
  <2>1. ASSUME NEW i \in 1..(k - 1), y = front[i]
        PROVE  (\E j \in 1..k : y = list[j]) /\ y # x
    BY <1>6, <1>7, <1>10, <2>1
  <2>2. ASSUME NEW i \in 1..k, y = list[i], y # x
        PROVE  \E j \in 1..(k - 1) : y = front[j]
    <3>1. i \in 1..(k - 1)
      BY <1>3, <1>9, <2>2
    <3> QED BY <1>7, <2>2, <3>1
  <2> QED BY <2>1, <2>2
<1>12. \A y : y \in ListRange(front) <=> y \in ListRange(list) /\ y # x
  <2>1. \A y : y \in ListRange(front) <=> \E i \in 1..(k - 1) : y = front[i]
    BY <1>7 DEF ListRange
  <2>2. \A y : y \in ListRange(list) <=> \E i \in 1..k : y = list[i]
    BY <1>2 DEF ListRange
  <2> QED BY <1>11, <2>1, <2>2
<1>13. x \in ListRange(list)
  BY <1>2, <1>3, <1>9 DEF ListRange
<1> QED BY <1>4, <1>7, <1>8, <1>12, <1>13

LEMMA TwoLists ==
  ASSUME NEW a \in Seq(Given), NEW c \in Seq(Given), Distinct(a), Distinct(c),
         ListRange(a) \cap ListRange(c) = {}
  PROVE  /\ Distinct(a \o c)
         /\ \A i \in DOMAIN (a \o c) : (a \o c)[i] \in ListRange(a) \cup ListRange(c)
<1>1. PICK k \in Nat, m \in Nat : k = Len(a) /\ m = Len(c)
  OBVIOUS
<1>2. DOMAIN a = 1..k /\ DOMAIN c = 1..m
  BY <1>1
<1>3. PICK both : both = a \o c
  OBVIOUS
<1>4. /\ DOMAIN both = 1..(k + m)
      /\ \A i \in 1..(k + m) : both[i] = IF i <= k THEN a[i] ELSE c[i - k]
  BY <1>1, <1>3
<1>5. \A i \in 1..(k + m) : \/ i \in 1..k /\ both[i] = a[i] /\ a[i] \in ListRange(a)
                            \/ i - k \in 1..m /\ both[i] = c[i - k] /\ c[i - k] \in ListRange(c)
  <2> TAKE i \in 1..(k + m)
  <2>1. CASE i <= k
    BY <1>2, <1>4, <2>1 DEF ListRange
  <2>2. CASE i > k
    <3>1. i - k \in 1..m
      BY <2>2
    <3>2. both[i] = c[i - k]
      BY <1>4, <2>2
    <3>3. c[i - k] \in ListRange(c)
      BY <1>2, <3>1 DEF ListRange
    <3> QED BY <3>1, <3>2, <3>3
  <2> QED BY <2>1, <2>2
<1>6. Distinct(both)
  <2> SUFFICES ASSUME NEW i \in 1..(k + m), NEW j \in 1..(k + m), both[i] = both[j]
               PROVE  i = j
    BY <1>4 DEF Distinct
  <2>1. CASE i \in 1..k /\ j \in 1..k /\ a[i] = a[j]
    BY <1>2, <2>1 DEF Distinct
  <2>2. CASE i - k \in 1..m /\ j - k \in 1..m /\ c[i - k] = c[j - k]
    <3>1. i - k = j - k
      BY <1>2, <2>2 DEF Distinct
    <3> QED BY <3>1
  <2> QED BY <1>5, <2>1, <2>2
<1> QED BY <1>3, <1>4, <1>5, <1>6
-----------------------------------------------------------------------------
(* The invariant holds at first, and every step keeps it.                  *)

LEMMA FirstInv ==
  ASSUME Memory!Init
  PROVE  MemoryInv
<1>1. /\ layer \in {"pool", "debug"} /\ blocks = <<>> /\ withdrawn = <<>> /\ ended = FALSE
      /\ allocator = [malloc |-> {}, pools |-> <<>>, start |-> 0, position |-> 0,
                      remaining |-> 0, allocations |-> {}, held |-> <<>>, written |-> {},
                      failed |-> FALSE]
  BY DEF Memory!Init
<1>2. InHand = {}
  BY <1>1, EmptyList DEF InHand
<1>3. allocator \in AllocatorStates
  <2>1. <<>> \in Seq(Given) /\ 0 \in Int
    OBVIOUS
  <2> QED BY <1>1, <2>1 DEF AllocatorStates
<1>4. /\ allocator.malloc = {} /\ allocator.pools = <<>> /\ allocator.start = 0
      /\ allocator.position = 0 /\ allocator.remaining = 0 /\ allocator.allocations = {}
      /\ allocator.held = <<>> /\ allocator.written = {}
  BY <1>1
<1>5. MallocInOrder(allocator)
  BY <1>4 DEF MallocInOrder
<1>6. PoolInOrder(allocator, {})
  BY <1>4, EmptyList DEF PoolInOrder
<1>7. HeldInOrder(allocator, {}, {})
  BY <1>4, EmptyList DEF HeldInOrder
<1>8. InOrder(allocator, InHand)
  BY <1>2, <1>3, <1>5, <1>6, <1>7 DEF InOrder
<1> QED BY <1>1, <1>8, EmptyList DEF MemoryInv

(* What is withdrawn is freed before anything else is done.                *)
LEMMA WithdrawnFreed ==
  ASSUME MemoryInv, ~ended
  PROVE  /\ InOrder(Memory!DoPendingWithdraw, ListRange(blocks))
         /\ ListRange(blocks) \subseteq Given /\ InHand \subseteq Given
<1>1. /\ blocks \in Seq(Given) /\ withdrawn \in Seq(Given) /\ Distinct(withdrawn)
      /\ ListRange(blocks) \cap ListRange(withdrawn) = {}
      /\ InOrder(allocator, InHand) /\ layer \in {"pool", "debug"}
  BY DEF MemoryInv
<1>2. ListRange(blocks) \subseteq Given /\ ListRange(withdrawn) \subseteq Given
  BY <1>1 DEF ListRange
<1>3. InHand \subseteq Given /\ ListRange(withdrawn) \subseteq InHand
  BY <1>2 DEF InHand
<1>4. InOrder(Memory!FreeAll(allocator, withdrawn), InHand \ ListRange(withdrawn))
  BY <1>1, <1>3, FreeAllKeeps, Zenon
<1>5. InHand \ ListRange(withdrawn) = ListRange(blocks)
  BY <1>1 DEF InHand
<1> QED BY <1>2, <1>3, <1>4, <1>5 DEF Memory!DoPendingWithdraw

LEMMA SameOrder ==
  ASSUME NEW s, NEW R, InOrder(s, R), layer' = layer,
         allocator' = s, InHand' = R
  PROVE  InOrder(allocator, InHand)'
<1>1. InOrder(allocator', InHand')
  BY Zenon
<1>2. /\ allocator' \in AllocatorStates /\ MallocInOrder(allocator')
      /\ layer' = "pool" => PoolInOrder(allocator', InHand')
      /\ layer' = "debug" => HeldInOrder(allocator', InHand', {})
  BY <1>1 DEF InOrder
<1> QED BY <1>2 DEF InOrder

LEMMA AllocateKeepsInv ==
  ASSUME MemoryInv, ~ended, NEW size \in Sizes, Memory!AllocateBytes(size)
  PROVE  MemoryInv'
<1>1. PICK given \in Memory!Allocate(Memory!DoPendingWithdraw, size) :
        /\ allocator' = given.state
        /\ blocks' = Append(blocks, Memory!Block(given.at, size))
  BY DEF Memory!AllocateBytes
<1>2. withdrawn' = <<>> /\ layer' = layer /\ ended' = ended
  BY DEF Memory!AllocateBytes
<1>3. PICK b : b = Memory!Block(given.at, size)
  OBVIOUS
<1>4. /\ InOrder(Memory!DoPendingWithdraw, ListRange(blocks)) /\ ListRange(blocks) \subseteq Given
      /\ layer \in {"pool", "debug"} /\ size \in Nat /\ blocks \in Seq(Given) /\ Distinct(blocks)
  BY WithdrawnFreed, AllocatorAssumption DEF MemoryInv
<1>5. /\ b \in Given /\ b \notin ListRange(blocks)
      /\ InOrder(given.state, ListRange(blocks) \cup {b})
  BY <1>1, <1>3, <1>4, AllocateFits
<1>6. PICK more : more = Append(blocks, b)
  OBVIOUS
<1>7. /\ more \in Seq(Given) /\ Distinct(more)
      /\ ListRange(more) = ListRange(blocks) \cup {b}
  BY <1>4, <1>5, <1>6, ListAndOne
<1>8. blocks' = more
  BY <1>1, <1>3, <1>6
<1>9. InHand' = ListRange(blocks) \cup {b}
  BY <1>2, <1>7, <1>8, EmptyList DEF InHand
<1>10. InOrder(allocator, InHand)'
  BY <1>1, <1>2, <1>5, <1>9, SameOrder
<1> QED BY <1>2, <1>4, <1>7, <1>8, <1>10, EmptyList DEF MemoryInv

LEMMA ExtendKeepsInv ==
  ASSUME MemoryInv, ~ended, Memory!TryExtendBytes
  PROVE  MemoryInv'
<1>1. /\ allocator' = Memory!DoPendingWithdraw /\ withdrawn' = <<>>
      /\ layer' = layer /\ blocks' = blocks /\ ended' = ended
  BY DEF Memory!TryExtendBytes
<1>2. InOrder(Memory!DoPendingWithdraw, ListRange(blocks))
  BY WithdrawnFreed
<1>3. InHand' = ListRange(blocks)
  BY <1>1, EmptyList DEF InHand
<1>4. InOrder(allocator, InHand)'
  BY <1>1, <1>2, <1>3, SameOrder
<1> QED BY <1>1, <1>4, EmptyList DEF MemoryInv

LEMMA WithdrawKeepsInv ==
  ASSUME MemoryInv, ~ended, NEW b, Memory!TryWithdrawBytes(b)
  PROVE  MemoryInv'
<1>1. /\ blocks # <<>> /\ b = Memory!Last(blocks)
      /\ withdrawn' = Append(withdrawn, b) /\ blocks' = Memory!Front(blocks)
      /\ layer' = layer /\ allocator' = allocator /\ ended' = ended
  BY DEF Memory!TryWithdrawBytes
<1>2. /\ blocks \in Seq(Given) /\ withdrawn \in Seq(Given)
      /\ Distinct(blocks) /\ Distinct(withdrawn)
      /\ ListRange(blocks) \cap ListRange(withdrawn) = {}
      /\ InOrder(allocator, InHand) /\ layer \in {"pool", "debug"}
  BY DEF MemoryInv
<1>3. /\ blocks' \in Seq(Given) /\ Distinct(blocks') /\ b \in ListRange(blocks)
      /\ ListRange(blocks') = ListRange(blocks) \ {b}
  BY <1>1, <1>2, FrontOfList
<1>4. b \in Given /\ b \notin ListRange(withdrawn)
  BY <1>2, <1>3 DEF ListRange
<1>5. /\ withdrawn' \in Seq(Given) /\ Distinct(withdrawn')
      /\ ListRange(withdrawn') = ListRange(withdrawn) \cup {b}
  <2>1. PICK more : more = Append(withdrawn, b)
    OBVIOUS
  <2>2. /\ more \in Seq(Given) /\ Distinct(more)
        /\ ListRange(more) = ListRange(withdrawn) \cup {b}
    BY <1>2, <1>4, <2>1, ListAndOne
  <2> QED BY <1>1, <2>1, <2>2
<1>6. ListRange(blocks') \cap ListRange(withdrawn') = {}
  BY <1>2, <1>3, <1>5
<1>7. InHand' = InHand
  BY <1>3, <1>5 DEF InHand
<1>8. InOrder(allocator, InHand)'
  BY <1>1, <1>2, <1>7, SameOrder
<1> QED BY <1>1, <1>2, <1>3, <1>5, <1>6, <1>8 DEF MemoryInv

(* Nothing is left to the program, and the allocator gives all back.       *)
LEMMA DestroyKeepsInv ==
  ASSUME MemoryInv, ~ended, Memory!Destroy
  PROVE  MemoryInv'
<1>1. PICK s : s = Memory!FreeAll(Memory!DoPendingWithdraw, blocks)
  OBVIOUS
<1>2. /\ allocator' = IF layer = "pool" THEN Memory!PoolDestroy(s) ELSE Memory!DebugDestroy(s)
      /\ blocks' = <<>> /\ withdrawn' = <<>> /\ ended' = TRUE /\ layer' = layer
  BY <1>1 DEF Memory!Destroy
<1>3. InOrder(s, {}) /\ layer \in {"pool", "debug"}
  <2>1. /\ blocks \in Seq(Given) /\ Distinct(blocks) /\ layer \in {"pool", "debug"}
        /\ ListRange(blocks) \subseteq ListRange(blocks)
    BY DEF MemoryInv
  <2>2. InOrder(Memory!DoPendingWithdraw, ListRange(blocks)) /\ ListRange(blocks) \subseteq Given
    BY WithdrawnFreed
  <2>3. InOrder(s, ListRange(blocks) \ ListRange(blocks))
    BY <1>1, <2>1, <2>2, FreeAllKeeps, Zenon
  <2> QED BY <2>1, <2>3
<1>4. s \in AllocatorStates /\ MallocInOrder(s)
  BY <1>3 DEF InOrder
<1>5. /\ allocator'.malloc = {} /\ allocator'.held = <<>>
      /\ allocator'.failed \/ allocator'.written \subseteq Memory!Watched(allocator')
  <2>1. CASE layer = "pool"
    <3>1. PoolInOrder(s, {})
      BY <1>3, <2>1 DEF InOrder
    <3>2. Memory!Range(s.pools) = s.malloc
      BY <3>1, SameRange DEF PoolInOrder
    <3>3. allocator' = [s EXCEPT !.malloc = {}]
      BY <1>2, <2>1, <3>2 DEF Memory!PoolDestroy
    <3>4. allocator'.malloc = {} /\ allocator'.held = s.held /\ allocator'.written = s.written
      BY <1>4, <3>3 DEF AllocatorStates
    <3> QED BY <3>1, <3>4 DEF PoolInOrder
  <2>2. CASE layer = "debug"
    <3>1. HeldInOrder(s, {}, {})
      BY <1>3, <2>2 DEF InOrder
    <3>2. s.allocations = {}
      BY <3>1 DEF HeldInOrder
    <3>3. PICK c : c = Memory!Check(s, s.allocations = {})
      OBVIOUS
    <3>4. c = s
      <4>1. c = [s EXCEPT !.failed = s.failed]
        BY <1>4, <3>2, <3>3 DEF Memory!Check, AllocatorStates
      <4> QED BY <1>4, <4>1 DEF AllocatorStates
    <3>5. PICK n \in 0..Len(s.held) : n = Len(s.held)
      BY <1>4 DEF AllocatorStates
    <3>6. PICK t : t = Memory!FlushHeldAllocations(s, n)
      OBVIOUS
    <3>7. allocator' = t
      BY <1>2, <2>2, <3>3, <3>4, <3>5, <3>6 DEF Memory!DebugDestroy
    <3>8. /\ t \in AllocatorStates /\ HeldInOrder(t, {}, {})
          /\ Len(t.held) = Len(s.held) - n
      BY <1>4, <3>1, <3>6, FlushKeeps
    <3>9. t.held = <<>>
      BY <3>5, <3>8, EmptySeq DEF AllocatorStates
    <3>10. t.malloc = {} /\ (t.failed \/ t.written \subseteq Memory!Watched(t))
      BY <3>8, <3>9, EmptyList DEF HeldInOrder
    <3> QED BY <3>7, <3>9, <3>10
  <2> QED BY <1>3, <2>1, <2>2
<1>6. /\ (layer \in {"pool", "debug"})' /\ (ended \in BOOLEAN)' /\ ended'
      /\ blocks' \in Seq(Given) /\ withdrawn' \in Seq(Given)
      /\ Distinct(blocks') /\ Distinct(withdrawn')
      /\ ListRange(blocks') \cap ListRange(withdrawn') = {}
  BY <1>2, <1>3, EmptyList
<1> QED BY <1>2, <1>5, <1>6 DEF MemoryInv

LEMMA WriteKeepsInv ==
  ASSUME MemoryInv, ~ended, NEW a \in Memory!Watched(allocator), Memory!WriteOutside(a)
  PROVE  MemoryInv'
<1>1. /\ layer = "debug" /\ allocator' = [allocator EXCEPT !.written = {a}]
      /\ layer' = layer /\ blocks' = blocks /\ withdrawn' = withdrawn /\ ended' = ended
  BY DEF Memory!WriteOutside
<1>2. PICK s, R : s = allocator /\ R = InHand
  OBVIOUS
<1>3. /\ s \in AllocatorStates /\ MallocInOrder(s) /\ HeldInOrder(s, R, {})
      /\ InHand \subseteq Given
  BY <1>1, <1>2, WithdrawnFreed DEF MemoryInv, InOrder
<1>4. a \in Int
  <2>1. CASE \E b \in s.allocations : a \in Memory!GuardBytes(b)
    <3>1. PICK b \in s.allocations : a \in Memory!GuardBytes(b)
      BY <2>1
    <3>2. b \in Given
      BY <1>3 DEF AllocatorStates
    <3> QED BY <3>1, <3>2, GuardedMeans DEF Memory!GuardBytes, Memory!Bytes, Given
  <2>2. CASE \E g \in ListRange(s.held) : a \in Memory!Bytes(g)
    <3>1. PICK g \in ListRange(s.held) : a \in Memory!Bytes(g)
      BY <2>2
    <3>2. g \in Given
      BY <1>3 DEF AllocatorStates, ListRange
    <3> QED BY <3>1, <3>2 DEF Memory!Bytes, Given
  <2> QED BY <1>2, <2>1, <2>2, WatchedMeans
<1>5. PICK t : t = [s EXCEPT !.written = {a}]
  OBVIOUS
<1>6. /\ t \in AllocatorStates
      /\ t.malloc = s.malloc /\ t.held = s.held /\ t.allocations = s.allocations
      /\ t.written = {a}
  BY <1>3, <1>4, <1>5 DEF AllocatorStates
<1>7. MallocInOrder(t)
  BY <1>3, <1>6 DEF MallocInOrder
<1>8. a \in Memory!Watched(t)
  BY <1>2, <1>6, WatchedMeans
<1>9. HeldInOrder(t, R, {})
  BY <1>3, <1>6, <1>8 DEF HeldInOrder
<1>10. InOrder(t, R)
  BY <1>1, <1>6, <1>7, <1>9 DEF InOrder
<1>11. InHand' = R
  BY <1>1, <1>2 DEF InHand
<1>12. InOrder(allocator, InHand)'
  BY <1>1, <1>2, <1>5, <1>10, <1>11, SameOrder
<1> QED BY <1>1, <1>12 DEF MemoryInv

LEMMA MemoryNextKeeps == MemoryInv /\ [Memory!Next]_memoryVars => MemoryInv'
<1> SUFFICES ASSUME MemoryInv, [Memory!Next]_memoryVars
             PROVE  MemoryInv'
  OBVIOUS
<1>1. CASE Memory!Next
  <2>1. ~ended
    BY <1>1 DEF Memory!Next
  <2>2. CASE \E size \in Sizes : Memory!AllocateBytes(size)
    BY <2>1, <2>2, AllocateKeepsInv
  <2>3. CASE Memory!TryExtendBytes
    BY <2>1, <2>3, ExtendKeepsInv
  <2>4. CASE \E b \in Memory!Range(blocks) : Memory!TryWithdrawBytes(b)
    BY <2>1, <2>4, WithdrawKeepsInv
  <2>5. CASE Memory!Destroy
    BY <2>1, <2>5, DestroyKeepsInv
  <2>6. CASE \E a \in Memory!Watched(allocator) : Memory!WriteOutside(a)
    BY <2>1, <2>6, WriteKeepsInv
  <2> QED BY <1>1, <2>2, <2>3, <2>4, <2>5, <2>6 DEF Memory!Next
<1>2. CASE UNCHANGED memoryVars
  BY <1>2 DEF memoryVars, MemoryInv, InOrder, InHand
<1> QED BY <1>1, <1>2
-----------------------------------------------------------------------------
(* Blocks whose pieces, or whose guards, are apart share no byte.          *)

LEMMA ApartBytes ==
  ASSUME NEW b \in Given, NEW c \in Given, NEW p \in Given, NEW q \in Given,
         Inside(b, p), Inside(c, q), Memory!Apart(p, q)
  PROVE  Memory!Bytes(b) \cap Memory!Bytes(c) = {}
BY DEF Given, Inside, Memory!Apart, Memory!Bytes

LEMMA InsideBytes ==
  ASSUME NEW b \in Given, NEW m \in Given, Inside(b, m)
  PROVE  Memory!Bytes(b) \subseteq Memory!Bytes(m)
BY DEF Given, Inside, Memory!Bytes

LEMMA InsideItsPiece ==
  ASSUME NEW b \in Given
  PROVE  /\ Inside(b, Piece(b)) /\ Inside(b, Memory!Guarded(b))
         /\ Piece(b) \in Given /\ Memory!Guarded(b) \in Given
         /\ \A m \in Given : Inside(Piece(b), m) => Inside(b, m)
<1>1. /\ Piece(b).at = b.at /\ b.at \in Int /\ b.size \in Nat
      /\ Piece(b).size \in Nat /\ Piece(b).size >= b.size /\ Piece(b) \in Given
  BY PieceMeans
<1>2. /\ Memory!Guarded(b).at = b.at - kGuardByteCount
      /\ Memory!Guarded(b).size = b.size + 2 * kGuardByteCount
      /\ Memory!Guarded(b) \in Given
  BY GuardedMeans
<1>3. Inside(b, Piece(b))
  BY <1>1 DEF Inside
<1>4. Inside(b, Memory!Guarded(b))
  BY <1>1, <1>2, AllocatorAssumption DEF Inside
<1>5. \A m \in Given : Inside(Piece(b), m) => Inside(b, m)
  BY <1>1 DEF Inside, Given
<1> QED BY <1>1, <1>2, <1>3, <1>4, <1>5

LEMMA InOrderMeans ==
  ASSUME NEW s, NEW R, R \subseteq Given, layer \in {"pool", "debug"}, InOrder(s, R)
  PROVE  /\ \A b, c \in R : b # c => Memory!Bytes(b) \cap Memory!Bytes(c) = {}
         /\ \A b \in R : /\ \E m \in s.malloc : Memory!Bytes(b) \subseteq Memory!Bytes(m)
                         /\ Memory!Bytes(b) \cap Memory!BytesOf(ListRange(s.held)) = {}
         /\ s.failed \/ s.written \subseteq Memory!Watched(s)
<1>1. /\ s \in AllocatorStates /\ s.malloc \subseteq Given
      /\ \A m, n \in s.malloc : m # n => Memory!Apart(m, n)
  BY DEF InOrder, AllocatorStates, MallocInOrder
<1>2. CASE layer = "pool"
  <2>1. PoolInOrder(s, R)
    BY <1>2 DEF InOrder
  <2>2. ASSUME NEW b \in R, NEW c \in R, b # c
        PROVE  Memory!Bytes(b) \cap Memory!Bytes(c) = {}
    <3>1. Memory!Apart(Piece(b), Piece(c))
      BY <2>1, <2>2 DEF PoolInOrder
    <3> QED BY <3>1, InsideItsPiece, ApartBytes
  <2>3. ASSUME NEW b \in R
        PROVE  /\ \E m \in s.malloc : Memory!Bytes(b) \subseteq Memory!Bytes(m)
               /\ Memory!Bytes(b) \cap Memory!BytesOf(ListRange(s.held)) = {}
    <3>1. PICK m \in s.malloc : Inside(Piece(b), m)
      BY <2>1 DEF PoolInOrder
    <3>2. Memory!Bytes(b) \subseteq Memory!Bytes(m)
      BY <1>1, <3>1, InsideItsPiece, InsideBytes
    <3>3. ListRange(s.held) = {}
      BY <2>1, EmptyList DEF PoolInOrder
    <3>4. Memory!BytesOf(ListRange(s.held)) = {}
      BY <3>3, BytesOfMeans
    <3> QED BY <3>2, <3>4
  <2>4. s.written = {}
    BY <2>1 DEF PoolInOrder
  <2> QED BY <2>2, <2>3, <2>4
<1>3. CASE layer = "debug"
  <2>1. HeldInOrder(s, R, {})
    BY <1>3 DEF InOrder
  <2>2. \A b \in R : Memory!Guarded(b) \in s.malloc
    BY <2>1 DEF HeldInOrder
  <2>3. ASSUME NEW b \in R, NEW c \in R, b # c
        PROVE  Memory!Bytes(b) \cap Memory!Bytes(c) = {}
    <3>1. Memory!Guarded(b) # Memory!Guarded(c)
      BY <2>3, GuardedApart
    <3>2. Memory!Apart(Memory!Guarded(b), Memory!Guarded(c))
      BY <1>1, <2>2, <3>1
    <3> QED BY <3>2, InsideItsPiece, ApartBytes
  <2>4. ASSUME NEW b \in R
        PROVE  /\ \E m \in s.malloc : Memory!Bytes(b) \subseteq Memory!Bytes(m)
               /\ Memory!Bytes(b) \cap Memory!BytesOf(ListRange(s.held)) = {}
    <3>1. Memory!Bytes(b) \subseteq Memory!Bytes(Memory!Guarded(b))
      BY InsideItsPiece, InsideBytes
    <3>2. ASSUME NEW g \in ListRange(s.held)
          PROVE  Memory!Bytes(b) \cap Memory!Bytes(g) = {}
      <4>1. g \in s.malloc /\ g \in Given /\ Memory!Guarded(b) # g
        BY <1>1, <2>1 DEF HeldInOrder
      <4>2. Memory!Apart(Memory!Guarded(b), g) /\ Inside(g, g)
        BY <1>1, <2>2, <4>1 DEF Inside, Given
      <4> QED BY <4>1, <4>2, InsideItsPiece, ApartBytes
    <3>3. Memory!Bytes(b) \cap Memory!BytesOf(ListRange(s.held)) = {}
      BY <3>2, BytesOfMeans
    <3> QED BY <2>2, <3>1, <3>3
  <2>5. s.failed \/ s.written \subseteq Memory!Watched(s)
    BY <2>1 DEF HeldInOrder
  <2> QED BY <2>3, <2>4, <2>5
<1> QED BY <1>2, <1>3

LEMMA InvNotShared == MemoryInv => Memory!MemoryNotShared /\ Memory!WritesOutsideFound
<1> SUFFICES ASSUME MemoryInv
             PROVE  Memory!MemoryNotShared /\ Memory!WritesOutsideFound
  OBVIOUS
<1>1. PICK list : list = blocks \o withdrawn
  OBVIOUS
<1>2. Memory!Readable = list
  BY <1>1 DEF Memory!Readable
<1>3. Distinct(list) /\ \A i \in DOMAIN list : list[i] \in InHand
  <2>1. /\ blocks \in Seq(Given) /\ withdrawn \in Seq(Given)
        /\ Distinct(blocks) /\ Distinct(withdrawn)
        /\ ListRange(blocks) \cap ListRange(withdrawn) = {}
    BY DEF MemoryInv
  <2> QED BY <1>1, <2>1, TwoLists DEF InHand
<1>4. CASE ended
  <2>1. blocks = <<>> /\ withdrawn = <<>> /\ allocator.malloc = {}
        /\ (allocator.failed \/ allocator.written \subseteq Memory!Watched(allocator))
    BY <1>4 DEF MemoryInv
  <2>2. InHand = {}
    BY <2>1, EmptyList DEF InHand
  <2>3. DOMAIN list = {}
    BY <1>3, <2>2
  <2> QED BY <1>2, <2>1, <2>3 DEF Memory!MemoryNotShared, Memory!WritesOutsideFound
<1>5. CASE ~ended
  <2>1. /\ \A b, c \in InHand : b # c => Memory!Bytes(b) \cap Memory!Bytes(c) = {}
        /\ \A b \in InHand :
             /\ \E m \in allocator.malloc : Memory!Bytes(b) \subseteq Memory!Bytes(m)
             /\ Memory!Bytes(b) \cap Memory!BytesOf(ListRange(allocator.held)) = {}
        /\ allocator.failed \/ allocator.written \subseteq Memory!Watched(allocator)
    <3>1. InOrder(allocator, InHand) /\ layer \in {"pool", "debug"} /\ InHand \subseteq Given
      BY <1>5, WithdrawnFreed DEF MemoryInv
    <3> QED BY <3>1, InOrderMeans
  <2>2. \A i, j \in DOMAIN list : i # j => Memory!Bytes(list[i]) \cap Memory!Bytes(list[j]) = {}
    BY <1>3, <2>1 DEF Distinct
  <2>3. Memory!Range(allocator.held) = ListRange(allocator.held)
    BY SameRange
  <2>4. \A i \in DOMAIN list :
          /\ \E m \in allocator.malloc : Memory!Bytes(list[i]) \subseteq Memory!Bytes(m)
          /\ Memory!Bytes(list[i]) \cap Memory!BytesOf(Memory!Range(allocator.held)) = {}
    BY <1>3, <2>1, <2>3
  <2>5. Memory!MemoryNotShared
    BY <1>2, <1>5, <2>2, <2>4 DEF Memory!MemoryNotShared
  <2> QED BY <2>1, <2>5 DEF Memory!WritesOutsideFound
<1> QED BY <1>4, <1>5

LEMMA MemoryInvHolds == Memory!Spec => []MemoryInv
<1>1. Memory!Init => MemoryInv
  BY FirstInv
<1> QED BY <1>1, MemoryNextKeeps, PTL DEF Memory!Spec, Memory!vars, memoryVars

(* Whatever the program takes, withdraws and takes again, over a pool or   *)
(* the debugging allocator, what it has and what it may still read share   *)
(* no byte with each other or with what is held, and lie in what operator  *)
(* new gave; all of that is given back in the end; and a byte written      *)
(* where nothing should be is found (braindead_memory_manager.cc,          *)
(* pool_allocator.cc, debug_allocator.cc).                                 *)
THEOREM MemoryGivenOnce == Memory!Spec => []MemoryNotShared
<1>1. MemoryInv => MemoryNotShared
  BY InvNotShared DEF MemoryNotShared
<1> QED BY <1>1, MemoryInvHolds, PTL

-----------------------------------------------------------------------------
(* The collector.  What memory is made of, as a value of its own (a heap,  *)
(* h or k): what is there after a step is compared with what was.          *)
Cells == [stamp : Nat, value : Collector!Pointer \cup {None}]
Blocks == [size : Nat, cells : Seq(Cells)]
AllocationStates == [activated : BOOLEAN, blocks : Seq(Blocks)]
TrackerStates == [there : BOOLEAN, told : BOOLEAN, index : Nat, refs : Nat,
                  content : Collector!Pointer \cup {None}]
LinkStates == [there : BOOLEAN, index : Nat, bytes : Collector!Pointer \cup {None}]
Heaps == [allocations : Seq(AllocationStates), trackers : [Tracked -> TrackerStates],
          links : [Links -> LinkStates]]
Heap == [allocations |-> allocations, trackers |-> trackers, links |-> links]

BlockAt(h, a, b) == h.allocations[a].blocks[b]
HasBlock(h, a, b) == a \in DOMAIN h.allocations /\ b \in DOMAIN h.allocations[a].blocks
CellAt(h, v, i) == BlockAt(h, v.a, v.b).cells[v.o + i]

(* The values that a visit finds; how new what it visits is, and may be.   *)
Contents(h, v) ==
  (CASE v.kind = "cells" -> {CellAt(h, v, i).value : i \in 1..v.n}
     [] v.kind = "bytes" -> {}
     [] v.kind = "object" -> {h.trackers[v.id].content}
     [] v.kind = "backlink" -> {h.links[v.id].bytes}) \ {None}
AgeIn(h, v) ==
  CASE v.kind \in {"cells", "bytes"} -> v.a
    [] v.kind = "object" -> h.trackers[v.id].index
    [] v.kind = "backlink" -> h.links[v.id].index
HorizonIn(h, v) ==
  CASE v.kind = "cells" -> v.a
    [] v.kind = "object" -> h.trackers[v.id].index
    [] v.kind \in {"bytes", "backlink"} -> Len(h.allocations)

(* A pointer leads to what it was made to point at, before the withdrawn   *)
(* end of its block, or to a tracker or a backlink that is there; and what *)
(* is found there is not newer than it.                                    *)
FitsIn(h, v) ==
  /\ HasBlock(h, v.a, v.b)
  /\ v.n = Len(v.stamps)
  /\ v.n = 0 => MinBytes = 0 /\ v.kind = "bytes"
  /\ v.o + v.n <= Len(BlockAt(h, v.a, v.b).cells)
  /\ v.n >= 1 => v.o + v.n <= BlockAt(h, v.a, v.b).size
  /\ \A i \in 1..v.n : /\ CellAt(h, v, i).stamp = v.stamps[i]
                       /\ v.kind = "bytes" => CellAt(h, v, i).value = None
Leads(h, v) ==
  /\ v \in Collector!Pointer
  /\ v.kind \in {"cells", "bytes"} => FitsIn(h, v)
  /\ v.kind = "object" => h.trackers[v.id].there
  /\ v.kind = "backlink" => h.links[v.id].there
  /\ AgeIn(h, v) <= Len(h.allocations)
  /\ \A w \in Contents(h, v) : AgeIn(h, w) <= HorizonIn(h, v)

(* A set of pointers of which each leads only to others of them.           *)
Covered(h, S) == \A v \in S : Leads(h, v) /\ Contents(h, v) \subseteq S

Starts == Collector!Pointers(Slots) \cup Collector!Externals

(* No tracker is told while it is there, or goes while it is referred to.  *)
TrackersFit ==
  \A t \in Tracked : /\ trackers[t].there => ~trackers[t].told
                     /\ trackers[t].refs > 0 => trackers[t].there

(* What is visited is closed, and holds all that the program points at.    *)
CollectorInv ==
  /\ Heap \in Heaps
  /\ root \in [Slots -> Collector!Pointer \cup {None}]
  /\ made \in Nat
  /\ TrackersFit
  /\ Starts \subseteq Collector!Visited
  /\ Covered(Heap, Collector!Visited)
-----------------------------------------------------------------------------
(* What a finite list holds is finite, and so is what is made of it.       *)
LEMMA ValuesFinite ==
  ASSUME NEW D, IsFiniteSet(D), NEW f, f = [d \in D |-> f[d]]
  PROVE  IsFiniteSet({f[d] : d \in D})
<1> DEFINE T == {f[d] : d \in D}
<1>1. f \in [D -> T] /\ \A x \in T : \E d \in D : f[d] = x
  OBVIOUS
<1> HIDE DEF T
<1>2. f \in Surjection(D, T)
  BY <1>1, Fun_IsSurj
<1> QED BY <1>2, FS_Surjection DEF T

LEMMA ListFinite ==
  ASSUME NEW S, NEW list \in Seq(S)
  PROVE  IsFiniteSet(DOMAIN list) /\ DOMAIN list = 1..Len(list) /\ Len(list) \in Nat
<1>1. DOMAIN list = 1..Len(list) /\ Len(list) \in Nat
  OBVIOUS
<1>2. IsFiniteSet(1..Len(list))
  BY <1>1, FS_Interval
<1> QED BY <1>1, <1>2

(* The heap is made of lists.                                              *)
LEMMA HeapParts ==
  ASSUME NEW h \in Heaps
  PROVE  /\ h.allocations \in Seq(AllocationStates)
         /\ \A a \in DOMAIN h.allocations :
              /\ a \in Nat /\ a >= 1 /\ a <= Len(h.allocations)
              /\ h.allocations[a].blocks \in Seq(Blocks)
              /\ \A b \in DOMAIN h.allocations[a].blocks :
                   /\ b \in Nat
                   /\ BlockAt(h, a, b).size \in Nat
                   /\ BlockAt(h, a, b).cells \in Seq(Cells)
         /\ \A t \in Tracked :
              /\ h.trackers[t].index \in Nat /\ h.trackers[t].refs \in Nat
              /\ h.trackers[t].there \in BOOLEAN /\ h.trackers[t].told \in BOOLEAN
              /\ h.trackers[t].content \in Collector!Pointer \cup {None}
         /\ \A l \in Links :
              /\ h.links[l].there \in BOOLEAN /\ h.links[l].index \in Nat
              /\ h.links[l].bytes \in Collector!Pointer \cup {None}
<1>1. h.allocations \in Seq(AllocationStates)
  BY DEF Heaps
<1>2. ASSUME NEW a \in DOMAIN h.allocations
      PROVE  /\ a \in Nat /\ a >= 1 /\ a <= Len(h.allocations)
             /\ h.allocations[a].blocks \in Seq(Blocks)
             /\ \A b \in DOMAIN h.allocations[a].blocks :
                  /\ b \in Nat
                  /\ BlockAt(h, a, b).size \in Nat
                  /\ BlockAt(h, a, b).cells \in Seq(Cells)
  <2>1. PICK list : list = h.allocations
    OBVIOUS
  <2>2. PICK T : T = AllocationStates
    OBVIOUS
  <2>3. list \in Seq(T) /\ a \in DOMAIN list
    BY <1>1, <1>2, <2>1, <2>2
  <2>4. a \in Nat /\ a >= 1 /\ a <= Len(list) /\ list[a] \in T
    BY <2>3
  <2>5. h.allocations[a].blocks \in Seq(Blocks)
    BY <2>1, <2>2, <2>4 DEF AllocationStates
  <2>6. ASSUME NEW b \in DOMAIN h.allocations[a].blocks
        PROVE  /\ b \in Nat
               /\ BlockAt(h, a, b).size \in Nat
               /\ BlockAt(h, a, b).cells \in Seq(Cells)
    <3>1. PICK bs : bs = h.allocations[a].blocks
      OBVIOUS
    <3>2. b \in Nat /\ bs[b] \in Blocks
      BY <2>5, <2>6, <3>1
    <3>3. BlockAt(h, a, b) = bs[b]
      BY <3>1 DEF BlockAt
    <3> QED BY <3>2, <3>3 DEF Blocks
  <2> QED BY <2>1, <2>4, <2>5, <2>6
<1>3. \A t \in Tracked :
              /\ h.trackers[t].index \in Nat /\ h.trackers[t].refs \in Nat
              /\ h.trackers[t].there \in BOOLEAN /\ h.trackers[t].told \in BOOLEAN
              /\ h.trackers[t].content \in Collector!Pointer \cup {None}
  BY DEF Heaps, TrackerStates
<1>4. \A l \in Links :
              /\ h.links[l].there \in BOOLEAN /\ h.links[l].index \in Nat
              /\ h.links[l].bytes \in Collector!Pointer \cup {None}
  BY DEF Heaps, LinkStates
<1> QED BY <1>1, <1>2, <1>3, <1>4

(* The cells that a pointer leads to.                                      *)
LEMMA CellsFound ==
  ASSUME NEW h \in Heaps, NEW v, v \in Collector!Pointer, v.kind \in {"cells", "bytes"},
         FitsIn(h, v), NEW i \in 1..v.n
  PROVE  /\ v.o + i \in 1..Len(BlockAt(h, v.a, v.b).cells)
         /\ CellAt(h, v, i) \in Cells
         /\ CellAt(h, v, i).value \in Collector!Pointer \cup {None}
<1>1. v.o \in Nat /\ v.n \in Nat
  BY DEF Collector!Pointer
<1>2. PICK cells : cells = BlockAt(h, v.a, v.b).cells
  OBVIOUS
<1>3. cells \in Seq(Cells) /\ v.o + v.n <= Len(cells)
  BY <1>2, HeapParts DEF FitsIn, HasBlock
<1>4. v.o + i \in 1..Len(cells)
  BY <1>1, <1>3
<1>5. cells[v.o + i] \in Cells
  BY <1>3, <1>4
<1> QED BY <1>2, <1>4, <1>5 DEF CellAt, Cells

(* What is found where a pointer leads is a pointer.                       *)
LEMMA ContentsArePointers ==
  ASSUME NEW h \in Heaps, NEW v, Leads(h, v)
  PROVE  Contents(h, v) \subseteq Collector!Pointer
<1>1. v \in Collector!Pointer
  BY DEF Leads
<1>2. CASE v.kind = "cells"
  <2>1. \A i \in 1..v.n : CellAt(h, v, i).value \in Collector!Pointer \cup {None}
    BY <1>1, <1>2, CellsFound DEF Leads
  <2> QED BY <1>2, <2>1 DEF Contents
<1>3. CASE v.kind = "bytes"
  BY <1>3 DEF Contents
<1>4. CASE v.kind = "object"
  <2>1. v.id \in Tracked
    BY <1>1, <1>4 DEF Collector!Pointer
  <2> QED BY <1>4, <2>1, HeapParts DEF Contents
<1>5. CASE v.kind = "backlink"
  <2>1. v.id \in Links
    BY <1>1, <1>5 DEF Collector!Pointer
  <2> QED BY <1>5, <2>1, HeapParts DEF Contents
<1>6. v.kind \in {"cells", "bytes", "object", "backlink"}
  BY <1>1 DEF Collector!Pointer
<1> QED BY <1>2, <1>3, <1>4, <1>5, <1>6

(* An interval of a list is its elements from there.                       *)
LEMMA PartOfList ==
  ASSUME NEW S, NEW list \in Seq(S), NEW o \in Nat, NEW n \in Nat, o + n <= Len(list)
  PROVE  /\ SubSeq(list, o + 1, o + n) \in Seq(S)
         /\ Len(SubSeq(list, o + 1, o + n)) = n
         /\ \A i \in 1..n : SubSeq(list, o + 1, o + n)[i] = list[o + i]
<1> DEFINE first == o + 1
           last == o + n
           taken == SubSeq(list, first, last)
<1>1. first \in Int /\ last \in Int /\ first >= 1 /\ last <= Len(list)
  OBVIOUS
<1> HIDE DEF first, last
<1>2. \A i \in first..last : list[i] \in S
  BY <1>1
<1>3. /\ taken \in Seq(S) /\ Len(taken) = IF first <= last THEN last - first + 1 ELSE 0
      /\ \A i \in 1..(last - first + 1) : taken[i] = list[first + i - 1]
  BY <1>1, <1>2, SubSeqProperties
<1> HIDE DEF taken
<1>4. last - first + 1 = n /\ \A i \in 1..n : first + i - 1 = o + i
  BY DEF first, last
<1>5. (IF first <= last THEN last - first + 1 ELSE 0) = n
  BY <1>1, <1>4
<1>6. \A i \in 1..n : taken[i] = list[o + i]
  BY <1>3, <1>4
<1> QED BY <1>3, <1>5, <1>6 DEF taken, first, last

(* What a visit finds is what the code's guides find.                      *)
LEMMA InsideIsContents ==
  ASSUME Heap \in Heaps, NEW v, Leads(Heap, v)
  PROVE  Collector!Inside(v) = Contents(Heap, v)
<1>1. v \in Collector!Pointer /\ v.kind \in {"cells", "bytes", "object", "backlink"}
  BY DEF Leads, Collector!Pointer
<1>2. CASE v.kind = "cells"
  <2>1. v.o \in Nat /\ v.n \in Nat
    BY <1>1, <1>2 DEF Collector!Pointer
  <2>2. PICK cells : cells = allocations[v.a].blocks[v.b].cells
    OBVIOUS
  <2>3. cells = BlockAt(Heap, v.a, v.b).cells
    BY <2>2 DEF BlockAt, Heap
  <2>4. cells \in Seq(Cells) /\ v.o + v.n <= Len(cells)
    BY <1>2, <2>3, HeapParts DEF Leads, FitsIn, HasBlock
  <2>5. Collector!Min({v.o + v.n, Len(cells)}) = v.o + v.n
    <3>1. v.o + v.n \in Int /\ Len(cells) \in Int
      BY <2>1, <2>4
    <3> QED BY <2>4, <3>1 DEF Collector!Min
  <2>6. PICK taken : taken = SubSeq(cells, v.o + 1, v.o + v.n)
    OBVIOUS
  <2>7. taken \in Seq(Cells) /\ Len(taken) = v.n /\ \A i \in 1..v.n : taken[i] = cells[v.o + i]
    <3>1. PICK o, n : o = v.o /\ n = v.n
      OBVIOUS
    <3>2. o \in Nat /\ n \in Nat /\ o + n <= Len(cells)
      BY <2>1, <2>4, <3>1
    <3>3. /\ SubSeq(cells, o + 1, o + n) \in Seq(Cells)
          /\ Len(SubSeq(cells, o + 1, o + n)) = n
          /\ \A i \in 1..n : SubSeq(cells, o + 1, o + n)[i] = cells[o + i]
      BY <2>4, <3>2, PartOfList, Zenon
    <3>4. taken = SubSeq(cells, o + 1, o + n)
      BY <2>6, <3>1
    <3> QED BY <3>1, <3>3, <3>4, Zenon
  <2>8. Collector!CellsOf(v) = taken
    BY <2>2, <2>5, <2>6 DEF Collector!CellsOf, Collector!Block
  <2>9. DOMAIN taken = 1..v.n
    BY <2>7
  <2>10. Collector!ToSet(taken) = {cells[v.o + i] : i \in 1..v.n}
    BY <2>7, <2>9 DEF Collector!ToSet
  <2>11. {cell.value : cell \in Collector!ToSet(taken)} = {cells[v.o + i].value : i \in 1..v.n}
    BY <2>10
  <2> QED BY <1>2, <2>3, <2>8, <2>11 DEF Collector!Inside, Contents, CellAt
<1>3. CASE v.kind = "bytes"
  BY <1>3 DEF Collector!Inside, Contents
<1>4. CASE v.kind = "object"
  BY <1>4 DEF Collector!Inside, Contents, Heap
<1>5. CASE v.kind = "backlink"
  BY <1>5 DEF Collector!Inside, Contents, Heap
<1> QED BY <1>1, <1>2, <1>3, <1>4, <1>5

LEMMA AllocationValues ==
  ASSUME Heap \in Heaps, NEW x \in Collector!ToSet(allocations)
  PROVE  /\ IsFiniteSet(Collector!ValuesIn(x))
         /\ \A b \in DOMAIN x.blocks : \A i \in DOMAIN x.blocks[b].cells :
              x.blocks[b].cells[i].value \in Collector!ValuesIn(x)
<1>1. PICK a \in DOMAIN allocations : x = allocations[a]
  BY DEF Collector!ToSet
<1>2. PICK bs : bs = x.blocks
  OBVIOUS
<1>3. bs \in Seq(Blocks)
  BY <1>1, <1>2, HeapParts DEF Heap
<1>4. ASSUME NEW b \in DOMAIN bs
      PROVE  IsFiniteSet({cell.value : cell \in Collector!ToSet(bs[b].cells)})
  <2>1. PICK cells : cells = bs[b].cells
    OBVIOUS
  <2>2. cells \in Seq(Cells)
    <3>1. bs[b] \in Blocks
      BY <1>3, <1>4
    <3> QED BY <2>1, <3>1 DEF Blocks
  <2>3. IsFiniteSet(DOMAIN cells)
    BY <2>2, ListFinite
  <2> DEFINE f == [i \in DOMAIN cells |-> cells[i].value]
  <2>4. IsFiniteSet({f[i] : i \in DOMAIN cells})
    <3>1. f = [i \in DOMAIN cells |-> f[i]]
      OBVIOUS
    <3> HIDE DEF f
    <3> QED BY <2>3, <3>1, ValuesFinite
  <2>5. {f[i] : i \in DOMAIN cells} = {cell.value : cell \in Collector!ToSet(cells)}
    BY DEF Collector!ToSet
  <2> QED BY <2>1, <2>4, <2>5
<1>5. IsFiniteSet(Collector!ValuesIn(x))
  <2> DEFINE f == [b \in DOMAIN bs |-> {cell.value : cell \in Collector!ToSet(bs[b].cells)}]
             T == {f[b] : b \in DOMAIN bs}
  <2>1. IsFiniteSet(DOMAIN bs) /\ f = [b \in DOMAIN bs |-> f[b]]
    BY <1>3, ListFinite
  <2>2. \A b \in DOMAIN bs : IsFiniteSet(f[b])
    BY <1>4
  <2>3. Collector!ValuesIn(x) = UNION T
    <3>1. T = {{cell.value : cell \in Collector!ToSet(block.cells)} : block \in Collector!ToSet(bs)}
      <4>1. \A s : s \in Collector!ToSet(bs) <=> \E b \in DOMAIN bs : s = bs[b]
        BY DEF Collector!ToSet
      <4> QED BY <4>1
    <3> HIDE DEF T
    <3> QED BY <1>2, <3>1 DEF Collector!ValuesIn
  <2> HIDE DEF f
  <2>4. IsFiniteSet(T) /\ \A s \in T : IsFiniteSet(s)
    BY <2>1, <2>2, ValuesFinite
  <2> HIDE DEF T
  <2> QED BY <2>3, <2>4, FS_UNION
<1>6. ASSUME NEW b \in DOMAIN bs, NEW i \in DOMAIN bs[b].cells
      PROVE  bs[b].cells[i].value \in Collector!ValuesIn(x)
  <2>1. bs[b] \in Collector!ToSet(x.blocks)
    BY <1>2 DEF Collector!ToSet
  <2>2. bs[b].cells[i] \in Collector!ToSet(bs[b].cells)
    BY DEF Collector!ToSet
  <2> QED BY <2>1, <2>2 DEF Collector!ValuesIn
<1> QED BY <1>2, <1>5, <1>6

(* What is held somewhere is finite, and all that a visit finds is held.   *)
LEMMA HeldMeans ==
  ASSUME Heap \in Heaps
  PROVE  /\ IsFiniteSet(Collector!Held)
         /\ \A v : Leads(Heap, v) => Contents(Heap, v) \subseteq Collector!Held
<1> DEFINE A == UNION {Collector!ValuesIn(x) : x \in Collector!ToSet(allocations)}
           B == {trackers[t].content : t \in Tracked}
           C == {links[l].bytes : l \in Links}
<1>1. Collector!Held = (B \cup C \cup A) \ {None}
  BY DEF Collector!Held
<1>2. IsFiniteSet(A)
  <2>1. allocations \in Seq(AllocationStates)
    BY HeapParts DEF Heap
  <2> DEFINE f == [a \in DOMAIN allocations |-> Collector!ValuesIn(allocations[a])]
             T == {f[a] : a \in DOMAIN allocations}
  <2>2. IsFiniteSet(DOMAIN allocations) /\ f = [a \in DOMAIN allocations |-> f[a]]
    BY <2>1, ListFinite
  <2>3. \A a \in DOMAIN allocations : IsFiniteSet(f[a])
    BY AllocationValues DEF Collector!ToSet
  <2>4. A = UNION T
    BY DEF Collector!ToSet
  <2> HIDE DEF f
  <2>5. IsFiniteSet(T) /\ \A s \in T : IsFiniteSet(s)
    BY <2>2, <2>3, ValuesFinite
  <2> HIDE DEF T, A
  <2> QED BY <2>4, <2>5, FS_UNION
<1>3. IsFiniteSet(B)
  <2> DEFINE f == [t \in Tracked |-> trackers[t].content]
  <2>1. f = [t \in Tracked |-> f[t]] /\ B = {f[t] : t \in Tracked}
    OBVIOUS
  <2> HIDE DEF f, B
  <2> QED BY <2>1, ValuesFinite, MemoryAssumption
<1>4. IsFiniteSet(C)
  <2> DEFINE f == [l \in Links |-> links[l].bytes]
  <2>1. f = [l \in Links |-> f[l]] /\ C = {f[l] : l \in Links}
    OBVIOUS
  <2> HIDE DEF f, C
  <2> QED BY <2>1, ValuesFinite, MemoryAssumption
<1>5. ASSUME NEW v, Leads(Heap, v), NEW w \in Contents(Heap, v)
      PROVE  w \in Collector!Held
  <2>1. v \in Collector!Pointer /\ w # None
        /\ v.kind \in {"cells", "bytes", "object", "backlink"}
    BY <1>5 DEF Leads, Collector!Pointer, Contents
  <2>2. CASE v.kind = "cells"
    <3>1. PICK i \in 1..v.n : w = CellAt(Heap, v, i).value
      BY <1>5, <2>2 DEF Contents
    <3>2. v.o + i \in DOMAIN BlockAt(Heap, v.a, v.b).cells
      <4>1. v.o + i \in 1..Len(BlockAt(Heap, v.a, v.b).cells)
        BY <1>5, <2>1, <2>2, CellsFound DEF Leads
      <4>2. BlockAt(Heap, v.a, v.b).cells \in Seq(Cells)
        BY <1>5, <2>2, HeapParts DEF Leads, FitsIn, HasBlock
      <4> QED BY <4>1, <4>2
    <3>3. v.a \in DOMAIN allocations /\ v.b \in DOMAIN allocations[v.a].blocks
      BY <1>5, <2>2 DEF Leads, FitsIn, HasBlock, Heap
    <3>4. allocations[v.a] \in Collector!ToSet(allocations)
      BY <3>3 DEF Collector!ToSet
    <3>5. w = allocations[v.a].blocks[v.b].cells[v.o + i].value
          /\ v.o + i \in DOMAIN allocations[v.a].blocks[v.b].cells
      BY <3>1, <3>2 DEF CellAt, BlockAt, Heap
    <3>6. w \in Collector!ValuesIn(allocations[v.a])
      BY <3>3, <3>4, <3>5, AllocationValues
    <3> QED BY <1>1, <2>1, <3>4, <3>6
  <2>3. CASE v.kind = "bytes"
    BY <1>5, <2>3 DEF Contents
  <2>4. CASE v.kind = "object"
    BY <1>1, <1>5, <2>1, <2>4 DEF Contents, Collector!Pointer, Heap
  <2>5. CASE v.kind = "backlink"
    BY <1>1, <1>5, <2>1, <2>5 DEF Contents, Collector!Pointer, Heap
  <2> QED BY <2>1, <2>2, <2>3, <2>4, <2>5
<1>6. IsFiniteSet((B \cup C \cup A) \ {None})
  <2> HIDE DEF A, B, C
  <2>1. IsFiniteSet(B \cup C)
    BY <1>3, <1>4, FS_Union
  <2>2. IsFiniteSet((B \cup C) \cup A)
    BY <1>2, <2>1, FS_Union
  <2> QED BY <2>2, FS_Difference
<1> QED BY <1>1, <1>5, <1>6
-----------------------------------------------------------------------------
(* The mark queue: what it reaches from some pointers is the least set     *)
(* that holds them and all that is found there.                            *)
Found(T) == T \cup UNION {Contents(Heap, v) : v \in T}
Rounds(f, n, start) == /\ f[0] = start
                       /\ \A i \in 1..n : f[i] = Found(f[i - 1])

(* After as many rounds as there is to be found, nothing more is.          *)
LEMMA CollectorCounts == \A S : Collector!Cardinality(S) = Cardinality(S)
  BY DEF Collector!Cardinality, Cardinality

LEMMA RoundsSuffice ==
  ASSUME Heap \in Heaps, NEW S, Covered(Heap, S), NEW n, n = Cardinality(Collector!Held),
         NEW start \in SUBSET S, NEW f \in [0..n -> SUBSET S], Rounds(f, n, start)
  PROVE  /\ start \subseteq f[n]
         /\ \A v \in f[n] : Contents(Heap, v) \subseteq f[n]
<1> DEFINE H == Collector!Held
           Closed(i) == \A v \in f[i] : Contents(Heap, v) \subseteq f[i]
           New(i) == f[i] \ start
           Good == {i \in 0..n : /\ start \subseteq f[i] /\ New(i) \subseteq H
                                 /\ Closed(i) \/ Cardinality(New(i)) >= i}
<1>1. IsFiniteSet(H) /\ n \in Nat
  BY HeldMeans, FS_CardinalityType
<1>2. \A i \in 0..n : \A v \in f[i] : Contents(Heap, v) \subseteq H
  BY HeldMeans DEF Covered
<1>3. \A T \in SUBSET H : IsFiniteSet(T) /\ Cardinality(T) \in Nat /\ Cardinality(T) <= n
                          /\ (Cardinality(T) = n => T = H)
  BY <1>1, FS_Subset, FS_CardinalityType
<1> HIDE DEF H
<1>4. 0 \in Good
  <2>1. New(0) = {} /\ start \subseteq f[0]
    BY DEF Rounds
  <2>2. Cardinality(New(0)) = 0
    BY <2>1, FS_EmptySet
  <2> HIDE DEF New, Closed
  <2> QED BY <1>1, <2>1, <2>2
<1>5. ASSUME NEW i \in 1..n, i - 1 \in Good
      PROVE  i \in Good
  <2>1. i \in 0..n /\ i - 1 \in 0..n /\ i \in Nat
    BY <1>1
  <2>2. f[i] = Found(f[i - 1])
    BY DEF Rounds
  <2>3. start \subseteq f[i] /\ f[i - 1] \subseteq f[i]
    BY <1>5, <2>2 DEF Found
  <2>4. New(i) \subseteq H
    <3>1. New(i - 1) \subseteq H
      BY <1>5
    <3> QED BY <1>2, <2>1, <2>2, <3>1 DEF Found
  <2>5. CASE Closed(i - 1)
    <3>1. f[i] = f[i - 1]
      BY <2>2, <2>5 DEF Found
    <3>2. Closed(i)
      BY <2>5, <3>1
    <3> HIDE DEF New, Closed
    <3> QED BY <2>1, <2>3, <2>4, <3>2
  <2>6. CASE ~Closed(i - 1)
    <3>1. PICK v \in f[i - 1] : \E w \in Contents(Heap, v) : w \notin f[i - 1]
      BY <2>6
    <3>2. PICK w \in Contents(Heap, v) : w \notin f[i - 1]
      BY <3>1
    <3>3. New(i - 1) \cup {w} \subseteq New(i) /\ w \notin New(i - 1)
      <4>1. w \in f[i]
        BY <2>2, <3>1, <3>2 DEF Found
      <4>2. start \subseteq f[i - 1]
        BY <1>5
      <4> QED BY <2>3, <3>2, <4>1, <4>2
    <3>4. New(i - 1) \subseteq H /\ Cardinality(New(i - 1)) >= i - 1
      BY <1>5, <2>6
    <3> HIDE DEF New, Closed
    <3>5. IsFiniteSet(New(i - 1)) /\ Cardinality(New(i - 1)) \in Nat
      BY <1>3, <3>4
    <3>6. Cardinality(New(i - 1) \cup {w}) = Cardinality(New(i - 1)) + 1
      BY <3>3, <3>5, FS_AddElement
    <3>7. Cardinality(New(i - 1) \cup {w}) <= Cardinality(New(i))
      BY <1>3, <2>4, <3>3, FS_Subset
    <3>8. Cardinality(New(i)) \in Nat
      BY <1>3, <2>4
    <3>9. Cardinality(New(i)) >= i
      BY <2>1, <3>4, <3>5, <3>6, <3>7, <3>8
    <3> QED BY <2>1, <2>3, <2>4, <3>9
  <2> QED BY <2>5, <2>6
<1>6. n \in Good
  <2> HIDE DEF Good
  <2>1. \A i \in 0..n : i \in Good
    BY <1>1, <1>4, <1>5, Stepwise
  <2> QED BY <1>1, <2>1
<1>7. Closed(n)
  <2>1. CASE Cardinality(New(n)) >= n
    <3>1. New(n) \in SUBSET H
      BY <1>6
    <3>2. Cardinality(New(n)) \in Nat /\ Cardinality(New(n)) <= n
      BY <1>3, <3>1
    <3>3. Cardinality(New(n)) = n
      BY <1>1, <2>1, <3>2
    <3>4. New(n) = H
      BY <1>3, <3>1, <3>3
    <3>5. H \subseteq f[n] /\ n \in 0..n
      BY <1>1, <3>4
    <3> QED BY <1>2, <3>5
  <2> QED BY <1>6, <2>1
<1> QED BY <1>6, <1>7

ReachIsLeast ==
  \A start, S : /\ Heap \in Heaps /\ Covered(Heap, S) /\ start \subseteq S
                => /\ start \subseteq Collector!Reached(start)
                   /\ Collector!Reached(start) \subseteq S
                   /\ Covered(Heap, Collector!Reached(start))
LEMMA ReachedIsLeast == ReachIsLeast
<1> SUFFICES ASSUME NEW start, NEW S, Heap \in Heaps, Covered(Heap, S), start \subseteq S
             PROVE  /\ start \subseteq Collector!Reached(start)
                    /\ Collector!Reached(start) \subseteq S
                    /\ Covered(Heap, Collector!Reached(start))
  BY DEF ReachIsLeast
<1> DEFINE n == Collector!Cardinality(Collector!Held)
<1>1. n = Cardinality(Collector!Held)
  BY CollectorCounts
<1>2. n \in Nat
  BY <1>1, HeldMeans, FS_CardinalityType
<1> HIDE DEF n
<1> DEFINE grow == [i \in 1..n |-> [T \in SUBSET S |-> Found(T)]]
<1>3. AreSteps(grow, n, SUBSET S)
  BY DEF AreSteps, Found, Covered
<1>4. PICK f : f \in [0..n -> SUBSET S] /\ Rounds(f, n, start)
  <2>1. start \in SUBSET S
    OBVIOUS
  <2> HIDE DEF grow
  <2>2. PICK f : IsRun(f, n, SUBSET S, start, grow)
    BY <1>2, <1>3, <2>1, Repeats, Zenon
  <2>3. f \in [0..n -> SUBSET S] /\ f[0] = start /\ \A i \in 1..n : f[i] = grow[i][f[i - 1]]
    BY <2>2 DEF IsRun
  <2>4. ASSUME NEW i \in 1..n
        PROVE  f[i] = Found(f[i - 1])
    <3>1. f[i - 1] \in SUBSET S
      BY <1>2, <2>3
    <3> QED BY <2>3, <3>1 DEF grow
  <2> QED BY <2>3, <2>4 DEF Rounds
<1> HIDE DEF grow
<1> DEFINE Steps(g) == [i \in 0..n |-> IF i = 0 THEN start
                                       ELSE g[i - 1] \cup UNION {Collector!Inside(v) : v \in g[i - 1]}]
           reached == CHOOSE g : g = Steps(g)
<1>5. f = Steps(f)
  <2>1. \A i \in 0..n : f[i] = IF i = 0 THEN start
                        ELSE f[i - 1] \cup UNION {Collector!Inside(v) : v \in f[i - 1]}
    <3> TAKE i \in 0..n
    <3>1. i = 0 \/ (i \in 1..n /\ i # 0 /\ i - 1 \in 0..n)
      BY <1>2
    <3>2. CASE i \in 1..n /\ i # 0 /\ i - 1 \in 0..n
      <4>1. \A v \in f[i - 1] : Collector!Inside(v) = Contents(Heap, v)
        BY <1>4, <3>2, InsideIsContents DEF Covered
      <4>2. f[i] = f[i - 1] \cup UNION {Contents(Heap, v) : v \in f[i - 1]}
        BY <1>4, <3>2 DEF Rounds, Found
      <4> QED BY <3>2, <4>1, <4>2
    <3> QED BY <1>4, <3>1, <3>2 DEF Rounds
  <2> QED BY <1>4, <2>1
<1>6. reached = Steps(reached)
  <2> HIDE DEF Steps
  <2>1. \E g : g = Steps(g)
    BY <1>5
  <2> QED BY <2>1
<1>7. Collector!Reached(start) = reached[n]
  BY DEF Collector!Reached, n
<1> HIDE DEF reached
<1>8. \A i \in 0..n : reached[i] = f[i]
  <2> DEFINE Same == {i \in 0..n : reached[i] = f[i]}
  <2>1. 0 \in Same
    BY <1>2, <1>5, <1>6
  <2>2. ASSUME NEW i \in 1..n, i - 1 \in Same
        PROVE  i \in Same
    <3>1. i \in 0..n /\ i # 0 /\ reached[i - 1] = f[i - 1]
      BY <1>2, <2>2
    <3>2. reached[i] = reached[i - 1] \cup UNION {Collector!Inside(v) : v \in reached[i - 1]}
      BY <1>6, <3>1
    <3>3. f[i] = f[i - 1] \cup UNION {Collector!Inside(v) : v \in f[i - 1]}
      BY <1>5, <3>1
    <3> QED BY <3>1, <3>2, <3>3
  <2> HIDE DEF Same
  <2>3. \A i \in 0..n : i \in Same
    BY <1>2, <2>1, <2>2, Stepwise
  <2> QED BY <2>3 DEF Same
<1>9. Collector!Reached(start) = f[n] /\ f[n] \subseteq S
  BY <1>2, <1>4, <1>7, <1>8
<1>10. start \subseteq f[n] /\ \A v \in f[n] : Contents(Heap, v) \subseteq f[n]
  <2>1. start \in SUBSET S
    OBVIOUS
  <2> QED BY <1>1, <1>4, <2>1, RoundsSuffice
<1> QED BY <1>9, <1>10 DEF Covered
-----------------------------------------------------------------------------
(* A set that is closed, and has all that the program points at, is enough *)
(* to keep the invariant.                                                  *)
LEMMA CoverSuffices ==
  ASSUME Heap' \in Heaps, root' \in [Slots -> Collector!Pointer \cup {None}], made' \in Nat,
         TrackersFit', NEW S, Covered(Heap', S), Starts' \subseteq S
  PROVE  CollectorInv' /\ Collector!Visited' \subseteq S
<1>1. ReachIsLeast'
  BY ReachedIsLeast, PTL
<1>2. Collector!Visited' = Collector!Reached(Starts)'
  BY DEF Collector!Visited, Starts
<1>3. /\ Starts' \subseteq Collector!Reached(Starts)'
      /\ Collector!Reached(Starts)' \subseteq S
      /\ Covered(Heap', Collector!Reached(Starts)')
  BY <1>1 DEF ReachIsLeast
<1> QED BY <1>2, <1>3 DEF CollectorInv

(* What a step leaves of a pointer, and what leads to the same then.       *)
KeptAt(h, k, v) ==
  /\ v.kind \in {"cells", "bytes"} =>
       /\ HasBlock(k, v.a, v.b)
       /\ BlockAt(k, v.a, v.b).cells = BlockAt(h, v.a, v.b).cells
       /\ v.n >= 1 => v.o + v.n <= BlockAt(k, v.a, v.b).size
  /\ v.kind = "object" => /\ k.trackers[v.id].there
                          /\ k.trackers[v.id].index = h.trackers[v.id].index
                          /\ k.trackers[v.id].content = h.trackers[v.id].content
  /\ v.kind = "backlink" => /\ k.links[v.id].there
                            /\ k.links[v.id].index = h.links[v.id].index
                            /\ k.links[v.id].bytes = h.links[v.id].bytes

LEMMA KeptLeads ==
  ASSUME NEW h \in Heaps, NEW k \in Heaps, Len(h.allocations) <= Len(k.allocations),
         NEW v, Leads(h, v), KeptAt(h, k, v),
         \A w \in Contents(h, v) : AgeIn(k, w) = AgeIn(h, w)
  PROVE  Leads(k, v) /\ Contents(k, v) = Contents(h, v) /\ AgeIn(k, v) = AgeIn(h, v)
<1>1. v \in Collector!Pointer /\ v.kind \in {"cells", "bytes", "object", "backlink"}
  BY DEF Leads, Collector!Pointer
<1>2. AgeIn(k, v) = AgeIn(h, v)
  BY <1>1 DEF AgeIn, KeptAt
<1>3. Contents(k, v) = Contents(h, v)
  <2>1. CASE v.kind = "cells"
    <3>1. \A i : CellAt(k, v, i) = CellAt(h, v, i)
      BY <2>1 DEF KeptAt, CellAt
    <3> QED BY <2>1, <3>1 DEF Contents
  <2>2. CASE v.kind = "bytes"
    BY <2>2 DEF Contents
  <2>3. CASE v.kind = "object"
    BY <2>3 DEF Contents, KeptAt
  <2>4. CASE v.kind = "backlink"
    BY <2>4 DEF Contents, KeptAt
  <2> QED BY <1>1, <2>1, <2>2, <2>3, <2>4
<1>4. v.kind \in {"cells", "bytes"} => FitsIn(k, v)
  <2> SUFFICES ASSUME v.kind \in {"cells", "bytes"}
               PROVE  FitsIn(k, v)
    OBVIOUS
  <2>1. FitsIn(h, v)
    BY DEF Leads
  <2>2. \A i : CellAt(k, v, i) = CellAt(h, v, i)
    BY DEF KeptAt, CellAt
  <2> QED BY <2>1, <2>2 DEF FitsIn, KeptAt
<1>5. AgeIn(k, v) <= Len(k.allocations) /\ HorizonIn(h, v) <= HorizonIn(k, v)
      /\ HorizonIn(h, v) \in Int /\ HorizonIn(k, v) \in Int
  <2>1. Len(h.allocations) \in Nat /\ Len(k.allocations) \in Nat
    BY HeapParts
  <2>2. AgeIn(h, v) \in Nat
    BY <1>1, HeapParts DEF AgeIn, Collector!Pointer
  <2>3. AgeIn(k, v) <= Len(k.allocations)
    BY <1>2, <2>1, <2>2 DEF Leads
  <2>4. v.kind = "cells" => HorizonIn(h, v) = v.a /\ HorizonIn(k, v) = v.a /\ v.a \in Nat
    BY <1>1 DEF HorizonIn, Collector!Pointer
  <2>5. v.kind = "object" => HorizonIn(h, v) = AgeIn(h, v) /\ HorizonIn(k, v) = AgeIn(k, v)
    BY DEF HorizonIn, AgeIn
  <2>6. v.kind \in {"bytes", "backlink"} => /\ HorizonIn(h, v) = Len(h.allocations)
                                            /\ HorizonIn(k, v) = Len(k.allocations)
    BY DEF HorizonIn
  <2> QED BY <1>1, <1>2, <2>1, <2>2, <2>3, <2>4, <2>5, <2>6
<1>6. \A w \in Contents(k, v) : AgeIn(k, w) <= HorizonIn(k, v)
  <2> TAKE w \in Contents(k, v)
  <2>1. w \in Contents(h, v) /\ AgeIn(k, w) = AgeIn(h, w) /\ AgeIn(h, w) <= HorizonIn(h, v)
    BY <1>3 DEF Leads
  <2>2. w \in Collector!Pointer
    BY <2>1, ContentsArePointers
  <2>3. AgeIn(h, w) \in Nat
    BY <2>2, HeapParts DEF AgeIn, Collector!Pointer
  <2> QED BY <1>5, <2>1, <2>3
<1>7. /\ v.kind = "object" => k.trackers[v.id].there
      /\ v.kind = "backlink" => k.links[v.id].there
  BY DEF KeptAt
<1> QED BY <1>1, <1>2, <1>3, <1>4, <1>5, <1>6, <1>7 DEF Leads

(* If all of a closed set is left, it stays closed.                        *)
LEMMA KeptCovered ==
  ASSUME NEW h \in Heaps, NEW k \in Heaps, Len(h.allocations) <= Len(k.allocations),
         NEW S, Covered(h, S), \A v \in S : KeptAt(h, k, v)
  PROVE  /\ Covered(k, S)
         /\ \A v \in S : AgeIn(k, v) = AgeIn(h, v) /\ Contents(k, v) = Contents(h, v)
<1>1. \A v \in S : AgeIn(k, v) = AgeIn(h, v)
  <2> TAKE v \in S
  <2>1. v \in Collector!Pointer /\ v.kind \in {"cells", "bytes", "object", "backlink"}
    BY DEF Covered, Leads, Collector!Pointer
  <2> QED BY <2>1 DEF AgeIn, KeptAt
<1>2. \A v \in S : \A w \in Contents(h, v) : AgeIn(k, w) = AgeIn(h, w)
  BY <1>1 DEF Covered
<1>3. \A v \in S : Leads(k, v) /\ Contents(k, v) = Contents(h, v)
  BY <1>2, KeptLeads DEF Covered
<1> QED BY <1>1, <1>3 DEF Covered
-----------------------------------------------------------------------------
(* What a program writes.                                                  *)
SlotStates == [Slots -> Collector!Pointer \cup {None}]
Pointed(slots) == {slots[r] : r \in Slots} \ {None}

LEMMA NewObjectMeans ==
  ASSUME NEW slots \in SlotStates, NEW w \in Collector!NewObjects(slots), made \in Nat
  PROVE  /\ w.kind \in {"cells", "bytes"}
         /\ w.values \in Seq(Pointed(slots) \cup {None})
         /\ Len(w.values) >= 1
         /\ w.kind = "bytes" => \A i \in DOMAIN w.values : w.values[i] = None
         /\ Pointed(slots) \subseteq Collector!Pointer
<1>1. PICK T : T = Collector!Range(slots) \cup {None}
  OBVIOUS
<1>2. T \subseteq Pointed(slots) \cup {None} /\ Pointed(slots) \subseteq Collector!Pointer
  BY <1>1 DEF Pointed, SlotStates, Collector!Range
<1>3. /\ w.kind \in {"cells", "bytes"} /\ w.values # <<>>
      /\ w.values \in Collector!BoundedSeq(T, MaxMade - made)
      /\ \A i \in DOMAIN w.values : w.values[i] # None => w.kind = "cells"
  BY <1>1 DEF Collector!NewObjects
<1>4. w.values \in Seq(T)
  BY <1>3 DEF Collector!BoundedSeq, Collector!SeqOf
<1>5. w.values \in Seq(Pointed(slots) \cup {None})
  BY <1>2, <1>4
<1>6. Len(w.values) >= 1
  BY <1>3, <1>4
<1> QED BY <1>2, <1>3, <1>5, <1>6

LEMMA NewBlockMeans ==
  ASSUME NEW slots \in SlotStates, NEW w \in Collector!NewObjects(slots), made \in Nat,
         NEW n, n = Len(w.values)
  PROVE  /\ Collector!NewBlock(w) \in Blocks
         /\ Collector!NewBlock(w).size = n
         /\ Len(Collector!NewBlock(w).cells) = n
         /\ \A i \in 1..n : Collector!NewBlock(w).cells[i] = [stamp |-> made + i, value |-> w.values[i]]
         /\ n \in Nat /\ n >= 1
<1>1. PICK values : values = w.values
  OBVIOUS
<1>2. /\ values \in Seq(Collector!Pointer \cup {None}) /\ n = Len(values) /\ n >= 1 /\ n \in Nat
      /\ DOMAIN values = 1..n
  <2>1. PICK T : T = Pointed(slots) \cup {None}
    OBVIOUS
  <2>2. values \in Seq(T) /\ Len(values) >= 1 /\ T \subseteq Collector!Pointer \cup {None}
    BY <1>1, <2>1, NewObjectMeans
  <2> QED BY <1>1, <2>2
<1> DEFINE cells == [i \in 1..n |-> [stamp |-> made + i, value |-> values[i]]]
<1>3. Collector!NewBlock(w) = [size |-> n, cells |-> cells]
  BY <1>1, <1>2 DEF Collector!NewBlock
<1>4. \A i \in 1..n : [stamp |-> made + i, value |-> values[i]] \in Cells
  BY <1>2 DEF Cells
<1>5. cells \in Seq(Cells) /\ Len(cells) = n
  <2>1. cells \in [1..n -> Cells]
    BY <1>4
  <2> HIDE DEF cells
  <2> QED BY <1>2, <2>1
<1>6. \A i \in 1..n : cells[i] = [stamp |-> made + i, value |-> values[i]]
  OBVIOUS
<1> HIDE DEF cells
<1>7. [size |-> n, cells |-> cells] \in Blocks
  BY <1>2, <1>5 DEF Blocks
<1> QED BY <1>1, <1>2, <1>3, <1>5, <1>6, <1>7

(* A new object in the newest allocation leads to what the program points  *)
(* at, none of which is newer.                                             *)
LEMMA WrittenCovered ==
  ASSUME NEW slots \in SlotStates, NEW w \in Collector!NewObjects(slots), made \in Nat,
         NEW k \in Heaps, NEW a, a = Len(k.allocations), NEW b, HasBlock(k, a, b),
         BlockAt(k, a, b) = Collector!NewBlock(w),
         NEW S, Covered(k, S), Pointed(slots) \subseteq S
  PROVE  Covered(k, S \cup {Collector!PointerTo(w, a, b)})
<1>1. PICK n : n = Len(w.values)
  OBVIOUS
<1>2. /\ n \in Nat /\ n >= 1
      /\ BlockAt(k, a, b).size = n /\ Len(BlockAt(k, a, b).cells) = n
      /\ \A i \in 1..n : BlockAt(k, a, b).cells[i] = [stamp |-> made + i, value |-> w.values[i]]
  BY <1>1, NewBlockMeans
<1>3. /\ w.kind \in {"cells", "bytes"} /\ DOMAIN w.values = 1..n
      /\ \A i \in 1..n : /\ w.values[i] \in Pointed(slots) \cup {None}
                         /\ w.kind = "bytes" => w.values[i] = None
  <2>1. PICK T : T = Pointed(slots) \cup {None}
    OBVIOUS
  <2>2. PICK values : values = w.values
    OBVIOUS
  <2>3. /\ values \in Seq(T) /\ w.kind \in {"cells", "bytes"}
        /\ w.kind = "bytes" => \A i \in DOMAIN values : values[i] = None
    BY <2>1, <2>2, NewObjectMeans
  <2>4. DOMAIN values = 1..n /\ \A i \in 1..n : values[i] \in T
    BY <1>1, <2>2, <2>3
  <2> QED BY <2>1, <2>2, <2>3, <2>4
<1>4. PICK v : v = Collector!PointerTo(w, a, b)
  OBVIOUS
<1> DEFINE stamps == [i \in 1..n |-> made + i]
<1>5. stamps \in Seq(Nat) /\ Len(stamps) = n
  <2>1. stamps \in [1..n -> Nat]
    BY <1>2
  <2> HIDE DEF stamps
  <2> QED BY <1>2, <2>1
<1>6. v = [kind |-> w.kind, a |-> a, b |-> b, o |-> 0, n |-> n, stamps |-> stamps]
  <2>1. v = Collector!Memory(w.kind, a, b, 0, stamps)
    BY <1>3, <1>4 DEF Collector!PointerTo
  <2> HIDE DEF stamps
  <2> QED BY <1>5, <2>1 DEF Collector!Memory
<1>7. \A i \in 1..n : stamps[i] = made + i
  OBVIOUS
<1> HIDE DEF stamps
<1>8. a \in Nat /\ b \in Nat
  BY HeapParts DEF HasBlock
<1>9. v \in Collector!Pointer /\ v.kind \in {"cells", "bytes"} /\ v.a = a /\ v.b = b /\ v.o = 0
      /\ v.n = n /\ v.stamps = stamps
  BY <1>2, <1>3, <1>5, <1>6, <1>8 DEF Collector!Pointer
<1>10. \A i \in 1..n : CellAt(k, v, i) = [stamp |-> made + i, value |-> w.values[i]]
  BY <1>2, <1>9 DEF CellAt
<1>11. FitsIn(k, v)
  <2>1. HasBlock(k, v.a, v.b) /\ v.n = Len(v.stamps) /\ ~(v.n = 0)
    BY <1>2, <1>5, <1>9
  <2>2. v.o + v.n <= Len(BlockAt(k, v.a, v.b).cells) /\ v.o + v.n <= BlockAt(k, v.a, v.b).size
    BY <1>2, <1>9
  <2>3. \A i \in 1..v.n : /\ CellAt(k, v, i).stamp = v.stamps[i]
                          /\ v.kind = "bytes" => CellAt(k, v, i).value = None
    <3>1. v.kind = w.kind
      BY <1>6
    <3> QED BY <1>3, <1>7, <1>9, <1>10, <3>1
  <2> QED BY <2>1, <2>2, <2>3 DEF FitsIn
<1>12. Contents(k, v) \subseteq S
  <2>1. \A i \in 1..n : CellAt(k, v, i).value \in S \cup {None}
    BY <1>3, <1>10
  <2> QED BY <1>9, <2>1 DEF Contents
<1>13. AgeIn(k, v) = a /\ HorizonIn(k, v) = a
  BY <1>9 DEF AgeIn, HorizonIn
<1>14. \A x \in Contents(k, v) : AgeIn(k, x) <= HorizonIn(k, v)
  BY <1>12, <1>13 DEF Covered, Leads
<1>15. Leads(k, v)
  BY <1>8, <1>9, <1>11, <1>13, <1>14 DEF Leads
<1> QED BY <1>4, <1>12, <1>15 DEF Covered
-----------------------------------------------------------------------------
(* Steps that leave memory as it is.                                       *)
LEMMA InvParts ==
  ASSUME CollectorInv
  PROVE  /\ Heap \in Heaps /\ root \in SlotStates /\ made \in Nat /\ TrackersFit
         /\ Covered(Heap, Collector!Visited)
         /\ Pointed(root) \subseteq Collector!Visited
         /\ \A t \in Tracked : trackers[t].refs > 0 => Collector!Object(t) \in Collector!Visited
         /\ Collector!Pointers(Slots) = Pointed(root)
  BY DEF CollectorInv, SlotStates, Starts, Collector!Pointers, Collector!Externals, Pointed

(* Only slots of the root change, and what they point at then is led to.   *)
LEMMA RootMoves ==
  ASSUME CollectorInv, UNCHANGED <<allocations, trackers, links>>, made' \in Nat,
         root' \in SlotStates, NEW S, Covered(Heap, S), Pointed(root') \subseteq S,
         Collector!Visited \subseteq S
  PROVE  CollectorInv'
<1>1. Heap' = Heap /\ Heap' \in Heaps
  BY InvParts DEF Heap
<1>2. Collector!Externals' = Collector!Externals /\ Collector!Externals \subseteq S
  BY DEF Collector!Externals, CollectorInv, Starts
<1>3. Starts' \subseteq S
  BY <1>2 DEF Starts, Collector!Pointers, Pointed
<1>4. TrackersFit'
  BY InvParts DEF TrackersFit
<1> QED BY <1>1, <1>3, <1>4, CoverSuffices DEF SlotStates

LEMMA ForgetKeeps ==
  ASSUME CollectorInv, NEW r \in Slots, Collector!Forget(r)
  PROVE  CollectorInv'
<1>1. root' \in SlotStates /\ Pointed(root') \subseteq Pointed(root)
  BY InvParts DEF Collector!Forget, SlotStates, Pointed
<1>2. made' \in Nat /\ UNCHANGED <<allocations, trackers, links>>
  BY InvParts DEF Collector!Forget
<1>3. Covered(Heap, Collector!Visited) /\ Pointed(root) \subseteq Collector!Visited
  BY InvParts
<1> QED BY <1>1, <1>2, <1>3, RootMoves

(* An interval leads to cells that its array leads to.                     *)
LEMMA IntervalLeads ==
  ASSUME NEW h \in Heaps, NEW v, Leads(h, v), v.kind \in {"cells", "bytes"},
         NEW i \in 0..v.n, NEW n \in MinBytes..v.n, i + n <= v.n, n = 0 => v.kind = "bytes",
         NEW u, u = Collector!Memory(v.kind, v.a, v.b, v.o + i, SubSeq(v.stamps, i + 1, i + n))
  PROVE  Leads(h, u) /\ Contents(h, u) \subseteq Contents(h, v)
<1>1. /\ v \in Collector!Pointer /\ v.a \in Nat /\ v.b \in Nat /\ v.o \in Nat /\ v.n \in Nat
      /\ v.stamps \in Seq(Nat) /\ v.n = Len(v.stamps)
  BY DEF Leads, FitsIn, Collector!Pointer
<1>2. i \in Nat /\ n \in Nat
  BY <1>1, MemoryAssumption
<1>3. PICK stamps : stamps = SubSeq(v.stamps, i + 1, i + n)
  OBVIOUS
<1>4. stamps \in Seq(Nat) /\ Len(stamps) = n /\ \A j \in 1..n : stamps[j] = v.stamps[i + j]
  <2>1. PICK all : all = v.stamps
    OBVIOUS
  <2>2. all \in Seq(Nat) /\ i + n <= Len(all)
    BY <1>1, <2>1
  <2>3. /\ SubSeq(all, i + 1, i + n) \in Seq(Nat)
        /\ Len(SubSeq(all, i + 1, i + n)) = n
        /\ \A j \in 1..n : SubSeq(all, i + 1, i + n)[j] = all[i + j]
    BY <1>2, <2>2, PartOfList, Zenon
  <2>4. stamps = SubSeq(all, i + 1, i + n)
    BY <1>3, <2>1
  <2> QED BY <2>1, <2>3, <2>4, Zenon
<1>5. u = [kind |-> v.kind, a |-> v.a, b |-> v.b, o |-> v.o + i, n |-> n, stamps |-> stamps]
  BY <1>3, <1>4 DEF Collector!Memory
<1>6. /\ u.kind = v.kind /\ u.a = v.a /\ u.b = v.b /\ u.o = v.o + i /\ u.n = n /\ u.stamps = stamps
      /\ u \in Collector!Pointer
  BY <1>1, <1>2, <1>4, <1>5 DEF Collector!Pointer
<1>7. \A j \in 1..n : i + j \in 1..v.n /\ CellAt(h, u, j) = CellAt(h, v, i + j)
  <2> TAKE j \in 1..n
  <2>1. i + j \in 1..v.n /\ (v.o + i) + j = v.o + (i + j)
    BY <1>1, <1>2
  <2>2. CellAt(h, u, j) = BlockAt(h, v.a, v.b).cells[(v.o + i) + j]
    BY <1>6 DEF CellAt
  <2>3. CellAt(h, v, i + j) = BlockAt(h, v.a, v.b).cells[v.o + (i + j)]
    BY DEF CellAt
  <2> QED BY <2>1, <2>2, <2>3
<1>8. FitsIn(h, v) /\ Len(BlockAt(h, v.a, v.b).cells) \in Nat /\ BlockAt(h, v.a, v.b).size \in Nat
  BY HeapParts DEF Leads, FitsIn, HasBlock
<1>9. FitsIn(h, u)
  <2>1. HasBlock(h, u.a, u.b) /\ u.n = Len(u.stamps)
    BY <1>4, <1>6, <1>8 DEF FitsIn
  <2>2. u.n = 0 => MinBytes = 0 /\ u.kind = "bytes"
    BY <1>1, <1>6, MemoryAssumption
  <2>3. /\ u.o + u.n <= Len(BlockAt(h, u.a, u.b).cells)
        /\ u.n >= 1 => u.o + u.n <= BlockAt(h, u.a, u.b).size
    <3>1. PICK m, size : m = Len(BlockAt(h, v.a, v.b).cells) /\ size = BlockAt(h, v.a, v.b).size
      OBVIOUS
    <3>2. v.o + v.n <= m /\ (v.n >= 1 => v.o + v.n <= size) /\ m \in Nat /\ size \in Nat
      BY <1>8, <3>1 DEF FitsIn
    <3>3. PICK first, all : first = v.o /\ all = v.n
      OBVIOUS
    <3>4. /\ first \in Nat /\ all \in Nat /\ i \in Nat /\ n \in Nat /\ i + n <= all
          /\ first + all <= m /\ (all >= 1 => first + all <= size)
      BY <1>1, <1>2, <3>2, <3>3
    <3>5. (first + i) + n <= m /\ (n >= 1 => (first + i) + n <= size)
      BY <3>2, <3>4
    <3> QED BY <1>6, <3>1, <3>3, <3>5
  <2>4. \A j \in 1..u.n : /\ CellAt(h, u, j).stamp = u.stamps[j]
                          /\ u.kind = "bytes" => CellAt(h, u, j).value = None
    <3>1. \A j \in 1..v.n : /\ CellAt(h, v, j).stamp = v.stamps[j]
                            /\ v.kind = "bytes" => CellAt(h, v, j).value = None
      BY <1>8 DEF FitsIn
    <3>2. ASSUME NEW j \in 1..n
          PROVE  /\ CellAt(h, u, j).stamp = stamps[j]
                 /\ v.kind = "bytes" => CellAt(h, u, j).value = None
      <4>1. i + j \in 1..v.n /\ CellAt(h, u, j) = CellAt(h, v, i + j)
        BY <1>7
      <4>2. /\ CellAt(h, v, i + j).stamp = v.stamps[i + j]
            /\ v.kind = "bytes" => CellAt(h, v, i + j).value = None
        BY <3>1, <4>1
      <4>3. stamps[j] = v.stamps[i + j]
        BY <1>4
      <4> QED BY <4>1, <4>2, <4>3
    <3> QED BY <1>6, <3>2
  <2> QED BY <2>1, <2>2, <2>3, <2>4 DEF FitsIn
<1>10. Contents(h, u) \subseteq Contents(h, v)
  <2>1. CASE v.kind = "bytes"
    BY <1>6, <2>1 DEF Contents
  <2>2. CASE v.kind = "cells"
    <3>1. Contents(h, u) = {CellAt(h, u, j).value : j \in 1..n} \ {None}
      BY <1>6, <2>2 DEF Contents
    <3>2. Contents(h, v) = {CellAt(h, v, j).value : j \in 1..v.n} \ {None}
      BY <2>2 DEF Contents
    <3> QED BY <1>7, <3>1, <3>2
  <2> QED BY <2>1, <2>2
<1>11. AgeIn(h, u) = AgeIn(h, v) /\ HorizonIn(h, u) = HorizonIn(h, v)
  BY <1>6 DEF AgeIn, HorizonIn
<1>12. Leads(h, u)
  BY <1>6, <1>9, <1>10, <1>11 DEF Leads
<1> QED BY <1>10, <1>12

LEMMA IntervalKeeps ==
  ASSUME CollectorInv, NEW r \in Slots, NEW s \in Slots, Collector!TakeInterval(r, s)
  PROVE  CollectorInv'
<1>1. PICK i \in 0..root[r].n, n \in MinBytes..root[r].n :
        /\ i + n <= root[r].n /\ (n = 0 => root[r].kind = "bytes")
        /\ root' = [root EXCEPT ![s] =
                      Collector!Memory(root[r].kind, root[r].a, root[r].b, root[r].o + i,
                                       SubSeq(root[r].stamps, i + 1, i + n))]
  BY DEF Collector!TakeInterval
<1>2. PICK u : u = Collector!Memory(root[r].kind, root[r].a, root[r].b, root[r].o + i,
                                    SubSeq(root[r].stamps, i + 1, i + n))
  OBVIOUS
<1>3. root[r] \in Pointed(root) /\ root[r].kind \in {"cells", "bytes"}
  BY DEF Collector!TakeInterval, Pointed, Collector!InMemory
<1>4. /\ Heap \in Heaps /\ Covered(Heap, Collector!Visited) /\ root[r] \in Collector!Visited
      /\ root \in SlotStates /\ Pointed(root) \subseteq Collector!Visited
  BY <1>3, InvParts
<1>5. Leads(Heap, root[r]) /\ Contents(Heap, root[r]) \subseteq Collector!Visited
  BY <1>4 DEF Covered
<1>6. Leads(Heap, u) /\ Contents(Heap, u) \subseteq Contents(Heap, root[r])
  <2>1. PICK v : v = root[r]
    OBVIOUS
  <2>2. PICK h : h = Heap
    OBVIOUS
  <2>3. h \in Heaps /\ Leads(h, v) /\ v.kind \in {"cells", "bytes"}
    BY <1>3, <1>4, <1>5, <2>1, <2>2
  <2>4. i \in 0..v.n /\ n \in MinBytes..v.n /\ i + n <= v.n /\ (n = 0 => v.kind = "bytes")
    BY <1>1, <2>1
  <2>5. u = Collector!Memory(v.kind, v.a, v.b, v.o + i, SubSeq(v.stamps, i + 1, i + n))
    BY <1>2, <2>1
  <2>6. Leads(h, u) /\ Contents(h, u) \subseteq Contents(h, v)
    BY <2>3, <2>4, <2>5, IntervalLeads, Zenon
  <2> QED BY <2>1, <2>2, <2>6
<1>7. Covered(Heap, Collector!Visited \cup {u})
  BY <1>4, <1>5, <1>6 DEF Covered
<1>8. root' \in SlotStates /\ Pointed(root') \subseteq Collector!Visited \cup {u}
  <2>1. u \in Collector!Pointer /\ root' = [root EXCEPT ![s] = u]
    BY <1>1, <1>2, <1>6 DEF Leads
  <2> QED BY <1>4, <2>1 DEF SlotStates, Pointed
<1>9. made' \in Nat /\ UNCHANGED <<allocations, trackers, links>>
  BY InvParts DEF Collector!TakeInterval
<1> QED BY <1>7, <1>8, <1>9, RootMoves
-----------------------------------------------------------------------------
(* Steps after which a closed set V is left, and N is there besides.       *)
LEMMA HeapMoves ==
  ASSUME CollectorInv, Heap' \in Heaps, Len(allocations) <= Len(allocations'),
         root' \in SlotStates, made' \in Nat, TrackersFit',
         NEW V, Covered(Heap, V), \A v \in V : KeptAt(Heap, Heap', v),
         NEW N, \A v \in N : Leads(Heap', v) /\ Contents(Heap', v) \subseteq V \cup N,
         Pointed(root') \subseteq V \cup N,
         \A t \in Tracked : trackers'[t].refs > 0 => Collector!Object(t) \in V \cup N
  PROVE  CollectorInv'
<1>1. Heap.allocations = allocations /\ Heap'.allocations = allocations' /\ Heap \in Heaps
  BY InvParts DEF Heap
<1>2. Covered(Heap', V)
  <2>1. PICK h, k : h = Heap /\ k = Heap'
    OBVIOUS
  <2>2. /\ h \in Heaps /\ k \in Heaps /\ Len(h.allocations) <= Len(k.allocations)
        /\ Covered(h, V) /\ \A v \in V : KeptAt(h, k, v)
    BY <1>1, <2>1
  <2>3. Covered(k, V)
    BY <2>2, KeptCovered, Zenon
  <2> QED BY <2>1, <2>3
<1>3. Covered(Heap', V \cup N)
  BY <1>2 DEF Covered
<1>4. Starts' \subseteq V \cup N
  BY DEF Starts, Collector!Pointers, Pointed, Collector!Externals
<1> QED BY <1>3, <1>4, CoverSuffices DEF SlotStates

(* Steps that leave memory itself.                                         *)
LEMMA MemoryKept ==
  ASSUME CollectorInv, UNCHANGED allocations, NEW v \in Collector!Visited,
         v.kind = "object" => /\ trackers'[v.id].there
                              /\ trackers'[v.id].index = trackers[v.id].index
                              /\ trackers'[v.id].content = trackers[v.id].content,
         v.kind = "backlink" => /\ links'[v.id].there
                                /\ links'[v.id].index = links[v.id].index
                                /\ links'[v.id].bytes = links[v.id].bytes
  PROVE  KeptAt(Heap, Heap', v)
<1>1. Leads(Heap, v)
  BY InvParts DEF Covered
<1>2. v.kind \in {"cells", "bytes"} => FitsIn(Heap, v)
  BY <1>1 DEF Leads
<1>3. Heap'.allocations = Heap.allocations
  BY DEF Heap
<1>4. \A a, b : BlockAt(Heap', a, b) = BlockAt(Heap, a, b) /\ HasBlock(Heap', a, b) = HasBlock(Heap, a, b)
  BY <1>3 DEF BlockAt, HasBlock
<1>5. v.kind \in {"cells", "bytes"} =>
        /\ HasBlock(Heap', v.a, v.b)
        /\ BlockAt(Heap', v.a, v.b).cells = BlockAt(Heap, v.a, v.b).cells
        /\ v.n >= 1 => v.o + v.n <= BlockAt(Heap', v.a, v.b).size
  BY <1>2, <1>4 DEF FitsIn
<1> QED BY <1>5 DEF KeptAt, Heap

LEMMA VisitedObject ==
  ASSUME CollectorInv, NEW v \in Collector!Visited
  PROVE  /\ v.kind = "object" => v.id \in Tracked /\ trackers[v.id].there
         /\ v.kind = "backlink" => v.id \in Links /\ links[v.id].there
         /\ v \in Collector!Pointer /\ Leads(Heap, v)
         /\ AgeIn(Heap, v) <= Len(allocations)
BY InvParts DEF Covered, Leads, Collector!Pointer, Heap

LEMMA AddTrackedKeeps ==
  ASSUME CollectorInv, NEW r \in Slots, NEW t \in Tracked, Collector!AddTrackedObject(r, t)
  PROVE  CollectorInv'
<1> DEFINE V == Collector!Visited
           o == Collector!Object(t)
<1>1. PICK content \in Collector!Pointers(Slots) \cup {None} :
        trackers' = [trackers EXCEPT ![t] = [there |-> TRUE, told |-> FALSE, index |-> Len(allocations),
                                             refs |-> 0, content |-> content]]
  BY DEF Collector!AddTrackedObject, Collector!Newest
<1>2. /\ ~trackers[t].there /\ UNCHANGED <<allocations, links>> /\ root' = [root EXCEPT ![r] = o]
      /\ made' = made + 1
  BY DEF Collector!AddTrackedObject
<1>3. /\ Heap \in Heaps /\ root \in SlotStates /\ made \in Nat /\ TrackersFit /\ Covered(Heap, V)
      /\ Pointed(root) \subseteq V /\ content \in Pointed(root) \cup {None}
      /\ \A u \in Tracked : trackers[u].refs > 0 => Collector!Object(u) \in V
      /\ Pointed(root) \subseteq Collector!Pointer
  BY InvParts DEF Pointed, SlotStates
<1>4. /\ trackers \in [Tracked -> TrackerStates] /\ links \in [Links -> LinkStates]
      /\ allocations \in Seq(AllocationStates) /\ Len(allocations) \in Nat
  BY <1>3, HeapParts DEF Heap, Heaps
<1> DEFINE new == [there |-> TRUE, told |-> FALSE, index |-> Len(allocations),
                   refs |-> 0, content |-> content]
<1>5. /\ new \in TrackerStates /\ new.there /\ ~new.told /\ new.index = Len(allocations)
      /\ new.refs = 0 /\ new.content = content
  BY <1>3, <1>4 DEF TrackerStates
<1>6. trackers' = [trackers EXCEPT ![t] = new]
  BY <1>1
<1> HIDE DEF new
<1>7. trackers' \in [Tracked -> TrackerStates] /\ trackers'[t] = new
      /\ \A u \in Tracked \ {t} : trackers'[u] = trackers[u]
  BY <1>4, <1>5, <1>6
<1>8. Heap' \in Heaps
  BY <1>2, <1>4, <1>7 DEF Heap, Heaps
<1>9. TrackersFit'
  BY <1>3, <1>5, <1>7 DEF TrackersFit
<1>10. \A v \in V : KeptAt(Heap, Heap', v)
  <2> TAKE v \in V
  <2>1. v.kind = "object" => v.id \in Tracked \ {t} /\ trackers[v.id].there
    BY <1>2, VisitedObject
  <2>2. v.kind = "backlink" => v.id \in Links /\ links[v.id].there
    BY VisitedObject
  <2> QED BY <1>2, <1>7, <2>1, <2>2, MemoryKept
<1>11. Leads(Heap', o) /\ Contents(Heap', o) \subseteq V \cup {o}
  <2>1. o.kind = "object" /\ o.id = t /\ o \in Collector!Pointer
    BY DEF Collector!Object, Collector!Pointer
  <2>2. Heap'.trackers[t] = new /\ Len(Heap'.allocations) = Len(allocations)
    BY <1>2, <1>7 DEF Heap
  <2>3. AgeIn(Heap', o) = Len(allocations) /\ HorizonIn(Heap', o) = Len(allocations)
    BY <1>5, <2>1, <2>2 DEF AgeIn, HorizonIn
  <2>4. Contents(Heap', o) \subseteq Pointed(root)
    BY <1>3, <1>5, <2>1, <2>2 DEF Contents
  <2>5. \A w \in Contents(Heap', o) : AgeIn(Heap', w) <= Len(allocations)
    <3> TAKE w \in Contents(Heap', o)
    <3>1. w \in V
      BY <1>3, <2>4
    <3>2. w \in Collector!Pointer /\ AgeIn(Heap, w) <= Len(allocations)
      BY <3>1, VisitedObject
    <3>3. AgeIn(Heap', w) = AgeIn(Heap, w)
      BY <1>10, <3>1, <3>2 DEF KeptAt, AgeIn, Collector!Pointer
    <3> QED BY <3>2, <3>3
  <2>6. Len(allocations) <= Len(Heap'.allocations)
    BY <1>4, <2>2
  <2>7. Leads(Heap', o)
    BY <1>5, <2>1, <2>2, <2>3, <2>5, <2>6 DEF Leads
  <2> QED BY <1>3, <2>4, <2>7
<1>12. root' \in SlotStates /\ Pointed(root') \subseteq V \cup {o} /\ made' \in Nat
  <2>1. o \in Collector!Pointer
    BY DEF Collector!Object, Collector!Pointer
  <2> QED BY <1>2, <1>3, <2>1 DEF SlotStates, Pointed
<1>13. \A u \in Tracked : trackers'[u].refs > 0 => Collector!Object(u) \in V \cup {o}
  BY <1>3, <1>5, <1>7
<1>14. Len(allocations) <= Len(allocations')
  BY <1>2, <1>4
<1> HIDE DEF V, o
<1>15. PICK N : N = {o}
  OBVIOUS
<1>16. /\ \A v \in N : Leads(Heap', v) /\ Contents(Heap', v) \subseteq V \cup N
       /\ Pointed(root') \subseteq V \cup N
       /\ \A u \in Tracked : trackers'[u].refs > 0 => Collector!Object(u) \in V \cup N
  BY <1>11, <1>12, <1>13, <1>15
<1> QED BY <1>3, <1>8, <1>9, <1>10, <1>12, <1>14, <1>16, HeapMoves, Zenon

LEMMA BacklinkKeeps ==
  ASSUME CollectorInv, NEW r \in Slots, NEW l \in Links, Collector!MakeBacklink(r, l)
  PROVE  CollectorInv'
<1> DEFINE V == Collector!Visited
           o == Collector!Link(l)
           new == [there |-> TRUE, index |-> Len(allocations), bytes |-> None]
<1>1. /\ links' = [links EXCEPT ![l] = new]
      /\ ~links[l].there /\ UNCHANGED <<allocations, trackers>> /\ root' = [root EXCEPT ![r] = o]
      /\ made' = made + 1
  BY DEF Collector!MakeBacklink, Collector!Newest
<1>2. /\ Heap \in Heaps /\ root \in SlotStates /\ made \in Nat /\ TrackersFit /\ Covered(Heap, V)
      /\ Pointed(root) \subseteq V
      /\ \A u \in Tracked : trackers[u].refs > 0 => Collector!Object(u) \in V
  BY InvParts
<1>3. /\ trackers \in [Tracked -> TrackerStates] /\ links \in [Links -> LinkStates]
      /\ allocations \in Seq(AllocationStates) /\ Len(allocations) \in Nat
  BY <1>2, HeapParts DEF Heap, Heaps
<1>4. /\ new \in LinkStates /\ new.there /\ new.index = Len(allocations) /\ new.bytes = None
  BY <1>3 DEF LinkStates
<1> HIDE DEF new
<1>5. links' \in [Links -> LinkStates] /\ links'[l] = new
      /\ \A u \in Links \ {l} : links'[u] = links[u]
  BY <1>1, <1>3, <1>4
<1>6. Heap' \in Heaps
  BY <1>1, <1>3, <1>5 DEF Heap, Heaps
<1>7. TrackersFit'
  BY <1>1, <1>2 DEF TrackersFit
<1>8. \A v \in V : KeptAt(Heap, Heap', v)
  <2> TAKE v \in V
  <2>1. v.kind = "backlink" => v.id \in Links \ {l} /\ links[v.id].there
    BY <1>1, VisitedObject
  <2>2. v.kind = "object" => v.id \in Tracked /\ trackers[v.id].there
    BY VisitedObject
  <2> QED BY <1>1, <1>5, <2>1, <2>2, MemoryKept
<1>9. Leads(Heap', o) /\ Contents(Heap', o) \subseteq V \cup {o}
  <2>1. o.kind = "backlink" /\ o.id = l /\ o \in Collector!Pointer
    BY DEF Collector!Link, Collector!Pointer
  <2>2. Heap'.links[l] = new /\ Len(Heap'.allocations) = Len(allocations)
    BY <1>1, <1>5 DEF Heap
  <2>3. AgeIn(Heap', o) = Len(allocations)
    BY <1>4, <2>1, <2>2 DEF AgeIn
  <2>4. Contents(Heap', o) = {}
    BY <1>4, <2>1, <2>2 DEF Contents
  <2>5. Len(allocations) <= Len(Heap'.allocations)
    BY <1>3, <2>2
  <2>6. Leads(Heap', o)
    BY <1>4, <2>1, <2>2, <2>3, <2>4, <2>5 DEF Leads
  <2> QED BY <2>4, <2>6
<1>10. root' \in SlotStates /\ Pointed(root') \subseteq V \cup {o} /\ made' \in Nat
  <2>1. o \in Collector!Pointer
    BY DEF Collector!Link, Collector!Pointer
  <2> QED BY <1>1, <1>2, <2>1 DEF SlotStates, Pointed
<1>11. \A u \in Tracked : trackers'[u].refs > 0 => Collector!Object(u) \in V \cup {o}
  BY <1>1, <1>2
<1>12. Len(allocations) <= Len(allocations')
  BY <1>1, <1>3
<1> HIDE DEF V, o
<1>13. PICK N : N = {o}
  OBVIOUS
<1>14. /\ \A v \in N : Leads(Heap', v) /\ Contents(Heap', v) \subseteq V \cup N
       /\ Pointed(root') \subseteq V \cup N
       /\ \A u \in Tracked : trackers'[u].refs > 0 => Collector!Object(u) \in V \cup N
  BY <1>9, <1>10, <1>11, <1>13
<1> QED BY <1>2, <1>6, <1>7, <1>8, <1>10, <1>12, <1>14, HeapMoves, Zenon

LEMMA ReferencesKeep ==
  ASSUME CollectorInv, NEW t \in Tracked,
         Collector!AddExternalReference(t) \/ Collector!RemoveExternalReference(t)
  PROVE  CollectorInv'
<1> DEFINE V == Collector!Visited
<1>1. /\ Heap \in Heaps /\ root \in SlotStates /\ made \in Nat /\ TrackersFit /\ Covered(Heap, V)
      /\ Pointed(root) \subseteq V /\ Collector!Pointers(Slots) = Pointed(root)
      /\ \A u \in Tracked : trackers[u].refs > 0 => Collector!Object(u) \in V
  BY InvParts
<1>2. /\ trackers \in [Tracked -> TrackerStates] /\ links \in [Links -> LinkStates]
      /\ allocations \in Seq(AllocationStates) /\ Len(allocations) \in Nat
      /\ trackers[t] \in TrackerStates /\ trackers[t].refs \in Nat
  BY <1>1, HeapParts DEF Heap, Heaps, TrackerStates
<1>3. UNCHANGED <<allocations, root, links, made>>
  BY DEF Collector!AddExternalReference, Collector!RemoveExternalReference
<1>4. PICK refs \in Nat : /\ trackers' = [trackers EXCEPT ![t].refs = refs]
                          /\ refs > 0 => Collector!Object(t) \in V
  <2>1. CASE Collector!AddExternalReference(t)
    <3>1. trackers' = [trackers EXCEPT ![t].refs = trackers[t].refs + 1]
      BY <1>2, <2>1 DEF Collector!AddExternalReference
    <3>2. trackers[t].refs + 1 \in Nat /\ Collector!Object(t) \in V
      BY <1>1, <1>2, <2>1 DEF Collector!AddExternalReference
    <3> QED BY <3>1, <3>2
  <2>2. CASE Collector!RemoveExternalReference(t)
    <3>1. trackers' = [trackers EXCEPT ![t].refs = trackers[t].refs - 1]
      BY <1>2, <2>2 DEF Collector!RemoveExternalReference
    <3>2. trackers[t].refs - 1 \in Nat /\ Collector!Object(t) \in V
      BY <1>1, <1>2, <2>2 DEF Collector!RemoveExternalReference
    <3> QED BY <3>1, <3>2
  <2> QED BY <2>1, <2>2
<1>5. /\ trackers'[t] \in TrackerStates /\ trackers'[t].refs = refs
      /\ trackers'[t].there = trackers[t].there /\ trackers'[t].told = trackers[t].told
      /\ trackers'[t].index = trackers[t].index /\ trackers'[t].content = trackers[t].content
  BY <1>2, <1>4 DEF TrackerStates
<1>6. \A u \in Tracked \ {t} : trackers'[u] = trackers[u]
  BY <1>2, <1>4
<1>7. trackers' \in [Tracked -> TrackerStates]
  BY <1>2, <1>4 DEF TrackerStates
<1>8. Heap' \in Heaps
  BY <1>2, <1>3, <1>7 DEF Heap, Heaps
<1>9. TrackersFit'
  <2>1. Collector!Object(t) \in V => trackers[t].there
    <3>1. Collector!Object(t).kind = "object" /\ Collector!Object(t).id = t
      BY DEF Collector!Object
    <3> QED BY <3>1, VisitedObject
  <2> QED BY <1>1, <1>4, <1>5, <1>6, <2>1 DEF TrackersFit
<1>10. \A v \in V : KeptAt(Heap, Heap', v)
  <2> TAKE v \in V
  <2>1. v.kind = "object" => v.id \in Tracked /\ trackers[v.id].there
    BY VisitedObject
  <2>2. v.kind = "backlink" => v.id \in Links /\ links[v.id].there
    BY VisitedObject
  <2>3. v.kind = "object" => /\ trackers'[v.id].there
                             /\ trackers'[v.id].index = trackers[v.id].index
                             /\ trackers'[v.id].content = trackers[v.id].content
    BY <1>5, <1>6, <2>1
  <2> QED BY <1>3, <2>2, <2>3, MemoryKept
<1>11. \A u \in Tracked : trackers'[u].refs > 0 => Collector!Object(u) \in V \cup {}
  BY <1>1, <1>4, <1>5, <1>6
<1>12. /\ Len(allocations) <= Len(allocations') /\ root' \in SlotStates /\ made' \in Nat
       /\ Pointed(root') \subseteq V \cup {}
  BY <1>1, <1>2, <1>3
<1>13. \A v \in {} : Leads(Heap', v) /\ Contents(Heap', v) \subseteq V \cup {}
  OBVIOUS
<1> HIDE DEF V
<1> QED BY <1>1, <1>8, <1>9, <1>10, <1>11, <1>12, <1>13, HeapMoves

LEMMA SetBytesKeeps ==
  ASSUME CollectorInv, NEW l \in Links, Collector!SetBytes(l)
  PROVE  CollectorInv'
<1> DEFINE V == Collector!Visited
           o == Collector!Link(l)
<1>1. /\ Heap \in Heaps /\ root \in SlotStates /\ made \in Nat /\ TrackersFit /\ Covered(Heap, V)
      /\ Pointed(root) \subseteq V /\ Collector!Pointers(Slots) = Pointed(root)
      /\ \A u \in Tracked : trackers[u].refs > 0 => Collector!Object(u) \in V
  BY InvParts
<1>2. /\ trackers \in [Tracked -> TrackerStates] /\ links \in [Links -> LinkStates]
      /\ allocations \in Seq(AllocationStates) /\ Len(allocations) \in Nat
      /\ links[l] \in LinkStates
  BY <1>1, HeapParts DEF Heap, Heaps
<1>3. UNCHANGED <<allocations, root, trackers, made>>
  BY DEF Collector!SetBytes
<1>4. PICK x \in V : links' = [links EXCEPT ![l].bytes = x]
  BY <1>1 DEF Collector!SetBytes
<1>5. x \in Collector!Pointer /\ AgeIn(Heap, x) <= Len(allocations)
  BY VisitedObject
<1>6. /\ links'[l] \in LinkStates /\ links'[l].bytes = x
      /\ links'[l].there = links[l].there /\ links'[l].index = links[l].index
  BY <1>2, <1>4, <1>5 DEF LinkStates
<1>7. \A u \in Links \ {l} : links'[u] = links[u]
  BY <1>2, <1>4
<1>8. links' \in [Links -> LinkStates]
  BY <1>2, <1>4, <1>5 DEF LinkStates
<1>9. Heap' \in Heaps
  BY <1>2, <1>3, <1>8 DEF Heap, Heaps
<1>10. TrackersFit'
  BY <1>1, <1>3 DEF TrackersFit
<1>11. o.kind = "backlink" /\ o.id = l /\ o \in Collector!Pointer
  BY DEF Collector!Link, Collector!Pointer
<1>12. \A v \in V \ {o} : KeptAt(Heap, Heap', v)
  <2> TAKE v \in V \ {o}
  <2>1. v.kind = "object" => v.id \in Tracked /\ trackers[v.id].there
    BY VisitedObject
  <2>2. v.kind = "backlink" => v.id \in Links \ {l} /\ links[v.id].there
    <3>1. v \in Collector!Pointer
      BY VisitedObject
    <3>2. v.kind = "backlink" /\ v.id = l => v = o
      BY <3>1 DEF Collector!Pointer, Collector!Link
    <3> QED BY <3>2, VisitedObject
  <2> QED BY <1>3, <1>7, <2>1, <2>2, MemoryKept
<1>13. \A w \in V : AgeIn(Heap', w) = AgeIn(Heap, w)
  <2> TAKE w \in V
  <2>1. w \in Collector!Pointer
    BY VisitedObject
  <2>2. CASE w.kind = "backlink"
    <3>1. w.id \in Links
      BY <2>1, <2>2 DEF Collector!Pointer
    <3>2. links'[w.id].index = links[w.id].index
      BY <1>6, <1>7, <3>1
    <3> QED BY <2>2, <3>2 DEF AgeIn, Heap
  <2>3. CASE w.kind # "backlink"
    BY <1>3, <2>1, <2>3 DEF AgeIn, Heap, Collector!Pointer
  <2> QED BY <2>2, <2>3
<1>14. Len(Heap.allocations) <= Len(Heap'.allocations) /\ Len(Heap'.allocations) = Len(allocations)
  BY <1>2, <1>3 DEF Heap
<1>15. ASSUME NEW v \in V
       PROVE  Leads(Heap', v) /\ Contents(Heap', v) \subseteq V
  <2>1. Leads(Heap, v) /\ Contents(Heap, v) \subseteq V
    BY <1>1 DEF Covered
  <2>2. CASE v = o
    <3>1. Contents(Heap', v) = {x} \ {None}
      BY <1>6, <1>11, <2>2 DEF Contents, Heap
    <3>2. HorizonIn(Heap', v) = Len(allocations)
      BY <1>11, <1>14, <2>2 DEF HorizonIn
    <3>3. AgeIn(Heap', v) <= Len(Heap'.allocations)
      BY <1>13, <1>14, VisitedObject
    <3>4. Heap'.links[v.id].there
      <4>1. links[l].there
        BY <1>11, <2>2, VisitedObject
      <4> QED BY <1>6, <1>11, <2>2, <4>1 DEF Heap
    <3>5. \A w \in Contents(Heap', v) : AgeIn(Heap', w) <= HorizonIn(Heap', v)
      BY <1>5, <1>13, <3>1, <3>2
    <3>6. Leads(Heap', v)
      BY <1>11, <2>2, <3>3, <3>4, <3>5 DEF Leads
    <3> QED BY <3>1, <3>6
  <2>3. CASE v # o
    <3>1. KeptAt(Heap, Heap', v) /\ \A w \in Contents(Heap, v) : AgeIn(Heap', w) = AgeIn(Heap, w)
      BY <1>12, <1>13, <2>1, <2>3
    <3>2. PICK h, k : h = Heap /\ k = Heap'
      OBVIOUS
    <3>3. /\ h \in Heaps /\ k \in Heaps /\ Len(h.allocations) <= Len(k.allocations)
          /\ Leads(h, v) /\ KeptAt(h, k, v)
          /\ \A w \in Contents(h, v) : AgeIn(k, w) = AgeIn(h, w)
      BY <1>1, <1>9, <1>14, <2>1, <3>1, <3>2
    <3>4. Leads(k, v) /\ Contents(k, v) = Contents(h, v)
      BY <3>3, KeptLeads, Zenon
    <3> QED BY <2>1, <3>2, <3>4
  <2> QED BY <2>2, <2>3
<1>16. Covered(Heap', V)
  BY <1>15 DEF Covered
<1>17. Starts' \subseteq V
  BY <1>1, <1>3 DEF Starts, Collector!Pointers, Pointed, Collector!Externals
<1> HIDE DEF V
<1> QED BY <1>1, <1>3, <1>9, <1>10, <1>16, <1>17, CoverSuffices DEF SlotStates

-----------------------------------------------------------------------------
(* Steps that change the newest allocation.                                *)
LEMMA AllocationReplaced ==
  ASSUME NEW x \in AllocationStates, NEW bs
  PROVE  /\ [x EXCEPT !.blocks = bs] = [activated |-> x.activated, blocks |-> bs]
         /\ [x EXCEPT !.activated = TRUE] = [activated |-> TRUE, blocks |-> x.blocks]
<1>1. PICK A, B : A = BOOLEAN /\ B = Seq(Blocks)
  OBVIOUS
<1>2. x \in [activated : A, blocks : B]
  BY <1>1 DEF AllocationStates
<1>3. [x EXCEPT !.blocks = bs] = [activated |-> x.activated, blocks |-> bs]
  BY <1>2
<1>4. PICK act : act = TRUE
  OBVIOUS
<1>5. [x EXCEPT !.activated = act] = [activated |-> act, blocks |-> x.blocks]
  BY <1>2
<1> QED BY <1>3, <1>4, <1>5

LEMMA BlockReplaced ==
  ASSUME NEW x \in Blocks, NEW size \in Nat
  PROVE  /\ [x EXCEPT !.size = size] \in Blocks
         /\ [x EXCEPT !.size = size].size = size
         /\ [x EXCEPT !.size = size].cells = x.cells
BY DEF Blocks

LEMMA NewestChanges ==
  ASSUME CollectorInv, NEW n, n = Len(allocations), n \in DOMAIN allocations,
         NEW act \in BOOLEAN, NEW bs \in Seq(Blocks),
         allocations' = [allocations EXCEPT ![n] = [activated |-> act, blocks |-> bs]],
         UNCHANGED <<trackers, links>>
  PROVE  /\ Heap' \in Heaps /\ TrackersFit' /\ Len(allocations') = n
         /\ \A b : HasBlock(Heap', n, b) <=> b \in DOMAIN bs
         /\ \A b : BlockAt(Heap', n, b) = bs[b]
         /\ \A v : /\ Leads(Heap, v)
                   /\ v.kind \in {"cells", "bytes"} /\ v.a = n =>
                        /\ v.b \in DOMAIN bs
                        /\ bs[v.b].cells = allocations[n].blocks[v.b].cells
                        /\ v.n >= 1 => v.o + v.n <= bs[v.b].size
                   => KeptAt(Heap, Heap', v)
<1>1. Heap \in Heaps /\ TrackersFit /\ allocations \in Seq(AllocationStates)
      /\ trackers \in [Tracked -> TrackerStates] /\ links \in [Links -> LinkStates]
  BY InvParts DEF Heap, Heaps
<1>2. PICK x : x = [activated |-> act, blocks |-> bs]
  OBVIOUS
<1>3. x \in AllocationStates /\ x.blocks = bs
  BY <1>2 DEF AllocationStates
<1>4. PICK T : T = AllocationStates
  OBVIOUS
<1>5. allocations \in Seq(T) /\ x \in T /\ allocations' = [allocations EXCEPT ![n] = x]
  BY <1>1, <1>2, <1>3, <1>4
<1>6. /\ allocations' \in Seq(T) /\ Len(allocations') = n /\ DOMAIN allocations' = DOMAIN allocations
      /\ allocations'[n] = x
      /\ \A a \in DOMAIN allocations \ {n} : allocations'[a] = allocations[a]
  BY <1>5
<1>7. Heap' \in Heaps
  BY <1>1, <1>4, <1>6 DEF Heap, Heaps
<1>8. TrackersFit'
  BY <1>1 DEF TrackersFit
<1>9. /\ \A b : HasBlock(Heap', n, b) <=> b \in DOMAIN bs
      /\ \A b : BlockAt(Heap', n, b) = bs[b]
  BY <1>3, <1>6 DEF HasBlock, BlockAt, Heap
<1>10. ASSUME NEW v, Leads(Heap, v),
              v.kind \in {"cells", "bytes"} /\ v.a = n =>
                        /\ v.b \in DOMAIN bs
                        /\ bs[v.b].cells = allocations[n].blocks[v.b].cells
                        /\ v.n >= 1 => v.o + v.n <= bs[v.b].size
       PROVE  KeptAt(Heap, Heap', v)
  <2>1. ASSUME v.kind \in {"cells", "bytes"}
        PROVE  /\ HasBlock(Heap', v.a, v.b)
               /\ BlockAt(Heap', v.a, v.b).cells = BlockAt(Heap, v.a, v.b).cells
               /\ v.n >= 1 => v.o + v.n <= BlockAt(Heap', v.a, v.b).size
    <3>1. FitsIn(Heap, v)
      BY <1>10, <2>1 DEF Leads
    <3>2. CASE v.a = n
      BY <1>9, <1>10, <2>1, <3>2 DEF BlockAt, Heap
    <3>3. CASE v.a # n
      <4>1. v.a \in DOMAIN allocations \ {n}
        BY <3>1, <3>3 DEF FitsIn, HasBlock, Heap
      <4>2. allocations'[v.a] = allocations[v.a] /\ v.a \in DOMAIN allocations'
        BY <1>6, <4>1
      <4>3. HasBlock(Heap', v.a, v.b) /\ BlockAt(Heap', v.a, v.b) = BlockAt(Heap, v.a, v.b)
        BY <3>1, <4>2 DEF FitsIn, HasBlock, BlockAt, Heap
      <4> QED BY <3>1, <4>3 DEF FitsIn
    <3> QED BY <3>2, <3>3
  <2>2. /\ v.kind = "object" => Heap.trackers[v.id].there
        /\ v.kind = "backlink" => Heap.links[v.id].there
        /\ Heap'.trackers = Heap.trackers /\ Heap'.links = Heap.links
    BY <1>10 DEF Leads, Heap
  <2> QED BY <2>1, <2>2 DEF KeptAt
<1> QED BY <1>6, <1>7, <1>8, <1>9, <1>10

(* Where a pointer to the newest allocation leads.                         *)
LEMMA NewestBlocks ==
  ASSUME CollectorInv, NEW n, n = Len(allocations), n \in DOMAIN allocations
  PROVE  /\ allocations[n].blocks \in Seq(Blocks) /\ allocations[n].activated \in BOOLEAN
         /\ allocations[n] \in AllocationStates
<1>1. allocations \in Seq(AllocationStates)
  BY InvParts DEF Heap, Heaps
<1>2. PICK T : T = AllocationStates
  OBVIOUS
<1>3. allocations[n] \in T
  BY <1>1, <1>2
<1> QED BY <1>2, <1>3 DEF AllocationStates

LEMMA ActivateKeeps ==
  ASSUME CollectorInv, NEW r \in Slots, Collector!TryActivateBytes(r)
  PROVE  CollectorInv'
<1> DEFINE V == Collector!Visited
<1>1. /\ Heap \in Heaps /\ root \in SlotStates /\ made \in Nat /\ Covered(Heap, V)
      /\ Pointed(root) \subseteq V
      /\ \A u \in Tracked : trackers[u].refs > 0 => Collector!Object(u) \in V
  BY InvParts
<1>2. PICK n : n = Len(allocations)
  OBVIOUS
<1>3. /\ root[r] \in Pointed(root) /\ root[r].kind \in {"cells", "bytes"} /\ root[r].a = n
      /\ allocations' = [allocations EXCEPT ![n].activated = TRUE]
      /\ UNCHANGED <<root, trackers, links, made>>
  BY <1>2 DEF Collector!TryActivateBytes, Collector!InMemory, Collector!Newest, Pointed
<1>4. n \in DOMAIN allocations
  BY <1>1, <1>3 DEF Covered, Leads, FitsIn, HasBlock, Heap
<1>5. PICK bs : bs = allocations[n].blocks
  OBVIOUS
<1>6. bs \in Seq(Blocks) /\ allocations[n] \in AllocationStates
  BY <1>2, <1>4, <1>5, NewestBlocks
<1>7. allocations' = [allocations EXCEPT ![n] = [activated |-> TRUE, blocks |-> bs]]
  <2>1. PICK x : x = allocations[n]
    OBVIOUS
  <2>2. allocations' = [allocations EXCEPT ![n] = [x EXCEPT !.activated = TRUE]]
    BY <1>3, <2>1
  <2> QED BY <1>5, <1>6, <2>1, <2>2, AllocationReplaced
<1>8. /\ Heap' \in Heaps /\ TrackersFit' /\ Len(allocations') = n
      /\ \A v \in V : KeptAt(Heap, Heap', v)
  <2>1. UNCHANGED <<trackers, links>> /\ TRUE \in BOOLEAN
    BY <1>3
  <2>2. /\ Heap' \in Heaps /\ TrackersFit' /\ Len(allocations') = n
        /\ \A v : /\ Leads(Heap, v)
                  /\ v.kind \in {"cells", "bytes"} /\ v.a = n =>
                        /\ v.b \in DOMAIN bs
                        /\ bs[v.b].cells = allocations[n].blocks[v.b].cells
                        /\ v.n >= 1 => v.o + v.n <= bs[v.b].size
                  => KeptAt(Heap, Heap', v)
    BY <1>2, <1>4, <1>6, <1>7, <2>1, NewestChanges
  <2>3. ASSUME NEW v \in V
        PROVE  /\ Leads(Heap, v)
               /\ v.kind \in {"cells", "bytes"} /\ v.a = n =>
                        /\ v.b \in DOMAIN bs
                        /\ bs[v.b].cells = allocations[n].blocks[v.b].cells
                        /\ v.n >= 1 => v.o + v.n <= bs[v.b].size
    BY <1>1, <1>5 DEF Covered, Leads, FitsIn, HasBlock, BlockAt, Heap
  <2> QED BY <2>2, <2>3
<1>9. /\ Len(allocations) <= Len(allocations') /\ root' \in SlotStates /\ made' \in Nat
      /\ Pointed(root') \subseteq V \cup {}
      /\ \A u \in Tracked : trackers'[u].refs > 0 => Collector!Object(u) \in V \cup {}
      /\ \A v \in {} : Leads(Heap', v) /\ Contents(Heap', v) \subseteq V \cup {}
  <2>1. n \in Nat
    BY <1>1, <1>2, HeapParts DEF Heap
  <2> QED BY <1>1, <1>2, <1>3, <1>8, <2>1
<1> HIDE DEF V
<1> QED BY <1>1, <1>8, <1>9, HeapMoves

LEMMA ExtendKeeps ==
  ASSUME CollectorInv, NEW r \in Slots, Collector!TryExtendBytes(r)
  PROVE  CollectorInv'
<1> DEFINE V == Collector!Visited
<1>1. /\ Heap \in Heaps /\ root \in SlotStates /\ made \in Nat /\ Covered(Heap, V)
      /\ Pointed(root) \subseteq V
      /\ \A u \in Tracked : trackers[u].refs > 0 => Collector!Object(u) \in V
  BY InvParts
<1>2. PICK n : n = Len(allocations)
  OBVIOUS
<1>3. PICK w \in Collector!NewObjects(root) :
       /\ allocations' = [allocations EXCEPT ![n].blocks = Append(@, Collector!NewBlock(w))]
       /\ root' = [root EXCEPT ![r] =
                     Collector!PointerTo(w, n, Len(allocations[n].blocks) + 1)]
       /\ made' = made + Len(w.values)
  BY <1>2 DEF Collector!TryExtendBytes, Collector!Newest
<1>4. n > 0 /\ UNCHANGED <<trackers, links>>
  BY <1>2 DEF Collector!TryExtendBytes, Collector!Newest
<1>5. n \in Nat /\ n \in DOMAIN allocations
  BY <1>1, <1>2, <1>4, HeapParts DEF Heap
<1>6. PICK old, act : old = allocations[n].blocks /\ act = allocations[n].activated
  OBVIOUS
<1>7. old \in Seq(Blocks) /\ act \in BOOLEAN /\ allocations[n] \in AllocationStates
  BY <1>2, <1>5, <1>6, NewestBlocks
<1>8. PICK size : size = Len(w.values)
  OBVIOUS
<1>9. Collector!NewBlock(w) \in Blocks /\ size \in Nat
  BY <1>1, <1>8, NewBlockMeans
<1>10. PICK block, bs : block = Collector!NewBlock(w) /\ bs = Append(old, block)
  OBVIOUS
<1>11. PICK b : b = Len(old) + 1
  OBVIOUS
<1>12. /\ bs \in Seq(Blocks) /\ b \in DOMAIN bs /\ bs[b] = block
       /\ \A i \in DOMAIN old : i \in DOMAIN bs /\ bs[i] = old[i]
  BY <1>7, <1>9, <1>10, <1>11
<1>13. allocations' = [allocations EXCEPT ![n] = [activated |-> act, blocks |-> bs]]
  <2>1. PICK x : x = allocations[n]
    OBVIOUS
  <2>2. allocations' = [allocations EXCEPT ![n] = [x EXCEPT !.blocks = bs]]
    BY <1>3, <1>6, <1>10, <2>1
  <2> QED BY <1>6, <1>7, <2>1, <2>2, AllocationReplaced
<1>14. /\ Heap' \in Heaps /\ TrackersFit' /\ Len(allocations') = n
       /\ HasBlock(Heap', n, b) /\ BlockAt(Heap', n, b) = block
       /\ \A v \in V : KeptAt(Heap, Heap', v)
  <2>1. /\ Heap' \in Heaps /\ TrackersFit' /\ Len(allocations') = n
        /\ \A i : HasBlock(Heap', n, i) <=> i \in DOMAIN bs
        /\ \A i : BlockAt(Heap', n, i) = bs[i]
        /\ \A v : /\ Leads(Heap, v)
                  /\ v.kind \in {"cells", "bytes"} /\ v.a = n =>
                        /\ v.b \in DOMAIN bs
                        /\ bs[v.b].cells = allocations[n].blocks[v.b].cells
                        /\ v.n >= 1 => v.o + v.n <= bs[v.b].size
                  => KeptAt(Heap, Heap', v)
    <3>1. n = Len(allocations) /\ n \in DOMAIN allocations /\ act \in BOOLEAN /\ bs \in Seq(Blocks)
      BY <1>2, <1>5, <1>7, <1>12
    <3> QED BY <1>4, <1>13, <3>1, NewestChanges, Zenon
  <2>2. ASSUME NEW v \in V
        PROVE  /\ Leads(Heap, v)
               /\ v.kind \in {"cells", "bytes"} /\ v.a = n =>
                        /\ v.b \in DOMAIN bs
                        /\ bs[v.b].cells = allocations[n].blocks[v.b].cells
                        /\ v.n >= 1 => v.o + v.n <= bs[v.b].size
    <3>1. Leads(Heap, v)
      BY <1>1 DEF Covered
    <3>2. v.kind \in {"cells", "bytes"} /\ v.a = n =>
            v.b \in DOMAIN old /\ (v.n >= 1 => v.o + v.n <= old[v.b].size)
      BY <1>6, <3>1 DEF Leads, FitsIn, HasBlock, BlockAt, Heap
    <3> QED BY <1>6, <1>12, <3>1, <3>2
  <2> QED BY <1>12, <2>1, <2>2
<1>15. PICK p : p = Collector!PointerTo(w, n, b)
  OBVIOUS
<1>16. Covered(Heap', V) /\ Covered(Heap', V \cup {p})
  <2>1. PICK h, k : h = Heap /\ k = Heap'
    OBVIOUS
  <2>2. /\ h \in Heaps /\ k \in Heaps /\ Len(h.allocations) <= Len(k.allocations)
        /\ Covered(h, V) /\ \A v \in V : KeptAt(h, k, v)
        /\ n = Len(k.allocations) /\ HasBlock(k, n, b)
        /\ BlockAt(k, n, b) = Collector!NewBlock(w)
    BY <1>1, <1>2, <1>5, <1>10, <1>14, <2>1 DEF Heap
  <2> HIDE DEF V
  <2>3. Covered(k, V)
    BY <2>2, KeptCovered, Zenon
  <2>4. Covered(k, V \cup {Collector!PointerTo(w, n, b)})
    BY <1>1, <2>2, <2>3, WrittenCovered, Zenon
  <2> QED BY <1>15, <2>1, <2>3, <2>4, Zenon
<1>17. root' \in SlotStates /\ Pointed(root') \subseteq V \cup {p} /\ made' \in Nat
  <2>1. root' = [root EXCEPT ![r] = p] /\ made' = made + size
    BY <1>3, <1>6, <1>8, <1>11, <1>15
  <2>2. p \in Collector!Pointer
    BY <1>16 DEF Covered, Leads
  <2> QED BY <1>1, <1>9, <2>1, <2>2 DEF SlotStates, Pointed
<1>18. Starts' \subseteq V \cup {p}
  BY <1>1, <1>4, <1>17 DEF Starts, Collector!Pointers, Pointed, Collector!Externals
<1> HIDE DEF V
<1>19. PICK S : S = V \cup {p}
  OBVIOUS
<1> QED BY <1>14, <1>16, <1>17, <1>18, <1>19, CoverSuffices DEF SlotStates

LEMMA WithdrawKeeps ==
  ASSUME CollectorInv, NEW r \in Slots, Collector!TryWithdrawBytes(r)
  PROVE  CollectorInv'
<1>1. /\ Heap \in Heaps /\ root \in SlotStates /\ made \in Nat
      /\ Covered(Heap, Collector!Visited) /\ Pointed(root) \subseteq Collector!Visited
      /\ \A u \in Tracked : trackers[u].refs > 0 => Collector!Object(u) \in Collector!Visited
  BY InvParts
<1>2. PICK n, v : n = Len(allocations) /\ v = root[r]
  OBVIOUS
<1>3. PICK W : W = Collector!Reached(Collector!Pointers(Slots \ {r}) \cup Collector!Externals)
  OBVIOUS
<1>4. /\ v \in Pointed(root) /\ v.kind \in {"cells", "bytes"} /\ v.a = n
      /\ \A w \in W : ~Collector!Shared(v, w)
      /\ v.o + v.n = BlockAt(Heap, v.a, v.b).size
      /\ allocations' = [allocations EXCEPT ![n].blocks[v.b].size = @ - v.n]
      /\ root' = [root EXCEPT ![r] = None]
      /\ UNCHANGED <<trackers, links, made>>
  BY <1>2, <1>3 DEF Collector!TryWithdrawBytes, Collector!GivenUp, Collector!AtEnd, Collector!InMemory,
     Collector!Newest, Collector!Block, Pointed, BlockAt, Heap
<1>5. /\ Covered(Heap, W) /\ Collector!Pointers(Slots \ {r}) \subseteq W
      /\ Collector!Externals \subseteq W
  <2>1. PICK start : start = Collector!Pointers(Slots \ {r}) \cup Collector!Externals
    OBVIOUS
  <2>2. start \subseteq Collector!Visited
    BY <1>1, <2>1 DEF Collector!Pointers, Collector!Externals, Pointed
  <2>3. start \subseteq Collector!Reached(start) /\ Covered(Heap, Collector!Reached(start))
    BY <1>1, <2>2, ReachedIsLeast DEF ReachIsLeast
  <2> QED BY <1>3, <2>1, <2>3
<1>6. Leads(Heap, v) /\ FitsIn(Heap, v) /\ v.o \in Nat /\ v.n \in Nat
  BY <1>1, <1>4 DEF Covered, Leads, Collector!Pointer
<1>7. n \in DOMAIN allocations
  BY <1>4, <1>6 DEF FitsIn, HasBlock, Heap
<1>8. PICK old, act : old = allocations[n].blocks /\ act = allocations[n].activated
  OBVIOUS
<1>9. old \in Seq(Blocks) /\ act \in BOOLEAN /\ allocations[n] \in AllocationStates
  BY <1>2, <1>7, <1>8, NewestBlocks
<1>10. v.b \in DOMAIN old /\ old[v.b].size = v.o + v.n
  BY <1>4, <1>6, <1>8 DEF FitsIn, HasBlock, BlockAt, Heap
<1>11. PICK b, o, m : b = v.b /\ o = v.o /\ m = v.n
  OBVIOUS
<1>12. PICK bs : bs = [old EXCEPT ![b].size = @ - m]
  OBVIOUS
<1>13. /\ bs \in Seq(Blocks) /\ DOMAIN bs = DOMAIN old /\ bs[b].size = o
       /\ bs[b].cells = old[b].cells /\ \A i \in DOMAIN old \ {b} : bs[i] = old[i]
  <2>1. PICK T : T = Blocks
    OBVIOUS
  <2>2. old[b] \in T /\ b \in DOMAIN old /\ old \in Seq(T)
    BY <1>9, <1>10, <1>11, <2>1
  <2>3. PICK block : block = [old[b] EXCEPT !.size = o]
    OBVIOUS
  <2>4. block \in T /\ block.size = o /\ block.cells = old[b].cells
    BY <1>6, <1>11, <2>1, <2>2, <2>3, BlockReplaced
  <2>5. bs = [old EXCEPT ![b] = block]
    <3>1. old[b].size - m = o
      BY <1>6, <1>10, <1>11
    <3>2. bs = [old EXCEPT ![b] = [old[b] EXCEPT !.size = old[b].size - m]]
      BY <1>12
    <3> QED BY <2>3, <3>1, <3>2
  <2>6. /\ bs \in Seq(T) /\ DOMAIN bs = DOMAIN old /\ bs[b] = block
        /\ \A i \in DOMAIN old \ {b} : bs[i] = old[i]
    BY <2>2, <2>4, <2>5
  <2> QED BY <2>1, <2>4, <2>6
<1>14. allocations' = [allocations EXCEPT ![n] = [activated |-> act, blocks |-> bs]]
  <2>1. PICK x : x = allocations[n]
    OBVIOUS
  <2>2. allocations' = [allocations EXCEPT ![n] = [x EXCEPT !.blocks = [x.blocks EXCEPT ![v.b].size = @ - v.n]]]
    BY <1>4, <2>1
  <2>3. allocations' = [allocations EXCEPT ![n] = [x EXCEPT !.blocks = bs]]
    BY <1>8, <1>11, <1>12, <2>1, <2>2
  <2> QED BY <1>8, <1>9, <2>1, <2>3, AllocationReplaced
<1>15. /\ Heap' \in Heaps /\ TrackersFit' /\ Len(allocations') = n
       /\ \A w \in W : KeptAt(Heap, Heap', w)
  <2>1. /\ Heap' \in Heaps /\ TrackersFit' /\ Len(allocations') = n
        /\ \A w : /\ Leads(Heap, w)
                  /\ w.kind \in {"cells", "bytes"} /\ w.a = n =>
                        /\ w.b \in DOMAIN bs
                        /\ bs[w.b].cells = allocations[n].blocks[w.b].cells
                        /\ w.n >= 1 => w.o + w.n <= bs[w.b].size
                  => KeptAt(Heap, Heap', w)
    <3>1. UNCHANGED <<trackers, links>>
      BY <1>4
    <3> QED BY <1>2, <1>7, <1>9, <1>13, <1>14, <3>1, NewestChanges
  <2>2. ASSUME NEW w \in W, w.kind \in {"cells", "bytes"}, w.a = n
        PROVE  /\ w.b \in DOMAIN bs
               /\ bs[w.b].cells = allocations[n].blocks[w.b].cells
               /\ w.n >= 1 => w.o + w.n <= bs[w.b].size
    <3>1. FitsIn(Heap, w) /\ w.o \in Nat /\ w.n \in Nat
      BY <1>5, <2>2 DEF Covered, Leads, Collector!Pointer
    <3>2. w.b \in DOMAIN old /\ (w.n >= 1 => w.o + w.n <= old[w.b].size)
      BY <1>8, <2>2, <3>1 DEF FitsIn, HasBlock, BlockAt, Heap
    <3>3. CASE w.b # b
      <4>1. bs[w.b] = old[w.b]
        BY <1>13, <3>2, <3>3
      <4> QED BY <1>8, <1>13, <3>2, <4>1
    <3>4. CASE w.b = b
      <4>1. ~Collector!Shared(v, w)
        BY <1>4
      <4>2. ~(o < w.o + w.n /\ w.o < o + m)
        BY <1>4, <1>11, <2>2, <3>4, <4>1 DEF Collector!Shared, Collector!InMemory
      <4>3. w.n >= 1 => w.o + w.n <= o + m
        BY <1>10, <1>11, <3>2, <3>4
      <4>4. w.n >= 1 => w.o + w.n <= o
        BY <1>6, <1>11, <3>1, <4>2, <4>3
      <4> QED BY <1>8, <1>13, <3>2, <3>4, <4>4
    <3> QED BY <3>3, <3>4
  <2> QED BY <1>5, <2>1, <2>2 DEF Covered
<1>16. root' \in SlotStates /\ Pointed(root') \subseteq W \cup {} /\ made' \in Nat
  BY <1>1, <1>4, <1>5 DEF SlotStates, Pointed, Collector!Pointers
<1>17. \A u \in Tracked : trackers'[u].refs > 0 => Collector!Object(u) \in W \cup {}
  BY <1>4, <1>5 DEF Collector!Externals
<1>18. Len(allocations) <= Len(allocations')
  BY <1>1, <1>2, <1>15, HeapParts DEF Heap
<1>19. \A w \in {} : Leads(Heap', w) /\ Contents(Heap', w) \subseteq W \cup {}
  OBVIOUS
<1> QED BY <1>5, <1>15, <1>16, <1>17, <1>18, <1>19, HeapMoves

-----------------------------------------------------------------------------
(* The greatest of some numbers that have a bound.                         *)
LEMMA GreatestNumber ==
  ASSUME NEW n \in Nat, NEW S, S \subseteq 0..n, S # {}
  PROVE  /\ Collector!Max(S) \in S
         /\ \A x \in S : x <= Collector!Max(S)
<1> DEFINE T == {n - x : x \in S}
<1>1. T \subseteq Nat /\ T # {}
  <2>1. \A x \in S : n - x \in Nat
    OBVIOUS
  <2> QED BY <2>1
<1>2. PICK m \in T : \A y \in T : m <= y
  <2> HIDE DEF T
  <2> QED BY <1>1, LeastNumber
<1>3. PICK x \in S : m = n - x
  BY <1>2
<1>4. \A y \in S : x >= y
  <2> TAKE y \in S
  <2>1. n - y \in T
    OBVIOUS
  <2>2. n - x <= n - y /\ x \in Nat /\ y \in Nat
    BY <1>2, <1>3, <2>1
  <2> QED BY <2>2
<1> HIDE DEF T
<1>5. Collector!Max(S) \in S /\ \A y \in S : Collector!Max(S) >= y
  BY <1>3, <1>4 DEF Collector!Max
<1>6. PICK g : g = Collector!Max(S)
  OBVIOUS
<1>7. g \in S /\ \A y \in S : g >= y
  BY <1>5, <1>6
<1>8. \A y \in S : y <= g
  BY <1>7
<1> QED BY <1>6, <1>7, <1>8

(* What maps a set into one that is as large, and no two to one, leaves    *)
(* nothing out.                                                            *)
OneToOne(f, D, S) == /\ IsFiniteSet(S) /\ Cardinality(D) = Cardinality(S) /\ f \in [D -> S]
                     /\ \A x, y \in D : x # y => f[x] # f[y]
LEMMA SameNumberOnto ==
  \A f, D, S : OneToOne(f, D, S) => \A z \in S : \E x \in D : f[x] = z
<1> SUFFICES ASSUME NEW f, NEW D, NEW S, OneToOne(f, D, S)
             PROVE  \A z \in S : \E x \in D : f[x] = z
  OBVIOUS
<1>1. f \in Injection(D, S)
  BY Fun_IsInj DEF OneToOne
<1>2. f \in Surjection(D, S)
  BY <1>1, FS_Injection DEF OneToOne
<1> QED BY <1>2 DEF Surjection
-----------------------------------------------------------------------------
(* A sweep.  V is a closed set of pointers, all that is visited.           *)
LEMMA AgeMeans ==
  ASSUME Heap \in Heaps, NEW v \in Collector!Pointer
  PROVE  /\ Collector!Age(v) = AgeIn(Heap, v) /\ AgeIn(Heap, v) \in Nat
         /\ Collector!InMemory(v) <=> v.kind \in {"cells", "bytes"}
         /\ v.kind \in {"cells", "bytes", "object", "backlink"}
<1>1. v.kind \in {"cells", "bytes", "object", "backlink"}
  BY DEF Collector!Pointer
<1>2. Collector!Age(v) = AgeIn(Heap, v)
  BY <1>1 DEF Collector!Age, Collector!InMemory, AgeIn, Heap
<1>3. AgeIn(Heap, v) \in Nat
  BY <1>1, HeapParts DEF AgeIn, Collector!Pointer
<1> QED BY <1>1, <1>2, <1>3 DEF Collector!InMemory

LEMMA MarkedMeans ==
  ASSUME Heap \in Heaps, NEW V, Covered(Heap, V), NEW M, M = Collector!MarkedAllocations(V)
  PROVE  /\ M \subseteq 1..Len(allocations) /\ IsFiniteSet(M) /\ Cardinality(M) \in Nat
         /\ \A v \in V : AgeIn(Heap, v) \in M \cup {0}
<1>1. \A v \in V : v \in Collector!Pointer /\ AgeIn(Heap, v) <= Len(allocations)
  BY DEF Covered, Leads, Heap
<1>2. M = {AgeIn(Heap, v) : v \in V} \ {0}
  BY <1>1, AgeMeans DEF Collector!MarkedAllocations
<1>3. Len(allocations) \in Nat
  BY HeapParts DEF Heap
<1>4. M \subseteq 1..Len(allocations)
  BY <1>1, <1>2, <1>3, AgeMeans
<1>5. IsFiniteSet(1..Len(allocations))
  BY <1>3, FS_Interval
<1>6. IsFiniteSet(M) /\ Cardinality(M) \in Nat
  BY <1>4, <1>5, FS_Subset, FS_CardinalityType
<1> QED BY <1>2, <1>4, <1>6

(* Allocations are numbered anew in their old order.                       *)
LEMMA NewIndexMeans ==
  ASSUME Heap \in Heaps, NEW V, Covered(Heap, V), NEW M, M = Collector!MarkedAllocations(V),
         NEW n, n = Cardinality(M)
  PROVE  /\ n \in Nat /\ M \subseteq Nat \ {0}
         /\ \A a \in Nat : Collector!NewIndex(V, a) \in 0..n
         /\ Collector!NewIndex(V, 0) = 0
         /\ \A a, c \in Nat : a <= c => Collector!NewIndex(V, a) <= Collector!NewIndex(V, c)
         /\ \A a, c \in M : a # c => Collector!NewIndex(V, a) # Collector!NewIndex(V, c)
         /\ \A a \in M : Collector!NewIndex(V, a) \in 1..n
         /\ \A i \in 1..n : \E a \in M : Collector!NewIndex(V, a) = i
<1> DEFINE Below(a) == {m \in M : m <= a}
           at(a) == Collector!NewIndex(V, a)
<1>1. /\ M \subseteq Nat \ {0} /\ IsFiniteSet(M) /\ n \in Nat
  <2>1. Len(allocations) \in Nat
    BY HeapParts DEF Heap
  <2> QED BY <2>1, MarkedMeans
<1>2. \A a : at(a) = Cardinality(Below(a))
  BY CollectorCounts DEF Collector!NewIndex
<1> HIDE DEF at
<1>3. \A a : IsFiniteSet(Below(a)) /\ Cardinality(Below(a)) \in 0..n
  <2> TAKE a
  <2>1. Below(a) \in SUBSET M
    OBVIOUS
  <2> HIDE DEF Below
  <2>2. IsFiniteSet(Below(a)) /\ Cardinality(Below(a)) <= Cardinality(M)
    BY <1>1, <2>1, FS_Subset
  <2> QED BY <1>1, <2>2, FS_CardinalityType
<1>4. at(0) = 0
  <2>1. Below(0) = {}
    BY <1>1
  <2> QED BY <1>2, <2>1, FS_EmptySet
<1>5. ASSUME NEW a \in Nat, NEW c \in Nat, a <= c
      PROVE  at(a) <= at(c)
  <2>1. Below(a) \in SUBSET Below(c)
    BY <1>1, <1>5
  <2> HIDE DEF Below
  <2>2. Cardinality(Below(a)) <= Cardinality(Below(c))
    BY <1>3, <2>1, FS_Subset
  <2> QED BY <1>2, <2>2
<1>6. ASSUME NEW a \in M, NEW c \in M, a < c
      PROVE  at(a) # at(c)
  <2>1. Below(a) \in SUBSET Below(c) /\ c \in Below(c) /\ c \notin Below(a)
    BY <1>1, <1>6
  <2> HIDE DEF Below
  <2>2. Below(c) # Below(a)
    BY <2>1
  <2>3. Cardinality(Below(c)) # Cardinality(Below(a))
    BY <1>3, <2>1, <2>2, FS_Subset
  <2> QED BY <1>2, <2>3
<1>7. \A a, c \in M : a # c => at(a) # at(c)
  <2> TAKE a, c \in M
  <2>1. a # c => a < c \/ c < a
    BY <1>1
  <2> QED BY <1>6, <2>1
<1>8. \A a \in M : at(a) \in 1..n
  <2> TAKE a \in M
  <2>1. a \in Below(a)
    BY <1>1
  <2>2. Cardinality(Below(a)) # 0
    <3> HIDE DEF Below
    <3> QED BY <1>3, <2>1, FS_EmptySet
  <2>3. at(a) # 0 /\ at(a) \in 0..n
    BY <1>2, <1>3, <2>2
  <2> QED BY <1>1, <2>3
<1>9. \A i \in 1..n : \E a \in M : at(a) = i
  <2> DEFINE f == [a \in M |-> at(a)]
  <2>1. f \in [M -> 1..n] /\ \A a, c \in M : a # c => f[a] # f[c]
    BY <1>7, <1>8
  <2>2. IsFiniteSet(1..n) /\ Cardinality(1..n) = n
    BY <1>1, FS_Interval
  <2>3. \A a \in M : f[a] = at(a)
    OBVIOUS
  <2> HIDE DEF f
  <2>4. PICK g, S : g = f /\ S = 1..n
    OBVIOUS
  <2>5. OneToOne(g, M, S)
    BY <2>1, <2>2, <2>4 DEF OneToOne
  <2>6. \A i \in S : \E a \in M : g[a] = i
    BY <2>5, SameNumberOnto
  <2> QED BY <2>3, <2>4, <2>6
<1>10. \A a \in Nat : at(a) \in 0..n
  BY <1>2, <1>3
<1> HIDE DEF Below
<1> QED BY <1>1, <1>4, <1>5, <1>7, <1>8, <1>9, <1>10 DEF at
-----------------------------------------------------------------------------
(* Segments: where they begin and end.                                     *)
LEMMA MarkMeans ==
  ASSUME Heap \in Heaps, NEW V, Covered(Heap, V), NEW a, NEW b, NEW m
  PROVE  /\ m \in Collector!Marks(V, a, b) <=>
              m \in V /\ m.kind \in {"cells", "bytes"} /\ m.a = a /\ m.b = b
         /\ m \in Collector!Marks(V, a, b) =>
              /\ m \in V /\ m \in Collector!Pointer
              /\ m.o \in Nat /\ m.n \in Nat
              /\ HasBlock(Heap, a, b) /\ BlockAt(Heap, a, b).cells \in Seq(Cells)
              /\ Len(BlockAt(Heap, a, b).cells) \in Nat
              /\ m.o + m.n <= Len(BlockAt(Heap, a, b).cells)
<1>1. m \in Collector!Marks(V, a, b) <=>
              m \in V /\ m.kind \in {"cells", "bytes"} /\ m.a = a /\ m.b = b
  BY DEF Collector!Marks, Collector!InMemory
<1>2. ASSUME m \in Collector!Marks(V, a, b)
      PROVE  /\ m \in V /\ m \in Collector!Pointer
             /\ m.o \in Nat /\ m.n \in Nat
             /\ HasBlock(Heap, a, b) /\ BlockAt(Heap, a, b).cells \in Seq(Cells)
             /\ Len(BlockAt(Heap, a, b).cells) \in Nat
             /\ m.o + m.n <= Len(BlockAt(Heap, a, b).cells)
  <2>1. m \in Collector!Pointer /\ FitsIn(Heap, m)
    BY <1>1, <1>2 DEF Covered, Leads
  <2>2. m.o \in Nat /\ m.n \in Nat
    BY <1>1, <1>2, <2>1 DEF Collector!Pointer
  <2>3. HasBlock(Heap, a, b) /\ m.o + m.n <= Len(BlockAt(Heap, a, b).cells)
    BY <1>1, <1>2, <2>1 DEF FitsIn
  <2>4. BlockAt(Heap, a, b).cells \in Seq(Cells)
    BY <2>3, HeapParts DEF HasBlock
  <2> QED BY <1>1, <1>2, <2>1, <2>2, <2>3, <2>4
<1> QED BY <1>1, <1>2

LEMMA SegmentMeans ==
  ASSUME Heap \in Heaps, NEW V, Covered(Heap, V), NEW a, NEW b,
         NEW m \in Collector!Marks(V, a, b), NEW s, s = Collector!SegmentOf(V, m)
  PROVE  /\ s \in Collector!Segments(V, a, b) /\ s \in Nat /\ s <= m.o
         /\ \A o \in Collector!Segments(V, a, b) : o <= m.o => o <= s
<1> DEFINE S == Collector!Segments(V, a, b)
           T == {o \in S : o <= m.o}
<1>1. \A v \in Collector!Marks(V, a, b) : v.o \in Nat /\ v.n \in Nat
  BY MarkMeans
<1>2. \A o : o \in S <=> \E v \in Collector!Marks(V, a, b) :
        /\ v.o = o
        /\ \A w \in Collector!Marks(V, a, b) : ~Collector!Covers(w, o)
  BY DEF Collector!Segments
<1>3. m.a = a /\ m.b = b
  BY MarkMeans
<1>4. s = Collector!Max(T)
  BY <1>3 DEF Collector!SegmentOf
<1> DEFINE O == {v.o : v \in Collector!Marks(V, a, b)}
<1>5. O \subseteq Nat /\ O # {}
  BY <1>1
<1>6. PICK first \in O : \A o \in O : first <= o
  <2> HIDE DEF O
  <2> QED BY <1>5, LeastNumber
<1>7. first \in S
  <2>1. \A w \in Collector!Marks(V, a, b) : ~(w.o < first)
    BY <1>1, <1>5, <1>6
  <2> HIDE DEF S
  <2> QED BY <1>2, <1>6, <2>1 DEF Collector!Covers
<1>8. first <= m.o
  BY <1>6
<1> HIDE DEF S
<1>9. T # {} /\ T \subseteq 0..m.o /\ m.o \in Nat
  BY <1>1, <1>2, <1>7, <1>8
<1> HIDE DEF T
<1>10. s \in T /\ \A o \in T : o <= s
  BY <1>4, <1>9, GreatestNumber
<1> QED BY <1>1, <1>9, <1>10 DEF S, T

LEMMA EndMeans ==
  ASSUME Heap \in Heaps, NEW V, Covered(Heap, V), NEW a, NEW b,
         NEW o \in Collector!Segments(V, a, b), NEW end, end = Collector!EndOf(V, a, b, o)
  PROVE  /\ o \in Nat /\ end \in Nat /\ o <= end
         /\ HasBlock(Heap, a, b) /\ end <= Len(BlockAt(Heap, a, b).cells)
         /\ \A m \in Collector!Marks(V, a, b) : Collector!SegmentOf(V, m) = o => m.o + m.n <= end
         /\ \E m \in Collector!Marks(V, a, b) : Collector!SegmentOf(V, m) = o /\ m.o + m.n = end
<1> DEFINE N == Collector!Marks(V, a, b)
           T == {m.o + m.n : m \in {m \in N : Collector!SegmentOf(V, m) = o}}
<1>1. PICK first \in N : first.o = o
  BY DEF Collector!Segments
<1>2. PICK max : max = Len(BlockAt(Heap, a, b).cells)
  OBVIOUS
<1>3. /\ HasBlock(Heap, a, b) /\ max \in Nat
      /\ \A m \in N : m.o \in Nat /\ m.n \in Nat /\ m.o + m.n <= max
  BY <1>1, <1>2, MarkMeans
<1>4. Collector!SegmentOf(V, first) = o
  <2>1. PICK s : s = Collector!SegmentOf(V, first)
    OBVIOUS
  <2>2. s \in Nat /\ s <= first.o /\ \A x \in Collector!Segments(V, a, b) : x <= first.o => x <= s
    BY <1>1, <2>1, SegmentMeans
  <2>3. o \in Nat /\ o <= s
    BY <1>1, <1>3, <2>2
  <2> QED BY <1>1, <2>1, <2>2, <2>3
<1>5. first.o + first.n \in T /\ T \subseteq 0..max
  BY <1>3, <1>4
<1>6. end = Collector!Max(T)
  BY DEF Collector!EndOf
<1>7. end \in T /\ \A x \in T : x <= end
  <2> HIDE DEF T
  <2> QED BY <1>3, <1>5, <1>6, GreatestNumber
<1>8. PICK m \in N : Collector!SegmentOf(V, m) = o /\ m.o + m.n = end
  BY <1>7
<1>9. end \in Nat /\ end <= max
  BY <1>3, <1>8
<1>10. o \in Nat /\ o <= end
  <2>1. first.o + first.n <= end
    BY <1>5, <1>7
  <2>2. first.o \in Nat /\ first.n \in Nat
    BY <1>3
  <2> QED BY <1>1, <1>9, <2>1, <2>2
<1>11. \A x \in N : Collector!SegmentOf(V, x) = o => x.o + x.n <= end
  BY <1>7
<1> QED BY <1>2, <1>3, <1>8, <1>9, <1>10, <1>11

(* All of a segment is covered by its marks.                               *)
LEMMA SegmentCovered ==
  ASSUME Heap \in Heaps, NEW V, Covered(Heap, V), NEW a, NEW b,
         NEW o \in Collector!Segments(V, a, b), NEW end, end = Collector!EndOf(V, a, b, o),
         NEW p \in (o + 1)..end
  PROVE  \E m \in Collector!Marks(V, a, b) : Collector!Covers(m, p) /\ Collector!SegmentOf(V, m) = o
<1> DEFINE N == Collector!Marks(V, a, b)
           S == Collector!Segments(V, a, b)
<1>1. \A v \in N : v.o \in Nat /\ v.n \in Nat
  BY MarkMeans
<1>2. \A x : x \in S <=> \E v \in N : v.o = x /\ \A w \in N : ~Collector!Covers(w, x)
  BY DEF Collector!Segments
<1>3. /\ o \in Nat /\ end \in Nat
      /\ \E m \in N : Collector!SegmentOf(V, m) = o /\ m.o + m.n = end
  BY EndMeans
<1>4. PICK last \in N : Collector!SegmentOf(V, last) = o /\ last.o + last.n = end
  BY <1>3
<1>5. \A m \in N : /\ Collector!SegmentOf(V, m) \in S /\ Collector!SegmentOf(V, m) \in Nat
                   /\ Collector!SegmentOf(V, m) <= m.o
                   /\ \A x \in S : x <= m.o => x <= Collector!SegmentOf(V, m)
  BY SegmentMeans
<1> HIDE DEF N, S
<1>6. \A x \in (o + 1)..end : \E m \in N : Collector!Covers(m, x)
  <2> SUFFICES ASSUME NEW x \in (o + 1)..end, \A m \in N : ~Collector!Covers(m, x)
               PROVE  FALSE
    OBVIOUS
  <2>1. x \in Nat /\ x > o /\ x <= last.o + last.n
    BY <1>3, <1>4
  <2>2. last.o >= x
    BY <1>1, <1>4, <2>1 DEF Collector!Covers
  <2> DEFINE T == {m.o : m \in {m \in N : m.o >= x}}
  <2>3. T \subseteq Nat /\ last.o \in T
    BY <1>1, <1>4, <2>2
  <2>4. PICK q \in T : \A y \in T : q <= y
    <3> HIDE DEF T
    <3> QED BY <2>3, LeastNumber
  <2>5. PICK m \in N : m.o = q /\ q >= x /\ q \in Nat
    BY <2>3, <2>4
  <2>6. \A w \in N : ~Collector!Covers(w, q)
    <3> TAKE w \in N
    <3>1. w.o >= x => q <= w.o
      BY <2>4
    <3>2. w.o \in Nat /\ w.n \in Nat /\ ~(w.o < x /\ x <= w.o + w.n)
      BY <1>1 DEF Collector!Covers
    <3>3. ~(w.o < q /\ q <= w.o + w.n)
      BY <2>1, <2>5, <3>1, <3>2
    <3> QED BY <3>3 DEF Collector!Covers
  <2>7. q \in S /\ q <= last.o
    BY <1>2, <2>3, <2>4, <2>5, <2>6
  <2>8. q <= o
    BY <1>4, <1>5, <2>7
  <2> QED BY <1>3, <2>1, <2>5, <2>8
<1>7. PICK m \in N : Collector!Covers(m, p)
  BY <1>6
<1>8. m.o < p /\ p <= m.o + m.n /\ m.o \in Nat /\ m.n \in Nat /\ p \in Nat /\ p > o /\ p <= end
  BY <1>1, <1>3, <1>7 DEF Collector!Covers
<1>9. o <= m.o
  <2> SUFFICES ASSUME m.o < o
               PROVE  FALSE
    BY <1>3, <1>8
  <2>1. o <= m.o + m.n
    BY <1>3, <1>8
  <2>2. Collector!Covers(m, o)
    BY <2>1 DEF Collector!Covers
  <2>3. o \in S
    BY DEF S
  <2> QED BY <1>2, <2>2, <2>3
<1>10. Collector!SegmentOf(V, m) = o
  <2>1. PICK s : s = Collector!SegmentOf(V, m)
    OBVIOUS
  <2>2. s \in S /\ s \in Nat /\ s <= m.o /\ o <= s
    BY <1>5, <1>9, <2>1 DEF S
  <2>3. ASSUME s > o
        PROVE  FALSE
    <3>1. s \in (o + 1)..end
      BY <1>3, <1>8, <2>2, <2>3
    <3> QED BY <1>2, <1>6, <2>2, <3>1
  <2> QED BY <1>3, <2>1, <2>2, <2>3
<1> QED BY <1>7, <1>10 DEF N

-----------------------------------------------------------------------------
(* The order in which the segments of an allocation become blocks.         *)
LEMMA PiecesMeans ==
  ASSUME Heap \in Heaps, NEW V, Covered(Heap, V), NEW a \in DOMAIN allocations
  PROVE  /\ \A p : p \in Collector!Pieces(V, a) <=>
              \E b \in DOMAIN allocations[a].blocks : \E o \in Collector!Segments(V, a, b) :
                 p = [b |-> b, o |-> o]
         /\ IsFiniteSet(Collector!Pieces(V, a))
<1>1. PICK bs : bs = allocations[a].blocks
  OBVIOUS
<1>2. bs \in Seq(Blocks)
  BY <1>1, HeapParts DEF Heap
<1> DEFINE Of(b) == {[b |-> b, o |-> o] : o \in Collector!Segments(V, a, b)}
           f == [b \in DOMAIN bs |-> Of(b)]
           T == {f[b] : b \in DOMAIN bs}
<1>3. \A b \in DOMAIN bs : IsFiniteSet(Of(b))
  <2> TAKE b \in DOMAIN bs
  <2>1. PICK S : S = Collector!Segments(V, a, b)
    OBVIOUS
  <2>2. PICK max : max = Len(BlockAt(Heap, a, b).cells)
    OBVIOUS
  <2>3. max \in Nat
    <3>1. BlockAt(Heap, a, b).cells \in Seq(Cells)
      BY <1>1, HeapParts DEF Heap
    <3> QED BY <2>2, <3>1
  <2>4. S \subseteq 0..max
    <3> SUFFICES ASSUME NEW o \in S
                 PROVE  o \in 0..max
      OBVIOUS
    <3>1. PICK end : end = Collector!EndOf(V, a, b, o)
      OBVIOUS
    <3>2. o \in Nat /\ end \in Nat /\ o <= end /\ end <= max
      BY <2>1, <2>2, <3>1, EndMeans
    <3> QED BY <2>3, <3>2
  <2>5. IsFiniteSet(S)
    <3>1. IsFiniteSet(0..max)
      BY <2>3, FS_Interval
    <3> QED BY <2>4, <3>1, FS_Subset
  <2>6. PICK g : g = [o \in S |-> [b |-> b, o |-> o]]
    OBVIOUS
  <2>7. g = [o \in S |-> g[o]] /\ {g[o] : o \in S} = Of(b)
    BY <2>1, <2>6
  <2>8. IsFiniteSet({g[o] : o \in S})
    BY <2>5, <2>7, ValuesFinite
  <2> QED BY <2>7, <2>8
<1>4. Collector!Pieces(V, a) = UNION T
  <2>1. T = {Of(b) : b \in DOMAIN bs}
    OBVIOUS
  <2> HIDE DEF T
  <2> QED BY <1>1, <2>1 DEF Collector!Pieces
<1>5. IsFiniteSet(T) /\ \A x \in T : IsFiniteSet(x)
  <2>1. IsFiniteSet(DOMAIN bs)
    BY <1>2, ListFinite
  <2>2. PICK g : g = f
    OBVIOUS
  <2>3. g = [b \in DOMAIN bs |-> g[b]] /\ T = {g[b] : b \in DOMAIN bs}
    BY <2>2
  <2>4. \A x \in T : IsFiniteSet(x)
    BY <1>3
  <2> HIDE DEF T
  <2> QED BY <2>1, <2>3, <2>4, ValuesFinite
<1>6. IsFiniteSet(UNION T)
  <2>1. PICK U : U = T
    OBVIOUS
  <2> HIDE DEF T
  <2> QED BY <1>5, <2>1, FS_UNION
<1>7. \A p : p \in Collector!Pieces(V, a) <=>
               \E b \in DOMAIN bs : \E o \in Collector!Segments(V, a, b) : p = [b |-> b, o |-> o]
  BY <1>4
<1> QED BY <1>1, <1>4, <1>6, <1>7

(* A sweep of V that puts blocks in that order.                            *)
Sweeping(V, order) == /\ Heap \in Heaps /\ Covered(Heap, V)
                      /\ order \in Collector!AddressOrders(V)

LEMMA OrderMeans ==
  ASSUME NEW V, NEW order, Sweeping(V, order), NEW a \in Collector!MarkedAllocations(V)
  PROVE  /\ a \in DOMAIN allocations /\ a \in Nat
         /\ \E c \in Nat : /\ order[a] \in [1..c -> Collector!Pieces(V, a)]
                           /\ \A p \in Collector!Pieces(V, a) : \E j \in 1..c : order[a][j] = p
<1>1. Heap \in Heaps /\ Covered(Heap, V)
  BY DEF Sweeping
<1>2. a \in DOMAIN allocations /\ a \in Nat
  <2>1. PICK M : M = Collector!MarkedAllocations(V)
    OBVIOUS
  <2>2. a \in 1..Len(allocations)
    BY <1>1, <2>1, MarkedMeans
  <2>3. allocations \in Seq(AllocationStates)
    BY <1>1, HeapParts DEF Heap
  <2> QED BY <2>2, <2>3
<1>3. PICK S : S = Collector!Pieces(V, a)
  OBVIOUS
<1>4. PICK c, f : c = Cardinality(S) /\ f = order[a]
  OBVIOUS
<1>5. IsFiniteSet(S) /\ c \in Nat
  BY <1>1, <1>2, <1>3, <1>4, PiecesMeans, FS_CardinalityType
<1>6. f \in Collector!SetToSeqs(S)
  BY <1>3, <1>4 DEF Sweeping, Collector!AddressOrders
<1>7. Collector!Cardinality(S) = c
  BY <1>4, CollectorCounts
<1>8. f \in [1..c -> S] /\ \A i, j \in 1..c : i # j => f[i] # f[j]
  BY <1>6, <1>7 DEF Collector!SetToSeqs
<1>9. PICK D : D = 1..c
  OBVIOUS
<1>10. OneToOne(f, D, S)
  <2>1. Cardinality(1..c) = c
    BY <1>5, FS_Interval
  <2> QED BY <1>4, <1>5, <1>8, <1>9, <2>1 DEF OneToOne
<1>11. \A p \in S : \E j \in D : f[j] = p
  BY <1>10, SameNumberOnto
<1> QED BY <1>2, <1>3, <1>4, <1>5, <1>8, <1>9, <1>11

(* Where a pointer leads after the sweep.                                  *)
LEMMA MovedMemory ==
  ASSUME NEW V, NEW order, Sweeping(V, order), NEW v \in V, v.kind \in {"cells", "bytes"}
  PROVE  /\ v.a \in Collector!MarkedAllocations(V) /\ v \in Collector!Marks(V, v.a, v.b)
         /\ Collector!SegmentOf(V, v) \in Collector!Segments(V, v.a, v.b)
         /\ Collector!SegmentOf(V, v) \in Nat /\ Collector!SegmentOf(V, v) <= v.o
         /\ Collector!Moved(V, order, v) \in Collector!Pointer
         /\ Collector!Moved(V, order, v).kind = v.kind
         /\ Collector!Moved(V, order, v).a = Collector!NewIndex(V, v.a)
         /\ Collector!Moved(V, order, v).b \in DOMAIN order[v.a]
         /\ order[v.a][Collector!Moved(V, order, v).b] = [b |-> v.b, o |-> Collector!SegmentOf(V, v)]
         /\ Collector!Moved(V, order, v).o = v.o - Collector!SegmentOf(V, v)
         /\ Collector!Moved(V, order, v).n = v.n
         /\ Collector!Moved(V, order, v).stamps = v.stamps
<1> PICK s, u : s = Collector!SegmentOf(V, v) /\ u = Collector!Moved(V, order, v)
  OBVIOUS
<1>1. Heap \in Heaps /\ Covered(Heap, V) /\ Leads(Heap, v) /\ FitsIn(Heap, v)
  BY DEF Sweeping, Covered, Leads
<1>2. /\ v \in Collector!Pointer /\ v # None
      /\ v.a \in Nat /\ v.b \in Nat /\ v.o \in Nat /\ v.n \in Nat /\ v.stamps \in Seq(Nat)
      /\ v.n = Len(v.stamps)
  BY <1>1, MemoryAssumption DEF Leads, FitsIn, Collector!Pointer
<1>3. PICK M : M = Collector!MarkedAllocations(V)
  OBVIOUS
<1>4. v.a \in M
  <2>1. AgeIn(Heap, v) = v.a
    BY DEF AgeIn
  <2>2. v.a \in M \cup {0} /\ M \subseteq 1..Len(allocations)
    BY <1>1, <1>3, <2>1, MarkedMeans
  <2>3. v.a \in DOMAIN Heap.allocations
    BY <1>1 DEF FitsIn, HasBlock
  <2>4. v.a >= 1
    BY <1>1, <2>3, HeapParts
  <2> QED BY <2>2, <2>4
<1>5. v \in Collector!Marks(V, v.a, v.b)
  BY <1>1, MarkMeans
<1>6. s \in Collector!Segments(V, v.a, v.b) /\ s \in Nat /\ s <= v.o
  BY <1>1, <1>5, SegmentMeans
<1>7. PICK j : j = CHOOSE i \in DOMAIN order[v.a] : order[v.a][i] = [b |-> v.b, o |-> s]
  OBVIOUS
<1>8. j \in DOMAIN order[v.a] /\ order[v.a][j] = [b |-> v.b, o |-> s] /\ j \in Nat
  <2>1. v.a \in DOMAIN allocations /\ v.b \in DOMAIN allocations[v.a].blocks
    BY <1>1 DEF FitsIn, HasBlock, Heap
  <2>2. PICK p : p = [b |-> v.b, o |-> s]
    OBVIOUS
  <2>3. p \in Collector!Pieces(V, v.a)
    BY <1>1, <1>6, <2>1, <2>2, PiecesMeans
  <2>4. PICK c \in Nat : /\ order[v.a] \in [1..c -> Collector!Pieces(V, v.a)]
                         /\ \A q \in Collector!Pieces(V, v.a) : \E i \in 1..c : order[v.a][i] = q
    <3>1. PICK a : a = v.a
      OBVIOUS
    <3>2. a \in Collector!MarkedAllocations(V)
      BY <1>3, <1>4, <3>1
    <3>3. \E c \in Nat : /\ order[a] \in [1..c -> Collector!Pieces(V, a)]
                         /\ \A q \in Collector!Pieces(V, a) : \E i \in 1..c : order[a][i] = q
      BY <3>2, OrderMeans
    <3> QED BY <3>1, <3>3
  <2>5. PICK f : f = order[v.a]
    OBVIOUS
  <2>6. DOMAIN f = 1..c
    BY <2>4, <2>5
  <2>7. PICK i \in 1..c : f[i] = p
    BY <2>3, <2>4, <2>5
  <2>8. j \in DOMAIN f /\ f[j] = p
    BY <1>7, <2>2, <2>5, <2>6, <2>7
  <2>9. j \in Nat
    BY <2>6, <2>8
  <2> QED BY <2>2, <2>5, <2>8, <2>9
<1>9. u = Collector!Memory(v.kind, Collector!NewIndex(V, v.a), j, v.o - s, v.stamps)
  BY <1>2, <1>7 DEF Collector!Moved, Collector!InMemory
<1>10. PICK i, o : i = Collector!NewIndex(V, v.a) /\ o = v.o - s
  OBVIOUS
<1>11. i \in Nat /\ o \in Nat
  <2>1. PICK n : n = Cardinality(M)
    OBVIOUS
  <2>2. i \in 0..n /\ n \in Nat
    BY <1>1, <1>2, <1>3, <1>10, <2>1, NewIndexMeans
  <2> QED BY <1>2, <1>6, <1>10, <2>2
<1>12. u = [kind |-> v.kind, a |-> i, b |-> j, o |-> o, n |-> v.n, stamps |-> v.stamps]
  BY <1>2, <1>9, <1>10 DEF Collector!Memory
<1> QED BY <1>2, <1>3, <1>4, <1>5, <1>6, <1>8, <1>10, <1>11, <1>12 DEF Collector!Pointer

LEMMA MovedOther ==
  /\ \A V, order : Collector!Moved(V, order, None) = None
  /\ \A V, order, v : v.kind \in {"object", "backlink"} => Collector!Moved(V, order, v) = v
BY DEF Collector!Moved, Collector!InMemory

LEMMA MovedTyped ==
  ASSUME NEW V, NEW order, Sweeping(V, order), NEW v \in V
  PROVE  Collector!Moved(V, order, v) \in Collector!Pointer
<1>1. v \in Collector!Pointer /\ v.kind \in {"cells", "bytes", "object", "backlink"}
  BY DEF Sweeping, Covered, Leads, Collector!Pointer
<1>3. CASE v.kind \in {"cells", "bytes"}
  BY <1>3, MovedMemory
<1>4. CASE v.kind \in {"object", "backlink"}
  BY <1>1, <1>4, MovedOther
<1> QED BY <1>1, <1>3, <1>4

(* What a segment holds was visited, and points on after the sweep.        *)
LEMMA CopiedMeans ==
  ASSUME NEW V, NEW order, Sweeping(V, order), NEW a, NEW b,
         NEW o \in Collector!Segments(V, a, b), NEW size, size = Collector!EndOf(V, a, b, o) - o,
         NEW x, x = Collector!Copied(V, order, a, [b |-> b, o |-> o])
  PROVE  /\ x \in Blocks /\ x.size = size /\ Len(x.cells) = size /\ size \in Nat
         /\ \A i \in 1..size :
              /\ x.cells[i].stamp = BlockAt(Heap, a, b).cells[o + i].stamp
              /\ x.cells[i].value = Collector!Moved(V, order, BlockAt(Heap, a, b).cells[o + i].value)
<1>1. Heap \in Heaps /\ Covered(Heap, V)
  BY DEF Sweeping
<1>2. PICK end, cells : end = Collector!EndOf(V, a, b, o) /\ cells = allocations[a].blocks[b].cells
  OBVIOUS
<1>3. cells = BlockAt(Heap, a, b).cells
  BY <1>2 DEF BlockAt, Heap
<1>4. o \in Nat /\ end \in Nat /\ o <= end /\ HasBlock(Heap, a, b) /\ end <= Len(cells)
  BY <1>1, <1>2, <1>3, EndMeans
<1>5. cells \in Seq(Cells) /\ size \in Nat /\ end = o + size
  <2>1. cells \in Seq(Cells)
    BY <1>1, <1>3, <1>4, HeapParts DEF HasBlock
  <2> QED BY <1>2, <1>4, <2>1
<1>6. \A i \in 1..size : o + i \in 1..Len(cells) /\ cells[o + i] \in Cells
  BY <1>4, <1>5
<1>7. \A i \in 1..size : cells[o + i].value \in V \cup {None}
  <2> TAKE i \in 1..size
  <2>1. o + i \in (o + 1)..end
    BY <1>4, <1>5
  <2>2. PICK m \in Collector!Marks(V, a, b) : Collector!Covers(m, o + i)
    BY <1>1, <1>2, <2>1, SegmentCovered
  <2>3. /\ m \in V /\ m.kind \in {"cells", "bytes"} /\ m.a = a /\ m.b = b
        /\ m.o \in Nat /\ m.n \in Nat /\ FitsIn(Heap, m) /\ Contents(Heap, m) \subseteq V
    BY <1>1, MarkMeans DEF Covered, Leads
  <2>4. PICK l : l = o + i - m.o
    OBVIOUS
  <2>5. l \in 1..m.n /\ m.o + l = o + i
    BY <1>4, <1>5, <2>2, <2>3, <2>4 DEF Collector!Covers
  <2>6. CellAt(Heap, m, l) = cells[o + i]
    BY <1>3, <2>3, <2>5 DEF CellAt
  <2>7. CASE m.kind = "bytes"
    BY <2>3, <2>5, <2>6, <2>7 DEF FitsIn
  <2>8. CASE m.kind = "cells"
    BY <2>3, <2>5, <2>6, <2>8 DEF Contents
  <2> QED BY <2>3, <2>7, <2>8
<1>8. PICK taken : taken = SubSeq(cells, o + 1, end)
  OBVIOUS
<1>9. DOMAIN taken = 1..size /\ Len(taken) = size /\ \A i \in 1..size : taken[i] = cells[o + i]
  <2>1. /\ SubSeq(cells, o + 1, o + size) \in Seq(Cells)
        /\ Len(SubSeq(cells, o + 1, o + size)) = size
        /\ \A i \in 1..size : SubSeq(cells, o + 1, o + size)[i] = cells[o + i]
    <3>1. cells \in Seq(Cells) /\ o \in Nat /\ size \in Nat /\ o + size = end
      BY <1>4, <1>5
    <3>2. o + size <= Len(cells)
      BY <1>4, <3>1
    <3>3. PICK S : S = Cells
      OBVIOUS
    <3>4. cells \in Seq(S)
      BY <3>1, <3>3
    <3>5. /\ SubSeq(cells, o + 1, o + size) \in Seq(S)
          /\ Len(SubSeq(cells, o + 1, o + size)) = size
          /\ \A i \in 1..size : SubSeq(cells, o + 1, o + size)[i] = cells[o + i]
      BY <3>1, <3>2, <3>4, PartOfList
    <3> QED BY <3>3, <3>5
  <2>2. taken = SubSeq(cells, o + 1, o + size)
    BY <1>5, <1>8
  <2>3. taken \in Seq(Cells) /\ Len(taken) = size
    BY <2>1, <2>2
  <2> QED BY <1>5, <2>1, <2>2, <2>3
<1>10. PICK new : new = [i \in 1..size |-> [taken[i] EXCEPT !.value = Collector!Moved(V, order, taken[i].value)]]
  OBVIOUS
<1>11. x = [size |-> size, cells |-> new]
  BY <1>2, <1>8, <1>9, <1>10 DEF Collector!Copied
<1>12. \A i \in 1..size : /\ new[i].stamp = cells[o + i].stamp
                          /\ new[i].value = Collector!Moved(V, order, cells[o + i].value)
                          /\ new[i] \in Cells
  <2> TAKE i \in 1..size
  <2>1. PICK old, value : old = cells[o + i] /\ value = Collector!Moved(V, order, old.value)
    OBVIOUS
  <2>2. old \in Cells
    BY <1>6, <2>1
  <2>3. value \in Collector!Pointer \cup {None}
    BY <1>7, <2>1, MovedTyped, MovedOther
  <2>4. new[i] = [old EXCEPT !.value = value]
    BY <1>9, <1>10, <2>1
  <2>5. new[i].stamp = old.stamp /\ new[i].value = value /\ new[i] \in Cells
    BY <2>2, <2>3, <2>4 DEF Cells
  <2> QED BY <2>1, <2>5
<1>13. new \in Seq(Cells) /\ Len(new) = size
  <2>1. new \in [1..size -> Cells]
    BY <1>10, <1>12
  <2> QED BY <1>5, <2>1
<1>14. x \in Blocks
  BY <1>5, <1>11, <1>13 DEF Blocks
<1> QED BY <1>3, <1>5, <1>11, <1>12, <1>13, <1>14

-----------------------------------------------------------------------------
(* What a sweep leaves.                                                    *)
Swept(V, order) == [allocations |-> Collector!NewAllocations(V, order),
                    trackers |-> Collector!NewTrackers(V, order),
                    links |-> Collector!NewLinks(V, order)]

LEMMA SweptBlocks ==
  ASSUME NEW V, NEW order, Sweeping(V, order), NEW k, k = Swept(V, order),
         NEW M, M = Collector!MarkedAllocations(V), NEW n, n = Cardinality(M)
  PROVE  /\ k.allocations \in Seq(AllocationStates) /\ Len(k.allocations) = n /\ n \in Nat
         /\ \A a \in M :
              /\ \A j : HasBlock(k, Collector!NewIndex(V, a), j) <=> j \in DOMAIN order[a]
              /\ \A j \in DOMAIN order[a] :
                   BlockAt(k, Collector!NewIndex(V, a), j) = Collector!Copied(V, order, a, order[a][j])
<1> DEFINE at(a) == Collector!NewIndex(V, a)
           Blks(a) == [j \in DOMAIN order[a] |-> Collector!Copied(V, order, a, order[a][j])]
           Made(a) == [activated |-> FALSE, blocks |-> Blks(a)]
           Old(i) == CHOOSE a \in M : at(a) = i
<1>1. /\ n \in Nat /\ \A a \in M : at(a) \in 1..n
      /\ \A i \in 1..n : \E a \in M : at(a) = i
      /\ \A a, c \in M : a # c => at(a) # at(c)
  BY NewIndexMeans DEF Sweeping
<1>2. ASSUME NEW a \in M
      PROVE  Blks(a) \in Seq(Blocks) /\ Made(a) \in AllocationStates
  <2>1. PICK c \in Nat : order[a] \in [1..c -> Collector!Pieces(V, a)]
    BY OrderMeans
  <2>2. a \in DOMAIN allocations
    BY OrderMeans
  <2>3. \A j \in 1..c : Collector!Copied(V, order, a, order[a][j]) \in Blocks
    <3> TAKE j \in 1..c
    <3>1. order[a][j] \in Collector!Pieces(V, a)
      BY <2>1
    <3>2. PICK b, o : o \in Collector!Segments(V, a, b) /\ order[a][j] = [b |-> b, o |-> o]
      BY <2>2, <3>1, PiecesMeans DEF Sweeping
    <3>3. PICK size, x : size = Collector!EndOf(V, a, b, o) - o
                         /\ x = Collector!Copied(V, order, a, [b |-> b, o |-> o])
      OBVIOUS
    <3>4. x \in Blocks
      BY <3>2, <3>3, CopiedMeans
    <3> QED BY <3>2, <3>3, <3>4
  <2>4. DOMAIN order[a] = 1..c
    BY <2>1
  <2>5. Blks(a) \in [1..c -> Blocks]
    BY <2>3, <2>4
  <2> HIDE DEF Blks
  <2>6. Blks(a) \in Seq(Blocks)
    BY <2>5
  <2> QED BY <2>6 DEF AllocationStates
<1>3. k.allocations = [i \in 1..n |-> Made(Old(i))]
  <2>1. Collector!Cardinality(M) = n
    BY CollectorCounts
  <2> QED BY <2>1 DEF Swept, Collector!NewAllocations
<1> HIDE DEF at
<1>4. \A i \in 1..n : Old(i) \in M /\ at(Old(i)) = i
  BY <1>1
<1>5. \A a \in M : Old(at(a)) = a
  BY <1>1, <1>4
<1> HIDE DEF Old
<1>6. k.allocations \in Seq(AllocationStates) /\ Len(k.allocations) = n
      /\ DOMAIN k.allocations = 1..n
  <2> HIDE DEF Made
  <2>1. k.allocations \in [1..n -> AllocationStates]
    BY <1>2, <1>3, <1>4
  <2>2. PICK T, f : T = AllocationStates /\ f = k.allocations
    OBVIOUS
  <2>3. f \in [1..n -> T]
    BY <2>1, <2>2
  <2>4. f \in Seq(T) /\ Len(f) = n
    BY <1>1, <2>3
  <2> QED BY <2>1, <2>2, <2>4
<1>7. \A a \in M : k.allocations[at(a)] = Made(a)
  <2> HIDE DEF Made
  <2>1. \A i \in 1..n : k.allocations[i] = Made(Old(i))
    BY <1>3
  <2> TAKE a \in M
  <2>2. k.allocations[at(a)] = Made(Old(at(a)))
    BY <1>1, <2>1
  <2> QED BY <1>5, <2>2
<1>8. \A a \in M : k.allocations[at(a)].blocks = Blks(a) /\ at(a) \in DOMAIN k.allocations
  <2> TAKE a \in M
  <2>1. Made(a).blocks = Blks(a)
    OBVIOUS
  <2> HIDE DEF Made, Blks
  <2> QED BY <1>1, <1>6, <1>7, <2>1
<1>9. \A a \in M : /\ DOMAIN Blks(a) = DOMAIN order[a]
                   /\ \A j \in DOMAIN order[a] :
                        Blks(a)[j] = Collector!Copied(V, order, a, order[a][j])
  OBVIOUS
<1> HIDE DEF Blks
<1> QED BY <1>1, <1>6, <1>8, <1>9 DEF HasBlock, BlockAt, at

LEMMA SweptTrackers ==
  ASSUME NEW V, NEW order, Sweeping(V, order), NEW k, k = Swept(V, order), TrackersFit,
         \A t \in Tracked : trackers[t].refs > 0 => Collector!Object(t) \in V
  PROVE  /\ k.trackers \in [Tracked -> TrackerStates]
         /\ \A t \in Tracked :
              /\ Collector!Object(t) \in V =>
                   /\ k.trackers[t].index = Collector!NewIndex(V, trackers[t].index)
                   /\ k.trackers[t].content = Collector!Moved(V, order, trackers[t].content)
                   /\ trackers[t].content \in V \cup {None}
              /\ k.trackers[t].there <=> Collector!Object(t) \in V
              /\ k.trackers[t].there => ~k.trackers[t].told
              /\ k.trackers[t].refs = trackers[t].refs
<1>1. Heap \in Heaps /\ Covered(Heap, V) /\ trackers \in [Tracked -> TrackerStates]
  BY DEF Sweeping, Heaps, Heap
<1>2. ASSUME NEW t \in Tracked
      PROVE  /\ k.trackers[t] \in TrackerStates
             /\ Collector!Object(t) \in V =>
                   /\ k.trackers[t].index = Collector!NewIndex(V, trackers[t].index)
                   /\ k.trackers[t].content = Collector!Moved(V, order, trackers[t].content)
                   /\ trackers[t].content \in V \cup {None}
             /\ k.trackers[t].there <=> Collector!Object(t) \in V
             /\ k.trackers[t].there => ~k.trackers[t].told
             /\ k.trackers[t].refs = trackers[t].refs
  <2>1. PICK x, y, o : x = trackers[t] /\ y = k.trackers[t] /\ o = Collector!Object(t)
    OBVIOUS
  <2>2. x \in TrackerStates /\ (x.there => ~x.told)
    <3>1. x \in TrackerStates
      BY <1>1, <2>1
    <3>2. trackers[t].there => ~trackers[t].told
      BY DEF TrackersFit
    <3> QED BY <2>1, <3>1, <3>2
  <2>3. o.kind = "object" /\ o.id = t
    BY <2>1 DEF Collector!Object
  <2>4. o \in V => x.there /\ x.content \in V \cup {None}
    BY <1>1, <2>1, <2>3 DEF Covered, Leads, Contents, Heap
  <2>5. PICK index, content : /\ index = Collector!NewIndex(V, x.index)
                              /\ content = Collector!Moved(V, order, x.content)
    OBVIOUS
  <2>6. y = IF ~x.there THEN x
            ELSE IF o \in V THEN [x EXCEPT !.index = index, !.content = content]
            ELSE [x EXCEPT !.there = FALSE, !.told = TRUE, !.index = 0, !.content = None]
    BY <2>1, <2>5 DEF Swept, Collector!NewTrackers
  <2>7. CASE o \in V
    <3>1. y = [x EXCEPT !.index = index, !.content = content] /\ x.there
      BY <2>4, <2>6, <2>7
    <3>2. index \in Nat
      <4>1. PICK M, n : M = Collector!MarkedAllocations(V) /\ n = Cardinality(M)
        OBVIOUS
      <4>2. x.index \in Nat
        BY <2>2 DEF TrackerStates
      <4>3. index \in 0..n /\ n \in Nat
        BY <1>1, <2>5, <4>1, <4>2, NewIndexMeans
      <4> QED BY <4>3
    <3>3. content \in Collector!Pointer \cup {None}
      BY <2>4, <2>5, <2>7, MovedTyped, MovedOther
    <3>4. /\ y.index = index /\ y.content = content /\ y.there = x.there /\ y.told = x.told
          /\ y.refs = x.refs /\ y \in TrackerStates
      BY <2>2, <3>1, <3>2, <3>3 DEF TrackerStates
    <3> QED BY <2>1, <2>2, <2>4, <2>5, <2>7, <3>1, <3>4
  <2>8. CASE o \notin V /\ x.there
    <3>1. y = [x EXCEPT !.there = FALSE, !.told = TRUE, !.index = 0, !.content = None]
      BY <2>6, <2>8
    <3>2. ~y.there /\ y.refs = x.refs /\ y \in TrackerStates
      BY <2>2, <3>1 DEF TrackerStates
    <3> QED BY <2>1, <2>8, <3>2
  <2>9. CASE o \notin V /\ ~x.there
    BY <2>1, <2>2, <2>6, <2>9
  <2> QED BY <2>7, <2>8, <2>9
<1>3. k.trackers = [t \in Tracked |-> k.trackers[t]]
  BY DEF Swept, Collector!NewTrackers
<1> QED BY <1>2, <1>3

LEMMA SweptLinks ==
  ASSUME NEW V, NEW order, Sweeping(V, order), NEW k, k = Swept(V, order)
  PROVE  /\ k.links \in [Links -> LinkStates]
         /\ \A l \in Links :
              Collector!Link(l) \in V =>
                   /\ k.links[l].there
                   /\ k.links[l].index = Collector!NewIndex(V, links[l].index)
                   /\ k.links[l].bytes = Collector!Moved(V, order, links[l].bytes)
                   /\ links[l].bytes \in V \cup {None}
<1>1. Heap \in Heaps /\ Covered(Heap, V) /\ links \in [Links -> LinkStates]
  BY DEF Sweeping, Heaps, Heap
<1>2. ASSUME NEW l \in Links
      PROVE  /\ k.links[l] \in LinkStates
             /\ Collector!Link(l) \in V =>
                   /\ k.links[l].there
                   /\ k.links[l].index = Collector!NewIndex(V, links[l].index)
                   /\ k.links[l].bytes = Collector!Moved(V, order, links[l].bytes)
                   /\ links[l].bytes \in V \cup {None}
  <2>1. PICK x, y, o : x = links[l] /\ y = k.links[l] /\ o = Collector!Link(l)
    OBVIOUS
  <2>2. x \in LinkStates
    BY <1>1, <2>1
  <2>3. o.kind = "backlink" /\ o.id = l
    BY <2>1 DEF Collector!Link
  <2>4. o \in V => x.there /\ x.bytes \in V \cup {None}
    BY <1>1, <2>1, <2>3 DEF Covered, Leads, Contents, Heap
  <2>5. PICK index, bytes : /\ index = Collector!NewIndex(V, x.index)
                            /\ bytes = Collector!Moved(V, order, x.bytes)
    OBVIOUS
  <2>6. y = IF o \in V THEN [x EXCEPT !.index = index, !.bytes = bytes] ELSE Collector!NoLink
    BY <2>1, <2>5 DEF Swept, Collector!NewLinks
  <2>7. CASE o \in V
    <3>1. y = [x EXCEPT !.index = index, !.bytes = bytes] /\ x.there
      BY <2>4, <2>6, <2>7
    <3>2. index \in Nat
      <4>1. PICK M, n : M = Collector!MarkedAllocations(V) /\ n = Cardinality(M)
        OBVIOUS
      <4>2. x.index \in Nat
        BY <2>2 DEF LinkStates
      <4>3. index \in 0..n /\ n \in Nat
        BY <1>1, <2>5, <4>1, <4>2, NewIndexMeans
      <4> QED BY <4>3
    <3>3. bytes \in Collector!Pointer \cup {None}
      BY <2>4, <2>5, <2>7, MovedTyped, MovedOther
    <3>4. y.index = index /\ y.bytes = bytes /\ y.there = x.there /\ y \in LinkStates
      BY <2>2, <3>1, <3>2, <3>3 DEF LinkStates
    <3> QED BY <2>1, <2>4, <2>5, <2>7, <3>1, <3>4
  <2>8. CASE o \notin V
    BY <2>1, <2>6, <2>8 DEF Collector!NoLink, LinkStates
  <2> QED BY <2>7, <2>8
<1>3. k.links = [l \in Links |-> k.links[l]]
  BY DEF Swept, Collector!NewLinks
<1> QED BY <1>2, <1>3

LEMMA SweptHeap ==
  ASSUME NEW V, NEW order, Sweeping(V, order), NEW k, k = Swept(V, order), TrackersFit,
         \A t \in Tracked : trackers[t].refs > 0 => Collector!Object(t) \in V
  PROVE  k \in Heaps
<1>1. k.allocations \in Seq(AllocationStates)
  <2>1. PICK M, n : M = Collector!MarkedAllocations(V) /\ n = Cardinality(M)
    OBVIOUS
  <2> QED BY <2>1, SweptBlocks
<1>2. k.trackers \in [Tracked -> TrackerStates] /\ k.links \in [Links -> LinkStates]
  BY SweptTrackers, SweptLinks
<1>3. k = [allocations |-> k.allocations, trackers |-> k.trackers, links |-> k.links]
  BY DEF Swept
<1> QED BY <1>1, <1>2, <1>3 DEF Heaps

(* After a sweep, every pointer leads to the same cells, and on to what    *)
(* those led to.                                                           *)
Kept(V, order) == {Collector!Moved(V, order, v) : v \in V}
AllKept(V) == TrackersFit /\ \A t \in Tracked : trackers[t].refs > 0 => Collector!Object(t) \in V

LEMMA SweptAge ==
  ASSUME NEW V, NEW order, Sweeping(V, order), AllKept(V), NEW k, k = Swept(V, order), NEW v \in V
  PROVE  AgeIn(k, Collector!Moved(V, order, v)) = Collector!NewIndex(V, AgeIn(Heap, v))
<1>1. v \in Collector!Pointer /\ v.kind \in {"cells", "bytes", "object", "backlink"}
  BY DEF Sweeping, Covered, Leads, Collector!Pointer
<1>2. PICK u, s : u = Collector!Moved(V, order, v) /\ s = Collector!SegmentOf(V, v)
  OBVIOUS
<1>3. CASE v.kind \in {"cells", "bytes"}
  <2>1. u.kind = v.kind /\ u.a = Collector!NewIndex(V, v.a)
    BY <1>2, <1>3, MovedMemory
  <2> QED BY <1>2, <1>3, <2>1 DEF AgeIn
<1>4. CASE v.kind = "object"
  <2>1. u = v
    BY <1>2, <1>4, MovedOther
  <2>2. v.id \in Tracked /\ Collector!Object(v.id) = v
    BY <1>1, <1>4 DEF Collector!Pointer, Collector!Object
  <2>3. k.trackers[v.id].index = Collector!NewIndex(V, trackers[v.id].index)
    BY <2>2, SweptTrackers DEF AllKept
  <2> QED BY <1>2, <1>4, <2>1, <2>3 DEF AgeIn, Heap
<1>5. CASE v.kind = "backlink"
  <2>1. u = v
    BY <1>2, <1>5, MovedOther
  <2>2. v.id \in Links /\ Collector!Link(v.id) = v
    BY <1>1, <1>5 DEF Collector!Pointer, Collector!Link
  <2>3. k.links[v.id].index = Collector!NewIndex(V, links[v.id].index)
    BY <2>2, SweptLinks
  <2> QED BY <1>2, <1>5, <2>1, <2>3 DEF AgeIn, Heap
<1> QED BY <1>1, <1>3, <1>4, <1>5

(* A pointer to memory leads into the new block of its segment.            *)
LEMMA SweptCells ==
  ASSUME NEW V, NEW order, Sweeping(V, order), NEW k, k = Swept(V, order),
         NEW v \in V, v.kind \in {"cells", "bytes"}, NEW u, u = Collector!Moved(V, order, v)
  PROVE  /\ HasBlock(k, u.a, u.b)
         /\ u.o + u.n <= Len(BlockAt(k, u.a, u.b).cells)
         /\ u.o + u.n <= BlockAt(k, u.a, u.b).size
         /\ \A i \in 1..v.n :
              /\ CellAt(k, u, i).stamp = CellAt(Heap, v, i).stamp
              /\ CellAt(k, u, i).value = Collector!Moved(V, order, CellAt(Heap, v, i).value)
<1>1. PICK s : s = Collector!SegmentOf(V, v)
  OBVIOUS
<1>2. PICK M, n : M = Collector!MarkedAllocations(V) /\ n = Cardinality(M)
  OBVIOUS
<1>3. /\ v.a \in M /\ v \in Collector!Marks(V, v.a, v.b)
      /\ s \in Collector!Segments(V, v.a, v.b) /\ s \in Nat /\ s <= v.o
      /\ u.b \in DOMAIN order[v.a] /\ order[v.a][u.b] = [b |-> v.b, o |-> s]
      /\ u.a = Collector!NewIndex(V, v.a) /\ u.o = v.o - s /\ u.n = v.n
  BY <1>1, <1>2, MovedMemory
<1>4. v.o \in Nat /\ v.n \in Nat
  BY <1>3, MarkMeans DEF Sweeping
<1>5. PICK end, size, x : /\ end = Collector!EndOf(V, v.a, v.b, s) /\ size = end - s
                          /\ x = Collector!Copied(V, order, v.a, [b |-> v.b, o |-> s])
  OBVIOUS
<1>6. end \in Nat /\ v.o + v.n <= end
  BY <1>1, <1>3, <1>5, EndMeans DEF Sweeping
<1>7. /\ x.size = size /\ Len(x.cells) = size
      /\ \A i \in 1..size :
           /\ x.cells[i].stamp = BlockAt(Heap, v.a, v.b).cells[s + i].stamp
           /\ x.cells[i].value = Collector!Moved(V, order, BlockAt(Heap, v.a, v.b).cells[s + i].value)
  BY <1>3, <1>5, CopiedMeans
<1>8. HasBlock(k, u.a, u.b) /\ BlockAt(k, u.a, u.b) = x
  BY <1>2, <1>3, <1>5, SweptBlocks
<1>9. u.o + u.n <= size
  BY <1>3, <1>4, <1>5, <1>6
<1>10. ASSUME NEW i \in 1..v.n
       PROVE  /\ CellAt(k, u, i).stamp = CellAt(Heap, v, i).stamp
              /\ CellAt(k, u, i).value = Collector!Moved(V, order, CellAt(Heap, v, i).value)
  <2>1. PICK j : j = u.o + i
    OBVIOUS
  <2>2. j \in 1..size /\ s + j = v.o + i
    BY <1>3, <1>4, <1>5, <1>6, <2>1
  <2>3. CellAt(k, u, i) = x.cells[j] /\ CellAt(Heap, v, i) = BlockAt(Heap, v.a, v.b).cells[s + j]
    BY <1>8, <2>1, <2>2 DEF CellAt
  <2> QED BY <1>7, <2>2, <2>3
<1> QED BY <1>7, <1>8, <1>9, <1>10

LEMMA SweptContents ==
  ASSUME NEW V, NEW order, Sweeping(V, order), AllKept(V), NEW k, k = Swept(V, order), NEW v \in V
  PROVE  Contents(k, Collector!Moved(V, order, v))
           = {Collector!Moved(V, order, w) : w \in Contents(Heap, v)}
<1>1. /\ v \in Collector!Pointer /\ v.kind \in {"cells", "bytes", "object", "backlink"}
      /\ Contents(Heap, v) \subseteq V
  BY DEF Sweeping, Covered, Leads, Collector!Pointer
<1>2. PICK u, s : u = Collector!Moved(V, order, v) /\ s = Collector!SegmentOf(V, v)
  OBVIOUS
<1>3. \A w \in V : Collector!Moved(V, order, w) # None
  BY MovedTyped, MemoryAssumption
<1>4. Collector!Moved(V, order, None) = None
  BY MovedOther
<1>5. CASE v.kind \in {"cells", "bytes"}
  <2>1. u.kind = v.kind /\ u.n = v.n
    BY <1>2, <1>5, MovedMemory
  <2>2. CASE v.kind = "bytes"
    BY <1>2, <2>1, <2>2 DEF Contents
  <2>3. CASE v.kind = "cells"
    <3>1. \A i \in 1..v.n : CellAt(k, u, i).value = Collector!Moved(V, order, CellAt(Heap, v, i).value)
      BY <1>2, <1>5, SweptCells
    <3>2. \A i \in 1..v.n : CellAt(Heap, v, i).value \in V \cup {None}
      BY <1>1, <2>3 DEF Contents
    <3>3. Contents(k, u) = {CellAt(k, u, i).value : i \in 1..v.n} \ {None}
      BY <2>1, <2>3 DEF Contents
    <3>4. Contents(Heap, v) = {CellAt(Heap, v, i).value : i \in 1..v.n} \ {None}
      BY <2>3 DEF Contents
    <3>5. \A w \in Contents(k, u) : \E x \in Contents(Heap, v) : w = Collector!Moved(V, order, x)
      BY <1>4, <3>1, <3>3, <3>4
    <3>6. \A x \in Contents(Heap, v) : Collector!Moved(V, order, x) \in Contents(k, u)
      BY <1>3, <3>1, <3>2, <3>3, <3>4
    <3> QED BY <1>2, <3>5, <3>6
  <2> QED BY <1>5, <2>2, <2>3
<1>6. CASE v.kind = "object"
  <2>1. u = v
    BY <1>2, <1>6, MovedOther
  <2>2. v.id \in Tracked /\ Collector!Object(v.id) = v
    BY <1>1, <1>6 DEF Collector!Pointer, Collector!Object
  <2>3. PICK content : content = trackers[v.id].content
    OBVIOUS
  <2>4. k.trackers[v.id].content = Collector!Moved(V, order, content) /\ content \in V \cup {None}
    BY <2>2, <2>3, SweptTrackers DEF AllKept
  <2>5. Contents(k, u) = {Collector!Moved(V, order, content)} \ {None}
        /\ Contents(Heap, v) = {content} \ {None}
    BY <1>6, <2>1, <2>3, <2>4 DEF Contents, Heap
  <2> QED BY <1>2, <1>3, <1>4, <2>4, <2>5
<1>7. CASE v.kind = "backlink"
  <2>1. u = v
    BY <1>2, <1>7, MovedOther
  <2>2. v.id \in Links /\ Collector!Link(v.id) = v
    BY <1>1, <1>7 DEF Collector!Pointer, Collector!Link
  <2>3. PICK bytes : bytes = links[v.id].bytes
    OBVIOUS
  <2>4. k.links[v.id].bytes = Collector!Moved(V, order, bytes) /\ bytes \in V \cup {None}
    BY <2>2, <2>3, SweptLinks
  <2>5. Contents(k, u) = {Collector!Moved(V, order, bytes)} \ {None}
        /\ Contents(Heap, v) = {bytes} \ {None}
    BY <1>7, <2>1, <2>3, <2>4 DEF Contents, Heap
  <2> QED BY <1>2, <1>3, <1>4, <2>4, <2>5
<1> QED BY <1>1, <1>5, <1>6, <1>7

LEMMA SweptLeads ==
  ASSUME NEW V, NEW order, Sweeping(V, order), AllKept(V), NEW k, k = Swept(V, order), NEW v \in V,
         NEW u, u = Collector!Moved(V, order, v)
  PROVE  Leads(k, u) /\ Contents(k, u) \subseteq Kept(V, order)
<1>1. /\ v \in Collector!Pointer /\ v.kind \in {"cells", "bytes", "object", "backlink"}
      /\ Heap \in Heaps /\ Covered(Heap, V) /\ Leads(Heap, v) /\ Contents(Heap, v) \subseteq V
  BY DEF Sweeping, Covered, Leads, Collector!Pointer
<1>2. PICK M, n : M = Collector!MarkedAllocations(V) /\ n = Cardinality(M)
  OBVIOUS
<1>3. /\ Len(k.allocations) = n /\ n \in Nat
      /\ \A a \in Nat : Collector!NewIndex(V, a) \in 0..n
      /\ \A a, c \in Nat : a <= c => Collector!NewIndex(V, a) <= Collector!NewIndex(V, c)
  BY <1>1, <1>2, SweptBlocks, NewIndexMeans
<1>4. \A w \in V : AgeIn(k, Collector!Moved(V, order, w)) = Collector!NewIndex(V, AgeIn(Heap, w))
                   /\ AgeIn(Heap, w) \in Nat
  BY <1>1, SweptAge, AgeMeans DEF Covered, Leads
<1>5. Contents(k, u) = {Collector!Moved(V, order, w) : w \in Contents(Heap, v)}
  BY SweptContents
<1>6. u \in Collector!Pointer /\ u.kind = v.kind
  <2>1. PICK s : s = Collector!SegmentOf(V, v)
    OBVIOUS
  <2>2. CASE v.kind \in {"cells", "bytes"}
    BY <2>1, <2>2, MovedMemory
  <2>3. CASE v.kind \in {"object", "backlink"}
    BY <1>1, <2>3, MovedOther
  <2> QED BY <1>1, <2>2, <2>3
<1>7. u.kind \in {"cells", "bytes"} => FitsIn(k, u)
  <2> SUFFICES ASSUME v.kind \in {"cells", "bytes"}
               PROVE  FitsIn(k, u)
    BY <1>6
  <2>1. PICK s : s = Collector!SegmentOf(V, v)
    OBVIOUS
  <2>2. u.n = v.n /\ u.stamps = v.stamps /\ FitsIn(Heap, v)
    BY <1>1, <2>1, MovedMemory DEF Leads
  <2>3. /\ HasBlock(k, u.a, u.b)
        /\ u.o + u.n <= Len(BlockAt(k, u.a, u.b).cells)
        /\ u.o + u.n <= BlockAt(k, u.a, u.b).size
        /\ \A i \in 1..v.n :
              /\ CellAt(k, u, i).stamp = CellAt(Heap, v, i).stamp
              /\ CellAt(k, u, i).value = Collector!Moved(V, order, CellAt(Heap, v, i).value)
    BY SweptCells
  <2>4. /\ v.n = Len(v.stamps) /\ (v.n = 0 => MinBytes = 0 /\ v.kind = "bytes")
        /\ \A i \in 1..v.n : /\ CellAt(Heap, v, i).stamp = v.stamps[i]
                             /\ v.kind = "bytes" => CellAt(Heap, v, i).value = None
    BY <2>2 DEF FitsIn
  <2>5. \A i \in 1..u.n : /\ CellAt(k, u, i).stamp = u.stamps[i]
                          /\ u.kind = "bytes" => CellAt(k, u, i).value = None
    BY <1>6, <2>2, <2>3, <2>4, MovedOther
  <2> QED BY <1>6, <2>2, <2>3, <2>4, <2>5 DEF FitsIn
<1>8. /\ u.kind = "object" => k.trackers[u.id].there
      /\ u.kind = "backlink" => k.links[u.id].there
  <2>1. v.kind = "object" => v.id \in Tracked /\ Collector!Object(v.id) = v /\ u = v
    BY <1>1, MovedOther DEF Collector!Pointer, Collector!Object
  <2>2. v.kind = "backlink" => v.id \in Links /\ Collector!Link(v.id) = v /\ u = v
    BY <1>1, MovedOther DEF Collector!Pointer, Collector!Link
  <2>3. \A t \in Tracked : Collector!Object(t) \in V => k.trackers[t].there
    BY SweptTrackers DEF AllKept
  <2>4. \A l \in Links : Collector!Link(l) \in V => k.links[l].there
    BY SweptLinks
  <2> QED BY <1>6, <2>1, <2>2, <2>3, <2>4
<1>9. AgeIn(k, u) <= Len(k.allocations)
  BY <1>3, <1>4
<1>10. \A x \in Contents(k, u) : AgeIn(k, x) <= HorizonIn(k, u)
  <2> TAKE x \in Contents(k, u)
  <2>1. PICK w \in Contents(Heap, v) : x = Collector!Moved(V, order, w)
    BY <1>5
  <2>2. w \in V /\ AgeIn(Heap, w) <= HorizonIn(Heap, v)
    BY <1>1 DEF Leads
  <2>3. PICK old, age : old = AgeIn(Heap, w) /\ age = AgeIn(Heap, v)
    OBVIOUS
  <2>4. /\ old \in Nat /\ age \in Nat
        /\ AgeIn(k, x) = Collector!NewIndex(V, old) /\ AgeIn(k, u) = Collector!NewIndex(V, age)
    BY <1>4, <2>1, <2>2, <2>3
  <2>5. CASE v.kind \in {"cells", "object"}
    <3>1. HorizonIn(Heap, v) = age /\ HorizonIn(k, u) = AgeIn(k, u)
      BY <1>6, <2>3, <2>5 DEF HorizonIn, AgeIn
    <3> QED BY <1>3, <2>2, <2>3, <2>4, <3>1
  <2>6. CASE v.kind \in {"bytes", "backlink"}
    <3>1. HorizonIn(k, u) = n
      BY <1>3, <1>6, <2>6 DEF HorizonIn
    <3> QED BY <1>3, <2>4, <3>1
  <2> QED BY <1>1, <2>5, <2>6
<1>11. Contents(k, u) \subseteq Kept(V, order)
  BY <1>1, <1>5 DEF Kept
<1> QED BY <1>6, <1>7, <1>8, <1>9, <1>10, <1>11 DEF Leads

LEMMA SweptCovered ==
  ASSUME NEW V, NEW order, Sweeping(V, order), AllKept(V), NEW k, k = Swept(V, order)
  PROVE  k \in Heaps /\ Covered(k, Kept(V, order))
<1>1. k \in Heaps
  BY SweptHeap DEF AllKept
<1>2. \A u \in Kept(V, order) : Leads(k, u) /\ Contents(k, u) \subseteq Kept(V, order)
  BY SweptLeads DEF Kept
<1> QED BY <1>1, <1>2 DEF Covered

-----------------------------------------------------------------------------
(* The steps that collect: what they leave is a heap in which all that was *)
(* visited is kept.                                                        *)
LEMMA SweepMeans ==
  ASSUME CollectorInv, NEW after \in Collector!Sweeps
  PROVE  \E V, order, k :
           /\ V = Collector!Visited /\ Sweeping(V, order) /\ AllKept(V) /\ k = Swept(V, order)
           /\ after.allocations = k.allocations
           /\ after.trackers = k.trackers
           /\ after.links = k.links
           /\ after.root = Collector!NewRoot(V, order)
           /\ after.root \in SlotStates /\ Pointed(after.root) \subseteq Kept(V, order)
<1>1. PICK V : V = Collector!Visited
  OBVIOUS
<1>2. PICK order \in Collector!AddressOrders(V) :
        after = [allocations |-> Collector!NewAllocations(V, order),
                 root |-> Collector!NewRoot(V, order),
                 trackers |-> Collector!NewTrackers(V, order),
                 links |-> Collector!NewLinks(V, order)]
  BY <1>1 DEF Collector!Sweeps
<1>3. PICK k : k = Swept(V, order)
  OBVIOUS
<1>4. Sweeping(V, order)
  BY <1>1, <1>2, InvParts DEF Sweeping
<1>5. AllKept(V)
  BY <1>1, InvParts DEF AllKept
<1>6. /\ after.allocations = k.allocations
      /\ after.trackers = k.trackers
      /\ after.links = k.links
      /\ after.root = Collector!NewRoot(V, order)
      /\ after.root = [r \in Slots |-> Collector!Moved(V, order, root[r])]
  BY <1>2, <1>3 DEF Swept, Collector!NewRoot
<1>7. \A r \in Slots : root[r] \in V \cup {None}
  BY <1>1, InvParts DEF Pointed
<1>8. \A r \in Slots : /\ Collector!Moved(V, order, root[r]) \in Kept(V, order) \cup {None}
                       /\ Collector!Moved(V, order, root[r]) \in Collector!Pointer \cup {None}
  <2> TAKE r \in Slots
  <2>1. PICK v : v = root[r]
    OBVIOUS
  <2>2. CASE v = None
    BY <2>1, <2>2, MovedOther
  <2>3. CASE v \in V
    BY <1>4, <2>1, <2>3, MovedTyped DEF Kept
  <2> QED BY <1>7, <2>1, <2>2, <2>3
<1>9. after.root \in SlotStates /\ Pointed(after.root) \subseteq Kept(V, order)
  <2> HIDE DEF Kept
  <2> QED BY <1>6, <1>8 DEF SlotStates, Pointed
<1> QED BY <1>1, <1>3, <1>4, <1>5, <1>6, <1>9

LEMMA SweepCovers ==
  ASSUME CollectorInv, NEW after \in Collector!Sweeps
  PROVE  \E k, S :
           /\ k \in Heaps /\ Covered(k, S)
           /\ after.allocations = k.allocations
           /\ after.trackers = k.trackers
           /\ after.links = k.links
           /\ after.root \in SlotStates /\ Pointed(after.root) \subseteq S
           /\ \A t \in Tracked : /\ k.trackers[t].there => ~k.trackers[t].told
                                 /\ k.trackers[t].refs > 0 => /\ k.trackers[t].there
                                                              /\ Collector!Object(t) \in S
<1>1. PICK V, order, k :
           /\ V = Collector!Visited /\ Sweeping(V, order) /\ AllKept(V) /\ k = Swept(V, order)
           /\ after.allocations = k.allocations
           /\ after.trackers = k.trackers
           /\ after.links = k.links
           /\ after.root \in SlotStates /\ Pointed(after.root) \subseteq Kept(V, order)
  BY SweepMeans
<1>2. PICK S : S = Kept(V, order)
  OBVIOUS
<1>3. k \in Heaps /\ Covered(k, S)
  BY <1>1, <1>2, SweptCovered
<1>4. \A t \in Tracked :
        /\ k.trackers[t].there <=> Collector!Object(t) \in V
        /\ k.trackers[t].there => ~k.trackers[t].told
        /\ k.trackers[t].refs = trackers[t].refs
  BY <1>1, SweptTrackers DEF AllKept
<1>5. \A t \in Tracked : trackers[t].refs > 0 => Collector!Object(t) \in V
  BY <1>1 DEF AllKept
<1>6. \A t \in Tracked : Collector!Object(t) \in V => Collector!Object(t) \in S
  <2> TAKE t \in Tracked
  <2>1. PICK v : v = Collector!Object(t)
    OBVIOUS
  <2>2. Collector!Moved(V, order, v) = v
    BY <2>1, MovedOther DEF Collector!Object
  <2> QED BY <1>2, <2>1, <2>2 DEF Kept
<1> QED BY <1>1, <1>2, <1>3, <1>4, <1>5, <1>6

LEMMA CollectKeeps ==
  ASSUME CollectorInv, Collector!Collect
  PROVE  CollectorInv'
<1>1. PICK after \in Collector!Sweeps :
        /\ allocations' = after.allocations
        /\ root' = after.root
        /\ trackers' = after.trackers
        /\ links' = after.links
        /\ UNCHANGED made
  BY DEF Collector!Collect
<1>2. PICK k, S :
           /\ k \in Heaps /\ Covered(k, S)
           /\ after.allocations = k.allocations
           /\ after.trackers = k.trackers
           /\ after.links = k.links
           /\ after.root \in SlotStates /\ Pointed(after.root) \subseteq S
           /\ \A t \in Tracked : /\ k.trackers[t].there => ~k.trackers[t].told
                                 /\ k.trackers[t].refs > 0 => /\ k.trackers[t].there
                                                              /\ Collector!Object(t) \in S
  BY SweepCovers
<1>3. Heap' = k
  BY <1>1, <1>2 DEF Heap, Heaps
<1>4. Heap' \in Heaps /\ Covered(Heap', S)
  BY <1>2, <1>3
<1>5. root' \in SlotStates /\ made' \in Nat
  BY <1>1, <1>2, InvParts
<1>6. TrackersFit'
  BY <1>1, <1>2 DEF TrackersFit
<1>7. Starts' \subseteq S
  BY <1>1, <1>2 DEF Starts, Collector!Pointers, Collector!Externals, Pointed
<1> QED BY <1>4, <1>5, <1>6, <1>7, CoverSuffices DEF SlotStates

(* An allocation of one block is added to what a sweep left.               *)
LEMMA AllocationAdded ==
  ASSUME NEW h \in Heaps, NEW S, Covered(h, S), NEW block \in Blocks, NEW k,
         k = [h EXCEPT !.allocations = Append(@, [activated |-> TRUE, blocks |-> <<block>>])],
         NEW a, a = Len(h.allocations) + 1
  PROVE  /\ k \in Heaps /\ Covered(k, S) /\ Len(k.allocations) = a
         /\ k.trackers = h.trackers /\ k.links = h.links
         /\ HasBlock(k, a, 1) /\ BlockAt(k, a, 1) = block
<1>1. PICK x, list : x = [activated |-> TRUE, blocks |-> <<block>>] /\ list = h.allocations
  OBVIOUS
<1>2. x \in AllocationStates /\ x.blocks = <<block>>
  BY <1>1 DEF AllocationStates
<1>3. PICK T : T = AllocationStates
  OBVIOUS
<1>4. list \in Seq(T) /\ x \in T
  BY <1>1, <1>2, <1>3, HeapParts
<1>5. /\ k.allocations = Append(list, x) /\ k.trackers = h.trackers /\ k.links = h.links
      /\ h.trackers \in [Tracked -> TrackerStates] /\ h.links \in [Links -> LinkStates]
      /\ k = [allocations |-> Append(list, x), trackers |-> h.trackers, links |-> h.links]
  BY <1>1 DEF Heaps
<1>6. /\ Append(list, x) \in Seq(T) /\ Len(list) \in Nat /\ Len(Append(list, x)) = a
      /\ a \in DOMAIN Append(list, x) /\ Append(list, x)[a] = x
      /\ \A i \in DOMAIN list : i \in DOMAIN Append(list, x) /\ Append(list, x)[i] = list[i]
  BY <1>1, <1>4
<1>7. k \in Heaps
  BY <1>3, <1>5, <1>6 DEF Heaps
<1>8. HasBlock(k, a, 1) /\ BlockAt(k, a, 1) = block
  BY <1>2, <1>5, <1>6 DEF HasBlock, BlockAt
<1>9. Len(h.allocations) <= Len(k.allocations) /\ Len(k.allocations) = a
  BY <1>1, <1>5, <1>6
<1>10. \A v \in S : KeptAt(h, k, v)
  <2> TAKE v \in S
  <2>1. Leads(h, v)
    BY DEF Covered
  <2>2. v.kind \in {"cells", "bytes"} => /\ HasBlock(h, v.a, v.b)
                                         /\ v.n >= 1 => v.o + v.n <= BlockAt(h, v.a, v.b).size
    BY <2>1 DEF Leads, FitsIn
  <2>3. v.kind \in {"cells", "bytes"} => k.allocations[v.a] = h.allocations[v.a] /\ v.a \in DOMAIN k.allocations
    BY <1>1, <1>5, <1>6, <2>2 DEF HasBlock
  <2>4. /\ v.kind = "object" => h.trackers[v.id].there
        /\ v.kind = "backlink" => h.links[v.id].there
    BY <2>1 DEF Leads
  <2> QED BY <1>5, <2>2, <2>3, <2>4 DEF KeptAt, HasBlock, BlockAt
<1>11. Covered(k, S)
  BY <1>7, <1>9, <1>10, KeptCovered
<1> QED BY <1>5, <1>7, <1>8, <1>9, <1>11

LEMMA AllocateKeeps ==
  ASSUME CollectorInv, NEW r \in Slots, Collector!AllocateBytes(r)
  PROVE  CollectorInv'
<1>a. PICK after \in Collector!Sweeps : \E w \in Collector!NewObjects(after.root) :
         /\ allocations' = Append(after.allocations,
                                  [activated |-> TRUE, blocks |-> <<Collector!NewBlock(w)>>])
         /\ root' = [after.root EXCEPT ![r] = Collector!PointerTo(w, Len(after.allocations) + 1, 1)]
         /\ trackers' = after.trackers
         /\ links' = after.links
         /\ made' = made + Len(w.values)
  BY DEF Collector!AllocateBytes
<1>1. PICK w \in Collector!NewObjects(after.root) :
         /\ allocations' = Append(after.allocations,
                                  [activated |-> TRUE, blocks |-> <<Collector!NewBlock(w)>>])
         /\ root' = [after.root EXCEPT ![r] = Collector!PointerTo(w, Len(after.allocations) + 1, 1)]
         /\ trackers' = after.trackers
         /\ links' = after.links
         /\ made' = made + Len(w.values)
  BY <1>a
<1>2. PICK h, S :
           /\ h \in Heaps /\ Covered(h, S)
           /\ after.allocations = h.allocations
           /\ after.trackers = h.trackers
           /\ after.links = h.links
           /\ after.root \in SlotStates /\ Pointed(after.root) \subseteq S
           /\ \A t \in Tracked : /\ h.trackers[t].there => ~h.trackers[t].told
                                 /\ h.trackers[t].refs > 0 => /\ h.trackers[t].there
                                                              /\ Collector!Object(t) \in S
  BY SweepCovers
<1>3. PICK slots, a, n, block : /\ slots = after.root /\ a = Len(h.allocations) + 1
                                /\ n = Len(w.values) /\ block = Collector!NewBlock(w)
  OBVIOUS
<1>4. made \in Nat /\ slots \in SlotStates /\ w \in Collector!NewObjects(slots)
  BY <1>1, <1>2, <1>3, InvParts
<1>5. block \in Blocks /\ n \in Nat
  BY <1>3, <1>4, NewBlockMeans
<1>6. PICK k : k = [h EXCEPT !.allocations = Append(@, [activated |-> TRUE, blocks |-> <<block>>])]
  OBVIOUS
<1>7. /\ k \in Heaps /\ Covered(k, S) /\ Len(k.allocations) = a
      /\ k.trackers = h.trackers /\ k.links = h.links
      /\ HasBlock(k, a, 1) /\ BlockAt(k, a, 1) = block
  BY <1>2, <1>3, <1>5, <1>6, AllocationAdded
<1>8. k.allocations = Append(h.allocations, [activated |-> TRUE, blocks |-> <<block>>])
  BY <1>2, <1>6 DEF Heaps
<1>9. Heap' = k
  BY <1>1, <1>2, <1>3, <1>7, <1>8 DEF Heap, Heaps
<1>10. PICK p : p = Collector!PointerTo(w, a, 1)
  OBVIOUS
<1>11. Covered(k, S \cup {p})
  BY <1>2, <1>3, <1>4, <1>7, <1>10, WrittenCovered
<1>12. Heap' \in Heaps /\ Covered(Heap', S \cup {p})
  BY <1>7, <1>9, <1>11
<1>13. root' = [slots EXCEPT ![r] = p]
  BY <1>1, <1>2, <1>3, <1>10
<1>14. p \in Collector!Pointer
  BY <1>11 DEF Covered, Leads
<1>15. root' \in SlotStates /\ Pointed(root') \subseteq S \cup {p}
  BY <1>2, <1>3, <1>4, <1>13, <1>14 DEF SlotStates, Pointed
<1>16. made' \in Nat
  BY <1>1, <1>3, <1>4, <1>5
<1>17. TrackersFit'
  BY <1>1, <1>2 DEF TrackersFit
<1>18. Starts' \subseteq S \cup {p}
  BY <1>1, <1>2, <1>15 DEF Starts, Collector!Pointers, Collector!Externals, Pointed
<1> QED BY <1>12, <1>15, <1>16, <1>17, <1>18, CoverSuffices DEF SlotStates

(* Every step.                                                             *)
LEMMA FirstCollectorInv == Collector!Init => CollectorInv
<1> SUFFICES ASSUME Collector!Init
             PROVE  CollectorInv
  OBVIOUS
<1>1. allocations = <<>> /\ made = 0 /\ root = [r \in Slots |-> None]
  BY DEF Collector!Init
<1>2. /\ trackers \in [Tracked -> TrackerStates]
      /\ \A t \in Tracked : ~trackers[t].there /\ trackers[t].refs = 0
  BY DEF Collector!Init, Collector!NoTracker, TrackerStates
<1>3. links \in [Links -> LinkStates]
  BY DEF Collector!Init, Collector!NoLink, LinkStates
<1>4. allocations \in Seq(AllocationStates)
  BY <1>1
<1>5. Heap \in Heaps
  BY <1>2, <1>3, <1>4 DEF Heap, Heaps
<1>6. root \in [Slots -> Collector!Pointer \cup {None}]
  BY <1>1
<1>7. TrackersFit
  BY <1>2 DEF TrackersFit
<1>8. Starts = {}
  BY <1>1, <1>2 DEF Starts, Collector!Pointers, Collector!Externals
<1>9. Covered(Heap, {})
  BY DEF Covered
<1>10. PICK start : start = Starts
  OBVIOUS
<1>11. PICK V : V = Collector!Reached(start)
  OBVIOUS
<1>12. start \subseteq V /\ V \subseteq {}
  BY <1>5, <1>8, <1>9, <1>10, <1>11, ReachedIsLeast DEF ReachIsLeast
<1>13. Collector!Visited = V
  BY <1>10, <1>11 DEF Collector!Visited, Starts
<1>14. Starts \subseteq Collector!Visited /\ Covered(Heap, Collector!Visited)
  BY <1>8, <1>12, <1>13 DEF Covered
<1> QED BY <1>1, <1>5, <1>6, <1>7, <1>14 DEF CollectorInv

LEMMA StutterKeeps ==
  ASSUME CollectorInv, UNCHANGED collectorVars
  PROVE  CollectorInv'
<1>1. UNCHANGED <<allocations, trackers, links>> /\ root' = root /\ made' = made
  BY DEF collectorVars
<1>2. PICK V : V = Collector!Visited
  OBVIOUS
<1>3. Covered(Heap, V) /\ Pointed(root) \subseteq V /\ made \in Nat /\ root \in SlotStates
  BY <1>2, InvParts
<1> QED BY <1>1, <1>2, <1>3, RootMoves

LEMMA CollectorNextKeeps == CollectorInv /\ [Collector!Next]_collectorVars => CollectorInv'
<1> SUFFICES ASSUME CollectorInv, [Collector!Next]_collectorVars
             PROVE  CollectorInv'
  OBVIOUS
<1>1. CASE UNCHANGED collectorVars
  BY <1>1, StutterKeeps
<1>2. CASE Collector!Collect
  BY <1>2, CollectKeeps
<1>3. CASE \E r \in Slots : Collector!AllocateBytes(r)
  BY <1>3, AllocateKeeps
<1>4. CASE \E r \in Slots : Collector!TryActivateBytes(r)
  BY <1>4, ActivateKeeps
<1>5. CASE \E r \in Slots : Collector!TryExtendBytes(r)
  BY <1>5, ExtendKeeps
<1>6. CASE \E r \in Slots : Collector!TryWithdrawBytes(r)
  BY <1>6, WithdrawKeeps
<1>7. CASE \E r \in Slots : \E t \in Tracked : Collector!AddTrackedObject(r, t)
  BY <1>7, AddTrackedKeeps
<1>8. CASE \E r \in Slots : \E l \in Links : Collector!MakeBacklink(r, l)
  BY <1>8, BacklinkKeeps
<1>9. CASE \E r \in Slots : \E s \in Slots : Collector!TakeInterval(r, s)
  BY <1>9, IntervalKeeps
<1>10. CASE \E r \in Slots : Collector!Forget(r)
  BY <1>10, ForgetKeeps
<1>11. CASE \E t \in Tracked : Collector!AddExternalReference(t) \/ Collector!RemoveExternalReference(t)
  BY <1>11, ReferencesKeep
<1>12. CASE \E l \in Links : Collector!SetBytes(l)
  BY <1>12, SetBytesKeeps
<1> QED BY <1>1, <1>2, <1>3, <1>4, <1>5, <1>6, <1>7, <1>8, <1>9, <1>10, <1>11, <1>12
        DEF Collector!Next

LEMMA CollectorInvHolds == Collector!Spec => []CollectorInv
<1> QED BY FirstCollectorInv, CollectorNextKeeps, PTL
        DEF Collector!Spec, Collector!vars, collectorVars

-----------------------------------------------------------------------------
(* What the invariant says of the properties.                              *)
LEMMA FollowsFromInv == CollectorInv => PointersFollow
<1> SUFFICES ASSUME CollectorInv
             PROVE  Collector!PointersFollow
  BY DEF PointersFollow
<1>1. ASSUME NEW v \in Collector!Visited, Collector!InMemory(v)
      PROVE  Collector!Stamps(v) = v.stamps
  <2>1. Heap \in Heaps /\ Leads(Heap, v) /\ v \in Collector!Pointer
    BY InvParts, VisitedObject
  <2>2. FitsIn(Heap, v) /\ v.kind \in {"cells", "bytes"}
    BY <1>1, <2>1 DEF Leads, Collector!InMemory
  <2>3. v.o \in Nat /\ v.n \in Nat /\ v.stamps \in Seq(Nat) /\ v.n = Len(v.stamps)
    BY <2>1, <2>2 DEF Collector!Pointer, FitsIn
  <2>4. PICK list : list = BlockAt(Heap, v.a, v.b).cells
    OBVIOUS
  <2>5. list \in Seq(Cells) /\ v.o + v.n <= Len(list)
    BY <2>1, <2>2, <2>4, HeapParts DEF FitsIn, HasBlock
  <2>6. Collector!Block(v).cells = list
    BY <2>4 DEF Collector!Block, BlockAt, Heap
  <2>7. Collector!Min({v.o + v.n, Len(list)}) = v.o + v.n
    BY <2>3, <2>5 DEF Collector!Min
  <2>8. Collector!CellsOf(v) = SubSeq(list, v.o + 1, v.o + v.n)
    BY <2>6, <2>7 DEF Collector!CellsOf
  <2>9. PICK piece, S, o, n : /\ piece = SubSeq(list, v.o + 1, v.o + v.n)
                              /\ S = Cells /\ o = v.o /\ n = v.n
    OBVIOUS
  <2>10. /\ piece \in Seq(S) /\ Len(piece) = v.n
         /\ \A i \in 1..v.n : piece[i] = list[v.o + i]
    <3>1. list \in Seq(S) /\ o \in Nat /\ n \in Nat /\ o + n <= Len(list)
      BY <2>3, <2>5, <2>9
    <3>2. piece = SubSeq(list, o + 1, o + n)
      BY <2>9
    <3>3. /\ SubSeq(list, o + 1, o + n) \in Seq(S)
          /\ Len(SubSeq(list, o + 1, o + n)) = n
          /\ \A i \in 1..n : SubSeq(list, o + 1, o + n)[i] = list[o + i]
      BY <3>1, PartOfList
    <3> QED BY <2>9, <3>2, <3>3
  <2>11. \A i \in 1..v.n : list[v.o + i].stamp = v.stamps[i]
    BY <2>2, <2>4 DEF FitsIn, CellAt
  <2>12. Collector!Stamps(v) = [i \in DOMAIN piece |-> piece[i].stamp]
    BY <2>8, <2>9 DEF Collector!Stamps
  <2>13. DOMAIN piece = 1..v.n /\ DOMAIN v.stamps = 1..v.n
    BY <2>3, <2>10
  <2>14. v.stamps = [i \in 1..v.n |-> v.stamps[i]]
    BY <2>3, <2>13
  <2> QED BY <2>10, <2>11, <2>12, <2>13, <2>14
<1> QED BY <1>1 DEF Collector!PointersFollow, CollectorInv, TrackersFit

LEMMA ChecksFromInv == MinBytes = 1 /\ CollectorInv => ChecksHold
<1> SUFFICES ASSUME MinBytes = 1, CollectorInv
             PROVE  Collector!ChecksHold
  BY DEF ChecksHold
<1>1. PICK V : V = Collector!Visited
  OBVIOUS
<1>2. Heap \in Heaps /\ Covered(Heap, V)
  BY <1>1, InvParts
<1>3. PICK M : M = Collector!MarkedAllocations(V)
  OBVIOUS
<1>4. \A v \in V : AgeIn(Heap, v) \in M \cup {0}
  BY <1>2, <1>3, MarkedMeans
<1>5. ASSUME NEW v \in V
      PROVE  /\ Collector!InMemory(v) => Collector!FindBlock(v)
             /\ v.kind = "cells" => v.o + v.n <= Collector!Block(v).size
             /\ v.kind = "object" => trackers[v.id].there
             /\ Collector!Age(v) \in M \cup {0}
             /\ \A w \in Collector!Inside(v) : Collector!Age(w) <= Collector!Horizon(v)
  <2>1. Leads(Heap, v) /\ v \in Collector!Pointer
    BY <1>2 DEF Covered, Leads
  <2>2. Collector!Age(v) = AgeIn(Heap, v) /\ v.kind \in {"cells", "bytes", "object", "backlink"}
        /\ (Collector!InMemory(v) <=> v.kind \in {"cells", "bytes"})
    BY <1>2, <2>1, AgeMeans
  <2>3. ASSUME v.kind \in {"cells", "bytes"}
        PROVE  /\ v.o + v.n <= Collector!Block(v).size
               /\ Collector!FindBlock(v)
    <3>1. FitsIn(Heap, v) /\ v.o \in Nat /\ v.n \in Nat
      BY <2>1, <2>3 DEF Leads, Collector!Pointer
    <3>2. v.n # 0
      BY <3>1 DEF FitsIn
    <3>3. PICK size : size = BlockAt(Heap, v.a, v.b).size
      OBVIOUS
    <3>4. size \in Nat /\ v.o + v.n <= size
      BY <1>2, <3>1, <3>2, <3>3, HeapParts DEF FitsIn, HasBlock
    <3>5. Collector!Block(v).size = size
      BY <3>3 DEF Collector!Block, BlockAt, Heap
    <3> QED BY <3>1, <3>2, <3>4, <3>5 DEF Collector!FindBlock
  <2>4. v.kind = "object" => trackers[v.id].there
    BY <2>1 DEF Leads, Heap
  <2>5. Collector!Inside(v) = Contents(Heap, v) /\ Contents(Heap, v) \subseteq Collector!Pointer
    BY <1>2, <2>1, InsideIsContents, ContentsArePointers
  <2>6. \A w \in Collector!Pointer : Collector!Age(w) = AgeIn(Heap, w)
    BY <1>2, AgeMeans
  <2>7. Collector!Horizon(v) = HorizonIn(Heap, v)
    BY <2>2 DEF Collector!Horizon, HorizonIn, Heap
  <2>8. \A w \in Collector!Inside(v) : Collector!Age(w) <= Collector!Horizon(v)
    BY <2>1, <2>5, <2>6, <2>7 DEF Leads
  <2> QED BY <1>4, <2>2, <2>3, <2>4, <2>8
<1> QED BY <1>1, <1>3, <1>5 DEF Collector!ChecksHold

-----------------------------------------------------------------------------
(* Each piece of an allocation has one place in its order.                 *)
LEMMA OrderOnce ==
  ASSUME NEW V, NEW order, Sweeping(V, order), NEW a \in Collector!MarkedAllocations(V)
  PROVE  \A i, j \in DOMAIN order[a] : order[a][i] = order[a][j] => i = j
<1>1. PICK S : S = Collector!Pieces(V, a)
  OBVIOUS
<1>2. PICK c, f : c = Collector!Cardinality(S) /\ f = order[a]
  OBVIOUS
<1>3. f \in Collector!SetToSeqs(S)
  BY <1>1, <1>2 DEF Sweeping, Collector!AddressOrders
<1>4. f \in [1..c -> S] /\ \A i, j \in 1..c : i # j => f[i] # f[j]
  BY <1>2, <1>3 DEF Collector!SetToSeqs
<1> QED BY <1>2, <1>4

(* What a sweep leaves is what a visit after it visits, and no less: a     *)
(* smaller set would have led to a smaller set before it.                  *)
LEMMA KeptIsVisited ==
  ASSUME CollectorInv, CollectorInv',
         NEW V, V = Collector!Visited, NEW order, Sweeping(V, order), AllKept(V),
         Heap' = Swept(V, order), root' = Collector!NewRoot(V, order)
  PROVE  Kept(V, order) \subseteq Collector!Visited'
<1>1. PICK k, W : k = Swept(V, order) /\ W = Collector!Visited'
  OBVIOUS
<1>2. Covered(k, W) /\ Starts' \subseteq W
  BY <1>1 DEF CollectorInv
<1>3. PICK X : X = {v \in V : Collector!Moved(V, order, v) \in W}
  OBVIOUS
<1>4. Heap \in Heaps /\ Covered(Heap, V)
  BY DEF Sweeping
<1>5. Covered(Heap, X)
  <2> SUFFICES ASSUME NEW v \in X
               PROVE  Leads(Heap, v) /\ Contents(Heap, v) \subseteq X
    BY DEF Covered
  <2>1. v \in V /\ Collector!Moved(V, order, v) \in W
    BY <1>3
  <2>2. Leads(Heap, v) /\ Contents(Heap, v) \subseteq V
    BY <1>4, <2>1 DEF Covered
  <2>3. Contents(k, Collector!Moved(V, order, v)) \subseteq W
    BY <1>2, <2>1 DEF Covered
  <2>4. Contents(k, Collector!Moved(V, order, v)) = {Collector!Moved(V, order, w) : w \in Contents(Heap, v)}
    BY <1>1, <2>1, SweptContents
  <2> QED BY <1>3, <2>2, <2>3, <2>4
<1>6. \A r \in Slots : root[r] # None => root[r] \in X
  <2> SUFFICES ASSUME NEW r \in Slots, root[r] # None
               PROVE  root[r] \in X
    OBVIOUS
  <2>1. PICK v, u : v = root[r] /\ u = Collector!Moved(V, order, v)
    OBVIOUS
  <2>2. v \in V
    BY <2>1, InvParts DEF Pointed
  <2>3. u \in Collector!Pointer
    BY <2>1, <2>2, MovedTyped
  <2>4. root'[r] = u
    BY <2>1 DEF Collector!NewRoot
  <2>5. u \in Starts'
    BY <2>3, <2>4, MemoryAssumption DEF Starts, Collector!Pointers
  <2> QED BY <1>2, <1>3, <2>1, <2>2, <2>5
<1>7. \A t \in Tracked : trackers[t].refs > 0 => Collector!Object(t) \in X
  <2> SUFFICES ASSUME NEW t \in Tracked, trackers[t].refs > 0
               PROVE  Collector!Object(t) \in X
    OBVIOUS
  <2>1. PICK v : v = Collector!Object(t)
    OBVIOUS
  <2>2. v \in V
    BY <2>1 DEF AllKept
  <2>3. Collector!Moved(V, order, v) = v
    BY <2>1, MovedOther DEF Collector!Object
  <2>4. k.trackers[t].refs = trackers[t].refs
    BY <1>1, SweptTrackers DEF AllKept
  <2>5. trackers'[t].refs > 0
    BY <1>1, <2>4 DEF Heap, Swept
  <2>6. v \in Starts'
    BY <2>1, <2>5 DEF Starts, Collector!Externals, Collector!Object
  <2> QED BY <1>2, <1>3, <2>1, <2>2, <2>3, <2>6
<1>8. Starts \subseteq X
  BY <1>6, <1>7 DEF Starts, Collector!Pointers, Collector!Externals
<1>9. PICK start : start = Starts
  OBVIOUS
<1>10. Collector!Reached(start) \subseteq X
  BY <1>4, <1>5, <1>8, <1>9, ReachedIsLeast DEF ReachIsLeast
<1>11. V \subseteq X
  BY <1>9, <1>10 DEF Collector!Visited, Starts
<1> QED BY <1>1, <1>3, <1>11 DEF Kept

(* Every cell of a new block is one that a mark of its segment covered.    *)
LEMMA SweptMarks ==
  ASSUME NEW V, NEW order, Sweeping(V, order), NEW k, k = Swept(V, order),
         NEW i \in DOMAIN k.allocations, NEW j \in DOMAIN k.allocations[i].blocks,
         NEW p \in 1..k.allocations[i].blocks[j].size
  PROVE  \E u \in Kept(V, order) :
           u.kind \in {"cells", "bytes"} /\ u.a = i /\ u.b = j /\ u.o < p /\ p <= u.o + u.n
<1>1. PICK M, n : M = Collector!MarkedAllocations(V) /\ n = Cardinality(M)
  OBVIOUS
<1>2. Heap \in Heaps /\ Covered(Heap, V)
  BY DEF Sweeping
<1>3. /\ k.allocations \in Seq(AllocationStates) /\ Len(k.allocations) = n /\ n \in Nat
      /\ \A a \in M :
           /\ \A c : HasBlock(k, Collector!NewIndex(V, a), c) <=> c \in DOMAIN order[a]
           /\ \A c \in DOMAIN order[a] :
                BlockAt(k, Collector!NewIndex(V, a), c) = Collector!Copied(V, order, a, order[a][c])
  BY <1>1, SweptBlocks
<1>4. i \in 1..n
  BY <1>3
<1>5. PICK a \in M : Collector!NewIndex(V, a) = i
  BY <1>1, <1>2, <1>4, NewIndexMeans
<1>6. j \in DOMAIN order[a] /\ BlockAt(k, i, j) = Collector!Copied(V, order, a, order[a][j])
  BY <1>3, <1>5 DEF HasBlock
<1>7. PICK c \in Nat : order[a] \in [1..c -> Collector!Pieces(V, a)]
  BY <1>1, OrderMeans
<1>8. a \in DOMAIN allocations
  BY <1>1, OrderMeans
<1>9. order[a][j] \in Collector!Pieces(V, a)
  BY <1>6, <1>7
<1>10. PICK b \in DOMAIN allocations[a].blocks : \E o \in Collector!Segments(V, a, b) :
         order[a][j] = [b |-> b, o |-> o]
  BY <1>2, <1>8, <1>9, PiecesMeans
<1>11. PICK o \in Collector!Segments(V, a, b) : order[a][j] = [b |-> b, o |-> o]
  BY <1>10
<1>12. PICK end, size, x : /\ end = Collector!EndOf(V, a, b, o) /\ size = end - o
                           /\ x = Collector!Copied(V, order, a, [b |-> b, o |-> o])
  OBVIOUS
<1>13. x.size = size /\ size \in Nat
  BY <1>12, CopiedMeans
<1>14. o \in Nat /\ end \in Nat
  BY <1>2, <1>12, EndMeans
<1>15. p \in 1..size
  BY <1>6, <1>11, <1>12, <1>13 DEF BlockAt
<1>16. PICK q : q = o + p
  OBVIOUS
<1>17. q \in (o + 1)..end
  BY <1>12, <1>14, <1>15, <1>16
<1>18. PICK m \in Collector!Marks(V, a, b) : Collector!Covers(m, q) /\ Collector!SegmentOf(V, m) = o
  BY <1>2, <1>12, <1>17, SegmentCovered
<1>19. m \in V /\ m.kind \in {"cells", "bytes"} /\ m.a = a /\ m.b = b /\ m.o \in Nat /\ m.n \in Nat
  BY <1>2, <1>18, MarkMeans
<1>20. PICK u : u = Collector!Moved(V, order, m)
  OBVIOUS
<1>21. /\ u.kind = m.kind /\ u.a = i /\ u.b \in DOMAIN order[a]
       /\ order[a][u.b] = [b |-> b, o |-> o] /\ u.o = m.o - o /\ u.n = m.n
  BY <1>5, <1>18, <1>19, <1>20, MovedMemory
<1>22. u.b = j
  BY <1>1, <1>6, <1>11, <1>21, OrderOnce
<1>23. u.o < p /\ p <= u.o + u.n
  BY <1>14, <1>15, <1>16, <1>18, <1>19, <1>21 DEF Collector!Covers
<1>24. u \in Kept(V, order)
  BY <1>19, <1>20 DEF Kept
<1> QED BY <1>19, <1>21, <1>22, <1>23, <1>24

LEMMA CollectLeavesNothing ==
  ASSUME CollectorInv, Collector!Collect
  PROVE  Collector!NothingLeft'
<1>1. CollectorInv'
  BY CollectKeeps
<1>2. PICK after \in Collector!Sweeps :
        /\ allocations' = after.allocations
        /\ root' = after.root
        /\ trackers' = after.trackers
        /\ links' = after.links
  BY DEF Collector!Collect
<1>3. PICK V, order, k :
           /\ V = Collector!Visited /\ Sweeping(V, order) /\ AllKept(V) /\ k = Swept(V, order)
           /\ after.allocations = k.allocations
           /\ after.trackers = k.trackers
           /\ after.links = k.links
           /\ after.root = Collector!NewRoot(V, order)
  BY SweepMeans
<1>4. Heap' = k /\ root' = Collector!NewRoot(V, order)
  BY <1>2, <1>3 DEF Heap, Swept
<1>5. PICK W : W = Collector!Visited'
  OBVIOUS
<1>6. Kept(V, order) \subseteq W
  BY <1>1, <1>3, <1>4, <1>5, KeptIsVisited
<1>7. allocations' = k.allocations /\ trackers' = k.trackers
  BY <1>4 DEF Heap
<1>8. \A i \in DOMAIN allocations' : \A j \in DOMAIN allocations'[i].blocks :
        \A p \in 1..allocations'[i].blocks[j].size : \E u \in W :
           u.kind \in {"cells", "bytes"} /\ u.a = i /\ u.b = j /\ u.o < p /\ p <= u.o + u.n
  BY <1>3, <1>6, <1>7, SweptMarks
<1>9. \A t \in Tracked : trackers'[t].there => Collector!Object(t) \in W
  <2> TAKE t \in Tracked
  <2>1. PICK v : v = Collector!Object(t)
    OBVIOUS
  <2>2. k.trackers[t].there <=> v \in V
    BY <1>3, <2>1, SweptTrackers DEF AllKept
  <2>3. Collector!Moved(V, order, v) = v
    BY <2>1, MovedOther DEF Collector!Object
  <2>4. v \in V => v \in W
    BY <1>6, <2>3 DEF Kept
  <2> QED BY <1>7, <2>1, <2>2, <2>4
<1>10. \A c \in Collector!Cells' : \E m \in Collector!Marks(W, c[1], c[2]) : m.o < c[3] /\ c[3] <= m.o + m.n
  BY <1>8 DEF Collector!Cells, Collector!Marks, Collector!InMemory
<1>11. Collector!CellsVisited(W)' = Collector!Cells'
  BY <1>10 DEF Collector!CellsVisited
<1> QED BY <1>5, <1>9, <1>11 DEF Collector!NothingLeft

-----------------------------------------------------------------------------
(* However memory is moved, merged, split and renumbered, every pointer    *)
(* that a collection can visit leads to the very cells it was made to      *)
(* point at, and an object with external references is there and was not   *)
(* told that it is unreachable (debug_memory_manager.cc, Sweep).           *)
THEOREM PointersFollowMoves == Collector!Spec => []PointersFollow
  BY CollectorInvHolds, FollowsFromInv, PTL

(* No GOOGLE_CHECK of a collection fails (debug_memory_manager.cc,         *)
(* ValidateVisitedPointer and the visits of trackers and backlinks), as    *)
(* long as no empty interval of a byte string is taken (bytes.cc:165).     *)
THEOREM CollectionsPassChecks == ASSUME MinBytes = 1 PROVE Collector!Spec => []ChecksHold
<1>1. CollectorInv => ChecksHold
  BY ChecksFromInv
<1> QED BY <1>1, CollectorInvHolds, PTL

(* A collection leaves no cell and no tracked object behind that a visit   *)
(* after it would not find (debug_memory_manager.cc, Sweep).               *)
THEOREM NothingStaysBehind == Collector!Spec => SweepsAll
<1>1. CollectorInv => (focus = "collector" /\ Collector!Collect => Collector!NothingLeft')
  BY CollectLeavesNothing
<1> QED BY <1>1, CollectorInvHolds, PTL DEF SweepsAll
=============================================================================
