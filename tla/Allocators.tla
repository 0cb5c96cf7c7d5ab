------------------------------- MODULE Allocators ------------------------------
(***************************************************************************)
(* The memory that every evaluator uses (vm/memory): a                     *)
(* BraindeadMemoryManager, which frees nothing but what it was given back  *)
(* first, over a PoolAllocator or, in tests, a DebugAllocator; and below   *)
(* them operator new.                                                      *)
(*                                                                         *)
(* A block is an interval of addresses.                                    *)
(***************************************************************************)
EXTENDS Integers, Sequences, SequencesExt, FiniteSets, FiniteSetsExt

CONSTANTS
  Sizes,          \* the sizes that the program asks for
  kAlignment,     \* 8 in the code
  kNewPoolSize,
  kSeparateAllocationThreshold,
  kGuardByteCount,
  kMaxHeldBytes,
  MaxBlocks,      \* bound on the blocks that the program has
  MaxAddress      \* bound on memory

VARIABLES
  layer,      \* the allocator below the manager: "pool" or "debug"
  allocator,  \* its state, and what operator new gave to it
  blocks,     \* blocks_
  withdrawn,  \* withdrawn_blocks_
  ended       \* whether all was destroyed

vars == <<layer, allocator, blocks, withdrawn, ended>>

Block(at, size) == [at |-> at, size |-> size]
Bytes(b) == b.at .. b.at + b.size - 1
BytesOf(set) == UNION {Bytes(b) : b \in set}
Apart(b, c) == b.at + b.size <= c.at \/ c.at + c.size <= b.at

-----------------------------------------------------------------------------
(* MallocAllocator: operator new gives any memory that is free.            *)
Malloc(s, size) == {b \in {Block(at, size) : at \in 1 .. MaxAddress - size + 1} :
                      \A c \in s.malloc : Apart(b, c)}
Taken(s, b) == [s EXCEPT !.malloc = @ \cup {b}]
GivenBack(s, b) == [s EXCEPT !.malloc = @ \ {b}]

Allocated(s, at) == [state |-> s, at |-> at]

-----------------------------------------------------------------------------
(* PoolAllocator.                                                          *)
Align(size) == IF size <= 0 THEN kAlignment
               ELSE ((size - 1) \div kAlignment) * kAlignment + kAlignment

Bump(s, n) == [s EXCEPT !.position = @ + n, !.remaining = @ - n]
NewPool(s, b) == [Taken(s, b) EXCEPT !.pools = Append(@, b), !.start = b.at,
                                     !.position = b.at, !.remaining = b.size]
PoolAllocate(s, size) ==
  LET n == Align(size)
  IN CASE n <= s.remaining -> {Allocated(Bump(s, n), s.position)}
       [] n > s.remaining /\ n > kSeparateAllocationThreshold ->
            {Allocated([Taken(s, b) EXCEPT !.pools = Append(@, b)], b.at) : b \in Malloc(s, n)}
       [] OTHER -> {Allocated(Bump(NewPool(s, b), n), b.at) : b \in Malloc(s, kNewPoolSize)}

(* Only the last block of the current pool is used again.                  *)
(* Mutant: it need not be the last.                                        *)
PoolFree_Any(s, b) == IF s.remaining + Align(b.size) <= kNewPoolSize THEN Bump(s, -Align(b.size))
                     ELSE s
PoolFree(s, b) ==
  IF b.at + Align(b.size) = s.position /\ b.at >= s.start THEN Bump(s, -Align(b.size)) ELSE s

PoolDestroy(s) == [s EXCEPT !.malloc = @ \ Range(s.pools)]

-----------------------------------------------------------------------------
(* DebugAllocator: each block has guard bytes around it, and what is freed *)
(* is held for a while.  All of these bytes have a known value: s.written  *)
(* are those that lost it.                                                 *)
Guarded(b) == Block(b.at - kGuardByteCount, b.size + 2 * kGuardByteCount)
GuardBytes(b) == Bytes(Guarded(b)) \ Bytes(b)

DebugAllocate(s, size) ==
  {LET b == Block(g.at + kGuardByteCount, size)
   IN Allocated([Taken(s, g) EXCEPT !.allocations = @ \cup {b}, !.written = @ \ GuardBytes(b)],
                b.at) :
     g \in Malloc(s, size + 2 * kGuardByteCount)}

Check(s, holds) == [s EXCEPT !.failed = @ \/ ~holds]

(* FlushOneHeldAllocation, n times: the oldest go first.                   *)
(* Mutant: what was held is not looked at again.                           *)
FlushHeldAllocations_Unchecked(s, n) ==
  [s EXCEPT !.malloc = @ \ Range(SubSeq(s.held, 1, n)), !.held = SubSeq(@, n + 1, Len(@))]
FlushHeldAllocations(s, n) ==
  LET flushed == Range(SubSeq(s.held, 1, n))
  IN [Check(s, BytesOf(flushed) \cap s.written = {}) EXCEPT
        !.malloc = @ \ flushed, !.held = SubSeq(@, n + 1, Len(@))]

(* One at a time, until few enough bytes are held.                         *)
HeldBytes(held) == FoldLeft(LAMBDA sum, b : sum + b.size, 0, held)
FewEnough(s, n, bytes) == \/ n = Len(s.held)
                          \/ HeldBytes(SubSeq(s.held, n + 1, Len(s.held))) <= bytes
FlushDownTo(s, bytes) ==
  FlushHeldAllocations(s, Min({n \in 0..Len(s.held) : FewEnough(s, n, bytes)}))
HoldAllocation(s, g) == [s EXCEPT !.held = Append(@, g), !.written = @ \ Bytes(g)]

DebugFree(s, b) ==
  LET g == Guarded(b)
      checked == Check([s EXCEPT !.allocations = @ \ {b}],
                       b \in s.allocations /\ GuardBytes(b) \cap s.written = {})
  IN IF g.size <= kMaxHeldBytes
       THEN HoldAllocation(FlushDownTo(checked, kMaxHeldBytes - g.size), g)
       ELSE GivenBack(checked, g)

DebugDestroy(s) == FlushHeldAllocations(Check(s, s.allocations = {}), Len(s.held))

-----------------------------------------------------------------------------
(* BraindeadMemoryManager.                                                 *)
Allocate(s, size) == IF layer = "pool" THEN PoolAllocate(s, size) ELSE DebugAllocate(s, size)
Free(s, b) == IF layer = "pool" THEN PoolFree(s, b) ELSE DebugFree(s, b)

FreeAll(s, list) ==
  LET after[i \in 0..Len(list)] == IF i = 0 THEN s ELSE Free(after[i - 1], list[i])
  IN after[Len(list)]

(* What was withdrawn is freed in the order in which it was.               *)
DoPendingWithdraw == FreeAll(allocator, withdrawn)

AllocateBytes(size) ==
  /\ Len(blocks) < MaxBlocks
  /\ \E given \in Allocate(DoPendingWithdraw, size) :
       /\ allocator' = given.state
       /\ blocks' = Append(blocks, Block(given.at, size))
  /\ withdrawn' = <<>>
  /\ UNCHANGED <<layer, ended>>

TryExtendBytes ==
  /\ allocator' = DoPendingWithdraw
  /\ withdrawn' = <<>>
  /\ UNCHANGED <<layer, blocks, ended>>

(* The program may give up any bytes that it has: all others it keeps.     *)
TryWithdrawBytes(b) ==
  /\ blocks # <<>>
  /\ b = Last(blocks)
  /\ withdrawn' = Append(withdrawn, b)
  /\ blocks' = Front(blocks)
  /\ UNCHANGED <<layer, allocator, ended>>

(* The manager is destroyed, and then the allocator.                       *)
Destroy ==
  LET freed == FreeAll(DoPendingWithdraw, blocks)
  IN /\ allocator' = IF layer = "pool" THEN PoolDestroy(freed) ELSE DebugDestroy(freed)
     /\ blocks' = <<>>
     /\ withdrawn' = <<>>
     /\ ended' = TRUE
     /\ UNCHANGED layer

(* A program with an error writes where it has no block: this is what the  *)
(* guard bytes and the held blocks are for.  One write at a time is enough.*)
Watched(s) == BytesOf(Range(s.held)) \cup UNION {GuardBytes(b) : b \in s.allocations}
WriteOutside(a) ==
  /\ layer = "debug"
  /\ allocator.written = {}
  /\ allocator' = [allocator EXCEPT !.written = {a}]
  /\ UNCHANGED <<layer, blocks, withdrawn, ended>>

Init ==
  /\ layer \in {"pool", "debug"}
  /\ allocator = [malloc |-> {}, pools |-> <<>>, start |-> 0, position |-> 0, remaining |-> 0,
                  allocations |-> {}, held |-> <<>>, written |-> {}, failed |-> FALSE]
  /\ blocks = <<>>
  /\ withdrawn = <<>>
  /\ ended = FALSE

Next ==
  /\ ~ended /\ ~allocator.failed
  /\ \/ \E size \in Sizes : AllocateBytes(size)
     \/ TryExtendBytes
     \/ \E b \in Range(blocks) : TryWithdrawBytes(b)
     \/ Destroy
     \/ \E a \in Watched(allocator) : WriteOutside(a)

Spec == Init /\ [][Next]_vars

-----------------------------------------------------------------------------
(* memory_manager.h: bytes that were withdrawn remain readable until the   *)
(* next allocation.  However blocks are taken, given back, pooled and      *)
(* held, those that the program has and those that it may still read do    *)
(* not share a byte, and lie in memory that operator new was not given     *)
(* back; and in the end it is given back all.                              *)
Readable == blocks \o withdrawn
MemoryNotShared ==
  /\ \A i, j \in DOMAIN Readable : i # j => Bytes(Readable[i]) \cap Bytes(Readable[j]) = {}
  /\ \A i \in DOMAIN Readable :
       /\ \E b \in allocator.malloc : Bytes(Readable[i]) \subseteq Bytes(b)
       /\ Bytes(Readable[i]) \cap BytesOf(Range(allocator.held)) = {}
  /\ ended /\ ~allocator.failed => allocator.malloc = {}

(* debug_allocator.cc: a byte written beside a block or after the block    *)
(* was freed is found before operator new can give the memory to someone   *)
(* else.                                                                   *)
WritesOutsideFound == allocator.failed \/ allocator.written \subseteq Watched(allocator)
=============================================================================
