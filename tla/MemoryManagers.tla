----------------------------- MODULE MemoryManagers ---------------------------
(***************************************************************************)
(* What runs below everything that a process keeps: the collector that     *)
(* moves all (DebugMemoryManager), and the manager that never collects     *)
(* with the allocators that give its memory back (Allocators), next to the *)
(* tables that rely on a collector (WeakTables).                           *)
(***************************************************************************)
EXTENDS WeakTables

CONSTANTS Slots, Tracked, Links, MaxMade, MinBytes,
          Sizes, kAlignment, kNewPoolSize, kSeparateAllocationThreshold,
          kGuardByteCount, kMaxHeldBytes, MaxBlocks, MaxAddress

(* Blocks have a size, zero for one; the code's constants are 8, 262144,   *)
(* 16384 ("Must not be larger than kNewPoolSize"), 8 and 262144.           *)
ASSUME AllocatorAssumption == /\ Sizes \subseteq Nat
                              /\ kAlignment \in Nat \ {0}
                              /\ kNewPoolSize \in Nat \ {0}
                              /\ kSeparateAllocationThreshold \in Nat
                              /\ kSeparateAllocationThreshold <= kNewPoolSize
                              /\ kGuardByteCount \in Nat \ {0}
                              /\ kMaxHeldBytes \in Nat
                              /\ MaxBlocks \in Nat /\ MaxAddress \in Nat

VARIABLES allocations, root, trackers, links, made,
          layer, allocator, blocks, withdrawn, ended,
          focus    \* which part of the process moves

Collector == INSTANCE DebugMemoryManager WITH Objects <- Tracked
Memory == INSTANCE Allocators

(* Objects and backlinks are finitely many, and the null pointer is none.  *)
ASSUME MemoryAssumption == /\ MaxMade \in Nat
                           /\ MinBytes \in {0, 1}
                           /\ IsFiniteSet(Tracked) /\ IsFiniteSet(Links)
                           /\ None \notin Collector!Pointer

collectorVars == <<allocations, root, trackers, links, made>>
memoryVars == <<layer, allocator, blocks, withdrawn, ended>>

(* The properties of the collector: its checks hold, and pointers follow   *)
(* what moves.                                                             *)
ChecksHold == focus = "collector" => Collector!ChecksHold
PointersFollow == focus = "collector" => Collector!PointersFollow

(* What is not reachable is gone after a collection.                       *)
SweepsAll == [][focus = "collector" /\ Collector!Collect => Collector!NothingLeft']_collectorVars

(* Of the allocators: no byte is given out twice, and all is given back;   *)
(* and the debugging one finds what is written where nothing should be.    *)
MemoryNotShared == focus = "memory" => Memory!MemoryNotShared /\ Memory!WritesOutsideFound
=============================================================================
