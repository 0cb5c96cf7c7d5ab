--------------------------- MODULE DebugMemoryManager --------------------------
(***************************************************************************)
(* DebugMemoryManager (vm/memory/debug_memory_manager.cc): the collector   *)
(* that moves everything at every allocation.  Memory is a sequence of     *)
(* allocations, oldest first, each of one or more blocks; pointers lead    *)
(* only to memory that is not newer, except through backlinks.             *)
(*                                                                         *)
(* A block is a sequence of cells.  A cell is a pointer-sized piece of an  *)
(* object; its stamp, unique to each cell ever written, stands for the  *)
(* contents and moves with them.  A pointer remembers the stamps of what   *)
(* it was made to point at: nothing in the code reads them.                *)
(***************************************************************************)
EXTENDS Integers, Sequences, SequencesExt, FiniteSets, FiniteSetsExt

CONSTANTS
  Slots,      \* the pointers of the program's MemoryRoot
  Objects,    \* the tracked objects that can be added, each once
  Links,      \* the backlinks that can be there at a time: a bound
  MaxMade,    \* bound on the cells written, objects added and links made
  MinBytes,   \* least size of an interval of a byte string that is taken
  None

VARIABLES
  allocations,  \* allocations_
  root,         \* what each slot of the root points at
  trackers,     \* object_trackers_ and external_references_
  links,        \* backlinks_
  made          \* how many cells, objects and links were made so far

vars == <<allocations, root, trackers, links, made>>

(* What a program can point at: cells that a MemoryGuide finds pointers    *)
(* in, raw bytes, a tracked object, a backlink.                            *)
Memory(kind, a, b, o, stamps) ==
  [kind |-> kind, a |-> a, b |-> b, o |-> o, n |-> Len(stamps), stamps |-> stamps]
Object(t) == [kind |-> "object", id |-> t]
Link(l) == [kind |-> "backlink", id |-> l]
InMemory(v) == v.kind \in {"cells", "bytes"}
Pointer == [kind : {"cells", "bytes"}, a : Nat, b : Nat, o : Nat, n : Nat, stamps : Seq(Nat)]
             \cup [kind : {"object"}, id : Objects] \cup [kind : {"backlink"}, id : Links]

NoTracker == [there |-> FALSE, told |-> FALSE, index |-> 0, refs |-> 0, content |-> None]
NoLink == [there |-> FALSE, index |-> 0, bytes |-> None]

Init == /\ allocations = <<>>
        /\ root = [r \in Slots |-> None]
        /\ trackers = [t \in Objects |-> NoTracker]
        /\ links = [l \in Links |-> NoLink]
        /\ made = 0

-----------------------------------------------------------------------------
(* DebugMemoryVisitor: what a collection visits.                           *)

Block(v) == allocations[v.a].blocks[v.b]
CellsOf(v) == LET cells == Block(v).cells
              IN SubSeq(cells, v.o + 1, Min({v.o + v.n, Len(cells)}))
Stamps(v) == [i \in DOMAIN CellsOf(v) |-> CellsOf(v)[i].stamp]

(* Accept of a MemoryGuide, of a TrackedObject, of a DebugBacklink.        *)
Inside(v) ==
  (CASE v.kind = "cells" -> {cell.value : cell \in ToSet(CellsOf(v))}
     [] v.kind = "bytes" -> {}
     [] v.kind = "object" -> {trackers[v.id].content}
     [] v.kind = "backlink" -> {links[v.id].bytes}) \ {None}

(* The mark queue, until it is empty: it is filled from what is held, so   *)
(* in as many rounds at most.                                              *)
ValuesIn(x) == UNION {{cell.value : cell \in ToSet(block.cells)} : block \in ToSet(x.blocks)}
Held == ({trackers[t].content : t \in Objects} \cup {links[l].bytes : l \in Links}
           \cup UNION {ValuesIn(x) : x \in ToSet(allocations)}) \ {None}
Reached(start) ==
  LET reached[i \in 0..Cardinality(Held)] ==
        IF i = 0 THEN start
        ELSE reached[i - 1] \cup UNION {Inside(v) : v \in reached[i - 1]}
  IN reached[Cardinality(Held)]

Externals == {Object(t) : t \in {t \in Objects : trackers[t].refs > 0}}
Pointers(slots) == {root[r] : r \in slots} \ {None}

Visited == Reached(Pointers(Slots) \cup Externals)

(* The newest allocation that a visit of v may still lead to, and the one  *)
(* that v itself belongs to (0: older than all of them).                   *)
Horizon(v) == CASE v.kind = "cells" -> v.a
                [] v.kind = "object" -> trackers[v.id].index
                [] OTHER -> Len(allocations)
Age(v) == CASE InMemory(v) -> v.a
            [] v.kind = "object" -> trackers[v.id].index
            [] v.kind = "backlink" -> links[v.id].index

-----------------------------------------------------------------------------
(* DebugMemoryVisitor::Sweep.                                              *)

(* V is what was visited.                                                  *)

(* marked_allocations_; the allocations that remain are numbered anew.     *)
(* Mutant: visiting a tracker or a backlink does not mark its allocation.  *)
MarkedAllocations_OfMemory(V) == {v.a : v \in {v \in V : InMemory(v)}}
MarkedAllocations(V) == {Age(v) : v \in V} \ {0}
NewIndex(V, a) == Cardinality({m \in MarkedAllocations(V) : m <= a})

(* marked_blocks_ of a block.  Marks that overlap or touch are one segment *)
(* and move together; a segment is known by where it begins.               *)
Marks(V, a, b) == {v \in V : InMemory(v) /\ v.a = a /\ v.b = b}
Covers(m, o) == m.o < o /\ o <= m.o + m.n
Segments(V, a, b) == {v.o : v \in {v \in Marks(V, a, b) :
                                  \A m \in Marks(V, a, b) : ~Covers(m, v.o)}}
SegmentOf(V, v) == Max({o \in Segments(V, v.a, v.b) : o <= v.o})
(* Mutant: a segment ends where its last mark ends.                        *)
EndOf_Last(V, a, b, o) ==
  LET last == Max({m.o : m \in {m \in Marks(V, a, b) : SegmentOf(V, m) = o}})
  IN Max({m.o + m.n : m \in {m \in Marks(V, a, b) : m.o = last}})
EndOf(V, a, b, o) == Max({m.o + m.n : m \in {m \in Marks(V, a, b) : SegmentOf(V, m) = o}})

(* Each segment becomes a block of its own.  Blocks are gone through by    *)
(* address, which is any order, and their segments as they follow.         *)
Pieces(V, a) == UNION {{[b |-> b, o |-> o] : o \in Segments(V, a, b)} :
                         b \in DOMAIN allocations[a].blocks}
ByAddress(pieces) ==
  \A i, j \in DOMAIN pieces : i < j /\ pieces[i].b = pieces[j].b =>
    pieces[i].o < pieces[j].o /\ \A k \in i..j : pieces[k].b = pieces[i].b
AddressOrders(V) ==
  {order \in [MarkedAllocations(V) -> UNION {SetToSeqs(Pieces(V, a)) : a \in MarkedAllocations(V)}] :
     \A a \in MarkedAllocations(V) : order[a] \in SetToSeqs(Pieces(V, a)) /\ ByAddress(order[a])}

(* Every pointer to a segment follows it.                                  *)
Moved(V, order, v) ==
  IF v = None \/ ~InMemory(v) THEN v
  ELSE LET j == CHOOSE j \in DOMAIN order[v.a] :
                  order[v.a][j] = [b |-> v.b, o |-> SegmentOf(V, v)]
       IN Memory(v.kind, NewIndex(V, v.a), j, v.o - SegmentOf(V, v), v.stamps)

Copied(V, order, a, segment) ==
  LET end == EndOf(V, a, segment.b, segment.o)
      cells == SubSeq(allocations[a].blocks[segment.b].cells, segment.o + 1, end)
  IN [size |-> Len(cells),
      cells |-> [i \in DOMAIN cells |->
                   [cells[i] EXCEPT !.value = Moved(V, order, @)]]]

NewAllocations(V, order) ==
  [i \in 1..Cardinality(MarkedAllocations(V)) |->
     LET a == CHOOSE a \in MarkedAllocations(V) : NewIndex(V, a) = i
     IN [activated |-> FALSE,
         blocks |-> [j \in DOMAIN order[a] |-> Copied(V, order, a, order[a][j])]]]

NewRoot(V, order) == [r \in Slots |-> Moved(V, order, root[r])]

(* Trackers that were not visited are deleted, which tells their objects.  *)
(* Mutant: no tracker is deleted.                                         *)
NewTrackers_Kept(V, order) ==
  [t \in Objects |->
     IF ~trackers[t].there THEN trackers[t]
     ELSE [trackers[t] EXCEPT !.index = NewIndex(V, @), !.content = Moved(V, order, @)]]
NewTrackers(V, order) ==
  [t \in Objects |->
     IF ~trackers[t].there THEN trackers[t]
     ELSE IF Object(t) \in V
       THEN [trackers[t] EXCEPT !.index = NewIndex(V, @), !.content = Moved(V, order, @)]
       ELSE [trackers[t] EXCEPT !.there = FALSE, !.told = TRUE, !.index = 0,
                                 !.content = None]]

NewLinks(V, order) ==
  [l \in Links |->
     IF Link(l) \in V
       THEN [links[l] EXCEPT !.index = NewIndex(V, @), !.bytes = Moved(V, order, @)]
       ELSE NoLink]

(* All that a collection can leave, for every order of addresses.          *)
Sweeps == LET V == Visited
          IN {[allocations |-> NewAllocations(V, order), root |-> NewRoot(V, order),
               trackers |-> NewTrackers(V, order), links |-> NewLinks(V, order)] :
                order \in AddressOrders(V)}

Collect ==
  \E after \in Sweeps :
    /\ allocations' = after.allocations
    /\ root' = after.root
    /\ trackers' = after.trackers
    /\ links' = after.links
    /\ UNCHANGED made

-----------------------------------------------------------------------------
(* The program writes a new object: cells that point at what slots of its  *)
(* root point at, or raw bytes.  A pointer to raw bytes is written only    *)
(* into an object of its own (bytes.cc), which one guide visits, once.     *)
NewObjects(slots) ==
  {w \in [kind : {"cells", "bytes"}, values : BoundedSeq(Range(slots) \cup {None}, MaxMade - made)] :
     /\ w.values # <<>>
     /\ \A i \in DOMAIN w.values :
          w.values[i] # None =>
            /\ w.kind = "cells"
            /\ w.values[i].kind = "bytes" => Len(w.values) = 1}

NewBlock(w) == [size |-> Len(w.values),
                cells |-> [i \in DOMAIN w.values |->
                             [stamp |-> made + i, value |-> w.values[i]]]]
PointerTo(w, a, b) ==
  Memory(w.kind, a, b, 0, [i \in DOMAIN w.values |-> made + i])

AllocateBytes(r) ==
  \E after \in Sweeps :
    LET a == Len(after.allocations) + 1
    IN \E w \in NewObjects(after.root) :
         /\ allocations' = Append(after.allocations,
                                  [activated |-> TRUE, blocks |-> <<NewBlock(w)>>])
         /\ root' = [after.root EXCEPT ![r] = PointerTo(w, a, 1)]
         /\ trackers' = after.trackers
         /\ links' = after.links
         /\ made' = made + Len(w.values)

Newest == Len(allocations)

TryActivateBytes(r) ==
  /\ root[r] # None /\ InMemory(root[r])
  /\ root[r].a = Newest
  /\ allocations' = [allocations EXCEPT ![Newest].activated = TRUE]
  /\ UNCHANGED <<root, trackers, links, made>>

TryExtendBytes(r) ==
  /\ Newest > 0
  /\ allocations[Newest].activated
  /\ \E w \in NewObjects(root) :
       /\ allocations' = [allocations EXCEPT ![Newest].blocks = Append(@, NewBlock(w))]
       /\ root' = [root EXCEPT ![r] =
                     PointerTo(w, Newest, Len(allocations[Newest].blocks) + 1)]
       /\ made' = made + Len(w.values)
  /\ UNCHANGED <<trackers, links>>

(* The program gives up what r points at, and has no other pointer to it.  *)
Shared(v, w) == InMemory(w) /\ w.a = v.a /\ w.b = v.b /\ v.o < w.o + w.n /\ w.o < v.o + v.n
GivenUp(r) == /\ root[r] # None /\ InMemory(root[r])
              /\ \A w \in Reached(Pointers(Slots \ {r}) \cup Externals) : ~Shared(root[r], w)

(* Only the last bytes of the last block of the newest allocation can be   *)
(* withdrawn.                                                              *)
AtEnd(v) ==
  /\ v.a = Newest
  /\ \A b \in v.b + 1 .. Len(allocations[Newest].blocks) :
       allocations[Newest].blocks[b].size = 0
  /\ v.o + v.n = Block(v).size

TryWithdrawBytes(r) ==
  /\ GivenUp(r)
  /\ AtEnd(root[r])
  /\ allocations' = [allocations EXCEPT ![Newest].blocks[root[r].b].size = @ - root[r].n]
  /\ root' = [root EXCEPT ![r] = None]
  /\ UNCHANGED <<trackers, links, made>>

-----------------------------------------------------------------------------
(* Tracked objects and backlinks.                                          *)

AddTrackedObject(r, t) ==
  /\ ~trackers[t].there /\ ~trackers[t].told
  /\ \E content \in Pointers(Slots) \cup {None} :
       trackers' = [trackers EXCEPT ![t] = [there |-> TRUE, told |-> FALSE, index |-> Newest,
                                            refs |-> 0, content |-> content]]
  /\ root' = [root EXCEPT ![r] = Object(t)]
  /\ made < MaxMade
  /\ made' = made + 1
  /\ UNCHANGED <<allocations, links>>

AddExternalReference(t) ==
  /\ Object(t) \in Pointers(Slots)
  /\ trackers[t].refs < 1
  /\ trackers' = [trackers EXCEPT ![t].refs = @ + 1]
  /\ UNCHANGED <<allocations, root, links, made>>

RemoveExternalReference(t) ==
  /\ trackers[t].refs > 0
  /\ trackers' = [trackers EXCEPT ![t].refs = @ - 1]
  /\ UNCHANGED <<allocations, root, links, made>>

MakeBacklink(r, l) ==
  /\ ~links[l].there
  /\ links' = [links EXCEPT ![l] = [there |-> TRUE, index |-> Newest, bytes |-> None]]
  /\ root' = [root EXCEPT ![r] = Link(l)]
  /\ made < MaxMade
  /\ made' = made + 1
  /\ UNCHANGED <<allocations, trackers>>

SetBytes(l) ==
  /\ Link(l) \in Pointers(Slots)
  /\ \E v \in Pointers(Slots) :
       /\ v.kind = "cells"
       /\ links' = [links EXCEPT ![l].bytes = v]
  /\ UNCHANGED <<allocations, root, trackers, made>>

-----------------------------------------------------------------------------
(* What the program does with its root: it takes an interval of an array   *)
(* or of a byte string (ByteUtils::GetInterval), and forgets pointers.     *)
TakeInterval(r, s) ==
  /\ root[r] # None /\ InMemory(root[r])
  /\ \E i \in 0..root[r].n, n \in MinBytes..root[r].n :
       /\ i + n <= root[r].n
       /\ n = 0 => root[r].kind = "bytes"
       /\ root' = [root EXCEPT ![s] =
                     Memory(root[r].kind, root[r].a, root[r].b, root[r].o + i,
                            SubSeq(root[r].stamps, i + 1, i + n))]
  /\ UNCHANGED <<allocations, trackers, links, made>>

Forget(r) ==
  /\ root[r] # None
  /\ root' = [root EXCEPT ![r] = None]
  /\ UNCHANGED <<allocations, trackers, links, made>>

-----------------------------------------------------------------------------
(* ValidateVisitedPointer, VisitTrackedObject, VisitBacklink: no           *)
(* GOOGLE_CHECK fails in a collection.  Every pointer visited leads into a *)
(* block, before its withdrawn end, and to nothing newer than where it is; *)
(* an allocation index that is renumbered names an allocation that stays.  *)
FindBlock(v) == v.o < Block(v).size
ChecksHold ==
  LET V == Visited
      marked == MarkedAllocations(V) \cup {0}
  IN \A v \in V :
    /\ InMemory(v) => FindBlock(v)
    /\ v.kind = "cells" => v.o + v.n <= Block(v).size
    /\ v.kind = "object" => trackers[v.id].there
    /\ Age(v) \in marked
    /\ \A w \in Inside(v) : Age(w) <= Horizon(v)

(* The program stops where a check fails.                                  *)
CanCollect == ChecksHold

Next ==
  \/ CanCollect /\ (Collect \/ \E r \in Slots : AllocateBytes(r))
  \/ \E r \in Slots :
       \/ TryActivateBytes(r)
       \/ TryExtendBytes(r)
       \/ TryWithdrawBytes(r)
       \/ \E t \in Objects : AddTrackedObject(r, t)
       \/ \E l \in Links : MakeBacklink(r, l)
       \/ \E s \in Slots : TakeInterval(r, s)
       \/ Forget(r)
  \/ \E t \in Objects : AddExternalReference(t) \/ RemoveExternalReference(t)
  \/ \E l \in Links : SetBytes(l)

Spec == Init /\ [][Next]_vars

-----------------------------------------------------------------------------
(* However memory was moved, merged, split and renumbered, every pointer   *)
(* that a collection can visit still leads to the very cells it was made   *)
(* to point at; and an object with external references, which is what it   *)
(* is visited for, was not told that it is not reachable.                  *)
PointersFollow ==
  /\ \A v \in Visited : InMemory(v) => Stamps(v) = v.stamps
  /\ \A t \in Objects : trackers[t].refs > 0 => trackers[t].there /\ ~trackers[t].told

(* A collection leaves nothing behind that is not reachable, so a caller   *)
(* that forgot to visit a pointer finds out at once.                       *)
Cells == UNION {UNION {{<<a, b, o>> : o \in 1..allocations[a].blocks[b].size} :
                         b \in DOMAIN allocations[a].blocks} : a \in DOMAIN allocations}
CellsVisited(V) ==
  {c \in Cells : \E m \in Marks(V, c[1], c[2]) : m.o < c[3] /\ c[3] <= m.o + m.n}
NothingLeft ==
  LET V == Visited
  IN /\ CellsVisited(V) = Cells
     /\ \A t \in Objects : trackers[t].there => Object(t) \in V
=============================================================================
