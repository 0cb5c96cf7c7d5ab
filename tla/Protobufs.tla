------------------------------- MODULE Protobufs -------------------------------
(***************************************************************************)
(* Protocol messages as Evlan values (vm/builtin/protobuf.cc): messages    *)
(* are C++ objects that trackers keep, builders are lists in managed       *)
(* memory that are played back when the message is built.                  *)
(*                                                                         *)
(* Memory is the stack of memory_manager.h: what was allocated last may be *)
(* withdrawn, and is then overwritten by what is allocated next; or the    *)
(* collector takes what no root reaches.  A value remembers what it meant  *)
(* when it was made: nothing in the code reads that.                       *)
(***************************************************************************)
EXTENDS Integers, Sequences, SequencesExt, FiniteSets, FiniteSetsExt

CONSTANTS
  Programs,   \* sets of fields: a program uses those of one of them
  Numbers,    \* the integers that it gives them
  EnumValue,  \* the atom that it gives them, the one value of the enum
  HoldsBuilders, \* whether C++ code holds builders too, or only messages
  MaxCells,   \* bound on the objects in memory
  MaxHeld,    \* bound on the values that running and C++ code keep
  MaxTracked, \* bound on the messages that are tracked at a time
  MaxSets,    \* bound on the assignments in a builder
  None

VARIABLES
  heap,     \* the objects in memory and the tracked messages
  current,  \* the value that was returned last, None when the program stopped
  frames,   \* the cells in which running code keeps values
  handles,  \* the values that C++ code holds as KeepAliveValues
  fields    \* the fields that the program uses

vars == <<heap, current, frames, handles, fields>>

-----------------------------------------------------------------------------
(* Descriptors.  M has a field of each kind, the enum as an extension, x;  *)
(* its field s is a message of type S.                                     *)
FieldsOf(type) == IF type = "M" THEN {"d", "r", "s"} ELSE {"n"}
ExtensionsOf(type) == IF type = "M" THEN {"x"} ELSE {}
IsRepeated(f) == f = "r"
CppType(f) == CASE f \in {"n", "r"} -> "int"
                [] f = "d" -> "double"
                [] f = "x" -> "enum"
                [] f = "s" -> "message"

Blank(type) ==
  [f \in FieldsOf(type) \cup ExtensionsOf(type) |-> IF IsRepeated(f) THEN <<>> ELSE None]

(* Values.  "at" is the cell, or the tracked message, that data_ points    *)
(* to, or the data itself.                                                 *)
Read(x, meant) == [kind |-> IF x = EnumValue THEN "atom" ELSE "int", at |-> x, meant |-> [value |-> meant]]
Literal(x) == Read(x, x)
Literals == Numbers \cup {EnumValue}
Error == [kind |-> "error", at |-> 0, meant |-> None]
ValueAt(kind, at, meant) == [kind |-> kind, at |-> at, meant |-> meant]

-----------------------------------------------------------------------------
(* What values mean.  A builder is what was set in it, in the order of the *)
(* calls; a message holds, of each field, what was set last, all that was  *)
(* added, or for a message all that was set in any of its builders.        *)
Given(sets, f) == LET given == SelectSeq(sets, LAMBDA a : a.field = f)
                  IN [i \in DOMAIN given |-> given[i].value]

RECURSIVE Meant(_, _)
Meant(type, sets) ==
  [f \in DOMAIN Blank(type) |->
     CASE IsRepeated(f) -> [i \in DOMAIN Given(sets, f) |-> Given(sets, f)[i].value]
       [] Given(sets, f) = <<>> -> None
       [] CppType(f) = "message" ->
            Meant("S", FlattenSeq([i \in DOMAIN Given(sets, f) |-> Given(sets, f)[i].sets]))
       [] OTHER -> Last(Given(sets, f)).value]

(* The file has type M and the extension; S is nested in M.                *)
MembersOf(scope) == CASE scope = "file" -> {"M", "x"}
                      [] scope = "M" -> {"S"}
                      [] OTHER -> {}
TypeNames == {"M", "S"}

(* Whether a value may be given to a field at all.                         *)
IsBuilderOf(v, type) == v.kind = "builder" /\ v.meant.type = type
Fits(f, v) == CASE CppType(f) \in {"int", "double"} -> v.kind = "int"
                [] CppType(f) = "enum" -> v.kind = "atom"
                [] CppType(f) = "message" -> IsBuilderOf(v, "S")

-----------------------------------------------------------------------------
(* Memory: a stack of cells, and the tracked messages.                     *)
Cell(c) == <<"cell", c>>
TrackedCell(t) == <<"tracked", t>>

Freed == [kind |-> "freed"]
Gone == [there |-> FALSE, type |-> None, content |-> None, owner |-> 0, parent |-> 0]

Empty == [cells |-> <<>>, tracked |-> [t \in 1..MaxTracked |-> Gone]]

Target(v) == CASE v.kind \in {"builder", "fieldBuilder", "repeated", "file", "type", "extension"} ->
                    {Cell(v.at)}
               [] v.kind = "message" -> {TrackedCell(v.at)}
               [] OTHER -> {}

(* Accept of TrackedMessage, RepeatedFieldData, AssignmentList,            *)
(* BuilderData and FieldBuilderData.                                       *)
(* Mutant: what points into a message does not keep the message.           *)
AcceptTracked_Parentless(h, t) == {}
AcceptTracked(h, t) == IF h.tracked[t].parent = 0 THEN {} ELSE {TrackedCell(h.tracked[t].parent)}
ListCell(list) == IF list = 0 THEN {} ELSE {Cell(list)}
AcceptCell(cell) ==
  CASE cell.kind = "builder" -> {TrackedCell(cell.instance)} \cup ListCell(cell.list)
    [] cell.kind = "assignment" -> Target(cell.value) \cup ListCell(cell.rest)
    [] cell.kind = "fieldBuilder" -> {Cell(cell.builder)}
    [] cell.kind = "repeated" -> {TrackedCell(cell.message)}
    [] cell.kind = "frame" -> Target(cell.value)
    [] cell.kind \in {"type", "extension"} -> {Cell(cell.file)}
    [] OTHER -> {}
Accept(h, node) ==
  IF node[1] = "tracked" THEN AcceptTracked(h, node[2])
  ELSE IF node[2] > Len(h.cells) THEN {} ELSE AcceptCell(h.cells[node[2]])

RECURSIVE Reached(_, _)
Reached(h, nodes) ==
  LET next == nodes \cup UNION {Accept(h, node) : node \in nodes}
  IN IF next = nodes THEN nodes ELSE Reached(h, next)

Trim(cells) == SubSeq(cells, 1, Max({0} \cup {c \in DOMAIN cells : cells[c].kind # "freed"}))

(* A collection frees what the roots do not reach; NotReachable deletes a  *)
(* TrackedMessage, and with it the message that it owns.                   *)
Sweep(h, reached) ==
  [cells |-> Trim([c \in DOMAIN h.cells |-> IF Cell(c) \in reached THEN h.cells[c] ELSE Freed]),
   tracked |-> [t \in DOMAIN h.tracked |-> IF TrackedCell(t) \in reached THEN h.tracked[t] ELSE Gone]]

(* AllocateBytes, which may collect first.                                 *)
Top(h) == Len(h.cells)
Place(h, cell) == [h EXCEPT !.cells = Append(@, cell)]
Allocate(h, roots, cell) == {Place(g, cell) : g \in {h, Sweep(h, Reached(h, roots))}}

CanWithdraw(h, c) == c = Top(h)
TryWithdraw(h, c) ==
  IF CanWithdraw(h, c) THEN [h EXCEPT !.cells = Trim(SubSeq(@, 1, c - 1))] ELSE h

(* AddTrackedObject.                                                       *)
FreeTrackers(h) == {t \in DOMAIN h.tracked : ~h.tracked[t].there}
Track(h, t, message) == [h EXCEPT !.tracked[t] = message]
Message(type, content, owner, parent) ==
  [there |-> TRUE, type |-> type, content |-> content, owner |-> owner, parent |-> parent]

MessageAlive(h, t) == /\ h.tracked[t].there
                      /\ h.tracked[t].owner # 0 => h.tracked[h.tracked[t].owner].there

-----------------------------------------------------------------------------
(* What running code and C++ code reach, besides what a call is given.     *)
Kept == {heap.cells[c].value : c \in frames}
ProgramRoots == {Cell(c) : c \in frames} \cup UNION {Target(v) : v \in handles}
ContextRoots == ProgramRoots \cup Target(current)
Usable == Kept \cup handles \cup {current}
UsableAs(kind) == {v \in Usable : v.kind = kind}

(* A parameter beside a function that only the context holds comes from    *)
(* elsewhere: it was computed before the function.                         *)
Parameters(function) ==
  (IF function \in Kept \cup handles THEN Usable ELSE Kept \cup handles)
    \cup {Literal(x) : x \in Literals}

Stopped == [kind |-> "stopped", at |-> 0, meant |-> None]
Running == current.kind # "stopped"

Return(h, v) == /\ Running
                /\ heap' = h
                /\ current' = v
                /\ UNCHANGED <<frames, handles, fields>>
Fail == Return(heap, Error)

(* The tracked message that a step makes goes to the first free place.     *)
NewTracker == Min(FreeTrackers(heap))
CanTrack == FreeTrackers(heap) # {}

Init == /\ heap = Empty
        /\ current = Error
        /\ frames = {}
        /\ handles = {}
        /\ fields \in Programs

-----------------------------------------------------------------------------
(* MakeFile, which C++ code calls; and ProtoFileLogic::Run and             *)
(* MessageTypeLogic::Run, which find a member.  Each keeps the file.       *)
MakeFile == \E h \in Allocate(heap, ProgramRoots, [kind |-> "file"]) :
              Return(h, ValueAt("file", Top(h), [scope |-> "file"]))

ScopeOf(v) == IF v.kind = "file" THEN "file" ELSE heap.cells[v.at].name
FileOf(v) == IF v.kind = "file" THEN v.at ELSE heap.cells[v.at].file
KindOf(name) == IF name \in TypeNames THEN "type" ELSE "extension"
GetMember(v, name) ==
  IF name \notin MembersOf(ScopeOf(v)) THEN Fail
  ELSE \E h \in Allocate(heap, Target(v) \cup ProgramRoots,
                         [kind |-> KindOf(name), file |-> FileOf(v), name |-> name]) :
         Return(h, ValueAt(KindOf(name), Top(h), [scope |-> name]))

(* GetDefaultInstanceAsTrackedMessage: the prototype belongs to the factory*)
(* and is never deleted.                                                   *)
TrackDefault(type) == Track(heap, NewTracker, Message(type, Blank(type), 0, 0))

DefaultInstance(type) ==
  /\ CanTrack
  /\ Return(TrackDefault(type),
            ValueAt("message", NewTracker, [type |-> type, content |-> Blank(type)]))

Builder(type) ==
  /\ CanTrack
  /\ \E h \in Allocate(TrackDefault(type), {TrackedCell(NewTracker)} \cup ProgramRoots,
                       [kind |-> "builder", instance |-> NewTracker, list |-> 0]) :
       Return(h, ValueAt("builder", Top(h), [type |-> type, sets |-> <<>>]))

(* BuilderLogic::Run: builder.f is a function that sets f.                 *)
TypeOf(b) == heap.tracked[heap.cells[b.at].instance].type
GetFieldBuilder(b, f) ==
  IF f \notin FieldsOf(TypeOf(b)) THEN Fail
  ELSE \E h \in Allocate(heap, Target(b) \cup ProgramRoots,
                         [kind |-> "fieldBuilder", builder |-> b.at, field |-> f]) :
         Return(h, ValueAt("fieldBuilder", Top(h), [builder |-> b.meant, field |-> f]))

(* SetField: the old builder is given up, if it is what was allocated      *)
(* last; the new one has the assignment in front of the old list.          *)
SetField(b, meant, withdrawn, f, v) ==
  LET builder == heap.cells[b]
      assignment == [kind |-> "assignment", field |-> f, value |-> v, rest |-> builder.list]
      roots == {TrackedCell(builder.instance)} \cup Target(v) \cup ProgramRoots
      sets == Append(meant.sets, [field |-> f, value |-> v.meant])
  IN /\ Len(meant.sets) < MaxSets
     /\ \E g \in Allocate(TryWithdraw(withdrawn, b), roots \cup ListCell(builder.list), assignment) :
        \E h \in Allocate(g, roots \cup {Cell(Top(g))},
                          [kind |-> "builder", instance |-> builder.instance, list |-> Top(g)]) :
          Return(h, ValueAt("builder", Top(h), [meant EXCEPT !.sets = sets]))

(* FieldBuilderLogic::Run, and setExtension, to which any builder and any  *)
(* identifier may be given.                                                *)
RunFieldBuilder(fb, v) ==
  SetField(heap.cells[fb.at].builder, fb.meant.builder, TryWithdraw(heap, fb.at),
           heap.cells[fb.at].field, v)
SetExtension(b, x, v) == IF x \in ExtensionsOf(TypeOf(b))
                           THEN SetField(b.at, b.meant, heap, x, v) ELSE Fail

(* ApplyAssignmentList: the list is played back from its end, the first    *)
(* thing set.  A double that is given anything but a number returns an     *)
(* error and goes on; the second return that follows stops the program     *)
(* (GOOGLE_DCHECK in SetNext).                                             *)
RECURSIVE ApplyAssignmentList(_, _)
Assigned(m, f, x) ==
  [m EXCEPT !.content[f] = IF IsRepeated(f) THEN Append(@, x) ELSE x]
SetSubmessage(m, f, sub) ==
  IF sub.outcome = "built" THEN Assigned(m, f, sub.content) ELSE [m EXCEPT !.outcome = sub.outcome]
MutableMessage(m, f) ==
  [content |-> IF m.content[f] = None THEN Blank("S") ELSE m.content[f], outcome |-> "built"]
ListOf(v) == heap.cells[v.at].list
AssignTo(m, f, v) ==
  CASE m.outcome # "built" -> m
    [] CppType(f) = "double" /\ ~Fits(f, v) -> [m EXCEPT !.outcome = "stopped"]
    [] CppType(f) # "double" /\ ~Fits(f, v) -> [m EXCEPT !.outcome = "error"]
    [] CppType(f) = "message" /\ Fits(f, v) ->
         SetSubmessage(m, f, ApplyAssignmentList(ListOf(v), MutableMessage(m, f)))
    [] OTHER -> Assigned(m, f, v.at)
(* Mutant: the list is played from its beginning.                          *)
ApplyAssignmentList_Forward(list, m) ==
  IF list = 0 THEN m
  ELSE ApplyAssignmentList(heap.cells[list].rest,
                           AssignTo(m, heap.cells[list].field, heap.cells[list].value))
ApplyAssignmentList(list, m) ==
  IF list = 0 THEN m
  ELSE AssignTo(ApplyAssignmentList(heap.cells[list].rest, m),
                heap.cells[list].field, heap.cells[list].value)

(* WithdrawBuilderData: the builder, its list while that can be given up,  *)
(* and then the builders in the list, the first one first.  It reads what  *)
(* it has withdrawn: nothing is allocated meanwhile.                       *)
RECURSIVE WithdrawList(_, _, _), WithdrawBuilderData(_, _)
WithdrawList(h, list, builders) ==
  IF list = 0 THEN FoldLeft(WithdrawBuilderData, h, builders)
  ELSE IF ~CanWithdraw(h, list) THEN h
  ELSE WithdrawList(TryWithdraw(h, list), heap.cells[list].rest,
                    IF heap.cells[list].value.kind = "builder"
                      THEN <<heap.cells[list].value.at>> \o builders ELSE builders)
WithdrawBuilderData(h, b) == WithdrawList(TryWithdraw(h, b), heap.cells[b].list, <<>>)

Build(b) ==
  LET built == ApplyAssignmentList(ListOf(b), [content |-> Blank(TypeOf(b)), outcome |-> "built"])
      message == Message(TypeOf(b), built.content, NewTracker, 0)
  IN CASE built.outcome = "error" -> Fail
       [] built.outcome = "stopped" -> Return(heap, Stopped)
       [] OTHER -> /\ CanTrack
                   /\ Return(Track(WithdrawBuilderData(heap, b.at), NewTracker, message),
                             ValueAt("message", NewTracker,
                                     [type |-> b.meant.type,
                                      content |-> Meant(b.meant.type, b.meant.sets)]))

-----------------------------------------------------------------------------
(* Messages that C++ code makes, and reading messages.                     *)
Sample == [Blank("M") EXCEPT !.r = <<1>>, !.s = [Blank("S") EXCEPT !.n = 1]]

(* AdoptMessage, WrapMessage.                                              *)
NewMessage(adopt) ==
  /\ CanTrack
  /\ Return(Track(heap, NewTracker, Message("M", Sample, IF adopt THEN NewTracker ELSE 0, 0)),
            ValueAt("message", NewTracker, [type |-> "M", content |-> Sample]))

(* TrackedMessage of a message inside another: it keeps the outermost one. *)
ParentOf(t) == IF heap.tracked[t].parent = 0 THEN t ELSE heap.tracked[t].parent
ReturnSubmessage(t, content, meant) ==
  /\ CanTrack
  /\ Return(Track(heap, NewTracker, Message("S", content, heap.tracked[t].owner, ParentOf(t))),
            ValueAt("message", NewTracker, [type |-> "S", content |-> meant]))

(* ReturnFieldValue.  A field that is not set has its default.             *)
DefaultOf(f) == CASE CppType(f) = "message" -> Blank("S")
                  [] CppType(f) = "enum" -> EnumValue
                  [] OTHER -> 0
OrDefault(x, f) == IF x = None THEN DefaultOf(f) ELSE x
ReturnFieldValue(t, f, x, meant) ==
  IF CppType(f) = "message" THEN ReturnSubmessage(t, OrDefault(x, f), OrDefault(meant, f))
  ELSE Return(heap, Read(OrDefault(x, f), OrDefault(meant, f)))

ReturnField(m, f) ==
  IF IsRepeated(f)
    THEN \E h \in Allocate(heap, Target(m) \cup ProgramRoots,
                           [kind |-> "repeated", message |-> m.at, field |-> f]) :
           Return(h, ValueAt("repeated", Top(h), [elements |-> m.meant.content[f]]))
    ELSE ReturnFieldValue(m.at, f, heap.tracked[m.at].content[f], m.meant.content[f])

(* MessageLogic::Run, and extension().                                     *)
TypeOfMessage(m) == heap.tracked[m.at].type
GetField(m, f) == IF f \in FieldsOf(TypeOfMessage(m)) THEN ReturnField(m, f) ELSE Fail
GetExtension(m, x) == IF x \in ExtensionsOf(TypeOfMessage(m)) THEN ReturnField(m, x) ELSE Fail

(* has(), hasExtension().                                                  *)
Flag(set) == IF set THEN 1 ELSE 0
HasField(m, f) ==
  IF f \notin DOMAIN heap.tracked[m.at].content \/ IsRepeated(f) THEN Fail
  ELSE Return(heap, ValueAt("boolean", Flag(heap.tracked[m.at].content[f] # None),
                            [value |-> Flag(m.meant.content[f] # None)]))

(* repeatedSize, repeatedElement.                                          *)
Elements(r) == LET cell == heap.cells[r.at] IN heap.tracked[cell.message].content[cell.field]
GetSize(r) == Return(heap, Read(Len(Elements(r)), Len(r.meant.elements)))
GetElement(r, i) == IF i < 0 \/ i >= Len(Elements(r)) THEN Fail
                    ELSE ReturnFieldValue(heap.cells[r.at].message, heap.cells[r.at].field,
                                          Elements(r)[i + 1], r.meant.elements[i + 1])

-----------------------------------------------------------------------------
(* Running code keeps a value in a frame that it allocates after it, and   *)
(* gives frames up; C++ code keeps a value alive without one.              *)
CanHold == Cardinality(frames) + Cardinality(handles) < MaxHeld /\ Target(current) # {}
Keep == /\ CanHold
        /\ \E h \in Allocate(heap, ContextRoots, [kind |-> "frame", value |-> current]) :
             /\ heap' = h
             /\ frames' = frames \cup {Top(h)}
        /\ UNCHANGED <<current, handles, fields>>

Forget(c) == /\ frames' = frames \ {c}
             /\ heap' = TryWithdraw(heap, c)
             /\ UNCHANGED <<current, handles, fields>>

KeepAlive == /\ CanHold
             /\ HoldsBuilders \/ current.kind = "message"
             /\ handles' = handles \cup {current}
             /\ UNCHANGED <<heap, current, frames, fields>>

Release(v) == /\ handles' = handles \ {v}
              /\ UNCHANGED <<heap, current, frames, fields>>

(* Any other code may allocate, and so collect.                            *)
Collect == /\ Running
           /\ heap' = Sweep(heap, Reached(heap, ContextRoots))
           /\ UNCHANGED <<current, frames, handles, fields>>

(* To keep the instance small, a program that looks for types makes no     *)
(* messages.                                                               *)
LooksForTypes == fields \cap TypeNames # {}

Next ==
  \/ /\ LooksForTypes
     /\ \/ MakeFile
        \/ \E v \in UsableAs("file") \cup UsableAs("type"), name \in fields : GetMember(v, name)
  \/ /\ ~LooksForTypes
     /\ \/ \E type \in TypeNames : DefaultInstance(type) \/ Builder(type)
        \/ \E adopt \in BOOLEAN : NewMessage(adopt)
  \/ \E b \in UsableAs("builder") :
       \/ Build(b)
       \/ \E f \in fields : GetFieldBuilder(b, f)
       \/ \E x \in fields \cap {"x"} : \E v \in Parameters(b) : SetExtension(b, x, v)
  \/ \E fb \in UsableAs("fieldBuilder") : \E v \in Parameters(fb) : RunFieldBuilder(fb, v)
  \/ \E m \in UsableAs("message"), f \in fields :
       GetField(m, f) \/ HasField(m, f) \/ GetExtension(m, f)
  \/ \E r \in UsableAs("repeated") : GetSize(r) \/ \E i \in -1..2 : GetElement(r, i)
  \/ Keep \/ KeepAlive \/ Collect
  \/ \E c \in frames : Forget(c)
  \/ \E v \in handles : Release(v)

Bounded == Top(heap') <= MaxCells

Spec == Init /\ [][Next /\ Bounded]_vars

-----------------------------------------------------------------------------
(* A value can be read, and reads as what it meant when it was made.       *)
RECURSIVE Intact(_), ListIntact(_, _)
Readable(c, kind) == c \in 1..Top(heap) /\ heap.cells[c].kind = kind
ListIntact(list, sets) ==
  IF list = 0 THEN sets = <<>>
  ELSE /\ Readable(list, "assignment")
       /\ sets # <<>>
       /\ heap.cells[list].field = Last(sets).field
       /\ heap.cells[list].value.meant = Last(sets).value
       /\ Intact(heap.cells[list].value)
       /\ ListIntact(heap.cells[list].rest, Front(sets))
Intact(v) ==
  CASE v.kind = "message" -> /\ MessageAlive(heap, v.at)
                             /\ heap.tracked[v.at].type = v.meant.type
                             /\ heap.tracked[v.at].content = v.meant.content
    [] v.kind = "builder" -> /\ Readable(v.at, "builder")
                             /\ MessageAlive(heap, heap.cells[v.at].instance)
                             /\ TypeOf(v) = v.meant.type
                             /\ ListIntact(heap.cells[v.at].list, v.meant.sets)
    [] v.kind = "fieldBuilder" ->
         /\ Readable(v.at, "fieldBuilder")
         /\ heap.cells[v.at].field = v.meant.field
         /\ Intact(ValueAt("builder", heap.cells[v.at].builder, v.meant.builder))
    [] v.kind = "repeated" -> /\ Readable(v.at, "repeated")
                              /\ MessageAlive(heap, heap.cells[v.at].message)
                              /\ Elements(v) = v.meant.elements
    [] v.kind = "file" -> Readable(v.at, "file")
    [] v.kind \in {"type", "extension"} -> /\ Readable(v.at, v.kind)
                                           /\ ScopeOf(v) = v.meant.scope
                                           /\ Readable(FileOf(v), "file")
    [] v.kind \in {"int", "atom", "boolean"} -> v.at = v.meant.value
    [] OTHER -> TRUE

(* protobuf.h: a builder has no side effects, a message holds what the     *)
(* chain of calls set.  Whatever else is built, read, given up and         *)
(* collected meanwhile, each value that the program still has is what it   *)
(* was, and what it reads from one is what was set: builders that share    *)
(* their lists do not disturb each other, and what points into a message   *)
(* keeps the message.                                                      *)
MessagesKeepMeaning == \A v \in Usable : Intact(v)

(* runtime.h says that a KeepAliveValue is "An object which protects a     *)
(* Value from garbage collection even if there are no tracked pointers     *)
(* pointing at it": what C++ code holds stays what it was.                 *)
HandlesKeepMeaning == \A v \in handles : Intact(v)
=============================================================================
