------------------------------- MODULE Marshalling -----------------------------
(***************************************************************************)
(* ValuePusher, MarshallingSession and Marshaller (marshaller.cc), with    *)
(* the Marshal methods of the values: the sending end of an exchange.      *)
(***************************************************************************)
EXTENDS Values

VARIABLES
  pusher,      \* the session
  registered   \* values the sender's registry was told to keep: by id

(* The kinds of values in a message, in the order of their final indices.  *)
(* Integers, doubles and byte strings, which hold nothing either, go the   *)
(* way of atoms.                                                           *)
Types == <<"atom_value", "function_value", "function_call",
           "sequence_value", "remote_value", "other_value_id">>
Composites == {"function_value", "function_call", "sequence_value"}
NoValues == [t \in ToSet(Types) \cup {"server_address"} |-> <<>>]

FreshPusher ==
  [state      |-> "STARTED",
   output     |-> NoValues,
   valueMap   |-> <<>>,      \* value_map_: value to provisional index
   trackers   |-> <<>>,      \* trackers_
   newStart   |-> 0,         \* new_trackers_start_
   remembered |-> <<>>,      \* remembered_ids_: id to its last tracker
   idsMade    |-> 0]         \* the IdGenerator's counter

Set(f, x, y) == [z \in DOMAIN f \cup {x} |-> IF z = x THEN y ELSE f[z]]

-----------------------------------------------------------------------------
(* Provisional indices, and the steps of the walk: each returns the        *)
(* session and the index of the value.                                     *)
kInvalidIndex == [type |-> "invalid", offset |-> 0]
MakeProvisionalIndex(s, type) == [type |-> type, offset |-> Len(s.output[type])]

Returns(s, index) == [s |-> s, index |-> index]

Add(s, type, item) ==
  Returns([s EXCEPT !.output[type] = Append(@, item)], MakeProvisionalIndex(s, type))

RecordForDupElimination(r, v) ==
  Returns([r.s EXCEPT !.valueMap = Set(@, v, r.index)], r.index)

GetId(s, v, known) ==
  LET id == IdAt(v, s.idsMade + 1) IN
  IF known # NoId THEN [s |-> s, id |-> known]
  ELSE [s |-> IF IsUnique(id) THEN [s EXCEPT !.idsMade = @ + 1] ELSE s, id |-> id]

(* Mutant: what is remembered at all is good enough.                       *)
Suffices_Any(s, t, persistence) == t \in DOMAIN s.trackers

(* A tracker made in this pass is not tracked yet and can be made          *)
(* persistent; one made before is superseded.                              *)
Suffices(s, t, persistence) ==
  persistence = "TRANSIENT" \/ s.trackers[t].persistence = "PERSISTENT"

RememberValue(s, id, v, persistence) ==
  LET known == id \in DOMAIN s.remembered
      t == s.remembered[id]
  IN IF known /\ Suffices(s, t, persistence) THEN s
     ELSE IF known /\ t > s.newStart
       THEN [s EXCEPT !.trackers[t].persistence = "PERSISTENT"]
       ELSE [s EXCEPT !.trackers = Append(@, [id |-> id, value |-> v,
                                              persistence |-> persistence]),
                      !.remembered = Set(@, id, Len(s.trackers) + 1)]

(* Mutant: the value behind the id is not kept.                            *)
AddOtherValueId_Forgotten(s, id, v) ==
  RecordForDupElimination(Add(s, "other_value_id", id), v)

AddOtherValueId(s, id, v) ==
  LET r == RecordForDupElimination(Add(s, "other_value_id", id), v)
  IN Returns(RememberValue(r.s, id, v, "TRANSIENT"), r.index)

TryAvoidMarshalling(s, id, v, hint, required) ==
  IF v \in DOMAIN s.valueMap
    THEN Returns(s, IF required /\ s.valueMap[v].type = "other_value_id"
                      THEN kInvalidIndex ELSE s.valueMap[v])
  ELSE IF hint = "ELIMINATE_DUPS" \/ required THEN Returns(s, kInvalidIndex)
  ELSE AddOtherValueId(s, id, v)

-----------------------------------------------------------------------------
(* A stub, for a value here or on the third machine; each address is       *)
(* listed once.                                                            *)
AddStub(s, id, remote_id, address) ==
  LET list == s.output["server_address"]
      at == IF address \in ToSet(list) THEN list
                                       ELSE Append(list, address)
  IN Add([s EXCEPT !.output["server_address"] = at], "remote_value",
         [id |-> id, remote_id |-> remote_id,
          address |-> (CHOOSE i \in DOMAIN at : at[i] = address) - 1])

AddRemoteValue(s, v) == AddStub(s, NoId, Content(v), "third machine")

AddRetainedValue(s, id, v) ==
  LET r == AddStub(s, id, id, "sender")
  IN Returns(RememberValue(r.s, id, v, "PERSISTENT"), r.index)

AddReceiverOwnedValue(s, id) ==
  Returns(Add(s, "other_value_id", id).s,
          [type |-> "other_value_id", offset |-> Len(s.output["remote_value"])])

RECURSIVE AddValue(_, _, _, _)

AddValues(r, vs) ==
  FoldLeft(LAMBDA x, v : LET a == AddValue(x.s, v, FALSE, NoId)
                         IN [s |-> a.s, refs |-> Append(x.refs, a.index)], r, vs)

(* Mutant: the index is taken when the parts are there.                    *)
Slot_Late(before, after, type) ==
  [type |-> type, offset |-> Len(after.output[type]) - 1]

(* AddFunction, AddChildFunction, AddFunctionCall, AddSequence: the value  *)
(* takes its place before its parts, which may be of the same type, take   *)
(* theirs.                                                                 *)
Slot(before, after, type) == MakeProvisionalIndex(before, type)

AddComposite(s, type, item, parts) ==
  LET place == Add(s, type, item)
      all == AddValues([s |-> place.s, refs |-> <<>>], parts)
      at == MakeProvisionalIndex(s, type).offset + 1
  IN Returns([all.s EXCEPT !.output[type][at].refs = all.refs], Slot(s, all.s, type))

(* Logic::Marshal of the values that hold values.                          *)
HasId(v) == KindOf(v) \in {"function", "table"}

AddWhole(s, v, id) ==
  LET item == [id |-> id, refs |-> <<>>, parent |-> KindOf(v) = "inner"] IN
  CASE KindOf(v) \in {"function", "inner"} ->
         AddComposite(s, "function_value", item, Parts(v))
    [] KindOf(v) = "table" ->
         AddComposite(s, "function_call", item, <<BuildAtomTable>> \o Parts(v))
    [] KindOf(v) = "array" ->
         AddComposite(s, "sequence_value", item, Parts(v))

MarshalComposite(s, v, required, known) ==
  LET i == IF HasId(v) THEN GetId(s, v, known) ELSE [s |-> s, id |-> NoId]
      avoided == TryAvoidMarshalling(i.s, i.id, v,
                   IF HasId(v) THEN "DONT_MARSHAL_UNLESS_REQUIRED"
                               ELSE "ELIMINATE_DUPS", required)
  IN IF avoided.index # kInvalidIndex THEN avoided
     ELSE RecordForDupElimination(AddWhole(avoided.s, v, i.id), v)

(* What has no Marshal of its own is retained, once it is asked for.       *)
Retain(s, v, required, known) ==
  LET i == GetId(s, v, known)
      avoided == TryAvoidMarshalling(i.s, i.id, v,
                   "DONT_MARSHAL_UNLESS_REQUIRED", required)
  IN IF avoided.index # kInvalidIndex THEN avoided
     ELSE RecordForDupElimination(AddRetainedValue(avoided.s, i.id, v), v)

AddValue(s, v, required, known) ==
  CASE KindOf(v) = "atom" -> Add(s, "atom_value", v)
    [] KindOf(v) = "remote" -> RecordForDupElimination(AddRemoteValue(s, v), v)
    [] KindOf(v) \in {"builtin", "opaque"} -> Retain(s, v, required, known)
    [] OTHER -> MarshalComposite(s, v, required, known)

-----------------------------------------------------------------------------
(* Finalize registers what became persistent and turns provisional indices *)
(* into final ones.                                                        *)
NewlyPersistent(s) ==
  {i \in s.newStart + 1..Len(s.trackers) : s.trackers[i].persistence = "PERSISTENT"}

Registered(s) ==
  FoldLeft(LAMBDA f, i : Set(f, s.trackers[i].id, s.trackers[i].value),
           registered, SetToSeq(NewlyPersistent(s)))

OffsetOf(s, type) ==
  LET before == SelectInSeq(Types, LAMBDA t : t = type) - 1
  IN FoldLeft(LAMBDA n, t : n + Len(s.output[t]), 0, SubSeq(Types, 1, before))

ToFinalIndex(s, index) == OffsetOf(s, index.type) + index.offset

FinalValues(s) ==
  LET final(item) == [item EXCEPT !.refs = [i \in DOMAIN @ |-> ToFinalIndex(s, @[i])]]
  IN [t \in DOMAIN s.output |->
        IF t \in Composites
          THEN [i \in DOMAIN s.output[t] |-> final(s.output[t][i])]
          ELSE s.output[t]]

Finalize(s) == /\ registered' = Registered(s)
               /\ pusher' = [s EXCEPT !.output = NoValues, !.valueMap = <<>>,
                                      !.newStart = Len(s.trackers)]

-----------------------------------------------------------------------------
SendInitialValue(s, v) ==
  AddValue([s EXCEPT !.state = "SENT_INITIAL_VALUE"], v, FALSE, NoId)

(* The function to call is on the receiver.                                *)
SendFunctionCall(s, function_id, v) ==
  LET place == Add([s EXCEPT !.state = "SENT_INITIAL_VALUE"], "function_call",
                   [id |-> NoId, refs |-> <<>>, parent |-> FALSE])
      f == AddReceiverOwnedValue(place.s, function_id)
      all == AddValues([s |-> f.s, refs |-> <<f.index>>], <<v>>)
  IN Returns([all.s EXCEPT !.output["function_call"][1].refs = all.refs], place.index)

(* Mutant: a value that was asked for may be avoided again.                *)
MarshalRememberedValue_Optional(s, id) ==
  IF id \notin DOMAIN s.remembered THEN Returns(s, kInvalidIndex)
  ELSE AddValue(s, s.trackers[s.remembered[id]].value, FALSE, id)

MarshalRememberedValue(s, id) ==
  IF id \notin DOMAIN s.remembered THEN Returns(s, kInvalidIndex)
  ELSE AddValue(s, s.trackers[s.remembered[id]].value, TRUE, id)

(* RespondToPull stops at the first id that is not remembered.             *)
RespondToPull(s, ids) ==
  FoldLeft(LAMBDA r, id : IF r.index = kInvalidIndex THEN r
                          ELSE MarshalRememberedValue(r.s, id),
           Returns(s, [type |-> "none", offset |-> 0]), ids)
=============================================================================
