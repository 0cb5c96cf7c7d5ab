------------------------------ MODULE Unmarshalling ----------------------------
(***************************************************************************)
(* ValuePuller and UnmarshallingSession (unmarshaller.cc): the receiving   *)
(* end of an exchange.  Overall indices count from zero through all the    *)
(* messages, as in the code; sequences here count from one.                *)
(***************************************************************************)
EXTENDS Marshalling

VARIABLE puller

NoRequest == -1

FreshPuller ==
  [state      |-> "STARTED",
   sets       |-> <<>>,        \* value_sets_
   idMap      |-> <<>>,        \* value_id_map_: id to overall index
   missing    |-> {},          \* missing_values_ of the session
   found      |-> {},          \* registered_values_
   requests   |-> 0,           \* next_request_id_
   completed  |-> 0,           \* completed_request_id_count_
   final      |-> NoRequest,   \* final_result_index_
   order      |-> <<>>,        \* topological_to_original_
   errors     |-> 0,           \* validation_errors_
   values     |-> <<>>,        \* final_values_topological_
   awaits     |-> "nothing"]   \* what the queued callback brings

-----------------------------------------------------------------------------
(* SetupValueLocations: where each overall index is.                       *)
LocationsIn(m, set) ==
  FlattenSeq([t \in 1..Len(Types) |->
    [i \in DOMAIN m[Types[t]] |-> [set |-> set, type |-> Types[t],
                                   item |-> m[Types[t]][i]]]])

Locations(p) == FlattenSeq([i \in DOMAIN p.sets |-> LocationsIn(p.sets[i], i)])

GetValueCount(p) == Len(Locations(p))
Offset(p, set) == GetValueCount([p EXCEPT !.sets = SubSeq(@, 1, set - 1)])

HasItemId(l) == l.type \in Composites \cup {"remote_value"} /\ l.item.id # NoId

(* AddValues: AddToValueMap of each type, then a look into the registry    *)
(* for every id that is new.  inRegistry are those it finds there.         *)
IdsAdded(p, m) ==
  LET base == GetValueCount(p)
      locations == LocationsIn(m, 0)
  IN FoldLeft(LAMBDA f, i : IF HasItemId(locations[i])
                              THEN Set(f, locations[i].item.id, base + i - 1) ELSE f,
              p.idMap, [i \in DOMAIN locations |-> i])

Unknown(p, m) ==
  ToSet(m["other_value_id"])
    \ (DOMAIN IdsAdded(p, m) \cup p.missing \cup p.found)

ReceiveValues(p, m, inRegistry) ==
  LET ids == IdsAdded(p, m)
  IN [p EXCEPT !.sets = Append(@, m),
               !.idMap = ids,
               !.found = @ \cup inRegistry,
               !.missing = (@ \ DOMAIN ids) \cup (Unknown(p, m) \ inRegistry)]

(* The ids to ask for, in the order in which they were met.                *)
Requested(p, m, inRegistry) ==
  FoldLeft(LAMBDA ids, id : IF id \in Unknown(p, m) \ inRegistry /\ ~Contains(ids, id)
                              THEN Append(ids, id) ELSE ids,
           <<>>, m["other_value_id"])

(* ReceivePush: what it returns, and the session it leaves.                *)
WithFinal(p, message) ==
  LET q == [p EXCEPT !.completed = @ + Len(message.completed)]
  IN IF message.final = NoRequest THEN q
     ELSE [q EXCEPT !.final = GetValueCount(p) + message.final]

Fail(p) == [status |-> "ERROR", p |-> [p EXCEPT !.state = "FAILED"]]

PushReceived(p, message, inRegistry) ==
  LET q == ReceiveValues(WithFinal(p, message), message.values, inRegistry)
  IN IF message.final # NoRequest /\ p.final # NoRequest THEN Fail(p)
     ELSE IF q.missing = {}
       THEN IF q.final = NoRequest THEN Fail(q)
            ELSE [status |-> "READY", p |-> [q EXCEPT !.state = "READY_TO_UNMARSHAL"]]
     ELSE IF Requested(p, message.values, inRegistry) = <<>>
       THEN IF q.completed < q.requests THEN [status |-> "WAITING", p |-> q]
            ELSE Fail(q)
     ELSE [status |-> "PULL", p |-> [q EXCEPT !.requests = @ + 1]]

-----------------------------------------------------------------------------
(* CreateTopologicalOrdering.  A visit is the order made so far, the       *)
(* values in progress, and the errors met.                                 *)
ValidateIndex(p, set, index) == Offset(p, set) + index < Offset(p, set + 1)

(* What a value refers to in its own message; a parent is ordered before   *)
(* the environment.                                                        *)
Relative(l) ==
  LET refs == l.item.refs
  IN IF l.type \notin Composites THEN <<>>
     ELSE IF l.type = "function_value" /\ l.item.parent
       THEN <<Last(refs)>> \o Front(refs) ELSE refs

InRange(p, l) ==
  LET valid == SelectSeq(Relative(l), LAMBDA r : ValidateIndex(p, l.set, r))
  IN [i \in DOMAIN valid |-> Offset(p, l.set) + valid[i]]

(* Mutant: an id is ordered without the value that it stands for.          *)
Dependencies_NoIds(p, l) == InRange(p, l)

Dependencies(p, l) ==
  IF l.type = "other_value_id" /\ l.item \in DOMAIN p.idMap
    THEN <<p.idMap[l.item]>> ELSE InRange(p, l)

RECURSIVE OrderValue(_, _, _)
OrderValue(p, visit, k) ==
  IF Contains(visit.order, k) THEN visit
  ELSE IF k \in visit.inProgress THEN [visit EXCEPT !.errors = @ + 1]
  ELSE LET l == Locations(p)[k + 1]
           outOfRange == Len(Relative(l)) - Len(InRange(p, l))
           after == FoldLeft(LAMBDA x, d : OrderValue(p, x, d),
                             [visit EXCEPT !.inProgress = @ \cup {k},
                                           !.errors = @ + outOfRange],
                             Dependencies(p, l))
       IN [after EXCEPT !.order = Append(@, k), !.inProgress = @ \ {k}]

(* First what depends on nothing, then the rest after what it depends on.  *)
CreateTopologicalOrdering(p) ==
  LET locations == Locations(p)
      all == [k \in 1..Len(locations) |-> k - 1]
      leaf(k) == locations[k + 1].type \in {"atom_value", "remote_value"}
  IN FoldLeft(LAMBDA x, k : OrderValue(p, x, k),
              [order |-> SelectSeq(all, leaf),
               inProgress |-> {}, errors |-> 0], all)

Validate(p) ==
  LET visit == CreateTopologicalOrdering(p)
  IN [p EXCEPT !.order = visit.order, !.errors = visit.errors]

-----------------------------------------------------------------------------
(* What an index holds by now; a value read too early is garbage.          *)
Garbage == Written("garbage", 0, <<>>)

RECURSIVE HasGarbage(_)
HasGarbage(t) == t.kind = "garbage" \/ \E i \in DOMAIN t.of : HasGarbage(t.of[i])

GetByIndex(p, k) ==
  LET at == SelectInSeq(p.order, LAMBDA o : o = k)
  IN IF at \in DOMAIN p.values THEN p.values[at] ELSE Garbage

(* What a stub, or an id found in the registry, stands for: a retained     *)
(* value is what the sender's registry keeps for it.                       *)
Kept(id) == IF id \in DOMAIN registered THEN Content(registered[id]) ELSE Garbage

Rebuilt(p, k) ==
  LET l == Locations(p)[k + 1]
      part(i) == GetByIndex(p, Offset(p, l.set) + l.item.refs[i])
      parts == [i \in DOMAIN l.item.refs |-> part(i)]
  IN CASE l.type = "atom_value" -> Content(l.item)
       [] l.type = "sequence_value" -> Written("array", 0, parts)
       [] l.type = "function_value" ->
            Written(IF l.item.parent THEN "inner" ELSE "function", 0, parts)
       [] l.type = "function_call" -> Apply(parts[1], parts[2])
       [] l.type = "remote_value" ->
            IF p.sets[l.set]["server_address"][l.item.address + 1] = "sender"
              THEN Kept(l.item.remote_id) ELSE l.item.remote_id
       [] l.type = "other_value_id" ->
            IF l.item \in DOMAIN p.idMap THEN GetByIndex(p, p.idMap[l.item])
            ELSE IF l.item \in p.found THEN l.item ELSE Garbage

(* Functions and the results of calls come back through a callback.        *)
IsAsynchronous(p, n) ==
  Locations(p)[p.order[n] + 1].type \in {"function_value", "function_call"}

PushBack(p) ==
  [p EXCEPT !.values = Append(@, Rebuilt(p, p.order[Len(p.values) + 1]))]

(* DoSomeUnmarshalling goes on to the next value that has to be awaited.   *)
DoSomeUnmarshalling(p) ==
  LET left == Len(p.values) + 1..Len(p.order)
      stop == {n \in left : IsAsynchronous(p, n)}
      upTo == IF stop = {} THEN Len(p.order) ELSE CHOOSE n \in stop :
                                                   \A o \in stop : n <= o
      ready == IF stop = {} THEN upTo ELSE upTo - 1
      q == FoldLeft(LAMBDA x, n : PushBack(x), p,
                    [n \in 1..ready - Len(p.values) |-> n])
  IN IF stop = {} THEN [q EXCEPT !.state = "DONE", !.awaits = "nothing"]
                  ELSE [q EXCEPT !.awaits = "value"]

(* ContinueUnmarshallingLogic::Run: the first time only to start.          *)
ContinueUnmarshalling(p) ==
  DoSomeUnmarshalling(IF p.awaits = "start" THEN p ELSE PushBack(p))

(* Finish: the value sent, and all that is put into the registry.          *)
FinalResult(p) == GetByIndex(p, p.final)
RegisterAll(p) == [id \in DOMAIN p.idMap |-> GetByIndex(p, p.idMap[id])]
=============================================================================
