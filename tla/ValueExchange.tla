------------------------------ MODULE ValueExchange ----------------------------
(***************************************************************************)
(* One exchange of values: the sender pushes a value, or a call of a       *)
(* function that lives on the receiver; the receiver pulls what it does    *)
(* not have and rebuilds the value, evaluating functions and calls as it   *)
(* comes to them.  Messages take turns, as RemoteCall shows.               *)
(***************************************************************************)
EXTENDS Unmarshalling

VARIABLES
  push,      \* the PushValuesMessage on its way, if any
  pull,      \* the PullValuesMessage on its way, if any
  failed,    \* one end gave up
  expected,  \* history: the value that the receiver should end up with
  outcome    \* what it ended up with, if anything

vars == <<graph, pusher, registered, puller, push, pull, failed,
          expected, outcome>>

Sent == NodeCount                \* the value that is sent
Callee == Written("retained", 0, <<>>)   \* a function that the receiver keeps

Init == /\ graph \in Graphs
        /\ pusher = FreshPusher
        /\ registered = <<>>
        /\ puller = FreshPuller
        /\ push = <<>>
        /\ pull = <<>>
        /\ failed = FALSE
        /\ expected = <<>>
        /\ outcome = <<>>

PushValues(r, final, completed) ==
  /\ push' = <<[values |-> FinalValues(r.s), completed |-> completed,
                final |-> IF final THEN ToFinalIndex(r.s, r.index) ELSE NoRequest]>>
  /\ Finalize(r.s)

SendFirst ==
  /\ pusher.state = "STARTED"
  /\ \/ /\ PushValues(SendInitialValue(pusher, Sent), TRUE, <<>>)
        /\ expected' = <<Content(Sent)>>
     \/ /\ PushValues(SendFunctionCall(pusher, Callee, Sent), TRUE, <<>>)
        /\ expected' = <<Apply(Callee, Content(Sent))>>
  /\ UNCHANGED <<graph, puller, pull, failed, outcome>>

(* Any value that another machine could have as well may be in the         *)
(* receiver's registry already; a function that it retained is.            *)
MayBeFound(p, m) == {id \in Unknown(p, m) \ {Callee} : ~IsUnique(id)}
IsFound(p, m) == {Callee} \cap Unknown(p, m)

ReceivePush ==
  /\ push # <<>>
  /\ push' = <<>>
  /\ \E s \in SUBSET MayBeFound(puller, push[1].values) :
       LET inRegistry == s \cup IsFound(puller, push[1].values)
           r == PushReceived(puller, push[1], inRegistry)
       IN /\ puller' = r.p
          /\ failed' = (r.status = "ERROR")
          /\ pull' = IF r.status # "PULL" THEN <<>>
                     ELSE <<[ids |-> Requested(puller, push[1].values, inRegistry),
                             request |-> puller.requests]>>
  /\ UNCHANGED <<graph, pusher, registered, expected, outcome>>

AnswerPull ==
  /\ pull # <<>>
  /\ pull' = <<>>
  /\ LET r == RespondToPull(pusher, pull[1].ids)
     IN IF r.index = kInvalidIndex
          THEN failed' = TRUE /\ UNCHANGED <<pusher, registered, push>>
          ELSE PushValues(r, FALSE, <<pull[1].request>>) /\ UNCHANGED failed
  /\ UNCHANGED <<graph, puller, expected, outcome>>

Unmarshal ==
  /\ puller.state = "READY_TO_UNMARSHAL"
  /\ LET p == Validate(puller)
     IN IF p.errors > 0
          THEN puller' = [p EXCEPT !.state = "FAILED"] /\ failed' = TRUE
          ELSE /\ puller' = [p EXCEPT !.state = "UNMARSHALLING", !.awaits = "start"]
               /\ UNCHANGED failed
  /\ UNCHANGED <<graph, pusher, registered, push, pull, expected, outcome>>

Continue ==
  /\ puller.state = "UNMARSHALLING"
  /\ puller' = ContinueUnmarshalling(puller)
  /\ UNCHANGED <<graph, pusher, registered, push, pull, failed, expected, outcome>>

Finish ==
  /\ puller.state = "DONE"
  /\ outcome' = <<[result |-> FinalResult(puller), listed |-> RegisterAll(puller)]>>
  /\ puller' = [FreshPuller EXCEPT !.state = "STANDBY"]
  /\ UNCHANGED <<graph, pusher, registered, push, pull, failed, expected>>

Next == SendFirst \/ ReceivePush \/ AnswerPull \/ Unmarshal \/ Continue \/ Finish

Spec == Init /\ [][Next]_vars

(* Weak fairness of Next: each end handles what it is given, and           *)
(* evaluation ends.  HasWork is ENABLED Next, and a step that changes      *)
(* something is one of Next.                                               *)
HasWork == \/ pusher.state = "STARTED"
           \/ push # <<>>
           \/ pull # <<>>
           \/ puller.state \in {"READY_TO_UNMARSHAL", "UNMARSHALLING", "DONE"}

FairSpec == Spec /\ ([]<>(~HasWork) \/ []<><<TRUE>>_vars)
-----------------------------------------------------------------------------
(* The receiver rebuilds the value that was sent, and whatever it puts     *)
(* into its registry is the very value that the sender knows by that id:   *)
(* whatever was eliminated as a duplicate, sent as an id, found, pulled or *)
(* retained, in whatever order and message it came.                        *)
RebuildsSent ==
  \A i \in DOMAIN outcome :
    /\ outcome[i].result = expected[i]
    /\ \A id \in DOMAIN outcome[i].listed :
         /\ id \in DOMAIN pusher.remembered
         /\ outcome[i].listed[id] =
              Content(pusher.trackers[pusher.remembered[id]].value)

(* No value is used before it was rebuilt, and every id that is not        *)
(* rebuilt was found ("Missing value for ID").                             *)
ReadsFinal == \A i \in DOMAIN puller.values : ~HasGarbage(puller.values[i])

(* An exchange between two machines of this tree meets none of the errors  *)
(* of either end; a push finds the puller waiting for it; and the puller   *)
(* never waits when nothing is on its way.                                 *)
NeverFails == /\ ~failed
              /\ push # <<>> => puller.state = "STARTED"
              /\ puller.state = "STARTED" => HasWork

(* A stub is not sent before the registry was told to keep its value.      *)
StubsRegistered ==
  \A m \in ToSet(push) : \A r \in ToSet(m.values["remote_value"]) :
    m.values["server_address"][r.address + 1] = "sender" =>
      r.remote_id \in DOMAIN registered

(* An exchange comes to its end: the receiver does not pull for ever.      *)
ExchangeEnds == <>(outcome # <<>>)
=============================================================================
