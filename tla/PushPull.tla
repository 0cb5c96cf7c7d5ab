-------------------------------- MODULE PushPull -------------------------------
(***************************************************************************)
(* The control states of ValuePusher (marshaller.cc) and ValuePuller       *)
(* (unmarshaller.cc), the two ends of a push/pull exchange.  What the      *)
(* exchanged values are is left out: only what each end may answer.        *)
(***************************************************************************)
EXTENDS Naturals

CONSTANTS
  MaxPulls,   \* bound on the rounds of pulling: nested values are finite
  BadData     \* TRUE: a peer may send values that do not fit together

ASSUME PushPullAssumption == MaxPulls \in Nat /\ BadData \in BOOLEAN

PusherState == {"STANDBY", "SENT_INITIAL_VALUE"}

Puller == [state    : {"STANDBY", "STARTED", "READY_TO_UNMARSHAL",
                       "UNMARSHALLING", "DONE", "FAILED"},
           requests : 0..MaxPulls]              \* next_request_id_

IdlePuller == [state |-> "STANDBY", requests |-> 0]
StartedPuller == [state |-> "STARTED", requests |-> 0]

(* ReceivePush: a status, and the puller it leaves behind.  Good data only *)
(* ever asks for more or completes the value.                              *)
PushOutcome == [status : {"PULL", "WAITING", "READY", "ERROR"}, puller : Puller]

ReceivePush(p) ==
  {o \in PushOutcome :
     \/ /\ o.status = "PULL"
        /\ p.requests < MaxPulls
        /\ o.puller = [p EXCEPT !.requests = @ + 1]
     \/ /\ o.status = "READY"
        /\ o.puller = [p EXCEPT !.state = "READY_TO_UNMARSHAL"]
     \/ /\ o.status = "WAITING"
        /\ BadData
        /\ p.requests > 0
        /\ o.puller = p
     \/ /\ o.status = "ERROR"
        /\ BadData
        /\ o.puller = [p EXCEPT !.state = "FAILED"]}

(* Whether RespondToPull, or Validate in Unmarshal, can find its input     *)
(* well formed or not.                                                     *)
DataVerdicts == IF BadData THEN {TRUE, FALSE} ELSE {TRUE}
=============================================================================
