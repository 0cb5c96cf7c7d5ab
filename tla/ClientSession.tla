----------------------------- MODULE ClientSession -----------------------------
(***************************************************************************)
(* RemoteWorkerFactoryImpl::CallSession: the calling side of a remote      *)
(* call.  A session is made for one call, sends the call's values, takes   *)
(* in the result, hands it to the caller's callback and is deleted.        *)
(***************************************************************************)
EXTENDS RpcSystem, PushPull

VARIABLE cli        \* the session of each call

CallerSession ==
  [state     : {"NONE", "RUNNING", "DONE", "ERROR", "FREED"},
   pusher    : PusherState,
   puller    : Puller,
   outcome   : {"none", "value", "error"},   \* what RunInNewContext was given
   delivered : Nat]                          \* history: runs of the callback

NoCaller == [state |-> "NONE", pusher |-> "STANDBY", puller |-> IdlePuller,
             outcome |-> "none", delivered |-> 0]

ClientTypeOK == cli \in [Calls -> CallerSession]

ClientInit == cli = [c \in Calls |-> NoCaller]

-----------------------------------------------------------------------------
(* ReturnToFreelist, after the callback was given its outcome: the factory *)
(* deletes the session.                                                    *)
Finished(s, outcome) ==
  [s EXCEPT !.state = "FREED", !.outcome = outcome, !.pusher = "STANDBY",
            !.puller = IdlePuller]

(* RemoteWorkerImpl::Call: CallSessionFactory::New and CallSession::Start. *)
Start(c) ==
  /\ cli[c].state = "NONE"
  /\ cli' = [cli EXCEPT ![c].state = "RUNNING",
                        ![c].pusher = "SENT_INITIAL_VALUE",
                        ![c].puller = StartedPuller]
  /\ rpc' = [rpc EXCEPT ![c].status = "open"]
  /\ Add(c, {"ServerCall"})

(* StreamDone with a pull: answer it, or cancel if a value is unknown.     *)
AnswerPull(c) ==
  /\ cli[c].state = "RUNNING"
  /\ Runs(c, "ClientPull", SendToServerAdds(rpc[c], "ServerPush"))
  /\ UNCHANGED <<cli, rpc>>

AnswerBadPull(c) ==
  /\ cli[c].state = "RUNNING"
  /\ FALSE \in DataVerdicts
  /\ Runs(c, "ClientPull", StartCancelAdds(rpc[c]))
  /\ cli' = [cli EXCEPT ![c].state = "ERROR"]
  /\ rpc' = [rpc EXCEPT ![c] = StartCancel(@)]

(* StreamDone with a push: ask for what is missing or keep waiting.        *)
TakePush(c) ==
  /\ cli[c].state = "RUNNING"
  /\ \E o \in ReceivePush(cli[c].puller) :
       /\ o.status \in {"PULL", "WAITING"}
       /\ Runs(c, "ClientPush",
               IF o.status = "PULL" THEN SendToServerAdds(rpc[c], "ServerPull")
                                    ELSE {})
       /\ cli' = [cli EXCEPT ![c].puller = o.puller]
  /\ UNCHANGED rpc

(* Mutant: the case of a bad push falls through to the complete one.       *)
StateAfter_Done(status) == IF status = "READY" THEN "DONE" ELSE "DONE"

StateAfter(status) == IF status = "READY" THEN "DONE" ELSE "ERROR"

(* A push that completes or spoils the result cancels the call.            *)
TakeLastPush(c) ==
  /\ cli[c].state = "RUNNING"
  /\ \E o \in ReceivePush(cli[c].puller) :
       /\ o.status \in {"READY", "ERROR"}
       /\ Runs(c, "ClientPush", StartCancelAdds(rpc[c]))
       /\ cli' = [cli EXCEPT ![c].puller = o.puller,
                             ![c].state = StateAfter(o.status)]
  /\ rpc' = [rpc EXCEPT ![c] = StartCancel(@)]

(* StreamDone after the session stopped RUNNING.                           *)
IgnoreStream(c) ==
  /\ cli[c].state # "RUNNING"
  /\ \E e \in ClientStream : Runs(c, e, {})
  /\ UNCHANGED <<cli, rpc>>

(* Mutants: the response decides even when the result was received before; *)
(* the error in the response is not looked at.                             *)
DoneOutcome_Response(s, r) ==
  IF r.response = "values" THEN {s.puller}
                           ELSE {[s.puller EXCEPT !.state = "FAILED"]}
DoneOutcome_NoError(s, r) ==
  IF s.state # "RUNNING" \/ r.status = "idle" THEN {s.puller}
  ELSE {[s.puller EXCEPT !.state = "READY_TO_UNMARSHAL"]}

(* Done takes the pushed values from stream_response_, also when the       *)
(* response itself carries them.  That is the last push over again, or no  *)
(* push at all: only a server that sent odd pushes can complete it so.     *)
DoneOutcome(s, r) ==
  LET after(state) == [s.puller EXCEPT !.state = state]
  IN IF s.state # "RUNNING" THEN {s.puller}
     ELSE {after("FAILED")} \cup
          (IF r.response = "values" /\ BadData THEN {after("READY_TO_UNMARSHAL")}
                                               ELSE {})

(* Done with nothing to unmarshal, or values that are not valid: the       *)
(* caller gets an error.                                                   *)
DoneInError(c) ==
  /\ StreamDrained(c, ClientStream)
  /\ \E p \in DoneOutcome(cli[c], rpc[c]) :
       p.state = "READY_TO_UNMARSHAL" => FALSE \in DataVerdicts
  /\ Runs(c, "Done", {"RunCallback"})
  /\ cli' = [cli EXCEPT ![c] = Finished(@, "error")]
  /\ rpc' = [rpc EXCEPT ![c] = Reset(@)]

DoneWithValue(c) ==
  /\ StreamDrained(c, ClientStream)
  /\ \E p \in DoneOutcome(cli[c], rpc[c]) :
       /\ p.state = "READY_TO_UNMARSHAL"
       /\ cli' = [cli EXCEPT ![c].state = "DONE", ![c].pusher = "STANDBY",
                             ![c].puller = [p EXCEPT !.state = "UNMARSHALLING"]]
  /\ Runs(c, "Done", {})
  /\ UNCHANGED rpc

(* The values are rebuilt: evaluating them may take any number of steps.   *)
UnmarshalDone(c) ==
  /\ cli[c].puller.state = "UNMARSHALLING"
  /\ cli' = [cli EXCEPT ![c] = Finished(@, "value")]
  /\ rpc' = [rpc EXCEPT ![c] = Reset(@)]
  /\ Add(c, {"RunCallback"})

(* RunInNewContext: the caller's callback runs on the outcome.             *)
RunCallback(c) ==
  /\ Runs(c, "RunCallback", {})
  /\ cli' = [cli EXCEPT ![c].delivered = @ + 1]
  /\ UNCHANGED rpc

ClientHandles(c) ==
  \/ AnswerPull(c)
  \/ AnswerBadPull(c)
  \/ TakePush(c)
  \/ TakeLastPush(c)
  \/ IgnoreStream(c)
  \/ DoneInError(c)
  \/ DoneWithValue(c)
  \/ UnmarshalDone(c)
  \/ RunCallback(c)

ClientStep(c) == Start(c) \/ ClientHandles(c)
-----------------------------------------------------------------------------
(* No callback of the RPC finds the session deleted: it is deleted only by *)
(* Done or after it, and nothing is owed to it then.                       *)
CallerCallbacksFindSession ==
  \A c \in Calls :
    \/ \E e \in ClientStream \cup {"Done"} : Queued(c, e)
    \/ rpc[c].status = "open"
    \/ cli[c].puller.state = "UNMARSHALLING"
    => cli[c].state # "FREED"

(* Nor does a GOOGLE_CHECK of the session, its pusher or its puller fail.  *)
ClientChecksHold ==
  CallerCallbacksFindSession /\ \A c \in Calls :
    LET s == cli[c]
    IN /\ s.state = "RUNNING" => /\ s.pusher = "SENT_INITIAL_VALUE"
                                 /\ s.puller.state = "STARTED"
       /\ Queued(c, "Done") /\ s.state # "NONE" =>
            /\ s.pusher = "SENT_INITIAL_VALUE"
            /\ s.state = "DONE" => s.puller.state = "READY_TO_UNMARSHAL"
            /\ s.state = "ERROR" => s.puller.state \in {"STARTED", "FAILED"}
       /\ s.puller.state = "UNMARSHALLING" => s.state = "DONE"

(* A response that carries a complete_push ends the call with its value.   *)
CompletePushDelivers ==
  \A c \in Calls : rpc[c].response = "values" /\ cli[c].outcome # "none" =>
    cli[c].outcome = "value"
=============================================================================
