---------------------------- MODULE RpcSystem_proofs ----------------------------
(***************************************************************************)
(* Facts about the RPC layer and the push/pull exchange that the proofs    *)
(* about both ends of a remote call rest on: what running a callback does  *)
(* to the bag of callbacks, that the controller's operations keep its      *)
(* type, and how a push may leave a puller.                                *)
(***************************************************************************)
EXTENDS RpcSystem, PushPull, TLAPS

LEMMA KnownCallbacks ==
  /\ "ServerCall" \in Callbacks
  /\ "StartProcessing" \in Callbacks
  /\ "Canceled" \in Callbacks
  /\ "Stopped" \in Callbacks
  /\ "Delete" \in Callbacks
  /\ "ServerPush" \in Callbacks
  /\ "ServerPull" \in Callbacks
  /\ "ClientPush" \in Callbacks
  /\ "ClientPull" \in Callbacks
  /\ "Done" \in Callbacks
  /\ "RunCallback" \in Callbacks
BY DEF Callbacks, ServerStream, ClientStream

LEMMA RunsEffect ==
  ASSUME RpcTypeOK, NEW c \in Calls, NEW e \in Callbacks, NEW new,
         Runs(c, e, new)
  PROVE  /\ pending' \in [Calls -> [Callbacks -> Nat]]
         /\ \A d \in Calls : d # c => pending'[d] = pending[d]
         /\ pending[c][e] >= 1
         /\ \A k \in Callbacks :
              pending'[c][k] = (pending[c][k] - One(k = e)) + One(k \in new)
  BY DEF RpcTypeOK, Runs, Queued, One

LEMMA AddEffect ==
  ASSUME RpcTypeOK, NEW c \in Calls, NEW new, Add(c, new)
  PROVE  /\ pending' \in [Calls -> [Callbacks -> Nat]]
         /\ \A d \in Calls : d # c => pending'[d] = pending[d]
         /\ \A k \in Callbacks : pending'[c][k] = pending[c][k] + One(k \in new)
  BY DEF RpcTypeOK, Add, One

LEMMA Counts ==
  ASSUME RpcTypeOK, NEW c \in Calls
  PROVE  /\ pending[c]["ServerCall"] \in Nat
         /\ pending[c]["StartProcessing"] \in Nat
         /\ pending[c]["Canceled"] \in Nat
         /\ pending[c]["Stopped"] \in Nat
         /\ pending[c]["Delete"] \in Nat
         /\ pending[c]["ServerPush"] \in Nat
         /\ pending[c]["ServerPull"] \in Nat
         /\ pending[c]["ClientPush"] \in Nat
         /\ pending[c]["ClientPull"] \in Nat
         /\ pending[c]["Done"] \in Nat
         /\ pending[c]["RunCallback"] \in Nat
  BY KnownCallbacks DEF RpcTypeOK

LEMMA ControllerFields ==
  ASSUME RpcTypeOK, NEW c \in Calls
  PROVE  /\ rpc[c] \in Controller
         /\ rpc[c].fake \in BOOLEAN
         /\ rpc[c].status \in {"idle", "open", "over"}
         /\ rpc[c].response \in {"none", "error", "values"}
         /\ rpc[c].canceled \in BOOLEAN
         /\ rpc[c].cancelCallback \in BOOLEAN
         /\ rpc[c].serverReceiving \in BOOLEAN
  BY DEF RpcTypeOK, Controller

-----------------------------------------------------------------------------
(* The operations keep their types.                                        *)

LEMMA ControllerOps ==
  ASSUME NEW r \in Controller
  PROVE  /\ StartCancel(r) \in Controller
         /\ NotifyOnCancel(r) \in Controller
         /\ ReceiveStream(r) \in Controller
         /\ StopReceivingStream(r) \in Controller
         /\ Reset(r) \in Controller
         /\ \A response \in {"error", "values"} : Respond(r, response) \in Controller
  BY DEF Controller, StartCancel, NotifyOnCancel, ReceiveStream,
       StopReceivingStream, Reset, Respond

LEMMA CancelFields ==
  ASSUME NEW r \in Controller
  PROVE  /\ StartCancel(r).fake = r.fake
         /\ StartCancel(r).status = r.status
         /\ StartCancel(r).response = r.response
         /\ StartCancel(r).cancelCallback = FALSE
         /\ StartCancel(r).serverReceiving = r.serverReceiving
  BY DEF Controller, StartCancel

LEMMA ResetFields ==
  ASSUME NEW r \in Controller
  PROVE  /\ Reset(r).fake = r.fake
         /\ Reset(r).status = r.status
         /\ Reset(r).response = r.response
         /\ Reset(r).cancelCallback = (r.cancelCallback /\ ~r.fake)
         /\ Reset(r).serverReceiving => r.serverReceiving
         /\ ~r.fake => Reset(r) = r
  BY DEF Controller, Reset

LEMMA PullerOutcomes ==
  ASSUME NEW p \in Puller, NEW o \in ReceivePush(p)
  PROVE  /\ o \in PushOutcome
         /\ o.puller \in Puller
         /\ o.status \in {"PULL", "WAITING", "READY", "ERROR"}
         /\ o.status = "ERROR" => BadData
         /\ o.status \in {"PULL", "WAITING"} => o.puller.state = p.state
         /\ o.status = "READY" => o.puller.state = "READY_TO_UNMARSHAL"
         /\ o.status = "ERROR" => o.puller.state = "FAILED"
  BY DEF ReceivePush, PushOutcome, Puller

-----------------------------------------------------------------------------
(* What one end of a call may do that the other can tell.                  *)

(* The other calls are left alone.                                         *)
RpcElsewhere(c) == \A d \in Calls : d # c => /\ rpc'[d] = rpc[d]
                                             /\ pending'[d] = pending[d]

(* Apart from making the call, a caller or a connection that breaks does   *)
(* no more than this: it sends while the server receives, and cancels the  *)
(* call or forgets whom a cancellation concerns.                           *)
CallerMoves(c) ==
  /\ RpcTypeOK'
  /\ RpcElsewhere(c)
  /\ \A e \in {"ServerCall", "StartProcessing", "Stopped", "Delete"} :
       pending'[c][e] = pending[c][e]
  /\ \A e \in ServerStream :
       pending'[c][e] > pending[c][e] => rpc[c].serverReceiving
  /\ pending'[c]["ClientPush"] <= pending[c]["ClientPush"]
  /\ \/ rpc'[c].status = rpc[c].status
     \/ rpc[c].status = "open" /\ rpc'[c].status = "over"
  /\ rpc'[c].response = rpc[c].response
  /\ rpc'[c].serverReceiving => rpc[c].serverReceiving
  /\ \/ /\ rpc'[c].cancelCallback = rpc[c].cancelCallback
        /\ pending'[c]["Canceled"] = pending[c]["Canceled"]
     \/ /\ rpc'[c].cancelCallback = FALSE
        /\ pending'[c]["Canceled"] \in
             {pending[c]["Canceled"], pending[c]["Canceled"] + One(rpc[c].cancelCallback)}

(* What a step of its server, or of the connection, does that the caller   *)
(* of c can tell: it ends the call at most once, with Done, and sends      *)
(* nothing on the stream but while the call is open.                       *)
AnswersCaller(c) ==
  /\ \/ /\ rpc'[c].status = rpc[c].status
        /\ pending'[c]["Done"] = pending[c]["Done"]
     \/ /\ rpc[c].status = "open"
        /\ rpc'[c].status = "over"
        /\ pending'[c]["Done"] = pending[c]["Done"] + 1
  /\ pending'[c]["RunCallback"] = pending[c]["RunCallback"]
  /\ \A e \in ClientStream :
       pending'[c][e] <= pending[c][e] \/ rpc[c].status = "open"
=============================================================================
