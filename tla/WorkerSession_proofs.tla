------------------------- MODULE WorkerSession_proofs -------------------------
(***************************************************************************)
(* Proofs that a server session is safe against any client: its callbacks  *)
(* always find it, its checks hold and its references cover whoever will   *)
(* drop one, for any number of calls, pulls and messages.                  *)
(*                                                                         *)
(* SessionInv is the inductive invariant.  It adds to the safety properties*)
(* what a step needs to know of the one before: how many callbacks of each *)
(* kind there can be, what a session is before it exists and after it is   *)
(* deleted, and that stream messages reach only a session that has still   *)
(* to answer or to stop its stream.                                        *)
(***************************************************************************)
EXTENDS AnyClient, RpcSystem_proofs

(* Messages to the server are on their way.                                *)
Messages(c) == Queued(c, "ServerPush") \/ Queued(c, "ServerPull")

(* Before the call reaches the server nothing of the session exists.       *)
Unborn(c) ==
  /\ rpc[c].status = "idle" => pending[c]["ServerCall"] = 0
  /\ rpc[c].status = "idle" \/ Queued(c, "ServerCall") => srv[c].state = "NONE"
  /\ srv[c].state = "NONE" => srv[c].puller.state = "STANDBY"
  /\ srv[c].state = "NONE" => ~rpc[c].serverReceiving

(* A session that does not exist is owed nothing.                          *)
Unowed(c) ==
  ~Live(c) => /\ ~CancelHolds(c)
              /\ ~ResponseHolds(c)
              /\ ~ProcessHolds(c)
              /\ ~Queued(c, "Delete")
              /\ ~Messages(c)

(* Each one-shot callback is queued at most once.                          *)
OneShot(c) ==
  /\ pending[c]["ServerCall"] <= 1
  /\ pending[c]["Canceled"] <= 1
  /\ pending[c]["Stopped"] <= 1
  /\ pending[c]["StartProcessing"] <= 1
  /\ pending[c]["Delete"] <= 1
  /\ ~(rpc[c].cancelCallback /\ Queued(c, "Canceled"))
  /\ ~(srv[c].answering /\ Queued(c, "Stopped"))
  /\ ~(Queued(c, "StartProcessing") /\ srv[c].puller.state = "UNMARSHALLING")

(* The stream is open only while an answer is due, and messages are left   *)
(* only until it has stopped.                                              *)
StreamOpen(c) ==
  /\ rpc[c].serverReceiving => srv[c].answering
  /\ Messages(c) => ResponseHolds(c)

(* What each state says of the pusher, the puller and the callbacks.       *)
StateFits(c) ==
  /\ srv[c].answering => srv[c].state \in {"RECEIVING", "PROCESSING", "SENDING"}
  /\ srv[c].state \in {"RECEIVING", "PROCESSING", "SENDING"} => srv[c].answering
  /\ srv[c].state = "RECEIVING" => srv[c].puller.state = "STARTED"
  /\ srv[c].state = "SENDING" => srv[c].pusher = "SENT_INITIAL_VALUE"
  /\ srv[c].state \in {"NONE", "RECEIVING", "PROCESSING"} => srv[c].pusher = "STANDBY"
  /\ Queued(c, "StartProcessing") => srv[c].puller.state = "READY_TO_UNMARSHAL"
  /\ ProcessHolds(c) => srv[c].state \in {"PROCESSING", "SHUTDOWN"}
  /\ Queued(c, "Stopped") => srv[c].state = "SHUTDOWN"
  /\ Queued(c, "Delete") => srv[c].state = "SHUTDOWN" /\ srv[c].refs = 0

(* A result is sent only once the call was evaluated, and the only answer  *)
(* besides is an error.                                                    *)
Evaluation(c) ==
  /\ srv[c].state = "PROCESSING" => ProcessHolds(c)
  /\ srv[c].state = "SENDING" => srv[c].evaluated
  /\ srv[c].evaluated => srv[c].state \in {"SENDING", "SHUTDOWN", "FREED"}
  /\ Queued(c, "ClientPush") => srv[c].evaluated
  /\ rpc[c].response # "values"

Counted(c) == Live(c) => srv[c].refs >= Holders(c)

SessionInv(c) == /\ Unborn(c)
                 /\ Unowed(c)
                 /\ OneShot(c)
                 /\ StreamOpen(c)
                 /\ StateFits(c)
                 /\ Evaluation(c)
                 /\ Counted(c)

(* What a step of call c needs, and what holds of them all.                *)
CallInv(c) == RpcTypeOK /\ ServerTypeOK /\ SessionInv(c)

Inv == RpcTypeOK /\ ServerTypeOK /\ \A c \in Calls : SessionInv(c)

-----------------------------------------------------------------------------
(* What the invariant says of one call, in parts.                          *)

LEMMA Parts ==
  ASSUME NEW c \in Calls, CallInv(c)
  PROVE  /\ Unborn(c) /\ Unowed(c) /\ OneShot(c)
         /\ StreamOpen(c) /\ StateFits(c) /\ Evaluation(c) /\ Counted(c)
  BY DEF CallInv, SessionInv

LEMMA Fields ==
  ASSUME RpcTypeOK, ServerTypeOK, NEW c \in Calls
  PROVE  /\ rpc[c] \in Controller
         /\ rpc[c].status \in {"idle", "open", "over"}
         /\ rpc[c].canceled \in BOOLEAN
         /\ rpc[c].cancelCallback \in BOOLEAN
         /\ rpc[c].fake \in BOOLEAN
         /\ rpc[c].serverReceiving \in BOOLEAN
         /\ srv[c] \in ServerSession
         /\ srv[c].state \in
              {"NONE", "RECEIVING", "PROCESSING", "SENDING", "SHUTDOWN", "FREED"}
         /\ srv[c].refs \in Int
         /\ srv[c].answering \in BOOLEAN
         /\ srv[c].puller \in Puller
         /\ srv[c].evaluated \in BOOLEAN
  BY DEF RpcTypeOK, ServerTypeOK, Controller, ServerSession

-----------------------------------------------------------------------------
(* The operations keep their types.                                        *)

LEMMA SessionOps ==
  ASSUME NEW s \in ServerSession
  PROVE  /\ Unref(s) \in ServerSession
         /\ ReturnError(s) \in ServerSession
         /\ \A p \in Puller : [s EXCEPT !.puller = p] \in ServerSession
<1>1. Unref(s) \in ServerSession
  BY DEF ServerSession, Unref
<1>2. IdlePuller \in Puller
  BY PushPullAssumption DEF Puller, IdlePuller
<1>3. ReturnError(s) \in ServerSession
  BY <1>2 DEF ServerSession, ReturnError, PusherState
<1>4. \A p \in Puller : [s EXCEPT !.puller = p] \in ServerSession
  BY DEF ServerSession
<1> QED BY <1>1, <1>3, <1>4

-----------------------------------------------------------------------------
(* A step of call c leaves the other calls alone.                          *)

Elsewhere(c) == \A d \in Calls : d # c => /\ srv'[d] = srv[d]
                                          /\ rpc'[d] = rpc[d]
                                          /\ pending'[d] = pending[d]

(* And a session that answered does not answer again.                      *)
AnswerStays(c) ==
  srv[c].state \in {"SHUTDOWN", "FREED"} =>
    /\ srv'[c].state \in {"SHUTDOWN", "FREED"}
    /\ pending'[c]["Stopped"] <= pending[c]["Stopped"]

StepKeeps(c) == /\ RpcTypeOK' /\ ServerTypeOK'
                /\ SessionInv(c)'
                /\ Elsewhere(c)
                /\ AnswerStays(c)

(* What a handler of the session may do to the turn of its call: pass it   *)
(* on or keep it, never take a second one.                                 *)
TurnPasses(c) ==
  /\ InTurn(c)' <= InTurn(c)
  /\ \A e \in {"ServerCall", "ServerPush", "ServerPull"} :
       pending'[c][e] <= pending[c][e]
  /\ pending'[c]["ClientPull"] > pending[c]["ClientPull"] => ~srv'[c].evaluated
  /\ srv[c].evaluated => srv'[c].evaluated
  /\ srv'[c].evaluated => srv[c].evaluated \/ srv[c].puller.state = "UNMARSHALLING"

(* It ends the session only when it was given cause to: bad data, a        *)
(* cancellation, or a message out of turn.                                 *)
Ended(c) == srv[c].state \in {"SHUTDOWN", "FREED"}

OutOfTurn(c) == \/ srv[c].state = "PROCESSING" /\ Messages(c)
                \/ srv[c].state = "RECEIVING" /\ Queued(c, "ServerPull")
                \/ srv[c].state = "SENDING" /\ Queued(c, "ServerPush")

EndsForCause(c) ==
  /\ Ended(c)' => Ended(c) \/ BadData \/ Queued(c, "Canceled") \/ OutOfTurn(c)
  /\ Queued(c, "Canceled")' =>
       Queued(c, "Canceled") \/ rpc[c].canceled \/ ~rpc[c].fake
  /\ rpc'[c].fake = rpc[c].fake
  /\ rpc'[c].canceled = rpc[c].canceled
  /\ rpc'[c].cancelCallback => rpc[c].cancelCallback \/ Queued(c, "ServerCall")
  /\ rpc'[c].status = "over" => rpc[c].status = "over" \/ Ended(c)

(* And with good data it drops a reference exactly when it lets go of one. *)
Exact(c) == Live(c) => srv[c].refs = Holders(c)
CountStays(c) == ~BadData /\ Exact(c) => Exact(c)'

ServerKeeps(c) == /\ StepKeeps(c)
                  /\ AnswersCaller(c)
                  /\ TurnPasses(c)
                  /\ EndsForCause(c)
                  /\ CountStays(c)

LEMMA SessionFields ==
  ASSUME NEW s \in ServerSession
  PROVE  /\ Unref(s).refs = s.refs - 1
         /\ Unref(s).state = s.state
         /\ Unref(s).answering = s.answering
         /\ Unref(s).pusher = s.pusher
         /\ Unref(s).puller = s.puller
         /\ Unref(s).evaluated = s.evaluated
         /\ ReturnError(s).evaluated = s.evaluated
         /\ ReturnError(s).refs = s.refs
         /\ ~s.answering => ReturnError(s) = s
         /\ s.answering =>
              /\ ReturnError(s).state = "SHUTDOWN"
              /\ ~ReturnError(s).answering
              /\ s.state = "RECEIVING" => ReturnError(s).puller.state = "STANDBY"
              /\ s.state # "RECEIVING" => ReturnError(s).puller = s.puller
         /\ s.state = "SENDING" \/ ReturnError(s).pusher = s.pusher
  BY DEF ServerSession, Unref, ReturnError, IdlePuller

(* A call whose session, controller and one-shot callbacks stay as they    *)
(* are keeps its invariant.                                                *)
LEMMA Undisturbed ==
  ASSUME NEW c \in Calls, CallInv(c),
         srv'[c] = srv[c], rpc'[c] = rpc[c],
         pending'[c]["ServerCall"] = pending[c]["ServerCall"],
         pending'[c]["StartProcessing"] = pending[c]["StartProcessing"],
         pending'[c]["Canceled"] = pending[c]["Canceled"],
         pending'[c]["Stopped"] = pending[c]["Stopped"],
         pending'[c]["Delete"] = pending[c]["Delete"],
         Messages(c)' => Messages(c),
         Queued(c, "ClientPush")' => Queued(c, "ClientPush") \/ srv[c].evaluated
  PROVE  SessionInv(c)'
<1>1. Live(c)' = Live(c)
  BY DEF Live
<1>2. /\ CancelHolds(c)' = CancelHolds(c)
      /\ ResponseHolds(c)' = ResponseHolds(c)
      /\ ProcessHolds(c)' = ProcessHolds(c)
  BY DEF CancelHolds, ResponseHolds, ProcessHolds, Queued
<1>3. Holders(c)' = Holders(c)
  BY <1>2 DEF Holders
<1>4. Unborn(c)' /\ OneShot(c)'
  BY Parts DEF Unborn, OneShot, Queued
<1>5. Unowed(c)' /\ StreamOpen(c)'
  BY <1>1, <1>2, Parts DEF Unowed, StreamOpen, Queued
<1>6. StateFits(c)'
  BY <1>2, Parts DEF StateFits, Queued
<1>7. Counted(c)'
  BY <1>1, <1>3, Parts DEF Counted
<1>8. Evaluation(c)'
  BY <1>2, Parts DEF Evaluation
<1> QED BY <1>4, <1>5, <1>6, <1>7, <1>8 DEF SessionInv

(* A message is taken off the stream, and perhaps answered with a push.    *)
LEMMA StreamStepKeeps ==
  ASSUME NEW c \in Calls, CallInv(c), NEW e \in ServerStream, NEW new,
         new \subseteq {"ClientPush"}, Runs(c, e, new), UNCHANGED <<srv, rpc>>,
         new # {} => srv[c].evaluated /\ rpc[c].status = "open"
  PROVE  ServerKeeps(c)
<1>1. RpcTypeOK /\ ServerTypeOK /\ e \in Callbacks
  BY DEF CallInv, Callbacks
<1>2. /\ pending' \in [Calls -> [Callbacks -> Nat]]
      /\ \A d \in Calls : d # c => pending'[d] = pending[d]
      /\ \A k \in Callbacks :
           pending'[c][k] = (pending[c][k] - One(k = e)) + One(k \in new)
  BY <1>1, RunsEffect
<1>3. RpcTypeOK' /\ ServerTypeOK' /\ Elsewhere(c)
  BY <1>1, <1>2 DEF RpcTypeOK, ServerTypeOK, Elsewhere
<1>4. /\ pending'[c]["ServerCall"] = pending[c]["ServerCall"]
      /\ pending'[c]["StartProcessing"] = pending[c]["StartProcessing"]
      /\ pending'[c]["Canceled"] = pending[c]["Canceled"]
      /\ pending'[c]["Stopped"] = pending[c]["Stopped"]
      /\ pending'[c]["Delete"] = pending[c]["Delete"]
      /\ pending'[c]["Done"] = pending[c]["Done"]
      /\ pending'[c]["RunCallback"] = pending[c]["RunCallback"]
      /\ pending'[c]["ClientPull"] = pending[c]["ClientPull"]
      /\ pending'[c]["ClientPush"] = pending[c]["ClientPush"] + One("ClientPush" \in new)
      /\ pending'[c]["ServerPush"] = pending[c]["ServerPush"] - One(e = "ServerPush")
      /\ pending'[c]["ServerPull"] = pending[c]["ServerPull"] - One(e = "ServerPull")
  BY <1>1, <1>2, Counts, KnownCallbacks DEF One, ServerStream
<1>5. Messages(c)' => Messages(c)
  BY <1>1, <1>4, Counts DEF Messages, Queued, One
<1>6. "ClientPush" \in new => srv[c].evaluated /\ rpc[c].status = "open"
  OBVIOUS
<1>7. SessionInv(c)'
  <2>1. Queued(c, "ClientPush")' => Queued(c, "ClientPush") \/ srv[c].evaluated
    BY <1>1, <1>4, <1>6, Counts DEF Queued, One
  <2> QED BY <1>4, <1>5, <2>1, Undisturbed
<1>8. AnswerStays(c) /\ AnswersCaller(c)
  BY <1>1, <1>4, <1>6, Counts DEF AnswerStays, AnswersCaller, ClientStream, One
<1>9. TurnPasses(c)
  BY <1>1, <1>4, Counts DEF TurnPasses, InTurn, One, ServerStream
<1>10. EndsForCause(c) /\ CountStays(c)
  BY <1>4 DEF EndsForCause, CountStays, Exact, Ended, Live, Holders, CancelHolds,
       ResponseHolds, ProcessHolds, Queued
<1> QED BY <1>3, <1>7, <1>8, <1>9, <1>10 DEF StepKeeps, ServerKeeps

LEMMA ReceivePullKeeps ==
  ASSUME NEW c \in Calls, CallInv(c), ReceivePullMessage(c) \/ ReceiveAfterShutdown(c)
  PROVE  ServerKeeps(c)
<1>1. CASE ReceivePullMessage(c)
  <2>1. srv[c].evaluated
    BY <1>1, Parts DEF ReceivePullMessage, Evaluation
  <2> QED BY <1>1, <2>1, StreamStepKeeps DEF ReceivePullMessage, SendToClientAdds, ServerStream
<1>2. CASE ReceiveAfterShutdown(c)
  BY <1>2, StreamStepKeeps DEF ReceiveAfterShutdown
<1> QED BY <1>1, <1>2

LEMMA CanceledKeeps ==
  ASSUME NEW c \in Calls, CallInv(c), Canceled(c)
  PROVE  ServerKeeps(c)
<1> DEFINE s == srv[c]
           t == ReturnError(s)
           new == ReturnErrorAdds(s) \cup UnrefAdds(t)
<1>1. RpcTypeOK /\ ServerTypeOK
  BY DEF CallInv
<1>2. s \in ServerSession /\ t \in ServerSession /\ rpc[c] \in Controller
  BY <1>1, Fields, SessionOps
<1>3. /\ Runs(c, "Canceled", new)
      /\ srv' = [srv EXCEPT ![c] = Unref(t)]
      /\ rpc' = [rpc EXCEPT ![c] = ReturnErrorRpc(s, @)]
  BY DEF Canceled
<1> HIDE DEF new
<1>4. /\ pending' \in [Calls -> [Callbacks -> Nat]]
      /\ \A d \in Calls : d # c => pending'[d] = pending[d]
      /\ pending[c]["Canceled"] >= 1
      /\ \A k \in Callbacks :
           pending'[c][k] = (pending[c][k] - One(k = "Canceled")) + One(k \in new)
  BY <1>1, <1>3, KnownCallbacks, RunsEffect
<1>5. RpcTypeOK' /\ ServerTypeOK' /\ Elsewhere(c)
  BY <1>1, <1>2, <1>3, <1>4, SessionOps, ControllerOps
     DEF RpcTypeOK, ServerTypeOK, Elsewhere, ReturnErrorRpc
<1>6. \A k : k \in new <=> \/ k = "Stopped" /\ s.answering
                           \/ k = "Delete" /\ s.refs = 1
  BY <1>2, SessionFields DEF new, UnrefAdds, ReturnErrorAdds
<1>7. /\ pending'[c]["ServerCall"] = pending[c]["ServerCall"]
      /\ pending'[c]["StartProcessing"] = pending[c]["StartProcessing"]
      /\ pending'[c]["Canceled"] = pending[c]["Canceled"] - 1
      /\ pending'[c]["Stopped"] = pending[c]["Stopped"] + One(s.answering)
      /\ pending'[c]["Delete"] = pending[c]["Delete"] + One(s.refs = 1)
      /\ pending'[c]["ServerPush"] = pending[c]["ServerPush"]
      /\ pending'[c]["ServerPull"] = pending[c]["ServerPull"]
      /\ pending'[c]["ClientPush"] = pending[c]["ClientPush"]
      /\ pending'[c]["ClientPull"] = pending[c]["ClientPull"]
      /\ pending'[c]["Done"] = pending[c]["Done"]
      /\ pending'[c]["RunCallback"] = pending[c]["RunCallback"]
  BY <1>1, <1>4, <1>6, KnownCallbacks, Counts DEF One
<1>8. /\ srv'[c].state = IF s.answering THEN "SHUTDOWN" ELSE s.state
      /\ srv'[c].refs = s.refs - 1
      /\ srv'[c].answering = FALSE
      /\ srv'[c].puller.state =
           IF s.answering /\ s.state = "RECEIVING" THEN "STANDBY" ELSE s.puller.state
      /\ srv'[c].pusher = s.pusher \/ s.state = "SENDING"
      /\ srv'[c].evaluated = s.evaluated
  BY <1>1, <1>2, <1>3, SessionFields DEF ServerTypeOK
<1>9. /\ rpc'[c].status = rpc[c].status
      /\ rpc'[c].cancelCallback = rpc[c].cancelCallback
      /\ rpc'[c].serverReceiving => rpc[c].serverReceiving /\ ~s.answering
      /\ rpc'[c].fake = rpc[c].fake
      /\ rpc'[c].canceled = rpc[c].canceled
      /\ rpc'[c].response = rpc[c].response
  BY <1>1, <1>2, <1>3 DEF RpcTypeOK, Controller, ReturnErrorRpc, StopReceivingStream
<1>10. /\ s.state \in {"RECEIVING", "PROCESSING", "SENDING", "SHUTDOWN"}
       /\ ~rpc[c].cancelCallback /\ pending[c]["Canceled"] = 1
       /\ s.refs >= 1 /\ pending[c]["Delete"] = 0
  <2>1. s.state \in {"RECEIVING", "PROCESSING", "SENDING", "SHUTDOWN"}
    BY <1>1, <1>4, Parts, Counts, Fields DEF Unowed, Live, CancelHolds, Queued
  <2>2. ~rpc[c].cancelCallback /\ pending[c]["Canceled"] = 1
    BY <1>1, <1>4, Parts, Counts DEF OneShot, Queued
  <2>3. s.refs >= 1
    BY <2>1, <2>2, <1>1, Parts, Fields
       DEF Counted, Live, Holders, CancelHolds, Queued, One
  <2> QED BY <1>1, <2>1, <2>2, <2>3, Parts, Counts DEF StateFits, Queued
<1>11. Unborn(c)'
  BY <1>7, <1>8, <1>9, <1>10, Parts DEF Unborn, Queued
<1>12. Unowed(c)'
  BY <1>8, <1>10 DEF Unowed, Live
<1>13. OneShot(c)'
  BY <1>1, <1>7, <1>8, <1>9, <1>10, Parts, Counts, Fields DEF OneShot, Queued, One
<1>14. StreamOpen(c)'
  BY <1>1, <1>7, <1>8, <1>9, Parts, Counts, Fields
     DEF StreamOpen, Messages, ResponseHolds, Queued, One
<1>15. StateFits(c)'
  BY <1>1, <1>7, <1>8, <1>10, Parts, Counts, Fields DEF StateFits, ProcessHolds, Queued, One
<1>16. Counted(c)' /\ CountStays(c)
  <2>1. CancelHolds(c) /\ ~CancelHolds(c)'
    BY <1>7, <1>9, <1>10 DEF CancelHolds, Queued
  <2>2. ResponseHolds(c)' <=> ResponseHolds(c)
    BY <1>1, <1>7, <1>8, Counts, Fields DEF ResponseHolds, Queued, One
  <2>3. ProcessHolds(c)' <=> ProcessHolds(c)
    BY <1>7, <1>8, Parts DEF ProcessHolds, StateFits, Queued
  <2>4. Holders(c)' \in Int /\ Holders(c)' = Holders(c) - 1
    BY <2>1, <2>2, <2>3 DEF Holders, One
  <2>5. Holders(c) \in Int /\ s.refs >= Holders(c)
    BY <1>10, Parts DEF Counted, Live, Holders, One
  <2> QED BY <1>8, <1>10, <2>4, <2>5, <1>1, Fields DEF Counted, CountStays, Exact, Live
<1>17. AnswerStays(c)
  BY <1>1, <1>7, <1>8, <1>10, Parts, Counts, Fields DEF AnswerStays, StateFits, One
<1>18. Evaluation(c)'
  BY <1>7, <1>8, <1>9, <1>10, Parts DEF Evaluation, StateFits, ProcessHolds, Queued
<1>19. AnswersCaller(c) /\ TurnPasses(c)
  BY <1>1, <1>7, <1>8, <1>9, Counts
     DEF AnswersCaller, TurnPasses, ClientStream, InTurn, One
<1>20. EndsForCause(c)
  BY <1>4, <1>7, <1>8, <1>9, <1>10 DEF EndsForCause, Ended, Queued
<1> QED
  BY <1>5, <1>11, <1>12, <1>13, <1>14, <1>15, <1>16, <1>17, <1>18,
     <1>19, <1>20 DEF StepKeeps, SessionInv, ServerKeeps

(* A message that is answered with an error.                               *)
LEMMA RefuseKeeps ==
  ASSUME NEW c \in Calls, CallInv(c), NEW e \in ServerStream,
         srv[c].state \in {"RECEIVING", "PROCESSING", "SENDING"},
         RefuseMessage(c, e), BadData \/ OutOfTurn(c)
  PROVE  ServerKeeps(c)
<1> DEFINE s == srv[c]
<1>1. RpcTypeOK /\ ServerTypeOK /\ e \in Callbacks
  BY DEF CallInv, Callbacks
<1>2. s \in ServerSession /\ rpc[c] \in Controller /\ s.answering
  BY <1>1, Fields, Parts DEF StateFits
<1>3. /\ Runs(c, e, {"Stopped"})
      /\ srv' = [srv EXCEPT ![c] = ReturnError(s)]
      /\ rpc' = [rpc EXCEPT ![c] = StopReceivingStream(rpc[c])]
  BY <1>2 DEF RefuseMessage, ReturnErrorAdds, ReturnErrorRpc
<1>4. /\ pending' \in [Calls -> [Callbacks -> Nat]]
      /\ \A d \in Calls : d # c => pending'[d] = pending[d]
      /\ pending[c][e] >= 1
      /\ \A k \in Callbacks :
           pending'[c][k] = (pending[c][k] - One(k = e)) + One(k \in {"Stopped"})
  BY <1>1, <1>3, RunsEffect
<1>5. RpcTypeOK' /\ ServerTypeOK' /\ Elsewhere(c)
  BY <1>1, <1>2, <1>3, <1>4, SessionOps, ControllerOps
     DEF RpcTypeOK, ServerTypeOK, Elsewhere
<1>6. e \notin {"ServerCall", "StartProcessing", "Canceled", "Stopped", "Delete"}
  BY DEF ServerStream
<1>7. /\ pending'[c]["ServerCall"] = pending[c]["ServerCall"]
      /\ pending'[c]["StartProcessing"] = pending[c]["StartProcessing"]
      /\ pending'[c]["Canceled"] = pending[c]["Canceled"]
      /\ pending'[c]["Stopped"] = pending[c]["Stopped"] + 1
      /\ pending'[c]["Delete"] = pending[c]["Delete"]
      /\ pending'[c]["ClientPush"] = pending[c]["ClientPush"]
      /\ pending'[c]["ClientPull"] = pending[c]["ClientPull"]
      /\ pending'[c]["Done"] = pending[c]["Done"]
      /\ pending'[c]["RunCallback"] = pending[c]["RunCallback"]
      /\ pending'[c]["ServerPush"] = pending[c]["ServerPush"] - One(e = "ServerPush")
      /\ pending'[c]["ServerPull"] = pending[c]["ServerPull"] - One(e = "ServerPull")
  BY <1>1, <1>4, <1>6, KnownCallbacks, Counts DEF One, ServerStream
<1>8. /\ srv'[c].state = "SHUTDOWN"
      /\ srv'[c].refs = s.refs
      /\ srv'[c].answering = FALSE
      /\ srv'[c].puller.state =
           IF s.state = "RECEIVING" THEN "STANDBY" ELSE s.puller.state
      /\ srv'[c].evaluated = s.evaluated
  BY <1>1, <1>2, <1>3, SessionFields DEF ServerTypeOK
<1>9. /\ rpc'[c].status = rpc[c].status
      /\ rpc'[c].cancelCallback = rpc[c].cancelCallback
      /\ rpc'[c].serverReceiving = FALSE
      /\ rpc'[c].fake = rpc[c].fake
      /\ rpc'[c].canceled = rpc[c].canceled
      /\ rpc'[c].response = rpc[c].response
  BY <1>1, <1>2, <1>3 DEF RpcTypeOK, Controller, StopReceivingStream
<1>10. pending[c]["Stopped"] = 0 /\ ~Queued(c, "Delete") /\ pending[c]["Delete"] = 0
  BY <1>1, <1>2, Parts, Counts DEF OneShot, StateFits, Queued
<1>11. Unborn(c)'
  BY <1>7, <1>8, <1>9, Parts DEF Unborn, Queued
<1>12. Unowed(c)'
  BY <1>8 DEF Unowed, Live
<1>13. OneShot(c)'
  BY <1>7, <1>8, <1>9, <1>10, Parts DEF OneShot, Queued
<1>14. StreamOpen(c)'
  BY <1>7, <1>8, <1>9, <1>10 DEF StreamOpen, ResponseHolds, Queued
<1>15. StateFits(c)'
  BY <1>7, <1>8, <1>10, Parts DEF StateFits, ProcessHolds, Queued
<1>16. Counted(c)' /\ CountStays(c)
  <2>1. CancelHolds(c)' <=> CancelHolds(c)
    BY <1>7, <1>9 DEF CancelHolds, Queued
  <2>2. ResponseHolds(c) /\ ResponseHolds(c)'
    BY <1>2, <1>7, <1>10 DEF ResponseHolds, Queued
  <2>3. ProcessHolds(c)' <=> ProcessHolds(c)
    BY <1>7, <1>8, Parts DEF ProcessHolds, StateFits, Queued
  <2>4. Holders(c)' \in Int /\ Holders(c)' = Holders(c)
    BY <2>1, <2>2, <2>3 DEF Holders, One
  <2>5. Holders(c) \in Int /\ s.refs >= Holders(c)
    BY Parts DEF Counted, Live, Holders, One
  <2> QED BY <1>8, <2>4, <2>5, <1>1, Fields DEF Counted, CountStays, Exact, Live
<1>17. AnswerStays(c)
  BY DEF AnswerStays
<1>18. Evaluation(c)'
  BY <1>7, <1>8, <1>9, Parts DEF Evaluation, Queued
<1>19. AnswersCaller(c) /\ TurnPasses(c)
  BY <1>1, <1>4, <1>7, <1>8, <1>9, Counts
     DEF AnswersCaller, TurnPasses, ClientStream, InTurn, One, ServerStream
<1>20. EndsForCause(c)
  BY <1>7, <1>8, <1>9 DEF EndsForCause, Ended, Queued
<1> QED
  BY <1>5, <1>11, <1>12, <1>13, <1>14, <1>15, <1>16, <1>17, <1>18,
     <1>19, <1>20 DEF StepKeeps, SessionInv, ServerKeeps

LEMMA RefusedKeeps ==
  ASSUME NEW c \in Calls, CallInv(c), ReceiveBadPull(c) \/ ReceiveOutOfTurn(c)
  PROVE  ServerKeeps(c)
<1>1. CASE ReceiveBadPull(c)
  BY <1>1, RefuseKeeps DEF ReceiveBadPull, ServerStream, DataVerdicts
<1>2. CASE ReceiveOutOfTurn(c)
  <2>1. PICK e \in ServerStream :
          /\ \/ srv[c].state = "PROCESSING"
             \/ srv[c].state = "RECEIVING" /\ e = "ServerPull"
             \/ srv[c].state = "SENDING" /\ e = "ServerPush"
          /\ RefuseMessage(c, e)
    BY <1>2 DEF ReceiveOutOfTurn
  <2>2. OutOfTurn(c)
    BY <2>1 DEF OutOfTurn, RefuseMessage, Runs, Messages, ServerStream
  <2> QED BY <2>1, <2>2, RefuseKeeps
<1> QED BY <1>1, <1>2


(* The evaluation of a call: its start, and an invalid call.               *)
LEMMA StartProcessingKeeps ==
  ASSUME NEW c \in Calls, CallInv(c), StartProcessing(c)
  PROVE  ServerKeeps(c)
<1> DEFINE s == srv[c]
<1>1. RpcTypeOK /\ ServerTypeOK
  BY DEF CallInv
<1>2. s \in ServerSession /\ s.puller \in Puller
  BY <1>1, Fields
<1>3. /\ Runs(c, "StartProcessing", {})
      /\ srv' = [srv EXCEPT ![c].puller.state = "UNMARSHALLING"]
      /\ rpc' = rpc
  BY DEF StartProcessing
<1>4. /\ pending' \in [Calls -> [Callbacks -> Nat]]
      /\ \A d \in Calls : d # c => pending'[d] = pending[d]
      /\ pending[c]["StartProcessing"] >= 1
      /\ \A k \in Callbacks :
           pending'[c][k] = (pending[c][k] - One(k = "StartProcessing")) + One(k \in {})
  BY <1>1, <1>3, KnownCallbacks, RunsEffect
<1>5. /\ srv'[c] \in ServerSession
      /\ srv'[c].state = s.state
      /\ srv'[c].refs = s.refs
      /\ srv'[c].answering = s.answering
      /\ srv'[c].pusher = s.pusher
      /\ srv'[c].puller.state = "UNMARSHALLING"
      /\ srv'[c].evaluated = s.evaluated
  BY <1>1, <1>2, <1>3 DEF ServerTypeOK, ServerSession, Puller
<1>6. RpcTypeOK' /\ ServerTypeOK' /\ Elsewhere(c)
  BY <1>1, <1>3, <1>4, <1>5 DEF RpcTypeOK, ServerTypeOK, Elsewhere
<1>7. /\ pending'[c]["ServerCall"] = pending[c]["ServerCall"]
      /\ pending'[c]["StartProcessing"] = pending[c]["StartProcessing"] - 1
      /\ pending'[c]["Canceled"] = pending[c]["Canceled"]
      /\ pending'[c]["Stopped"] = pending[c]["Stopped"]
      /\ pending'[c]["Delete"] = pending[c]["Delete"]
      /\ pending'[c]["ServerPush"] = pending[c]["ServerPush"]
      /\ pending'[c]["ServerPull"] = pending[c]["ServerPull"]
      /\ pending'[c]["ClientPush"] = pending[c]["ClientPush"]
      /\ pending'[c]["ClientPull"] = pending[c]["ClientPull"]
      /\ pending'[c]["Done"] = pending[c]["Done"]
      /\ pending'[c]["RunCallback"] = pending[c]["RunCallback"]
  BY <1>1, <1>4, KnownCallbacks, Counts DEF One
<1>8. /\ s.state \in {"PROCESSING", "SHUTDOWN"}
      /\ pending[c]["StartProcessing"] = 1
  BY <1>1, <1>4, Parts, Counts DEF StateFits, OneShot, ProcessHolds, Queued
<1>9. /\ CancelHolds(c)' <=> CancelHolds(c)
      /\ ResponseHolds(c)' <=> ResponseHolds(c)
      /\ ProcessHolds(c)' /\ ProcessHolds(c)
  BY <1>3, <1>4, <1>5, <1>7, <1>8 DEF CancelHolds, ResponseHolds, ProcessHolds, Queued
<1>10. Unborn(c)'
  BY <1>3, <1>5, <1>7, <1>8, Parts DEF Unborn, Queued
<1>11. Unowed(c)'
  BY <1>5, <1>8 DEF Unowed, Live
<1>12. OneShot(c)'
  BY <1>3, <1>5, <1>7, <1>8, Parts DEF OneShot, Queued
<1>13. StreamOpen(c)'
  BY <1>3, <1>5, <1>7, <1>9, Parts DEF StreamOpen, Messages, Queued
<1>14. StateFits(c)'
  BY <1>5, <1>7, <1>8, Parts DEF StateFits, Queued
<1>15. Counted(c)' /\ CountStays(c)
  <2>1. Holders(c)' \in Int /\ Holders(c)' = Holders(c)
    BY <1>9 DEF Holders, One
  <2>2. s.refs >= Holders(c)
    BY <1>8, Parts DEF Counted, Live
  <2> QED BY <1>5, <2>1, <2>2 DEF Counted, CountStays, Exact, Live
<1>16. AnswerStays(c)
  BY <1>1, <1>5, <1>7, Counts DEF AnswerStays
<1>17. Evaluation(c)'
  BY <1>3, <1>5, <1>7, <1>9, Parts DEF Evaluation, Queued
<1>18. AnswersCaller(c) /\ EndsForCause(c)
  BY <1>1, <1>3, <1>5, <1>7, Counts
     DEF AnswersCaller, EndsForCause, ClientStream, Ended, Queued
<1>19. TurnPasses(c)
  BY <1>1, <1>5, <1>7, Counts DEF TurnPasses, InTurn, One
<1> QED
  BY <1>6, <1>10, <1>11, <1>12, <1>13, <1>14, <1>15, <1>16, <1>17,
     <1>18, <1>19 DEF StepKeeps, SessionInv, ServerKeeps

LEMMA StartProcessingInvalidKeeps ==
  ASSUME NEW c \in Calls, CallInv(c), StartProcessingInvalid(c)
  PROVE  ServerKeeps(c)
<1> DEFINE s == srv[c]
           idle == [s EXCEPT !.puller = IdlePuller]
           new == ReturnErrorAdds(idle)
<1>1. RpcTypeOK /\ ServerTypeOK
  BY DEF CallInv
<1>2. IdlePuller \in Puller
  BY PushPullAssumption DEF Puller, IdlePuller
<1>3. s \in ServerSession /\ idle \in ServerSession /\ rpc[c] \in Controller
  BY <1>1, <1>2, Fields, SessionOps
<1>4. /\ Runs(c, "StartProcessing", new)
      /\ srv' = [srv EXCEPT ![c] = ReturnError(idle)]
      /\ rpc' = [rpc EXCEPT ![c] = ReturnErrorRpc(idle, rpc[c])]
      /\ BadData
  BY DEF StartProcessingInvalid, DataVerdicts
<1> HIDE DEF new
<1>5. /\ pending' \in [Calls -> [Callbacks -> Nat]]
      /\ \A d \in Calls : d # c => pending'[d] = pending[d]
      /\ pending[c]["StartProcessing"] >= 1
      /\ \A k \in Callbacks :
           pending'[c][k] = (pending[c][k] - One(k = "StartProcessing")) + One(k \in new)
  BY <1>1, <1>4, KnownCallbacks, RunsEffect
<1>6. /\ idle.state = s.state
      /\ idle.refs = s.refs
      /\ idle.answering = s.answering
      /\ idle.pusher = s.pusher
      /\ idle.puller.state = "STANDBY"
      /\ idle.evaluated = s.evaluated
  BY <1>3 DEF ServerSession, IdlePuller
<1>7. RpcTypeOK' /\ ServerTypeOK' /\ Elsewhere(c)
  BY <1>1, <1>3, <1>4, <1>5, SessionOps, ControllerOps
     DEF RpcTypeOK, ServerTypeOK, Elsewhere, ReturnErrorRpc
<1>8. \A k : k \in new <=> k = "Stopped" /\ s.answering
  BY <1>6 DEF new, ReturnErrorAdds
<1>9. /\ pending'[c]["ServerCall"] = pending[c]["ServerCall"]
      /\ pending'[c]["StartProcessing"] = pending[c]["StartProcessing"] - 1
      /\ pending'[c]["Canceled"] = pending[c]["Canceled"]
      /\ pending'[c]["Stopped"] = pending[c]["Stopped"] + One(s.answering)
      /\ pending'[c]["Delete"] = pending[c]["Delete"]
      /\ pending'[c]["ServerPush"] = pending[c]["ServerPush"]
      /\ pending'[c]["ServerPull"] = pending[c]["ServerPull"]
      /\ pending'[c]["ClientPush"] = pending[c]["ClientPush"]
      /\ pending'[c]["ClientPull"] = pending[c]["ClientPull"]
      /\ pending'[c]["Done"] = pending[c]["Done"]
      /\ pending'[c]["RunCallback"] = pending[c]["RunCallback"]
  BY <1>1, <1>5, <1>8, KnownCallbacks, Counts DEF One
<1>10. /\ s.state \in {"PROCESSING", "SHUTDOWN"}
       /\ pending[c]["StartProcessing"] = 1
  BY <1>1, <1>5, Parts, Counts DEF StateFits, OneShot, ProcessHolds, Queued
<1>11. /\ srv'[c].state = "SHUTDOWN"
       /\ srv'[c].refs = s.refs
       /\ srv'[c].answering = FALSE
       /\ srv'[c].puller.state = "STANDBY"
       /\ srv'[c].evaluated = s.evaluated
  <2>1. s.answering \in BOOLEAN /\ (s.state = "PROCESSING" => s.answering)
    BY <1>1, Fields, Parts DEF StateFits
  <2>2. srv'[c] = ReturnError(idle)
    BY <1>1, <1>4 DEF ServerTypeOK
  <2> HIDE DEF idle
  <2>3. /\ ReturnError(idle).refs = idle.refs
        /\ ReturnError(idle).evaluated = idle.evaluated
        /\ ~idle.answering => ReturnError(idle) = idle
        /\ idle.answering =>
             /\ ReturnError(idle).state = "SHUTDOWN"
             /\ ~ReturnError(idle).answering
             /\ idle.state # "RECEIVING" => ReturnError(idle).puller = idle.puller
    BY <1>3, SessionFields
  <2>4. ReturnError(idle).answering \in BOOLEAN
    BY <1>3, SessionOps DEF ServerSession
  <2> QED BY <1>6, <1>10, <2>1, <2>2, <2>3, <2>4
<1>12. /\ rpc'[c].status = rpc[c].status
       /\ rpc'[c].cancelCallback = rpc[c].cancelCallback
       /\ rpc'[c].serverReceiving => rpc[c].serverReceiving /\ ~s.answering
       /\ rpc'[c].fake = rpc[c].fake
       /\ rpc'[c].canceled = rpc[c].canceled
       /\ rpc'[c].response = rpc[c].response
  BY <1>1, <1>3, <1>4, <1>6 DEF RpcTypeOK, Controller, ReturnErrorRpc, StopReceivingStream
<1>13. /\ CancelHolds(c)' <=> CancelHolds(c)
       /\ ResponseHolds(c)' <=> ResponseHolds(c)
       /\ ~ProcessHolds(c)'
  BY <1>1, <1>9, <1>10, <1>11, <1>12, Counts, Fields
     DEF CancelHolds, ResponseHolds, ProcessHolds, Queued, One
<1>14. Unborn(c)'
  BY <1>9, <1>10, <1>11, <1>12, Parts DEF Unborn, Queued
<1>15. Unowed(c)'
  BY <1>11 DEF Unowed, Live
<1>16. OneShot(c)'
  BY <1>1, <1>9, <1>10, <1>11, <1>12, Parts, Counts, Fields DEF OneShot, Queued, One
<1>17. StreamOpen(c)'
  <2>1. ~rpc'[c].serverReceiving
    BY <1>1, <1>12, Parts, Fields DEF StreamOpen
  <2> QED BY <1>9, <1>13, <2>1, Parts DEF StreamOpen, Messages, Queued
<1>18. StateFits(c)'
  BY <1>9, <1>11, <1>13, Parts DEF StateFits, Queued, ProcessHolds
<1>19. Counted(c)'
  <2>1. Holders(c)' \in Int /\ Holders(c) \in Int /\ Holders(c)' <= Holders(c)
    BY <1>13 DEF Holders, One
  <2>2. s.refs >= Holders(c)
    BY <1>10, Parts DEF Counted, Live
  <2> QED BY <1>1, <1>11, <2>1, <2>2, Fields DEF Counted
<1>20. AnswerStays(c)
  BY <1>1, <1>9, <1>11, Parts, Counts, Fields DEF AnswerStays, StateFits, One
<1>21. Evaluation(c)'
  BY <1>9, <1>11, <1>12, Parts DEF Evaluation, Queued
<1>22. AnswersCaller(c) /\ TurnPasses(c)
  BY <1>1, <1>9, <1>11, <1>12, Counts
     DEF AnswersCaller, TurnPasses, ClientStream, InTurn, One
<1>23. EndsForCause(c) /\ CountStays(c)
  BY <1>4, <1>9, <1>10, <1>12, Parts
     DEF EndsForCause, CountStays, Ended, Unborn, Queued
<1> QED
  BY <1>7, <1>14, <1>15, <1>16, <1>17, <1>18, <1>19, <1>20, <1>21,
     <1>22, <1>23 DEF StepKeeps, SessionInv, ServerKeeps


LEMMA DoneProcessingKeeps ==
  ASSUME NEW c \in Calls, CallInv(c), DoneProcessing(c)
  PROVE  ServerKeeps(c)
<1> DEFINE s == srv[c]
           idle == [s EXCEPT !.puller = IdlePuller, !.evaluated = TRUE]
           sending == s.state = "PROCESSING"
           t == IF sending
                THEN [idle EXCEPT !.state = "SENDING", !.pusher = "SENT_INITIAL_VALUE"]
                ELSE idle
           new == UnrefAdds(t) \cup
                    (IF sending THEN SendToClientAdds(rpc[c], "ClientPush") ELSE {})
<1>1. RpcTypeOK /\ ServerTypeOK
  BY DEF CallInv
<1>2. IdlePuller \in Puller /\ s \in ServerSession
  BY <1>1, Fields, PushPullAssumption DEF Puller, IdlePuller
<1>3. /\ idle \in ServerSession
      /\ idle.state = s.state
      /\ idle.refs = s.refs
      /\ idle.answering = s.answering
      /\ idle.pusher = s.pusher
      /\ idle.puller.state = "STANDBY"
      /\ idle.evaluated
  BY <1>2 DEF ServerSession, IdlePuller
<1>4. s.puller.state = "UNMARSHALLING"
  BY DEF DoneProcessing
<1>5. Add(c, new) /\ srv' = [srv EXCEPT ![c] = Unref(t)] /\ rpc' = rpc
  BY <1>3 DEF DoneProcessing, ResultWanted
<1> HIDE DEF idle
<1>6. /\ t \in ServerSession
      /\ t.state = IF sending THEN "SENDING" ELSE s.state
      /\ t.refs = s.refs
      /\ t.answering = s.answering
      /\ t.pusher = IF sending THEN "SENT_INITIAL_VALUE" ELSE s.pusher
      /\ t.puller.state = "STANDBY"
      /\ t.evaluated
  BY <1>3 DEF ServerSession, PusherState
<1> HIDE DEF t, new
<1>7. /\ srv'[c] \in ServerSession
      /\ srv'[c].state = IF sending THEN "SENDING" ELSE s.state
      /\ srv'[c].refs = s.refs - 1
      /\ srv'[c].answering = s.answering
      /\ srv'[c].pusher = IF sending THEN "SENT_INITIAL_VALUE" ELSE s.pusher
      /\ srv'[c].puller.state = "STANDBY"
      /\ srv'[c].evaluated
  <2>1. srv'[c] = Unref(t)
    BY <1>1, <1>5 DEF ServerTypeOK
  <2>2. /\ Unref(t) \in ServerSession
        /\ Unref(t).refs = t.refs - 1
        /\ Unref(t).state = t.state
        /\ Unref(t).answering = t.answering
        /\ Unref(t).pusher = t.pusher
        /\ Unref(t).puller = t.puller
        /\ Unref(t).evaluated = t.evaluated
    BY <1>6, SessionOps, SessionFields
  <2> QED BY <1>6, <2>1, <2>2
<1>8. /\ pending' \in [Calls -> [Callbacks -> Nat]]
      /\ \A d \in Calls : d # c => pending'[d] = pending[d]
      /\ \A k \in Callbacks : pending'[c][k] = pending[c][k] + One(k \in new)
  BY <1>1, <1>5, AddEffect
<1>9. RpcTypeOK' /\ ServerTypeOK' /\ Elsewhere(c)
  BY <1>1, <1>5, <1>7, <1>8 DEF RpcTypeOK, ServerTypeOK, Elsewhere
<1>10. \A k \in Callbacks \ {"ClientPush"} : k \in new <=> k = "Delete" /\ s.refs = 1
  BY <1>6 DEF new, UnrefAdds, SendToClientAdds
<1>11. /\ pending'[c]["ServerCall"] = pending[c]["ServerCall"]
       /\ pending'[c]["StartProcessing"] = pending[c]["StartProcessing"]
       /\ pending'[c]["Canceled"] = pending[c]["Canceled"]
       /\ pending'[c]["Stopped"] = pending[c]["Stopped"]
       /\ pending'[c]["Delete"] = pending[c]["Delete"] + One(s.refs = 1)
       /\ pending'[c]["ServerPush"] = pending[c]["ServerPush"]
       /\ pending'[c]["ServerPull"] = pending[c]["ServerPull"]
       /\ pending'[c]["ClientPush"] = pending[c]["ClientPush"] + One("ClientPush" \in new)
       /\ pending'[c]["ClientPull"] = pending[c]["ClientPull"]
       /\ pending'[c]["Done"] = pending[c]["Done"]
       /\ pending'[c]["RunCallback"] = pending[c]["RunCallback"]
  BY <1>1, <1>8, <1>10, KnownCallbacks, Counts DEF One
<1>12. /\ s.state \in {"PROCESSING", "SHUTDOWN"}
       /\ pending[c]["StartProcessing"] = 0
       /\ ProcessHolds(c) /\ ~ProcessHolds(c)'
  BY <1>1, <1>4, <1>7, <1>11, Parts, Counts DEF StateFits, OneShot, ProcessHolds, Queued
<1>13. /\ CancelHolds(c)' <=> CancelHolds(c)
       /\ ResponseHolds(c)' <=> ResponseHolds(c)
  BY <1>5, <1>7, <1>11 DEF CancelHolds, ResponseHolds, Queued
<1>14. Holders(c)' \in Int /\ Holders(c) \in Int /\ Holders(c)' = Holders(c) - 1 /\ Holders(c)' >= 0
  BY <1>12, <1>13 DEF Holders, One
<1>15. s.refs \in Int /\ s.refs >= Holders(c)
  BY <1>1, <1>12, Parts, Fields DEF Counted, Live
<1>16. s.refs >= 1 /\ pending[c]["Delete"] = 0
  BY <1>1, <1>14, <1>15, Parts, Counts DEF StateFits, Queued
<1>17. s.refs = 1 => s.state = "SHUTDOWN"
  <2>1. s.state = "PROCESSING" => ResponseHolds(c)
    BY Parts DEF StateFits, ResponseHolds
  <2>2. ResponseHolds(c) => Holders(c) >= 2
    BY <1>12 DEF Holders, One
  <2> QED BY <1>12, <1>15, <2>1, <2>2, <1>14
<1>18. Unborn(c)'
  BY <1>5, <1>7, <1>11, <1>12, Parts DEF Unborn, Queued
<1>19. Unowed(c)'
  BY <1>7, <1>12 DEF Unowed, Live
<1>20. OneShot(c)'
  BY <1>1, <1>5, <1>7, <1>11, <1>16, Parts, Counts, Fields DEF OneShot, Queued, One
<1>21. StreamOpen(c)'
  BY <1>5, <1>7, <1>11, <1>13, Parts DEF StreamOpen, Messages, Queued
<1>22. StateFits(c)'
  BY <1>7, <1>11, <1>12, <1>15, <1>16, <1>17, Parts DEF StateFits, Queued, ProcessHolds, One
<1>23. Counted(c)' /\ CountStays(c)
  BY <1>7, <1>12, <1>14, <1>15 DEF Counted, CountStays, Exact, Live
<1>24. AnswerStays(c)
  BY <1>1, <1>7, <1>11, <1>12, Counts DEF AnswerStays
<1>25. "ClientPush" \in new => rpc[c].status = "open"
  BY DEF new, UnrefAdds, SendToClientAdds
<1>26. Evaluation(c)'
  BY <1>5, <1>7, <1>12, Parts DEF Evaluation
<1>27. AnswersCaller(c)
  BY <1>1, <1>5, <1>11, <1>25, Counts DEF AnswersCaller, ClientStream, One
<1>28. TurnPasses(c)
  BY <1>1, <1>4, <1>7, <1>11, Counts DEF TurnPasses, InTurn, One
<1>29. EndsForCause(c)
  BY <1>5, <1>7, <1>11, <1>12 DEF EndsForCause, Ended, Queued
<1> QED
  BY <1>9, <1>18, <1>19, <1>20, <1>21, <1>22, <1>23, <1>24, <1>26,
     <1>27, <1>28, <1>29 DEF StepKeeps, SessionInv, ServerKeeps

(* The end of the response, and of the session.                            *)
LEMMA StoppedKeeps ==
  ASSUME NEW c \in Calls, CallInv(c), StoppedReceivingStream(c)
  PROVE  ServerKeeps(c)
<1> DEFINE s == srv[c]
           new == UnrefAdds(s) \cup RespondAdds(rpc[c])
<1>1. RpcTypeOK /\ ServerTypeOK
  BY DEF CallInv
<1>2. s \in ServerSession /\ rpc[c] \in Controller
  BY <1>1, Fields
<1>3. /\ Runs(c, "Stopped", new)
      /\ srv' = [srv EXCEPT ![c] = Unref(s)]
      /\ rpc' = [rpc EXCEPT ![c] = Respond(rpc[c], "error")]
      /\ ~Messages(c)
  BY DEF StoppedReceivingStream, StreamDrained, Messages, ServerStream
<1> HIDE DEF new
<1>4. /\ pending' \in [Calls -> [Callbacks -> Nat]]
      /\ \A d \in Calls : d # c => pending'[d] = pending[d]
      /\ pending[c]["Stopped"] >= 1
      /\ \A k \in Callbacks :
           pending'[c][k] = (pending[c][k] - One(k = "Stopped")) + One(k \in new)
  BY <1>1, <1>3, KnownCallbacks, RunsEffect
<1>5. RpcTypeOK' /\ ServerTypeOK' /\ Elsewhere(c)
  BY <1>1, <1>2, <1>3, <1>4, SessionOps, ControllerOps DEF RpcTypeOK, ServerTypeOK, Elsewhere
<1>6. \A k : k \in new <=> \/ k = "Delete" /\ s.refs = 1
                           \/ k = "Canceled" /\ rpc[c].cancelCallback /\ ~rpc[c].fake
                           \/ k = "Done" /\ rpc[c].status = "open"
  BY DEF new, UnrefAdds, RespondAdds
<1>7. /\ pending'[c]["ServerCall"] = pending[c]["ServerCall"]
      /\ pending'[c]["StartProcessing"] = pending[c]["StartProcessing"]
      /\ pending'[c]["Canceled"] =
           pending[c]["Canceled"] + One(rpc[c].cancelCallback /\ ~rpc[c].fake)
      /\ pending'[c]["Stopped"] = pending[c]["Stopped"] - 1
      /\ pending'[c]["Delete"] = pending[c]["Delete"] + One(s.refs = 1)
      /\ pending'[c]["ServerPush"] = pending[c]["ServerPush"]
      /\ pending'[c]["ServerPull"] = pending[c]["ServerPull"]
      /\ pending'[c]["ClientPush"] = pending[c]["ClientPush"]
      /\ pending'[c]["ClientPull"] = pending[c]["ClientPull"]
      /\ pending'[c]["Done"] = pending[c]["Done"] + One(rpc[c].status = "open")
      /\ pending'[c]["RunCallback"] = pending[c]["RunCallback"]
  BY <1>1, <1>4, <1>6, KnownCallbacks, Counts DEF One
<1>8. /\ srv'[c].state = s.state
      /\ srv'[c].refs = s.refs - 1
      /\ srv'[c].answering = s.answering
      /\ srv'[c].puller = s.puller
      /\ srv'[c].pusher = s.pusher
      /\ srv'[c].evaluated = s.evaluated
  BY <1>1, <1>2, <1>3, SessionFields DEF ServerTypeOK
<1>9. /\ rpc'[c].status = "over"
      /\ rpc'[c].cancelCallback <=> rpc[c].cancelCallback /\ rpc[c].fake
      /\ rpc'[c].serverReceiving = rpc[c].serverReceiving
      /\ rpc'[c].fake = rpc[c].fake
      /\ rpc'[c].canceled = rpc[c].canceled
      /\ rpc'[c].response \in {rpc[c].response, "error"}
  BY <1>1, <1>2, <1>3, FakesAssumption DEF RpcTypeOK, Controller, Respond
<1>10. /\ s.state = "SHUTDOWN" /\ ~s.answering
       /\ pending[c]["Stopped"] = 1
       /\ ResponseHolds(c) /\ ~ResponseHolds(c)'
  BY <1>1, <1>4, <1>7, <1>8, Parts, Counts, Fields
     DEF StateFits, OneShot, ResponseHolds, Queued
<1>11. CancelHolds(c)' <=> CancelHolds(c)
  BY <1>1, <1>7, <1>9, Counts DEF CancelHolds, Queued, One
<1>12. ProcessHolds(c)' <=> ProcessHolds(c)
  BY <1>7, <1>8 DEF ProcessHolds, Queued
<1>13. Holders(c)' \in Int /\ Holders(c) \in Int /\ Holders(c)' = Holders(c) - 1 /\ Holders(c)' >= 0
  BY <1>10, <1>11, <1>12 DEF Holders, One
<1>14. s.refs \in Int /\ s.refs >= Holders(c)
  BY <1>1, <1>10, Parts, Fields DEF Counted, Live
<1>15. s.refs >= 1 /\ pending[c]["Delete"] = 0
  BY <1>1, <1>13, <1>14, Parts, Counts DEF StateFits, Queued
<1>16. Unborn(c)'
  BY <1>7, <1>8, <1>9, <1>10, Parts DEF Unborn, Queued
<1>17. Unowed(c)'
  BY <1>8, <1>10 DEF Unowed, Live
<1>18. OneShot(c)'
  BY <1>1, <1>7, <1>8, <1>9, <1>10, <1>15, Parts, Counts, Fields DEF OneShot, Queued, One
<1>19. StreamOpen(c)'
  BY <1>3, <1>7, <1>8, <1>9, <1>10, Parts DEF StreamOpen, Messages, Queued
<1>20. StateFits(c)'
  BY <1>7, <1>8, <1>10, <1>12, <1>14, <1>15, Parts DEF StateFits, Queued, One
<1>21. Counted(c)' /\ CountStays(c)
  BY <1>8, <1>10, <1>13, <1>14 DEF Counted, CountStays, Exact, Live
<1>22. AnswerStays(c)
  BY <1>1, <1>7, <1>8, Counts DEF AnswerStays
<1>23. Evaluation(c)'
  BY <1>7, <1>8, <1>9, <1>10, Parts DEF Evaluation, Queued
<1>24. AnswersCaller(c)
  <2>1. rpc[c].status \in {"open", "over"}
    BY <1>1, <1>10, Parts, Fields DEF Unborn
  <2> QED BY <1>1, <1>7, <1>9, <2>1, Counts DEF AnswersCaller, ClientStream, One
<1>25. TurnPasses(c)
  BY <1>1, <1>7, <1>8, Counts DEF TurnPasses, InTurn, One
<1>26. EndsForCause(c)
  BY <1>1, <1>7, <1>8, <1>9, <1>10, Counts DEF EndsForCause, Ended, Queued, One
<1> QED
  BY <1>5, <1>16, <1>17, <1>18, <1>19, <1>20, <1>21, <1>22, <1>23,
     <1>24, <1>25, <1>26 DEF StepKeeps, SessionInv, ServerKeeps

LEMMA DeleteKeeps ==
  ASSUME NEW c \in Calls, CallInv(c), Delete(c)
  PROVE  ServerKeeps(c)
<1> DEFINE s == srv[c]
<1>1. RpcTypeOK /\ ServerTypeOK
  BY DEF CallInv
<1>2. Runs(c, "Delete", {}) /\ srv' = [srv EXCEPT ![c].state = "FREED"] /\ rpc' = rpc
  BY DEF Delete
<1>3. /\ pending' \in [Calls -> [Callbacks -> Nat]]
      /\ \A d \in Calls : d # c => pending'[d] = pending[d]
      /\ pending[c]["Delete"] >= 1
      /\ \A k \in Callbacks :
           pending'[c][k] = (pending[c][k] - One(k = "Delete")) + One(k \in {})
  BY <1>1, <1>2, KnownCallbacks, RunsEffect
<1>4. /\ srv'[c] \in ServerSession
      /\ srv'[c].state = "FREED"
      /\ srv'[c].answering = s.answering
      /\ srv'[c].puller = s.puller
      /\ srv'[c].evaluated = s.evaluated
  BY <1>1, <1>2, Fields DEF ServerTypeOK, ServerSession
<1>5. RpcTypeOK' /\ ServerTypeOK' /\ Elsewhere(c)
  BY <1>1, <1>2, <1>3, <1>4 DEF RpcTypeOK, ServerTypeOK, Elsewhere
<1>6. /\ pending'[c]["ServerCall"] = pending[c]["ServerCall"]
      /\ pending'[c]["StartProcessing"] = pending[c]["StartProcessing"]
      /\ pending'[c]["Canceled"] = pending[c]["Canceled"]
      /\ pending'[c]["Stopped"] = pending[c]["Stopped"]
      /\ pending'[c]["Delete"] = pending[c]["Delete"] - 1
      /\ pending'[c]["ServerPush"] = pending[c]["ServerPush"]
      /\ pending'[c]["ServerPull"] = pending[c]["ServerPull"]
      /\ pending'[c]["ClientPush"] = pending[c]["ClientPush"]
      /\ pending'[c]["ClientPull"] = pending[c]["ClientPull"]
      /\ pending'[c]["Done"] = pending[c]["Done"]
      /\ pending'[c]["RunCallback"] = pending[c]["RunCallback"]
  BY <1>1, <1>3, KnownCallbacks, Counts DEF One
<1>7. s.state = "SHUTDOWN" /\ s.refs = 0 /\ pending[c]["Delete"] = 1
  BY <1>1, <1>3, Parts, Counts DEF StateFits, OneShot, Queued
<1>8. ~CancelHolds(c) /\ ~ResponseHolds(c) /\ ~ProcessHolds(c)
  BY <1>7, Parts DEF Counted, Live, Holders, One
<1>9. ~Messages(c)
  BY <1>8, Parts DEF StreamOpen
<1>10. ~CancelHolds(c)' /\ ~ResponseHolds(c)' /\ ~ProcessHolds(c)' /\ ~Messages(c)'
  BY <1>2, <1>4, <1>6, <1>8, <1>9 DEF CancelHolds, ResponseHolds, ProcessHolds, Messages, Queued
<1>11. ~Queued(c, "Delete")'
  BY <1>6, <1>7 DEF Queued
<1>12. Unborn(c)'
  BY <1>2, <1>4, <1>6, <1>7, Parts DEF Unborn, Queued
<1>13. Unowed(c)'
  BY <1>10, <1>11 DEF Unowed
<1>14. OneShot(c)'
  BY <1>2, <1>4, <1>6, <1>7, Parts DEF OneShot, Queued
<1>15. StreamOpen(c)'
  BY <1>2, <1>4, <1>10, Parts DEF StreamOpen
<1>16. StateFits(c)'
  BY <1>4, <1>10, <1>11 DEF StateFits, ResponseHolds, ProcessHolds
<1>17. Counted(c)'
  BY <1>4 DEF Counted, Live
<1>18. AnswerStays(c)
  BY <1>1, <1>4, <1>6, Counts DEF AnswerStays
<1>19. Evaluation(c)'
  BY <1>2, <1>4, <1>6, Parts DEF Evaluation, Queued
<1>20. AnswersCaller(c) /\ TurnPasses(c)
  BY <1>1, <1>2, <1>4, <1>6, Counts
     DEF AnswersCaller, TurnPasses, ClientStream, InTurn, One
<1>21. EndsForCause(c) /\ CountStays(c)
  BY <1>2, <1>4, <1>6, <1>7 DEF EndsForCause, CountStays, Exact, Ended, Live, Queued
<1> QED
  BY <1>5, <1>12, <1>13, <1>14, <1>15, <1>16, <1>17, <1>18, <1>19,
     <1>20, <1>21 DEF StepKeeps, SessionInv, ServerKeeps


(* What a push leaves of a session that is waiting for one.                *)
LEMMA ProcessFields ==
  ASSUME NEW t \in ServerSession
  PROVE  LET u == [t EXCEPT !.state = "PROCESSING", !.refs = @ + 1]
         IN /\ u \in ServerSession
            /\ u.state = "PROCESSING"
            /\ u.refs = t.refs + 1
            /\ u.answering = t.answering
            /\ u.pusher = t.pusher
            /\ u.puller = t.puller
            /\ u.evaluated = t.evaluated
<1> DEFINE v == [t EXCEPT !.state = "PROCESSING"]
           u == [v EXCEPT !.refs = @ + 1]
<1>1. /\ v \in ServerSession
      /\ v.state = "PROCESSING"
      /\ v.refs = t.refs
      /\ v.answering = t.answering
      /\ v.pusher = t.pusher
      /\ v.puller = t.puller
      /\ v.evaluated = t.evaluated
  BY DEF ServerSession
<1> HIDE DEF v
<1>2. /\ u \in ServerSession
      /\ u.state = v.state
      /\ u.refs = v.refs + 1
      /\ u.answering = v.answering
      /\ u.pusher = v.pusher
      /\ u.puller = v.puller
      /\ u.evaluated = v.evaluated
  BY <1>1 DEF ServerSession
<1> QED BY <1>1, <1>2 DEF v

LEMMA PushReceivedEffect ==
  ASSUME NEW s \in ServerSession, s.state = "RECEIVING", s.answering,
         NEW o \in ReceivePush(s.puller), s.puller.state = "STARTED"
  PROVE  /\ PushReceived(s, o) \in ServerSession
         /\ PushReceived(s, o).state = IF o.status = "READY" THEN "PROCESSING"
                                       ELSE IF o.status = "ERROR" THEN "SHUTDOWN"
                                       ELSE "RECEIVING"
         /\ PushReceived(s, o).refs = s.refs + One(o.status = "READY")
         /\ PushReceived(s, o).answering <=> o.status # "ERROR"
         /\ PushReceived(s, o).pusher = s.pusher
         /\ PushReceived(s, o).evaluated = s.evaluated
         /\ PushReceived(s, o).puller.state =
              IF o.status = "READY" THEN "READY_TO_UNMARSHAL"
              ELSE IF o.status = "ERROR" THEN "STANDBY"
              ELSE "STARTED"
<1> DEFINE t == [s EXCEPT !.puller = o.puller]
<1>1. s.puller \in Puller
  BY DEF ServerSession
<1>2. /\ o.puller \in Puller
      /\ o.status \in {"PULL", "WAITING", "READY", "ERROR"}
      /\ o.status \in {"PULL", "WAITING"} => o.puller.state = "STARTED"
      /\ o.status = "READY" => o.puller.state = "READY_TO_UNMARSHAL"
  BY <1>1, PullerOutcomes
<1>3. /\ t \in ServerSession
      /\ t.state = "RECEIVING"
      /\ t.refs = s.refs
      /\ t.answering
      /\ t.pusher = s.pusher
      /\ t.puller = o.puller
      /\ t.evaluated = s.evaluated
  BY <1>2 DEF ServerSession
<1>4. CASE o.status \in {"PULL", "WAITING"}
  <2>1. PushReceived(s, o) = t
    BY <1>4 DEF PushReceived
  <2> HIDE DEF t
  <2>2. s.refs \in Int
    BY DEF ServerSession
  <2> QED BY <1>2, <1>3, <1>4, <2>1, <2>2 DEF One
<1>5. CASE o.status = "READY"
  <2>1. PushReceived(s, o) = [t EXCEPT !.state = "PROCESSING", !.refs = @ + 1]
    BY <1>5 DEF PushReceived
  <2> DEFINE u == [t EXCEPT !.state = "PROCESSING", !.refs = @ + 1]
  <2> HIDE DEF t
  <2>2. /\ u \in ServerSession
        /\ u.state = "PROCESSING"
        /\ u.refs = t.refs + 1
        /\ u.answering = t.answering
        /\ u.pusher = t.pusher
        /\ u.puller = t.puller
        /\ u.evaluated = t.evaluated
    BY <1>3, ProcessFields, ZenonT(30)
  <2> QED BY <1>2, <1>3, <1>5, <2>1, <2>2 DEF One
<1>6. CASE o.status = "ERROR"
  <2>1. PushReceived(s, o) = ReturnError(t)
    BY <1>6 DEF PushReceived
  <2> HIDE DEF t
  <2>2. /\ ReturnError(t) \in ServerSession
        /\ ReturnError(t).refs = t.refs
        /\ ReturnError(t).evaluated = t.evaluated
        /\ ReturnError(t).state = "SHUTDOWN"
        /\ ~ReturnError(t).answering
        /\ ReturnError(t).puller.state = "STANDBY"
        /\ t.state = "SENDING" \/ ReturnError(t).pusher = t.pusher
    BY <1>3, SessionOps, SessionFields
  <2>3. s.refs \in Int
    BY DEF ServerSession
  <2> QED BY <1>3, <1>6, <2>1, <2>2, <2>3 DEF One
<1> QED BY <1>2, <1>4, <1>5, <1>6

LEMMA PushReceivedQueues ==
  ASSUME NEW r \in Controller, NEW o,
         o.status \in {"PULL", "WAITING", "READY", "ERROR"}
  PROVE  /\ PushReceivedRpc(r, o) \in Controller
         /\ PushReceivedRpc(r, o).fake = r.fake
         /\ PushReceivedRpc(r, o).status = r.status
         /\ PushReceivedRpc(r, o).response = r.response
         /\ PushReceivedRpc(r, o).canceled = r.canceled
         /\ PushReceivedRpc(r, o).cancelCallback = r.cancelCallback
         /\ PushReceivedRpc(r, o).serverReceiving => o.status # "ERROR"
         /\ \A k : k \in PushReceivedAdds(r, o) <=>
              \/ k = "StartProcessing" /\ o.status = "READY"
              \/ k = "Stopped" /\ o.status = "ERROR"
              \/ k = "ClientPull" /\ o.status = "PULL" /\ r.status = "open"
<1>1. /\ PushReceivedRpc(r, o) \in Controller
      /\ PushReceivedRpc(r, o).fake = r.fake
      /\ PushReceivedRpc(r, o).status = r.status
      /\ PushReceivedRpc(r, o).response = r.response
      /\ PushReceivedRpc(r, o).canceled = r.canceled
      /\ PushReceivedRpc(r, o).cancelCallback = r.cancelCallback
      /\ PushReceivedRpc(r, o).serverReceiving => o.status # "ERROR"
  BY DEF PushReceivedRpc, StopReceivingStream, Controller
<1>2. \A k : k \in PushReceivedAdds(r, o) <=>
        \/ k = "StartProcessing" /\ o.status = "READY"
        \/ k = "Stopped" /\ o.status = "ERROR"
        \/ k = "ClientPull" /\ o.status = "PULL" /\ r.status = "open"
  BY DEF PushReceivedAdds, SendToClientAdds
<1> QED BY <1>1, <1>2

LEMMA ReceivePushKeeps ==
  ASSUME NEW c \in Calls, CallInv(c), ReceivePushMessage(c)
  PROVE  ServerKeeps(c)
<1> DEFINE s == srv[c]
<1>1. RpcTypeOK /\ ServerTypeOK
  BY DEF CallInv
<1>2. s \in ServerSession /\ s.puller \in Puller /\ rpc[c] \in Controller
  BY <1>1, Fields
<1>3. s.state = "RECEIVING" /\ s.answering /\ s.puller.state = "STARTED"
  BY Parts DEF ReceivePushMessage, StateFits
<1>4. PICK o \in ReceivePush(s.puller) :
        /\ Runs(c, "ServerPush", PushReceivedAdds(rpc[c], o))
        /\ srv' = [srv EXCEPT ![c] = PushReceived(s, o)]
        /\ rpc' = [rpc EXCEPT ![c] = PushReceivedRpc(rpc[c], o)]
  BY DEF ReceivePushMessage
<1> DEFINE new == PushReceivedAdds(rpc[c], o)
<1>5. /\ o.status \in {"PULL", "WAITING", "READY", "ERROR"}
      /\ o.status = "ERROR" => BadData
  BY <1>2, <1>4, PullerOutcomes
<1>6. /\ PushReceivedRpc(rpc[c], o) \in Controller
      /\ \A k : k \in new <=>
           \/ k = "StartProcessing" /\ o.status = "READY"
           \/ k = "Stopped" /\ o.status = "ERROR"
           \/ k = "ClientPull" /\ o.status = "PULL" /\ rpc[c].status = "open"
  BY <1>2, <1>5, PushReceivedQueues
<1> HIDE DEF new
<1>7. /\ pending' \in [Calls -> [Callbacks -> Nat]]
      /\ \A d \in Calls : d # c => pending'[d] = pending[d]
      /\ pending[c]["ServerPush"] >= 1
      /\ \A k \in Callbacks :
           pending'[c][k] = (pending[c][k] - One(k = "ServerPush")) + One(k \in new)
  BY <1>1, <1>4, KnownCallbacks, RunsEffect DEF new
<1>8. /\ srv'[c] \in ServerSession
      /\ srv'[c].state = IF o.status = "READY" THEN "PROCESSING"
                         ELSE IF o.status = "ERROR" THEN "SHUTDOWN"
                         ELSE "RECEIVING"
      /\ srv'[c].refs = s.refs + One(o.status = "READY")
      /\ srv'[c].answering <=> o.status # "ERROR"
      /\ srv'[c].pusher = s.pusher
      /\ srv'[c].evaluated = s.evaluated
      /\ srv'[c].puller.state = IF o.status = "READY" THEN "READY_TO_UNMARSHAL"
                                ELSE IF o.status = "ERROR" THEN "STANDBY"
                                ELSE "STARTED"
  <2>1. srv'[c] = PushReceived(s, o)
    BY <1>1, <1>4 DEF ServerTypeOK
  <2> QED BY <1>2, <1>3, <1>4, <2>1, PushReceivedEffect
<1>9. /\ rpc'[c].status = rpc[c].status
      /\ rpc'[c].cancelCallback = rpc[c].cancelCallback
      /\ rpc'[c].serverReceiving => o.status # "ERROR"
      /\ rpc'[c].fake = rpc[c].fake
      /\ rpc'[c].canceled = rpc[c].canceled
      /\ rpc'[c].response = rpc[c].response
  <2>1. rpc'[c] = PushReceivedRpc(rpc[c], o)
    BY <1>1, <1>4 DEF RpcTypeOK
  <2> QED BY <1>2, <1>5, <2>1, PushReceivedQueues
<1>10. RpcTypeOK' /\ ServerTypeOK' /\ Elsewhere(c)
  BY <1>1, <1>4, <1>6, <1>7, <1>8 DEF RpcTypeOK, ServerTypeOK, Elsewhere
<1>11. /\ pending'[c]["ServerCall"] = pending[c]["ServerCall"]
       /\ pending'[c]["StartProcessing"] =
            pending[c]["StartProcessing"] + One(o.status = "READY")
       /\ pending'[c]["Canceled"] = pending[c]["Canceled"]
       /\ pending'[c]["Stopped"] = pending[c]["Stopped"] + One(o.status = "ERROR")
       /\ pending'[c]["Delete"] = pending[c]["Delete"]
       /\ pending'[c]["ServerPush"] = pending[c]["ServerPush"] - 1
       /\ pending'[c]["ServerPull"] = pending[c]["ServerPull"]
       /\ pending'[c]["ClientPush"] = pending[c]["ClientPush"]
       /\ pending'[c]["ClientPull"] = pending[c]["ClientPull"]
            + One(o.status = "PULL" /\ rpc[c].status = "open")
       /\ pending'[c]["Done"] = pending[c]["Done"]
       /\ pending'[c]["RunCallback"] = pending[c]["RunCallback"]
  BY <1>1, <1>6, <1>7, KnownCallbacks, Counts DEF One
<1>12. /\ pending[c]["StartProcessing"] = 0 /\ ~ProcessHolds(c)
       /\ pending[c]["Stopped"] = 0
       /\ pending[c]["Delete"] = 0
       /\ ResponseHolds(c)
  BY <1>1, <1>3, Parts, Counts DEF StateFits, OneShot, ProcessHolds, ResponseHolds, Queued
<1>13. CancelHolds(c)' <=> CancelHolds(c)
  BY <1>9, <1>11 DEF CancelHolds, Queued
<1>14. ResponseHolds(c)'
  BY <1>8, <1>11, <1>12 DEF ResponseHolds, Queued, One
<1>15. ProcessHolds(c)' <=> o.status = "READY"
  BY <1>8, <1>11, <1>12 DEF ProcessHolds, Queued, One
<1>16. Unborn(c)'
  BY <1>3, <1>8, <1>9, <1>11, Parts DEF Unborn, Queued
<1>17. Unowed(c)'
  BY <1>8 DEF Unowed, Live
<1>18. OneShot(c)'
  BY <1>8, <1>9, <1>11, <1>12, Parts DEF OneShot, Queued, One
<1>19. StreamOpen(c)'
  BY <1>8, <1>9, <1>14 DEF StreamOpen
<1>20. StateFits(c)'
  BY <1>3, <1>5, <1>8, <1>11, <1>12, <1>15, Parts DEF StateFits, Queued, One
<1>21. Counted(c)' /\ CountStays(c)
  <2>1. Holders(c)' \in Int /\ Holders(c)' = Holders(c) + One(o.status = "READY")
    BY <1>12, <1>13, <1>14, <1>15 DEF Holders, One
  <2>2. Holders(c) \in Int /\ s.refs \in Int /\ s.refs >= Holders(c)
    BY <1>1, <1>3, Parts, Fields DEF Counted, Live, Holders, One
  <2> QED BY <1>3, <1>8, <2>1, <2>2 DEF Counted, CountStays, Exact, Live, One
<1>22. AnswerStays(c)
  BY <1>3 DEF AnswerStays
<1>23. Evaluation(c)'
  BY <1>3, <1>5, <1>8, <1>9, <1>11, <1>15, Parts DEF Evaluation, Queued
<1>24. AnswersCaller(c)
  BY <1>1, <1>9, <1>11, Counts DEF AnswersCaller, ClientStream, One
<1>25. TurnPasses(c)
  <2>1. ~s.evaluated
    BY <1>3, Parts DEF Evaluation
  <2> QED BY <1>1, <1>3, <1>5, <1>8, <1>11, <2>1, Counts DEF TurnPasses, InTurn, One
<1>26. EndsForCause(c)
  BY <1>3, <1>5, <1>8, <1>9, <1>11 DEF EndsForCause, Ended, Queued
<1> QED
  BY <1>10, <1>16, <1>17, <1>18, <1>19, <1>20, <1>21, <1>22, <1>23,
     <1>24, <1>25, <1>26 DEF StepKeeps, SessionInv, ServerKeeps


(* The call reaches the server.                                            *)
LEMMA ServerCallKeeps ==
  ASSUME NEW c \in Calls, CallInv(c), ServerCall(c)
  PROVE  ServerKeeps(c)
<1> DEFINE r == rpc[c]
           opened == ReceiveStream(NotifyOnCancel(r))
<1>1. RpcTypeOK /\ ServerTypeOK
  BY DEF CallInv
<1>2. r \in Controller /\ opened \in Controller
  BY <1>1, Fields, ControllerOps
<1>3. /\ opened.status = r.status
      /\ opened.fake = r.fake
      /\ opened.canceled = r.canceled
      /\ opened.response = r.response
      /\ opened.cancelCallback <=> ~r.canceled
  BY <1>2 DEF Controller, ReceiveStream, NotifyOnCancel
<1>4. /\ StartedSession \in ServerSession
      /\ StartedSession.state = "RECEIVING"
      /\ StartedSession.refs = 2
      /\ StartedSession.answering
      /\ StartedSession.pusher = "STANDBY"
      /\ StartedSession.puller = StartedPuller
      /\ ~StartedSession.evaluated
      /\ StartedSession.puller.state = "STARTED"
  <2>1. StartedPuller \in Puller /\ StartedPuller.state = "STARTED"
    BY PushPullAssumption DEF Puller, StartedPuller
  <2> QED BY <2>1 DEF StartedSession, ServerSession, PusherState
<1>5. PICK o \in ReceivePush(StartedPuller) :
        /\ Runs(c, "ServerCall", NotifyOnCancelAdds(r) \cup PushReceivedAdds(opened, o))
        /\ srv' = [srv EXCEPT ![c] = PushReceived(StartedSession, o)]
        /\ rpc' = [rpc EXCEPT ![c] = PushReceivedRpc(opened, o)]
  BY DEF ServerCall
<1> HIDE DEF opened
<1> DEFINE new == NotifyOnCancelAdds(r) \cup PushReceivedAdds(opened, o)
<1>6. StartedSession.puller \in Puller /\ o \in ReceivePush(StartedSession.puller)
  BY <1>4, <1>5 DEF ServerSession
<1>7. /\ o.status \in {"PULL", "WAITING", "READY", "ERROR"}
      /\ o.status = "ERROR" => BadData
  BY <1>6, PullerOutcomes
<1>8. \A k : k \in new <=>
        \/ k = "StartProcessing" /\ o.status = "READY"
        \/ k = "Stopped" /\ o.status = "ERROR"
        \/ k = "ClientPull" /\ o.status = "PULL" /\ r.status = "open"
        \/ k = "Canceled" /\ r.canceled
  BY <1>2, <1>3, <1>7, PushReceivedQueues DEF NotifyOnCancelAdds
<1> HIDE DEF new
<1>9. /\ pending' \in [Calls -> [Callbacks -> Nat]]
      /\ \A d \in Calls : d # c => pending'[d] = pending[d]
      /\ pending[c]["ServerCall"] >= 1
      /\ \A k \in Callbacks :
           pending'[c][k] = (pending[c][k] - One(k = "ServerCall")) + One(k \in new)
  BY <1>1, <1>5, KnownCallbacks, RunsEffect DEF new
<1>10. /\ srv'[c] \in ServerSession
       /\ srv'[c].state = IF o.status = "READY" THEN "PROCESSING"
                          ELSE IF o.status = "ERROR" THEN "SHUTDOWN"
                          ELSE "RECEIVING"
       /\ srv'[c].refs = 2 + One(o.status = "READY")
       /\ srv'[c].answering <=> o.status # "ERROR"
       /\ srv'[c].pusher = "STANDBY"
       /\ ~srv'[c].evaluated
       /\ srv'[c].puller.state = IF o.status = "READY" THEN "READY_TO_UNMARSHAL"
                                 ELSE IF o.status = "ERROR" THEN "STANDBY"
                                 ELSE "STARTED"
  <2>1. srv'[c] = PushReceived(StartedSession, o)
    BY <1>1, <1>5 DEF ServerTypeOK
  <2> QED BY <1>4, <1>6, <2>1, PushReceivedEffect
<1>11. /\ rpc'[c] \in Controller
       /\ rpc'[c].status = r.status
       /\ rpc'[c].cancelCallback <=> ~r.canceled
       /\ rpc'[c].serverReceiving => o.status # "ERROR"
       /\ rpc'[c].fake = r.fake
       /\ rpc'[c].canceled = r.canceled
       /\ rpc'[c].response = r.response
  <2>1. rpc'[c] = PushReceivedRpc(opened, o)
    BY <1>1, <1>5 DEF RpcTypeOK
  <2> QED BY <1>2, <1>3, <1>7, <2>1, PushReceivedQueues
<1>12. RpcTypeOK' /\ ServerTypeOK' /\ Elsewhere(c)
  BY <1>1, <1>5, <1>9, <1>10, <1>11 DEF RpcTypeOK, ServerTypeOK, Elsewhere
<1>13. /\ pending'[c]["ServerCall"] = pending[c]["ServerCall"] - 1
       /\ pending'[c]["StartProcessing"] =
            pending[c]["StartProcessing"] + One(o.status = "READY")
       /\ pending'[c]["Canceled"] = pending[c]["Canceled"] + One(r.canceled)
       /\ pending'[c]["Stopped"] = pending[c]["Stopped"] + One(o.status = "ERROR")
       /\ pending'[c]["Delete"] = pending[c]["Delete"]
       /\ pending'[c]["ServerPush"] = pending[c]["ServerPush"]
       /\ pending'[c]["ServerPull"] = pending[c]["ServerPull"]
       /\ pending'[c]["ClientPush"] = pending[c]["ClientPush"]
       /\ pending'[c]["ClientPull"] = pending[c]["ClientPull"]
            + One(o.status = "PULL" /\ r.status = "open")
       /\ pending'[c]["Done"] = pending[c]["Done"]
       /\ pending'[c]["RunCallback"] = pending[c]["RunCallback"]
  BY <1>1, <1>8, <1>9, KnownCallbacks, Counts DEF One
<1>14. srv[c].state = "NONE" /\ r.status # "idle"
  BY <1>1, <1>9, Parts, Counts DEF Unborn, Queued
<1>15. /\ pending[c]["StartProcessing"] = 0
       /\ pending[c]["Canceled"] = 0
       /\ pending[c]["Stopped"] = 0
       /\ pending[c]["Delete"] = 0
       /\ pending[c]["ServerCall"] = 1
  BY <1>1, <1>9, <1>14, Parts, Counts
     DEF Unowed, OneShot, Live, CancelHolds, ResponseHolds, ProcessHolds, Queued
<1>16. r.canceled \in BOOLEAN
  BY <1>1, Fields
<1>17. CancelHolds(c)' /\ ResponseHolds(c)'
  BY <1>10, <1>11, <1>13, <1>15, <1>16 DEF CancelHolds, ResponseHolds, Queued, One
<1>18. ProcessHolds(c)' <=> o.status = "READY"
  BY <1>10, <1>13, <1>15 DEF ProcessHolds, Queued, One
<1>19. Unborn(c)'
  BY <1>10, <1>11, <1>13, <1>14, <1>15 DEF Unborn, Queued
<1>20. Unowed(c)'
  BY <1>10 DEF Unowed, Live
<1>21. OneShot(c)'
  BY <1>10, <1>11, <1>13, <1>15, <1>16 DEF OneShot, Queued, One
<1>22. StreamOpen(c)'
  BY <1>10, <1>11, <1>17 DEF StreamOpen
<1>23. StateFits(c)'
  BY <1>7, <1>10, <1>13, <1>15, <1>18 DEF StateFits, Queued, One
<1>24. Counted(c)' /\ CountStays(c)
  <2>1. Holders(c)' = 2 + One(o.status = "READY")
    BY <1>17, <1>18 DEF Holders, One
  <2> QED BY <1>10, <2>1 DEF Counted, CountStays, Exact, One
<1>25. AnswerStays(c)
  BY <1>14 DEF AnswerStays
<1>26. srv[c].puller.state = "STANDBY" /\ ~srv[c].evaluated
  BY <1>14, Parts DEF Unborn, Evaluation
<1>27. Evaluation(c)'
  BY <1>7, <1>10, <1>11, <1>13, <1>18, <1>26, Parts DEF Evaluation, Queued
<1>28. AnswersCaller(c)
  BY <1>1, <1>11, <1>13, Counts DEF AnswersCaller, ClientStream, One
<1>29. TurnPasses(c)
  BY <1>1, <1>7, <1>10, <1>13, <1>26, Counts DEF TurnPasses, InTurn, One
<1>30. EndsForCause(c)
  BY <1>7, <1>9, <1>10, <1>11, <1>13, <1>14, <1>15 DEF EndsForCause, Ended, Queued, One
<1> QED
  BY <1>12, <1>19, <1>20, <1>21, <1>22, <1>23, <1>24, <1>25, <1>27,
     <1>28, <1>29, <1>30 DEF StepKeeps, SessionInv, ServerKeeps

LEMMA ServerStepKeeps ==
  ASSUME NEW c \in Calls, CallInv(c), ServerStep(c)
  PROVE  ServerKeeps(c)
BY ServerCallKeeps, ReceivePushKeeps, ReceivePullKeeps, RefusedKeeps,
   CanceledKeeps, StartProcessingKeeps, StartProcessingInvalidKeeps,
   DoneProcessingKeeps, StoppedKeeps, DeleteKeeps
   DEF ServerStep

-----------------------------------------------------------------------------
(* The client's steps.  They touch the controller and the bag, never the   *)
(* session.                                                                *)
LEMMA CallerMovesKeep ==
  ASSUME NEW c \in Calls, CallInv(c), srv' = srv, CallerMoves(c)
  PROVE  /\ StepKeeps(c)
         /\ CancelHolds(c)' = CancelHolds(c) => (Exact(c) => Exact(c)')
<1>1. RpcTypeOK /\ ServerTypeOK /\ RpcTypeOK'
  BY DEF CallInv, CallerMoves
<1>2. ServerTypeOK' /\ Elsewhere(c) /\ srv'[c] = srv[c]
  BY <1>1 DEF ServerTypeOK, CallerMoves, Elsewhere, RpcElsewhere
<1>3. /\ pending'[c]["ServerCall"] = pending[c]["ServerCall"]
      /\ pending'[c]["StartProcessing"] = pending[c]["StartProcessing"]
      /\ pending'[c]["Stopped"] = pending[c]["Stopped"]
      /\ pending'[c]["Delete"] = pending[c]["Delete"]
      /\ pending'[c]["Canceled"] \in Nat
      /\ pending'[c]["ServerPush"] \in Nat
      /\ pending'[c]["ServerPull"] \in Nat
      /\ pending'[c]["ClientPush"] \in Nat
      /\ rpc'[c].status = "idle" <=> rpc[c].status = "idle"
      /\ rpc'[c].cancelCallback => rpc[c].cancelCallback
      /\ rpc'[c].cancelCallback \in BOOLEAN
  BY <1>1, KnownCallbacks, Counts, ControllerFields DEF CallerMoves, RpcTypeOK, Controller
<1>4. /\ ResponseHolds(c)' = ResponseHolds(c)
      /\ ProcessHolds(c)' = ProcessHolds(c)
      /\ Live(c)' = Live(c)
  BY <1>2, <1>3 DEF ResponseHolds, ProcessHolds, Live, Queued
<1>5. CancelHolds(c)' => CancelHolds(c)
  BY <1>1, <1>3, Counts, Fields DEF CallerMoves, CancelHolds, Queued, One
<1>6. Messages(c)' => Messages(c) \/ rpc[c].serverReceiving
  <2>1. \A e \in ServerStream : Queued(c, e)' => Queued(c, e) \/ rpc[c].serverReceiving
    BY <1>1, <1>3, Counts DEF CallerMoves, ServerStream, Queued
  <2> QED BY <2>1 DEF Messages, ServerStream
<1>7. rpc[c].serverReceiving => Live(c) /\ ResponseHolds(c)
  BY Parts DEF StreamOpen, ResponseHolds, Unowed
<1>8. Unborn(c)'
  BY <1>2, <1>3, Parts DEF Unborn, Queued, CallerMoves
<1>9. Unowed(c)'
  BY <1>3, <1>4, <1>5, <1>6, <1>7, Parts DEF Unowed, Queued
<1>10. OneShot(c)'
  BY <1>1, <1>2, <1>3, Parts, Counts, Fields DEF OneShot, CallerMoves, Queued, One
<1>11. StreamOpen(c)'
  BY <1>2, <1>4, <1>6, <1>7, Parts DEF StreamOpen, CallerMoves
<1>12. StateFits(c)'
  BY <1>2, <1>3, <1>4, Parts DEF StateFits, Queued
<1>13. Evaluation(c)'
  <2>1. Queued(c, "ClientPush")' => Queued(c, "ClientPush")
    BY <1>1, <1>3, Counts DEF CallerMoves, Queued
  <2> QED BY <1>2, <1>4, <2>1, Parts DEF Evaluation, CallerMoves
<1>14. Counted(c)'
  <2>1. Holders(c)' \in Int /\ Holders(c) \in Int /\ Holders(c)' <= Holders(c)
    BY <1>4, <1>5 DEF Holders, One
  <2>2. srv'[c].refs = srv[c].refs /\ srv[c].refs \in Int
    BY <1>1, <1>2, Fields
  <2>3. Live(c)' => srv[c].refs >= Holders(c)
    BY <1>4, Parts DEF Counted
  <2> QED BY <2>1, <2>2, <2>3 DEF Counted
<1>15. AnswerStays(c)
  BY <1>1, <1>2, <1>3, Counts DEF AnswerStays
<1>16. CancelHolds(c)' = CancelHolds(c) => (Exact(c) => Exact(c)')
  BY <1>2, <1>4 DEF Exact, Holders
<1> QED
  BY <1>1, <1>2, <1>8, <1>9, <1>10, <1>11, <1>12, <1>13, <1>14, <1>15, <1>16
     DEF StepKeeps, SessionInv

(* The call is made.                                                       *)
LEMMA ClientCallsKeeps ==
  ASSUME NEW c \in Calls, CallInv(c), ClientCalls(c), srv' = srv
  PROVE  StepKeeps(c)
<1>1. RpcTypeOK /\ ServerTypeOK
  BY DEF CallInv
<1>2. /\ rpc[c].status = "idle"
      /\ rpc' = [rpc EXCEPT ![c].status = "open"]
      /\ Add(c, {"ServerCall"})
  BY DEF ClientCalls
<1>3. /\ pending' \in [Calls -> [Callbacks -> Nat]]
      /\ \A d \in Calls : d # c => pending'[d] = pending[d]
      /\ \A k \in Callbacks : pending'[c][k] = pending[c][k] + One(k \in {"ServerCall"})
  BY <1>1, <1>2, AddEffect
<1>4. /\ rpc'[c] \in Controller
      /\ rpc'[c].status = "open"
      /\ rpc'[c].cancelCallback = rpc[c].cancelCallback
      /\ rpc'[c].serverReceiving = rpc[c].serverReceiving
      /\ rpc'[c].response = rpc[c].response
  BY <1>1, <1>2, Fields DEF RpcTypeOK, Controller
<1>5. RpcTypeOK' /\ ServerTypeOK' /\ Elsewhere(c)
  BY <1>1, <1>2, <1>3, <1>4 DEF RpcTypeOK, ServerTypeOK, Elsewhere
<1>6. /\ pending'[c]["ServerCall"] = pending[c]["ServerCall"] + 1
      /\ pending'[c]["StartProcessing"] = pending[c]["StartProcessing"]
      /\ pending'[c]["Canceled"] = pending[c]["Canceled"]
      /\ pending'[c]["Stopped"] = pending[c]["Stopped"]
      /\ pending'[c]["Delete"] = pending[c]["Delete"]
      /\ pending'[c]["ServerPush"] = pending[c]["ServerPush"]
      /\ pending'[c]["ServerPull"] = pending[c]["ServerPull"]
      /\ pending'[c]["ClientPush"] = pending[c]["ClientPush"]
  BY <1>1, <1>3, KnownCallbacks, Counts DEF One
<1>7. srv[c].state = "NONE" /\ pending[c]["ServerCall"] = 0 /\ srv'[c] = srv[c]
  BY <1>2, Parts DEF Unborn
<1>8. /\ CancelHolds(c)' <=> CancelHolds(c)
      /\ ResponseHolds(c)' <=> ResponseHolds(c)
      /\ ProcessHolds(c)' <=> ProcessHolds(c)
      /\ Messages(c)' <=> Messages(c)
      /\ Live(c)' <=> Live(c)
  BY <1>4, <1>6, <1>7
     DEF CancelHolds, ResponseHolds, ProcessHolds, Messages, Live, Queued
<1>9. Unborn(c)'
  BY <1>4, <1>6, <1>7, Parts DEF Unborn, Queued
<1>10. Unowed(c)'
  BY <1>6, <1>8, Parts DEF Unowed, Queued
<1>11. OneShot(c)'
  BY <1>4, <1>6, <1>7, Parts DEF OneShot, Queued
<1>12. StreamOpen(c)'
  BY <1>4, <1>7, <1>8, Parts DEF StreamOpen
<1>13. StateFits(c)'
  BY <1>6, <1>7, <1>8, Parts DEF StateFits, Queued
<1>14. Counted(c)'
  BY <1>7 DEF Counted, Live
<1>15. AnswerStays(c)
  BY <1>7 DEF AnswerStays
<1>16. Evaluation(c)'
  BY <1>4, <1>6, <1>7, <1>8, Parts DEF Evaluation, Queued
<1> QED
  BY <1>5, <1>9, <1>10, <1>11, <1>12, <1>13, <1>14, <1>15,
     <1>16 DEF StepKeeps, SessionInv

(* The connection breaks, or the client cancels.                           *)
LEMMA CancelingMoves ==
  ASSUME NEW c \in Calls, RpcTypeOK,
         NEW others, others \subseteq {"Done"},
         rpc[c].status = "open",
         NEW status \in {"open", "over"},
         rpc' = [rpc EXCEPT ![c] = [StartCancel(rpc[c]) EXCEPT !.status = status]],
         Add(c, others \cup StartCancelAdds(rpc[c]))
  PROVE  CallerMoves(c) /\ CancelHolds(c)' = CancelHolds(c)
<1> DEFINE r == rpc[c]
           new == others \cup StartCancelAdds(r)
<1>1. r \in Controller /\ r.cancelCallback \in BOOLEAN
  BY ControllerFields
<1>2. \A k \in Callbacks \ {"Done"} : k \in new <=> k = "Canceled" /\ r.cancelCallback
  BY DEF StartCancelAdds
<1> HIDE DEF new
<1>3. /\ pending' \in [Calls -> [Callbacks -> Nat]]
      /\ \A d \in Calls : d # c => pending'[d] = pending[d]
      /\ \A k \in Callbacks : pending'[c][k] = pending[c][k] + One(k \in new)
  BY AddEffect DEF new
<1>4. /\ rpc'[c] \in Controller
      /\ rpc'[c].status = status
      /\ rpc'[c].response = r.response
      /\ rpc'[c].cancelCallback = FALSE
      /\ rpc'[c].serverReceiving = r.serverReceiving
  BY <1>1 DEF RpcTypeOK, Controller, StartCancel
<1>5. RpcTypeOK' /\ RpcElsewhere(c)
  BY <1>3, <1>4 DEF RpcTypeOK, RpcElsewhere
<1>6. \A k \in Callbacks \ {"Done", "Canceled"} : pending'[c][k] = pending[c][k]
  BY <1>2, <1>3 DEF RpcTypeOK, One
<1>7. pending'[c]["Canceled"] = pending[c]["Canceled"] + One(r.cancelCallback)
  BY <1>1, <1>2, <1>3, Counts, KnownCallbacks DEF One
<1>8. CallerMoves(c)
  <2>1. /\ pending'[c]["ServerCall"] = pending[c]["ServerCall"]
        /\ pending'[c]["StartProcessing"] = pending[c]["StartProcessing"]
        /\ pending'[c]["Stopped"] = pending[c]["Stopped"]
        /\ pending'[c]["Delete"] = pending[c]["Delete"]
        /\ pending'[c]["ServerPush"] = pending[c]["ServerPush"]
        /\ pending'[c]["ServerPull"] = pending[c]["ServerPull"]
        /\ pending'[c]["ClientPush"] = pending[c]["ClientPush"]
    BY <1>6, KnownCallbacks
  <2>2. \A e \in ServerStream : ~(pending'[c][e] > pending[c][e])
    BY <2>1, Counts DEF ServerStream
  <2>3. pending'[c]["ClientPush"] <= pending[c]["ClientPush"]
    BY <2>1, Counts
  <2>4. \/ rpc'[c].status = rpc[c].status
        \/ rpc[c].status = "open" /\ rpc'[c].status = "over"
    BY <1>4
  <2>5. pending'[c]["Canceled"] \in
          {pending[c]["Canceled"], pending[c]["Canceled"] + One(rpc[c].cancelCallback)}
    BY <1>7
  <2> QED BY <1>4, <1>5, <2>1, <2>2, <2>3, <2>4, <2>5 DEF CallerMoves
<1>9. CancelHolds(c)' = CancelHolds(c)
  BY <1>1, <1>4, <1>7, Counts DEF CancelHolds, Queued, One
<1> QED BY <1>8, <1>9

(* A message is sent to the server, or taken from it.                      *)
LEMMA AnyClientMoves ==
  ASSUME NEW c \in Calls, RpcTypeOK, AnyClientStep(c), ~ClientCalls(c)
  PROVE  CallerMoves(c) /\ CancelHolds(c)' = CancelHolds(c)
<1>2. CASE ClientSends(c)
  <2>1. PICK e \in ServerStream :
          e \in SendToServerAdds(rpc[c], e) /\ Add(c, {e}) /\ rpc' = rpc
    BY <1>2 DEF ClientSends
  <2>2. /\ pending' \in [Calls -> [Callbacks -> Nat]]
        /\ \A d \in Calls : d # c => pending'[d] = pending[d]
        /\ \A k \in Callbacks : pending'[c][k] = pending[c][k] + One(k \in {e})
    BY <2>1, AddEffect
  <2>3. RpcTypeOK' /\ RpcElsewhere(c)
    BY <2>1, <2>2 DEF RpcTypeOK, RpcElsewhere
  <2>4. \A k \in Callbacks \ ServerStream : pending'[c][k] = pending[c][k]
    BY <2>2 DEF RpcTypeOK, One
  <2>5. rpc[c].serverReceiving
    BY <2>1 DEF SendToServerAdds
  <2> QED
    BY <2>1, <2>3, <2>4, <2>5, KnownCallbacks, Counts
       DEF CallerMoves, CancelHolds, ServerStream, Queued
<1>3. CASE ClientTakes(c)
  <2>1. PICK e \in ClientStream \cup {"Done"} : Runs(c, e, {}) /\ rpc' = rpc
    BY <1>3 DEF ClientTakes
  <2>2. e \in Callbacks
    BY DEF Callbacks, ClientStream
  <2>3. /\ pending' \in [Calls -> [Callbacks -> Nat]]
        /\ \A d \in Calls : d # c => pending'[d] = pending[d]
        /\ \A k \in Callbacks :
             pending'[c][k] = (pending[c][k] - One(k = e)) + One(k \in {})
    BY <2>1, <2>2, RunsEffect
  <2>4. RpcTypeOK' /\ RpcElsewhere(c)
    BY <2>1, <2>3 DEF RpcTypeOK, RpcElsewhere
  <2>5. \A k \in Callbacks \ (ClientStream \cup {"Done"}) : pending'[c][k] = pending[c][k]
    BY <2>3 DEF RpcTypeOK, One
  <2>6. pending'[c]["ClientPush"] <= pending[c]["ClientPush"]
    BY <2>3, KnownCallbacks, Counts DEF One
  <2> QED
    BY <2>1, <2>4, <2>5, <2>6, KnownCallbacks, Counts
       DEF CallerMoves, CancelHolds, ServerStream, ClientStream, Queued
<1>4. CASE ClientCancels(c)
  <2>1. /\ rpc[c].status = "open"
        /\ rpc' = [rpc EXCEPT ![c] = StartCancel(rpc[c])]
        /\ Add(c, StartCancelAdds(rpc[c]))
    BY <1>4 DEF ClientCancels
  <2>2. [StartCancel(rpc[c]) EXCEPT !.status = "open"] = StartCancel(rpc[c])
    BY <2>1, ControllerFields DEF Controller, StartCancel
  <2>3. {} \cup StartCancelAdds(rpc[c]) = StartCancelAdds(rpc[c])
    OBVIOUS
  <2> QED BY <2>1, <2>2, <2>3, CancelingMoves
<1>5. CASE LoseConnection(c)
  BY <1>5, CancelingMoves DEF LoseConnection
<1> QED
  BY <1>2, <1>3, <1>4, <1>5 DEF AnyClientStep

LEMMA AnyClientStepKeeps ==
  ASSUME NEW c \in Calls, CallInv(c), AnyClientStep(c)
  PROVE  StepKeeps(c) /\ (Exact(c) => Exact(c)')
<1>1. RpcTypeOK /\ srv' = srv
  BY DEF CallInv, AnyClientStep
<1>2. CASE ClientCalls(c)
  <2>1. StepKeeps(c)
    BY <1>1, <1>2, ClientCallsKeeps
  <2>2. srv[c].state = "NONE"
    BY <1>2, Parts DEF ClientCalls, Unborn
  <2> QED BY <1>1, <2>1, <2>2 DEF Exact, Live
<1>3. CASE ~ClientCalls(c)
  BY <1>1, <1>3, AnyClientMoves, CallerMovesKeep
<1> QED BY <1>2, <1>3

-----------------------------------------------------------------------------
(* The specification keeps the invariant.                                  *)

LEMMA InitInv == WorkerInit => Inv
<1> SUFFICES ASSUME WorkerInit
             PROVE  Inv
  OBVIOUS
<1>1. /\ \A c \in Calls : \E f \in Fakes :
           rpc[c] = [FreshController EXCEPT !.fake = f]
      /\ rpc \in [Calls -> {[FreshController EXCEPT !.fake = f] : f \in Fakes}]
      /\ pending = [c \in Calls |-> [e \in Callbacks |-> 0]]
      /\ srv = [c \in Calls |-> NoSession]
  BY DEF WorkerInit, RpcInit, ServerInit
<1>2. \A f \in Fakes : [FreshController EXCEPT !.fake = f] \in Controller
  BY FakesAssumption DEF Controller, FreshController
<1>3. NoSession \in ServerSession
  BY PushPullAssumption DEF ServerSession, NoSession, PusherState, Puller, IdlePuller
<1>4. RpcTypeOK /\ ServerTypeOK
  BY <1>1, <1>2, <1>3 DEF RpcTypeOK, ServerTypeOK
<1>5. ASSUME NEW c \in Calls
      PROVE  SessionInv(c)
  <2>1. /\ rpc[c].status = "idle"
        /\ ~rpc[c].cancelCallback
        /\ ~rpc[c].serverReceiving
    BY <1>1 DEF FreshController
  <2>2. /\ srv[c].state = "NONE"
        /\ ~srv[c].answering
        /\ srv[c].pusher = "STANDBY"
        /\ srv[c].puller.state = "STANDBY"
    BY <1>1 DEF NoSession, IdlePuller
  <2>3. \A e \in Callbacks : pending[c][e] = 0
    BY <1>1
  <2>4. /\ ~CancelHolds(c) /\ ~ResponseHolds(c) /\ ~ProcessHolds(c) /\ ~Messages(c)
    BY <2>1, <2>2, <2>3, KnownCallbacks
       DEF CancelHolds, ResponseHolds, ProcessHolds, Messages, Queued
  <2>5. Unborn(c) /\ OneShot(c)
    BY <2>1, <2>2, <2>3, KnownCallbacks DEF Unborn, OneShot, Queued
  <2>6. Unowed(c) /\ StreamOpen(c) /\ Counted(c)
    BY <2>1, <2>2, <2>3, <2>4, KnownCallbacks DEF Unowed, StreamOpen, Counted, Live, Queued
  <2>7. StateFits(c)
    BY <2>2, <2>3, <2>4, KnownCallbacks DEF StateFits, Queued
  <2>8. Evaluation(c)
    <3>1. rpc[c].response = "none" /\ ~srv[c].evaluated
      BY <1>1 DEF FreshController, NoSession
    <3> QED BY <2>2, <2>3, <3>1, KnownCallbacks DEF Evaluation, Queued
  <2> QED BY <2>5, <2>6, <2>7, <2>8 DEF SessionInv
<1> QED BY <1>4, <1>5 DEF Inv

LEMMA OfEachCall ==
  ASSUME Inv, NEW c \in Calls
  PROVE  CallInv(c)
  BY DEF Inv, CallInv

(* A call untouched by a step keeps its invariant, and so does a stutter.  *)
LEMMA NextInv == Inv /\ [WorkerNext]_workerVars => Inv'
<1> SUFFICES ASSUME Inv, [WorkerNext]_workerVars
             PROVE  Inv'
  OBVIOUS
<1>1. CASE WorkerNext
  <2>1. PICK c \in Calls : ServerStep(c) \/ AnyClientStep(c)
    BY <1>1 DEF WorkerNext
  <2>2. StepKeeps(c)
    BY <2>1, OfEachCall, ServerStepKeeps, AnyClientStepKeeps DEF ServerKeeps
  <2>3. ASSUME NEW d \in Calls, d # c
        PROVE  SessionInv(d)'
    BY <2>2, <2>3, OfEachCall, Undisturbed DEF StepKeeps, Elsewhere, Messages, Queued
  <2> QED BY <2>2, <2>3 DEF Inv, StepKeeps
<1>2. CASE UNCHANGED workerVars
  <2>1. RpcTypeOK' /\ ServerTypeOK'
    BY <1>2 DEF Inv, RpcTypeOK, ServerTypeOK, workerVars
  <2>2. ASSUME NEW c \in Calls
        PROVE  SessionInv(c)'
    BY <1>2, OfEachCall, Undisturbed DEF workerVars, Messages, Queued
  <2> QED BY <2>1, <2>2 DEF Inv
<1> QED BY <1>1, <1>2

(* The inductive invariant holds in every state of a server session that   *)
(* faces any client.                                                       *)
THEOREM InvHolds == WorkerSpec => []Inv
  BY InitInv, NextInv, PTL DEF WorkerSpec

(* Every variable keeps its type: no handler of EvlanWorkerImpl leaves a   *)
(* session, a controller or a bag of callbacks outside its domain.         *)
THEOREM WorkerTypes == WorkerSpec => [](RpcTypeOK /\ ServerTypeOK)
<1>1. Inv => RpcTypeOK /\ ServerTypeOK
  BY DEF Inv
<1> QED BY <1>1, InvHolds, PTL

(* What the three safety properties say of one call.                       *)
FindsSession(c) ==
  /\ CancelHolds(c) \/ ResponseHolds(c) \/ ProcessHolds(c) => srv[c].state # "FREED"
  /\ \A e \in ServerStream : Queued(c, e) => srv[c].state # "FREED"
  /\ Queued(c, "Delete") => Live(c) /\ srv[c].refs = 0

CoversHolders(c) ==
  /\ Live(c) => srv[c].refs >= Holders(c)
  /\ \A e \in {"Canceled", "Stopped", "StartProcessing", "Delete"} : pending[c][e] <= 1
  /\ ~(rpc[c].cancelCallback /\ Queued(c, "Canceled"))
  /\ ~(srv[c].answering /\ Queued(c, "Stopped"))
  /\ ~(Queued(c, "StartProcessing") /\ srv[c].puller.state = "UNMARSHALLING")

PassesChecks(c) ==
  /\ Queued(c, "ServerCall") => srv[c].state = "NONE"
  /\ srv[c].answering <=> srv[c].state \in {"RECEIVING", "PROCESSING", "SENDING"}
  /\ srv[c].state = "RECEIVING" => srv[c].puller.state = "STARTED"
  /\ srv[c].state = "SENDING" => srv[c].pusher = "SENT_INITIAL_VALUE"
  /\ srv[c].state = "PROCESSING" => srv[c].pusher = "STANDBY"
  /\ Queued(c, "StartProcessing") => /\ srv[c].state \in {"PROCESSING", "SHUTDOWN"}
                                     /\ srv[c].puller.state = "READY_TO_UNMARSHAL"
  /\ srv[c].puller.state = "UNMARSHALLING" => srv[c].state \in {"PROCESSING", "SHUTDOWN"}
  /\ Queued(c, "Stopped") => srv[c].state = "SHUTDOWN"
  /\ Queued(c, "Delete") => srv[c].state = "SHUTDOWN"

LEMMA SafeSession ==
  ASSUME NEW c \in Calls, CallInv(c)
  PROVE  FindsSession(c) /\ CoversHolders(c) /\ PassesChecks(c)
<1>1. \A e \in ServerStream : Queued(c, e) => Messages(c)
  BY DEF ServerStream, Messages
<1>2. FindsSession(c)
  BY <1>1, Parts DEF FindsSession, Unowed, StateFits, Live
<1>3. CoversHolders(c)
  BY Parts DEF CoversHolders, Counted, OneShot
<1>4. PassesChecks(c)
  BY Parts DEF PassesChecks, Unborn, StateFits, ProcessHolds, Queued
<1> QED BY <1>2, <1>3, <1>4

LEMMA OfAllSessions ==
  /\ (\A c \in Calls : FindsSession(c)) <=> CallbacksFindSession
  /\ (\A c \in Calls : CoversHolders(c)) <=> RefsCoverHolders
  /\ (\A c \in Calls : PassesChecks(c)) <=> ServerChecksHold
  /\ (\A c \in Calls : Exact(c)) <=> NoReferenceLeaks
  BY Zenon DEF FindsSession, CoversHolders, PassesChecks, Exact,
     CallbacksFindSession, RefsCoverHolders, ServerChecksHold, NoReferenceLeaks

LEMMA SafeSessions ==
  ASSUME Inv
  PROVE  CallbacksFindSession /\ RefsCoverHolders /\ ServerChecksHold
<1>1. ASSUME NEW c \in Calls
      PROVE  FindsSession(c) /\ CoversHolders(c) /\ PassesChecks(c)
  BY OfEachCall, SafeSession
<1> QED BY <1>1, OfAllSessions

(* CallbacksFindSession for every client and any number of calls, messages *)
(* and pulls: no queued callback of a session finds it not made or deleted *)
(* (EvlanWorkerImpl::CallSession::Ref, Unref and Delete).                  *)
THEOREM SessionsOutliveCallbacks == WorkerSpec => []CallbacksFindSession
<1>1. Inv => CallbacksFindSession
  BY SafeSessions
<1> QED BY <1>1, InvHolds, PTL

(* RefsCoverHolders: the count never falls below the number of parties     *)
(* that will still call Unref, and each of them does so once.              *)
THEOREM RefsNeverShort == WorkerSpec => []RefsCoverHolders
<1>1. Inv => RefsCoverHolders
  BY SafeSessions
<1> QED BY <1>1, InvHolds, PTL

(* ServerChecksHold: no GOOGLE_CHECK of the session, its pusher or its     *)
(* puller fails, whatever messages arrive and in whatever order.           *)
THEOREM ChecksNeverFail == WorkerSpec => []ServerChecksHold
<1>1. Inv => ServerChecksHold
  BY SafeSessions
<1> QED BY <1>1, InvHolds, PTL

(* AnswersOnce: once the response of a call was decided no message,        *)
(* cancellation or late result decides it again (ReturnError's tests of    *)
(* rpc_, DoneProcessing's test of the state).                              *)
THEOREM NeverAnswersAgain == WorkerSpec => AnswersOnce
<1> DEFINE Once == \A c \in Calls :
                     srv[c].state \in {"SHUTDOWN", "FREED"} =>
                       /\ srv'[c].state \in {"SHUTDOWN", "FREED"}
                       /\ pending'[c]["Stopped"] <= pending[c]["Stopped"]
<1>1. ASSUME Inv, [WorkerNext]_workerVars
      PROVE  Once
  <2>1. CASE UNCHANGED workerVars
    BY <1>1, <2>1, Counts DEF workerVars, Inv
  <2>2. ASSUME NEW c \in Calls, ServerStep(c) \/ AnyClientStep(c), NEW d \in Calls,
               srv[d].state \in {"SHUTDOWN", "FREED"}
        PROVE  /\ srv'[d].state \in {"SHUTDOWN", "FREED"}
               /\ pending'[d]["Stopped"] <= pending[d]["Stopped"]
    <3>1. StepKeeps(c)
      BY <1>1, <2>2, OfEachCall, ServerStepKeeps, AnyClientStepKeeps DEF ServerKeeps
    <3>2. CASE d = c
      BY <2>2, <3>1, <3>2 DEF StepKeeps, AnswerStays
    <3>3. CASE d # c
      BY <1>1, <2>2, <3>1, <3>3, Counts DEF StepKeeps, Elsewhere, Inv
    <3> QED BY <3>2, <3>3
  <2>3. CASE WorkerNext
    BY <2>2, <2>3 DEF WorkerNext
  <2> QED BY <1>1, <2>1, <2>3
<1>2. Inv /\ [WorkerNext]_workerVars => [Once]_<<srv, pending>>
  BY <1>1
<1>3. AnswersOnce <=> [][Once]_<<srv, pending>>
  BY DEF AnswersOnce
<1> QED BY <1>2, <1>3, InvHolds, PTL DEF WorkerSpec

(* NoReferenceLeaks: with values that fit together every reference to a    *)
(* session is somebody's, whatever order a client's messages come in.      *)
(* With values that do not fit together it fails: call_unref finds the     *)
(* reference StartProcessing's error path leaves.                          *)
THEOREM NothingLeaks == ASSUME ~BadData
                        PROVE  WorkerSpec => []NoReferenceLeaks
<1> DEFINE AllExact == \A c \in Calls : Exact(c)
<1>1. WorkerInit => AllExact
  BY DEF WorkerInit, ServerInit, NoSession, Exact, Live
<1>2. ASSUME Inv, AllExact, [WorkerNext]_workerVars, NEW d \in Calls
      PROVE  Exact(d)'
  <2>1. ASSUME srv'[d] = srv[d], rpc'[d] = rpc[d], pending'[d] = pending[d]
        PROVE  Exact(d)'
    BY <1>2, <2>1 DEF Exact, Live, Holders, CancelHolds, ResponseHolds, ProcessHolds, Queued
  <2>2. ASSUME NEW c \in Calls, ServerStep(c) \/ AnyClientStep(c)
        PROVE  Exact(d)'
    <3>1. StepKeeps(c) /\ (Exact(c) => Exact(c)')
      BY <1>2, <2>2, OfEachCall, ServerStepKeeps, AnyClientStepKeeps DEF ServerKeeps, CountStays
    <3>2. CASE d = c
      BY <1>2, <3>1, <3>2
    <3>3. CASE d # c
      BY <2>1, <3>1, <3>3 DEF StepKeeps, Elsewhere
    <3> QED BY <3>2, <3>3
  <2> QED BY <1>2, <2>1, <2>2 DEF WorkerNext, workerVars
<1>3. Inv /\ AllExact /\ [WorkerNext]_workerVars => AllExact'
  BY <1>2, Zenon
<1>4. AllExact <=> NoReferenceLeaks
  BY OfAllSessions
<1> QED BY <1>1, <1>3, <1>4, InvHolds, PTL DEF WorkerSpec
=============================================================================
