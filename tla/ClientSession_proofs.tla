-------------------------- MODULE ClientSession_proofs --------------------------
(***************************************************************************)
(* Proofs that a caller's session is safe against any server: whatever it  *)
(* sends, and however it responds, the session is there for every callback *)
(* of its call, its checks hold, and its callback runs once.               *)
(*                                                                         *)
(* CallerInv is the inductive invariant.  The session has no reference     *)
(* count: what keeps it alive is that one of three things is due, the Done *)
(* of the call, the end of the rebuilding of its values, or nothing more.  *)
(***************************************************************************)
EXTENDS AnyServer, RpcSystem_proofs

(* The RPC has still to run Done.                                          *)
Waiting(c) == rpc[c].status = "open" \/ Queued(c, "Done")

(* Done found a complete result and Unmarshal has still to finish.         *)
Rebuilding(c) == cli[c].puller.state = "UNMARSHALLING"

(* Nothing of the session exists before Start, nor before it a call.       *)
Unstarted(c) ==
  /\ cli[c].state = "NONE" => /\ cli[c] = NoCaller
                              /\ \A e \in ClientStream : ~Queued(c, e)
  /\ cli[c].state = "NONE" <=> rpc[c].status = "idle"

(* The session waits for Done, or rebuilds, or is deleted: one of them.    *)
OneThingDue(c) ==
  /\ pending[c]["Done"] <= 1
  /\ rpc[c].status = "open" => ~Queued(c, "Done")
  /\ Waiting(c) <=> cli[c].state \in {"RUNNING", "DONE", "ERROR"} /\ ~Rebuilding(c)
  /\ Rebuilding(c) => cli[c].state = "DONE"
  /\ \A e \in ClientStream : Queued(c, e) => Waiting(c)

(* The callback is given its outcome when the session is deleted.          *)
Delivers(c) ==
  /\ pending[c]["RunCallback"] + cli[c].delivered = One(cli[c].state = "FREED")
  /\ cli[c].outcome = "none" <=> cli[c].state # "FREED"

(* What the state says of the pusher and the puller.                       *)
EndsFit(c) ==
  /\ cli[c].state = "RUNNING" => cli[c].puller.state = "STARTED"
  /\ Waiting(c) => cli[c].pusher = "SENT_INITIAL_VALUE"
  /\ cli[c].state = "DONE" => cli[c].puller.state \in {"READY_TO_UNMARSHAL", "UNMARSHALLING"}
  /\ cli[c].state = "ERROR" => cli[c].puller.state \in {"STARTED", "FAILED"}

CallerParts(c) == Unstarted(c) /\ OneThingDue(c) /\ Delivers(c) /\ EndsFit(c)

(* No server knows of a call before it is made.                            *)
Unheard(c) == rpc[c].status = "idle" =>
                pending[c]["ServerCall"] = 0 /\ ~rpc[c].serverReceiving

CallerInv(c) == RpcTypeOK /\ ClientTypeOK /\ CallerParts(c) /\ Unheard(c)

InvOfCallers == /\ RpcTypeOK /\ ClientTypeOK
                /\ \A c \in Calls : CallerParts(c) /\ Unheard(c)

-----------------------------------------------------------------------------
LEMMA CallerFields ==
  ASSUME ClientTypeOK, NEW c \in Calls
  PROVE  /\ cli[c] \in CallerSession
         /\ cli[c].state \in {"NONE", "RUNNING", "DONE", "ERROR", "FREED"}
         /\ cli[c].pusher \in PusherState
         /\ cli[c].puller \in Puller
         /\ cli[c].outcome \in {"none", "value", "error"}
         /\ cli[c].delivered \in Nat
  BY DEF ClientTypeOK, CallerSession

LEMMA FinishedFields ==
  ASSUME NEW s \in CallerSession, NEW outcome \in {"value", "error"}
  PROVE  /\ Finished(s, outcome) \in CallerSession
         /\ Finished(s, outcome).state = "FREED"
         /\ Finished(s, outcome).outcome = outcome
         /\ Finished(s, outcome).delivered = s.delivered
         /\ Finished(s, outcome).puller.state = "STANDBY"
<1>1. IdlePuller \in Puller
  BY PushPullAssumption DEF Puller, IdlePuller
<1> QED BY <1>1 DEF Finished, CallerSession, PusherState, IdlePuller

Stops(c, p, state) == cli' = [cli EXCEPT ![c].puller = p, ![c].state = state]

LEMMA StoppedFields ==
  ASSUME ClientTypeOK, NEW c \in Calls, NEW p \in Puller, NEW state \in {"DONE", "ERROR"},
         Stops(c, p, state)
  PROVE  \E s \in CallerSession :
           /\ cli' = [cli EXCEPT ![c] = s]
           /\ s.state = state
           /\ s.pusher = cli[c].pusher
           /\ s.outcome = cli[c].outcome
           /\ s.delivered = cli[c].delivered
           /\ s.puller = p
<1> DEFINE s == [cli[c] EXCEPT !.puller = p, !.state = state]
<1>1. cli[c] \in CallerSession /\ cli \in [Calls -> CallerSession]
  BY DEF ClientTypeOK
<1>2. cli' = [cli EXCEPT ![c] = s]
  BY <1>1 DEF Stops
<1>3. /\ s \in CallerSession
      /\ s.state = state
      /\ s.pusher = cli[c].pusher
      /\ s.outcome = cli[c].outcome
      /\ s.delivered = cli[c].delivered
      /\ s.puller = p
  BY <1>1 DEF CallerSession
<1> HIDE DEF s
<1> QED BY <1>2, <1>3

(* What Done makes of the puller is never a verdict but for bad data: a    *)
(* session that is RUNNING was not answered, one that is DONE was.         *)
LEMMA DoneOutcomes ==
  ASSUME NEW s \in CallerSession, NEW r, NEW p \in DoneOutcome(s, r)
  PROVE  /\ p \in Puller
         /\ s.state # "RUNNING" => p = s.puller
         /\ p.state = "READY_TO_UNMARSHAL" =>
              s.state = "RUNNING" \/ s.puller.state = "READY_TO_UNMARSHAL"
         /\ s.state = "RUNNING" => \/ p.state = "FAILED"
                                   \/ BadData /\ r.response = "values"
<1>1. s.puller \in Puller
  BY DEF CallerSession
<1>2. /\ [s.puller EXCEPT !.state = "FAILED"] \in Puller
      /\ [s.puller EXCEPT !.state = "READY_TO_UNMARSHAL"] \in Puller
      /\ [s.puller EXCEPT !.state = "FAILED"].state = "FAILED"
  BY <1>1 DEF Puller
<1>3. CASE s.state # "RUNNING"
  <2>1. DoneOutcome(s, r) = {s.puller}
    BY <1>3 DEF DoneOutcome
  <2> QED BY <1>1, <1>3, <2>1
<1>4. CASE s.state = "RUNNING"
  <2>1. \/ p = [s.puller EXCEPT !.state = "FAILED"]
        \/ BadData /\ r.response = "values" /\ p = [s.puller EXCEPT !.state = "READY_TO_UNMARSHAL"]
    BY <1>4 DEF DoneOutcome
  <2> QED BY <1>2, <1>4, <2>1
<1> QED BY <1>3, <1>4

-----------------------------------------------------------------------------
(* What a step of a caller's session keeps, and what it may do.            *)

CallerElsewhere(c) == /\ RpcElsewhere(c)
                      /\ \A d \in Calls : d # c => cli'[d] = cli[d]

CallerKeeps(c) == /\ RpcTypeOK' /\ ClientTypeOK'
                  /\ CallerParts(c)'
                  /\ CallerElsewhere(c)

(* It answers a message by one of the other kind, and sends none besides.  *)
OnTheStream(c) == pending[c]["ServerPush"] + pending[c]["ServerPull"]
                    + pending[c]["ClientPush"] + pending[c]["ClientPull"]

AnswersInTurn(c) ==
  /\ OnTheStream(c)' <= OnTheStream(c)
  /\ pending'[c]["ClientPull"] <= pending[c]["ClientPull"]
  /\ pending'[c]["ServerPush"] > pending[c]["ServerPush"] => Queued(c, "ClientPull")
  /\ pending'[c]["ServerPull"] > pending[c]["ServerPull"] => Queued(c, "ClientPush")

(* It ends the call with a value only if one was pushed, and in error only *)
(* for bad data or because the call ended with nothing complete.           *)
EndsCallForCause(c) ==
  /\ cli'[c].state \in {"NONE", "RUNNING"} =>
       /\ cli'[c].state = cli[c].state
       /\ rpc'[c] = rpc[c]
       /\ pending'[c]["Canceled"] = pending[c]["Canceled"]
  /\ cli'[c].state = "ERROR" => cli[c].state = "ERROR" \/ BadData
  /\ cli'[c].state = "DONE" =>
       \/ cli[c].state = "DONE"
       \/ Queued(c, "ClientPush") /\ ~rpc'[c].cancelCallback
       \/ rpc[c].response = "values" /\ BadData
  /\ cli'[c].state = "FREED" =>
       cli[c].state \in {"DONE", "FREED"} \/ cli'[c].outcome = "error"
  /\ cli'[c].outcome = "value" => cli[c].outcome = "value" \/ cli[c].state = "DONE"
  /\ cli'[c].outcome = "error" =>
       \/ cli[c].outcome = "error"
       \/ BadData
       \/ Queued(c, "Done") /\ cli[c].state \in {"RUNNING", "ERROR"}

(* It cancels no call silently, except that Reset forgets what is over.    *)
CancelsAloud(c) ==
  /\ rpc'[c].fake = rpc[c].fake
  /\ \/ (rpc'[c].cancelCallback \/ Queued(c, "Canceled")')
          <=> (rpc[c].cancelCallback \/ Queued(c, "Canceled"))
     \/ rpc[c].fake /\ rpc[c].cancelCallback /\ cli'[c].state = "FREED"

(* It is given one outcome, and its callback runs only after that.         *)
Reports(c) ==
  /\ cli'[c].state = "NONE" <=> cli[c].state = "NONE"
  /\ cli'[c].outcome = cli[c].outcome \/ cli[c].outcome = "none"
  /\ \/ cli'[c].delivered = cli[c].delivered
     \/ /\ cli'[c].delivered = cli[c].delivered + 1
        /\ cli'[c].outcome = cli[c].outcome

CallerActs(c) == /\ CallerKeeps(c)
                 /\ CallerMoves(c)
                 /\ AnswersInTurn(c)
                 /\ EndsCallForCause(c)
                 /\ CancelsAloud(c)
                 /\ Reports(c)

LEMMA CallerFacts ==
  ASSUME NEW c \in Calls, CallerInv(c)
  PROVE  /\ RpcTypeOK /\ ClientTypeOK
         /\ Unstarted(c) /\ OneThingDue(c) /\ Delivers(c) /\ EndsFit(c)
  BY DEF CallerInv, CallerParts

(* A message is taken, and answered if there is an answer.                 *)
LEMMA StreamKept ==
  ASSUME NEW c \in Calls, CallerInv(c), NEW e \in ClientStream, NEW new,
         Runs(c, e, new), rpc' = rpc,
         \/ new = {}
         \/ new = {"ServerPush"} /\ e = "ClientPull" /\ rpc[c].serverReceiving
         \/ new = {"ServerPull"} /\ e = "ClientPush" /\ rpc[c].serverReceiving,
         NEW p \in Puller, p.state = cli[c].puller.state, cli[c].state # "NONE",
         cli' = [cli EXCEPT ![c].puller = p]
  PROVE  CallerActs(c)
<1>1. /\ RpcTypeOK /\ ClientTypeOK
      /\ Unstarted(c) /\ OneThingDue(c) /\ Delivers(c) /\ EndsFit(c)
  BY CallerFacts
<1>2. e \in Callbacks /\ e \in {"ClientPush", "ClientPull"}
  BY DEF Callbacks, ClientStream
<1>3. /\ pending' \in [Calls -> [Callbacks -> Nat]]
      /\ \A d \in Calls : d # c => pending'[d] = pending[d]
      /\ pending[c][e] >= 1
      /\ \A k \in Callbacks :
           pending'[c][k] = (pending[c][k] - One(k = e)) + One(k \in new)
  BY <1>1, <1>2, RunsEffect
<1>4. /\ pending'[c]["ServerCall"] = pending[c]["ServerCall"]
      /\ pending'[c]["StartProcessing"] = pending[c]["StartProcessing"]
      /\ pending'[c]["Canceled"] = pending[c]["Canceled"]
      /\ pending'[c]["Stopped"] = pending[c]["Stopped"]
      /\ pending'[c]["Delete"] = pending[c]["Delete"]
      /\ pending'[c]["Done"] = pending[c]["Done"]
      /\ pending'[c]["RunCallback"] = pending[c]["RunCallback"]
      /\ pending'[c]["ClientPull"] = pending[c]["ClientPull"] - One(e = "ClientPull")
      /\ pending'[c]["ClientPush"] = pending[c]["ClientPush"] - One(e = "ClientPush")
      /\ pending'[c]["ServerPush"] = pending[c]["ServerPush"] + One("ServerPush" \in new)
      /\ pending'[c]["ServerPull"] = pending[c]["ServerPull"] + One("ServerPull" \in new)
  BY <1>1, <1>2, <1>3, Counts, KnownCallbacks DEF One
<1>5. /\ cli'[c] = [cli[c] EXCEPT !.puller = p]
      /\ cli'[c] \in CallerSession
      /\ \A d \in Calls : d # c => cli'[d] = cli[d]
  BY <1>1 DEF ClientTypeOK, CallerSession
<1>6. /\ cli'[c].state = cli[c].state
      /\ cli'[c].pusher = cli[c].pusher
      /\ cli'[c].outcome = cli[c].outcome
      /\ cli'[c].delivered = cli[c].delivered
      /\ cli'[c].puller.state = cli[c].puller.state
      /\ rpc'[c] = rpc[c]
  BY <1>1, <1>5, CallerFields DEF CallerSession
<1>7. RpcTypeOK' /\ ClientTypeOK' /\ CallerElsewhere(c)
  BY <1>1, <1>3, <1>5 DEF RpcTypeOK, ClientTypeOK, CallerElsewhere, RpcElsewhere
<1>8. Unstarted(c)' /\ Delivers(c)'
  BY <1>1, <1>4, <1>6 DEF Unstarted, Delivers
<1>9. /\ Waiting(c)' <=> Waiting(c)
      /\ Rebuilding(c)' <=> Rebuilding(c)
  BY <1>4, <1>6 DEF Waiting, Rebuilding, Queued
<1>10. \A k \in ClientStream : Queued(c, k)' => Queued(c, k)
  BY <1>1, <1>4, Counts DEF ClientStream, Queued, One
<1>11. OneThingDue(c)'
  BY <1>1, <1>4, <1>6, <1>9, <1>10 DEF OneThingDue, Queued
<1>12. EndsFit(c)'
  BY <1>1, <1>6, <1>9 DEF EndsFit
<1>13. CallerMoves(c)
  BY <1>1, <1>2, <1>4, <1>6, <1>7, Counts
     DEF CallerMoves, CallerElsewhere, ServerStream, One
<1>14. AnswersInTurn(c)
  BY <1>1, <1>2, <1>3, <1>4, Counts DEF AnswersInTurn, OnTheStream, Queued, One
<1>15. EndsCallForCause(c) /\ CancelsAloud(c)
  BY <1>4, <1>6 DEF EndsCallForCause, CancelsAloud, Queued
<1>16. Reports(c)
  BY <1>6 DEF Reports
<1> QED
  BY <1>7, <1>8, <1>11, <1>12, <1>13, <1>14, <1>15, <1>16
     DEF CallerActs, CallerKeeps, CallerParts

(* The session stops RUNNING and cancels what is left of the call.         *)
LEMMA StreamStops ==
  ASSUME NEW c \in Calls, CallerInv(c), NEW e \in ClientStream,
         Runs(c, e, StartCancelAdds(rpc[c])),
         rpc' = [rpc EXCEPT ![c] = StartCancel(rpc[c])],
         cli[c].state = "RUNNING",
         NEW s \in CallerSession, cli' = [cli EXCEPT ![c] = s],
         s.state \in {"DONE", "ERROR"}, s.pusher = cli[c].pusher,
         s.outcome = cli[c].outcome, s.delivered = cli[c].delivered,
         s.state = "DONE" => s.puller.state = "READY_TO_UNMARSHAL" /\ e = "ClientPush",
         s.state = "ERROR" => s.puller.state \in {"STARTED", "FAILED"} /\ BadData
  PROVE  CallerActs(c)
<1> DEFINE r == rpc[c]
           new == StartCancelAdds(r)
<1>1. /\ RpcTypeOK /\ ClientTypeOK
      /\ Unstarted(c) /\ OneThingDue(c) /\ Delivers(c) /\ EndsFit(c)
  BY CallerFacts
<1>2. e \in Callbacks /\ e \in {"ClientPush", "ClientPull"}
  BY DEF Callbacks, ClientStream
<1>3. \A k : k \in new <=> k = "Canceled" /\ r.cancelCallback
  BY DEF StartCancelAdds
<1>4. Runs(c, e, new)
  OBVIOUS
<1> HIDE DEF new
<1>5. /\ pending' \in [Calls -> [Callbacks -> Nat]]
      /\ \A d \in Calls : d # c => pending'[d] = pending[d]
      /\ pending[c][e] >= 1
      /\ \A k \in Callbacks :
           pending'[c][k] = (pending[c][k] - One(k = e)) + One(k \in new)
  BY <1>1, <1>2, <1>4, RunsEffect
<1>6. /\ pending'[c]["ServerCall"] = pending[c]["ServerCall"]
      /\ pending'[c]["StartProcessing"] = pending[c]["StartProcessing"]
      /\ pending'[c]["Canceled"] = pending[c]["Canceled"] + One(r.cancelCallback)
      /\ pending'[c]["Stopped"] = pending[c]["Stopped"]
      /\ pending'[c]["Delete"] = pending[c]["Delete"]
      /\ pending'[c]["Done"] = pending[c]["Done"]
      /\ pending'[c]["RunCallback"] = pending[c]["RunCallback"]
      /\ pending'[c]["ClientPull"] = pending[c]["ClientPull"] - One(e = "ClientPull")
      /\ pending'[c]["ClientPush"] = pending[c]["ClientPush"] - One(e = "ClientPush")
      /\ pending'[c]["ServerPush"] = pending[c]["ServerPush"]
      /\ pending'[c]["ServerPull"] = pending[c]["ServerPull"]
  BY <1>1, <1>2, <1>3, <1>5, Counts, KnownCallbacks DEF One
<1>8. /\ cli'[c] = s
      /\ \A d \in Calls : d # c => cli'[d] = cli[d]
  BY <1>1 DEF ClientTypeOK
<1>9. /\ rpc'[c] \in Controller
      /\ rpc'[c].fake = r.fake
      /\ rpc'[c].status = r.status
      /\ rpc'[c].response = r.response
      /\ rpc'[c].cancelCallback = FALSE
      /\ rpc'[c].serverReceiving = r.serverReceiving
      /\ \A d \in Calls : d # c => rpc'[d] = rpc[d]
  <2>1. /\ rpc[c] \in Controller
        /\ rpc'[c] = StartCancel(rpc[c])
        /\ \A d \in Calls : d # c => rpc'[d] = rpc[d]
    BY <1>1 DEF RpcTypeOK
  <2>2. StartCancel(rpc[c]) \in Controller
    BY <2>1, ControllerOps
  <2>3. /\ StartCancel(rpc[c]).fake = rpc[c].fake
        /\ StartCancel(rpc[c]).status = rpc[c].status
        /\ StartCancel(rpc[c]).response = rpc[c].response
        /\ StartCancel(rpc[c]).cancelCallback = FALSE
        /\ StartCancel(rpc[c]).serverReceiving = rpc[c].serverReceiving
    BY <2>1, CancelFields
  <2> QED BY <2>1, <2>2, <2>3
<1>10. RpcTypeOK' /\ ClientTypeOK' /\ CallerElsewhere(c)
  BY <1>1, <1>5, <1>8, <1>9 DEF RpcTypeOK, ClientTypeOK, CallerElsewhere, RpcElsewhere
<1>11. Unstarted(c)' /\ Delivers(c)'
  BY <1>1, <1>6, <1>8, <1>9 DEF Unstarted, Delivers, One
<1>12. /\ Waiting(c)' <=> Waiting(c)
       /\ ~Rebuilding(c) /\ ~Rebuilding(c)'
  BY <1>1, <1>6, <1>8, <1>9 DEF Waiting, Rebuilding, Queued, EndsFit
<1>13. \A k \in ClientStream : Queued(c, k)' => Queued(c, k)
  BY <1>1, <1>6, Counts DEF ClientStream, Queued, One
<1>14. OneThingDue(c)'
  BY <1>1, <1>6, <1>8, <1>9, <1>12, <1>13 DEF OneThingDue, Queued
<1>15. EndsFit(c)'
  BY <1>1, <1>8, <1>12 DEF EndsFit
<1>16. CallerMoves(c)
  BY <1>1, <1>2, <1>6, <1>9, <1>10, Counts
     DEF CallerMoves, CallerElsewhere, ServerStream, One
<1>17. AnswersInTurn(c)
  BY <1>1, <1>2, <1>5, <1>6, Counts DEF AnswersInTurn, OnTheStream, Queued, One
<1>18. EndsCallForCause(c)
  BY <1>1, <1>2, <1>5, <1>8, <1>9, Counts DEF EndsCallForCause, Queued
<1>19. CancelsAloud(c)
  BY <1>1, <1>6, <1>9, Counts, ControllerFields DEF CancelsAloud, Queued, One
<1>20. Reports(c)
  BY <1>8 DEF Reports
<1> QED
  BY <1>10, <1>11, <1>14, <1>15, <1>16, <1>17, <1>18, <1>19, <1>20
     DEF CallerActs, CallerKeeps, CallerParts

LEMMA StreamHandlers ==
  ASSUME NEW c \in Calls, CallerInv(c),
         \/ AnswerPull(c) \/ AnswerBadPull(c) \/ TakePush(c)
         \/ TakeLastPush(c) \/ IgnoreStream(c)
  PROVE  CallerActs(c)
<1>1. /\ RpcTypeOK /\ ClientTypeOK
      /\ Unstarted(c) /\ OneThingDue(c) /\ Delivers(c) /\ EndsFit(c)
  BY CallerFacts
<1>2. cli[c] \in CallerSession /\ cli[c].puller \in Puller
  BY <1>1, CallerFields
<1>3. cli = [cli EXCEPT ![c].puller = cli[c].puller]
  BY <1>1, <1>2 DEF ClientTypeOK, CallerSession
<1>4. "ClientPush" \in ClientStream /\ "ClientPull" \in ClientStream
  BY DEF ClientStream
<1>5. CASE AnswerPull(c)
  <2>1. cli[c].state # "NONE" /\ rpc' = rpc /\ cli' = [cli EXCEPT ![c].puller = cli[c].puller]
    BY <1>3, <1>5 DEF AnswerPull
  <2>2. Runs(c, "ClientPull", SendToServerAdds(rpc[c], "ServerPush"))
    BY <1>5 DEF AnswerPull
  <2>3. \/ SendToServerAdds(rpc[c], "ServerPush") = {}
        \/ SendToServerAdds(rpc[c], "ServerPush") = {"ServerPush"} /\ rpc[c].serverReceiving
    BY DEF SendToServerAdds
  <2> QED BY <1>2, <1>4, <2>1, <2>2, <2>3, StreamKept
<1>6. CASE AnswerBadPull(c)
  <2>1. BadData
    BY <1>6, PushPullAssumption DEF AnswerBadPull, DataVerdicts
  <2>2. cli[c].state = "RUNNING" /\ cli[c].puller.state = "STARTED"
    BY <1>1, <1>6 DEF AnswerBadPull, EndsFit
  <2>3. Stops(c, cli[c].puller, "ERROR")
    BY <1>1, <1>2, <1>6 DEF AnswerBadPull, ClientTypeOK, CallerSession, Stops
  <2>4. PICK s \in CallerSession :
          /\ cli' = [cli EXCEPT ![c] = s]
          /\ s.state = "ERROR"
          /\ s.pusher = cli[c].pusher
          /\ s.outcome = cli[c].outcome
          /\ s.delivered = cli[c].delivered
          /\ s.puller = cli[c].puller
    BY <1>1, <1>2, <2>3, StoppedFields
  <2>5. Runs(c, "ClientPull", StartCancelAdds(rpc[c])) /\ rpc' = [rpc EXCEPT ![c] = StartCancel(rpc[c])]
    BY <1>6 DEF AnswerBadPull
  <2> QED BY <1>4, <2>1, <2>2, <2>4, <2>5, StreamStops
<1>7. CASE TakePush(c)
  <2>1. PICK o \in ReceivePush(cli[c].puller) :
          /\ o.status \in {"PULL", "WAITING"}
          /\ Runs(c, "ClientPush", IF o.status = "PULL"
                                   THEN SendToServerAdds(rpc[c], "ServerPull")
                                   ELSE {})
          /\ cli' = [cli EXCEPT ![c].puller = o.puller]
    BY <1>7 DEF TakePush
  <2> DEFINE new == IF o.status = "PULL" THEN SendToServerAdds(rpc[c], "ServerPull") ELSE {}
  <2>2. \/ new = {}
        \/ new = {"ServerPull"} /\ rpc[c].serverReceiving
    BY DEF SendToServerAdds
  <2>3. Runs(c, "ClientPush", new)
    BY <2>1
  <2>4. o.puller \in Puller /\ o.puller.state = cli[c].puller.state
    BY <1>2, <2>1, PullerOutcomes
  <2>5. cli[c].state # "NONE" /\ rpc' = rpc
    BY <1>7 DEF TakePush
  <2> HIDE DEF new
  <2> QED BY <1>4, <2>1, <2>2, <2>3, <2>4, <2>5, StreamKept
<1>8. CASE TakeLastPush(c)
  <2>1. PICK o \in ReceivePush(cli[c].puller) :
          /\ o.status \in {"READY", "ERROR"}
          /\ Runs(c, "ClientPush", StartCancelAdds(rpc[c]))
          /\ Stops(c, o.puller, StateAfter(o.status))
    BY <1>8 DEF TakeLastPush, Stops
  <2>2. cli[c].state = "RUNNING" /\ rpc' = [rpc EXCEPT ![c] = StartCancel(rpc[c])]
    BY <1>8 DEF TakeLastPush
  <2>3. /\ o.puller \in Puller
        /\ o.status = "READY" => o.puller.state = "READY_TO_UNMARSHAL"
        /\ o.status = "ERROR" => o.puller.state = "FAILED" /\ BadData
    BY <1>2, PullerOutcomes
  <2>4. /\ StateAfter(o.status) \in {"DONE", "ERROR"}
        /\ StateAfter(o.status) = "DONE" => o.status = "READY"
        /\ StateAfter(o.status) = "ERROR" => o.status = "ERROR"
    BY <2>1 DEF StateAfter
  <2>5. PICK s \in CallerSession :
          /\ cli' = [cli EXCEPT ![c] = s]
          /\ s.state = StateAfter(o.status)
          /\ s.pusher = cli[c].pusher
          /\ s.outcome = cli[c].outcome
          /\ s.delivered = cli[c].delivered
          /\ s.puller = o.puller
    BY <1>1, <2>1, <2>3, <2>4, StoppedFields
  <2> QED BY <1>4, <2>1, <2>2, <2>3, <2>4, <2>5, StreamStops
<1>9. CASE IgnoreStream(c)
  <2>1. PICK e \in ClientStream : Runs(c, e, {})
    BY <1>9 DEF IgnoreStream
  <2>2. cli[c].state # "NONE"
    BY <1>1, <2>1 DEF Unstarted, Runs
  <2>3. rpc' = rpc /\ cli' = [cli EXCEPT ![c].puller = cli[c].puller]
    BY <1>3, <1>9 DEF IgnoreStream
  <2> QED BY <1>2, <2>1, <2>2, <2>3, StreamKept
<1> QED BY <1>5, <1>6, <1>7, <1>8, <1>9

(* Done is the last of the call's callbacks: nothing of it is left but     *)
(* what the session itself still does.                                     *)
LEMMA LastOfAll ==
  ASSUME NEW c \in Calls, CallerInv(c), Queued(c, "Done"), StreamDrained(c, ClientStream)
  PROVE  /\ rpc[c].status = "over"
         /\ cli[c].state \in {"RUNNING", "DONE", "ERROR"}
         /\ ~Rebuilding(c)
         /\ pending[c]["Done"] = 1
         /\ pending[c]["RunCallback"] = 0 /\ cli[c].delivered = 0
         /\ \A e \in ClientStream : ~Queued(c, e)
<1>1. /\ RpcTypeOK /\ ClientTypeOK
      /\ Unstarted(c) /\ OneThingDue(c) /\ Delivers(c) /\ EndsFit(c)
  BY CallerFacts
<1>2. /\ cli[c].state \in {"RUNNING", "DONE", "ERROR"}
      /\ ~Rebuilding(c)
  BY <1>1 DEF OneThingDue, Waiting
<1>3. rpc[c].status = "over"
  BY <1>1, <1>2, ControllerFields DEF Unstarted, OneThingDue
<1>4. pending[c]["Done"] = 1
  BY <1>1, Counts DEF OneThingDue, Queued
<1>5. pending[c]["RunCallback"] = 0 /\ cli[c].delivered = 0
  BY <1>1, <1>2, Counts, CallerFields DEF Delivers, One
<1> QED BY <1>2, <1>3, <1>4, <1>5 DEF StreamDrained

LEMMA DoneInErrorActs ==
  ASSUME NEW c \in Calls, CallerInv(c), DoneInError(c)
  PROVE  CallerActs(c)
<1> DEFINE t == Finished(cli[c], "error")
           r == Reset(rpc[c])
<1>1. /\ RpcTypeOK /\ ClientTypeOK
      /\ Unstarted(c) /\ OneThingDue(c) /\ Delivers(c) /\ EndsFit(c)
  BY CallerFacts
<1>2. /\ Runs(c, "Done", {"RunCallback"})
      /\ cli' = [cli EXCEPT ![c] = t]
      /\ rpc' = [rpc EXCEPT ![c] = r]
  BY DEF DoneInError
<1>3. /\ rpc[c].status = "over"
      /\ cli[c].state \in {"RUNNING", "DONE", "ERROR"}
      /\ ~Rebuilding(c)
      /\ pending[c]["Done"] = 1
      /\ pending[c]["RunCallback"] = 0 /\ cli[c].delivered = 0
      /\ \A e \in ClientStream : ~Queued(c, e)
  BY <1>2, LastOfAll DEF DoneInError, Runs
<1>4. /\ t \in CallerSession
      /\ t.state = "FREED"
      /\ t.outcome = "error"
      /\ t.delivered = cli[c].delivered
      /\ t.puller.state = "STANDBY"
  BY <1>1, CallerFields, FinishedFields
<1>5. /\ r \in Controller
      /\ r.fake = rpc[c].fake
      /\ r.status = rpc[c].status
      /\ r.response = rpc[c].response
      /\ r.cancelCallback = (rpc[c].cancelCallback /\ ~rpc[c].fake)
      /\ r.serverReceiving => rpc[c].serverReceiving
      /\ ~rpc[c].fake => r = rpc[c]
  BY <1>1, ControllerFields, ControllerOps, ResetFields
<1> HIDE DEF t, r
<1>6. /\ pending' \in [Calls -> [Callbacks -> Nat]]
      /\ \A d \in Calls : d # c => pending'[d] = pending[d]
      /\ \A k \in Callbacks :
           pending'[c][k] = (pending[c][k] - One(k = "Done")) + One(k \in {"RunCallback"})
  BY <1>1, <1>2, KnownCallbacks, RunsEffect
<1>7. /\ \A k \in Callbacks \ {"Done", "RunCallback"} : pending'[c][k] = pending[c][k]
      /\ pending'[c]["Done"] = 0
      /\ pending'[c]["RunCallback"] = 1
  <2>1. \A k \in Callbacks \ {"Done", "RunCallback"} : pending'[c][k] = pending[c][k]
    BY <1>1, <1>6 DEF RpcTypeOK, One
  <2> QED BY <1>3, <1>6, <2>1, KnownCallbacks DEF One
<1>8. /\ cli'[c] = t /\ rpc'[c] = r
      /\ \A d \in Calls : d # c => cli'[d] = cli[d] /\ rpc'[d] = rpc[d]
  BY <1>1, <1>2 DEF ClientTypeOK, RpcTypeOK
<1>9. RpcTypeOK' /\ ClientTypeOK' /\ CallerElsewhere(c)
  BY <1>1, <1>2, <1>4, <1>5, <1>6, <1>8
     DEF RpcTypeOK, ClientTypeOK, CallerElsewhere, RpcElsewhere
<1>10. \A e \in ClientStream : ~Queued(c, e)'
  BY <1>3, <1>7, KnownCallbacks DEF ClientStream, Queued
<1>11. Unstarted(c)' /\ Delivers(c)'
  BY <1>3, <1>4, <1>5, <1>7, <1>8 DEF Unstarted, Delivers, One
<1>12. ~Waiting(c)' /\ ~Rebuilding(c)'
  BY <1>3, <1>4, <1>5, <1>7, <1>8 DEF Waiting, Rebuilding, Queued
<1>13. OneThingDue(c)' /\ EndsFit(c)'
  BY <1>3, <1>4, <1>5, <1>7, <1>8, <1>10, <1>12 DEF OneThingDue, EndsFit, Queued
<1>14. CallerMoves(c) /\ AnswersInTurn(c)
  <2>1. /\ pending'[c]["ServerCall"] = pending[c]["ServerCall"]
        /\ pending'[c]["StartProcessing"] = pending[c]["StartProcessing"]
        /\ pending'[c]["Canceled"] = pending[c]["Canceled"]
        /\ pending'[c]["Stopped"] = pending[c]["Stopped"]
        /\ pending'[c]["Delete"] = pending[c]["Delete"]
        /\ pending'[c]["ServerPush"] = pending[c]["ServerPush"]
        /\ pending'[c]["ServerPull"] = pending[c]["ServerPull"]
        /\ pending'[c]["ClientPush"] = pending[c]["ClientPush"]
        /\ pending'[c]["ClientPull"] = pending[c]["ClientPull"]
    BY <1>7, KnownCallbacks
  <2>2. rpc'[c].cancelCallback = rpc[c].cancelCallback \/ rpc'[c].cancelCallback = FALSE
    BY <1>1, <1>5, <1>8, ControllerFields
  <2>3. CallerMoves(c)
    BY <1>1, <1>5, <1>8, <1>9, <2>1, <2>2, Counts DEF CallerMoves, CallerElsewhere, ServerStream
  <2>4. AnswersInTurn(c)
    BY <1>1, <2>1, Counts DEF AnswersInTurn, OnTheStream
  <2> QED BY <2>3, <2>4
<1>15. EndsCallForCause(c)
  <2>1. cli[c].state = "DONE" => BadData
    <3>1. PICK p \in DoneOutcome(cli[c], rpc[c]) :
            p.state = "READY_TO_UNMARSHAL" => FALSE \in DataVerdicts
      BY DEF DoneInError
    <3>2. cli[c].state = "DONE" => p.state = "READY_TO_UNMARSHAL"
      BY <1>1, <1>3, <3>1, CallerFields, DoneOutcomes DEF EndsFit, Rebuilding
    <3> QED BY <3>1, <3>2, PushPullAssumption DEF DataVerdicts
  <2> QED BY <1>2, <1>3, <1>4, <1>8, <2>1 DEF EndsCallForCause, Runs
<1>16. CancelsAloud(c)
  BY <1>1, <1>4, <1>5, <1>7, <1>8, ControllerFields, KnownCallbacks DEF CancelsAloud, Queued
<1>17. Reports(c)
  BY <1>1, <1>3, <1>4, <1>8 DEF Reports, Delivers
<1> QED
  BY <1>9, <1>11, <1>13, <1>14, <1>15, <1>16, <1>17
     DEF CallerActs, CallerKeeps, CallerParts

LEMMA DoneWithValueActs ==
  ASSUME NEW c \in Calls, CallerInv(c), DoneWithValue(c)
  PROVE  CallerActs(c)
<1>1. /\ RpcTypeOK /\ ClientTypeOK
      /\ Unstarted(c) /\ OneThingDue(c) /\ Delivers(c) /\ EndsFit(c)
  BY CallerFacts
<1>2. PICK p \in DoneOutcome(cli[c], rpc[c]) :
        /\ p.state = "READY_TO_UNMARSHAL"
        /\ cli' = [cli EXCEPT ![c].state = "DONE", ![c].pusher = "STANDBY",
                              ![c].puller = [p EXCEPT !.state = "UNMARSHALLING"]]
  BY DEF DoneWithValue
<1>3. Runs(c, "Done", {}) /\ rpc' = rpc
  BY DEF DoneWithValue
<1>4. /\ rpc[c].status = "over"
      /\ cli[c].state \in {"RUNNING", "DONE", "ERROR"}
      /\ ~Rebuilding(c)
      /\ pending[c]["Done"] = 1
      /\ pending[c]["RunCallback"] = 0 /\ cli[c].delivered = 0
      /\ \A e \in ClientStream : ~Queued(c, e)
  BY <1>3, LastOfAll DEF DoneWithValue, Runs
<1>5. /\ cli[c] \in CallerSession /\ p \in Puller
      /\ cli[c].state \in {"RUNNING", "DONE"}
      /\ cli[c].state = "RUNNING" => BadData /\ rpc[c].response = "values"
  <2>1. cli[c] \in CallerSession
    BY <1>1, CallerFields
  <2>2. /\ p \in Puller
        /\ cli[c].state # "RUNNING" => cli[c].puller.state = "READY_TO_UNMARSHAL"
        /\ cli[c].state = "RUNNING" => BadData /\ rpc[c].response = "values"
    BY <1>2, <2>1, DoneOutcomes
  <2> QED BY <1>1, <1>4, <2>1, <2>2 DEF EndsFit
<1>6. /\ cli'[c] \in CallerSession
      /\ cli'[c].state = "DONE"
      /\ cli'[c].puller.state = "UNMARSHALLING"
      /\ cli'[c].outcome = cli[c].outcome
      /\ cli'[c].delivered = cli[c].delivered
      /\ \A d \in Calls : d # c => cli'[d] = cli[d]
  <2> DEFINE q == [p EXCEPT !.state = "UNMARSHALLING"]
             t == [cli[c] EXCEPT !.state = "DONE", !.pusher = "STANDBY", !.puller = q]
  <2>1. q \in Puller /\ q.state = "UNMARSHALLING"
    BY <1>5 DEF Puller
  <2>2. cli'[c] = t /\ \A d \in Calls : d # c => cli'[d] = cli[d]
    BY <1>1, <1>2 DEF ClientTypeOK
  <2> HIDE DEF q
  <2>3. /\ t \in CallerSession
        /\ t.state = "DONE"
        /\ t.puller = q
        /\ t.outcome = cli[c].outcome
        /\ t.delivered = cli[c].delivered
    BY <1>5, <2>1 DEF CallerSession, PusherState
  <2> HIDE DEF t
  <2> QED BY <2>1, <2>2, <2>3
<1>7. /\ pending' \in [Calls -> [Callbacks -> Nat]]
      /\ \A d \in Calls : d # c => pending'[d] = pending[d]
      /\ \A k \in Callbacks :
           pending'[c][k] = (pending[c][k] - One(k = "Done")) + One(k \in {})
  BY <1>1, <1>3, KnownCallbacks, RunsEffect
<1>8. /\ pending'[c]["ServerCall"] = pending[c]["ServerCall"]
      /\ pending'[c]["StartProcessing"] = pending[c]["StartProcessing"]
      /\ pending'[c]["Canceled"] = pending[c]["Canceled"]
      /\ pending'[c]["Stopped"] = pending[c]["Stopped"]
      /\ pending'[c]["Delete"] = pending[c]["Delete"]
      /\ pending'[c]["ServerPush"] = pending[c]["ServerPush"]
      /\ pending'[c]["ServerPull"] = pending[c]["ServerPull"]
      /\ pending'[c]["ClientPush"] = pending[c]["ClientPush"]
      /\ pending'[c]["ClientPull"] = pending[c]["ClientPull"]
      /\ pending'[c]["RunCallback"] = pending[c]["RunCallback"]
      /\ pending'[c]["Done"] = 0
  <2>1. \A k \in Callbacks : pending[c][k] \in Nat
    BY <1>1 DEF RpcTypeOK
  <2>2. \A k \in Callbacks : k # "Done" => pending'[c][k] = pending[c][k]
    <3> SUFFICES ASSUME NEW k \in Callbacks, k # "Done"
                 PROVE  pending'[c][k] = pending[c][k]
      OBVIOUS
    <3>1. pending'[c][k] = (pending[c][k] - One(k = "Done")) + One(k \in {})
      BY <1>7
    <3>2. One(k = "Done") = 0 /\ One(k \in {}) = 0
      BY DEF One
    <3> QED BY <2>1, <3>1, <3>2
  <2>3. pending'[c]["Done"] = 0
    <3>1. pending'[c]["Done"] = (pending[c]["Done"] - One("Done" = "Done")) + One("Done" \in {})
      BY <1>7, KnownCallbacks
    <3>2. One("Done" = "Done") = 1 /\ One("Done" \in {}) = 0
      BY DEF One
    <3> QED BY <1>4, <3>1, <3>2
  <2>4. /\ pending'[c]["ServerCall"] = pending[c]["ServerCall"]
        /\ pending'[c]["StartProcessing"] = pending[c]["StartProcessing"]
        /\ pending'[c]["Canceled"] = pending[c]["Canceled"]
        /\ pending'[c]["Stopped"] = pending[c]["Stopped"]
        /\ pending'[c]["Delete"] = pending[c]["Delete"]
    BY <2>2, KnownCallbacks
  <2>5. /\ pending'[c]["ServerPush"] = pending[c]["ServerPush"]
        /\ pending'[c]["ServerPull"] = pending[c]["ServerPull"]
        /\ pending'[c]["ClientPush"] = pending[c]["ClientPush"]
        /\ pending'[c]["ClientPull"] = pending[c]["ClientPull"]
        /\ pending'[c]["RunCallback"] = pending[c]["RunCallback"]
    BY <2>2, KnownCallbacks
  <2> QED BY <2>3, <2>4, <2>5
<1>9. RpcTypeOK' /\ ClientTypeOK' /\ CallerElsewhere(c)
  <2>1. cli' \in [Calls -> CallerSession]
    BY <1>1, <1>2, <1>6 DEF ClientTypeOK
  <2> QED BY <1>1, <1>3, <1>6, <1>7, <2>1
          DEF RpcTypeOK, ClientTypeOK, CallerElsewhere, RpcElsewhere
<1>10. Unstarted(c)' /\ Delivers(c)'
  BY <1>1, <1>3, <1>4, <1>5, <1>6, <1>8 DEF Unstarted, Delivers, One
<1>11. ~Waiting(c)' /\ Rebuilding(c)'
  BY <1>3, <1>4, <1>6, <1>8 DEF Waiting, Rebuilding, Queued
<1>12. \A e \in ClientStream : ~Queued(c, e)'
  BY <1>4, <1>8 DEF ClientStream, Queued
<1>13. OneThingDue(c)' /\ EndsFit(c)'
  BY <1>3, <1>4, <1>6, <1>8, <1>11, <1>12 DEF OneThingDue, EndsFit, Queued
<1>14. CallerMoves(c)
  BY <1>1, <1>3, <1>8, <1>9, Counts DEF CallerMoves, CallerElsewhere, ServerStream
<1>15. AnswersInTurn(c)
  BY <1>1, <1>8, Counts DEF AnswersInTurn, OnTheStream
<1>16. EndsCallForCause(c)
  BY <1>1, <1>5, <1>6 DEF EndsCallForCause
<1>17. CancelsAloud(c) /\ Reports(c)
  BY <1>3, <1>4, <1>6, <1>8 DEF CancelsAloud, Reports, Queued
<1> QED
  BY <1>9, <1>10, <1>13, <1>14, <1>15, <1>16, <1>17
     DEF CallerActs, CallerKeeps, CallerParts

LEMMA UnmarshalDoneActs ==
  ASSUME NEW c \in Calls, CallerInv(c), UnmarshalDone(c)
  PROVE  CallerActs(c)
<1> DEFINE t == Finished(cli[c], "value")
           r == Reset(rpc[c])
<1>1. /\ RpcTypeOK /\ ClientTypeOK
      /\ Unstarted(c) /\ OneThingDue(c) /\ Delivers(c) /\ EndsFit(c)
  BY CallerFacts
<1>2. /\ Rebuilding(c)
      /\ Add(c, {"RunCallback"})
      /\ cli' = [cli EXCEPT ![c] = t]
      /\ rpc' = [rpc EXCEPT ![c] = r]
  BY DEF UnmarshalDone, Rebuilding
<1>3. /\ cli[c].state = "DONE"
      /\ ~Waiting(c)
      /\ rpc[c].status = "over"
      /\ pending[c]["Done"] = 0
      /\ pending[c]["RunCallback"] = 0 /\ cli[c].delivered = 0
      /\ \A e \in ClientStream : ~Queued(c, e)
  <2>1. cli[c].state = "DONE" /\ ~Waiting(c) /\ \A e \in ClientStream : ~Queued(c, e)
    BY <1>1, <1>2 DEF OneThingDue
  <2>2. rpc[c].status = "over"
    BY <1>1, <2>1, ControllerFields DEF Unstarted, Waiting
  <2>3. pending[c]["Done"] = 0
    BY <1>1, <2>1, Counts DEF Waiting, Queued
  <2>4. pending[c]["RunCallback"] = 0 /\ cli[c].delivered = 0
    BY <1>1, <2>1, Counts, CallerFields DEF Delivers, One
  <2> QED BY <2>1, <2>2, <2>3, <2>4
<1>4. /\ t \in CallerSession
      /\ t.state = "FREED"
      /\ t.outcome = "value"
      /\ t.delivered = cli[c].delivered
      /\ t.puller.state = "STANDBY"
  BY <1>1, CallerFields, FinishedFields
<1>5. /\ r \in Controller
      /\ r.fake = rpc[c].fake
      /\ r.status = rpc[c].status
      /\ r.response = rpc[c].response
      /\ r.cancelCallback = (rpc[c].cancelCallback /\ ~rpc[c].fake)
      /\ r.serverReceiving => rpc[c].serverReceiving
      /\ ~rpc[c].fake => r = rpc[c]
  BY <1>1, ControllerFields, ControllerOps, ResetFields
<1> HIDE DEF t, r
<1>6. /\ pending' \in [Calls -> [Callbacks -> Nat]]
      /\ \A d \in Calls : d # c => pending'[d] = pending[d]
      /\ \A k \in Callbacks : pending'[c][k] = pending[c][k] + One(k \in {"RunCallback"})
  BY <1>1, <1>2, AddEffect
<1>7. /\ pending'[c]["ServerCall"] = pending[c]["ServerCall"]
      /\ pending'[c]["StartProcessing"] = pending[c]["StartProcessing"]
      /\ pending'[c]["Canceled"] = pending[c]["Canceled"]
      /\ pending'[c]["Stopped"] = pending[c]["Stopped"]
      /\ pending'[c]["Delete"] = pending[c]["Delete"]
      /\ pending'[c]["ServerPush"] = pending[c]["ServerPush"]
      /\ pending'[c]["ServerPull"] = pending[c]["ServerPull"]
      /\ pending'[c]["ClientPush"] = pending[c]["ClientPush"]
      /\ pending'[c]["ClientPull"] = pending[c]["ClientPull"]
      /\ pending'[c]["Done"] = 0
      /\ pending'[c]["RunCallback"] = 1
  BY <1>1, <1>3, <1>6, Counts, KnownCallbacks DEF One
<1>8. /\ cli'[c] = t /\ rpc'[c] = r
      /\ \A d \in Calls : d # c => cli'[d] = cli[d] /\ rpc'[d] = rpc[d]
  BY <1>1, <1>2 DEF ClientTypeOK, RpcTypeOK
<1>9. RpcTypeOK' /\ ClientTypeOK' /\ CallerElsewhere(c)
  BY <1>1, <1>2, <1>4, <1>5, <1>6, <1>8
     DEF RpcTypeOK, ClientTypeOK, CallerElsewhere, RpcElsewhere
<1>10. \A e \in ClientStream : ~Queued(c, e)'
  BY <1>3, <1>7 DEF ClientStream, Queued
<1>11. Unstarted(c)' /\ Delivers(c)'
  BY <1>3, <1>4, <1>5, <1>7, <1>8 DEF Unstarted, Delivers, One
<1>12. ~Waiting(c)' /\ ~Rebuilding(c)'
  BY <1>3, <1>4, <1>5, <1>7, <1>8 DEF Waiting, Rebuilding, Queued
<1>13. OneThingDue(c)' /\ EndsFit(c)'
  BY <1>3, <1>4, <1>5, <1>7, <1>8, <1>10, <1>12 DEF OneThingDue, EndsFit, Queued
<1>14. CallerMoves(c) /\ AnswersInTurn(c)
  <2>1. rpc'[c].cancelCallback = rpc[c].cancelCallback \/ rpc'[c].cancelCallback = FALSE
    BY <1>1, <1>5, <1>8, ControllerFields
  <2>2. CallerMoves(c)
    BY <1>1, <1>5, <1>7, <1>8, <1>9, <2>1, Counts DEF CallerMoves, CallerElsewhere, ServerStream
  <2>3. AnswersInTurn(c)
    BY <1>1, <1>7, Counts DEF AnswersInTurn, OnTheStream
  <2> QED BY <2>2, <2>3
<1>15. EndsCallForCause(c)
  BY <1>3, <1>4, <1>8 DEF EndsCallForCause
<1>16. CancelsAloud(c)
  BY <1>1, <1>4, <1>5, <1>7, <1>8, ControllerFields DEF CancelsAloud, Queued
<1>17. Reports(c)
  BY <1>1, <1>3, <1>4, <1>8 DEF Reports, Delivers
<1> QED
  BY <1>9, <1>11, <1>13, <1>14, <1>15, <1>16, <1>17
     DEF CallerActs, CallerKeeps, CallerParts

LEMMA RunCallbackActs ==
  ASSUME NEW c \in Calls, CallerInv(c), RunCallback(c)
  PROVE  CallerActs(c)
<1> DEFINE t == [cli[c] EXCEPT !.delivered = cli[c].delivered + 1]
<1>1. /\ RpcTypeOK /\ ClientTypeOK
      /\ Unstarted(c) /\ OneThingDue(c) /\ Delivers(c) /\ EndsFit(c)
  BY CallerFacts
<1>2. /\ Runs(c, "RunCallback", {})
      /\ cli' = [cli EXCEPT ![c] = t]
      /\ rpc' = rpc
  BY <1>1 DEF RunCallback, ClientTypeOK
<1>3. /\ pending' \in [Calls -> [Callbacks -> Nat]]
      /\ \A d \in Calls : d # c => pending'[d] = pending[d]
      /\ pending[c]["RunCallback"] >= 1
      /\ \A k \in Callbacks :
           pending'[c][k] = (pending[c][k] - One(k = "RunCallback")) + One(k \in {})
  BY <1>1, <1>2, KnownCallbacks, RunsEffect
<1>4. /\ cli[c].state = "FREED"
      /\ ~Waiting(c) /\ ~Rebuilding(c)
      /\ pending[c]["RunCallback"] = 1
      /\ cli[c].delivered = 0
      /\ cli[c].outcome # "none"
  BY <1>1, <1>3, Counts, CallerFields DEF OneThingDue, Delivers, One
<1>5. /\ t \in CallerSession
      /\ t.state = cli[c].state
      /\ t.pusher = cli[c].pusher
      /\ t.puller = cli[c].puller
      /\ t.outcome = cli[c].outcome
      /\ t.delivered = 1
  BY <1>1, <1>4, CallerFields DEF CallerSession
<1> HIDE DEF t
<1>6. /\ pending'[c]["ServerCall"] = pending[c]["ServerCall"]
      /\ pending'[c]["StartProcessing"] = pending[c]["StartProcessing"]
      /\ pending'[c]["Canceled"] = pending[c]["Canceled"]
      /\ pending'[c]["Stopped"] = pending[c]["Stopped"]
      /\ pending'[c]["Delete"] = pending[c]["Delete"]
      /\ pending'[c]["ServerPush"] = pending[c]["ServerPush"]
      /\ pending'[c]["ServerPull"] = pending[c]["ServerPull"]
      /\ pending'[c]["ClientPush"] = pending[c]["ClientPush"]
      /\ pending'[c]["ClientPull"] = pending[c]["ClientPull"]
      /\ pending'[c]["Done"] = pending[c]["Done"]
      /\ pending'[c]["RunCallback"] = pending[c]["RunCallback"] - 1
  BY <1>1, <1>3, Counts, KnownCallbacks DEF One
<1>7. cli'[c] = t /\ \A d \in Calls : d # c => cli'[d] = cli[d]
  BY <1>1, <1>2 DEF ClientTypeOK
<1>8. RpcTypeOK' /\ ClientTypeOK' /\ CallerElsewhere(c)
  BY <1>1, <1>2, <1>3, <1>5, <1>7
     DEF RpcTypeOK, ClientTypeOK, CallerElsewhere, RpcElsewhere
<1>9. Unstarted(c)' /\ Delivers(c)'
  BY <1>1, <1>2, <1>4, <1>5, <1>6, <1>7 DEF Unstarted, Delivers, One
<1>10. ~Waiting(c)' /\ ~Rebuilding(c)'
  BY <1>2, <1>4, <1>5, <1>6, <1>7 DEF Waiting, Rebuilding, Queued
<1>11. OneThingDue(c)' /\ EndsFit(c)'
  <2>1. \A e \in ClientStream : ~Queued(c, e)'
    BY <1>1, <1>4, <1>6 DEF OneThingDue, ClientStream, Queued
  <2> QED BY <1>1, <1>2, <1>4, <1>5, <1>6, <1>7, <1>10, <2>1
          DEF OneThingDue, EndsFit, Queued
<1>12. CallerMoves(c)
  BY <1>1, <1>2, <1>6, <1>8, Counts DEF CallerMoves, CallerElsewhere, ServerStream
<1>13. AnswersInTurn(c)
  BY <1>1, <1>6, Counts DEF AnswersInTurn, OnTheStream
<1>14. EndsCallForCause(c) /\ CancelsAloud(c) /\ Reports(c)
  BY <1>2, <1>4, <1>5, <1>6, <1>7 DEF EndsCallForCause, CancelsAloud, Reports, Queued
<1> QED
  BY <1>8, <1>9, <1>11, <1>12, <1>13, <1>14 DEF CallerActs, CallerKeeps, CallerParts

LEMMA ClientHandlesActs ==
  ASSUME NEW c \in Calls, CallerInv(c), ClientHandles(c)
  PROVE  CallerActs(c) /\ Unheard(c)'
<1>1. CallerActs(c)
  BY StreamHandlers, DoneInErrorActs, DoneWithValueActs, UnmarshalDoneActs,
     RunCallbackActs DEF ClientHandles
<1>2. Unheard(c)'
  BY <1>1 DEF CallerInv, CallerActs, CallerMoves, Unheard
<1> QED BY <1>1, <1>2

-----------------------------------------------------------------------------
(* The session is made, and its call with it.                              *)
LEMMA StartKeeps ==
  ASSUME NEW c \in Calls, CallerInv(c), Start(c)
  PROVE  CallerKeeps(c) /\ Unheard(c)'
<1> DEFINE t == [cli[c] EXCEPT !.state = "RUNNING", !.pusher = "SENT_INITIAL_VALUE",
                               !.puller = StartedPuller]
           r == [rpc[c] EXCEPT !.status = "open"]
<1>1. /\ RpcTypeOK /\ ClientTypeOK
      /\ Unstarted(c) /\ OneThingDue(c) /\ Delivers(c) /\ EndsFit(c)
  BY CallerFacts
<1>2. /\ cli[c].state = "NONE"
      /\ Add(c, {"ServerCall"})
      /\ cli' = [cli EXCEPT ![c] = t]
      /\ rpc' = [rpc EXCEPT ![c] = r]
  BY <1>1 DEF Start, ClientTypeOK
<1>3. /\ cli[c].puller.state = "STANDBY"
      /\ cli[c].outcome = "none" /\ cli[c].delivered = 0
      /\ pending[c]["Done"] = 0
      /\ pending[c]["RunCallback"] = 0
      /\ pending[c]["ClientPush"] = 0 /\ pending[c]["ClientPull"] = 0
  <2>1. cli[c] = NoCaller /\ \A e \in ClientStream : ~Queued(c, e)
    BY <1>1, <1>2 DEF Unstarted
  <2>2. ~Queued(c, "Done")
    BY <1>1, <1>2 DEF OneThingDue, Waiting
  <2>3. pending[c]["RunCallback"] = 0
    BY <1>1, <1>2, Counts, CallerFields DEF Delivers, One
  <2>4. pending[c]["ClientPush"] = 0 /\ pending[c]["ClientPull"] = 0
    BY <1>1, <2>1, Counts DEF ClientStream, Queued
  <2> QED BY <1>1, <2>1, <2>2, <2>3, <2>4, Counts DEF NoCaller, IdlePuller, Queued
<1>4. /\ t \in CallerSession
      /\ t.state = "RUNNING"
      /\ t.pusher = "SENT_INITIAL_VALUE"
      /\ t.puller.state = "STARTED"
      /\ t.outcome = cli[c].outcome
      /\ t.delivered = cli[c].delivered
  <2>1. StartedPuller \in Puller /\ StartedPuller.state = "STARTED"
    BY PushPullAssumption DEF StartedPuller, Puller
  <2> QED BY <1>1, <2>1, CallerFields DEF CallerSession, PusherState
<1>5. r \in Controller /\ r.status = "open"
  BY <1>1, ControllerFields DEF Controller
<1> HIDE DEF t, r
<1>6. /\ pending' \in [Calls -> [Callbacks -> Nat]]
      /\ \A d \in Calls : d # c => pending'[d] = pending[d]
      /\ \A k \in Callbacks : pending'[c][k] = pending[c][k] + One(k \in {"ServerCall"})
  BY <1>1, <1>2, AddEffect
<1>7. /\ pending'[c]["Done"] = pending[c]["Done"]
      /\ pending'[c]["RunCallback"] = pending[c]["RunCallback"]
      /\ pending'[c]["ClientPush"] = pending[c]["ClientPush"]
      /\ pending'[c]["ClientPull"] = pending[c]["ClientPull"]
  BY <1>1, <1>6, Counts, KnownCallbacks DEF One
<1>8. /\ cli'[c] = t /\ rpc'[c] = r
      /\ \A d \in Calls : d # c => cli'[d] = cli[d] /\ rpc'[d] = rpc[d]
  BY <1>1, <1>2 DEF ClientTypeOK, RpcTypeOK
<1>9. RpcTypeOK' /\ ClientTypeOK' /\ CallerElsewhere(c)
  BY <1>1, <1>2, <1>4, <1>5, <1>6, <1>8
     DEF RpcTypeOK, ClientTypeOK, CallerElsewhere, RpcElsewhere
<1>10. \A e \in ClientStream : ~Queued(c, e)'
  BY <1>3, <1>7 DEF ClientStream, Queued
<1>11. Unstarted(c)' /\ Delivers(c)' /\ Unheard(c)'
  BY <1>3, <1>4, <1>5, <1>7, <1>8 DEF Unstarted, Delivers, Unheard, One
<1>12. Waiting(c)' /\ ~Rebuilding(c)'
  BY <1>4, <1>5, <1>8 DEF Waiting, Rebuilding
<1>13. OneThingDue(c)' /\ EndsFit(c)'
  BY <1>3, <1>4, <1>5, <1>7, <1>8, <1>10, <1>12 DEF OneThingDue, EndsFit, Queued
<1> QED BY <1>9, <1>11, <1>13 DEF CallerKeeps, CallerParts

-----------------------------------------------------------------------------
(* The other end.  All it can do to the session is in AnswersCaller.       *)

LEMMA AnswersKeep ==
  ASSUME NEW c \in Calls, CallerInv(c), RpcTypeOK', AnswersCaller(c), cli'[c] = cli[c]
  PROVE  CallerParts(c)'
<1>1. /\ RpcTypeOK /\ ClientTypeOK
      /\ Unstarted(c) /\ OneThingDue(c) /\ Delivers(c) /\ EndsFit(c)
  BY CallerFacts
<1>2. /\ rpc'[c].status = "idle" <=> rpc[c].status = "idle"
      /\ pending'[c]["Done"] <= 1
      /\ rpc'[c].status = "open" => rpc[c].status = "open" /\ ~Queued(c, "Done")'
      /\ pending'[c]["RunCallback"] = pending[c]["RunCallback"]
      /\ Waiting(c)' <=> Waiting(c)
      /\ Rebuilding(c)' <=> Rebuilding(c)
  <2>1. pending[c]["Done"] \in Nat /\ pending'[c]["Done"] \in Nat
    BY <1>1, KnownCallbacks DEF RpcTypeOK
  <2>2. CASE rpc'[c].status = rpc[c].status /\ pending'[c]["Done"] = pending[c]["Done"]
    BY <1>1, <2>1, <2>2 DEF AnswersCaller, OneThingDue, Waiting, Rebuilding, Queued
  <2>3. CASE /\ rpc[c].status = "open"
             /\ rpc'[c].status = "over"
             /\ pending'[c]["Done"] = pending[c]["Done"] + 1
    <3>1. pending[c]["Done"] = 0
      BY <1>1, <2>1, <2>3 DEF OneThingDue, Queued
    <3> QED BY <2>1, <2>3, <3>1 DEF AnswersCaller, Waiting, Rebuilding, Queued
  <2> QED BY <2>2, <2>3 DEF AnswersCaller
<1>3. \A e \in ClientStream : Queued(c, e)' => Queued(c, e) \/ rpc[c].status = "open"
  <2>1. \A e \in ClientStream : pending[c][e] \in Nat /\ pending'[c][e] \in Nat
    BY <1>1 DEF RpcTypeOK, Callbacks
  <2> QED BY <2>1 DEF AnswersCaller, Queued
<1>4. Unstarted(c)'
  BY <1>1, <1>2, <1>3 DEF Unstarted
<1>5. OneThingDue(c)'
  BY <1>1, <1>2, <1>3 DEF OneThingDue, Waiting
<1>6. Delivers(c)' /\ EndsFit(c)'
  BY <1>1, <1>2 DEF Delivers, EndsFit
<1> QED BY <1>4, <1>5, <1>6 DEF CallerParts

(* Any server, and a connection that breaks, only answer.                  *)
LEMMA AnyServerAnswers ==
  ASSUME NEW c \in Calls, RpcTypeOK, Unheard(c),
         AnyServerStep(c) \/ LoseConnection(c)
  PROVE  RpcTypeOK' /\ RpcElsewhere(c) /\ AnswersCaller(c) /\ Unheard(c)'
<1>1. rpc[c] \in Controller /\ rpc[c].cancelCallback \in BOOLEAN
  BY ControllerFields
<1>2. CASE ServerAccepts(c)
  <2> DEFINE r == ReceiveStream(NotifyOnCancel(rpc[c]))
  <2>1. /\ Runs(c, "ServerCall", {})
        /\ rpc' = [rpc EXCEPT ![c] = r]
    BY <1>2 DEF ServerAccepts
  <2>2. r \in Controller /\ r.status = rpc[c].status
    <3>1. NotifyOnCancel(rpc[c]) \in Controller
      BY <1>1, ControllerOps
    <3>2. NotifyOnCancel(rpc[c]).status = rpc[c].status
      BY <1>1 DEF NotifyOnCancel, Controller
    <3>3. \A q \in Controller : ReceiveStream(q) \in Controller /\ ReceiveStream(q).status = q.status
      BY DEF ReceiveStream, Controller
    <3> QED BY <3>1, <3>2, <3>3
  <2> HIDE DEF r
  <2>3. /\ pending' \in [Calls -> [Callbacks -> Nat]]
        /\ \A d \in Calls : d # c => pending'[d] = pending[d]
        /\ pending[c]["ServerCall"] >= 1
        /\ \A k \in Callbacks :
             pending'[c][k] = (pending[c][k] - One(k = "ServerCall")) + One(k \in {})
    BY <2>1, KnownCallbacks, RunsEffect
  <2>4. \A k \in Callbacks \ {"ServerCall"} : pending'[c][k] = pending[c][k]
    BY <2>3 DEF RpcTypeOK, One
  <2>5. rpc[c].status # "idle" /\ rpc'[c].status = rpc[c].status
    BY <2>1, <2>2, <2>3 DEF Unheard, RpcTypeOK
  <2>6. AnswersCaller(c) /\ Unheard(c)'
    BY <2>4, <2>5, KnownCallbacks, Counts DEF AnswersCaller, ClientStream, Unheard
  <2>7. RpcTypeOK' /\ RpcElsewhere(c)
    BY <2>1, <2>2, <2>3 DEF RpcTypeOK, RpcElsewhere
  <2> QED BY <2>6, <2>7
<1>3. CASE ServerTakes(c)
  <2>1. PICK e \in ServerStream \cup {"Canceled"} : Runs(c, e, {})
    BY <1>3 DEF ServerTakes
  <2>2. rpc' = rpc /\ e \in Callbacks
    BY <1>3 DEF ServerTakes, Callbacks
  <2>3. /\ pending' \in [Calls -> [Callbacks -> Nat]]
        /\ \A d \in Calls : d # c => pending'[d] = pending[d]
        /\ \A k \in Callbacks :
             pending'[c][k] = (pending[c][k] - One(k = e)) + One(k \in {})
    BY <2>1, <2>2, RunsEffect
  <2>4. \A k \in Callbacks \ (ServerStream \cup {"Canceled"}) : pending'[c][k] = pending[c][k]
    BY <2>3 DEF RpcTypeOK, One
  <2>5. AnswersCaller(c) /\ Unheard(c)'
    BY <2>2, <2>4, KnownCallbacks, Counts
       DEF AnswersCaller, ClientStream, ServerStream, Unheard
  <2> QED BY <2>2, <2>3, <2>5 DEF RpcTypeOK, RpcElsewhere
<1>4. CASE ServerSends(c)
  <2>1. PICK e \in ClientStream : e \in SendToClientAdds(rpc[c], e) /\ Add(c, {e}) /\ rpc' = rpc
    BY <1>4 DEF ServerSends
  <2>2. rpc[c].status = "open"
    BY <2>1 DEF SendToClientAdds
  <2>3. /\ pending' \in [Calls -> [Callbacks -> Nat]]
        /\ \A d \in Calls : d # c => pending'[d] = pending[d]
        /\ \A k \in Callbacks : pending'[c][k] = pending[c][k] + One(k \in {e})
    BY <2>1, AddEffect
  <2>4. \A k \in Callbacks \ ClientStream : pending'[c][k] = pending[c][k]
    BY <2>3 DEF RpcTypeOK, One
  <2>5. AnswersCaller(c) /\ Unheard(c)'
    BY <2>1, <2>2, <2>4, KnownCallbacks, Counts
       DEF AnswersCaller, ClientStream, Unheard
  <2> QED BY <2>1, <2>3, <2>5 DEF RpcTypeOK, RpcElsewhere
<1>5. CASE ServerResponds(c)
  <2>1. PICK response \in {"error", "values"} :
          /\ rpc[c].serverReceiving
          /\ rpc' = [rpc EXCEPT ![c] = Respond(StopReceivingStream(rpc[c]), response)]
          /\ Add(c, RespondAdds(rpc[c]))
    BY <1>5 DEF ServerResponds
  <2> DEFINE r == Respond(StopReceivingStream(rpc[c]), response)
             new == RespondAdds(rpc[c])
  <2>2. r \in Controller /\ r.status = "over"
    <3>1. StopReceivingStream(rpc[c]) \in Controller
      BY <1>1, ControllerOps
    <3>2. \A q \in Controller : Respond(q, response).status = "over"
      BY DEF Respond, Controller
    <3> QED BY <3>1, <3>2, ControllerOps
  <2>3. \A k \in Callbacks \ {"Canceled"} : k \in new <=> k = "Done" /\ rpc[c].status = "open"
    BY DEF RespondAdds
  <2>4. Add(c, new) /\ rpc' = [rpc EXCEPT ![c] = r]
    BY <2>1
  <2> HIDE DEF r, new
  <2>5. /\ pending' \in [Calls -> [Callbacks -> Nat]]
        /\ \A d \in Calls : d # c => pending'[d] = pending[d]
        /\ \A k \in Callbacks : pending'[c][k] = pending[c][k] + One(k \in new)
    BY <2>4, AddEffect
  <2>6. \A k \in Callbacks \ {"Done", "Canceled"} : pending'[c][k] = pending[c][k]
    BY <2>3, <2>5 DEF RpcTypeOK, One
  <2>7. pending'[c]["Done"] = pending[c]["Done"] + One(rpc[c].status = "open")
    BY <2>3, <2>5, KnownCallbacks DEF One
  <2>8. rpc[c].status # "idle" /\ rpc'[c].status = "over"
    BY <2>1, <2>2, <2>4 DEF Unheard, RpcTypeOK
  <2>9. AnswersCaller(c) /\ Unheard(c)'
    BY <2>6, <2>7, <2>8, KnownCallbacks, Counts, ControllerFields
       DEF AnswersCaller, ClientStream, Unheard, One
  <2> QED BY <2>2, <2>4, <2>5, <2>9 DEF RpcTypeOK, RpcElsewhere
<1>6. CASE LoseConnection(c)
  <2> DEFINE r == [StartCancel(rpc[c]) EXCEPT !.status = "over"]
             new == {"Done"} \cup StartCancelAdds(rpc[c])
  <2>1. rpc[c].status = "open" /\ rpc' = [rpc EXCEPT ![c] = r] /\ Add(c, new)
    BY <1>6 DEF LoseConnection
  <2>2. r \in Controller /\ r.status = "over"
    BY <1>1 DEF StartCancel, Controller
  <2>3. \A k \in Callbacks \ {"Canceled"} : k \in new <=> k = "Done"
    BY DEF StartCancelAdds
  <2> HIDE DEF r, new
  <2>4. /\ pending' \in [Calls -> [Callbacks -> Nat]]
        /\ \A d \in Calls : d # c => pending'[d] = pending[d]
        /\ \A k \in Callbacks : pending'[c][k] = pending[c][k] + One(k \in new)
    BY <2>1, AddEffect
  <2>5. \A k \in Callbacks \ {"Done", "Canceled"} : pending'[c][k] = pending[c][k]
    BY <2>3, <2>4 DEF RpcTypeOK, One
  <2>6. pending'[c]["Done"] = pending[c]["Done"] + 1
    BY <2>3, <2>4, KnownCallbacks DEF One
  <2>7. rpc'[c].status = "over"
    BY <2>1, <2>2 DEF RpcTypeOK
  <2>8. AnswersCaller(c) /\ Unheard(c)'
    BY <2>1, <2>5, <2>6, <2>7, KnownCallbacks, Counts
       DEF AnswersCaller, ClientStream, Unheard
  <2> QED BY <2>1, <2>2, <2>4, <2>8 DEF RpcTypeOK, RpcElsewhere
<1> QED BY <1>2, <1>3, <1>4, <1>5, <1>6 DEF AnyServerStep

-----------------------------------------------------------------------------
(* The specification keeps the invariant.                                  *)

LEMMA CallerInitInv == CallerInit => InvOfCallers
<1> SUFFICES ASSUME CallerInit
             PROVE  InvOfCallers
  OBVIOUS
<1>1. /\ \A c \in Calls : \E f \in Fakes :
           rpc[c] = [FreshController EXCEPT !.fake = f]
      /\ rpc \in [Calls -> {[FreshController EXCEPT !.fake = f] : f \in Fakes}]
      /\ pending = [c \in Calls |-> [e \in Callbacks |-> 0]]
      /\ cli = [c \in Calls |-> NoCaller]
  BY DEF CallerInit, RpcInit, ClientInit
<1>2. \A f \in Fakes : [FreshController EXCEPT !.fake = f] \in Controller
  BY FakesAssumption DEF Controller, FreshController
<1>3. NoCaller \in CallerSession
  BY PushPullAssumption DEF CallerSession, NoCaller, PusherState, Puller, IdlePuller
<1>4. RpcTypeOK /\ ClientTypeOK
  BY <1>1, <1>2, <1>3 DEF RpcTypeOK, ClientTypeOK
<1>5. ASSUME NEW c \in Calls
      PROVE  CallerParts(c) /\ Unheard(c)
  <2>1. rpc[c].status = "idle" /\ ~rpc[c].serverReceiving
    BY <1>1 DEF FreshController
  <2>2. /\ cli[c] = NoCaller
        /\ cli[c].state = "NONE"
        /\ cli[c].puller.state = "STANDBY"
        /\ cli[c].outcome = "none"
        /\ cli[c].delivered = 0
    BY <1>1 DEF NoCaller, IdlePuller
  <2>3. \A e \in Callbacks : pending[c][e] = 0
    BY <1>1
  <2>4. ~Waiting(c) /\ ~Rebuilding(c) /\ \A e \in ClientStream : ~Queued(c, e)
    BY <2>1, <2>2, <2>3, KnownCallbacks DEF Waiting, Rebuilding, ClientStream, Queued
  <2>5. Unstarted(c) /\ Unheard(c)
    BY <2>1, <2>2, <2>3, <2>4, KnownCallbacks DEF Unstarted, Unheard
  <2>6. OneThingDue(c) /\ Delivers(c) /\ EndsFit(c)
    BY <2>1, <2>2, <2>3, <2>4, KnownCallbacks DEF OneThingDue, Delivers, EndsFit, One
  <2> QED BY <2>5, <2>6 DEF CallerParts
<1> QED BY <1>4, <1>5 DEF InvOfCallers

LEMMA OfEachCaller ==
  ASSUME InvOfCallers, NEW c \in Calls
  PROVE  CallerInv(c)
  BY DEF InvOfCallers, CallerInv

(* A call no step concerns keeps what held of it.                          *)
LEMMA CallerUndisturbed ==
  ASSUME NEW c \in Calls, CallerParts(c), Unheard(c),
         cli'[c] = cli[c], rpc'[c] = rpc[c], pending'[c] = pending[c]
  PROVE  CallerParts(c)' /\ Unheard(c)'
  BY DEF CallerParts, Unstarted, OneThingDue, Delivers, EndsFit, Waiting, Rebuilding,
         Unheard, Queued

LEMMA CallerNextInv == InvOfCallers /\ [CallerNext]_callerVars => InvOfCallers'
<1> SUFFICES ASSUME InvOfCallers, [CallerNext]_callerVars
             PROVE  InvOfCallers'
  OBVIOUS
<1>1. CASE CallerNext
  <2>1. PICK c \in Calls : ClientStep(c) \/ AnyServerStep(c)
    BY <1>1 DEF CallerNext
  <2>2. CallerInv(c)
    BY OfEachCaller
  <2>3. CallerKeeps(c) /\ Unheard(c)'
    <3>1. CASE ClientStep(c)
      BY <2>2, <3>1, StartKeeps, ClientHandlesActs DEF ClientStep, CallerActs
    <3>2. CASE AnyServerStep(c)
      <4>1. RpcTypeOK' /\ RpcElsewhere(c) /\ AnswersCaller(c) /\ Unheard(c)' /\ cli' = cli
        BY <2>2, <3>2, AnyServerAnswers DEF CallerInv, AnyServerStep
      <4>2. CallerParts(c)'
        BY <2>2, <4>1, AnswersKeep
      <4> QED BY <2>2, <4>1, <4>2
              DEF CallerInv, CallerKeeps, CallerElsewhere, ClientTypeOK
    <3> QED BY <2>1, <3>1, <3>2
  <2>4. ASSUME NEW d \in Calls, d # c
        PROVE  CallerParts(d)' /\ Unheard(d)'
    BY <2>3, <2>4, CallerUndisturbed DEF InvOfCallers, CallerKeeps, CallerElsewhere, RpcElsewhere
  <2> QED BY <2>3, <2>4 DEF InvOfCallers, CallerKeeps
<1>2. CASE UNCHANGED callerVars
  BY <1>2, CallerUndisturbed DEF InvOfCallers, callerVars, RpcTypeOK, ClientTypeOK
<1> QED BY <1>1, <1>2

(* The checks of a session, and those of the callbacks that find it, are   *)
(* in the parts of its invariant.  Without a session there are none.       *)
LEMMA PartsGiveChecks ==
  ASSUME \A c \in Calls : CallerParts(c) \/ cli[c] = NoCaller
  PROVE  ClientChecksHold
<1>1. ASSUME NEW c \in Calls
      PROVE  /\ \A e \in ClientStream \cup {"Done"} : Queued(c, e) => cli[c].state # "FREED"
             /\ rpc[c].status = "open" => cli[c].state # "FREED"
             /\ cli[c].puller.state = "UNMARSHALLING" => cli[c].state = "DONE"
  BY DEF CallerParts, OneThingDue, Waiting, Rebuilding, NoCaller, IdlePuller
<1>2. ASSUME NEW c \in Calls
      PROVE  /\ cli[c].state = "RUNNING" => /\ cli[c].pusher = "SENT_INITIAL_VALUE"
                                            /\ cli[c].puller.state = "STARTED"
             /\ Queued(c, "Done") /\ cli[c].state # "NONE" =>
                  /\ cli[c].pusher = "SENT_INITIAL_VALUE"
                  /\ cli[c].state = "DONE" => cli[c].puller.state = "READY_TO_UNMARSHAL"
                  /\ cli[c].state = "ERROR" => cli[c].puller.state \in {"STARTED", "FAILED"}
  BY DEF CallerParts, OneThingDue, EndsFit, Waiting, Rebuilding, NoCaller, IdlePuller
<1>3. CallerCallbacksFindSession
  BY <1>1 DEF CallerCallbacksFindSession
<1> QED BY <1>1, <1>2, <1>3, Zenon DEF ClientChecksHold

(* The inductive invariant holds of every caller's session, whatever       *)
(* server it faces.                                                        *)
THEOREM CallersInvHolds == CallerSpec => []InvOfCallers
  BY CallerInitInv, CallerNextInv, PTL DEF CallerSpec

(* Every variable of the calling side keeps its type: CallSession never    *)
(* leaves the states of its switch, nor its pusher and puller theirs.      *)
THEOREM CallerTypes == CallerSpec => [](RpcTypeOK /\ ClientTypeOK)
<1>1. InvOfCallers => RpcTypeOK /\ ClientTypeOK
  BY DEF InvOfCallers
<1> QED BY <1>1, CallersInvHolds, PTL

(* ClientChecksHold for every server: whatever it pushes, pulls or         *)
(* responds, and in whatever order, no callback of the RPC finds the       *)
(* session returned to its factory, and no GOOGLE_CHECK of CallSession,    *)
(* its ValuePusher or its ValuePuller fails.                               *)
THEOREM ClientChecksNeverFail == CallerSpec => []ClientChecksHold
<1>1. InvOfCallers => ClientChecksHold
  BY PartsGiveChecks DEF InvOfCallers
<1> QED BY <1>1, CallersInvHolds, PTL

(* A caller's callback runs at most once for each call, whatever the       *)
(* server does, and only after it was given an outcome to run on.          *)
THEOREM DeliversAtMostOnce ==
  CallerSpec => [](\A c \in Calls : /\ cli[c].delivered <= 1
                                    /\ cli[c].delivered = 1 => cli[c].outcome # "none")
<1>1. ASSUME InvOfCallers, NEW c \in Calls
      PROVE  /\ cli[c].delivered <= 1
             /\ cli[c].delivered = 1 => cli[c].outcome # "none"
  <2>1. CallerInv(c)
    BY <1>1, OfEachCaller
  <2>2. RpcTypeOK /\ ClientTypeOK /\ Delivers(c)
    BY <2>1, CallerFacts
  <2> QED BY <2>2, Counts, CallerFields DEF Delivers, One
<1>2. InvOfCallers => \A c \in Calls : /\ cli[c].delivered <= 1
                                       /\ cli[c].delivered = 1 => cli[c].outcome # "none"
  BY <1>1, Zenon
<1> QED BY <1>2, CallersInvHolds, PTL
=============================================================================
