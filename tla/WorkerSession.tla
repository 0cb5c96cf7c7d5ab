----------------------------- MODULE WorkerSession -----------------------------
(***************************************************************************)
(* EvlanWorkerImpl::CallSession: the serving side of a remote call.  A     *)
(* session receives the values of the call, evaluates it, and sends the    *)
(* result back; it is reference counted and every handler of it is a       *)
(* callback some other party queued.                                       *)
(*                                                                         *)
(* The handlers are one action each.  RemoteCall composes them with the    *)
(* client sessions of this tree, AnyClient with any client.                *)
(***************************************************************************)
EXTENDS RpcSystem, PushPull

VARIABLE srv        \* the session of each call

ServerSession ==
  [state     : {"NONE", "RECEIVING", "PROCESSING", "SENDING", "SHUTDOWN", "FREED"},
   refs      : Int,         \* refcount_
   answering : BOOLEAN,     \* rpc_, final_response_ and done_ are not NULL
   pusher    : PusherState,
   puller    : Puller,
   evaluated : BOOLEAN]     \* history: the call was evaluated

NoSession == [state |-> "NONE", refs |-> 0, answering |-> FALSE,
              pusher |-> "STANDBY", puller |-> IdlePuller, evaluated |-> FALSE]

ServerTypeOK == srv \in [Calls -> ServerSession]

ServerInit == srv = [c \in Calls |-> NoSession]

-----------------------------------------------------------------------------
(* What a handler leaves of a session, and the callbacks it queues.        *)

(* Unref: the last reference queues Delete.                                *)
Unref(s) == [s EXCEPT !.refs = @ - 1]

(* Mutant: tests the count before the decrement.                           *)
UnrefAdds_Late(s) == IF s.refs = 0 THEN {"Delete"} ELSE {}

UnrefAdds(s) == IF s.refs = 1 THEN {"Delete"} ELSE {}

(* Mutants: the session goes back to STANDBY; a call being processed keeps *)
(* its state because it cannot be stopped.                                 *)
ReturnError_Standby(s) ==
  IF s.answering THEN [s EXCEPT !.state = "STANDBY", !.answering = FALSE] ELSE s
ReturnError_Unnoticed(s) ==
  IF s.answering
  THEN [s EXCEPT !.state = IF s.state = "PROCESSING" THEN @ ELSE "SHUTDOWN",
                 !.answering = FALSE]
  ELSE s

(* ReturnError: nothing if a response was returned already.                *)
ReturnError(s) ==
  IF s.answering
  THEN [s EXCEPT !.state = "SHUTDOWN",
                 !.answering = FALSE,
                 !.puller = IF s.state = "RECEIVING" THEN IdlePuller ELSE @,
                 !.pusher = IF s.state = "SENDING" THEN "STANDBY" ELSE @]
  ELSE s

(* Mutant: does not notice that a response was returned.                   *)
ReturnErrorAdds_Twice(s) == IF s.state = "NONE" THEN {} ELSE {"Stopped"}

ReturnErrorAdds(s) == IF s.answering THEN {"Stopped"} ELSE {}
ReturnErrorRpc(s, r) == IF s.answering THEN StopReceivingStream(r) ELSE r

(* Mutants: Process() takes no reference; every push takes one.            *)
PushReceived_NoRef(s, o) ==
  LET t == [s EXCEPT !.puller = o.puller]
  IN CASE o.status = "READY" -> [t EXCEPT !.state = "PROCESSING"]
       [] o.status = "ERROR" -> ReturnError(t)
       [] OTHER -> t
PushReceived_RefAlways(s, o) ==
  LET t == [s EXCEPT !.puller = o.puller, !.refs = @ + 1]
  IN CASE o.status = "READY" -> [t EXCEPT !.state = "PROCESSING"]
       [] o.status = "ERROR" -> ReturnError(t)
       [] OTHER -> t

(* ReceivePush, for an outcome o of the puller's: pull the missing values, *)
(* keep waiting, Process() the call or return the error.                   *)
PushReceived(s, o) ==
  LET t == [s EXCEPT !.puller = o.puller]
  IN CASE o.status = "READY" -> [t EXCEPT !.state = "PROCESSING", !.refs = @ + 1]
       [] o.status = "ERROR" -> ReturnError(t)
       [] OTHER -> t

(* Mutant: processing starts while values are still missing.               *)
PushReceivedAdds_Eager(r, o) ==
  CASE o.status = "PULL" -> {"StartProcessing"} \cup SendToClientAdds(r, "ClientPull")
    [] o.status = "READY" -> {"StartProcessing"}
    [] o.status = "ERROR" -> {"Stopped"}
    [] OTHER -> {}

PushReceivedAdds(r, o) ==
  CASE o.status = "PULL" -> SendToClientAdds(r, "ClientPull")
    [] o.status = "READY" -> {"StartProcessing"}
    [] o.status = "ERROR" -> {"Stopped"}
    [] OTHER -> {}
PushReceivedRpc(r, o) == IF o.status = "ERROR" THEN StopReceivingStream(r) ELSE r

-----------------------------------------------------------------------------
(* The handlers.                                                           *)

(* EvlanWorkerImpl::Call makes the session; Start takes a reference for    *)
(* the response and one for Canceled, and receives the initial push.       *)
StartedSession == [state |-> "RECEIVING", refs |-> 2, answering |-> TRUE,
                   pusher |-> "STANDBY", puller |-> StartedPuller, evaluated |-> FALSE]

ServerCall(c) ==
  LET opened == ReceiveStream(NotifyOnCancel(rpc[c]))
  IN \E o \in ReceivePush(StartedPuller) :
       /\ Runs(c, "ServerCall",
               NotifyOnCancelAdds(rpc[c]) \cup PushReceivedAdds(opened, o))
       /\ srv' = [srv EXCEPT ![c] = PushReceived(StartedSession, o)]
       /\ rpc' = [rpc EXCEPT ![c] = PushReceivedRpc(opened, o)]

(* A handler that does nothing but return an error.                        *)
RefuseMessage(c, e) ==
  /\ Runs(c, e, ReturnErrorAdds(srv[c]))
  /\ srv' = [srv EXCEPT ![c] = ReturnError(@)]
  /\ rpc' = [rpc EXCEPT ![c] = ReturnErrorRpc(srv[c], @)]

(* StreamDone, one action for each case of its switch.                     *)
ReceivePushMessage(c) ==
  /\ srv[c].state = "RECEIVING"
  /\ \E o \in ReceivePush(srv[c].puller) :
       /\ Runs(c, "ServerPush", PushReceivedAdds(rpc[c], o))
       /\ srv' = [srv EXCEPT ![c] = PushReceived(@, o)]
       /\ rpc' = [rpc EXCEPT ![c] = PushReceivedRpc(@, o)]

ReceivePullMessage(c) ==
  /\ srv[c].state = "SENDING"
  /\ Runs(c, "ServerPull", SendToClientAdds(rpc[c], "ClientPush"))
  /\ UNCHANGED <<srv, rpc>>

ReceiveBadPull(c) ==                      \* RespondToPull returned false
  /\ srv[c].state = "SENDING"
  /\ FALSE \in DataVerdicts
  /\ RefuseMessage(c, "ServerPull")

ReceiveOutOfTurn(c) ==
  \E e \in ServerStream :
    /\ \/ srv[c].state = "PROCESSING"
       \/ srv[c].state = "RECEIVING" /\ e = "ServerPull"
       \/ srv[c].state = "SENDING" /\ e = "ServerPush"
    /\ RefuseMessage(c, e)

ReceiveAfterShutdown(c) ==
  /\ srv[c].state = "SHUTDOWN"
  /\ \E e \in ServerStream : Runs(c, e, {})
  /\ UNCHANGED <<srv, rpc>>

Canceled(c) ==
  LET s == ReturnError(srv[c])
  IN /\ Runs(c, "Canceled", ReturnErrorAdds(srv[c]) \cup UnrefAdds(s))
     /\ srv' = [srv EXCEPT ![c] = Unref(s)]
     /\ rpc' = [rpc EXCEPT ![c] = ReturnErrorRpc(srv[c], @)]

(* StartProcessing: with valid values evaluation starts, and               *)
(* DoneProcessing continues when it ends.                                  *)
StartProcessing(c) ==
  /\ Runs(c, "StartProcessing", {})
  /\ srv' = [srv EXCEPT ![c].puller.state = "UNMARSHALLING"]
  /\ UNCHANGED rpc

(* Otherwise the error is returned; Process()'s reference stays.           *)
StartProcessingInvalid(c) ==
  LET s == [srv[c] EXCEPT !.puller = IdlePuller]
  IN /\ FALSE \in DataVerdicts
     /\ Runs(c, "StartProcessing", ReturnErrorAdds(s))
     /\ srv' = [srv EXCEPT ![c] = ReturnError(s)]
     /\ rpc' = [rpc EXCEPT ![c] = ReturnErrorRpc(s, @)]

(* Mutant: the result is sent even if the call was shut down.              *)
ResultWanted_Always(s) == s.state # "NONE"

ResultWanted(s) == s.state = "PROCESSING"

(* The evaluation of call c ends.  Unless the call was shut down while it  *)
(* ran, the result is sent.                                                *)
DoneProcessing(c) ==
  LET s == [srv[c] EXCEPT !.puller = IdlePuller, !.evaluated = TRUE]
      sending == ResultWanted(s)
      t == IF sending
           THEN [s EXCEPT !.state = "SENDING", !.pusher = "SENT_INITIAL_VALUE"]
           ELSE s
  IN /\ srv[c].puller.state = "UNMARSHALLING"
     /\ Add(c, UnrefAdds(t) \cup
               (IF sending THEN SendToClientAdds(rpc[c], "ClientPush") ELSE {}))
     /\ srv' = [srv EXCEPT ![c] = Unref(t)]
     /\ UNCHANGED rpc

(* StoppedReceivingStream drops the response's reference and responds.     *)
StoppedReceivingStream(c) ==
  /\ StreamDrained(c, ServerStream)
  /\ Runs(c, "Stopped", UnrefAdds(srv[c]) \cup RespondAdds(rpc[c]))
  /\ srv' = [srv EXCEPT ![c] = Unref(@)]
  /\ rpc' = [rpc EXCEPT ![c] = Respond(@, "error")]

Delete(c) ==
  /\ Runs(c, "Delete", {})
  /\ srv' = [srv EXCEPT ![c].state = "FREED"]
  /\ UNCHANGED rpc

ServerStep(c) ==
  \/ ServerCall(c)
  \/ ReceivePushMessage(c)
  \/ ReceivePullMessage(c)
  \/ ReceiveBadPull(c)
  \/ ReceiveOutOfTurn(c)
  \/ ReceiveAfterShutdown(c)
  \/ Canceled(c)
  \/ StartProcessing(c)
  \/ StartProcessingInvalid(c)
  \/ DoneProcessing(c)
  \/ StoppedReceivingStream(c)
  \/ Delete(c)
(* The turn of a call is the request, a stream message on its way, or the  *)
(* server's processing of it.                                              *)
InTurn(c) == pending[c]["ServerCall"] + pending[c]["StartProcessing"]
               + pending[c]["ServerPush"] + pending[c]["ServerPull"]
               + pending[c]["ClientPush"] + pending[c]["ClientPull"]
               + One(srv[c].puller.state = "UNMARSHALLING")

-----------------------------------------------------------------------------
(* Who still holds a reference to the session of call c.                   *)

CancelHolds(c) == rpc[c].cancelCallback \/ Queued(c, "Canceled")
ResponseHolds(c) == srv[c].answering \/ Queued(c, "Stopped")
ProcessHolds(c) == \/ Queued(c, "StartProcessing")
                   \/ srv[c].puller.state = "UNMARSHALLING"

Holders(c) == One(CancelHolds(c)) + One(ResponseHolds(c)) + One(ProcessHolds(c))

Live(c) == srv[c].state \notin {"NONE", "FREED"}

(* No callback runs on a session that was deleted: as long as one is       *)
(* queued, or owed by the controller or the evaluation, the session is     *)
(* there.  The reference count of Start, Process, Canceled,                *)
(* StoppedReceivingStream and DoneProcessing is what has to ensure it.     *)
CallbacksFindSession ==
  \A c \in Calls :
    /\ CancelHolds(c) \/ ResponseHolds(c) \/ ProcessHolds(c)
         => srv[c].state # "FREED"
    /\ \A e \in ServerStream : Queued(c, e) => srv[c].state # "FREED"
    /\ Queued(c, "Delete") => Live(c) /\ srv[c].refs = 0

(* A session is never short of a reference: each party that will still     *)
(* call Unref holds one, and none holds two.                               *)
RefsCoverHolders ==
  \A c \in Calls :
    /\ Live(c) => srv[c].refs >= Holders(c)
    /\ \A e \in {"Canceled", "Stopped", "StartProcessing", "Delete"} :
         pending[c][e] <= 1
    /\ ~(rpc[c].cancelCallback /\ Queued(c, "Canceled"))
    /\ ~(srv[c].answering /\ Queued(c, "Stopped"))
    /\ ~(Queued(c, "StartProcessing") /\ srv[c].puller.state = "UNMARSHALLING")

(* No reference is left once its holder is gone: "Unref() once evaluation  *)
(* is complete", and one Unref for every other Ref.                        *)
NoReferenceLeaks == \A c \in Calls : Live(c) => srv[c].refs = Holders(c)

(* No GOOGLE_CHECK of a handler, or of the pusher or the puller under it,  *)
(* fails in any state a callback can find: ReturnError's on rpc_ and state,*)
(* ReceivePush, Unmarshal, Finish and Cancel on the puller's state, Finish *)
(* on the pusher's, StoppedReceivingStream's, and Delete's.                *)
ServerChecksHold ==
  \A c \in Calls :
    LET s == srv[c]
    IN /\ Queued(c, "ServerCall") => s.state = "NONE"
       /\ s.answering <=> s.state \in {"RECEIVING", "PROCESSING", "SENDING"}
       /\ s.state = "RECEIVING" => s.puller.state = "STARTED"
       /\ s.state = "SENDING" => s.pusher = "SENT_INITIAL_VALUE"
       /\ s.state = "PROCESSING" => s.pusher = "STANDBY"
       /\ Queued(c, "StartProcessing") =>
            /\ s.state \in {"PROCESSING", "SHUTDOWN"}
            /\ s.puller.state = "READY_TO_UNMARSHAL"
       /\ s.puller.state = "UNMARSHALLING" => s.state \in {"PROCESSING", "SHUTDOWN"}
       /\ Queued(c, "Stopped") => s.state = "SHUTDOWN"
       /\ Queued(c, "Delete") => s.state = "SHUTDOWN"

(* A session answers once: after the response is built it is never built   *)
(* again, whatever messages, cancellations or results still arrive.        *)
AnswersOnce ==
  [][\A c \in Calls :
       srv[c].state \in {"SHUTDOWN", "FREED"} =>
         /\ srv'[c].state \in {"SHUTDOWN", "FREED"}
         /\ pending'[c]["Stopped"] <= pending[c]["Stopped"]]_<<srv, pending>>
=============================================================================
