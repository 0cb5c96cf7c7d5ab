------------------------------- MODULE RpcSystem -------------------------------
(***************************************************************************)
(* The RPC layer under a remote call: the executor that runs callbacks and *)
(* the streaming controller of each call, both ends of it.  rpc.h declares *)
(* the interfaces; fake_rpc.cc is the only implementation in the tree.     *)
(*                                                                         *)
(* The executor keeps a bag of pending callbacks per call and may run any  *)
(* of them next: Executor promises no order, and SimpleExecutor's single   *)
(* queue is one of the orders allowed.  The one promise kept is the        *)
(* controller's: the last callback of a stream (StopReceivingStream's, or  *)
(* the call's own Done) runs after the stream messages delivered before.   *)
(***************************************************************************)
EXTENDS Integers

CONSTANTS
  Calls,     \* the calls made by this process, one controller pair for each
  Fakes,     \* the RPC systems a call may go over.  TRUE: the controllers of
             \* fake_rpc.cc; FALSE: a system that keeps protobuf's contract (a
             \* cancel callback always runs in the end) but may lose the
             \* connection
  MaxMessages \* bound on the messages of a kind on their way, when a peer that
             \* is not of this tree adds one

ASSUME FakesAssumption == Fakes \subseteq BOOLEAN

VARIABLES
  rpc,       \* the controller pair of each call
  pending    \* how many times each callback of each call is queued

rpcVars == <<rpc, pending>>

(* Messages of the two streams, and all the callbacks a call can queue.    *)
ServerStream == {"ServerPush", "ServerPull"}
ClientStream == {"ClientPush", "ClientPull"}
Callbacks == ServerStream \cup ClientStream \cup
             {"ServerCall", "StartProcessing", "Canceled", "Stopped", "Delete",
              "Done", "RunCallback"}

Controller == [fake            : BOOLEAN,
               status          : {"idle", "open", "over"},
               response        : {"none", "error", "values"},
               canceled        : BOOLEAN,   \* canceled_, server end
               cancelCallback  : BOOLEAN,   \* cancel_callback_ != NULL
               serverReceiving : BOOLEAN]   \* stream_callback_ != NULL, server end

FreshController == [fake |-> FALSE, status |-> "idle", response |-> "none",
                    canceled |-> FALSE, cancelCallback |-> FALSE,
                    serverReceiving |-> FALSE]

RpcTypeOK == /\ rpc \in [Calls -> Controller]
             /\ pending \in [Calls -> [Callbacks -> Nat]]

RpcInit == /\ rpc \in [Calls -> {[FreshController EXCEPT !.fake = f] : f \in Fakes}]
           /\ pending = [c \in Calls |-> [e \in Callbacks |-> 0]]

-----------------------------------------------------------------------------
(* The executor.                                                           *)

Queued(c, e) == pending[c][e] > 0

One(b) == IF b THEN 1 ELSE 0

(* Executor::Add of every callback of new.                                 *)
Add(c, new) ==
  pending' = [pending EXCEPT ![c] =
                [k \in Callbacks |-> @[k] + One(k \in new)]]

(* Run callback e, which queues the callbacks of new.                      *)
Runs(c, e, new) ==
  /\ Queued(c, e)
  /\ pending' = [pending EXCEPT ![c] =
                   [k \in Callbacks |-> (@[k] - One(k = e)) + One(k \in new)]]

StreamDrained(c, messages) == \A e \in messages : ~Queued(c, e)

-----------------------------------------------------------------------------
(* The controller.  Each operation is its effect on the controller record  *)
(* and the set of callbacks it queues.                                     *)

StartCancel(r) == [r EXCEPT !.canceled = TRUE, !.cancelCallback = FALSE]

(* Mutant: the server is told nothing of a cancellation.                   *)
StartCancelAdds_Silent(r) == IF r.cancelCallback THEN {} ELSE {}

StartCancelAdds(r) == IF r.cancelCallback THEN {"Canceled"} ELSE {}

NotifyOnCancel(r) == [r EXCEPT !.cancelCallback = ~r.canceled]
NotifyOnCancelAdds(r) == IF r.canceled THEN {"Canceled"} ELSE {}

ReceiveStream(r) == [r EXCEPT !.serverReceiving = TRUE]

StopReceivingStream(r) == [r EXCEPT !.serverReceiving = FALSE]

(* A message goes to the other end's callback; with none registered it     *)
(* stays in stream_messages_, which nothing reads again.                   *)
SendToServerAdds(r, e) ==
  IF r.status = "open" /\ r.serverReceiving THEN {e} ELSE {}
SendToClientAdds(r, e) == IF r.status = "open" THEN {e} ELSE {}

(* The server ran its done closure: the client's is queued, unless the     *)
(* call already ended.  The contract then owes a call that was not         *)
(* canceled its cancel callback; FakeRpcController keeps it.               *)
Respond(r, response) ==
  [r EXCEPT !.status = "over",
            !.response = IF r.status = "open" THEN response ELSE @,
            !.cancelCallback = @ /\ r.fake]

RespondAdds(r) ==
  (IF r.status = "open" THEN {"Done"} ELSE {})
    \cup (IF r.cancelCallback /\ ~r.fake THEN {"Canceled"} ELSE {})

(* FakeRpcController::Reset clears both ends, the cancel callback with     *)
(* them.  In a real system the two ends do not share memory.               *)
Reset(r) == IF r.fake
            THEN [r EXCEPT !.canceled = FALSE, !.cancelCallback = FALSE,
                           !.serverReceiving = FALSE]
            ELSE r

(* The connection breaks: the client's call ends with no response and the  *)
(* server sees a cancellation.  No FakeRpcController ever fails.  *)
LoseConnection(c) ==
  /\ ~rpc[c].fake
  /\ rpc[c].status = "open"
  /\ rpc' = [rpc EXCEPT ![c] =
               [StartCancel(@) EXCEPT !.status = "over"]]
  /\ Add(c, {"Done"} \cup StartCancelAdds(rpc[c]))
=============================================================================
