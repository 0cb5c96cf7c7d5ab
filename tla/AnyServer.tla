------------------------------- MODULE AnyServer -------------------------------
(***************************************************************************)
(* A client session against any server at all: one that takes the call and *)
(* the messages, sends pushes and pulls in or out of turn, and responds    *)
(* with an error or with values as worker.proto lets it.                   *)
(***************************************************************************)
EXTENDS ClientSession

ServerAccepts(c) ==
  /\ Runs(c, "ServerCall", {})
  /\ rpc' = [rpc EXCEPT ![c] = ReceiveStream(NotifyOnCancel(@))]

ServerTakes(c) ==
  /\ \E e \in ServerStream \cup {"Canceled"} : Runs(c, e, {})
  /\ UNCHANGED rpc

ServerSends(c) ==
  \E e \in ClientStream :
    /\ \A m \in {e} \cup ServerStream : pending[c][m] < MaxMessages
    /\ rpc[c].serverReceiving
    /\ e \in SendToClientAdds(rpc[c], e)
    /\ Add(c, {e})
    /\ UNCHANGED rpc

ServerResponds(c) ==
  \E response \in {"error", "values"} :
    /\ rpc[c].serverReceiving
    /\ rpc' = [rpc EXCEPT ![c] = Respond(StopReceivingStream(@), response)]
    /\ Add(c, RespondAdds(rpc[c]))

AnyServerStep(c) ==
  /\ \/ ServerAccepts(c)
     \/ ServerTakes(c)
     \/ ServerSends(c)
     \/ ServerResponds(c)
     \/ LoseConnection(c)
  /\ UNCHANGED cli

callerVars == <<rpc, pending, cli>>

CallerInit == RpcInit /\ ClientInit

CallerNext == \E c \in Calls : ClientStep(c) \/ AnyServerStep(c)

CallerSpec == CallerInit /\ [][CallerNext]_callerVars
=============================================================================
