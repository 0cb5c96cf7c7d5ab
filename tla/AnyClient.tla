------------------------------- MODULE AnyClient -------------------------------
(***************************************************************************)
(* A server session against any client at all: one that sends messages of  *)
(* either kind in or out of turn, takes what the server sent, and cancels  *)
(* at any time, as worker.proto lets it.                                   *)
(***************************************************************************)
EXTENDS WorkerSession

ClientCalls(c) ==
  /\ rpc[c].status = "idle"
  /\ rpc' = [rpc EXCEPT ![c].status = "open"]
  /\ Add(c, {"ServerCall"})

ClientSends(c) ==
  \E e \in ServerStream :
    /\ \A m \in {e} \cup ClientStream : pending[c][m] < MaxMessages
    /\ e \in SendToServerAdds(rpc[c], e)
    /\ Add(c, {e})
    /\ UNCHANGED rpc

ClientTakes(c) ==
  /\ \E e \in ClientStream \cup {"Done"} : Runs(c, e, {})
  /\ UNCHANGED rpc

ClientCancels(c) ==
  /\ rpc[c].status = "open"
  /\ rpc' = [rpc EXCEPT ![c] = StartCancel(@)]
  /\ Add(c, StartCancelAdds(rpc[c]))

AnyClientStep(c) ==
  /\ \/ ClientCalls(c)
     \/ ClientSends(c)
     \/ ClientTakes(c)
     \/ ClientCancels(c)
     \/ LoseConnection(c)
  /\ UNCHANGED srv

workerVars == <<rpc, pending, srv>>

WorkerInit == RpcInit /\ ServerInit

WorkerNext == \E c \in Calls : ServerStep(c) \/ AnyClientStep(c)

WorkerSpec == WorkerInit /\ [][WorkerNext]_workerVars
=============================================================================
