------------------------------- MODULE RemoteCall -------------------------------
(***************************************************************************)
(* Remote calls end to end: the client session of remote_worker_impl.cc,   *)
(* the server session of evlan_worker_impl.cc and the RPC system between.  *)
(* Either end may also be another program's, which speaks the protocol of  *)
(* worker.proto but keeps no turns.                                        *)
(***************************************************************************)
EXTENDS AnyClient, AnyServer

CONSTANT Foreign   \* which end of a call may be another program's: a subset of
                   \* {"neither", "client", "server"}

ASSUME ForeignAssumption == Foreign \subseteq {"neither", "client", "server"}

VARIABLE foreign   \* of each call

vars == <<rpc, pending, srv, cli, foreign>>

Init == /\ RpcInit /\ ServerInit /\ ClientInit
        /\ foreign \in [Calls -> Foreign]

ServerActs(c) == /\ foreign[c] # "server"
                 /\ ServerStep(c)
                 /\ UNCHANGED <<cli, foreign>>

ClientMakesCall(c) == /\ foreign[c] # "client"
                      /\ Start(c)
                      /\ UNCHANGED <<srv, foreign>>

ClientActs(c) == /\ foreign[c] # "client"
                 /\ ClientHandles(c)
                 /\ UNCHANGED <<srv, foreign>>

ForeignClient(c) == /\ foreign[c] = "client"
                    /\ AnyClientStep(c)
                    /\ UNCHANGED <<cli, foreign>>

ForeignServer(c) == /\ foreign[c] = "server"
                    /\ AnyServerStep(c)
                    /\ UNCHANGED <<srv, foreign>>

ConnectionBreaks(c) == /\ foreign[c] = "neither"
                       /\ LoseConnection(c)
                       /\ UNCHANGED <<srv, cli, foreign>>

Next == \E c \in Calls : \/ ClientMakesCall(c)
                         \/ ClientActs(c)
                         \/ ServerActs(c)
                         \/ ForeignClient(c)
                         \/ ForeignServer(c)
                         \/ ConnectionBreaks(c)

Spec == Init /\ [][Next]_vars

(* The executor runs what it is given, and evaluation ends.  Nothing makes *)
(* a program call, a foreign peer act, or a connection break.              *)
Fairness == \A c \in Calls : WF_vars(ServerActs(c)) /\ WF_vars(ClientActs(c))

FairSpec == Spec /\ Fairness

Ours(c) == foreign[c] = "neither"

TypeOK == RpcTypeOK /\ ServerTypeOK /\ ClientTypeOK

-----------------------------------------------------------------------------
(* worker.proto: "all streams are turn-based".  There is never more than   *)
(* one turn in a call: neither side speaks twice in a row, nor while the   *)
(* other may.                                                              *)
TurnBased == \A c \in Calls : Ours(c) => InTurn(c) <= 1

(* Values that fit together, over a connection that does not break, end in *)
(* the value computed, never in an error.                                  *)
HonestCallsSucceed ==
  \A c \in Calls : Ours(c) /\ rpc[c].fake /\ ~BadData => cli[c].outcome # "error"

(* The client sessions of this tree implement the abstract call, with the  *)
(* server sessions of this tree.  With any other server they still end     *)
(* each call once, whatever the value is worth.                            *)
Outcome(c) == CASE cli[c].state = "NONE" -> "idle"
                [] cli[c].state # "NONE" /\ cli[c].delivered = 0 -> "calling"
                [] cli[c].delivered = 1 -> cli[c].outcome
                [] OTHER -> "redelivered"

Evaluated(c) == CASE foreign[c] = "neither" -> srv[c].evaluated
                  [] foreign[c] = "server" -> cli[c].outcome = "value"
                  [] OTHER -> FALSE

Abstract == INSTANCE AbstractCall WITH
  status <- [c \in Calls |-> Outcome(c)],
  evaluated <- [c \in Calls |-> Evaluated(c)]

ImplementsAbstractCall == Abstract!Spec

(* Every call that is made gets its outcome.                               *)
EveryCallEnds == \A c \in Calls : cli[c].state = "RUNNING" ~> cli[c].delivered = 1

(* The server keeps no session for ever: Canceled "is called exactly once  *)
(* per request", so its reference is dropped and Delete runs.              *)
EverySessionFreed == \A c \in Calls : srv[c].state # "NONE" ~> srv[c].state = "FREED"
=============================================================================
