---------------------------- MODULE RemoteCall_proofs ----------------------------
(***************************************************************************)
(* Proofs about remote calls end to end: the two sessions of this tree on  *)
(* their own calls, and each of them against another program's peer, any   *)
(* number of calls at a time.                                              *)
(*                                                                         *)
(* CallOK is the inductive invariant of one call.  It joins SessionInv and *)
(* CallerParts, proved of each end alone, with what only the two together  *)
(* keep: TurnInv, that the ends take turns and a result reaches the caller *)
(* only from an evaluation, and Calm, that between honest ends over a      *)
(* connection that cannot break nothing cancels a call before its result.  *)
(***************************************************************************)
EXTENDS RemoteCall, WorkerSession_proofs, ClientSession_proofs

(* A call another program serves has no session here, and its peer drops   *)
(* no reference.                                                           *)
Unserved(c) ==
  /\ srv[c] = NoSession
  /\ OneShot(c)
  /\ ~Queued(c, "StartProcessing") /\ ~Queued(c, "Stopped") /\ ~Queued(c, "Delete")
  /\ rpc[c].status = "idle" \/ Queued(c, "ServerCall") => ~CancelHolds(c)

(* Once the call was evaluated only the caller asks and the server sends;  *)
(* before, it is the other way round.                                      *)
TurnInv(c) ==
  /\ InTurn(c) <= 1
  /\ Queued(c, "ServerPull") => srv[c].evaluated
  /\ srv[c].evaluated => ~Queued(c, "ServerPush") /\ ~Queued(c, "ClientPull")
  /\ cli[c].state = "DONE" \/ cli[c].outcome = "value" => srv[c].evaluated

(* With nothing to spoil a call it is not canceled before its result is    *)
(* complete, and then no cancellation is left that Reset could forget.     *)
Calm(c) ==
  rpc[c].fake /\ ~BadData =>
    /\ cli[c].state # "ERROR" /\ cli[c].outcome # "error"
    /\ cli[c].state \in {"NONE", "RUNNING"} =>
         /\ ~rpc[c].canceled /\ ~Queued(c, "Canceled")
         /\ ~Ended(c) /\ rpc[c].status # "over"
    /\ cli[c].state \in {"DONE", "FREED"} => srv[c].evaluated /\ ~rpc[c].cancelCallback

CallOK(c) ==
  /\ foreign[c] # "server" => SessionInv(c)
  /\ foreign[c] = "server" => Unserved(c)
  /\ foreign[c] # "client" => CallerParts(c) /\ Unheard(c)
  /\ foreign[c] = "client" => cli[c] = NoCaller
  /\ Ours(c) => TurnInv(c) /\ Calm(c)
  /\ ~BadData => Exact(c)

CallsInv == TypeOK /\ foreign \in [Calls -> Foreign] /\ \A c \in Calls : CallOK(c)

-----------------------------------------------------------------------------
(* A step concerns one call.                                               *)
Apart(c) == \A d \in Calls : d # c => /\ rpc'[d] = rpc[d] /\ pending'[d] = pending[d]
                                      /\ srv'[d] = srv[d] /\ cli'[d] = cli[d]

LEMMA CallParts ==
  ASSUME CallsInv, NEW c \in Calls
  PROVE  /\ RpcTypeOK /\ ServerTypeOK /\ ClientTypeOK
         /\ foreign[c] \in {"neither", "client", "server"}
         /\ foreign[c] # "server" => CallInv(c)
         /\ foreign[c] # "client" => CallerInv(c)
         /\ CallOK(c)
  BY ForeignAssumption DEF CallsInv, TypeOK, CallOK, CallInv, CallerInv

(* What makes up a turn is counted in natural numbers.                     *)
LEMMA TurnCounts ==
  ASSUME RpcTypeOK, NEW c \in Calls
  PROVE  /\ InTurn(c) \in Nat
         /\ InTurn(c) >= pending[c]["ServerPush"] + pending[c]["ServerPull"]
                           + pending[c]["ClientPush"] + pending[c]["ClientPull"]
                           + One(ProcessHolds(c))
<1>1. One(srv[c].puller.state = "UNMARSHALLING") \in Nat
  BY DEF One
<1>2. One(ProcessHolds(c)) <= pending[c]["StartProcessing"]
                                + One(srv[c].puller.state = "UNMARSHALLING")
  BY Counts DEF ProcessHolds, Queued, One
<1>3. One(ProcessHolds(c)) \in Nat
  BY DEF One
<1> QED BY <1>1, <1>2, <1>3, Counts DEF InTurn

(* Nothing is in turn before a call is made.                               *)
LEMMA NoTurnYet ==
  ASSUME NEW c \in Calls, CallInv(c), CallerInv(c), cli[c].state = "NONE"
  PROVE  /\ InTurn(c) = 0
         /\ rpc[c].status = "idle"
         /\ srv[c].state = "NONE" /\ ~srv[c].evaluated
         /\ pending[c]["ServerPush"] = 0 /\ pending[c]["ServerPull"] = 0
         /\ pending[c]["ClientPull"] = 0
<1>1. /\ RpcTypeOK /\ ServerTypeOK /\ Unborn(c) /\ Unowed(c) /\ Evaluation(c)
  BY Parts DEF CallInv
<1>2. rpc[c].status = "idle" /\ \A e \in ClientStream : ~Queued(c, e)
  BY CallerFacts DEF Unstarted
<1>3. pending[c]["ServerCall"] = 0 /\ srv[c].state = "NONE"
  BY <1>1, <1>2 DEF Unborn
<1>4. ~ProcessHolds(c) /\ ~Messages(c) /\ ~srv[c].evaluated
  BY <1>1, <1>3, Fields DEF Unowed, Live, Evaluation
<1>5. /\ pending[c]["StartProcessing"] = 0 /\ srv[c].puller.state # "UNMARSHALLING"
      /\ pending[c]["ServerPush"] = 0 /\ pending[c]["ServerPull"] = 0
      /\ pending[c]["ClientPush"] = 0 /\ pending[c]["ClientPull"] = 0
  BY <1>1, <1>2, <1>4, Counts DEF ProcessHolds, Messages, ClientStream, Queued
<1> QED BY <1>2, <1>3, <1>4, <1>5 DEF InTurn, One

-----------------------------------------------------------------------------
(* The caller makes a call.                                                *)
LEMMA MakesCall ==
  ASSUME CallsInv, NEW c \in Calls, ClientMakesCall(c)
  PROVE  TypeOK' /\ Apart(c) /\ CallOK(c)'
<1>1. /\ RpcTypeOK /\ ServerTypeOK /\ ClientTypeOK
      /\ foreign[c] \in {"neither", "server"}
      /\ foreign[c] # "server" => CallInv(c)
      /\ CallerInv(c)
      /\ CallOK(c)
  BY CallParts DEF ClientMakesCall
<1>2. Start(c) /\ srv' = srv /\ foreign' = foreign
  BY DEF ClientMakesCall
<1>3. CallerKeeps(c) /\ Unheard(c)'
  BY <1>1, <1>2, StartKeeps
<1>4. /\ cli[c].state = "NONE"
      /\ rpc[c].status = "idle"
      /\ rpc' = [rpc EXCEPT ![c].status = "open"]
      /\ Add(c, {"ServerCall"})
      /\ cli' = [cli EXCEPT ![c].state = "RUNNING",
                            ![c].pusher = "SENT_INITIAL_VALUE",
                            ![c].puller = StartedPuller]
  BY <1>1, <1>2, CallerFacts DEF Start, Unstarted
<1>5. TypeOK' /\ Apart(c)
  BY <1>1, <1>2, <1>3
     DEF TypeOK, ServerTypeOK, Apart, CallerKeeps, CallerElsewhere, RpcElsewhere
<1>6. ClientCalls(c)
  BY <1>4 DEF ClientCalls
<1>7. foreign[c] # "server" => SessionInv(c)'
  BY <1>1, <1>2, <1>6, ClientCallsKeeps DEF StepKeeps
<1>8. /\ pending' \in [Calls -> [Callbacks -> Nat]]
      /\ \A k \in Callbacks : pending'[c][k] = pending[c][k] + One(k \in {"ServerCall"})
  BY <1>1, <1>4, AddEffect
<1>9. /\ pending'[c]["ServerCall"] = pending[c]["ServerCall"] + 1
      /\ pending'[c]["StartProcessing"] = pending[c]["StartProcessing"]
      /\ pending'[c]["Canceled"] = pending[c]["Canceled"]
      /\ pending'[c]["Stopped"] = pending[c]["Stopped"]
      /\ pending'[c]["Delete"] = pending[c]["Delete"]
      /\ pending'[c]["ServerPush"] = pending[c]["ServerPush"]
      /\ pending'[c]["ServerPull"] = pending[c]["ServerPull"]
      /\ pending'[c]["ClientPush"] = pending[c]["ClientPush"]
      /\ pending'[c]["ClientPull"] = pending[c]["ClientPull"]
  BY <1>1, <1>8, Counts, KnownCallbacks DEF One
<1>10. /\ rpc'[c].status = "open"
       /\ rpc'[c].fake = rpc[c].fake
       /\ rpc'[c].canceled = rpc[c].canceled
       /\ rpc'[c].cancelCallback = rpc[c].cancelCallback
  BY <1>1, <1>4, ControllerFields DEF RpcTypeOK, Controller
<1>11. /\ cli'[c].state = "RUNNING"
       /\ cli'[c].outcome = "none"
  <2>1. cli[c].outcome = "none"
    BY <1>1, <1>4, CallerFacts DEF Unstarted, NoCaller
  <2>2. cli[c] \in CallerSession /\ cli \in [Calls -> CallerSession]
    BY <1>1 DEF ClientTypeOK
  <2> QED BY <1>4, <2>1, <2>2 DEF CallerSession
<1>12. ASSUME foreign[c] = "server"
       PROVE  Unserved(c)'
  <2>1. Unserved(c) /\ pending[c]["ServerCall"] = 0
    BY <1>1, <1>4, <1>12 DEF CallOK, CallerInv, Unheard
  <2>2. ~CancelHolds(c)' /\ OneShot(c)'
    BY <1>2, <1>4, <1>9, <1>10, <2>1 DEF Unserved, CancelHolds, OneShot, Queued
  <2> QED BY <1>2, <1>9, <2>1, <2>2 DEF Unserved, Queued
<1>13. ASSUME Ours(c)
       PROVE  TurnInv(c)' /\ Calm(c)'
  <2>1. /\ InTurn(c) = 0
        /\ srv[c].state = "NONE" /\ ~srv[c].evaluated
        /\ pending[c]["ServerPush"] = 0 /\ pending[c]["ServerPull"] = 0
        /\ pending[c]["ClientPull"] = 0
    BY <1>1, <1>4, <1>13, NoTurnYet DEF Ours
  <2>2. InTurn(c)' = InTurn(c) + 1
    <3>1. One(srv[c].puller.state = "UNMARSHALLING") \in Nat
      BY DEF One
    <3> QED BY <1>1, <1>2, <1>9, <3>1, Counts DEF InTurn
  <2>3. TurnInv(c)'
    BY <1>2, <1>9, <1>11, <2>1, <2>2 DEF TurnInv, Queued
  <2>4. Calm(c)
    BY <1>1, <1>13 DEF CallOK
  <2>5. Calm(c)'
    BY <1>2, <1>4, <1>9, <1>10, <1>11, <2>1, <2>4 DEF Calm, Ended, Queued
  <2> QED BY <2>3, <2>5
<1>14. Exact(c)'
  <2>1. srv[c].state = "NONE"
    BY <1>1, <1>4, NoTurnYet DEF CallOK, Unserved, NoSession
  <2> QED BY <1>2, <2>1 DEF Exact, Live
<1> QED
  BY <1>1, <1>2, <1>3, <1>5, <1>7, <1>12, <1>13, <1>14
     DEF CallOK, CallerKeeps, Ours

-----------------------------------------------------------------------------
(* The caller's session handles something.                                 *)

(* A cancellation that concerns no session of this tree.                   *)
LEMMA MovesUnserved ==
  ASSUME NEW c \in Calls, RpcTypeOK, Unserved(c), CallerMoves(c), srv' = srv
  PROVE  Unserved(c)'
<1>1. /\ pending'[c]["ServerCall"] = pending[c]["ServerCall"]
      /\ pending'[c]["StartProcessing"] = pending[c]["StartProcessing"]
      /\ pending'[c]["Stopped"] = pending[c]["Stopped"]
      /\ pending'[c]["Delete"] = pending[c]["Delete"]
      /\ rpc'[c].status = "idle" => rpc[c].status = "idle"
      /\ rpc[c].cancelCallback \in BOOLEAN
  BY ControllerFields DEF CallerMoves
<1>2. OneShot(c)' /\ (CancelHolds(c)' => CancelHolds(c))
  BY <1>1, Counts DEF CallerMoves, Unserved, OneShot, CancelHolds, Queued, One
<1> QED BY <1>1, <1>2 DEF Unserved, Queued

LEMMA ClientKeepsTurn ==
  ASSUME NEW c \in Calls, CallInv(c), CallerInv(c), TurnInv(c), CallerActs(c),
         srv' = srv
  PROVE  TurnInv(c)'
<1>1. RpcTypeOK /\ RpcTypeOK' /\ ServerTypeOK /\ Evaluation(c)
  BY Parts DEF CallInv, CallerActs, CallerMoves
<1>2. /\ pending'[c]["ServerCall"] = pending[c]["ServerCall"]
      /\ pending'[c]["StartProcessing"] = pending[c]["StartProcessing"]
  BY DEF CallerActs, CallerMoves
<1>3. OnTheStream(c)' <= OnTheStream(c)
  BY DEF CallerActs, AnswersInTurn
<1>4. /\ OnTheStream(c) \in Nat /\ OnTheStream(c)' \in Nat
      /\ pending'[c]["ServerPush"] \in Nat
      /\ pending'[c]["ServerPull"] \in Nat
      /\ pending'[c]["ClientPull"] \in Nat
  BY <1>1, KnownCallbacks DEF RpcTypeOK, OnTheStream
<1>5. InTurn(c)' <= 1
  <2> DEFINE rest == pending[c]["ServerCall"] + pending[c]["StartProcessing"]
                       + One(srv[c].puller.state = "UNMARSHALLING")
  <2>1. rest \in Nat /\ InTurn(c) = rest + OnTheStream(c)
    BY <1>1, Counts DEF InTurn, OnTheStream, One
  <2>2. rest' = rest
    BY <1>2
  <2>3. InTurn(c)' = rest' + OnTheStream(c)'
    <3>1. /\ pending'[c]["ServerCall"] \in Nat /\ pending'[c]["StartProcessing"] \in Nat
          /\ pending'[c]["ServerPush"] \in Nat /\ pending'[c]["ServerPull"] \in Nat
          /\ pending'[c]["ClientPush"] \in Nat /\ pending'[c]["ClientPull"] \in Nat
      BY <1>1, KnownCallbacks DEF RpcTypeOK
    <3>2. One(srv'[c].puller.state = "UNMARSHALLING") \in Nat
      BY DEF One
    <3> QED BY <3>1, <3>2 DEF InTurn, OnTheStream
  <2> HIDE DEF rest
  <2> QED BY <1>3, <1>4, <2>1, <2>2, <2>3 DEF TurnInv
<1>6. Queued(c, "ServerPull")' => srv'[c].evaluated
  BY <1>1, <1>4, Counts DEF CallerActs, AnswersInTurn, TurnInv, Evaluation, Queued
<1>7. srv'[c].evaluated => ~Queued(c, "ServerPush")' /\ ~Queued(c, "ClientPull")'
  BY <1>1, <1>4, Counts DEF CallerActs, AnswersInTurn, TurnInv, Queued
<1>8. cli'[c].state = "DONE" \/ cli'[c].outcome = "value" => srv'[c].evaluated
  BY <1>1 DEF CallerActs, EndsCallForCause, TurnInv, Evaluation
<1> QED BY <1>5, <1>6, <1>7, <1>8 DEF TurnInv

LEMMA ClientKeepsCalm ==
  ASSUME NEW c \in Calls, CallInv(c), CallerInv(c), TurnInv(c), Calm(c), CallerActs(c),
         srv' = srv
  PROVE  Calm(c)'
<1> SUFFICES ASSUME rpc'[c].fake, ~BadData
             PROVE  /\ cli'[c].state # "ERROR" /\ cli'[c].outcome # "error"
                    /\ cli'[c].state \in {"NONE", "RUNNING"} =>
                         /\ ~rpc'[c].canceled /\ ~Queued(c, "Canceled")'
                         /\ ~Ended(c)' /\ rpc'[c].status # "over"
                    /\ cli'[c].state \in {"DONE", "FREED"} =>
                         srv'[c].evaluated /\ ~rpc'[c].cancelCallback
  BY DEF Calm
<1>1. /\ cli[c].state # "ERROR" /\ cli[c].outcome # "error"
      /\ cli[c].state \in {"NONE", "RUNNING"} =>
           /\ ~rpc[c].canceled /\ ~Queued(c, "Canceled")
           /\ ~Ended(c) /\ rpc[c].status # "over"
      /\ cli[c].state \in {"DONE", "FREED"} => srv[c].evaluated /\ ~rpc[c].cancelCallback
  BY DEF Calm, CallerActs, CancelsAloud
<1>2. Evaluation(c) /\ RpcTypeOK /\ RpcTypeOK'
  BY Parts DEF CallInv, CallerActs, CallerMoves
<1>3. cli'[c].state # "ERROR"
  BY <1>1 DEF CallerActs, EndsCallForCause
<1>4. cli'[c].outcome # "error"
  <2>1. ~(Queued(c, "Done") /\ cli[c].state = "RUNNING")
    <3>1. Unstarted(c) /\ OneThingDue(c)
      BY CallerFacts
    <3> QED BY <1>1, <1>2, <3>1, ControllerFields DEF Unstarted, OneThingDue
  <2> QED BY <1>1, <2>1 DEF CallerActs, EndsCallForCause
<1>5. ASSUME cli'[c].state \in {"NONE", "RUNNING"}
      PROVE  /\ ~rpc'[c].canceled /\ ~Queued(c, "Canceled")'
             /\ ~Ended(c)' /\ rpc'[c].status # "over"
  BY <1>1, <1>5 DEF CallerActs, EndsCallForCause, Ended, Queued
<1>6. ASSUME cli'[c].state \in {"DONE", "FREED"}
      PROVE  srv'[c].evaluated /\ ~rpc'[c].cancelCallback
  <2>1. \/ cli[c].state \in {"DONE", "FREED"}
        \/ Queued(c, "ClientPush") /\ ~rpc'[c].cancelCallback
    BY <1>4, <1>6 DEF CallerActs, EndsCallForCause
  <2>2. rpc'[c].cancelCallback => rpc[c].cancelCallback
    BY <1>2, ControllerFields DEF CallerActs, CallerMoves
  <2> QED BY <1>1, <1>2, <2>1, <2>2 DEF Evaluation
<1> QED BY <1>3, <1>4, <1>5, <1>6

LEMMA ClientHandlesKeeps ==
  ASSUME CallsInv, NEW c \in Calls, ClientActs(c)
  PROVE  TypeOK' /\ Apart(c) /\ CallOK(c)'
<1>1. /\ RpcTypeOK /\ ServerTypeOK /\ ClientTypeOK
      /\ foreign[c] \in {"neither", "server"}
      /\ foreign[c] # "server" => CallInv(c)
      /\ CallerInv(c)
      /\ CallOK(c)
  BY CallParts DEF ClientActs
<1>2. srv' = srv /\ foreign' = foreign
  BY DEF ClientActs
<1>3. CallerActs(c) /\ Unheard(c)'
  BY <1>1, ClientHandlesActs DEF ClientActs
<1>4. CallerMoves(c) /\ CallerKeeps(c)
  BY <1>3 DEF CallerActs
<1>5. TypeOK' /\ Apart(c)
  BY <1>1, <1>2, <1>4
     DEF TypeOK, ServerTypeOK, Apart, CallerKeeps, CallerElsewhere, RpcElsewhere
<1>6. ASSUME foreign[c] # "server"
      PROVE  SessionInv(c)' /\ (CancelHolds(c)' = CancelHolds(c) => (Exact(c) => Exact(c)'))
  BY <1>1, <1>2, <1>4, <1>6, CallerMovesKeep DEF StepKeeps
<1>7. ASSUME foreign[c] = "server"
      PROVE  Unserved(c)' /\ Exact(c)'
  <2>1. Unserved(c)'
    BY <1>1, <1>2, <1>4, <1>7, MovesUnserved DEF CallOK
  <2> QED BY <2>1 DEF Unserved, Exact, Live, NoSession
<1>8. ASSUME Ours(c)
      PROVE  TurnInv(c)' /\ Calm(c)'
  BY <1>1, <1>2, <1>3, <1>8, ClientKeepsTurn, ClientKeepsCalm DEF CallOK, Ours
<1>9. ASSUME ~BadData, foreign[c] # "server"
      PROVE  Exact(c)'
  <2>1. Ours(c) /\ Exact(c) /\ Calm(c)
    BY <1>1, <1>9 DEF CallOK, Ours
  <2>2. CASE (rpc'[c].cancelCallback \/ Queued(c, "Canceled")')
               <=> (rpc[c].cancelCallback \/ Queued(c, "Canceled"))
    <3>1. CancelHolds(c)' = CancelHolds(c)
      BY <1>1, <1>5, <2>2, ControllerFields DEF CancelHolds, TypeOK, Queued
    <3> QED BY <1>6, <1>9, <2>1, <3>1
  <2>3. CASE rpc[c].fake /\ rpc[c].cancelCallback /\ cli'[c].state = "FREED"
    <3>1. cli[c].state \in {"DONE", "FREED"} \/ cli'[c].outcome = "error"
      BY <1>3, <2>3 DEF CallerActs, EndsCallForCause
    <3>2. rpc'[c].fake /\ Calm(c)'
      BY <1>3, <1>8, <2>1, <2>3 DEF CallerActs, CancelsAloud
    <3> QED BY <1>9, <2>1, <2>3, <3>1, <3>2 DEF Calm
  <2> QED BY <1>3, <2>2, <2>3 DEF CallerActs, CancelsAloud
<1> QED
  BY <1>1, <1>2, <1>3, <1>4, <1>5, <1>6, <1>7, <1>8, <1>9 DEF CallOK, CallerKeeps, Ours

-----------------------------------------------------------------------------
(* The server's session handles something.                                 *)

LEMMA ServerKeepsTurn ==
  ASSUME NEW c \in Calls, CallInv(c), TurnInv(c), ServerKeeps(c), cli' = cli
  PROVE  TurnInv(c)'
<1>1. RpcTypeOK /\ RpcTypeOK' /\ TurnPasses(c)
  BY DEF CallInv, ServerKeeps, StepKeeps
<1>2. InTurn(c) \in Nat /\ InTurn(c)' \in Nat
  <2>1. /\ pending'[c]["ServerCall"] \in Nat /\ pending'[c]["StartProcessing"] \in Nat
        /\ pending'[c]["ServerPush"] \in Nat /\ pending'[c]["ServerPull"] \in Nat
        /\ pending'[c]["ClientPush"] \in Nat /\ pending'[c]["ClientPull"] \in Nat
    BY <1>1, KnownCallbacks DEF RpcTypeOK
  <2> QED BY <1>1, <2>1, TurnCounts DEF InTurn, One
<1>3. InTurn(c)' <= 1
  BY <1>1, <1>2 DEF TurnInv, TurnPasses
<1>4. /\ pending'[c]["ServerPush"] \in Nat /\ pending'[c]["ServerPull"] \in Nat
      /\ pending'[c]["ClientPull"] \in Nat
      /\ pending'[c]["ServerPush"] <= pending[c]["ServerPush"]
      /\ pending'[c]["ServerPull"] <= pending[c]["ServerPull"]
      /\ srv'[c].evaluated => pending'[c]["ClientPull"] <= pending[c]["ClientPull"]
      /\ srv[c].evaluated => srv'[c].evaluated
  BY <1>1, KnownCallbacks, Counts DEF TurnPasses, RpcTypeOK
<1>5. Queued(c, "ServerPull")' => srv'[c].evaluated
  BY <1>1, <1>4, Counts DEF TurnInv, Queued
<1>6. ASSUME srv'[c].evaluated
      PROVE  ~Queued(c, "ServerPush")' /\ ~Queued(c, "ClientPull")'
  <2>1. pending[c]["ServerPush"] = 0 /\ pending[c]["ClientPull"] = 0
    <3>1. CASE srv[c].evaluated
      BY <1>1, <3>1, Counts DEF TurnInv, Queued
    <3>2. CASE srv[c].puller.state = "UNMARSHALLING"
      <4>1. One(ProcessHolds(c)) = 1
        BY <3>2 DEF ProcessHolds, One
      <4> QED BY <1>1, <1>2, <4>1, TurnCounts, Counts DEF TurnInv
    <3> QED BY <1>1, <1>6, <3>1, <3>2 DEF TurnPasses
  <2> QED BY <1>4, <1>6, <2>1 DEF Queued
<1>7. cli'[c].state = "DONE" \/ cli'[c].outcome = "value" => srv'[c].evaluated
  BY <1>4 DEF TurnInv
<1> QED BY <1>3, <1>5, <1>6, <1>7 DEF TurnInv

(* No message finds the session of a call that keeps turns at a loss.      *)
LEMMA NeverOutOfTurn ==
  ASSUME NEW c \in Calls, CallInv(c), TurnInv(c)
  PROVE  ~OutOfTurn(c)
<1>1. RpcTypeOK /\ Evaluation(c)
  BY Parts DEF CallInv
<1>2. ~(srv[c].state = "PROCESSING" /\ Messages(c))
  <2>1. ASSUME srv[c].state = "PROCESSING", Messages(c)
        PROVE  FALSE
    <3>1. One(ProcessHolds(c)) = 1
      BY <1>1, <2>1 DEF Evaluation, One
    <3>2. pending[c]["ServerPush"] + pending[c]["ServerPull"] >= 1
      BY <1>1, <2>1, Counts DEF Messages, Queued
    <3> QED BY <1>1, <3>1, <3>2, TurnCounts, Counts DEF TurnInv
  <2> QED BY <2>1
<1>3. ~(srv[c].state = "RECEIVING" /\ Queued(c, "ServerPull"))
  BY <1>1 DEF TurnInv, Evaluation
<1>4. ~(srv[c].state = "SENDING" /\ Queued(c, "ServerPush"))
  BY <1>1 DEF TurnInv, Evaluation
<1> QED BY <1>2, <1>3, <1>4 DEF OutOfTurn

LEMMA ServerKeepsCalm ==
  ASSUME NEW c \in Calls, CallInv(c), TurnInv(c), Calm(c), ServerKeeps(c), cli' = cli
  PROVE  Calm(c)'
<1> SUFFICES ASSUME rpc'[c].fake, ~BadData
             PROVE  /\ cli'[c].state # "ERROR" /\ cli'[c].outcome # "error"
                    /\ cli'[c].state \in {"NONE", "RUNNING"} =>
                         /\ ~rpc'[c].canceled /\ ~Queued(c, "Canceled")'
                         /\ ~Ended(c)' /\ rpc'[c].status # "over"
                    /\ cli'[c].state \in {"DONE", "FREED"} =>
                         srv'[c].evaluated /\ ~rpc'[c].cancelCallback
  BY DEF Calm
<1>1. EndsForCause(c) /\ TurnPasses(c) /\ ~OutOfTurn(c)
  BY NeverOutOfTurn DEF ServerKeeps
<1>2. /\ cli[c].state # "ERROR" /\ cli[c].outcome # "error"
      /\ cli[c].state \in {"NONE", "RUNNING"} =>
           /\ ~rpc[c].canceled /\ ~Queued(c, "Canceled")
           /\ ~Ended(c) /\ rpc[c].status # "over"
      /\ cli[c].state \in {"DONE", "FREED"} => srv[c].evaluated /\ ~rpc[c].cancelCallback
      /\ rpc[c].fake
  BY <1>1 DEF Calm, EndsForCause
<1>3. ASSUME cli[c].state \in {"NONE", "RUNNING"}
      PROVE  /\ ~rpc'[c].canceled /\ ~Queued(c, "Canceled")'
             /\ ~Ended(c)' /\ rpc'[c].status # "over"
  BY <1>1, <1>2, <1>3 DEF EndsForCause
<1>4. ASSUME cli[c].state \in {"DONE", "FREED"}
      PROVE  srv'[c].evaluated /\ ~rpc'[c].cancelCallback
  <2>1. srv[c].evaluated /\ ~rpc[c].cancelCallback
    BY <1>2, <1>4
  <2>2. ~Queued(c, "ServerCall")
    <3>1. Unborn(c) /\ Evaluation(c)
      BY Parts
    <3> QED BY <2>1, <3>1 DEF Unborn, Evaluation
  <2> QED BY <1>1, <2>1, <2>2 DEF TurnPasses, EndsForCause
<1> QED BY <1>2, <1>3, <1>4

LEMMA ServerActsKeeps ==
  ASSUME CallsInv, NEW c \in Calls, ServerActs(c)
  PROVE  TypeOK' /\ Apart(c) /\ CallOK(c)'
<1>1. /\ RpcTypeOK /\ ServerTypeOK /\ ClientTypeOK
      /\ foreign[c] \in {"neither", "client"}
      /\ CallInv(c)
      /\ foreign[c] # "client" => CallerInv(c)
      /\ CallOK(c)
  BY CallParts DEF ServerActs
<1>2. cli' = cli /\ foreign' = foreign
  BY DEF ServerActs
<1>3. ServerKeeps(c)
  BY <1>1, ServerStepKeeps DEF ServerActs
<1>4. StepKeeps(c) /\ AnswersCaller(c) /\ CountStays(c)
  BY <1>3 DEF ServerKeeps
<1>5. TypeOK' /\ Apart(c)
  BY <1>1, <1>2, <1>4 DEF TypeOK, ClientTypeOK, Apart, StepKeeps, Elsewhere
<1>6. SessionInv(c)'
  BY <1>4 DEF StepKeeps
<1>7. ASSUME foreign[c] # "client"
      PROVE  CallerParts(c)' /\ Unheard(c)'
  <2>1. CallerParts(c)'
    BY <1>1, <1>2, <1>4, <1>5, <1>7, AnswersKeep DEF TypeOK
  <2>2. Unheard(c)'
    BY <1>6 DEF SessionInv, Unborn, Unheard
  <2> QED BY <2>1, <2>2
<1>8. foreign[c] = "client" => cli'[c] = NoCaller
  BY <1>1, <1>2 DEF CallOK
<1>9. ASSUME Ours(c)
      PROVE  TurnInv(c)' /\ Calm(c)'
  BY <1>1, <1>2, <1>3, <1>9, ServerKeepsTurn, ServerKeepsCalm DEF CallOK
<1>10. ~BadData => Exact(c)'
  BY <1>1, <1>4 DEF CallOK, CountStays
<1> QED BY <1>1, <1>2, <1>5, <1>6, <1>7, <1>8, <1>9, <1>10 DEF CallOK, Ours

-----------------------------------------------------------------------------
(* Another program's client, or server, does something.                    *)

LEMMA ForeignClientKeeps ==
  ASSUME CallsInv, NEW c \in Calls, ForeignClient(c)
  PROVE  TypeOK' /\ Apart(c) /\ CallOK(c)'
<1>1. /\ RpcTypeOK /\ ServerTypeOK /\ ClientTypeOK
      /\ foreign[c] = "client" /\ foreign' = foreign /\ cli' = cli
      /\ CallInv(c)
      /\ CallOK(c)
  BY CallParts DEF ForeignClient
<1>2. StepKeeps(c) /\ (Exact(c) => Exact(c)')
  BY <1>1, AnyClientStepKeeps DEF ForeignClient
<1>3. TypeOK' /\ Apart(c) /\ SessionInv(c)'
  BY <1>1, <1>2 DEF TypeOK, ClientTypeOK, Apart, StepKeeps, Elsewhere
<1> QED BY <1>1, <1>2, <1>3 DEF CallOK, Ours

(* Each step of another program's server drops a cancellation callback at  *)
(* most, or takes one over with the call.                                  *)
LEMMA ServerStaysApart ==
  ASSUME NEW c \in Calls, RpcTypeOK, Unheard(c), Unserved(c), AnyServerStep(c),
         srv' = srv
  PROVE  Unserved(c)'
<1>1. /\ rpc[c] \in Controller
      /\ rpc[c].cancelCallback \in BOOLEAN /\ rpc[c].canceled \in BOOLEAN
  BY ControllerFields
<1>2. \A e \in Callbacks : pending[c][e] \in Nat
  BY DEF RpcTypeOK
<1>3. CASE ServerAccepts(c)
  <2> DEFINE r == ReceiveStream(NotifyOnCancel(rpc[c]))
  <2>1. Runs(c, "ServerCall", {}) /\ rpc' = [rpc EXCEPT ![c] = r]
    BY <1>3 DEF ServerAccepts
  <2>2. r.status = rpc[c].status
    BY <1>1 DEF NotifyOnCancel, ReceiveStream, Controller
  <2> HIDE DEF r
  <2>3. /\ pending[c]["ServerCall"] >= 1
        /\ \A k \in Callbacks :
             pending'[c][k] = (pending[c][k] - One(k = "ServerCall")) + One(k \in {})
    BY <2>1, KnownCallbacks, RunsEffect
  <2>4. /\ pending'[c]["ServerCall"] = pending[c]["ServerCall"] - 1
        /\ pending'[c]["StartProcessing"] = pending[c]["StartProcessing"]
        /\ pending'[c]["Canceled"] = pending[c]["Canceled"]
        /\ pending'[c]["Stopped"] = pending[c]["Stopped"]
        /\ pending'[c]["Delete"] = pending[c]["Delete"]
    BY <2>3, Counts, KnownCallbacks DEF One
  <2>5. ~Queued(c, "Canceled")
    BY <2>3, Counts DEF Unserved, CancelHolds, Queued
  <2>6. rpc'[c].status # "idle"
    BY <2>1, <2>2, <2>3 DEF Unheard, RpcTypeOK
  <2>7. ~Queued(c, "ServerCall")'
    BY <2>3, <2>4, Counts DEF Unserved, OneShot, Queued
  <2>8. OneShot(c)'
    BY <2>4, <2>5, Counts DEF Unserved, OneShot, Queued, NoSession, IdlePuller
  <2> QED BY <2>4, <2>6, <2>7, <2>8 DEF Unserved, Queued
<1>4. CASE ~ServerAccepts(c)
  <2>1. /\ pending'[c]["ServerCall"] = pending[c]["ServerCall"]
        /\ pending'[c]["StartProcessing"] = pending[c]["StartProcessing"]
        /\ pending'[c]["Stopped"] = pending[c]["Stopped"]
        /\ pending'[c]["Delete"] = pending[c]["Delete"]
        /\ pending'[c]["Canceled"] \in Nat
        /\ rpc'[c].status = "idle" => rpc[c].status = "idle"
        /\ rpc'[c].cancelCallback \in BOOLEAN
        /\ \/ /\ rpc'[c].cancelCallback = rpc[c].cancelCallback
              /\ pending'[c]["Canceled"] <= pending[c]["Canceled"]
           \/ /\ rpc'[c].cancelCallback = FALSE
              /\ pending'[c]["Canceled"] <= pending[c]["Canceled"] + One(rpc[c].cancelCallback)
    <3>1. CASE ServerTakes(c)
      <4>1. PICK e \in ServerStream \cup {"Canceled"} : Runs(c, e, {})
        BY <3>1 DEF ServerTakes
      <4>2. rpc' = rpc /\ e \in Callbacks
        BY <3>1 DEF ServerTakes, Callbacks
      <4>3. /\ pending' \in [Calls -> [Callbacks -> Nat]]
            /\ \A k \in Callbacks :
                 pending'[c][k] = (pending[c][k] - One(k = e)) + One(k \in {})
        BY <4>1, <4>2, RunsEffect
      <4>4. \A k \in Callbacks \ (ServerStream \cup {"Canceled"}) : pending'[c][k] = pending[c][k]
        BY <1>2, <4>3 DEF One
      <4>5. pending'[c]["Canceled"] \in Nat /\ pending'[c]["Canceled"] <= pending[c]["Canceled"]
        BY <1>2, <4>3, KnownCallbacks DEF One
      <4> QED BY <1>1, <4>2, <4>4, <4>5, KnownCallbacks DEF ServerStream
    <3>2. CASE ServerSends(c)
      <4>1. PICK e \in ClientStream : Add(c, {e}) /\ rpc' = rpc
        BY <3>2 DEF ServerSends
      <4>2. /\ pending' \in [Calls -> [Callbacks -> Nat]]
            /\ \A k \in Callbacks : pending'[c][k] = pending[c][k] + One(k \in {e})
        BY <4>1, AddEffect
      <4>3. \A k \in Callbacks \ ClientStream : pending'[c][k] = pending[c][k]
        BY <1>2, <4>2 DEF One
      <4> QED BY <1>1, <1>2, <4>1, <4>3, KnownCallbacks DEF ClientStream
    <3>3. CASE ServerResponds(c)
      <4>1. PICK response \in {"error", "values"} :
              /\ rpc' = [rpc EXCEPT ![c] = Respond(StopReceivingStream(rpc[c]), response)]
              /\ Add(c, RespondAdds(rpc[c]))
        BY <3>3 DEF ServerResponds
      <4> DEFINE r == Respond(StopReceivingStream(rpc[c]), response)
                 new == RespondAdds(rpc[c])
      <4>2. /\ r.status = "over"
            /\ r.cancelCallback = (rpc[c].cancelCallback /\ rpc[c].fake)
        BY <1>1 DEF Respond, StopReceivingStream, Controller
      <4>3. \A k \in Callbacks \ {"Done"} :
              k \in new <=> k = "Canceled" /\ rpc[c].cancelCallback /\ ~rpc[c].fake
        BY DEF RespondAdds
      <4>4. Add(c, new) /\ rpc' = [rpc EXCEPT ![c] = r]
        BY <4>1
      <4> HIDE DEF r, new
      <4>5. \A k \in Callbacks : pending'[c][k] = pending[c][k] + One(k \in new)
        BY <4>4, AddEffect
      <4>6. \A k \in Callbacks \ {"Done", "Canceled"} : pending'[c][k] = pending[c][k]
        BY <1>2, <4>3, <4>5 DEF One
      <4>7. pending'[c]["Canceled"]
              = pending[c]["Canceled"] + One(rpc[c].cancelCallback /\ ~rpc[c].fake)
        BY <4>3, <4>5, KnownCallbacks DEF One
      <4>8. rpc'[c].status = "over" /\ rpc'[c].cancelCallback = (rpc[c].cancelCallback /\ rpc[c].fake)
        BY <4>2, <4>4 DEF RpcTypeOK
      <4> QED BY <1>1, <1>2, <4>6, <4>7, <4>8, KnownCallbacks, ControllerFields DEF One
    <3>4. CASE LoseConnection(c)
      <4>1. CallerMoves(c)
        BY <3>4, CancelingMoves DEF LoseConnection
      <4>2. RpcTypeOK'
        BY <4>1 DEF CallerMoves
      <4>3. pending'[c]["Canceled"] \in Nat /\ rpc'[c].cancelCallback \in BOOLEAN
        BY <4>2, KnownCallbacks DEF RpcTypeOK, Controller
      <4> QED BY <1>1, <4>1, <4>3, Counts DEF CallerMoves, One
    <3> QED BY <1>4, <3>1, <3>2, <3>3, <3>4 DEF AnyServerStep
  <2>2. OneShot(c)' /\ (CancelHolds(c)' => CancelHolds(c))
    BY <1>1, <2>1, Counts
       DEF Unserved, OneShot, CancelHolds, Queued, One, NoSession, IdlePuller
  <2> QED BY <2>1, <2>2 DEF Unserved, Queued
<1> QED BY <1>3, <1>4

LEMMA ForeignServerKeeps ==
  ASSUME CallsInv, NEW c \in Calls, ForeignServer(c)
  PROVE  TypeOK' /\ Apart(c) /\ CallOK(c)'
<1>1. /\ RpcTypeOK /\ ServerTypeOK /\ ClientTypeOK
      /\ foreign[c] = "server" /\ foreign' = foreign
      /\ CallerInv(c)
      /\ CallOK(c)
  BY CallParts DEF ForeignServer
<1>2. AnyServerStep(c) /\ srv' = srv /\ cli' = cli
  BY DEF ForeignServer, AnyServerStep
<1>3. RpcTypeOK' /\ RpcElsewhere(c) /\ AnswersCaller(c) /\ Unheard(c)'
  BY <1>1, <1>2, AnyServerAnswers DEF CallerInv
<1>4. CallerParts(c)'
  BY <1>1, <1>2, <1>3, AnswersKeep
<1>5. Unserved(c)'
  BY <1>1, <1>2, ServerStaysApart DEF CallOK, CallerInv
<1>6. Exact(c)'
  BY <1>5 DEF Unserved, Exact, Live, NoSession
<1>7. TypeOK' /\ Apart(c)
  BY <1>1, <1>2, <1>3 DEF TypeOK, ServerTypeOK, ClientTypeOK, Apart, RpcElsewhere
<1> QED BY <1>1, <1>3, <1>4, <1>5, <1>6, <1>7 DEF CallOK, Ours

(* The connection of a call between two ends of this tree breaks.          *)
LEMMA BreakKeeps ==
  ASSUME CallsInv, NEW c \in Calls, ConnectionBreaks(c)
  PROVE  TypeOK' /\ Apart(c) /\ CallOK(c)'
<1>1. /\ RpcTypeOK /\ ServerTypeOK /\ ClientTypeOK
      /\ foreign[c] = "neither" /\ foreign' = foreign
      /\ CallInv(c) /\ CallerInv(c)
      /\ CallOK(c)
  BY CallParts DEF ConnectionBreaks
<1>2. /\ LoseConnection(c) /\ srv' = srv /\ cli' = cli
      /\ AnyClientStep(c) /\ AnyServerStep(c)
  BY DEF ConnectionBreaks, AnyClientStep, AnyServerStep
<1>3. StepKeeps(c) /\ (Exact(c) => Exact(c)')
  BY <1>1, <1>2, AnyClientStepKeeps
<1>4. RpcTypeOK' /\ RpcElsewhere(c) /\ AnswersCaller(c) /\ Unheard(c)'
  BY <1>1, <1>2, AnyServerAnswers DEF CallerInv
<1>5. CallerParts(c)'
  BY <1>1, <1>2, <1>4, AnswersKeep
<1>6. /\ pending'[c]["ServerCall"] = pending[c]["ServerCall"]
      /\ pending'[c]["StartProcessing"] = pending[c]["StartProcessing"]
      /\ pending'[c]["ServerPush"] = pending[c]["ServerPush"]
      /\ pending'[c]["ServerPull"] = pending[c]["ServerPull"]
      /\ pending'[c]["ClientPush"] = pending[c]["ClientPush"]
      /\ pending'[c]["ClientPull"] = pending[c]["ClientPull"]
  <2> DEFINE new == {"Done"} \cup StartCancelAdds(rpc[c])
  <2>1. \A k \in Callbacks \ {"Done", "Canceled"} : k \notin new
    BY DEF StartCancelAdds
  <2>2. Add(c, new)
    BY <1>2 DEF LoseConnection
  <2> HIDE DEF new
  <2>3. \A k \in Callbacks : pending'[c][k] = pending[c][k] + One(k \in new)
    BY <1>1, <2>2, AddEffect
  <2> QED BY <1>1, <2>1, <2>3, Counts, KnownCallbacks DEF One
<1>7. TurnInv(c)'
  <2>1. InTurn(c)' = InTurn(c)
    BY <1>2, <1>6 DEF InTurn
  <2> QED BY <1>1, <1>2, <1>6, <2>1 DEF CallOK, Ours, TurnInv, Queued
<1>8. Calm(c)'
  <2>1. ~rpc'[c].fake
    BY <1>1, <1>2, ControllerFields DEF LoseConnection, RpcTypeOK, StartCancel, Controller
  <2> QED BY <2>1 DEF Calm
<1>9. TypeOK' /\ Apart(c) /\ SessionInv(c)'
  BY <1>1, <1>2, <1>3 DEF TypeOK, ClientTypeOK, Apart, StepKeeps, Elsewhere
<1> QED BY <1>1, <1>3, <1>4, <1>5, <1>7, <1>8, <1>9 DEF CallOK, Ours

-----------------------------------------------------------------------------
(* The specification keeps the invariant.                                  *)

LEMMA CallUndisturbed ==
  ASSUME CallsInv, NEW c \in Calls,
         rpc'[c] = rpc[c], pending'[c] = pending[c], srv'[c] = srv[c], cli'[c] = cli[c],
         foreign' = foreign
  PROVE  CallOK(c)'
<1>1. CallOK(c) /\ (foreign[c] # "server" => CallInv(c))
  BY CallParts
<1>2. foreign[c] # "server" => SessionInv(c)'
  BY <1>1, Undisturbed DEF Messages, Queued
<1>3. foreign[c] = "server" => Unserved(c)'
  BY <1>1 DEF CallOK, Unserved, OneShot, CancelHolds, Queued
<1>4. foreign[c] # "client" => CallerParts(c)' /\ Unheard(c)'
  BY <1>1, CallerUndisturbed DEF CallOK
<1>5. TurnInv(c) => TurnInv(c)'
  BY DEF TurnInv, InTurn, Queued
<1>6. Calm(c) => Calm(c)'
  BY DEF Calm, Ended, Queued
<1>7. Exact(c) => Exact(c)'
  BY DEF Exact, Live, Holders, CancelHolds, ResponseHolds, ProcessHolds, Queued
<1> QED BY <1>1, <1>2, <1>3, <1>4, <1>5, <1>6, <1>7 DEF CallOK, Ours

LEMMA CallsInit == Init => CallsInv
<1> SUFFICES ASSUME Init
             PROVE  CallsInv
  OBVIOUS
<1>1. Inv /\ InvOfCallers
  BY InitInv, CallerInitInv DEF Init, WorkerInit, CallerInit
<1>2. TypeOK /\ foreign \in [Calls -> Foreign]
  BY <1>1 DEF TypeOK, Inv, InvOfCallers, Init
<1>3. ASSUME NEW c \in Calls
      PROVE  CallOK(c)
  <2>1. SessionInv(c) /\ CallerParts(c) /\ Unheard(c)
    BY <1>1 DEF Inv, InvOfCallers
  <2>2. /\ srv[c] = NoSession
        /\ cli[c] = NoCaller
        /\ \A e \in Callbacks : pending[c][e] = 0
        /\ \E f \in Fakes : rpc[c] = [FreshController EXCEPT !.fake = f]
    BY DEF Init, ServerInit, ClientInit, RpcInit
  <2>3. /\ rpc[c].status = "idle"
        /\ ~rpc[c].canceled
        /\ ~rpc[c].cancelCallback
    BY <2>2 DEF FreshController
  <2>4. /\ srv[c].state = "NONE" /\ ~srv[c].evaluated
        /\ srv[c].puller.state = "STANDBY"
        /\ cli[c].state = "NONE" /\ cli[c].outcome = "none"
    BY <2>2 DEF NoSession, NoCaller, IdlePuller
  <2>5. Unserved(c)
    BY <2>1, <2>2, <2>3, KnownCallbacks DEF Unserved, SessionInv, CancelHolds, Queued
  <2>6. TurnInv(c)
    BY <2>2, <2>4, KnownCallbacks DEF TurnInv, InTurn, One, Queued
  <2>7. Calm(c)
    BY <2>2, <2>3, <2>4, KnownCallbacks DEF Calm, Ended, Queued
  <2>8. Exact(c)
    BY <2>4 DEF Exact, Live
  <2> QED BY <2>1, <2>2, <2>5, <2>6, <2>7, <2>8 DEF CallOK
<1> QED BY <1>2, <1>3 DEF CallsInv

(* Whichever end acts, or the connection breaks: one call is concerned.    *)
LEMMA StepConcernsOne ==
  ASSUME CallsInv, Next
  PROVE  /\ TypeOK' /\ foreign' = foreign
         /\ \E c \in Calls : Apart(c) /\ CallOK(c)'
<1>1. PICK c \in Calls : \/ ClientMakesCall(c)
                        \/ ClientActs(c)
                        \/ ServerActs(c)
                        \/ ForeignClient(c)
                        \/ ForeignServer(c)
                        \/ ConnectionBreaks(c)
  BY DEF Next
<1>2. TypeOK' /\ Apart(c) /\ CallOK(c)'
  BY <1>1, MakesCall, ClientHandlesKeeps, ServerActsKeeps, ForeignClientKeeps,
     ForeignServerKeeps, BreakKeeps
<1>3. foreign' = foreign
  BY <1>1 DEF ClientMakesCall, ClientActs, ServerActs, ForeignClient, ForeignServer,
       ConnectionBreaks
<1> QED BY <1>2, <1>3

LEMMA CallsNext == CallsInv /\ [Next]_vars => CallsInv'
<1> SUFFICES ASSUME CallsInv, [Next]_vars
             PROVE  CallsInv'
  OBVIOUS
<1>1. CASE Next
  <2>1. TypeOK' /\ foreign' = foreign
    BY <1>1, StepConcernsOne
  <2>2. PICK c \in Calls : Apart(c) /\ CallOK(c)'
    BY <1>1, StepConcernsOne
  <2>3. ASSUME NEW d \in Calls, d # c
        PROVE  CallOK(d)'
    BY <2>1, <2>2, <2>3, CallUndisturbed DEF Apart
  <2>4. \A d \in Calls : CallOK(d)'
    BY <2>2, <2>3
  <2> QED BY <2>1, <2>4 DEF CallsInv
<1>2. CASE UNCHANGED vars
  <2>1. /\ rpc' = rpc /\ pending' = pending /\ srv' = srv /\ cli' = cli
        /\ foreign' = foreign
    BY <1>2 DEF vars
  <2>2. \A c \in Calls : CallOK(c)'
    BY <2>1, CallUndisturbed
  <2>3. TypeOK'
    BY <2>1 DEF CallsInv, TypeOK, RpcTypeOK, ServerTypeOK, ClientTypeOK
  <2> QED BY <2>1, <2>2, <2>3 DEF CallsInv
<1> QED BY <1>1, <1>2

(* The inductive invariant holds of every call, whichever of its ends is   *)
(* another program's and whether or not its connection can break.          *)
THEOREM CallsInvHolds == Spec => []CallsInv
  BY CallsInit, CallsNext, PTL DEF Spec

(* Every variable keeps its type: neither end of a call, nor the RPC layer *)
(* between them, ever leaves the states its code knows.                    *)
THEOREM TypesHold == Spec => []TypeOK
<1>1. CallsInv => TypeOK
  BY DEF CallsInv
<1> QED BY <1>1, CallsInvHolds, PTL

(* A call served by another program has no session here to go wrong.       *)
LEMMA UnservedIsSafe ==
  ASSUME NEW c \in Calls, RpcTypeOK, Unserved(c)
  PROVE  FindsSession(c) /\ CoversHolders(c) /\ PassesChecks(c)
<1>1. /\ srv[c].state = "NONE" /\ ~srv[c].answering
      /\ srv[c].puller.state = "STANDBY"
  BY DEF Unserved, NoSession, IdlePuller
<1>2. \A e \in {"Canceled", "Stopped", "StartProcessing", "Delete"} : pending[c][e] <= 1
  BY DEF Unserved, OneShot
<1> QED BY <1>1, <1>2 DEF Unserved, OneShot, FindsSession, CoversHolders, PassesChecks, Live

LEMMA SafeServers ==
  ASSUME CallsInv
  PROVE  CallbacksFindSession /\ RefsCoverHolders /\ ServerChecksHold
<1>1. ASSUME NEW c \in Calls
      PROVE  FindsSession(c) /\ CoversHolders(c) /\ PassesChecks(c)
  BY CallParts, SafeSession, UnservedIsSafe DEF CallOK
<1> QED BY <1>1, OfAllSessions

(* CallbacksFindSession for the program as a whole: no callback of a       *)
(* server's session finds it deleted, in a call from this tree or from any *)
(* other client (Ref, Unref and Delete of EvlanWorkerImpl::CallSession).   *)
THEOREM ServersOutliveCallbacks == Spec => []CallbacksFindSession
<1>1. CallsInv => CallbacksFindSession
  BY SafeServers
<1> QED BY <1>1, CallsInvHolds, PTL

(* RefsCoverHolders: as long as a party will still call Unref it holds one *)
(* of the references that refcount_ counts.                                *)
THEOREM ServersCountEveryHolder == Spec => []RefsCoverHolders
<1>1. CallsInv => RefsCoverHolders
  BY SafeServers
<1> QED BY <1>1, CallsInvHolds, PTL

(* ServerChecksHold: no GOOGLE_CHECK under a server's session fails.       *)
THEOREM ServersPassChecks == Spec => []ServerChecksHold
<1>1. CallsInv => ServerChecksHold
  BY SafeServers
<1> QED BY <1>1, CallsInvHolds, PTL

(* ClientChecksHold: no callback of the RPC finds a caller's session       *)
(* returned to its factory, and no GOOGLE_CHECK of it fails, whether this  *)
(* tree serves the call or another program does.                           *)
THEOREM CallersPassChecks == Spec => []ClientChecksHold
<1>1. ASSUME CallsInv, NEW c \in Calls
      PROVE  CallerParts(c) \/ cli[c] = NoCaller
  BY <1>1, CallParts DEF CallOK
<1>2. CallsInv => ClientChecksHold
  BY <1>1, PartsGiveChecks
<1> QED BY <1>2, CallsInvHolds, PTL

(* TurnBased: between two ends of this tree there is one turn in a call at *)
(* a time, as worker.proto has it, and that needs no order of delivery.    *)
THEOREM EndsTakeTurns == Spec => []TurnBased
<1>1. CallsInv => TurnBased
  BY CallParts DEF CallOK, TurnInv, TurnBased
<1> QED BY <1>1, CallsInvHolds, PTL

(* HonestCallsSucceed: between two ends of this tree, with values that fit *)
(* together and a connection that does not break, no call ends in an error *)
(* (StreamDone and Done of RemoteWorkerFactoryImpl::CallSession).          *)
THEOREM HonestCallsNeverFail == Spec => []HonestCallsSucceed
<1>1. CallsInv => HonestCallsSucceed
  BY CallParts DEF CallOK, Calm, HonestCallsSucceed
<1> QED BY <1>1, CallsInvHolds, PTL

(* NoReferenceLeaks: with values that fit together every reference to a    *)
(* server's session has a holder left to drop it, so none is kept alive    *)
(* for nothing.                                                            *)
THEOREM CallsLeakNothing == ASSUME ~BadData
                            PROVE  Spec => []NoReferenceLeaks
<1>1. CallsInv => NoReferenceLeaks
  BY CallParts, OfAllSessions DEF CallOK
<1> QED BY <1>1, CallsInvHolds, PTL

-----------------------------------------------------------------------------
(* What a step may do to one call.                                         *)

(* A server's session that answered does not answer again.                 *)
LEMMA StepAnswersOnce ==
  ASSUME CallsInv, Next, NEW d \in Calls
  PROVE  AnswerStays(d)
<1>1. PICK c \in Calls : \/ ClientMakesCall(c)
                        \/ ClientActs(c)
                        \/ ServerActs(c)
                        \/ ForeignClient(c)
                        \/ ForeignServer(c)
                        \/ ConnectionBreaks(c)
  BY DEF Next
<1>2. RpcTypeOK /\ pending[c]["Stopped"] \in Nat /\ pending[d]["Stopped"] \in Nat
  BY CallParts, Counts
<1>3. CASE d # c
  <2>1. Apart(c)
    BY <1>1, MakesCall, ClientHandlesKeeps, ServerActsKeeps, ForeignClientKeeps,
       ForeignServerKeeps, BreakKeeps
  <2> QED BY <1>2, <1>3, <2>1 DEF Apart, AnswerStays
<1>4. CASE d = c
  <2>1. CASE ClientMakesCall(c)
    <3>1. Add(c, {"ServerCall"}) /\ srv' = srv
      BY <2>1 DEF ClientMakesCall, Start
    <3>2. pending'[c]["Stopped"] = pending[c]["Stopped"]
      BY <1>2, <3>1, AddEffect, KnownCallbacks DEF One
    <3> QED BY <1>2, <1>4, <3>1, <3>2 DEF AnswerStays
  <2>2. CASE ClientActs(c)
    <3>1. ClientHandles(c) /\ srv' = srv /\ CallerInv(c)
      BY <2>2, CallParts DEF ClientActs
    <3>2. CallerMoves(c)
      BY <3>1, ClientHandlesActs DEF CallerActs
    <3> QED BY <1>2, <1>4, <3>1, <3>2 DEF AnswerStays, CallerMoves
  <2>3. CASE ServerActs(c)
    BY <1>4, <2>3, CallParts, ServerStepKeeps DEF ServerActs, ServerKeeps, StepKeeps
  <2>4. CASE ForeignClient(c)
    BY <1>4, <2>4, CallParts, AnyClientStepKeeps DEF ForeignClient, StepKeeps
  <2>5. CASE ForeignServer(c)
    <3>1. srv' = srv /\ Unserved(c)
      BY <2>5, CallParts DEF ForeignServer, CallOK
    <3> QED BY <1>4, <3>1 DEF Unserved, NoSession, AnswerStays
  <2>6. CASE ConnectionBreaks(c)
    <3>1. AnyClientStep(c) /\ CallInv(c)
      BY <2>6, CallParts DEF ConnectionBreaks, AnyClientStep
    <3> QED BY <1>4, <3>1, AnyClientStepKeeps DEF StepKeeps
  <2> QED BY <1>1, <2>1, <2>2, <2>3, <2>4, <2>5, <2>6
<1> QED BY <1>3, <1>4

(* AnswersOnce: once a server decided the response of a call, no message,  *)
(* cancellation, broken connection or late result decides it again.        *)
THEOREM ServersAnswerOnce == Spec => AnswersOnce
<1> DEFINE Once == \A c \in Calls :
                     srv[c].state \in {"SHUTDOWN", "FREED"} =>
                       /\ srv'[c].state \in {"SHUTDOWN", "FREED"}
                       /\ pending'[c]["Stopped"] <= pending[c]["Stopped"]
<1>1. CallsInv /\ Next => Once
  BY StepAnswersOnce DEF AnswerStays
<1>2. CallsInv /\ [Next]_vars => [Once]_<<srv, pending>>
  BY <1>1 DEF vars
<1>3. AnswersOnce <=> [][Once]_<<srv, pending>>
  BY DEF AnswersOnce
<1> QED BY <1>2, <1>3, CallsInvHolds, PTL DEF Spec

-----------------------------------------------------------------------------
(* The calls of this tree implement the abstract call.                     *)

(* A step moves one call of the abstract specification, or none.           *)
Maps(c) ==
  \/ Outcome(c)' = Outcome(c) /\ Evaluated(c)' = Evaluated(c)
  \/ /\ Outcome(c) = "idle" /\ Outcome(c)' = "calling"
     /\ Evaluated(c)' = Evaluated(c)
  \/ /\ Outcome(c) \in {"calling", "error"} /\ Outcome(c)' = Outcome(c)
     /\ ~Evaluated(c) /\ Evaluated(c)'
  \/ /\ Outcome(c) = "calling" /\ Outcome(c)' = "value"
     /\ Evaluated(c) /\ Evaluated(c)'
  \/ /\ Outcome(c) = "calling" /\ Outcome(c)' = "error"
     /\ Evaluated(c)' = Evaluated(c)

(* What the caller's session shows of its call.                            *)
LEMMA OutcomeOf ==
  ASSUME NEW c \in Calls, CallerInv(c)
  PROVE  /\ cli[c].state = "NONE" =>
              Outcome(c) = "idle" /\ cli[c].delivered = 0 /\ cli[c].outcome = "none"
         /\ cli[c].state # "NONE" /\ cli[c].delivered = 0 => Outcome(c) = "calling"
         /\ cli[c].delivered # 0 =>
              /\ cli[c].delivered = 1 /\ cli[c].state # "NONE"
              /\ Outcome(c) = cli[c].outcome
              /\ cli[c].outcome \in {"value", "error"}
<1>1. /\ RpcTypeOK /\ ClientTypeOK /\ Unstarted(c) /\ Delivers(c)
      /\ cli[c].delivered \in Nat /\ pending[c]["RunCallback"] \in Nat
      /\ cli[c].outcome \in {"none", "value", "error"}
  BY CallerFacts, CallerFields, Counts
<1>2. cli[c].state = "NONE" => cli[c].delivered = 0 /\ cli[c].outcome = "none"
  BY <1>1 DEF Unstarted, NoCaller
<1>3. cli[c].delivered # 0 => cli[c].delivered = 1 /\ cli[c].outcome # "none"
  BY <1>1 DEF Delivers, One
<1> QED BY <1>1, <1>2, <1>3 DEF Outcome

(* The same of the state a step leaves.                                    *)
LEMMA OutcomeAfter ==
  ASSUME NEW c \in Calls, CallerKeeps(c)
  PROVE  /\ cli'[c].state # "NONE" /\ cli'[c].delivered = 0 => Outcome(c)' = "calling"
         /\ cli'[c].delivered # 0 =>
              /\ cli'[c].delivered = 1
              /\ Outcome(c)' = cli'[c].outcome
<1>1. /\ RpcTypeOK' /\ ClientTypeOK' /\ Unstarted(c)' /\ Delivers(c)'
  BY DEF CallerKeeps, CallerParts
<1>2. /\ cli'[c].delivered \in Nat /\ pending'[c]["RunCallback"] \in Nat
  BY <1>1, KnownCallbacks DEF ClientTypeOK, CallerSession, RpcTypeOK
<1>3. cli'[c].state = "NONE" => cli'[c].delivered = 0
  BY <1>1 DEF Unstarted, NoCaller
<1>4. cli'[c].delivered # 0 => cli'[c].delivered = 1
  BY <1>1, <1>2 DEF Delivers, One
<1> QED BY <1>3, <1>4 DEF Outcome

LEMMA MakesCallMaps ==
  ASSUME CallsInv, NEW c \in Calls, ClientMakesCall(c)
  PROVE  Maps(c)
<1>1. CallerInv(c) /\ Start(c) /\ srv' = srv /\ foreign' = foreign /\ ClientTypeOK
  BY CallParts DEF ClientMakesCall
<1>2. /\ cli'[c].state = "RUNNING"
      /\ cli'[c].delivered = cli[c].delivered
      /\ cli'[c].outcome = cli[c].outcome
      /\ cli[c].state = "NONE"
  BY <1>1 DEF Start, ClientTypeOK, CallerSession
<1>3. CallerKeeps(c)
  BY <1>1, StartKeeps
<1>4. Outcome(c) = "idle" /\ Outcome(c)' = "calling"
  BY <1>1, <1>2, <1>3, OutcomeOf, OutcomeAfter
<1>5. Evaluated(c)' = Evaluated(c)
  BY <1>1, <1>2 DEF Evaluated
<1> QED BY <1>4, <1>5 DEF Maps

LEMMA ClientActsMaps ==
  ASSUME CallsInv, NEW c \in Calls, ClientActs(c)
  PROVE  Maps(c)
<1>1. /\ CallerInv(c) /\ ClientHandles(c) /\ srv' = srv /\ foreign' = foreign
      /\ foreign[c] \in {"neither", "server"}
      /\ CallOK(c)
  BY CallParts DEF ClientActs
<1>2. CallerKeeps(c) /\ Reports(c)
  BY <1>1, ClientHandlesActs DEF CallerActs
<1>3. /\ cli[c].delivered \in Nat /\ cli[c].outcome \in {"none", "value", "error"}
      /\ cli'[c].outcome \in {"none", "value", "error"}
  BY <1>1, <1>2, CallerFields DEF CallerInv, CallerKeeps, ClientTypeOK, CallerSession
<1>4. cli[c].outcome # "none" <=> cli[c].state = "FREED"
  BY <1>1 DEF CallerInv, CallerParts, Delivers
<1>5. cli'[c].outcome # "none" <=> cli'[c].state = "FREED"
  BY <1>2 DEF CallerKeeps, CallerParts, Delivers
<1>6. CASE cli[c].state = "NONE"
  <2>1. cli'[c].state = "NONE" /\ cli'[c].outcome = "none"
    BY <1>2, <1>5, <1>6 DEF Reports
  <2>2. Outcome(c)' = Outcome(c)
    BY <1>6, <2>1 DEF Outcome
  <2>3. cli[c].outcome = "none"
    BY <1>4, <1>6
  <2> QED BY <1>1, <2>1, <2>2, <2>3 DEF Maps, Evaluated
<1>7. CASE cli[c].state # "NONE" /\ cli'[c].delivered = cli[c].delivered
  <2>1. cli'[c].state # "NONE"
    BY <1>2, <1>7 DEF Reports
  <2>2. /\ cli[c].delivered = 0 => Outcome(c) = "calling" /\ Outcome(c)' = "calling"
        /\ cli[c].delivered # 0 =>
             /\ Outcome(c) = cli[c].outcome /\ Outcome(c)' = cli'[c].outcome
             /\ cli[c].outcome # "none"
    BY <1>1, <1>2, <1>7, <2>1, OutcomeOf, OutcomeAfter
  <2>3. Outcome(c)' = Outcome(c) /\ (Outcome(c) = "calling" \/ cli'[c].outcome = cli[c].outcome)
    BY <1>2, <2>2 DEF Reports
  <2>4. CASE foreign[c] = "neither"
    BY <1>1, <2>3, <2>4 DEF Maps, Evaluated
  <2>5. CASE foreign[c] = "server"
    BY <1>1, <1>2, <2>3, <2>5 DEF Maps, Evaluated, Reports
  <2> QED BY <1>1, <2>4, <2>5
<1>8. CASE cli[c].state # "NONE" /\ cli'[c].delivered # cli[c].delivered
  <2>1. cli'[c].delivered = cli[c].delivered + 1 /\ cli'[c].outcome = cli[c].outcome
    BY <1>2, <1>8 DEF Reports
  <2>2. cli'[c].delivered = 1 /\ cli[c].delivered = 0 /\ Outcome(c)' = cli[c].outcome
    BY <1>2, <1>3, <2>1, OutcomeAfter
  <2>3. Outcome(c) = "calling"
    BY <1>1, <1>8, <2>2, OutcomeOf
  <2>4. cli'[c].outcome # "none"
    <3>1. RpcTypeOK' /\ Delivers(c)'
      BY <1>2 DEF CallerKeeps, CallerParts
    <3>2. pending'[c]["RunCallback"] \in Nat
      BY <3>1, KnownCallbacks DEF RpcTypeOK
    <3> QED BY <2>2, <3>1, <3>2 DEF Delivers, One
  <2>5. Outcome(c)' \in {"value", "error"}
    BY <1>3, <2>1, <2>2, <2>4
  <2>6. Evaluated(c)' = Evaluated(c) /\ (Outcome(c)' = "value" => Evaluated(c))
    BY <1>1, <2>1, <2>2 DEF Evaluated, CallOK, Ours, TurnInv
  <2> QED BY <2>3, <2>5, <2>6 DEF Maps
<1> QED BY <1>6, <1>7, <1>8

LEMMA ServerActsMaps ==
  ASSUME CallsInv, NEW c \in Calls, ServerActs(c)
  PROVE  Maps(c)
<1>1. /\ cli' = cli /\ foreign' = foreign
      /\ foreign[c] \in {"neither", "client"}
      /\ CallOK(c) /\ CallInv(c) /\ ServerStep(c)
      /\ foreign[c] # "client" => CallerInv(c)
  BY CallParts DEF ServerActs
<1>2. Outcome(c)' = Outcome(c)
  BY <1>1 DEF Outcome
<1>3. CASE foreign[c] = "client"
  BY <1>1, <1>2, <1>3 DEF Maps, Evaluated
<1>4. CASE foreign[c] = "neither"
  <2>1. TurnPasses(c) /\ ServerTypeOK' /\ ServerTypeOK
    BY <1>1, ServerStepKeeps DEF ServerKeeps, StepKeeps, CallInv
  <2>2. srv[c].evaluated \in BOOLEAN /\ srv'[c].evaluated \in BOOLEAN
    BY <2>1 DEF ServerTypeOK, ServerSession
  <2>3. Evaluated(c) = srv[c].evaluated /\ Evaluated(c)' = srv'[c].evaluated
    BY <1>1, <1>4 DEF Evaluated
  <2>4. CASE srv'[c].evaluated = srv[c].evaluated
    BY <1>2, <2>3, <2>4 DEF Maps
  <2>5. CASE srv'[c].evaluated # srv[c].evaluated
    <3>1. ~srv[c].evaluated /\ srv'[c].evaluated
      BY <2>1, <2>2, <2>5 DEF TurnPasses
    <3>2. srv[c].puller.state = "UNMARSHALLING"
      BY <2>1, <3>1 DEF TurnPasses
    <3>3. cli[c].state # "NONE"
      <4>1. srv[c].state # "NONE"
        BY <1>1, <3>2, Parts DEF Unborn
      <4> QED BY <1>1, <1>4, <4>1, NoTurnYet
    <3>4. cli[c].outcome # "value"
      BY <1>1, <1>4, <3>1 DEF CallOK, Ours, TurnInv
    <3>5. Outcome(c) \in {"calling", "error"}
      BY <1>1, <1>4, <3>3, <3>4, OutcomeOf
    <3> QED BY <1>2, <2>3, <3>1, <3>5 DEF Maps
  <2> QED BY <2>4, <2>5
<1> QED BY <1>1, <1>3, <1>4

LEMMA StepMaps ==
  ASSUME CallsInv, Next
  PROVE  \E c \in Calls : Maps(c) /\ Apart(c) /\ foreign' = foreign
<1>1. PICK c \in Calls : \/ ClientMakesCall(c)
                        \/ ClientActs(c)
                        \/ ServerActs(c)
                        \/ ForeignClient(c)
                        \/ ForeignServer(c)
                        \/ ConnectionBreaks(c)
  BY DEF Next
<1>2. Apart(c)
  BY <1>1, MakesCall, ClientHandlesKeeps, ServerActsKeeps, ForeignClientKeeps,
     ForeignServerKeeps, BreakKeeps
<1>3. foreign' = foreign
  BY <1>1 DEF ClientMakesCall, ClientActs, ServerActs, ForeignClient, ForeignServer,
       ConnectionBreaks
<1>4. CASE ClientMakesCall(c) \/ ClientActs(c) \/ ServerActs(c)
  BY <1>2, <1>3, <1>4, MakesCallMaps, ClientActsMaps, ServerActsMaps
<1>5. CASE ForeignClient(c) \/ ForeignServer(c) \/ ConnectionBreaks(c)
  <2>1. cli' = cli /\ (foreign[c] = "neither" => srv' = srv)
    BY <1>5 DEF ForeignClient, ForeignServer, ConnectionBreaks, AnyServerStep
  <2>2. Maps(c)
    BY <1>3, <2>1 DEF Maps, Outcome, Evaluated
  <2> QED BY <1>2, <1>3, <2>2
<1> QED BY <1>1, <1>4, <1>5

(* The calls a step leaves alone stay as they are in the abstract one too. *)
LEMMA MapsToAbstractStep ==
  ASSUME NEW c \in Calls, Maps(c), Apart(c), foreign' = foreign
  PROVE  Abstract!Next \/ UNCHANGED Abstract!vars
<1> DEFINE status == [d \in Calls |-> Outcome(d)]
           evaluated == [d \in Calls |-> Evaluated(d)]
           status2 == [d \in Calls |-> Outcome(d)']
           evaluated2 == [d \in Calls |-> Evaluated(d)']
<1>1. ASSUME NEW d \in Calls, d # c
      PROVE  Outcome(d)' = Outcome(d) /\ Evaluated(d)' = Evaluated(d)
  BY <1>1 DEF Apart, Outcome, Evaluated
<1>2. /\ status2 = [status EXCEPT ![c] = Outcome(c)']
      /\ evaluated2 = [evaluated EXCEPT ![c] = Evaluated(c)']
  BY <1>1, Zenon
<1>3. /\ Outcome(c)' = Outcome(c) => status2 = status
      /\ Evaluated(c)' = Evaluated(c) => evaluated2 = evaluated
  BY <1>1, Zenon
<1>4. status[c] = Outcome(c) /\ evaluated[c] = Evaluated(c)
  OBVIOUS
<1>5. status' = status2 /\ evaluated' = evaluated2
  OBVIOUS
<1>6. CASE Outcome(c)' = Outcome(c) /\ Evaluated(c)' = Evaluated(c)
  BY <1>3, <1>5, <1>6 DEF Abstract!vars
<1>7. CASE /\ Outcome(c) = "idle" /\ Outcome(c)' = "calling"
           /\ Evaluated(c)' = Evaluated(c)
  <2>1. Abstract!Invoke(c)
    BY <1>2, <1>3, <1>4, <1>5, <1>7 DEF Abstract!Invoke
  <2> QED BY <2>1 DEF Abstract!Next
<1>8. CASE /\ Outcome(c) \in {"calling", "error"} /\ Outcome(c)' = Outcome(c)
           /\ ~Evaluated(c) /\ Evaluated(c)'
  <2>1. Abstract!Evaluate(c)
    BY <1>2, <1>3, <1>4, <1>5, <1>8 DEF Abstract!Evaluate
  <2> QED BY <2>1 DEF Abstract!Next
<1>9. CASE /\ Outcome(c) = "calling" /\ Outcome(c)' = "value"
           /\ Evaluated(c) /\ Evaluated(c)'
  <2>1. Abstract!ReturnValue(c)
    BY <1>2, <1>3, <1>4, <1>5, <1>9 DEF Abstract!ReturnValue
  <2> QED BY <2>1 DEF Abstract!Next
<1>10. CASE /\ Outcome(c) = "calling" /\ Outcome(c)' = "error"
            /\ Evaluated(c)' = Evaluated(c)
  <2>1. Abstract!ReturnError(c)
    BY <1>2, <1>3, <1>4, <1>5, <1>10 DEF Abstract!ReturnError
  <2> QED BY <2>1 DEF Abstract!Next
<1> QED BY <1>6, <1>7, <1>8, <1>9, <1>10 DEF Maps

(* ImplementsAbstractCall: whoever is at the other end, the callback of a  *)
(* call runs once, with an error or with a value, and between two ends of  *)
(* this tree a value was evaluated, once, after the call was made.         *)
THEOREM CallsImplementAbstractCall == Spec => ImplementsAbstractCall
<1>1. Init => Abstract!Init
  <2>1. ASSUME Init, NEW c \in Calls
        PROVE  Outcome(c) = "idle" /\ Evaluated(c) = FALSE
    <3>1. cli[c].state = "NONE" /\ cli[c].outcome = "none" /\ cli[c].delivered = 0
      BY <2>1 DEF Init, ClientInit, NoCaller
    <3>2. srv[c].evaluated = FALSE
      BY <2>1 DEF Init, ServerInit, NoSession
    <3>3. Outcome(c) = "idle"
      BY <3>1 DEF Outcome
    <3>4. (cli[c].outcome = "value") = FALSE
      BY <3>1
    <3>5. Evaluated(c) = FALSE
      BY <3>2, <3>4, Zenon DEF Evaluated
    <3> QED BY <3>3, <3>5
  <2> QED BY <2>1, Zenon DEF Abstract!Init
<1>2. CallsInv /\ [Next]_vars => [Abstract!Next]_Abstract!vars
  <2>1. ASSUME CallsInv, Next
        PROVE  [Abstract!Next]_Abstract!vars
    BY <2>1, StepMaps, MapsToAbstractStep
  <2>2. ASSUME UNCHANGED vars
        PROVE  UNCHANGED Abstract!vars
    BY <2>2 DEF vars, Abstract!vars, Outcome, Evaluated
  <2> QED BY <2>1, <2>2
<1> QED BY <1>1, <1>2, CallsInvHolds, PTL DEF Spec, ImplementsAbstractCall, Abstract!Spec
=============================================================================
