------------------------------ MODULE AbstractCall ------------------------------
(***************************************************************************)
(* What a remote call promises to the program that makes it: the callback  *)
(* is run once, with the value the function computed or with an error; the *)
(* function is evaluated at most once, and a value means that it was.      *)
(***************************************************************************)
CONSTANT Calls

VARIABLES
  status,      \* of each call: idle, calling, or how it ended
  evaluated    \* whether the function of the call was evaluated

vars == <<status, evaluated>>

Init == /\ status = [c \in Calls |-> "idle"]
        /\ evaluated = [c \in Calls |-> FALSE]

Invoke(c) == /\ status[c] = "idle"
             /\ status' = [status EXCEPT ![c] = "calling"]
             /\ UNCHANGED evaluated

(* Evaluation may go on, and end, after the caller was given an error.     *)
Evaluate(c) == /\ status[c] \in {"calling", "error"}
               /\ ~evaluated[c]
               /\ evaluated' = [evaluated EXCEPT ![c] = TRUE]
               /\ UNCHANGED status

ReturnValue(c) == /\ status[c] = "calling"
                  /\ evaluated[c]
                  /\ status' = [status EXCEPT ![c] = "value"]
                  /\ UNCHANGED evaluated

ReturnError(c) == /\ status[c] = "calling"
                  /\ status' = [status EXCEPT ![c] = "error"]
                  /\ UNCHANGED evaluated

Next == \E c \in Calls :
          Invoke(c) \/ Evaluate(c) \/ ReturnValue(c) \/ ReturnError(c)

Spec == Init /\ [][Next]_vars
=============================================================================
