--------------------------- MODULE OrderLifecycle ----------------------------
(***************************************************************************)
(* What the scheduler promises about an order that a unit is to carry out:  *)
(* it goes from ready to dispatched to an end and leaves the table, never   *)
(* back, with nothing dispatched that was not ready and nothing dropped     *)
(* that has not ended; and once it is dispatched it comes to an end         *)
(* whatever the game does.  Only the orders of the frame of game loop 0 are *)
(* not promised an end: nobody looks at their time afterwards.              *)
(***************************************************************************)
CONSTANT Places     \* where an order may be kept

VARIABLES
    life,       \* the stage of the order at each place
    zero        \* the game loop is 0, until the end of that frame

stageVars == <<life, zero>>

Ends == {"Completed", "Aborted"}
Stages == {"none", "Ready", "Dispatched", "Untimed"} \cup Ends

Advance(from, to) ==
    \/ from = "none" /\ to = "Ready"
    \/ from = "Ready" /\ to = "Dispatched"
    \/ from = "Dispatched" /\ to = "Untimed" /\ zero /\ ~zero'
    \/ from \in {"Ready", "Dispatched", "Untimed"} /\ to \in Ends
    \/ from \in Ends /\ to = "none"

Init ==
    /\ life = [p \in Places |-> "none"]
    /\ zero \in BOOLEAN

(* A pass of the scheduler may move many orders, each by one stage.         *)
Next ==
    /\ zero' \in {zero, FALSE}
    /\ life' \in [Places -> Stages]
    /\ \A p \in Places : life'[p] = life[p] \/ Advance(life[p], life'[p])

(* A dispatched order ends, or the frame of game loop 0 does, in which it    *)
(* was dispatched.                                                          *)
Settle(p) ==
    /\ life[p] = "Dispatched"
    /\ Next
    /\ life'[p] # "Dispatched"

(* The frame of game loop 0 comes to its end.                               *)
LeaveZero == zero /\ Next /\ ~zero'

(* The safety part of Spec.                                                 *)
Stagewise == Init /\ [][Next]_stageVars

Spec == Stagewise /\ WF_stageVars(LeaveZero) /\ \A p \in Places : WF_stageVars(Settle(p))
=============================================================================
