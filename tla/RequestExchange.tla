--------------------------- MODULE RequestExchange ---------------------------
(***************************************************************************)
(* What the control interface promises its callers: every wait comes to an  *)
(* end, with the response to the one request that was owed one, or else     *)
(* with an error that is recorded, for the coordinator to stop.             *)
(***************************************************************************)
CONSTANT Client

VARIABLES
    owed,       \* has a response been asked for and not been taken?
    awaited,    \* does somebody wait for it?
    trouble     \* has an error been recorded?

exchangeVars == <<owed, awaited, trouble>>

Init ==
    /\ owed = [c \in Client |-> FALSE]
    /\ awaited = [c \in Client |-> FALSE]
    /\ trouble = [c \in Client |-> FALSE]

(* Only one request is owed a response at a time.                           *)
Ask(c) == ~owed[c] /\ ~awaited[c] /\ owed' = [owed EXCEPT ![c] = TRUE] /\ UNCHANGED <<awaited, trouble>>

Wait(c) ==
    /\ owed[c] /\ ~awaited[c]
    /\ awaited' = [awaited EXCEPT ![c] = TRUE]
    /\ UNCHANGED <<owed, trouble>>

AskAndWait(c) ==
    /\ ~owed[c] /\ ~awaited[c]
    /\ owed' = [owed EXCEPT ![c] = TRUE]
    /\ awaited' = [awaited EXCEPT ![c] = TRUE]
    /\ UNCHANGED trouble

Taken(c) ==
    /\ owed[c] /\ awaited[c]
    /\ owed' = [owed EXCEPT ![c] = FALSE]
    /\ awaited' = [awaited EXCEPT ![c] = FALSE]
    /\ UNCHANGED trouble

(* What comes is no use, or nothing comes; then it may stay owed for ever.  *)
Lost(c) ==
    /\ awaited[c]
    /\ awaited' = [awaited EXCEPT ![c] = FALSE]
    /\ trouble' = [trouble EXCEPT ![c] = TRUE]
    /\ owed' \in {owed, [owed EXCEPT ![c] = FALSE]}

Trouble(c) == trouble' = [trouble EXCEPT ![c] = TRUE] /\ UNCHANGED <<owed, awaited>>

(* The program may end itself over an error; then nobody waits any more.    *)
Quit ==
    /\ \E c \in Client : trouble[c]
    /\ awaited' = [c \in Client |-> FALSE]
    /\ UNCHANGED <<owed, trouble>>

Next ==
    \/ \E c \in Client : Ask(c) \/ Wait(c) \/ AskAndWait(c) \/ Taken(c) \/ Lost(c) \/ Trouble(c)
    \/ Quit

Spec ==
    /\ Init /\ [][Next]_exchangeVars
    /\ \A c \in Client : WF_exchangeVars(Taken(c) \/ Lost(c))
=============================================================================
