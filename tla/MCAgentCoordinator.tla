------------------------- MODULE MCAgentCoordinator -------------------------
(* One agent that plays two matches, in each way it can be stepped, and two   *)
(* agents that play each other: twice, one after the other, or once in        *)
(* threads and real time.  A match is left by a request only where there are  *)
(* ports, so that one of the agents that play alone is given them, too.       *)
EXTENDS AgentCoordinator

Program(agents, ports, threaded, realtime, plays) ==
    [agents |-> agents, ports |-> ports, threaded |-> threaded, realtime |-> realtime, matches |-> plays]

Alone ==
    {Program(1, FALSE, threaded, realtime, 2) : threaded, realtime \in BOOLEAN}
        \cup {Program(1, TRUE, TRUE, FALSE, 2)}

Together == {Program(2, TRUE, FALSE, FALSE, 2), Program(2, TRUE, TRUE, TRUE, 1)}

MCModes == Alone \cup Together
=============================================================================
