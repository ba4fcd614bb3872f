--------------------------- MODULE AgentCoordinator ---------------------------
(***************************************************************************)
(* The coordinator with its agents: it starts a match, steps all agents in  *)
(* every Update, each in a thread of its own or one after the other, calls  *)
(* the bots' OnStep and OnGameEnd, leaves a match that is over, and stops   *)
(* at the first error.  It uses each agent's client through GameControl.    *)
(***************************************************************************)
EXTENDS GameControl

CONSTANT Modes      \* the programs to look at, see Mode

(* What a program sets: SetMultithreaded, SetRealtime, "ports" for a match  *)
(* of several participants (SetupPorts), of which all or one may be agents  *)
(* here; and a bound, the matches it plays with one coordinator.            *)
Mode == [agents: Clients, ports: BOOLEAN, threaded: BOOLEAN, realtime: BOOLEAN, matches: Nat \ {0}]

ASSUME ModesAssumption ==
    /\ Modes \subseteq Mode
    /\ \A m \in Modes : m.agents > 1 => m.ports

Phases == {"create", "join", "await", "observe", "update", "serial", "verdict",
           "leave", "drain", "left", "stopped", "exited"}
Places == {"ready", "creating", "joining", "stepping", "observing", "events", "calling",
           "acting", "layering", "ending", "leaving", "done"}

VARIABLES
    mode,
    phase,      \* what the coordinator is doing
    at,         \* where it, or the thread of an agent, is with each agent
    told,       \* what each bot has been told of the match: "nothing", "started", "ended",
                \* or "wrong": a step or an end out of its place
    matches,    \* matches begun
    begun       \* history: the agents whose game was on when StartGame said so

coordinatorVars == <<mode, phase, at, told, matches, begun>>
vars == <<controlVars, coordinatorVars>>

Init ==
    /\ ControlInit
    /\ mode \in Modes
    /\ members = 1..mode.agents
    /\ phase = "create"
    /\ at = [c \in Clients |-> "ready"]
    /\ told = [c \in Clients |-> "nothing"]
    /\ matches = 1
    /\ begun = {}
-----------------------------------------------------------------------------
(* All agents are handled in the loop of a phase one after the other, ...   *)
Turn(c) == at[c] # "done" /\ \A d \in members : d < c => at[d] = "done"
AllDone == \A c \in members : at[c] = "done"

(* ... but for StepAgents, and StepAgentsRealtime when multi-threaded,      *)
(* which run them in parallel (RunParallel).                                *)
Runs(c) ==
    /\ c \in members
    /\ \/ phase = "update" /\ (mode.threaded \/ ~mode.realtime) /\ at[c] # "done"
       \/ Turn(c)

Goes(c, place) == at' = [at EXCEPT ![c] = place]
AllReady == at' = [c \in Clients |-> "ready"]
Becomes(c, r) == client' = [client EXCEPT ![c] = r]
Idle(c) == client[c].stage = "free"
Stays == UNCHANGED <<members, gameVars, mode, matches>>
NoErrors == \A c \in members : client[c].errors = {}

(* The phase is over with the last agent.                                   *)
Next(p) == AllDone /\ phase' = p /\ AllReady
-----------------------------------------------------------------------------
(* StartGame: CreateGame with the first agent, then JoinGame.  Failures to  *)
(* create or to send end the program.                                       *)
CreateGame ==
    /\ phase = "create" /\ at[1] = "ready"
    /\ \E reached \in Reachable(1) :
          /\ Becomes(1, SendAndWait(client[1], "create", reached))
          /\ IF Accepts(client[1], reached)
             THEN Goes(1, "creating") /\ phase' = phase
             ELSE at' = at /\ phase' = "exited"
    /\ UNCHANGED <<told, begun>> /\ Stays

GameCreated ==
    /\ phase = "create" /\ at[1] = "creating" /\ client[1].stage \in Results
    /\ Becomes(1, Returned(client[1]))
    /\ AllReady
    /\ phase' = IF client[1].stage = "answered" THEN "join" ELSE "exited"
    /\ UNCHANGED <<told, begun>> /\ Stays

(* A mutant of RequestJoinGame: every agent waits before the next one asks. *)
JoinOneByOne(c) ==
    /\ phase = "join" /\ Runs(c)
    /\ \/ /\ at[c] = "ready"
          /\ \E reached \in Reachable(c) :
                /\ Becomes(c, SendAndWait(client[c], "join", reached))
                /\ IF Accepts(client[c], reached)
                   THEN Goes(c, "joining") /\ phase' = phase
                   ELSE at' = at /\ phase' = "exited"
       \/ /\ at[c] = "joining" /\ client[c].stage \in Results
          /\ Becomes(c, Returned(client[c]))
          /\ Goes(c, "done") /\ phase' = phase
    /\ UNCHANGED <<told, begun>> /\ Stays

(* All agents ask to join before any waits: the games answer together.      *)
RequestJoinGame(c) ==
    /\ phase = "join" /\ Runs(c) /\ at[c] = "ready"
    /\ \E reached \in Reachable(c) :
          /\ Becomes(c, SendRequest(client[c], "join", reached))
          /\ IF Accepts(client[c], reached)
             THEN Goes(c, "done") /\ phase' = phase
             ELSE at' = at /\ phase' = "exited"
    /\ UNCHANGED <<told, begun>> /\ Stays

AllAsked ==
    /\ phase = "join" /\ Next("await")
    /\ UNCHANGED <<client, told, begun>> /\ Stays

WaitJoinGame(c) ==
    /\ phase = "await" /\ Runs(c) /\ at[c] = "ready"
    /\ Becomes(c, WaitFor(client[c], "join"))
    /\ Goes(c, "joining")
    /\ UNCHANGED <<phase, told, begun>> /\ Stays

(* What WaitJoinGame returns is not looked at, only the errors are, later.  *)
Joined(c) ==
    /\ phase = "await" /\ at[c] = "joining" /\ client[c].stage \in Results
    /\ Becomes(c, Returned(client[c]))
    /\ Goes(c, "done")
    /\ UNCHANGED <<phase, told, begun>> /\ Stays

AllJoined ==
    /\ phase = "await"
    /\ IF NoErrors THEN Next("observe") ELSE AllDone /\ phase' = "stopped" /\ at' = at
    /\ UNCHANGED <<client, told, begun>> /\ Stays

(* GetObservation; false when nothing is waited for.                        *)
GetObservation(c, then) ==
    \E reached \in Reachable(c) :
        LET asks == client[c].app = "normal" /\ Accepts(client[c], reached)
        IN  /\ Becomes(c, IF client[c].app # "normal" THEN Taken(client[c])
                          ELSE SendAndWait(Taken(client[c]), "observe", reached))
            /\ Goes(c, IF asks THEN "observing" ELSE then)

FirstObservation(c) ==
    /\ phase = "observe" /\ Runs(c) /\ at[c] = "ready"
    /\ GetObservation(c, "done")
    /\ UNCHANGED <<phase, told, begun>> /\ Stays

(* ... and what it waited for has come.  Without a response it prints what   *)
(* the null pointer points to, which ends the program.                      *)
TakesObservation(c, then) ==
    /\ at[c] = "observing" /\ client[c].stage \in Results
    /\ IF client[c].stage = "lost"
       THEN phase' = "exited" /\ UNCHANGED <<client, at>>
       ELSE Becomes(c, Returned(client[c])) /\ Goes(c, then) /\ phase' = phase

FirstObserved(c) ==
    /\ phase = "observe" /\ TakesObservation(c, "done")
    /\ UNCHANGED <<told, begun>> /\ Stays

(* OnGameFullStart, OnGameStart and the events of the first observation.    *)
OnGameStart ==
    /\ phase = "observe" /\ Next("update")
    /\ told' = [c \in Clients |-> IF c \in members THEN "started" ELSE told[c]]
    /\ begun' = {c \in members : playing[c] = "in_game"}
    /\ UNCHANGED client /\ Stays
-----------------------------------------------------------------------------
(* What a bot is told.                                                      *)
OnStep(c) == told' = [told EXCEPT ![c] = IF @ = "started" THEN @ ELSE "wrong"]
OnGameEnd(c) == told' = [told EXCEPT ![c] = IF @ = "started" THEN "ended" ELSE "wrong"]

(* RequestLeaveGame: only of a match of several participants.               *)
RequestLeaveGame(r, reached) ==
    IF mode.ports THEN SendRequest(r, "leave", reached) ELSE r

(* A mutant of Leaves: an agent that has left plays no part in it.          *)
LeavesWhilePending(r) == mode.ports /\ r.pending = "leave"

(* PollLeaveGame: the agent has left or is about to; "Consumes" when it     *)
(* waits for the response that is there.                                    *)
Leaves(r) == mode.ports /\ (r.pending = "leave" \/ ~IsInGame(r))
Consumes(r) == mode.ports /\ r.pending = "leave" /\ r.hasResponse
PolledLeave(r) ==
    IF mode.ports /\ r.pending \notin {"leave", "none"} THEN Error(r, "ResponseNotConsumed") ELSE r

PollsLeave(c) ==
    /\ Leaves(client[c])
    /\ IF Consumes(client[c])
       THEN Becomes(c, WaitFor(client[c], "leave")) /\ Goes(c, "leaving")
       ELSE Becomes(c, PolledLeave(client[c])) /\ Goes(c, "done")

LeaveResponse(c) ==
    /\ at[c] = "leaving" /\ client[c].stage \in Results
    /\ Becomes(c, Returned(client[c]))
    /\ Goes(c, "done")
    /\ UNCHANGED <<phase, told, begun>> /\ Stays

(* The agent's step in StepAgents and StepAgentsRealtime: nothing with a    *)
(* failed application, nothing more after the end, or a step of the game    *)
(* and, as in real time at once, an observation.                            *)
StepAgent(c) ==
    /\ phase = "update" /\ Runs(c) /\ at[c] = "ready"
    /\ \/ /\ client[c].app # "normal"
          /\ UNCHANGED client /\ Goes(c, "done")
       \/ /\ client[c].app = "normal"
          /\ PollsLeave(c)
       \/ /\ client[c].app = "normal" /\ ~Leaves(client[c])
          /\ IsFinishedGame(PolledLeave(client[c]))
          /\ UNCHANGED client /\ Goes(c, "done")
       \/ /\ ~Leaves(client[c]) /\ ~IsFinishedGame(PolledLeave(client[c]))
          /\ IF mode.realtime THEN GetObservation(c, "events")
             ELSE \E reached \in Reachable(c) :
                    /\ Becomes(c, WaitFor(SendRequest(PolledLeave(client[c]), "step", reached), "step"))
                    /\ Goes(c, "stepping")
    /\ UNCHANGED <<phase, told, begun>> /\ Stays

(* Where an agent goes on after its observation.                            *)
AfterStep == IF mode.realtime THEN "events" ELSE IF mode.threaded THEN "calling" ELSE "done"

(* WaitStep: the observation is asked for when the step was made.           *)
Stepped(c) ==
    /\ at[c] = "stepping" /\ client[c].stage \in Results
    /\ IF client[c].stage = "answered" THEN GetObservation(c, AfterStep)
       ELSE Becomes(c, Returned(client[c])) /\ Goes(c, AfterStep)
    /\ UNCHANGED <<phase, told, begun>> /\ Stays

Observed(c) ==
    /\ phase = "update" /\ TakesObservation(c, AfterStep)
    /\ UNCHANGED <<told, begun>> /\ Stays

(* IssueEvents; without a new game loop there are none.                     *)
IssueEvents(c) == OnStep(c) \/ UNCHANGED told

RealtimeEvents(c) ==
    /\ at[c] = "events" /\ Runs(c)
    /\ IssueEvents(c)
    /\ Goes(c, "acting")
    /\ UNCHANGED <<client, phase, begun>> /\ Stays

End(c) ==
    /\ OnGameEnd(c)
    /\ \E reached \in Reachable(c) : Becomes(c, RequestLeaveGame(client[c], reached))
    /\ Goes(c, "done")

CallOnStep(c) ==
    /\ at[c] = "calling" /\ Runs(c)
    /\ IF IsInGame(client[c])
       THEN IssueEvents(c) /\ Goes(c, "acting") /\ UNCHANGED client
       ELSE End(c)
    /\ UNCHANGED <<phase, begun>> /\ Stays

RealtimeEnd(c) ==
    /\ at[c] = "ending" /\ Runs(c)
    /\ IF IsInGame(client[c])
       THEN Goes(c, "done") /\ UNCHANGED <<client, told>>
       ELSE End(c)
    /\ UNCHANGED <<phase, begun>> /\ Stays

(* A mutant of AfterActions: in real time the step ends with the actions.   *)
NothingAfterActions(c) ==
    IF at[c] = "acting" /\ ~mode.realtime THEN "layering" ELSE "done"

(* The actions of the bot, then those of its feature layer interface: sent  *)
(* if there are any and they can be, with nothing done about it if not.     *)
AfterActions(c) ==
    IF mode.realtime THEN "ending" ELSE IF at[c] = "acting" THEN "layering" ELSE "done"

SendActions(c) ==
    /\ at[c] \in {"acting", "layering"} /\ Runs(c) /\ Idle(c)
    /\ \/ UNCHANGED client /\ Goes(c, AfterActions(c))
       \/ \E reached \in Reachable(c) :
             /\ Becomes(c, SendAndWait(client[c], "act", reached))
             /\ IF Accepts(client[c], reached) THEN at' = at ELSE Goes(c, AfterActions(c))
    /\ UNCHANGED <<phase, told, begun>> /\ Stays

ActionsSent(c) ==
    /\ at[c] \in {"acting", "layering"} /\ client[c].stage \in Results
    /\ Becomes(c, Returned(client[c]))
    /\ Goes(c, AfterActions(c))
    /\ UNCHANGED <<phase, told, begun>> /\ Stays

(* The second loop of StepAgents, when not multi-threaded.                  *)
SerialStep(c) ==
    /\ phase = "serial" /\ Runs(c) /\ at[c] = "ready"
    /\ \/ /\ client[c].app # "normal"
          /\ UNCHANGED client /\ Goes(c, "done")
       \/ /\ client[c].app = "normal"
          /\ PollsLeave(c)
       \/ /\ client[c].app = "normal" /\ ~Leaves(client[c])
          /\ Becomes(c, PolledLeave(client[c])) /\ Goes(c, "calling")
    /\ UNCHANGED <<phase, told, begun>> /\ Stays

AllStepped ==
    /\ phase \in {"update", "serial"}
    /\ IF phase = "update" /\ ~mode.threaded /\ ~mode.realtime
       THEN Next("serial") ELSE Next("verdict")
    /\ UNCHANGED <<client, told, begun>> /\ Stays
-----------------------------------------------------------------------------
AllGamesEnded ==
    \A c \in members : ~IsInGame(client[c]) /\ ~HasResponsePending(client[c])

(* A mutant of Verdict: errors do not end a match.                          *)
VerdictByGames ==
    /\ phase = "verdict"
    /\ phase' = IF AllGamesEnded THEN "stopped" ELSE "update"
    /\ UNCHANGED <<client, at, told, begun>> /\ Stays

(* The end of Update: errors end it all, and so do ended games.             *)
Verdict ==
    /\ phase = "verdict"
    /\ phase' = IF ~NoErrors \/ AllGamesEnded THEN "stopped" ELSE "update"
    /\ UNCHANGED <<client, at, told, begun>> /\ Stays

(* A program may leave the match instead and wait for the responses ...     *)
LeaveGame ==
    /\ phase = "verdict" /\ NoErrors /\ ~AllGamesEnded
    /\ phase' = "leave"
    /\ UNCHANGED <<client, at, told, begun>> /\ Stays

AskToLeave(c) ==
    /\ phase = "leave" /\ Runs(c) /\ at[c] = "ready"
    /\ Becomes(c, RequestLeaveGame(client[c], FALSE))
    /\ Goes(c, "done")
    /\ UNCHANGED <<phase, told, begun>> /\ Stays

AllAskedToLeave ==
    /\ phase = "leave" /\ Next("drain")
    /\ UNCHANGED <<client, told, begun>> /\ Stays

(* WaitForAllResponses takes them as they come, one agent after the other,  *)
(* until none is left or it takes too long.                                 *)
Owes(c) == HasResponsePending(client[c]) /\ client[c].app = "normal"

Drain(c) ==
    /\ phase = "drain" /\ c \in members /\ at[c] = "ready" /\ Owes(c)
    /\ \A d \in members : d < c => ~Owes(d)
    /\ client[c].hasResponse
    /\ \A d \in members : Idle(d)
    /\ Becomes(c, WaitFor(client[c], client[c].pending))
    /\ Goes(c, "leaving")
    /\ UNCHANGED <<phase, told, begun>> /\ Stays

Drained ==
    /\ phase = "drain" /\ \A c \in members : Idle(c)
    /\ phase' = "left"
    /\ UNCHANGED <<client, at, told, begun>> /\ Stays

(* ... and start another one when one is over, whatever came of it, or when *)
(* the responses have come.                                                 *)
PlayAgain ==
    /\ phase = "stopped" \/ (phase = "left" /\ \A c \in members : ~Owes(c))
    /\ matches < mode.matches
    /\ matches' = matches + 1
    /\ phase' = "create"
    /\ AllReady
    /\ told' = [c \in Clients |-> "nothing"]
    /\ begun' = {}
    /\ UNCHANGED <<client, members, gameVars, mode>>

(* The end of a program.                                                    *)
Finished ==
    /\ phase \in {"left", "exited"} \/ (phase = "stopped" /\ matches = mode.matches)
    /\ UNCHANGED vars

AgentStep(c) ==
    \/ RequestJoinGame(c) \/ WaitJoinGame(c) \/ Joined(c)
    \/ FirstObservation(c) \/ FirstObserved(c)
    \/ StepAgent(c) \/ Stepped(c) \/ Observed(c) \/ RealtimeEvents(c) \/ RealtimeEnd(c)
    \/ CallOnStep(c) \/ SendActions(c) \/ ActionsSent(c)
    \/ SerialStep(c) \/ LeaveResponse(c) \/ AskToLeave(c) \/ Drain(c)

MainStep ==
    \/ CreateGame \/ GameCreated \/ AllAsked \/ AllJoined \/ OnGameStart
    \/ AllStepped \/ Verdict \/ AllAskedToLeave \/ Drained

(* The library's threads, as long as there is a program.                    *)
Step(c) ==
    /\ phase # "exited"
    /\ AgentStep(c) \/ (WaitStep(c) /\ UNCHANGED coordinatorVars)

(* Where the time is not real, a match is decided by a step all make.       *)
GameActs ==
    /\ GameStep
    /\ ~over /\ over' => mode.realtime \/ StepDue
    /\ UNCHANGED coordinatorVars

Act ==
    \/ \E c \in members : Step(c)
    \/ MainStep \/ LeaveGame \/ PlayAgain
    \/ GameActs
    \/ Finished

(* The library goes on whenever it can, a wait that gets no response times  *)
(* out; a game answers what it can, and its end closes its connection.      *)
Fairness ==
    /\ \A c \in Clients : WF_vars(Step(c))
    /\ WF_vars(MainStep)
    /\ \A c \in Clients : WF_vars(Answer(c, "done") /\ UNCHANGED coordinatorVars)
    /\ \A c \in Clients : WF_vars(process[c] # "running" /\ Close(c) /\ UNCHANGED coordinatorVars)

Spec == Init /\ [][Act]_vars /\ Fairness
-----------------------------------------------------------------------------
(* The variables have values of their kinds.                                *)
TypeOK ==
    /\ ControlTypeOK
    /\ mode \in Modes /\ phase \in Phases /\ at \in [Clients -> Places]
    /\ told \in [Clients -> {"nothing", "started", "ended", "wrong"}]
    /\ matches \in 1..mode.matches /\ begun \subseteq members

(* The coordinator and its agents use the interface as it is made to be     *)
(* used: nobody waits for what was not asked for, and none waits with an    *)
(* application that has failed, which WaitForResponse asserts.              *)
UsesControl == ControlSpec

(* The first error of a client is never the coordinator's own doing: it     *)
(* asks for nothing while a response is pending (ResponseNotConsumed), but  *)
(* for LeaveGame, which asks again where the leave is on its way already,   *)
(* and for a match begun with such a leave from one that was stopped over   *)
(* the errors of another client.                                            *)
PurelySequential ==
    [][\A c \in members :
        "ResponseNotConsumed" \in client'[c].errors \ client[c].errors =>
            \/ client[c].errors # {}
            \/ phase \in {"leave", "create", "join"} /\ client[c].pending = "leave"]_vars

(* While no game has failed, whoever waits for a response will get it: some *)
(* game can answer, or some agent go on.  The games join and step together, *)
(* so all have to be asked before one is waited for.                        *)
Healthy ==
    \A c \in members :
        /\ process[c] = "running" /\ client[c].errors = {}
        /\ client[c].stage \in {"free", "waiting"} \cup Results
        /\ phase = "await" /\ at[c] = "done" => playing[c] = "in_game"

NoStandstill ==
    Healthy /\ (\E c \in members : client[c].stage = "waiting") =>
        \E c \in members : client[c].queue # <<>> \/ CanAnswer(c) \/ (Runs(c) /\ client[c].stage # "waiting")

(* A bot is told the end of a match at most once, and of no step after it,  *)
(* nor before it has been told the start.                                   *)
EndToldOnce == \A c \in members : told[c] # "wrong"

(* A bot whose application has not failed is told the end of the match only *)
(* when the game is over for it.                                            *)
EndIsTrue ==
    \A c \in members : told[c] = "ended" /\ client[c].app = "normal" => playing[c] # "in_game"

(* When Update stops because all games have ended, every bot that had a     *)
(* game has been told its end: OnGameEnd is "called when a game has ended". *)
GameEndTold == phase = "stopped" /\ NoErrors => \A c \in begun : told[c] = "ended"

(* ... which is so but in matches of several participants whose agents are  *)
(* stepped one after the other.                                             *)
EndToldElsewhere == ~mode.ports \/ mode.threaded \/ mode.realtime => GameEndTold

(* A match that has been decided is brought to its end: Update stops, with  *)
(* errors or without, and never goes on for ever (but the program may end   *)
(* itself over a lost observation, see TakesObservation).                   *)
MatchEnds == over /\ phase = "update" ~> phase \in {"left", "stopped", "exited"}

(* Every wait ends, with the response or with an error to stop for; with    *)
(* the program, only once there is such an error.                           *)
Exchange ==
    INSTANCE RequestExchange WITH
        Client <- Clients,
        owed <- [c \in Clients |-> HasResponsePending(client[c]) \/ client[c].stage \in Waits],
        awaited <- [c \in Clients |-> client[c].stage \in Waits /\ phase # "exited"],
        trouble <- [c \in Clients |-> client[c].errors # {}]

ExchangeSpec == Exchange!Spec
=============================================================================
