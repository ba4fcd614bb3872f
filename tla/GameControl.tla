----------------------------- MODULE GameControl -----------------------------
(***************************************************************************)
(* How a client of the API library talks to its StarCraft II process: the   *)
(* websocket with its queue of responses, filled by a worker thread of the  *)
(* socket library (Connection), the one request that may be pending         *)
(* (ProtoInterface), and WaitForResponse with what it does when no response *)
(* comes (ControlImp).  A client is a record; what the library does in one  *)
(* go is an operator on it.  The games, that answer when they like, crash,  *)
(* hang up and refuse, are external.                                        *)
(***************************************************************************)
EXTENDS Naturals, Sequences, FiniteSets

CONSTANTS
    MaxClients,     \* clients one coordinator can have
    Faulty          \* bound: those whose game may fail, or be slow on its own account

ASSUME ClientsAssumption == MaxClients \in Nat \ {0}

Clients == 1..MaxClients

(* The requests the coordinator makes, and the ping of the library itself.  *)
Requests == {"create", "join", "step", "observe", "act", "leave"}
Kinds == Requests \cup {"ping"}
Statuses == {"unknown", "launched", "init_game", "in_game", "ended"}
AppStates == {"normal", "timeout", "timeout_zombie", "crashed"}
ClientErrors == {"ResponseNotConsumed", "ResponseMismatch", "ConnectionClosed", "SC2UnknownStatus",
                 "SC2AppFailure", "SC2ProtocolError", "SC2ProtocolTimeout"}

(* Where a client is in WaitForResponse: until the time is over, past it    *)
(* and not yet disconnected, disconnected; the same for the ping that       *)
(* follows; or about to return a response, one that is of no use ("failed") *)
(* or none ("lost").                                                        *)
Waits == {"waiting", "late", "failing", "pinging", "pinglate"}
Results == {"answered", "refused", "failed", "lost"}
Stages == {"free"} \cup Results \cup Waits

VARIABLES
    members,    \* the clients taking part
    client,     \* the library's side, for each client
    process,    \* of each client's StarCraft II: "running", "zombie" (dead, not reaped) or "gone"
    playing,    \* the status each game has
    over,       \* the match has been decided
    stepped     \* the clients whose game has made the step the others still wait to make

gameVars == <<process, playing, over, stepped>>
controlVars == <<members, client, gameVars>>

(* A response does what was asked, or has an error of its own that only its *)
(* caller looks for ("refused"), or errors of the protocol ("error").       *)
Verdicts == {"done", "refused", "error"}
Responses == [kind: Kinds, status: Statuses, verdict: Verdicts]

(* A client that is attached to its game (AttachClients).                   *)
Attached ==
    [link |-> "open",           \* connection_: "none" (null), "open", or "dead" (closed by the peer)
     wire |-> <<>>,             \* requests sent over the connection and not answered yet
     queue |-> <<>>, hasResponse |-> FALSE,
     pending |-> "none",        \* response_pending_
     status |-> "launched",     \* latest_status_
     app |-> "normal",
     errors |-> {},             \* client_errors_, whose order and number nobody reads
     stage |-> "free",
     call |-> "none"]           \* what the response waited for was asked for
-----------------------------------------------------------------------------
(* Connection                                                               *)
PushResponse(r, response) ==
    [r EXCEPT !.queue = Append(@, response), !.hasResponse = TRUE]

(* A mutant of PopResponse: the flag outlives the last response.            *)
PopLeavesFlag(r) == [r EXCEPT !.queue = Tail(@)]

PopResponse(r) ==
    [r EXCEPT !.queue = Tail(@),
              !.hasResponse = IF Len(r.queue) = 1 THEN FALSE ELSE @]

(* ConnectionClosedHandler reports every end of an open connection, the     *)
(* library's own included.                                                  *)
Hangup(r) ==
    IF r.link = "open" THEN {"ConnectionClosed"} ELSE {}

(* A mutant of Disconnect: the connection is given up without closing it.   *)
KeepOpen(r) == [r EXCEPT !.queue = <<>>]

(* Disconnect, and the queue emptied after it.                              *)
Disconnect(r) ==
    [r EXCEPT !.link = "none", !.wire = <<>>, !.queue = <<>>,
              !.errors = @ \cup Hangup(r)]

(* Connect, when there is no connection; "reached" is the game's answer.    *)
Reconnect(r, reached) ==
    IF r.link = "none" /\ reached THEN [r EXCEPT !.link = "open", !.wire = <<>>] ELSE r

Error(r, error) == [r EXCEPT !.errors = @ \cup {error}]
-----------------------------------------------------------------------------
(* ProtoInterface                                                           *)
HasResponsePending(r) == r.pending # "none"

Send(r, k) ==
    [r EXCEPT !.pending = k,
              !.wire = IF r.link = "open" THEN Append(@, k) ELSE @]

(* What SendRequest returns.                                                *)
Accepts(r, reached) ==
    (r.link # "none" \/ reached) /\ ~HasResponsePending(r)

(* A mutant of SendRequest: the pending response is not asked about.        *)
SendRegardless(r, k, reached) ==
    LET linked == Reconnect(r, reached)
    IN  IF linked.link = "none" THEN linked ELSE Send(linked, k)

SendRequest(r, k, reached) ==
    LET linked == Reconnect(r, reached)
    IN  IF linked.link = "none" THEN linked
        ELSE IF HasResponsePending(r) THEN Error(linked, "ResponseNotConsumed")
        ELSE Send(linked, k)

Mismatch(response, expected) ==
    IF response.verdict # "error" /\ response.kind # expected THEN {"ResponseMismatch"} ELSE {}

(* A mutant of Received: a response leaves its request pending.             *)
ReceivedStillPending(r) ==
    [PopResponse(r) EXCEPT
        !.status = Head(r.queue).status,
        !.errors = @ \cup Mismatch(Head(r.queue), r.pending)]

(* WaitForResponseInternal, a response being there.                         *)
Received(r) ==
    LET response == Head(r.queue)
    IN  [PopResponse(r) EXCEPT
            !.status = response.status,
            !.pending = "none",
            !.errors = @ \cup Mismatch(response, r.pending)]

(* A mutant of Abandoned: a request that timed out is pending no more.      *)
AbandonedFreed(r, stage) ==
    [Disconnect(r) EXCEPT !.stage = stage, !.pending = "none"]

(* ... and none having come in time: the request stays pending.             *)
Abandoned(r, stage) == [Disconnect(r) EXCEPT !.stage = stage]
-----------------------------------------------------------------------------
(* The games.  Requests on one connection are answered in their order; a    *)
(* match is joined and stepped by all its players together.                 *)
Asked(c, k) == client[c].link = "open" /\ client[c].wire # <<>> /\ Head(client[c].wire) = k
Present == {c \in members : playing[c] = "in_game" /\ process[c] = "running"}

(* Who has made the current step: once all have, a new one begins.          *)
Ahead == IF Present \subseteq stepped THEN {} ELSE stepped

Rendezvous(c, k) ==
    CASE k = "join" -> \A d \in members : Asked(d, "join") \/ playing[d] = "in_game"
      [] k = "step" /\ playing[c] = "in_game" ->
            c \notin Ahead /\ \A d \in Present : Asked(d, "step") \/ d \in Ahead
      [] OTHER -> TRUE

StatusAfter(c, k) ==
    CASE k = "create" -> "init_game"
      [] k = "join" -> "in_game"
      [] k = "leave" -> "launched"
      [] OTHER -> IF playing[c] = "in_game" /\ over THEN "ended" ELSE playing[c]

(* The game has a request of the client to answer, and can do what it asks. *)
Heard(c) == client[c].link = "open" /\ client[c].wire # <<>> /\ process[c] = "running"
CanAnswer(c) == Heard(c) /\ Rendezvous(c, Head(client[c].wire))
-----------------------------------------------------------------------------
(* ControlImp                                                               *)
IsInGame(r) == r.app = "normal" /\ r.status = "in_game"
IsFinishedGame(r) == r.app # "normal" \/ (~IsInGame(r) /\ ~HasResponsePending(r))

(* WaitForResponse up to the wait.                                          *)
WaitFor(r, k) == [r EXCEPT !.stage = "waiting", !.call = k, !.status = "unknown"]

(* A request that is waited for at once, if it could be sent.               *)
SendAndWait(r, k, reached) ==
    IF Accepts(r, reached) THEN WaitFor(SendRequest(r, k, reached), k)
    ELSE SendRequest(r, k, reached)

(* The caller takes what WaitForResponse returned.                          *)
Returned(r) == [r EXCEPT !.stage = "free", !.call = "none"]

(* IsProcessRunning goes by /proc, where a dead child is until it is reaped.*)
IsProcessRunning(c) == process[c] # "gone"

(* The connection can be had back only from a process that runs.            *)
Reachable(c) == {FALSE} \cup {process[c] = "running"}

Receive(c) ==
    LET r == client[c]
        response == Head(r.queue)
        got == Received(r)
    IN  /\ r.stage = "waiting" /\ r.queue # <<>>
        /\ client' = [client EXCEPT ![c] =
                        IF response.verdict = "error"
                        THEN [Error(got, "SC2ProtocolError") EXCEPT !.stage = "failed"]
                        ELSE [got EXCEPT !.stage = IF response.kind # r.call THEN "failed"
                                                   ELSE IF response.verdict = "refused" THEN "refused"
                                                   ELSE "answered"]]
        /\ UNCHANGED <<members, gameVars>>

(* The time is over and the queue is still empty when the lock is given     *)
(* back; a response may come before the connection is closed.               *)
TimeOut(c) ==
    /\ client[c].stage \in {"waiting", "pinging"} /\ client[c].queue = <<>>
    /\ c \in Faulty \/ ~CanAnswer(c)
    /\ client' = [client EXCEPT ![c].stage = IF @ = "waiting" THEN "late" ELSE "pinglate"]
    /\ UNCHANGED <<members, gameVars>>

GiveUp(c) ==
    /\ client[c].stage = "late"
    /\ client' = [client EXCEPT ![c] = Abandoned(@, "failing")]
    /\ UNCHANGED <<members, gameVars>>

(* Steps 1 and 2 of WaitForResponse: a crash, or a ping that tells a game   *)
(* that does not respond from a request that got lost.                      *)
Crashed(c) ==
    /\ client[c].stage = "failing" /\ ~IsProcessRunning(c)
    /\ client' = [client EXCEPT ![c] = [Error(@, "SC2AppFailure") EXCEPT !.app = "crashed", !.stage = "lost"]]
    /\ UNCHANGED <<members, gameVars>>

Ping(c) ==
    /\ client[c].stage = "failing" /\ process[c] = "running"
    /\ client' = [client EXCEPT ![c] =
                    [Send(Reconnect(@, TRUE), "ping") EXCEPT !.stage = "pinging", !.status = "unknown"]]
    /\ UNCHANGED <<members, gameVars>>

(* A mutant of Revived: the status the ping's response has is not taken.    *)
RevivedUnheard(r) ==
    [Error(Received(r), "SC2UnknownStatus") EXCEPT !.stage = "lost", !.status = "unknown"]

Revived(r) == [Error(Received(r), "SC2UnknownStatus") EXCEPT !.stage = "lost"]

ReceivePing(c) ==
    /\ client[c].stage = "pinging" /\ client[c].queue # <<>>
    /\ client' = [client EXCEPT ![c] = Revived(@)]
    /\ UNCHANGED <<members, gameVars>>

(* The end of WaitForResponse: the process is killed up to ten times, and   *)
(* may be there afterwards, dead or alive.                                  *)
Terminate(c, r, left) ==
    /\ left \in {"gone", "zombie"} \cup {process[c]}
    /\ process[c] = "gone" => left = "gone"
    /\ process' = [process EXCEPT ![c] = left]
    /\ client' = [client EXCEPT ![c] =
                    [r EXCEPT !.app = IF left = "gone" THEN "timeout" ELSE "timeout_zombie",
                              !.errors = @ \cup {"SC2ProtocolTimeout", "SC2AppFailure"},
                              !.stage = "lost"]]
    /\ UNCHANGED <<members, playing, over, stepped>>

(* No connection for the ping, or no response to it.                        *)
Unreachable(c) ==
    /\ client[c].stage = "failing" /\ IsProcessRunning(c)
    /\ \E left \in {"gone", "zombie", "running"} : Terminate(c, client[c], left)

GiveUpPing(c) ==
    /\ client[c].stage = "pinglate"
    /\ \E left \in {"gone", "zombie", "running"} : Terminate(c, Abandoned(client[c], "lost"), left)

WaitStep(c) ==
    \/ Receive(c) \/ TimeOut(c) \/ GiveUp(c) \/ Crashed(c) \/ Ping(c)
    \/ ReceivePing(c) \/ Unreachable(c) \/ GiveUpPing(c)
-----------------------------------------------------------------------------
(* DataHandler pushes what the game answers.                                *)
Answered(r, response) == PushResponse([r EXCEPT !.wire = Tail(@)], response)

Answer(c, verdict) ==
    LET k == Head(client[c].wire)
        done == verdict = "done"
        status == IF done THEN StatusAfter(c, k) ELSE playing[c]
    IN  /\ Heard(c)
        /\ \/ done /\ CanAnswer(c)
           \/ verdict = "refused" /\ k \in {"create", "join"} /\ c \in Faulty
           \/ verdict = "error" /\ k # "ping" /\ c \in Faulty
        /\ client' = [client EXCEPT ![c] =
                        Answered(@, [kind |-> k, status |-> status, verdict |-> verdict])]
        /\ playing' = [playing EXCEPT ![c] = status]
        /\ over' = (over /\ ~(k = "create" /\ done))
        /\ stepped' = CASE k = "step" /\ done /\ playing[c] = "in_game" -> Ahead \cup {c}
                        [] k = "join" /\ done -> stepped \ {c}
                        [] OTHER -> stepped
        /\ UNCHANGED <<members, process>>

(* A step nobody has made yet and all are asked for.                        *)
StepDue == \E c \in Present : Asked(c, "step") /\ CanAnswer(c) /\ Ahead = {}

Decided ==
    /\ ~over /\ \E c \in members : playing[c] = "in_game"
    /\ over' = TRUE
    /\ UNCHANGED <<members, client, process, playing, stepped>>

Crash(c, left) ==
    /\ process[c] = "running"
    /\ process' = [process EXCEPT ![c] = left]
    /\ UNCHANGED <<members, client, playing, over, stepped>>

(* The peer ends the connection, because it crashed or for its own reasons. *)
Closed(r) == [Error(r, "ConnectionClosed") EXCEPT !.link = "dead", !.wire = <<>>]

Close(c) ==
    /\ client[c].link = "open"
    /\ client' = [client EXCEPT ![c] = Closed(@)]
    /\ UNCHANGED <<members, gameVars>>

GameStep ==
    \/ \E c \in members, verdict \in Verdicts : Answer(c, verdict)
    \/ Decided
    \/ \E c \in members \cap Faulty, left \in {"gone", "zombie"} : Crash(c, left)
    \/ \E c \in members : (c \in Faulty \/ process[c] # "running") /\ Close(c)
-----------------------------------------------------------------------------
(* What the control interface is made for, whoever uses it: in one go a     *)
(* caller takes what a wait returned, sends a request and waits for its     *)
(* response, or for the one that is pending - where the application is as   *)
(* it should be: WaitForResponse asserts it.                                *)
Taken(r) == IF r.stage \in Results THEN Returned(r) ELSE r

Used(r, s, reached) ==
    LET free == Taken(r)
    IN  /\ free.stage = "free"
        /\ \/ s \in {free, Error(free, "ResponseNotConsumed")}
           \/ \E k \in Requests : s = SendRequest(free, k, reached)
           \/ /\ r.app = "normal"
              /\ \/ HasResponsePending(r) /\ s = WaitFor(free, r.pending)
                 \/ \E k \in Requests : s = SendAndWait(free, k, reached)

Use ==
    /\ client' = [c \in Clients |-> client'[c]]
    /\ \A c \in Clients :
          client'[c] = client[c] \/ \E reached \in Reachable(c) : Used(client[c], client'[c], reached)
    /\ UNCHANGED <<members, gameVars>>

ControlInit ==
    /\ members \in {1..n : n \in Clients}
    /\ client = [c \in Clients |-> Attached]
    /\ process = [c \in Clients |-> "running"]
    /\ playing = [c \in Clients |-> "launched"]
    /\ over = FALSE
    /\ stepped = {}

ControlNext == Use \/ (\E c \in members : WaitStep(c)) \/ GameStep

ControlSpec == ControlInit /\ [][ControlNext]_controlVars
-----------------------------------------------------------------------------
(* The variables have values of their kinds, and a client has at most one   *)
(* request on its way or one response to it in its queue.                   *)
ClientRecord ==
    [link: {"none", "open", "dead"}, wire: Seq(Kinds), queue: Seq(Responses), hasResponse: BOOLEAN,
     pending: Kinds \cup {"none"}, status: Statuses, app: AppStates, errors: SUBSET ClientErrors,
     stage: Stages, call: Kinds \cup {"none"}]

OneAtMost(r) == Len(r.wire) + Len(r.queue) <= 1

ControlTypeOK ==
    /\ members \subseteq Clients
    /\ client \in [Clients -> ClientRecord] /\ \A c \in Clients : OneAtMost(client[c])
    /\ process \in [Clients -> {"running", "zombie", "gone"}]
    /\ playing \in [Clients -> Statuses] /\ over \in BOOLEAN /\ stepped \subseteq members

(* No response is ever taken for that of another request, whatever timed    *)
(* out before (ResponseMismatch is never reported).                         *)
NeverMismatched == \A c \in Clients : "ResponseMismatch" \notin client[c].errors

(* Where nobody waits, PollResponse, which looks at has_response_ without a *)
(* lock, tells the truth about the queue of a game that has not failed.     *)
FlagTruthful ==
    \A c \in Clients : client[c].stage \notin Waits /\ client[c].app = "normal" =>
        (client[c].hasResponse <=> client[c].queue # <<>>)
=============================================================================
