# The Terran bot and its coordinator in TLA+

This directory models the two parts of the repository whose control is hard:
the command scheduler of `examples/common/planning` with the step loop of
`examples/terran/terran.cc` that drives it, which decides what the Terran bot
does; and below it the coordinator and the control interface of the API library
(`src/sc2api`), which start a match, step the bots, talk to the StarCraft II
processes and notice when one of them fails. TLC checks the models on small
instances; TLAPS proves, for every instance, the safety properties of the order
table, of the blocked-task buffer, of the work on the opening, of the dispatch
loop and of the control interface, that the coordinator uses that interface as
it is made to be used, and what it tells its bots.

## 1. The system

The repository is a C++ StarCraft II API (`src/`) with a bot on top
(`examples/`). Every game step, `TerranAgent::OnStep` runs one pass over a table
of *command orders* in fixed phases. Nothing runs in parallel inside the bot;
what makes it hard is that every phase works on queues, copies of rows, or
buffered records that an earlier phase, an earlier frame or the game itself has
made stale, and that work wanders between the table, two buffers of blocked
tasks, the opening plan and the game.

Below the bot there is concurrency: the coordinator runs each agent's step in a
thread of its own, responses come in on worker threads of the socket library,
and the games, processes of their own, answer when they like, wait for each
other, crash, hang or hang up.

```
 opening plan, goals --> strategic orders --> economy orders --> unit-execution orders
        ^   ^                  |    |               |                    |
        |   |                  v    v               v                    v  DrainReadyIntents
        |   +---- blocked-task buffers <--- ParkDeferredOrders      intent buffer
        |              |                                                 v  arbiter
        +--------------+ ReactivateBlockedTasks                     commands to the game
                                                                         |
   UpdateDispatchedSchedulerOrders <-------- observation <---------------+

 program: StartGame, Update, LeaveGame
    |
 Coordinator --- RunParallel / one by one ---> agents: OnStep (the above), OnGameEnd
    |  errors, ended?                             |
    +---------------------------------------> ControlImp: WaitForResponse, ping, kill
                                                  |  response_pending_, latest_status_
                                              ProtoInterface
                                                  |  SendRequest
                                              Connection: queue_, has_response_
                                                  |  websocket, worker thread
                                              StarCraft II process
```

### Components, their state and operations

| Component | State | Operations | Correct when |
|---|---|---|---|
| Order table `FCommandAuthoritySchedulingState` | parallel vectors of orders, id index, derived queues, lookup indices, batch depth, dirty flags | enqueue, set lifecycle / deferral / dispatch / slot, compact, begin and end batch, rebuild | index, queues and lookups agree with the rows; only spent rows leave |
| Task signature `FCommandTaskSignatureKey` | none | `==`, hash | equal work is recognised as equal |
| Blocked-task buffers `FBlockedTaskRingBuffer` | fixed array of records | push or coalesce, collect, match | must-run work is kept or rejected with a flag; due work is all collected |
| Admission `FTerranCommandTaskAdmissionService` | stimulus revisions, counters (both in the table's structure) | refresh, reactivate, admit, park | work is in the table or parked, never both, and neither only where a full buffer drops it |
| Authority processor `FCommandAuthorityProcessor` | opening-plan state | seed, complete, reopen, expire, ensure children | one live order per step; finished stays finished |
| Economy expander `FTerranEconomyProductionOrderExpander` | none of its own | one iteration per queued order | one slot, one builder per piece of work |
| Intent scheduling `FIntentSchedulingService` | none | drain | budgeted, best first, nothing lost |
| Dispatch tracking (`terran.cc`) | dispatch columns of the table | confirm, give up, compact, capture | every dispatch ends, once |
| Army, squad and unit-execution expanders | execution cache, missions | expand, supersede | one live order per actor |
| Intent arbiter (`agent_framework.h`) | intent buffer | resolve | one command per actor, the best |
| Wall gate `FTerranRampWallController` | none (observed depots) | evaluate, emit | the gate follows the threat |
| Placement, workers, economy forecasts, goals, descriptors, unit container, telemetry | rebuilt from the observation | queries | (answers are nondeterministic here) |
| `Connection` | websocket, queue of responses, `has_response_` | connect, send, receive with a timeout, push, pop, disconnect | the flag tells of the queue; nothing of a closed connection is left |
| `ProtoInterface` | `response_pending_`, `latest_status_` | send a request, wait for a response, ping | one request at a time, each answered by its own response |
| `ControlImp` | `app_state_`, `client_errors_` | wait with diagnosis (crash, hang, lost request), the game's requests | every wait ends, with a response or an error |
| `Coordinator` | agents, settings | start a game, update, leave, wait for all | bots are told start, steps and end in order; a match ends |
| Process launch, replays and observers, queries, debug and save/load requests, data, renderer | | | (not modelled) |

`PROJECT.json` lists every component with its sources and status, and the
hazards of the code at their lines.

## 2. Modules

| Module | Models | State and actions |
|---|---|---|
| `TaskSignature` | key, equality, hash | operators; `IndexAnswers` is the set of answers a hash lookup may give, since two keys that are equal under `==` may hash apart |
| `Retention` | compaction of a vector | `KeptAt(s, K)`: the elements of `s` at the positions `K`, in order |
| `BlockedTasks` | one blocked-task buffer | operators on the sequence of active records (`HeadIndex` is never moved by the code, so position = storage index); `Visit` is one turn of the collecting loop, which removes records from the array it walks over |
| `BlockedTaskRing` | a buffer over time | `Park`, `Collect`, `Spend`, `PushBack`, `Tick`, `Stimulus`; `offered` and `verdict` are the record last pushed and what the push answered |
| `SchedulingState` | the order table with its whole interface | `orders` is the parallel vectors as one sequence of records; `derived` is what the last `RebuildDerivedQueues` saw, and every queue and index is an operator on it |
| `OpeningWork` | the step loop for wall structures and one kind of goal | extends `SchedulingState`; `phase` is where `OnStep` is, `todo` the copied queue the phase walks; one action per iteration or phase |
| `UnitIntents` | `FUnitIntent`, `FIntentArbiter` | operators: `Winners` is the first loop of `Resolve` (`Contend` an iteration of it), `Resolve` the second with its validation (`Validate`); the game's answers about an intent are the set `sound` |
| `IntentBuffer` | `FIntentBuffer` over a frame | `Add`, `Reset` |
| `OrderLifecycle` | the promise made of an execution order (abstract) | `life`: the stage at each place; `zero`: the frame is that of game loop 0; a pass moves many orders, each by one stage; `Settle` and `LeaveZero` are fair |
| `OrderDispatch` | dispatch maintenance, drain, arbiter, commands and capture in `OnStep`, with the game | `orders`, `buffer`, `seen` (the descriptor's counts, one frame old) against `alive`, `doing`, `made` (the game); one action per phase of `OnStep`, one per thing the game may do |
| `RequestExchange` | the promise made to who waits for a response (abstract) | `owed`, `awaited`, `trouble`: a response is asked for, waited for and taken, or lost with an error; taking or losing it is fair |
| `GameControl` | `Connection`, `ProtoInterface` and `ControlImp` of every client, with the games | `client` is a record of the library's fields, and what the library does in one go is an operator on it; `WaitStep` has one action per stage of `WaitForResponse`, `GameStep` one per thing a game may do; `ControlSpec` is the interface whoever uses it |
| `AgentCoordinator` | `CoordinatorImp`, `Coordinator`, `ActionImp` and the loop of a program | extends `GameControl`; `phase` is where the coordinator is, `at` where it, or the thread of an agent, is with each agent |
| `SchedulingStateProofs`, `RetentionProofs`, `BlockedTasksProofs`, `BlockedTaskRingProofs`, `OpeningWorkProofs`, `IntentBufferProofs`, `OrderDispatchProofs`, `AgentCoordinatorProofs` | theorems about the module each is named for; `BlockedTaskRingProofs` builds on the two before it, `OpeningWorkProofs` on those and on the table's, `IntentBufferProofs` on `RetentionProofs`; `AgentCoordinatorProofs` is about `GameControl` in its first part | |
| `MC*` | instances for TLC | |

`OpeningWork` composes the table, the signatures and the buffers. What the code
asks the game (is a placement free, is there money, is a structure up, has the
producer taken the command, has the actor died) is a choice in every frame;
`observed` is limited to slots a builder was sent to. The clock of the blocked
records is abstracted in `OpeningWork` (a record may wake in any frame) and
modelled in `BlockedTaskRing`. Whether a goal's order is must-run depends on the
recovery state of the macro economy (`ApplyGoalDrivenCommitmentMetadata`), which
is not modelled: `RetentionPolicies` lets a parked order of a goal be either.

`OrderDispatch` composes the arbiter with the execution rows of the table and
with the game. It is the counterpart of `OpeningWork`: there the game's answer
to a dispatched order is a free choice, here the answer comes from a game with
units that take a command, are refused it, carry it out late, drop it or die,
and the bot sees it only through counts one frame old. `age` stands for
`CurrentGameLoop - DispatchGameLoop`, so that no clock grows without bound. Two
history variables record what the code does not: `news`, whether something of
an order's kind has come since its capture and whether the descriptor shows it,
and `undone`, whether something of that kind was lost again. No guard reads
them. What is above an execution order (its economy parent, its slot) is in
`OpeningWork`; here `SynchronizeTargets` may complete any order whose kind is
observed, which is what the parents' targets can make it do.

`GameControl` and `AgentCoordinator` split the API library where the code does:
the first is everything below `ControlInterface`, the second everything that
calls it. Where a request waits is `stage`: in `WaitForResponse` the lock is
given back between the end of the wait, the closing of the connection, the look
at the process and the ping, and worker threads or the game may act at each of
these places (`late`, `failing`, `pinging`, `pinglate`). Responses are a kind, a
status and a verdict; the rest of a message is left out. `client_errors_` is a
set, since nobody reads the order. The games are external: requests on one
connection are answered in their order, joining a match and stepping it are
rendezvous of all its games, and any of them may fail (see `Faulty` below). An
observation that gets no response ends the program, as the code reads a null
pointer there; a failure to create or to join ends it with `exit(1)`. Other
assertions are taken as compiled out, but for the one in `WaitForResponse`,
whose condition `ControlSpec` demands of every caller. `begun` is a history
variable, read by no guard.

Definitions named as *mutants* in comments (`OverBudget`, `RootOnly`, ...) are
deliberate bugs. They are not used by any specification; substituting one for
the definition named in its comment makes the property paired with it in
`PROJECT.json` fail, which shows that the property can see that bug.

## 3. Runs

| Run | Instance | Shows |
|---|---|---|
| `blocked_ring` | 4 tasks (symmetric), 3 slots, 1 reason, 3 game loops, revisions to 2, 1 retry | no task parked twice, room to push back, only one discardable record evicted at a time, must-run kept or rejected with its flag, exactly the due collected, order kept |
| `order_table` | 3 rows, 3 ids, batches nested twice, the inner ones over 2 rows, opening and execution rows; or 2 rows with slots, 2 reasons, 2 attempts, 2 ranks, no batches | index, ids, queues, lookups, frozen queues, compaction, deferral bookkeeping, re-ranking |
| `opening_wall` | 2 depots, 2 builders (symmetric), 4 slots, 6 rows, 7 ids, buffers of 1, busy producers, occupied and invalid slots, coverage guard | expansion, parents, parking, endings |
| `opening_goal` | 1 depot, 1 goal for the same structure, 2 builders (symmetric), 6 rows and ids | one slot and one builder per piece of work, no work lost between table and buffers, the drain |
| `intent_arbiter` | 2 actors, 2 targets, 3 domains, 2 priorities, up to 3 intents | the commands are the best intents, one for an actor, in buffer order |
| `order_dispatch` | an SCV and a depot, a barracks and a marine, 2 orders, timeouts 1 and 2 frames | type, no dispatched order outlives its time but one of game loop 0, the order lifecycle is implemented, its liveness included |
| `order_dispatch_pair` | 2 SCVs, up to 2 depots, a frame of 2 loops against timeouts of 1 and 3 | what the game did for an order is heard, once it can be |
| `agent_coordinator` | one agent through two matches, in the four ways of stepping it, and with ports; two agents that play each other, twice and one after the other, or once and in threads and real time; the first game may fail, the second only hang up with its process | responses and requests stay matched, the flag is truthful, one request at a time, nobody waits for ever, bots are told the end once and truly, the match ends, and the coordinator keeps the contract of `GameControl` |

*Why the bounds are enough.* Two of everything is what each hazard needs: two
orders for one slot, two builders, a record in front of another one, a child
that outlives a compaction, an id handed out after a row left. The cut-offs
(`MaxOrderId`, `MaxOrders`) stop a run, they never change what a step does;
within them an opening step goes through seeding, expansion, deferral, parking,
reactivation, dispatch, confirmation, completion, loss of the structure,
reopening and compaction. `FallbackAfter` and `BusyLimit` are 3 in the code and
smaller here: only "reached" and "not reached yet" differ. Deferral counts are
cut off at `MaxDeferrals >= BusyLimit` in `OpeningWork`. In `OrderDispatch` the
timeouts of 96 and 224 game loops are 1 to 3: what matters is that an order
lives through no frame, one frame or more before its time is over, and that a
frame may jump over the deadline, which the second instance has. `MaxCount`
only stops the game from making more of a kind. Two places are enough for two
orders that share a count or an actor; a place is used again after compaction.

`MCSpec` of `order_table` keeps two sorts of table apart (`Apart`): rows of the
opening with their execution orders, and economy rows with slots, deferrals and
ranks. Both go through the whole interface; only tables that mix the two sorts
are left to the proofs, which have no such bound.

`Faulty` names the clients whose game may crash, refuse, answer with an error,
hang up or be late on its own account; the others do so only as a consequence
(a step that waits for a game that has died times out for all). Two agents are
enough for a rendezvous and for a loop that treats one agent before another; two
matches are enough for what one match leaves to the next: a status, a pending
request, an error, a connection given up. Two agents play two matches, since one
may be left with errors and the other clean: the one that owes nothing but a
leave then begins the next match with it, which is the last exception in
`PurelySequential`. Two matches in threads and not in real time pass
`NoStandstill`, `EndToldOnce` and `PurelySequential` too, but have too many states
for the liveness of the same run.

*Fairness.* `OrderDispatch` assumes `WF(FrameStep)`, the phases of `OnStep`. The coordinator calls `OnStep` again and again for as long as the game
lasts (`src/src/sc2api/sc2_coordinator.cc`, `StepAgents`), and every phase
returns. Nothing is assumed of the game, which may ignore every command for
ever, nor of the planners, which may stop making orders. Under this the promise
of `OrderLifecycle`, that a dispatched order ends, follows from the timeout
alone, but for the orders of one frame: `OnStep` runs on the first observation a
client gets (`JoinGame` calls `IssueEvents`, `sc2_coordinator.cc:606`), which may
be that of game loop 0, and what is captured then has a `DispatchGameLoop` of 0,
with which neither its time nor its actor is looked at (`terran.cc:2566`,
`2585`). Such an order ends if a count, its producer or its target tells so, and
else never; in `OrderDispatch` it is not `timed`, and `OrderLifecycle` moves it
to `Untimed`, of which no end is promised. A behaviour may begin with `zero` or
without. Enqueuing and blocker relief cannot keep a frame from going on: the first
needs a vacant place, the second an actor without an intent.

`AgentCoordinator` assumes weak fairness of each agent's steps (its thread, or
the loop that treats it, runs; `Receive`'s wait is bounded by the timeout, so it
is part of them) and of the coordinator's own; of each game's answers to what it
can answer; and of the end of a connection whose process is dead, which the
socket library reports. The answers are assumed because the code relies on them:
a leave request is polled for without any timeout (`PollLeaveGame`), so a game
that never answers it and keeps its connection would keep `Update` going for
ever. Nothing is assumed of the program's wish to leave or to play again, nor
that a game is decided or crashes.

*Refinement.* `AgentCoordinator` implements `GameControl`'s `ControlSpec`
(`UsesControl`): whatever it does with a client is a use the interface is made
for, so what is proved of `ControlSpec` holds of the coordinator. TLC checks it
on the small instance, and `AgentCoordinatorProofs` proves it for all. And it
implements `RequestExchange` (`ExchangeSpec`) under the mapping that forgets all
but whether a response is owed, awaited, or an error recorded; its liveness is
that every wait ends.

`OrderDispatch` implements `OrderLifecycle` under the mapping that
forgets of an order all but its stage, an order without a deadline being in one
of its own once the frame of game loop 0 is over. With a game loop that stands still in the
descriptor (`SameLoop`) an order may stay dispatched for ever, and TLC shows it.

*Deadlock* is checked everywhere; where the id bound is used up, `TableFull`
stutters and stands for the end of the instance.

*Disagreements met while modelling*, each shown by a run that TLC must find
violated (details under `findings` in `PROJECT.json`):

- `game_end_told`: in a match of several participants whose agents are stepped
  one after the other, `StepAgents` asks `PollLeaveGame` before `CallOnStep`; it
  is true once the game is not on any more, so `OnGameEnd` is never called and
  the match is never left. In threads, in real time and alone it is
  (`EndToldElsewhere`).
- `opening_duplicate`: equal work is admitted twice, because the lookup over
  clean queues hashes fields that equality ignores.
- `opening_slot_release`: a terminal order holds a reserved slot, written from
  the stale copy of a row that the wall fallback had expired.
- `opening_step_owner`: a reactivated record with its slot from before the
  fallback completes, its order is compacted, and the step stays seeded by an
  order that no longer exists.

More disagreements with the documents were met and are not shown by a run:
compaction removes any spent row, not "only terminal `UnitExecution` rows" as
`IntentSchedulingAndCommandAuthority.md:125` says; an observation that gets no
response ends the program over a null pointer (`sc2_client.cc:2014`) instead of
being told to `OnError`, which is "called for various errors the library can
encounter"; a refused join is ignored by `WaitJoinGame`'s caller, so `StartGame`
returns true although it is to be "false if there was errors or the game didn't
start"; `RebuildPlaybackState` answers `Dispatching`, not `Blocked`, with work upstream
and dispatched orders; and an order for a structure is given up after 224 game
loops (`ConstructionTimeout`), not after the 96 documented for every dispatch.
`TerranAgentCoordinatorPath.md:140-141` has every dispatched order aborted "when
actor is missing after dispatch loop" and "when dispatch confirmation exceeds" the
limit; one dispatched at game loop 0 is not.

## 4. Proofs

`SchedulingStateProofs` proves, for all constants that satisfy the assumptions
of `TaskSignature` and `SchedulingState`: `TypeOK`, `IndexExact`,
`IdsAscending`, `QueuesSettled`, `LookupsFresh`, `DeferralCoherent` as
invariants, and the action properties `FrozenInBatch` and
`OnlySpentRowsLeave`.

The inductive invariant is

    Coherent == TypeOK /\ IndexExact /\ IdsAscending /\ DerivedAgrees

`IndexExact` alone is not inductive: appending a row needs that its id is new,
which `IdsAscending` gives, and compaction needs that ids are distinct to know
that the rebuilt index is a function onto the rows. `QueuesSettled` needs that
outside a batch nothing is dirty, `DerivedAgrees`. `LookupsFresh` needs the
agreement of the clean path (indices over `derived`) with the scans over
`orders`, proved once in `ViewAnswers`. Compaction is handled through
`KeptAtLemma`, which says that what `KeptAt` returns reads its source through
an increasing enumeration of the kept positions. `DeferralCoherent` is inductive
relative to `Coherent`. Each preservation lemma treats one action.

`RetentionProofs` and `BlockedTasksProofs` are the lemmas about sequences that
the others need: what cutting an element out and keeping some of them leave
where, what a push onto a buffer does (it coalesces, appends, evicts one
discardable record, or does nothing), and what a collection takes and leaves.
The last is the invariant `Turned` of the collecting loop: after n turns the
records taken out are, in order, those due among the first n, the buffer holds
the rest, and from the index on it holds what stood at n + 1 and beyond, moved
up by as many places as records have left. `VisitStep` keeps it by one turn,
`TurnsExist` gives the loop for every length of the buffer, and `CollectLemma` is
its end: what was taken out `Takes` exactly the due positions, what is left the
others. `LeastOf` (a set of naturals that is not empty has a least element) is proved
from the well-ordering of finite sets; it gives the "first of" of the code, and
induction by a least counterexample where the library's induction theorems,
which take an operator, cannot be instantiated.

`BlockedTaskRingProofs` proves all seven safety properties of the `blocked_ring`
run for any capacity, tasks, reasons, clock and revisions. `MustRunKept` and
`OnlyDiscardableEvicted` come from what a push costs (`PushCosts`: at most one
record, by eviction from a full buffer) and what a collection takes; neither
gives the other, and the flag of a refusal is part of the first. The inductive
invariant is `Sorted`: `DistinctTasks` alone does not survive the return of
collected records, since two of them, or one of them and one that was pushed in
between, might be for one task; and `RoomToPushBack` is what keeps a return from
evicting. So `Sorted` has the tasks distinct in the buffer, among the collected
records and between the two, and that both fit together.

`OpeningWorkProofs` proves all nine safety properties of the opening runs, for
any steps, goals, slots, builders, hindrances, bounds and buffers: type
correctness, one slot and one builder per piece of work, one live order of a
layer below one order, parents that stand, work that is parked or active and
never both, work that is not lost between the two, ended orders that stay ended,
and the drain. The inductive invariant
is `Sound`, over the invariant `Coherent` of the table:

- `Kinship`: what the rows are to each other. A child is younger than its
  parent, one layer below and for the same work (`Lineage`); of one piece of work
  there is at most one strategic order and the economy order below it
  (`Family`); an economy order has one live builder's order; a live order's
  parent is in the table; slots and builders are exclusive. `SlotExclusive`
  needs `RowSound`, that a row claims no slot but the one it prefers.
- `Together` and `Tied`: economy work of a step ends with its strategic order
  (until the coverage guard parts them), and all work on a step hangs on the one
  order the plan records for it. Without this an expired or reactivated step
  could be seeded again beside its old work, and `ExpandedOnce` would not be
  inductive.
- `Done`: the recorded order of a complete step is complete, but between its
  reactivation and the look at the game: the one exception in `EndedStaysEnded`.
- `Apart`: nothing is parked that is worked on, recorded, or parked already. It
  is why a push of `ParkDeferredOrders` never coalesces into a record of other
  work, and why `ReactivateBlockedTasks` makes no second order.
- `WorkTyped`, `Visits`: types, and what the copied queue of a phase may hold.

`Sound` is stated with operators on a table `s`, and each writer of the table
has a lemma about it (`Advances`: rows rewritten in place, none of which comes
back to life; rows added; rows compacted), so that a phase is a few of these in
a row. `WorkKept` is the other half of `ParkedOrActive`: work is not only not in
two places, it is in one, before and after every reactivation and every parking.
A record that is taken out leaves the others (`OthersStay`); it goes back, or
becomes a row (`RootRow`), or is spent, and then work of its class is live in the
table, also where the index of a batch ago was asked (`FoundIsWorked`). A push
keeps all records and adds one, but at a full buffer, where it drops what it was
given, and never a must-run record, which is rejected with its flag; the flag is
what keeps its orders from being retired (`PushKeeps`, `ParkDeferredKeeps`). No
record of these buffers is discardable, so none is evicted. `EndedStaysEnded` follows step by step from `Sound`; `BudgetedInOrder` from
what the queue of ready orders is and the least position that the budget cuts
off. `RankAssumption` (ranks are naturals, and there is one) is what sorting by
priority needs.

`OrderDispatchProofs` proves, for any number of orders, actors and kinds, any
timeouts, any frame length and any game, that `GivenUpInTime` is an invariant
(of orders captured after game loop 0) and that every behaviour of the dispatch loop is one of `OrderLifecycle`'s
safety part, `Stagewise`. The inductive invariant is

    Timely == TablesOK /\ InTime

`GivenUpInTime` alone is not inductive: the rebuild adds one frame to the age of
an order, so the order must be younger than its timeout just before, which only
the maintenance that precedes it in the same frame ensures. `InTime` states the
age by phase, of the orders that are `timed`. `DrainTakesReady` (the queue holds exactly the ready places) is
what keeps the drain from dispatching an order twice; `StepMoves` shows that
each action moves every order by one stage or not at all.

It proves also `TypeOK` and `AnswersHeard`: an order is completed only for what
has come of its kind since its capture, and not given up once the counts show
it. The argument is `Heard`: for every captured order, what the history
variables say of the game is what the counts say against the baseline of the
order (`Told`): nothing more than the baseline where nothing was reported, more
than it where something was and nothing of the kind was lost; and, between the
rebuild and the frame's end, that the descriptor shows what the game shows. Each
action of the game is one `Comes`: where it reports nothing no count grows,
where it undoes nothing none shrinks. The arbiter needs that there is a highest
priority, which the code has, its priorities being bounded integers; it is a conjunct
of `DispatchAssumption`.

`IntentBufferProofs` proves `CommandsAreBest` for any buffer of any length, any
priorities and whatever the game accepts. The loops of `Resolve` are recursive
functions on the numbers up to the length of the buffer. That a function with
such an equation exists is proved up to every length, from a least
counterexample (`UpTo` of `RetentionProofs`): one that serves n - 1 intents is continued by one more
value (`WonExists`, `PassedExists`). Then each loop has its invariant, kept by
one intent more: `Holds`, that the winners are the highest-ranked of each actor
among those seen, which needs that the rank is a strict order (`Ranking`); and
`Done`, that what has been sent is the accepted ones of the best, in order and
without gaps, and that only best intents have reserved their builder, so that
no best intent meets the reservation of another. An intent that equals the
winner of its actor but comes later is offered too (`BestOffered`); it changes
nothing, since its first was sent already or is refused like it.

The first part of `AgentCoordinatorProofs` proves of `ControlSpec`, for any number of clients and any
games, that a client has at most one request out or one response waiting
(`OneOnTheWire`), that no response is taken for that of another request
(`ResponsesMatch`), and that `has_response_` is truthful (`PollIsTruthful`). The
inductive invariant is `IInv`, and for each client `Sound`: what is out or in the
queue is of the kind that is pending (`Matched`), nothing is out or queued on a
connection given up, and it is given up wherever a wait is failing (`Linked`),
and the flag agrees with the queue but while a ping is tried (`Flagged`); a
client owes what it waits for, and an application that is not normal has an
error (`Owing`). These are not inductive alone: that a ping, which is sent although a response is
pending, gets its own response needs `Linked`; that its response clears a stale
flag needs that it is the only one in the queue. Each operator of the library
has a lemma that it keeps a client sound; a step of the specification changes
one client, or several by a use each. Two more invariants are proved of every
step of `ControlSpec`, for those who use it: a client knows its game (`Knows`:
the status of the response in its queue, or the latest status where there is
none and nobody waits, is that of the game), and while it has had no error it is
connected and what is pending of it is on its way (`Flies`).

The second part of `AgentCoordinatorProofs` proves, for any set of programs (`Modes`), any number of
agents and any games that fail, that the coordinator implements `ControlSpec`
(`CoordinatorUsesControl`), so that `ResponsesMatch` and `PollIsTruthful` hold of
it; and `PurelySequential` (`CoordinatorAsksInTurn`): no client is asked while a
response is pending, but for one that has had errors before, for `LeaveGame`, and
for a match that begins with a leave still on its way. The inductive invariant is

    CInv == IInv /\ Coordinated

where `Coordinated` ties the place the coordinator is at to what its clients are
doing: where it rests with an agent, the client is in the middle of nothing
(`Quiet`), so that it may be asked; between asking all to join and waiting for
each, a join is owed (`OwesJoin`); while an agent is at work, or awaited, or
observed, nothing is pending, and elsewhere nothing or a leave (`Settled`). The
implementation needs `Quiet` and `OwesJoin`, since `ControlSpec` has nobody wait
for what was not asked for; that several clients change in one step of the
coordinator is a use of the interface by each of them (`UsedWell`).

What the bots are told is proved in three steps on top of `CInv`, again for any
programs, agents and failures.

- `EndToldOnce` and `EndIsTrue` need `Tells`, which relates what a bot has been
  told to where the coordinator is with it and to its game: the end is told
  where all work with the agent is over, and its game is then not on, which the
  coordinator has from a status, so from `Knows`; a later join can make it go on
  only after the bot's state has been reset.
- `EndToldElsewhere` needs the converse, that a bot not told so has its game
  still, and for that who can end a game. `Asking` says what an agent may be
  asking for where: a step only where it waits for it, a leave only after the
  end. `Decisions` (`StepAsked`, `Undecided`) says that where the time is not
  real a match is decided only with all its players asking for a step, and that
  whoever it is not over for asks still; so between two updates nobody's game
  ends unnoticed, and a new match is not decided before it begins. `StillOn`
  states, at the places where `Update` has looked and found the game going on,
  that it does so until the bot is told otherwise.
- The exception, agents that play each other stepped one after the other, is
  where `StillOn` fails, as `game_end_told` shows; the theorem has it as the
  hypothesis `Elsewhere`, which is the one of the property.
- `NoStandstill` is about the games as much as about the coordinator: the games
  of a match answer a join, and a step, only together. What is to be shown is
  that whoever waits for one has all the others asking, while no game has failed
  (`AllWell`). For the join it is the order of the phases (`Laid`): all agents
  have asked before the first one waits. For the step `Round` says how far the
  agents of one update are apart. `ToStep` names those that have yet to make the
  step; either all games that are on have to make it and none has, or exactly
  those have to that have not. Between two updates all have made the same steps,
  and a match begins with none made, which needs that a match leaves no game
  behind that is on (`Left`), also where the program leaves it before its end;
  the one exception, the game of a single agent, is over when the next is
  created. `ExitExplained` puts the exits of the program aside.

What the proofs assume are the named assumptions of the modules and nothing
else; TLC evaluates them in the runs.

## 5. What is only model-checked, and what is not modelled

Model-checked only: liveness, which is out of the prover's reach, since it
handles neither fairness nor ENABLED: the second half of `OrderLifecycle`,
`RequestExchange`, and `MatchEnds`. Every other property of a passing run is a
theorem as well. The disagreements of section 3 are what their runs show; nothing
is proved of them. No RECURSIVE operator is used; recursion is written as
recursive functions.

Not modelled: geometry and scoring (placement, worker choice, steering),
forecast arithmetic, telemetry, the goal rules, generated type ids, other
example bots, tests and scripts. Of the API library: launching processes, the
first connection and its retries (`Attached` is where they end), replays and
their observers with `Relaunch`, queries, debug, save and load requests, and
what observations contain. Add-ons, morphs, upgrades,
reactors and the cost of units in the economy expander; there also the fallback
for supply depots under supply pressure
(`FTerranEconomyProductionOrderExpander.cc:2402-2463`, `2606-2614`), which sends
a builder to one of eight points without a slot id when no slot of the list is
free, so that `SlotExclusive` has nothing to say of it; hot-layer caps and the
budget gate of the admission service, which appear as a nondeterministic refusal
of work that is not must-run; the score behind priorities, which appears as an
arbitrary rank. Of the intents `OnStep` adds besides orders only blocker relief
is modelled: rally, harvest, recovery, orbital and wall-gate intents go to units
without an order or an intent. In `OrderDispatch` a producer confirms an order
by what its queue starts with; the two other ways the code knows (an orbital
that has morphed, an add-on that is there) belong to kinds that are left out.
The last fallback for a morph that stays pending for more than 224 loops
(`FTerranEconomyProductionOrderExpander.cc:3085`) is left out: dispatched morphs
are given up after 96 loops before it can see one.
`FOpeningPlanExecutionState` is used by the code but not part of the tree: its
operations are modelled from their use and marked external.

## 6. Plan

In this order, the core first; 1 to 5 are built with their proofs, the rest is open
but for what is said there.

1. The table: `SchedulingState` and its proofs.
2. The buffers: `BlockedTasks`, `BlockedTaskRing`.
3. Opening work end to end: `OpeningWork`, over 1 and 2.
4. From ready to the end: `UnitIntents`, `IntentBuffer`, `OrderDispatch`, the
   abstract `OrderLifecycle` and the proofs about both.
5. The coordinator and the control interface: `GameControl`, `AgentCoordinator`,
   the abstract `RequestExchange`, the proofs about `ControlSpec` and the proof
   that `AgentCoordinator` implements it.
6. The army chain (`FTerranArmyOrderExpander`, `FTerranSquadOrderExpander`,
   `FTerranArmyUnitExecutionPlanner`): missions, and the supersession of
   execution orders. Worth stating: one live execution order per actor, none
   without its squad order, a superseded order is not dispatched afterwards.
7. The ramp wall gate (`FTerranRampWallController`) with its depots and their
   timer: no oscillation under a flickering threat, no raised depot with a
   friendly unit in the gap.
8. An abstract store of blocked tasks that `BlockedTaskRing` implements. (That
   must-run work is kept and no task parked twice is proved.)
9. A lemma on `TaskSignature` that says when equal keys hash alike. (The
   properties of `OpeningWork` are proved.)
10. More branches of the economy expander: add-ons and reactors, whose capacity
   of 2 lets a producer hold several dispatched orders; upgrades and morphs.
11. Replay observers, whose `Relaunch` after an error is the one recovery the
    coordinator tries. (What the bots are told, and that they do not wait for one
    another, is proved.)
