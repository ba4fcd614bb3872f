---------------------------- MODULE OrderDispatch ----------------------------
(***************************************************************************)
(* The orders units are to carry out, from the ready queue to their end:    *)
(* what TerranAgent::OnStep does with them frame after frame, and the game  *)
(* that takes, refuses, carries out or undoes what it was told in between.  *)
(*                                                                         *)
(* A frame confirms or gives up what was dispatched before, rebuilds the    *)
(* descriptor, lets new orders in, drains the ready ones into the intent    *)
(* buffer, lets the arbiter choose, sends the commands and captures what    *)
(* was drained.  The counts and the game loop that decide about a dispatched *)
(* order are those of the descriptor, one frame old; its actor is looked up *)
(* in the units of this frame.  The first frame is that of game loop 0,     *)
(* unless the game runs on by itself; the code takes a dispatch at loop 0   *)
(* for one that has not been timed.                                         *)
(***************************************************************************)
EXTENDS UnitIntents, FiniteSets

CONSTANTS
    Places,         \* places for orders; a place is used again after compaction
    Actors,
    Kinds,          \* what an order results in
    Constructed,    \* the kinds whose ability needs an observed construction
    Abilities,      \* which actor can be told to make which kind
    MaxCount,       \* where an instance stops making more of a kind
    StepSize,       \* game loops between two frames
    ProducerTimeout,        \* 96 game loops in the code
    ConstructionTimeout,    \* 224
    DrainBudget,    \* MaxUnitIntentsPerStep
    Nothing         \* no kind: what an idle unit does

ASSUME DispatchAssumption ==
    /\ Actors = Tags \ {NullTag}
    /\ IsFiniteSet(Actors)
    /\ Constructed \subseteq Kinds /\ Nothing \notin Kinds
    /\ Abilities \subseteq Actors \X Kinds
    /\ Kinds \cup {"move"} = Whats
    /\ MaxCount \in Nat /\ DrainBudget \in Nat
    /\ \E r \in Priorities : \A s \in Priorities : s <= r
    /\ StepSize \in Nat \ {0} /\ ProducerTimeout \in Nat /\ ConstructionTimeout \in Nat

VARIABLES
    phase,      \* where OnStep is; "game" between two calls
    zero,       \* the game loop of this frame, or of the one to come, is 0
    orders,     \* the unit-execution rows
    buffer,     \* IntentBuffer
    seen,       \* BuildPlanning: finished and unfinished of each kind
    alive,      \* the units of this frame
    doing,      \* what the order queue of each unit starts with
    made,       \* what stands: finished and, of constructed kinds, unfinished
    news,       \* history: what has come of the kind of an order since its capture
    undone      \* history: orders since whose capture something of their kind was lost

gameVars == <<alive, doing, made>>
history == <<news, undone>>
dispatchVars == <<phase, zero, orders, buffer, seen, gameVars, history>>

Counts == [Kinds -> [finished : Nat, unfinished : Nat]]

Vacant == [state |-> "none"]
Ended == [state : {"Completed", "Aborted"}]
Order ==
    {o \in [state : {"Ready", "Dispatched"}, actor : Actors, kind : Kinds,
            priority : Priorities, attempts : {0, 1}, timed : BOOLEAN, age : Nat,
            finishedAt : Nat, unfinishedAt : Nat] : o.state = "Ready" => o.attempts = 0}

Init ==
    /\ phase = "game"
    /\ zero \in BOOLEAN
    /\ orders = [p \in Places |-> Vacant]
    /\ buffer = <<>>
    /\ made = [k \in Kinds |-> [finished |-> 0, unfinished |-> 0]]
    /\ seen = made
    /\ alive = Actors
    /\ doing = [a \in Actors |-> Nothing]
    /\ news = [p \in Places |-> "none"]
    /\ undone = {}
-----------------------------------------------------------------------------
(* An order that is ready or dispatched for the actor.                      *)
Pending(p) == orders[p].state \in {"Ready", "Dispatched"}
Captured(p) == orders[p].state = "Dispatched" /\ orders[p].attempts > 0

(* What the units of a frame show of each kind: a unit in production is     *)
(* counted at its producer.                                                 *)
Shown ==
    [k \in Kinds |->
        IF k \in Constructed THEN made[k]
        ELSE [made[k] EXCEPT !.unfinished = Cardinality({a \in Actors : doing[a] = k})]]

(* What happens to a kind is noted for the dispatched orders that result in *)
(* it: those of this frame too, their counts are taken before the commands. *)
Dispatched(K) == {p \in Places : orders[p].state = "Dispatched" /\ orders[p].kind \in K}
Reported(K) ==
    news' = [p \in Places |-> IF p \in Dispatched(K) /\ news[p] = "none" THEN "begun" ELSE news[p]]
Undone(K) == undone' = undone \cup Dispatched(K)

(* The game between two frames.                                             *)
Begins(a) ==
    /\ phase = "game"
    /\ doing[a] \in Constructed
    /\ made[doing[a]].finished + made[doing[a]].unfinished < MaxCount
    /\ made' = [made EXCEPT ![doing[a]].unfinished = @ + 1]
    /\ doing' = [doing EXCEPT ![a] = Nothing]
    /\ Reported({doing[a]})
    /\ UNCHANGED <<phase, zero, orders, buffer, seen, alive, undone>>

Finishes(k) ==
    /\ phase = "game"
    /\ made[k].unfinished > 0
    /\ made' = [made EXCEPT ![k].unfinished = @ - 1, ![k].finished = @ + 1]
    /\ Reported({k})
    /\ UNCHANGED <<phase, zero, orders, buffer, seen, alive, doing, undone>>

Trains(a) ==
    /\ phase = "game"
    /\ doing[a] \in Kinds \ Constructed
    /\ made[doing[a]].finished < MaxCount
    /\ made' = [made EXCEPT ![doing[a]].finished = @ + 1]
    /\ doing' = [doing EXCEPT ![a] = Nothing]
    /\ Reported({doing[a]})
    /\ UNCHANGED <<phase, zero, orders, buffer, seen, alive, undone>>

Stops(a) ==
    /\ phase = "game"
    /\ doing[a] # Nothing
    /\ doing' = [doing EXCEPT ![a] = Nothing]
    /\ Undone({doing[a]} \ Constructed)
    /\ UNCHANGED <<phase, zero, orders, buffer, seen, alive, made, news>>

Falls(k, part) ==
    /\ phase = "game"
    /\ made[k][part] > 0
    /\ made' = [made EXCEPT ![k][part] = @ - 1]
    /\ Undone({k})
    /\ UNCHANGED <<phase, zero, orders, buffer, seen, alive, doing, news>>

Dies(a) ==
    /\ phase = "game"
    /\ a \in alive
    /\ alive' = alive \ {a}
    /\ doing' = [doing EXCEPT ![a] = Nothing]
    /\ Undone({doing[a]} \ Constructed)
    /\ UNCHANGED <<phase, zero, orders, buffer, seen, made, news>>

(* A new unit; the names of the dead are used again once no order has them. *)
Arrives(a) ==
    /\ phase = "game"
    /\ a \notin alive
    /\ \A p \in Places : Pending(p) => orders[p].actor # a
    /\ alive' = alive \cup {a}
    /\ UNCHANGED <<phase, zero, orders, buffer, seen, doing, made, history>>
-----------------------------------------------------------------------------
(* HasProducerConfirmedDispatchedOrder                                      *)
HasProducerConfirmed(o) == o.actor \in alive /\ o.kind \notin Constructed /\ doing[o.actor] = o.kind

Timeout(o) == IF o.kind \in Constructed THEN ConstructionTimeout ELSE ProducerTimeout

(* A mutant of Overdue: the game loop of the frame before is compared.      *)
OverdueBefore(o) == o.timed /\ o.age >= Timeout(o) + StepSize

(* An order captured at game loop 0 is never overdue.                       *)
Overdue(o) == o.timed /\ o.age >= Timeout(o)

Grown(o) ==
    \/ seen[o.kind].finished > o.finishedAt
    \/ seen[o.kind].unfinished > o.unfinishedAt

(* The actor is missing, and the game loop of the dispatch is past and not 0. *)
Gone(o) == o.timed /\ o.actor \notin alive /\ o.age > 0

(* A mutant of Outcome: the actor is looked for first.                      *)
GoneFirst(o) ==
    IF Gone(o) THEN "Aborted"
    ELSE IF Grown(o) \/ HasProducerConfirmed(o) THEN "Completed"
    ELSE IF Overdue(o) THEN "Aborted"
    ELSE "Dispatched"

(* The order of the tests in UpdateDispatchedSchedulerOrders.               *)
Outcome(o) ==
    IF Grown(o) THEN "Completed"
    ELSE IF Gone(o) THEN "Aborted"
    ELSE IF HasProducerConfirmed(o) THEN "Completed"
    ELSE IF Overdue(o) THEN "Aborted"
    ELSE "Dispatched"

(* Nobody reads an ended row but for its state.                             *)
Maintained(o) ==
    IF Outcome(o) = "Dispatched" THEN o ELSE [state |-> Outcome(o)]

UpdateDispatchedSchedulerOrders ==
    /\ phase = "game"
    /\ phase' = "maintained"
    /\ orders' = [p \in Places |->
                    IF orders[p].state = "Dispatched"
                    THEN Maintained(orders[p]) ELSE orders[p]]
    /\ UNCHANGED <<zero, buffer, seen, gameVars, history>>

(* A mutant of LaterLoop: the descriptor keeps the game loop it had.        *)
SameLoop(o) == o

(* "age" is CurrentGameLoop of the descriptor - DispatchGameLoop; with a    *)
(* DispatchGameLoop of 0, not "timed", nobody reads it.                     *)
LaterLoop(o) == IF o.timed THEN [o EXCEPT !.age = @ + StepSize] ELSE o

(* ... and the compaction at its end, when it is due: terminal unit-        *)
(* execution rows have no children and leave.  The descriptor is rebuilt    *)
(* then.                                                                    *)
Rebuild(compacts) ==
    LET leaves(p) == compacts /\ orders[p].state \in {"Completed", "Aborted"}
    IN  /\ phase = "maintained"
        /\ phase' = "rebuilt"
        /\ orders' = [p \in Places |->
                        IF leaves(p) THEN Vacant
                        ELSE IF Captured(p) THEN LaterLoop(orders[p]) ELSE orders[p]]
        /\ seen' = Shown
        /\ news' = [p \in Places |-> IF leaves(p) THEN "none"
                                     ELSE IF news[p] = "begun" THEN "shown" ELSE news[p]]
        /\ undone' = {p \in undone : ~leaves(p)}
        /\ UNCHANGED <<zero, buffer, gameVars>>

(* The last loop of UpdateCompletedOpeningSteps: an order whose target is   *)
(* shown to be there is done, ready or dispatched.  An order has its target *)
(* from its parent: a number of its kind, any here but none, or a structure *)
(* on a slot.                                                               *)
TargetMayMatch(k) == seen[k].finished > 0 \/ (k \in Constructed /\ seen[k].unfinished > 0)

SynchronizeTargets(reached) ==
    /\ phase = "rebuilt"
    /\ phase' = "plan"
    /\ \A p \in reached : Pending(p) /\ TargetMayMatch(orders[p].kind)
    /\ orders' = [p \in Places |-> IF p \in reached THEN [state |-> "Completed"] ELSE orders[p]]
    /\ UNCHANGED <<zero, buffer, seen, gameVars, history>>

(* SelectBuildWorker: a builder has no order; only an intent to build, and  *)
(* there is none of these before the drain, would keep it from another.     *)
FreeBuilder(a) == \A p \in Places : Pending(p) => orders[p].actor # a

(* A producer without a reactor has no intent, nothing in its queue and no  *)
(* order waiting.  An order to produce that was dispatched does not count:  *)
(* its command is taken to show in the queue.  Nor does one to build that   *)
(* is only ready.                                                           *)
FreeProducer(a) ==
    /\ ~HasIntentForActor(buffer, a)
    /\ doing[a] = Nothing
    /\ \A p \in Places :
          Pending(p) /\ orders[p].actor = a =>
              (orders[p].state = "Dispatched" <=> orders[p].kind \notin Constructed)

(* The economy expander finds an actor that is free for the order.          *)
EnqueueReady(p, a, k, r) ==
    /\ phase = "plan"
    /\ orders[p] = Vacant
    /\ a \in alive /\ <<a, k>> \in Abilities
    /\ IF k \in Constructed THEN FreeBuilder(a) ELSE FreeProducer(a)
    /\ orders' = [orders EXCEPT ![p] =
                    [state |-> "Ready", actor |-> a, kind |-> k, priority |-> r, attempts |-> 0,
                     timed |-> FALSE, age |-> 0, finishedAt |-> 0, unfinishedAt |-> 0]]
    /\ UNCHANGED <<phase, zero, buffer, seen, gameVars, history>>

(* AddFriendlyBlockerReliefIntentsForFootprint: a unit in the way is moved  *)
(* unless it has an intent; what is yet to be drained is not looked at.     *)
Relieve(a) ==
    /\ phase = "plan"
    /\ a \in alive
    /\ ~HasIntentForActor(buffer, a)
    /\ buffer' = Append(buffer, [actor |-> a, domain |-> "Recovery", what |-> "move",
                                 priority |-> CHOOSE r \in Priorities : \A s \in Priorities : s <= r])
    /\ UNCHANGED <<phase, zero, orders, seen, gameVars, history>>

(* AppendCommandOrderToIntentBuffer                                         *)
IntentFor(o) ==
    [actor |-> o.actor, what |-> o.kind, priority |-> o.priority,
     domain |-> IF o.kind \in Constructed THEN "StructureBuild" ELSE "UnitProduction"]

(* DrainReadyIntents: a best-first queue of ready orders, up to the budget. *)
DrainReadyIntents(queue) ==
    LET ready == {p \in Places : orders[p].state = "Ready"}
        drained == {queue[n] : n \in 1..(IF Len(queue) < DrainBudget THEN Len(queue) ELSE DrainBudget)}
    IN  /\ phase = "plan"
        /\ phase' = "resolve"
        /\ {queue[n] : n \in DOMAIN queue} = ready /\ Len(queue) = Cardinality(ready)
        /\ \A m, n \in DOMAIN queue : m < n => orders[queue[m]].priority >= orders[queue[n]].priority
        /\ buffer' = buffer \o [n \in 1..Cardinality(drained) |-> IntentFor(orders[queue[n]])]
        /\ orders' = [p \in Places |->
                        IF p \in drained THEN [orders[p] EXCEPT !.state = "Dispatched"] ELSE orders[p]]
        /\ UNCHANGED <<zero, seen, gameVars, history>>

(* FIntentArbiter::Resolve and ExecuteResolvedIntents: the game hears of    *)
(* the winners whose actor lives and that it does not refuse; a new command *)
(* replaces what the unit was doing.  Nobody reads the buffer any more      *)
(* before the next frame resets it: it is emptied here.                     *)
ResolveAndExecute(refused) ==
    LET sound == {<<i.actor, i.what>> : i \in {buffer[n] : n \in DOMAIN buffer \ refused}}
        commands == Resolve(buffer, {s \in sound : s[1] \in alive})
        told == {commands[n].actor : n \in DOMAIN commands}
        command(a) == CHOOSE i \in {commands[n] : n \in DOMAIN commands} : i.actor = a
    IN  /\ phase = "resolve"
        /\ phase' = "capture"
        /\ doing' = [a \in Actors |->
                        IF a \notin told THEN doing[a]
                        ELSE IF command(a).what \in Kinds THEN command(a).what ELSE Nothing]
        /\ \A changed \in {{a \in Actors : doing'[a] # doing[a]}} :
              /\ Reported({doing'[a] : a \in changed} \ Constructed)
              /\ Undone({doing[a] : a \in changed} \ Constructed)
        /\ buffer' = <<>>
        /\ UNCHANGED <<zero, orders, seen, alive, made>>

(* A mutant of Fresh: every frame captures what is dispatched.              *)
StillDispatched(o) == o.state = "Dispatched"

Fresh(o) == o.state = "Dispatched" /\ o.attempts = 0

(* CaptureNewlyDispatchedSchedulerOrders; the next frame has a later loop.  *)
Capture ==
    /\ phase = "capture"
    /\ phase' = "game"
    /\ zero' = FALSE
    /\ orders' = [p \in Places |->
                    IF Fresh(orders[p])
                    THEN [orders[p] EXCEPT !.attempts = 1, !.timed = ~zero, !.age = 0,
                              !.finishedAt = seen[orders[p].kind].finished,
                              !.unfinishedAt = seen[orders[p].kind].unfinished]
                    ELSE orders[p]]
    /\ UNCHANGED <<buffer, seen, gameVars, history>>

Queues == UNION {[1..n -> Places] : n \in 0..Cardinality(Places)}

(* The steps the coordinator makes the bot take, as long as the game lasts. *)
FrameStep ==
    \/ UpdateDispatchedSchedulerOrders
    \/ \E compacts \in BOOLEAN : Rebuild(compacts)
    \/ \E reached \in SUBSET Places : SynchronizeTargets(reached)
    \/ \E queue \in Queues : DrainReadyIntents(queue)
    \/ \E refused \in SUBSET DOMAIN buffer : ResolveAndExecute(refused)
    \/ Capture

Next ==
    \/ \E a \in Actors : Begins(a) \/ Trains(a) \/ Stops(a) \/ Dies(a) \/ Arrives(a)
    \/ \E k \in Kinds : Finishes(k) \/ \E part \in {"finished", "unfinished"} : Falls(k, part)
    \/ \E p \in Places, a \in Actors, k \in Kinds, r \in Priorities : EnqueueReady(p, a, k, r)
    \/ \E a \in Actors : Relieve(a)
    \/ FrameStep

Spec == Init /\ [][Next]_dispatchVars /\ WF_dispatchVars(FrameStep)
-----------------------------------------------------------------------------
TypeOK ==
    /\ phase \in {"game", "maintained", "rebuilt", "plan", "resolve", "capture"}
    /\ zero \in BOOLEAN
    /\ orders \in [Places -> Order \cup Ended \cup {Vacant}]
    /\ \A p \in Places : Fresh(orders[p]) => phase \in {"resolve", "capture"}
    /\ buffer \in Seq(Intent)
    /\ seen \in Counts /\ made \in Counts
    /\ alive \subseteq Actors
    /\ doing \in [Actors -> Kinds \cup {Nothing}]
    /\ news \in [Places -> {"none", "begun", "shown"}]
    /\ undone \subseteq Places

(* No timed order outlives its time by more than the frame in which it is   *)
(* noticed: with the actor dead, the command refused or the intent lost to  *)
(* another one, the work above it is free again after the timeout.  The     *)
(* orders captured at game loop 0 are the exception, they end only by a     *)
(* grown count, their producer or a reached target; that there are no       *)
(* others is said by ImplementsLifecycle.                                   *)
GivenUpInTime ==
    \A p \in Places : Captured(p) /\ orders[p].timed => orders[p].age < Timeout(orders[p]) + StepSize

(* One frame decides for an order what the game did for it.  It is taken    *)
(* for done only if something of its kind has come since it was captured,   *)
(* or its producer is at it; and when that is in the descriptor, it is not  *)
(* given up, although its actor may be dead or its time over - unless       *)
(* something of the kind was lost meanwhile and the counts hide it.         *)
AnswersHeard ==
    [][ phase = "game" /\ phase' = "maintained" =>
          \A p \in Places : orders[p].state = "Dispatched" =>
            /\ orders'[p].state = "Completed" => news[p] = "shown" \/ HasProducerConfirmed(orders[p])
            /\ orders'[p].state = "Aborted" => news[p] # "shown" \/ p \in undone ]_dispatchVars

(* What is promised of every order, with its end: of those captured at game *)
(* loop 0 only that they go no other way.                                   *)
Stage(o) == IF o.state = "Dispatched" /\ o.attempts > 0 /\ ~o.timed THEN "Untimed" ELSE o.state
Lifecycle == INSTANCE OrderLifecycle WITH life <- [p \in Places |-> Stage(orders[p])]
ImplementsLifecycle == Lifecycle!Spec
=============================================================================
