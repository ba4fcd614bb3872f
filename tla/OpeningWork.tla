----------------------------- MODULE OpeningWork -----------------------------
(***************************************************************************)
(* The wall structures of the opening, from their plan steps to the         *)
(* builders sent for them, frame after frame: what TerranAgent::OnStep does *)
(* to the order table on their account.  A goal may ask for the same kind   *)
(* of structure beside them.                                                *)
(*                                                                         *)
(* A frame runs the phases of OnStep in their order; every phase is one     *)
(* mutation batch and walks a copy of the queue it found at its start       *)
(* ("todo").  What the code asks the game (is this placement free, is there *)
(* money, is the structure up, has the producer taken the command) is a     *)
(* choice.                                                                  *)
(***************************************************************************)
EXTENDS SchedulingState

CONSTANTS
    RampSlot,       \* the preferred slot of each opening step, [TaskIds -> Slots]
    WallDepots,     \* the steps that are depots of the ramp wall
    NaturalSlots,   \* the slots of the natural entrance that may replace them
    Anywhere,       \* the detail of work that prefers no slot
    Hindrances,     \* what may be missing when an order could otherwise go ahead
    Capacity,       \* slots of a blocked-task buffer
    FallbackAfter,  \* occupied reports until the wall moves (3 in the code)
    BusyLimit,      \* busy reports until an order is parked (3 in the code)
    CoverageGuard,  \* whether the game may outlast MaxOpeningPlanCoverageGuardGameLoops
    DrainBudget     \* MaxUnitIntentsPerStep

Ring == INSTANCE BlockedTasks WITH Signatures <- {ClassOf(k) : k \in Key}

DeferralReasons ==
    {"AwaitingObservedCompletion", "TargetAlreadySatisfied", "NoProducer", "ProducerBusy",
     "InsufficientResources", "NoValidPlacement", "ReservedSlotOccupied", "ReservedSlotInvalidated"}

ASSUME StepAssumption ==
    /\ RampSlot \in [TaskIds -> Slots] /\ WallDepots \subseteq TaskIds
    /\ NaturalSlots \in Seq(Slots)
ASSUME RankAssumption == Ranks \subseteq Nat /\ Ranks # {}
ASSUME DetailAssumption == Details = Slots \cup {Anywhere} /\ Anywhere \notin Slots
ASSUME WorkBoundAssumption ==
    /\ Capacity \in Nat /\ FallbackAfter \in Nat \ {0} /\ BusyLimit \in Nat /\ DrainBudget \in Nat
    /\ CoverageGuard \in BOOLEAN /\ DeferralReasons \subseteq Reasons
    /\ Hindrances \subseteq DeferralReasons \ {"AwaitingObservedCompletion", "TargetAlreadySatisfied"}

VARIABLES
    phase,      \* where OnStep is
    todo,       \* what the loop of the phase has still to visit
    completed,  \* CompletedStepIds
    wall,       \* WallChainState
    remapped,   \* opening step -> slot it was moved to
    failures,   \* placement failure count of each step
    blocked,    \* BlockedStrategicTasks and BlockedPlanningTasks
    sent,       \* the slots a builder has ever been sent to
    observed,   \* the targets the game shows satisfied in this frame
    late        \* the clock has passed the coverage guard

planVars == <<completed, wall, remapped, failures>>
worldVars == <<sent, observed, late>>
workVars == <<vars, phase, todo, planVars, blocked, worldVars>>

InitWork ==
    /\ Init
    /\ phase = "frame"
    /\ todo = {}
    /\ completed = {}
    /\ wall = "RampActive"
    /\ remapped = [t \in {} |-> NoSlot]
    /\ failures = [t \in TaskIds |-> 0]
    /\ blocked = [b \in {"Strategic", "Planning"} |-> <<>>]
    /\ sent = {}
    /\ observed = {}
    /\ late = FALSE
-----------------------------------------------------------------------------
(* A run of mutators inside a batch leaves the table as it leaves it and    *)
(* the derived side stale as soon as anything it shows has changed.         *)
Apply(table) ==
    /\ orders' = table
    /\ derivedDirty' = (derivedDirty \/ View(table) # View(orders))
    /\ prioritiesDirty' = TRUE
    /\ UNCHANGED <<nextOrderId, idToIndex, batchDepth, derived>>

(* EndMutationBatch of one phase and BeginMutationBatch of the next.        *)
NextBatch ==
    /\ derivedDirty' = FALSE
    /\ derived' = View(orders)
    /\ UNCHANGED <<orders, nextOrderId, idToIndex, batchDepth, prioritiesDirty>>

(* DoesOrderTargetMatchObservedState: at the slot the order reserved or     *)
(* prefers when there is one, else by count.                                *)
Satisfied(o) == (IF o.slot # NoSlot THEN o.slot ELSE o.detail) \in observed

(* ResolveEffectiveOpeningTaskDescriptor                                    *)
EffectiveSlot(t) == IF t \in DOMAIN remapped THEN remapped[t] ELSE RampSlot[t]

(* Orders as their creators leave them.                                     *)
NewOrder(layer, state, k, actor, slot) ==
    [layer |-> layer, state |-> state, task |-> k.task, goal |-> k.goal, detail |-> k.detail,
     actor |-> actor, rank |-> CHOOSE r \in Ranks : TRUE, slot |-> slot]
StepKey(t) == [task |-> t, goal |-> 0, detail |-> EffectiveSlot(t)]
GoalKey(g) == [task |-> 0, goal |-> g, detail |-> Anywhere]

(* The retention policies the order may carry: an opening step is must-run, *)
(* a goal is so in critical recovery (few workers, no base) or by its kind. *)
(* An economy order is not given the policy of its strategic parent.        *)
RetentionPolicies(o) ==
    LET strategic == o.layer = "StrategicDirector"
    IN  {policy \in {"HotMustRun", "BufferedRetry"} :
           IF policy = "HotMustRun" THEN strategic ELSE ~strategic \/ o.task = 0}

HasActiveUnitExecutionChild(id) == ScannedChild(id, "UnitExecution") # {}
HasEquivalentBlockedTask(k) == \E b \in DOMAIN blocked : Ring!Holds(blocked[b], ClassOf(k))

(* SetOrderDeferralState; the count is cut off where nobody looks further.  *)
Postponed(o, reason) ==
    LET d == Deferred(o, reason)
    IN  [d EXCEPT !.deferrals = IF @ > MaxDeferrals THEN MaxDeferrals ELSE @]
Retired(o) == Undeferred(Moved(o, "Expired"))
-----------------------------------------------------------------------------
(* What an economy handler may change at once: table and opening plan.      *)
World == [table |-> orders, plan |-> planOrder, wall |-> wall,
          remapped |-> remapped, failures |-> failures]

Commit(w) ==
    /\ Apply(w.table)
    /\ planOrder' = w.plan /\ wall' = w.wall /\ remapped' = w.remapped /\ failures' = w.failures
    /\ UNCHANGED completed

PostponedIn(w, i, reason) == [w EXCEPT !.table[i] = Postponed(@, reason)]
FailuresReset(w, t) == IF t = 0 THEN w ELSE [w EXCEPT !.failures[t] = 0]

(* ActivateNaturalEntranceDepotFallback, with ExpireOpeningStepOrders: the  *)
(* unfinished depots of the ramp wall move to the natural entrance, and the *)
(* recorded order of each, with the live orders directly below, expires.    *)
Fallback(w) ==
    LET pending == WallDepots \ completed
        place(t) == 1 + Cardinality({u \in pending : u < t})
        moving == {t \in pending : place(t) <= Len(NaturalSlots)}
        expiring == {w.plan[t] : t \in moving \cap DOMAIN w.plan}
        expired(o) == IF o.id \in expiring \/ (o.parent \in expiring /\ Live(o))
                      THEN Moved(o, "Expired") ELSE o
    IN  IF w.wall # "RampActive" THEN w
        ELSE [table |-> [i \in DOMAIN w.table |-> expired(w.table[i])],
              plan |-> [t \in DOMAIN w.plan \ moving |-> w.plan[t]],
              wall |-> "NaturalFallbackActive",
              remapped |-> [t \in moving |-> NaturalSlots[place(t)]],
              failures |-> [t \in TaskIds |-> IF t \in moving THEN 0 ELSE w.failures[t]]]

(* ApplyOpeningWallFallbackForPlacementDeferral                             *)
IsMandatoryRampWallDepotOrder(o) == o.task \in WallDepots /\ o.detail = RampSlot[o.task]

AfterPlacementDeferral(w, o, reason) ==
    IF ~IsMandatoryRampWallDepotOrder(o) \/ w.wall # "RampActive" THEN w
    ELSE CASE reason = "ReservedSlotInvalidated" -> Fallback(w)
           [] reason = "ReservedSlotOccupied" ->
                LET counted == [w EXCEPT !.failures[o.task] = @ + 1]
                IN  IF counted.failures[o.task] >= FallbackAfter THEN Fallback(counted) ELSE counted
           [] OTHER -> FailuresReset(w, o.task)

(* Mutants: only the orders of builders claim a slot; a builder whose order *)
(* is still waiting to be drained counts as free.                           *)
ClaimedByBuilder(table, slot, id) ==
    \E j \in DOMAIN table :
        table[j].id # id /\ Live(table[j]) /\ table[j].slot = slot /\ table[j].layer = "UnitExecution"
Underway(table, actor) == \E j \in DOMAIN table : table[j].state = "Dispatched" /\ table[j].actor = actor

(* IsPlacementSlotClaimedByOtherOrder and HasActiveSchedulerOrderForActor   *)
ClaimedByOther(table, slot, id) ==
    \E j \in DOMAIN table : table[j].id # id /\ Live(table[j]) /\ table[j].slot = slot
Busy(table, actor) == \E j \in DOMAIN table : Live(table[j]) /\ table[j].actor = actor

(* TrySelectStructurePlacementSlot                                          *)
SlotCandidates(o) ==
    IF o.slot # NoSlot THEN {o.slot}
    ELSE IF o.detail \in Slots THEN {o.detail}
    ELSE Slots
-----------------------------------------------------------------------------
(* A new frame: the game has moved on.  A structure can stand only where a  *)
(* builder was sent; it may also have been destroyed since.                 *)
NewFrame ==
    /\ phase = "frame"
    /\ phase' = "confirm"
    /\ observed' \in SUBSET (sent \cup (IF sent # {} THEN {Anywhere} ELSE {}))
    /\ late' \in IF CoverageGuard THEN {late, TRUE} ELSE {FALSE}
    /\ todo' = DispatchedOrderIndices(derived)
    /\ BeginMutationBatch
    /\ UNCHANGED <<planOrder, planVars, blocked, sent>>

(* UpdateDispatchedSchedulerOrders, one order: confirmed by a count that    *)
(* rose or by its producer, given up when the actor is gone or the          *)
(* confirmation is overdue, or left alone.                                  *)
ConfirmDispatched(i, s) ==
    /\ phase = "confirm" /\ i \in todo
    /\ s = "Aborted" => orders[i].attempts > 0
    /\ todo' = todo \ {i}
    /\ IF orders[i].layer = "UnitExecution" /\ orders[i].state = "Dispatched" /\ s # "Dispatched"
       THEN Apply([orders EXCEPT ![i] = Moved(@, s)])
       ELSE UNCHANGED vars
    /\ UNCHANGED <<planOrder, phase, planVars, blocked, worldVars>>

(* A mutant of Compact: rows move while the loop still holds their indices. *)
CompactEarly ==
    /\ phase = "confirm"
    /\ CompactTerminalOrders
    /\ phase' = "compacted"
    /\ UNCHANGED <<planOrder, todo, planVars, blocked, worldVars>>

(* ... and the compaction at the end of the batch, when it is due.          *)
Compact ==
    /\ phase = "confirm" /\ todo = {}
    /\ CompactTerminalOrders
    /\ phase' = "compacted"
    /\ UNCHANGED <<planOrder, todo, planVars, blocked, worldVars>>

EndConfirm ==
    /\ phase \in {"confirm", "compacted"} /\ todo = {}
    /\ phase' = "reactivate"
    /\ NextBatch
    /\ UNCHANGED <<planOrder, todo, planVars, blocked, worldVars>>

(* ReactivateBlockedTasks, one woken record: its work is active after all,  *)
(* or it is refused (never a must-run one) and pushed back, or it becomes   *)
(* an order again.                                                          *)
Reactivate(b, i) ==
    LET r == blocked[b][i]
        rest == SubSeq(blocked[b], 1, i - 1) \o SubSeq(blocked[b], i + 1, Len(blocked[b]))
    IN  /\ phase = "reactivate"
        /\ \/ /\ TRUE \in EquivalentActiveTaskAnswers(r.key)
              /\ blocked' = [blocked EXCEPT ![b] = rest]
              /\ prioritiesDirty' = TRUE
              /\ UNCHANGED <<orders, nextOrderId, idToIndex, batchDepth, derivedDirty, derived, planOrder>>
           \/ /\ FALSE \in EquivalentActiveTaskAnswers(r.key)
              /\ r.policy # "HotMustRun"
              /\ blocked' = [blocked EXCEPT ![b] = Append(rest, r)]
              /\ prioritiesDirty' = TRUE
              /\ UNCHANGED <<orders, nextOrderId, idToIndex, batchDepth, derivedDirty, derived, planOrder>>
           \/ /\ FALSE \in EquivalentActiveTaskAnswers(r.key)
              /\ blocked' = [blocked EXCEPT ![b] = rest]
              /\ EnqueueOrder(NewOrder(r.layer, "Queued", r.key, NoActor, NoSlot), 0)
              /\ planOrder' = IF r.key.task # 0 THEN Recorded(r.key.task, nextOrderId) ELSE planOrder
        /\ UNCHANGED <<phase, todo, planVars, worldVars>>

(* A mutant of Reopening: whether the step was complete is not asked.       *)
ReopeningAny ==
    {t \in DOMAIN planOrder : HasOrder(planOrder[t]) /\ At(planOrder[t]).detail \notin observed}

(* UpdateCompletedOpeningSteps: its three loops over what the game shows.   *)
Reopening ==
    {t \in completed \cap DOMAIN planOrder :
        HasOrder(planOrder[t]) /\ At(planOrder[t]).detail \notin observed}
Completing ==
    {t \in TaskIds \ (completed \ Reopening) : EffectiveSlot(t) \in observed}

UpdateCompletedOpeningSteps ==
    LET idsOf(S) == {planOrder[t] : t \in S \cap DOMAIN planOrder}
        reopened(o) == IF o.id \in idsOf(Reopening) THEN Undeferred(Moved(o, "Queued")) ELSE o
        stepDone(o) ==
            IF o.id \in idsOf(Completing)
               \/ (o.parent \in idsOf(Completing) /\ o.layer = "EconomyAndProduction" /\ Live(o))
            THEN Moved(o, "Completed") ELSE o
        targetDone(o) == IF Live(o) /\ Satisfied(o) THEN Moved(o, "Completed") ELSE o
    IN  /\ Apply([i \in DOMAIN orders |-> targetDone(stepDone(reopened(orders[i])))])
        /\ completed' = (completed \ Reopening) \cup Completing
        /\ wall' = IF WallDepots \subseteq completed' THEN "Completed" ELSE wall
        /\ UNCHANGED <<planOrder, remapped, failures>>

CompleteBeforeSeeding ==
    /\ phase = "reactivate"
    /\ phase' = "opening"
    /\ UpdateCompletedOpeningSteps
    /\ UNCHANGED <<todo, blocked, worldVars>>

(* What TryAdmitOpeningTask and TryAdmitGoalDrivenOrder ask: no active      *)
(* order and no parked record does the same work.                           *)
MayAdmit(k) == FALSE \in EquivalentActiveTaskAnswers(k) /\ ~HasEquivalentBlockedTask(k)

(* SeedReadyStrategicOrders with TryAdmitOpeningTask, one step: a wall      *)
(* structure waits for the unfinished ones before it in the plan.           *)
SeedOpeningStep(t) ==
    /\ phase = "opening"
    /\ ~HasSeededStep(t) /\ t \notin completed
    /\ \A u \in TaskIds : u < t => u \in completed
    /\ MayAdmit(StepKey(t))
    /\ planOrder' = Recorded(t, nextOrderId)
    /\ EnqueueOrder(NewOrder("StrategicDirector", "Queued", StepKey(t), NoActor, NoSlot), 0)
    /\ UNCHANGED <<phase, todo, planVars, blocked, worldVars>>

(* SeedGoalDrivenStrategicOrders: past the coverage guard the live          *)
(* strategic orders of an unfinished opening expire; then the goals.        *)
GuardCoverage ==
    LET guarded(o) == IF o.layer = "StrategicDirector" /\ o.task # 0 /\ Live(o)
                      THEN Moved(o, "Expired") ELSE o
    IN  /\ phase = "opening"
        /\ phase' = "goals"
        /\ IF late /\ completed # TaskIds
           THEN Apply([i \in DOMAIN orders |-> guarded(orders[i])])
           ELSE UNCHANGED vars
        /\ UNCHANGED <<planOrder, todo, planVars, blocked, worldVars>>

SeedGoal(g) ==
    /\ phase = "goals"
    /\ ~HasActiveStrategicOrderForGoalId(g)
    /\ MayAdmit(GoalKey(g))
    /\ EnqueueOrder(NewOrder("StrategicDirector", "Queued", GoalKey(g), NoActor, NoSlot), 0)
    /\ UNCHANGED <<planOrder, phase, todo, planVars, blocked, worldVars>>

EndSeeding ==
    /\ phase = "goals"
    /\ phase' = "children"
    /\ NextBatch
    /\ todo' = StrategicOrderIndices(View(orders))
    /\ UNCHANGED <<planOrder, planVars, blocked, worldVars>>

(* A mutant of LacksChild: a child that is still live is not looked for.    *)
Unsatisfied(o) == ~Terminal(o) /\ ~Satisfied(o)

LacksChild(o) ==
    /\ ~Terminal(o) /\ ~Satisfied(o)
    /\ TryGetActiveChildOrderIndex(o.id, "EconomyAndProduction") = {}

(* EnsureStrategicChildOrders, one strategic order.                         *)
EnsureStrategicChild(i) ==
    LET o == orders[i]
    IN  /\ phase = "children" /\ i \in todo
        /\ todo' = todo \ {i}
        /\ IF LacksChild(o)
           THEN EnqueueOrder(NewOrder("EconomyAndProduction", "Queued", KeyOf(o), NoActor, NoSlot), o.id)
           ELSE UNCHANGED vars
        /\ UNCHANGED <<planOrder, phase, planVars, blocked, worldVars>>

CompleteAfterSeeding ==
    /\ phase = "children" /\ todo = {}
    /\ phase' = "expanded"
    /\ UpdateCompletedOpeningSteps
    /\ UNCHANGED <<todo, blocked, worldVars>>

BeginEconomy ==
    /\ phase = "expanded"
    /\ phase' = "economy"
    /\ NextBatch
    /\ todo' = PlanningProcessIndices(View(orders))
    /\ UNCHANGED <<planOrder, planVars, blocked, worldVars>>
-----------------------------------------------------------------------------
(* ExpandEconomyAndProductionOrders, one iteration over a structure order.  *)
(* o is the copy the iteration takes at its start and works on throughout.  *)

Hold(i, w, reason) == Commit(PostponedIn(w, i, reason)) /\ UNCHANGED sent

(* A builder and a slot are found: the order claims the slot and an order   *)
(* for the builder goes below it.                                           *)
Dispatch(i, o, w) ==
    \E actor \in Actors, slot \in SlotCandidates(o) :
        /\ HasRoom
        /\ ~Busy(w.table, actor)
        /\ ~ClaimedByOther(w.table, slot, o.id)
        /\ slot \notin observed
        /\ LET claimed == [FailuresReset(w, o.task) EXCEPT !.table[i].slot = slot]
               held == PostponedIn(claimed, i, "AwaitingObservedCompletion")
           IN  /\ EnqueueAfter(held.table,
                               NewOrder("UnitExecution", "Ready", KeyOf(o), actor, slot), o.id)
               /\ planOrder' = held.plan /\ wall' = held.wall
               /\ remapped' = held.remapped /\ failures' = held.failures
        /\ sent' = sent \cup {slot}
        /\ UNCHANGED completed

(* The projected count already covers the target, or something is missing,  *)
(* or the builder goes.                                                     *)
Attempt(i, o, w) ==
    \/ Hold(i, w, "AwaitingObservedCompletion")
    \/ \E reason \in Hindrances : Hold(i, AfterPlacementDeferral(w, o, reason), reason)
    \/ Dispatch(i, o, w)

Expand(i) ==
    LET o == orders[i]
        awaiting == o.reason = "AwaitingObservedCompletion" /\ o.slot # NoSlot
        cleared == [World EXCEPT !.table[i].slot = NoSlot]
        moved == PostponedIn(AfterPlacementDeferral(cleared, o, "ReservedSlotInvalidated"),
                             i, "ReservedSlotInvalidated")
    IN  /\ phase = "economy" /\ i \in todo
        /\ todo' = todo \ {i}
        /\ \/ /\ o.layer # "EconomyAndProduction" \/ o.state # "Queued"
              /\ UNCHANGED <<vars, planVars, sent>>
           \/ /\ o.layer = "EconomyAndProduction" /\ o.state = "Queued"
              /\ \/ /\ Satisfied(o)
                    /\ LET w == PostponedIn(FailuresReset(World, o.task), i, "TargetAlreadySatisfied")
                       IN  Commit([w EXCEPT !.table[i] = Moved(@, "Completed")])
                    /\ UNCHANGED sent
                 \/ /\ ~Satisfied(o) /\ HasActiveUnitExecutionChild(o.id)
                    /\ Hold(i, World, "AwaitingObservedCompletion")
                 \/ /\ ~Satisfied(o) /\ ~HasActiveUnitExecutionChild(o.id) /\ awaiting
                    /\ \/ Hold(i, World, "AwaitingObservedCompletion")
                       \/ Hold(i, AfterPlacementDeferral(World, o, "ReservedSlotOccupied"),
                               "ReservedSlotOccupied")
                       \/ Attempt(i, o, moved)
                 \/ /\ ~Satisfied(o) /\ ~HasActiveUnitExecutionChild(o.id) /\ ~awaiting
                    /\ Attempt(i, o, World)
        /\ UNCHANGED <<phase, blocked, observed, late>>

(* ShouldParkDeferredOrder, with the conditions of the loop that asks it.   *)
(* The exemption of IsGoalDrivenContinuousProductionOrder is for units,     *)
(* add-ons and production structures: the structures here are none of them. *)
ShouldParkDeferredOrder(o) ==
    /\ Live(o)
    /\ o.layer \in {"EconomyAndProduction", "StrategicDirector"}
    /\ \/ o.reason \in {"NoProducer", "InsufficientResources", "NoValidPlacement",
                        "ReservedSlotOccupied", "ReservedSlotInvalidated"}
       \/ o.reason = "ProducerBusy" /\ o.deferrals >= BusyLimit

EndEconomy ==
    /\ phase = "economy" /\ todo = {}
    /\ phase' = "park"
    /\ todo' = {i \in DOMAIN orders : ShouldParkDeferredOrder(orders[i])}
    /\ UNCHANGED <<vars, planVars, blocked, worldVars>>

(* A mutant of RootOf: the record stands for the economy order itself.      *)
SelfRoot(i) == i

(* The order a record stands for: the live strategic parent of the order    *)
(* that is parked, if there is one.                                         *)
RootOf(i) ==
    LET o == orders[i]
    IN  IF /\ o.layer = "EconomyAndProduction" /\ o.parent # 0 /\ HasOrder(o.parent)
           /\ Live(At(o.parent)) /\ At(o.parent).layer = "StrategicDirector"
        THEN idToIndex[o.parent] ELSE i

Retiring(i) == {i, RootOf(i)}

BlockedRecordFor(o, policy) ==
    [sig |-> ClassOf(KeyOf(o)), policy |-> policy, layer |-> o.layer, key |-> KeyOf(o)]

(* A mutant of Rejected: the flag of the push is not looked at.             *)
Unheeded(flag) == FALSE

Rejected(flag) == flag = "rejectedMustRun"

(* ParkDeferredOrders, one order, in table order: unless the buffer rejects *)
(* a must-run record, the order and its root retire and the step may be     *)
(* seeded again.                                                            *)
ParkDeferred(i, policy) ==
    LET root == RootOf(i)
        b == IF orders[root].layer = "StrategicDirector" THEN "Strategic" ELSE "Planning"
        pushed == Ring!TryPushOrCoalesce(blocked[b], BlockedRecordFor(orders[root], policy), Capacity)
    IN  /\ phase = "park" /\ i \in todo /\ \A j \in todo : i <= j
        /\ todo' = todo \ {i}
        /\ IF Terminal(orders[i]) \/ Rejected(pushed.flag)
           THEN UNCHANGED <<vars, blocked>>
           ELSE /\ blocked' = [blocked EXCEPT ![b] = pushed.buffer]
                /\ planOrder' = Unseeded(orders[root].task)
                /\ Apply([j \in DOMAIN orders |->
                            IF j \in Retiring(i) THEN Retired(orders[j]) ELSE orders[j]])
        /\ UNCHANGED <<phase, planVars, worldVars>>

EndPark ==
    /\ phase = "park" /\ todo = {}
    /\ phase' = "rank"
    /\ EndMutationBatch
    /\ UNCHANGED <<planOrder, todo, planVars, blocked, worldVars>>

Rank ==
    /\ phase = "rank"
    /\ phase' = "drain"
    /\ IF prioritiesDirty THEN UpdateTaskPriorities ELSE UNCHANGED vars
    /\ UNCHANGED <<planOrder, todo, planVars, blocked, worldVars>>

(* A mutant of WithinBudget: one intent more than the budget.               *)
OverBudget(i, queue) == Cardinality({j \in queue : Before(derived, j, i)}) <= DrainBudget

WithinBudget(i, queue) == Cardinality({j \in queue : Before(derived, j, i)}) < DrainBudget

(* DrainReadyIntents: from the front of the ready queue, as many as the     *)
(* budget allows; a ready order without an actor is given up if the loop    *)
(* meets it before the budget is spent.                                     *)
DrainReadyIntents ==
    LET ready == ReadyIntentIndices(derived)
        manned == {i \in ready : orders[i].actor # NoActor}
        lost == {i \in ready \ manned : WithinBudget(i, manned)}
        out == {i \in manned : WithinBudget(i, manned)}
        after == [i \in DOMAIN orders |->
                    IF i \in lost THEN Moved(orders[i], "Aborted")
                    ELSE IF i \in out THEN Moved(orders[i], "Dispatched") ELSE orders[i]]
    IN  /\ phase = "drain"
        /\ phase' = "capture"
        /\ IF lost \cup out = {} THEN UNCHANGED vars
           ELSE /\ orders' = after
                /\ MarkDerivedQueuesDirty(after)
                /\ UNCHANGED <<nextOrderId, idToIndex, batchDepth>>
        /\ UNCHANGED <<planOrder, todo, planVars, blocked, worldVars>>

(* CaptureNewlyDispatchedSchedulerOrders                                    *)
CaptureNewlyDispatched ==
    LET fresh(o) == o.layer = "UnitExecution" /\ o.state = "Dispatched" /\ o.attempts = 0
    IN  /\ phase = "capture"
        /\ phase' = "frame"
        /\ orders' = [i \in DOMAIN orders |->
                        IF fresh(orders[i]) THEN [Undeferred(orders[i]) EXCEPT !.attempts = 1]
                        ELSE orders[i]]
        /\ UNCHANGED <<nextOrderId, idToIndex, batchDepth, derivedDirty, prioritiesDirty, derived,
                       planOrder, todo, planVars, blocked, worldVars>>

(* Where the bounds on the table stop an instance.                          *)
TableFull == ~HasRoom /\ UNCHANGED workVars

NextWork ==
    \/ NewFrame
    \/ \E i \in todo, s \in {"Completed", "Aborted", "Dispatched"} : ConfirmDispatched(i, s)
    \/ Compact
    \/ EndConfirm
    \/ \E b \in DOMAIN blocked : \E i \in DOMAIN blocked[b] : Reactivate(b, i)
    \/ CompleteBeforeSeeding
    \/ \E t \in TaskIds : SeedOpeningStep(t)
    \/ GuardCoverage
    \/ \E g \in GoalIds : SeedGoal(g)
    \/ EndSeeding
    \/ \E i \in todo : EnsureStrategicChild(i)
    \/ CompleteAfterSeeding
    \/ BeginEconomy
    \/ \E i \in todo : Expand(i)
    \/ EndEconomy
    \/ \E i \in todo : \E policy \in RetentionPolicies(orders[RootOf(i)]) : ParkDeferred(i, policy)
    \/ EndPark
    \/ Rank
    \/ DrainReadyIntents
    \/ CaptureNewlyDispatched
    \/ TableFull

SpecWork == InitWork /\ [][NextWork]_workVars
-----------------------------------------------------------------------------
Phases ==
    {"frame", "confirm", "compacted", "reactivate", "opening", "goals", "children", "expanded",
     "economy", "park", "rank", "drain", "capture"}

WorkTypeOK ==
    /\ TypeOK
    /\ phase \in Phases
    /\ todo \subseteq DOMAIN orders
    /\ completed \subseteq TaskIds
    /\ wall \in {"RampActive", "NaturalFallbackActive", "Completed"}
    /\ DOMAIN remapped \subseteq WallDepots /\ remapped \in [DOMAIN remapped -> Slots]
    /\ failures \in [TaskIds -> Nat]
    /\ \A b \in DOMAIN blocked :
          /\ Len(blocked[b]) <= Capacity
          /\ \A i \in DOMAIN blocked[b] : blocked[b][i].key \in Key
    /\ sent \subseteq Slots
    /\ observed \subseteq sent \cup {Anywhere}
    /\ late \in BOOLEAN

ActiveOrders == LiveAt(orders)

(* One placement slot is claimed for one piece of work: live orders that    *)
(* hold the same slot are an economy order and the builder order it sent    *)
(* ("reserved-slot claim and release behavior").                            *)
SlotExclusive ==
    \A i, j \in ActiveOrders :
        (i # j /\ orders[i].slot # NoSlot /\ orders[i].slot = orders[j].slot)
            => orders[i].parent = orders[j].id \/ orders[j].parent = orders[i].id

(* One builder is given one order: whatever was chosen from counts and      *)
(* queues of the pass before, no actor has two live orders.                 *)
ActorExclusive ==
    \A i, j \in ActiveOrders :
        (i # j /\ orders[i].actor # NoActor) => orders[i].actor # orders[j].actor

(* Work is expanded once: below one order there is at most one live order   *)
(* of a layer, and an opening step has at most one live strategic order,    *)
(* however often it was parked, reactivated, expired and seeded again.      *)
ExpandedOnce ==
    \A i, j \in ActiveOrders :
        (i # j /\ orders[i].layer = orders[j].layer) =>
            /\ orders[i].parent # 0 => orders[i].parent # orders[j].parent
            /\ orders[i].layer = "StrategicDirector" /\ orders[i].task # 0
                  => orders[i].task # orders[j].task

(* Compaction never takes the parent from under live work, and economy work *)
(* of an opening step stands below its live strategic order: parking,       *)
(* completion and the wall fallback end the two together (only the coverage *)
(* guard does not).                                                         *)
ParentsStand ==
    \A i \in ActiveOrders :
        orders[i].parent # 0 =>
            /\ HasOrder(orders[i].parent)
            /\ (orders[i].layer = "EconomyAndProduction" /\ orders[i].task # 0 /\ ~late)
                  => Live(At(orders[i].parent))

(* Work is either in the table or set aside, never both: between two frames *)
(* a parked task has no live strategic or economy order, and a parked step  *)
(* is not seeded.                                                           *)
ParkedOrActive ==
    phase = "frame" =>
        /\ \A i \in ActiveOrders :
              orders[i].layer # "UnitExecution" => ~HasEquivalentBlockedTask(KeyOf(orders[i]))
        /\ \A t \in DOMAIN planOrder : ~HasEquivalentBlockedTask([task |-> t, goal |-> 0, detail |-> Anywhere])

(* The pieces of work that are parked, or that a live order is for.         *)
Work(table, parked) ==
    {ClassOf(KeyOf(table[i])) : i \in LiveAt(table)}
    \cup UNION {{parked[b][n].sig : n \in DOMAIN parked[b]} : b \in DOMAIN parked}

(* Setting work aside and taking it up again loses none: after every record *)
(* reactivated and every order parked, what was the one or the other still  *)
(* is.  A full buffer alone drops work, but nothing that it holds already,  *)
(* and no step of the opening whose strategic order is live.                *)
WorkKept ==
    [][ (phase \in {"reactivate", "park"} /\ phase' = phase) =>
          \A c \in Work(orders, blocked) \ Work(orders', blocked') :
              /\ phase = "park"
              /\ \E b \in DOMAIN blocked : Len(blocked[b]) = Capacity
              /\ \A b \in DOMAIN blocked : ~Ring!Holds(blocked[b], c)
              /\ \A i \in ActiveOrders :
                    orders[i].layer = "StrategicDirector" /\ orders[i].task # 0
                        => ClassOf(KeyOf(orders[i])) # c ]_workVars

(* What is terminal stays terminal, but for the recorded order of a step    *)
(* that was complete and lost its structure: an aborted or expired order    *)
(* never comes back to life and no order is dispatched a second time.       *)
EndedStaysEnded ==
    [][ \A i \in DOMAIN orders, j \in DOMAIN orders' :
          orders[i].id = orders'[j].id =>
            /\ Terminal(orders[i]) /\ Live(orders'[j]) =>
                  /\ orders[i].state = "Completed" /\ orders[i].task \in completed \ completed'
                  /\ planOrder[orders[i].task] = orders[i].id
            /\ orders[i].attempts > 0 /\ orders'[j].state = "Dispatched" => orders[i].state = "Dispatched"
      ]_workVars

(* Each frame sends at most the budget out, best ranked first, and what it  *)
(* leaves behind stays ready: it is neither lost nor overtaken.             *)
BudgetedInOrder ==
    [][ phase = "drain" =>
          LET ready == {i \in DOMAIN orders : orders[i].state = "Ready" /\ orders[i].actor # NoActor}
              gone == {i \in ready : orders'[i].state = "Dispatched"}
          IN  /\ Cardinality(gone) <= DrainBudget
              /\ \A i \in ready \ gone : orders'[i].state = "Ready"
              /\ \A i \in gone, j \in ready \ gone : ~Before(View(orders), j, i)
              /\ ready # {} /\ DrainBudget > 0 => gone # {}
      ]_workVars

(* "Compaction should preserve seeded opening work that is still            *)
(* authoritative": the order recorded for a step that is not complete is in *)
(* the table, since a seeded step is never seeded again.                    *)
SeededStepOwned == \A t \in DOMAIN planOrder \ completed : HasOrder(planOrder[t])

(* "Terminal lifecycle transitions should release reserved placement-slot   *)
(* claims".                                                                 *)
TerminalHoldsNoSlot == \A i \in DOMAIN orders : Terminal(orders[i]) => orders[i].slot = NoSlot

(* "Equivalent hot strategic work should not admit duplicate active orders": *)
(* what is admitted equals, as the code compares tasks, no live order.      *)
NoDuplicateActiveWork ==
    [][ phase = "opening" /\ Len(orders') > Len(orders) =>
          ~ScanAnswer(LiveKeys(orders), KeyOf(orders'[Len(orders')])) ]_workVars
=============================================================================
