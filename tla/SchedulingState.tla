---------------------------- MODULE SchedulingState ----------------------------
(***************************************************************************)
(* FCommandAuthoritySchedulingState: the table of command orders every      *)
(* layer of the bot writes to, the id index over it, and the derived        *)
(* queues and lookup indices rebuilt from it.                               *)
(*                                                                         *)
(* The table is a structure of parallel vectors; here it is one sequence of *)
(* records (HasSynchronizedSizes is what makes that sound).  Everything     *)
(* derived is a function of what RebuildDerivedQueues last saw of the       *)
(* table: "derived" keeps exactly that, and the queues and indices are      *)
(* operators on it.  A mutation either rebuilds at once or, inside a        *)
(* mutation batch, leaves the derived side stale and flagged dirty.         *)
(*                                                                         *)
(* The specification drives the table through its whole interface in any    *)
(* order; OpeningWork restricts it to the calls the bot makes.            *)
(***************************************************************************)
EXTENDS TaskSignature, Sequences, Retention

CONSTANTS
    Actors,         \* unit tags
    Slots,          \* placement slots an order may reserve
    Reasons,        \* deferral reasons
    Ranks,          \* places a (tier, domain, priority, creation step) sorts to
    NoActor,        \* NullTag
    NoSlot,         \* the invalid placement slot id
    NoReason,       \* ECommandOrderDeferralReason::None
    Templates,      \* the orders callers enqueue, but for their id and parent
    Moves,          \* the lifecycle states callers set
    MaxOrders,      \* bound on the orders in the table at once
    MaxOrderId,     \* bound on the ids handed out
    MaxBatchDepth,  \* bound on the nesting of mutation batches
    MaxDeferrals,   \* bound on ConsecutiveDeferralCount
    MaxAttempts     \* bound on DispatchAttemptCount

Layers == {"Agent", "StrategicDirector", "EconomyAndProduction", "Army", "Squad", "UnitExecution"}

TerminalStates == {"Completed", "Aborted", "Expired"}
LiveStates == {"Queued", "Preprocessing", "Ready", "Dispatched"}
States == LiveStates \cup TerminalStates

Template ==
    [layer : Layers, state : LiveStates, task : TaskIds \cup {0}, goal : GoalIds \cup {0},
     detail : Details, actor : Actors \cup {NoActor}, rank : Ranks, slot : Slots \cup {NoSlot}]

ASSUME NullAssumption ==
    /\ NoActor \notin Actors
    /\ NoSlot \notin Slots
    /\ NoReason \notin Reasons
ASSUME TemplateAssumption == Templates \subseteq Template /\ Moves \subseteq States
ASSUME TableBoundAssumption ==
    /\ MaxOrders \in Nat /\ MaxOrderId \in Nat /\ MaxBatchDepth \in Nat
    /\ MaxDeferrals \in Nat /\ MaxAttempts \in Nat

(* The fields of an order that decide anything in this component.           *)
Order ==
    [id : Nat \ {0}, parent : Nat, layer : Layers, state : States,
     task : TaskIds \cup {0}, goal : GoalIds \cup {0}, detail : Details,
     actor : Actors \cup {NoActor}, rank : Ranks,
     slot : Slots \cup {NoSlot},
     reason : Reasons \cup {NoReason}, deferrals : Nat, attempts : Nat]

VARIABLES
    orders,             \* the table
    nextOrderId,        \* NextOrderId
    idToIndex,          \* OrderIdToIndex
    batchDepth,         \* MutationBatchDepth
    derivedDirty,       \* bDerivedQueuesDirty
    prioritiesDirty,    \* bPrioritiesDirty
    derived,            \* the table as the last RebuildDerivedQueues saw it
    planOrder           \* opening step -> recorded order (opening-plan state)

vars == <<orders, nextOrderId, idToIndex, batchDepth, derivedDirty,
          prioritiesDirty, derived, planOrder>>

Live(o) == o.state \in LiveStates
Terminal(o) == o.state \in TerminalStates
KeyOf(o) == [task |-> o.task, goal |-> o.goal, detail |-> o.detail]
Ids(s) == {s[i].id : i \in DOMAIN s}

(* HasSeededStep                                                            *)
HasSeededStep(step) == step \in DOMAIN planOrder

(* What RebuildDerivedQueues and SortDerivedQueues read of an order.        *)
Seen(o) ==
    [id |-> o.id, parent |-> o.parent, layer |-> o.layer, state |-> o.state,
     task |-> o.task, goal |-> o.goal, detail |-> o.detail,
     actor |-> o.actor, rank |-> o.rank]

View(s) == [i \in DOMAIN s |-> Seen(s[i])]

Init ==
    /\ orders = <<>>
    /\ nextOrderId = 1
    /\ idToIndex = [id \in {} |-> 0]
    /\ batchDepth = 0
    /\ derivedDirty = FALSE
    /\ prioritiesDirty = FALSE
    /\ derived = <<>>
    /\ planOrder = [step \in {} |-> 0]
-----------------------------------------------------------------------------
(* The queues and lookup indices, as functions of a view d of the table.    *)

InState(d, s) == {i \in DOMAIN d : d[i].state = s}

(* AppendQueuedOrderIndex; the Preprocessing orders are planning work too.  *)
(* The queues of the army and squad layers belong to a part not modelled.   *)
StrategicOrderIndices(d) ==
    {i \in InState(d, "Queued") : d[i].layer \in {"Agent", "StrategicDirector"}}
PlanningProcessIndices(d) ==
    InState(d, "Preprocessing") \cup
    {i \in InState(d, "Queued") : d[i].layer \in {"EconomyAndProduction", "UnitExecution"}}
ReadyIntentIndices(d) == InState(d, "Ready")
DispatchedOrderIndices(d) == InState(d, "Dispatched")

(* SortDerivedQueues: the ready queue from its best rank on; the id breaks  *)
(* the ties the rank leaves.                                                *)
Before(d, i, j) ==
    \/ d[i].rank < d[j].rank
    \/ d[i].rank = d[j].rank /\ d[i].id < d[j].id

(* The entries the rebuild puts in the lookup indices: only live orders,    *)
(* and the first of a kind wins (emplace only when absent).                 *)
First(S) == {i \in S : \A j \in S : i <= j}
LiveAt(d) == {i \in DOMAIN d : d[i].state \in LiveStates}

IndexedChild(d, parentId, layer) ==
    First({i \in LiveAt(d) : parentId # 0 /\ d[i].parent = parentId /\ d[i].layer = layer})
(* A mutant of IndexedExecution: a later order overwrites the entry.        *)
LastExecution(d, actor) ==
    LET S == {i \in LiveAt(d) : d[i].layer = "UnitExecution" /\ d[i].actor = actor}
    IN  {i \in S : \A j \in S : i >= j}

IndexedExecution(d, actor) ==
    First({i \in LiveAt(d) : actor # NoActor /\ d[i].layer = "UnitExecution" /\ d[i].actor = actor})
IndexedStrategic(d, goal) ==
    First({i \in LiveAt(d) : goal # 0 /\ d[i].layer = "StrategicDirector" /\ d[i].goal = goal})
LiveKeys(d) == {KeyOf(d[i]) : i \in LiveAt(d)}
ActiveCount(d, layer) == Cardinality({i \in LiveAt(d) : d[i].layer = layer})

(* The same questions answered by scanning the table, as the code does      *)
(* while the derived queues are dirty.                                      *)
ScannedChild(parentId, layer) ==
    First({i \in LiveAt(orders) : orders[i].parent = parentId /\ orders[i].layer = layer})
ScannedExecution(actor) ==
    First({i \in LiveAt(orders) : orders[i].layer = "UnitExecution" /\ orders[i].actor = actor})
ScannedStrategic(goal) ==
    First({i \in LiveAt(orders) : goal # 0 /\ orders[i].layer = "StrategicDirector" /\ orders[i].goal = goal})

TryGetActiveChildOrderIndex(parentId, layer) ==
    IF derivedDirty THEN ScannedChild(parentId, layer) ELSE IndexedChild(derived, parentId, layer)
TryGetActiveExecutionOrderIndexForActor(actor) ==
    IF derivedDirty THEN ScannedExecution(actor) ELSE IndexedExecution(derived, actor)
HasActiveStrategicOrderForGoalId(goal) ==
    IF derivedDirty THEN ScannedStrategic(goal) # {} ELSE IndexedStrategic(derived, goal) # {}
GetActiveOrderCountForLayer(layer) ==
    IF derivedDirty THEN ActiveCount(orders, layer) ELSE ActiveCount(derived, layer)

(* HasEquivalentActiveTaskSignature: the answers it may give for a key.     *)
EquivalentActiveTaskAnswers(k) ==
    IF derivedDirty THEN {ScanAnswer(LiveKeys(orders), k)}
                    ELSE IndexAnswers(LiveKeys(derived), k)
-----------------------------------------------------------------------------
(* Mutations.                                                               *)

(* Mutants of MarkDerivedQueuesDirty: never rebuild, and always rebuild.    *)
MarkOnly(s) == prioritiesDirty' = TRUE /\ derivedDirty' = TRUE /\ UNCHANGED derived
RebuildAtOnce(s) == prioritiesDirty' = TRUE /\ derivedDirty' = FALSE /\ derived' = View(s)

(* MarkDerivedQueuesDirty once the table is s: rebuild at once outside a    *)
(* batch, else leave the derived side as it is and remember.                *)
MarkDerivedQueuesDirty(s) ==
    /\ prioritiesDirty' = TRUE
    /\ IF batchDepth = 0
       THEN derivedDirty' = FALSE /\ derived' = View(s)
       ELSE derivedDirty' = TRUE /\ UNCHANGED derived

(* TryGetOrderIndex                                                         *)
HasOrder(id) == id \in DOMAIN idToIndex
At(id) == orders[idToIndex[id]]

HasRoom == Len(orders) < MaxOrders /\ nextOrderId <= MaxOrderId

(* A mutant of Numbered: ids are taken from the size of the table.          *)
NumberedBySize(t, parent) ==
    [id |-> Len(orders) + 1, parent |-> parent, layer |-> t.layer, state |-> t.state,
     task |-> t.task, goal |-> t.goal, detail |-> t.detail, actor |-> t.actor,
     rank |-> t.rank, slot |-> t.slot, reason |-> NoReason, deferrals |-> 0, attempts |-> 0]

(* EnqueueOrder of a record whose id is unset, as every caller leaves it.   *)
Numbered(t, parent) ==
    [id |-> nextOrderId, parent |-> parent, layer |-> t.layer, state |-> t.state,
     task |-> t.task, goal |-> t.goal, detail |-> t.detail, actor |-> t.actor,
     rank |-> t.rank, slot |-> t.slot, reason |-> NoReason, deferrals |-> 0, attempts |-> 0]

(* after is the table as the caller leaves it before the new row.           *)
EnqueueAfter(after, t, parent) ==
    /\ orders' = Append(after, Numbered(t, parent))
    /\ nextOrderId' = nextOrderId + 1
    /\ idToIndex' = [id \in DOMAIN idToIndex \cup {nextOrderId} |->
                        IF id = nextOrderId THEN Len(after) + 1 ELSE idToIndex[id]]
    /\ MarkDerivedQueuesDirty(Append(after, Numbered(t, parent)))
    /\ UNCHANGED batchDepth

EnqueueOrder(t, parent) ==
    /\ HasRoom
    /\ EnqueueAfter(orders, t, parent)

(* Reaching a terminal state also gives the reserved placement slot back.   *)
Moved(o, s) ==
    [o EXCEPT !.state = s, !.slot = IF s \in TerminalStates THEN NoSlot ELSE @]

SetOrderLifecycleState(id, s) ==
    /\ HasOrder(id)
    /\ At(id).state # s
    /\ LET after == [orders EXCEPT ![idToIndex[id]] = Moved(@, s)]
       IN  orders' = after /\ MarkDerivedQueuesDirty(after)
    /\ UNCHANGED <<nextOrderId, idToIndex, batchDepth>>

(* Deferral, dispatch and slot bookkeeping never touches the derived side.  *)
Rewrite(id, o) ==
    /\ orders' = [orders EXCEPT ![idToIndex[id]] = o]
    /\ UNCHANGED <<nextOrderId, idToIndex, batchDepth, derivedDirty, derived>>

Deferred(o, reason) ==
    [o EXCEPT !.reason = reason, !.deferrals = IF o.reason = reason THEN @ + 1 ELSE 1]

SetOrderDeferralState(id, reason) ==
    /\ HasOrder(id)
    /\ At(id).deferrals < MaxDeferrals
    /\ Rewrite(id, Deferred(At(id), reason))
    /\ prioritiesDirty' = TRUE

(* A mutant of Undeferred: the count of the last reason is kept.            *)
ReasonOnlyCleared(o) == [o EXCEPT !.reason = NoReason]

Undeferred(o) == [o EXCEPT !.reason = NoReason, !.deferrals = 0]

ClearOrderDeferralState(id) ==
    /\ HasOrder(id)
    /\ Rewrite(id, Undeferred(At(id)))
    /\ prioritiesDirty' = TRUE

SetOrderDispatchState(id) ==
    /\ HasOrder(id)
    /\ At(id).attempts < MaxAttempts
    /\ Rewrite(id, [Undeferred(At(id)) EXCEPT !.attempts = @ + 1])
    /\ UNCHANGED prioritiesDirty

(* SetOrderReservedPlacementSlot; with NoSlot, ClearOrderReservedPlacementSlot. *)
SetOrderReservedPlacementSlot(id, slot) ==
    /\ HasOrder(id)
    /\ Rewrite(id, [At(id) EXCEPT !.slot = slot])
    /\ UNCHANGED prioritiesDirty

(* A mutant of HasNonTerminalChildOrder: only queued children are seen.     *)
HasQueuedChildOrder(id) ==
    \E i \in DOMAIN orders : orders[i].parent = id /\ orders[i].state = "Queued"

(* ShouldCompactTerminalOrder: which rows of the table go.                  *)
HasNonTerminalChildOrder(id) ==
    \E i \in DOMAIN orders : orders[i].parent = id /\ Live(orders[i])

(* A mutant of ShouldCompactTerminalOrder: seeded opening work goes too.    *)
ShouldCompactAnyTask(o) == Terminal(o) /\ ~HasNonTerminalChildOrder(o.id)

ShouldCompactTerminalOrder(o) ==
    /\ Terminal(o)
    /\ ~HasNonTerminalChildOrder(o.id)
    /\ \/ o.layer = "UnitExecution"
       \/ o.task = 0
       \/ o.state = "Completed"
       \/ ~HasSeededStep(o.task)

Retained == {i \in DOMAIN orders : ~ShouldCompactTerminalOrder(orders[i])}

(* A mutant of IndexOf: the rows that stay keep their old places.           *)
NotReindexed(s) == [id \in Ids(s) |-> idToIndex[id]]

IndexOf(s) == [id \in Ids(s) |-> CHOOSE i \in DOMAIN s : s[i].id = id]

CompactTerminalOrders ==
    /\ Retained # DOMAIN orders
    /\ orders' \in KeptAt(orders, Retained)
    /\ idToIndex' = IndexOf(orders')
    /\ MarkDerivedQueuesDirty(orders')
    /\ UNCHANGED <<nextOrderId, batchDepth>>

BeginMutationBatch ==
    /\ batchDepth < MaxBatchDepth
    /\ batchDepth' = batchDepth + 1
    /\ UNCHANGED <<orders, nextOrderId, idToIndex, derivedDirty, prioritiesDirty, derived>>

(* A mutant of EndMutationBatch: an unmatched end underflows the depth.     *)
UnguardedEnd ==
    /\ batchDepth' = batchDepth - 1
    /\ UNCHANGED <<orders, nextOrderId, idToIndex, derivedDirty, prioritiesDirty, derived>>

EndMutationBatch ==
    /\ batchDepth > 0
    /\ batchDepth' = batchDepth - 1
    /\ IF batchDepth = 1 /\ derivedDirty
       THEN derivedDirty' = FALSE /\ derived' = View(orders)
       ELSE UNCHANGED <<derivedDirty, derived>>
    /\ UNCHANGED <<orders, nextOrderId, idToIndex, prioritiesDirty>>

(* A mutant of UpdateTaskPriorities: the queues are not sorted again.       *)
RankWithoutRebuild ==
    /\ prioritiesDirty
    /\ \E rankOf \in [DOMAIN orders -> Ranks] :
          orders' = [i \in DOMAIN orders |-> [orders[i] EXCEPT !.rank = rankOf[i]]]
    /\ prioritiesDirty' = FALSE
    /\ UNCHANGED <<nextOrderId, idToIndex, batchDepth, derivedDirty, derived>>

(* FTerranCommandTaskPriorityService::UpdateTaskPriorities: every order is  *)
(* ranked again from the descriptors, in a batch of its own.                *)
UpdateTaskPriorities ==
    /\ prioritiesDirty
    /\ \E rankOf \in [DOMAIN orders -> Ranks] :
          LET after == [i \in DOMAIN orders |-> [orders[i] EXCEPT !.rank = rankOf[i]]]
          IN  /\ orders' = after
              /\ IF batchDepth = 0
                 THEN derivedDirty' = FALSE /\ derived' = View(after)
                 ELSE derivedDirty' = TRUE /\ UNCHANGED derived
    /\ prioritiesDirty' = FALSE
    /\ UNCHANGED <<nextOrderId, idToIndex, batchDepth>>

(* RefreshStimulusState saw another fingerprint.                            *)
StimulusChanged ==
    /\ prioritiesDirty' = TRUE
    /\ UNCHANGED <<orders, nextOrderId, idToIndex, batchDepth, derivedDirty, derived>>

(* RecordSeededStep and UnseedStep of the opening-plan state.               *)
Recorded(step, id) ==
    [t \in DOMAIN planOrder \cup {step} |-> IF t = step THEN id ELSE planOrder[t]]
Unseeded(step) == [t \in DOMAIN planOrder \ {step} |-> planOrder[t]]

SeedPlan(step, id) ==
    /\ planOrder' = Recorded(step, id)
    /\ UNCHANGED <<orders, nextOrderId, idToIndex, batchDepth, derivedDirty, prioritiesDirty, derived>>

UnseedPlan(step) ==
    /\ HasSeededStep(step)
    /\ planOrder' = Unseeded(step)
    /\ UNCHANGED <<orders, nextOrderId, idToIndex, batchDepth, derivedDirty, prioritiesDirty, derived>>

Mutate ==
    \/ \E t \in Templates, parent \in Ids(orders) \cup {0} : EnqueueOrder(t, parent)
    \/ \E id \in Ids(orders), s \in Moves : SetOrderLifecycleState(id, s)
    \/ \E id \in Ids(orders), reason \in Reasons : SetOrderDeferralState(id, reason)
    \/ \E id \in Ids(orders) : ClearOrderDeferralState(id)
    \/ \E id \in Ids(orders) : SetOrderDispatchState(id)
    \/ \E id \in Ids(orders), slot \in Slots \cup {NoSlot} : SetOrderReservedPlacementSlot(id, slot)
    \/ CompactTerminalOrders
    \/ BeginMutationBatch
    \/ EndMutationBatch
    \/ UpdateTaskPriorities
    \/ StimulusChanged

Next ==
    \/ Mutate /\ UNCHANGED planOrder
    \/ \E step \in TaskIds : UnseedPlan(step) \/ \E id \in Ids(orders) : SeedPlan(step, id)

Spec == Init /\ [][Next]_vars
-----------------------------------------------------------------------------
SeenOrder ==
    [id : Nat \ {0}, parent : Nat, layer : Layers, state : States,
     task : TaskIds \cup {0}, goal : GoalIds \cup {0}, detail : Details,
     actor : Actors \cup {NoActor}, rank : Ranks]

TypeOK ==
    /\ orders \in Seq(Order)
    /\ nextOrderId \in Nat \ {0}
    /\ DOMAIN idToIndex \subseteq Nat /\ idToIndex \in [DOMAIN idToIndex -> Nat]
    /\ batchDepth \in Nat
    /\ derivedDirty \in BOOLEAN
    /\ prioritiesDirty \in BOOLEAN
    /\ derived \in Seq(SeenOrder)
    /\ DOMAIN planOrder \subseteq TaskIds /\ planOrder \in [DOMAIN planOrder -> Nat]

(* OrderIdToIndex is the exact inverse of the id column at every moment,    *)
(* also inside a batch: it finds every row of the table, at its place, and  *)
(* nothing else, through every append and every compaction.                 *)
IndexExact ==
    /\ DOMAIN idToIndex = Ids(orders)
    /\ \A i \in DOMAIN orders : idToIndex[orders[i].id] = i

(* The table is kept in the order the ids were handed out and no id is      *)
(* handed out twice, so a parent's id never names another order later and   *)
(* the tie-break of the queues by id is the order of creation.              *)
IdsAscending ==
    /\ \A i, j \in DOMAIN orders : i < j => orders[i].id < orders[j].id
    /\ \A i \in DOMAIN orders : orders[i].id < nextOrderId

(* Outside a batch every queue and index describes the table as it is: no   *)
(* mutator of the interface forgets its rebuild.                            *)
QueuesSettled == batchDepth = 0 => ~derivedDirty /\ derived = View(orders)

(* What a lookup answers does not depend on whether the caller is inside a  *)
(* dirty batch: index and scan agree for every key the callers use          *)
(* (TryGetActiveChildOrderIndex, TryGetActiveExecutionOrderIndexForActor,   *)
(* HasActiveStrategicOrderForGoalId, GetActiveOrderCountForLayer).          *)
LookupsFresh ==
    /\ \A id \in Ids(orders), layer \in Layers :
          TryGetActiveChildOrderIndex(id, layer) = ScannedChild(id, layer)
    /\ \A actor \in Actors :
          TryGetActiveExecutionOrderIndexForActor(actor) = ScannedExecution(actor)
    /\ \A goal \in GoalIds :
          HasActiveStrategicOrderForGoalId(goal) = (ScannedStrategic(goal) # {})
    /\ \A layer \in Layers :
          GetActiveOrderCountForLayer(layer) = ActiveCount(orders, layer)

(* A reason and its consecutive count go together: an order counts          *)
(* deferrals exactly while it carries the reason they were for.             *)
DeferralCoherent ==
    \A i \in DOMAIN orders : orders[i].reason = NoReason <=> orders[i].deferrals = 0

(* "Derived queue views stay unchanged until a mutation batch ends": a phase *)
(* may hold on to the queues it started with while it mutates the table.    *)
FrozenInBatch == [][ batchDepth > 0 /\ batchDepth' > 0 => derived' = derived ]_vars

(* A row leaves the table only when nothing will ask for it again: it is    *)
(* terminal, no live order hangs below it, and it is not unfinished opening *)
(* work whose step is still seeded ("Aborted seeded opening work should     *)
(* remain available for reopening").  The rows that stay are not touched.   *)
OnlySpentRowsLeave ==
    [][ /\ \A i \in DOMAIN orders :
             orders[i].id \notin Ids(orders') =>
                /\ Terminal(orders[i])
                /\ \A j \in DOMAIN orders : orders[j].parent = orders[i].id => Terminal(orders[j])
                /\ ~(/\ HasSeededStep(orders[i].task) /\ orders[i].layer # "UnitExecution"
                     /\ orders[i].state \in {"Aborted", "Expired"})
        /\ Len(orders') < Len(orders) =>
             \A i \in DOMAIN orders' : \E j \in DOMAIN orders : orders'[i] = orders[j]
      ]_vars
=============================================================================
