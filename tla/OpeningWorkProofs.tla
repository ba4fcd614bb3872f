------------------------- MODULE OpeningWorkProofs -------------------------
(***************************************************************************)
(* What holds of the work on the opening for every set of steps, goals,     *)
(* slots, builders and hindrances, any number of orders and any buffers.    *)
(*                                                                         *)
(* The inductive invariant is Sound.  Its parts say what the rows of the    *)
(* table are to each other (Kinship), to the plan that records them (Tied), *)
(* to the blocked-task buffers (Apart) and to the walk of the phase.        *)
(***************************************************************************)
EXTENDS OpeningWork, SchedulingStateProofs

RingFacts == INSTANCE BlockedTasksProofs WITH Signatures <- {ClassOf(k) : k \in Key}
-----------------------------------------------------------------------------
(* One row.                                                                 *)

Working(o) == Live(o) /\ o.layer # "UnitExecution"
Class(o) == ClassOf(KeyOf(o))

(* The fields of an order nobody writes again.                              *)
SameWork(o, p) ==
    /\ p.id = o.id /\ p.parent = o.parent /\ p.layer = o.layer
    /\ p.task = o.task /\ p.goal = o.goal /\ p.detail = o.detail /\ p.actor = o.actor

(* Strategic and economy orders wait or are over, and no unit belongs to    *)
(* them; a builder's order has a unit and an economy order above it; only   *)
(* economy orders are deferred, and only they and their builders claim a    *)
(* slot: the one they prefer, if they prefer any.                           *)
RowSound(o) ==
    /\ o.layer \in {"StrategicDirector", "EconomyAndProduction", "UnitExecution"}
    /\ o.layer # "UnitExecution" =>
          o.actor = NoActor /\ (o.state = "Queued" \/ Terminal(o)) /\ o.attempts = 0
    /\ o.layer = "UnitExecution" =>
          /\ o.actor # NoActor /\ o.parent # 0
          /\ o.state \in {"Ready", "Dispatched"} \/ Terminal(o)
          /\ o.attempts > 0 => o.state # "Ready"
    /\ o.layer = "StrategicDirector" => o.parent = 0 /\ o.slot = NoSlot
    /\ o.reason # NoReason => o.layer = "EconomyAndProduction"
    /\ o.task # 0 => o.detail \in Slots
    /\ o.slot # NoSlot /\ o.detail \in Slots => o.slot = o.detail
-----------------------------------------------------------------------------
(* The rows of a table s among each other.                                  *)

Rows(s) == \A i \in DOMAIN s : RowSound(s[i])

(* A child is younger than its parent, one layer below it and for the same  *)
(* work.                                                                    *)
Lineage(s) ==
    /\ \A i \in DOMAIN s : s[i].parent < s[i].id
    /\ \A i, j \in DOMAIN s : s[i].parent = s[j].id =>
          /\ s[i].task = s[j].task /\ s[i].goal = s[j].goal /\ s[i].detail = s[j].detail
          /\ s[i].layer = "EconomyAndProduction" => s[j].layer = "StrategicDirector"
          /\ s[i].layer = "UnitExecution" => s[j].layer = "EconomyAndProduction"

Related(o, p) == o.parent = p.id \/ p.parent = o.id

(* Of one piece of work there is at most one strategic order and the        *)
(* economy order below it.                                                  *)
Family(s) ==
    \A i, j \in DOMAIN s :
        i # j /\ Working(s[i]) /\ Working(s[j]) /\ Class(s[i]) = Class(s[j]) => Related(s[i], s[j])

OneBuilder(s) ==
    \A i, j \in DOMAIN s :
        i # j /\ Live(s[i]) /\ Live(s[j]) /\ s[i].layer = "UnitExecution" /\ s[j].layer = "UnitExecution"
            => s[i].parent # s[j].parent

Standing(s) == \A i \in DOMAIN s : Live(s[i]) /\ s[i].parent # 0 => s[i].parent \in Ids(s)

SlotsExclusive(s) ==
    \A i, j \in DOMAIN s :
        i # j /\ Live(s[i]) /\ Live(s[j]) /\ s[i].slot # NoSlot /\ s[i].slot = s[j].slot
            => Related(s[i], s[j])

ActorsExclusive(s) ==
    \A i, j \in DOMAIN s :
        i # j /\ Live(s[i]) /\ Live(s[j]) /\ s[i].actor # NoActor => s[i].actor # s[j].actor

Kinship(s) ==
    /\ Rows(s) /\ Lineage(s) /\ Family(s) /\ OneBuilder(s) /\ Standing(s)
    /\ SlotsExclusive(s) /\ ActorsExclusive(s)

(* Economy work of an opening step ends with its strategic order, until the *)
(* coverage guard parts the two.                                            *)
Together(s, l) ==
    \A i, j \in DOMAIN s :
        Live(s[i]) /\ s[i].layer = "EconomyAndProduction" /\ s[i].task # 0
            /\ s[i].parent = s[j].id /\ ~l => Live(s[j])

(* What the plan records for a step is the order at the top of its work,    *)
(* without a slot once it is over ...                                       *)
Owners(s, plan) ==
    \A t \in DOMAIN plan : \A i \in DOMAIN s :
        s[i].id = plan[t] =>
            /\ s[i].task = t /\ s[i].parent = 0 /\ s[i].layer # "UnitExecution"
            /\ Terminal(s[i]) => s[i].slot = NoSlot

(* ... and all live strategic and economy work on a step hangs on it.       *)
Owned(s, plan) ==
    \A i \in DOMAIN s :
        Working(s[i]) /\ s[i].task # 0 =>
            s[i].task \in DOMAIN plan /\ plan[s[i].task] \in {s[i].id, s[i].parent}

Tied(s, plan) == Owners(s, plan) /\ Owned(s, plan)

(* The recorded order of a complete step is complete, but between its       *)
(* reactivation and the look at what the game shows.                        *)
Done(s, plan, done, ph) ==
    \A t \in done \cap DOMAIN plan : \A i \in DOMAIN s :
        s[i].id = plan[t] =>
            \/ s[i].state = "Completed"
            \/ ph = "reactivate" /\ Live(s[i]) /\ s[i].slot = NoSlot
-----------------------------------------------------------------------------
(* Table, plan, buffers and phase together.                                 *)

Plans == UNION {[D -> Nat] : D \in SUBSET TaskIds}
Remaps == UNION {[D -> Slots] : D \in SUBSET WallDepots}
Walls == {"RampActive", "NaturalFallbackActive", "Completed"}
Buffers == {"Strategic", "Planning"}

StepKeys == {k \in Key : k.task # 0 => k.detail \in Slots}
WorkRecord ==
    {r \in [sig : {ClassOf(k) : k \in Key}, policy : {"HotMustRun", "BufferedRetry"},
            layer : {"StrategicDirector", "EconomyAndProduction"}, key : StepKeys] :
        r.sig = ClassOf(r.key)}

Parked(buffers, c) == \E b \in Buffers : \E n \in DOMAIN buffers[b] : buffers[b][n].sig = c

ParkedOnce(buffers) ==
    \A b, d \in Buffers : \A m \in DOMAIN buffers[b], n \in DOMAIN buffers[d] :
        buffers[b][m].sig = buffers[d][n].sig => b = d /\ m = n

(* No piece of work is parked twice, and none is parked and worked on or    *)
(* recorded at once.                                                        *)
Apart(s, plan, buffers) ==
    /\ \A i \in DOMAIN s : Working(s[i]) => ~Parked(buffers, Class(s[i]))
    /\ \A t \in DOMAIN plan : ~Parked(buffers, [task |-> t])
    /\ ParkedOnce(buffers)

WorkTyped ==
    /\ phase \in Phases /\ todo \subseteq DOMAIN orders
    /\ completed \subseteq TaskIds /\ wall \in Walls /\ remapped \in Remaps
    /\ failures \in [TaskIds -> Nat]
    /\ blocked \in [Buffers -> Seq(WorkRecord)]
    /\ \A b \in Buffers : Len(blocked[b]) <= Capacity
    /\ sent \subseteq Slots /\ observed \subseteq sent \cup {Anywhere}
    /\ late \in BOOLEAN /\ (late => CoverageGuard)
    /\ batchDepth = IF phase \in {"frame", "rank", "drain", "capture"} THEN 0 ELSE 1
    /\ \A t \in DOMAIN planOrder : planOrder[t] # 0 /\ planOrder[t] < nextOrderId

Visits ==
    /\ phase = "children" => \A i \in todo : orders[i].layer = "StrategicDirector"
    /\ phase = "park" => \A i \in todo : orders[i].layer = "EconomyAndProduction"

Sound ==
    /\ Coherent /\ WorkTyped /\ Visits
    /\ Kinship(orders) /\ Together(orders, late)
    /\ Tied(orders, planOrder) /\ Done(orders, planOrder, completed, phase)
    /\ Apart(orders, planOrder, blocked)
-----------------------------------------------------------------------------
(* Rows rewritten in place: none comes back to life.                        *)

Advances(s, r) ==
    /\ r \in Seq(Order) /\ DOMAIN r = DOMAIN s
    /\ \A i \in DOMAIN s :
          SameWork(s[i], r[i]) /\ (Live(r[i]) => Live(s[i])) /\ RowSound(r[i])

SlotsKept(s, r) == \A i \in DOMAIN s : r[i].slot = s[i].slot \/ r[i].slot = NoSlot

LEMMA AdvanceKinship ==
    ASSUME NEW s, NEW r, Kinship(s), Advances(s, r), SlotsKept(s, r)
    PROVE  Kinship(r)
<1>1. /\ DOMAIN r = DOMAIN s
      /\ \A i \in DOMAIN s : /\ SameWork(s[i], r[i]) /\ (Live(r[i]) => Live(s[i]))
                             /\ Class(r[i]) = Class(s[i]) /\ (Working(r[i]) => Working(s[i]))
  BY DEF Advances, SameWork, Class, KeyOf, Working
<1>2. Rows(r)
  BY DEF Advances, Rows
<1>3. Lineage(r)
  BY <1>1 DEF Kinship, Lineage, SameWork
<1>4. Family(r)
  BY <1>1 DEF Kinship, Family, SameWork, Related
<1>5. OneBuilder(r)
  BY <1>1 DEF Kinship, OneBuilder, SameWork
<1>6. Standing(r)
  <2>1. Ids(r) = Ids(s)
    BY <1>1 DEF Ids, SameWork
  <2> QED
    BY <1>1, <2>1 DEF Kinship, Standing, SameWork
<1>7. SlotsExclusive(r)
  BY <1>1 DEF Kinship, SlotsExclusive, SlotsKept, SameWork, Related
<1>8. ActorsExclusive(r)
  BY <1>1 DEF Kinship, ActorsExclusive, SameWork
<1> QED
  BY <1>2, <1>3, <1>4, <1>5, <1>6, <1>7, <1>8 DEF Kinship

LEMMA AdvanceTies ==
    ASSUME NEW s, NEW r, Advances(s, r), SlotsKept(s, r), NEW plan, Tied(s, plan),
           \A i \in DOMAIN s : Terminal(r[i]) /\ ~Terminal(s[i]) => r[i].slot = NoSlot
    PROVE  Tied(r, plan)
<1>1. Owners(r, plan)
  <2> SUFFICES ASSUME NEW t \in DOMAIN plan, NEW i \in DOMAIN s, r[i].id = plan[t]
               PROVE  /\ r[i].task = t /\ r[i].parent = 0 /\ r[i].layer # "UnitExecution"
                      /\ Terminal(r[i]) => r[i].slot = NoSlot
    BY DEF Owners, Advances
  <2>1. SameWork(s[i], r[i]) /\ s[i].id = plan[t]
    BY DEF Advances, SameWork
  <2> QED
    BY <2>1 DEF Tied, Owners, SameWork, SlotsKept
<1>2. Owned(r, plan)
  BY DEF Tied, Owned, Advances, SameWork, Working
<1> QED
  BY <1>1, <1>2 DEF Tied

LEMMA AdvanceApart ==
    ASSUME NEW s, NEW r, Advances(s, r), NEW plan, NEW buffers, Apart(s, plan, buffers),
           NEW kept, DOMAIN kept \subseteq DOMAIN plan
    PROVE  Apart(r, kept, buffers)
<1>1. \A i \in DOMAIN s : Class(r[i]) = Class(s[i]) /\ (Working(r[i]) => Working(s[i]))
  BY DEF Advances, SameWork, Class, KeyOf, Working
<1>2. DOMAIN r = DOMAIN s
  BY DEF Advances
<1> QED
  BY <1>1, <1>2 DEF Apart
-----------------------------------------------------------------------------
(* What the handlers write into a row.                                      *)

LEMMA EndedRow ==
    ASSUME NEW o \in Order, RowSound(o), NEW s \in TerminalStates
    PROVE  /\ Moved(o, s) \in Order /\ SameWork(o, Moved(o, s)) /\ RowSound(Moved(o, s))
           /\ Terminal(Moved(o, s)) /\ ~Live(Moved(o, s))
           /\ Moved(o, s).state = s /\ Moved(o, s).slot = NoSlot
           /\ Moved(o, s).attempts = o.attempts /\ Moved(o, s).reason = o.reason
<1> DEFINE p == [o EXCEPT !.state = s, !.slot = NoSlot]
<1>1. Moved(o, s) = p
  BY DEF Moved
<1>2. /\ p \in Order /\ p.state = s /\ p.slot = NoSlot /\ p.attempts = o.attempts /\ p.reason = o.reason
      /\ p.layer = o.layer
      /\ SameWork(o, p)
  BY DEF Order, States, SameWork
<1>3. Terminal(p) /\ ~Live(p)
  BY <1>2 DEF Terminal, Live, TerminalStates, LiveStates
<1> HIDE DEF p
<1>4. RowSound(p)
  BY <1>2, <1>3 DEF RowSound, SameWork, TerminalStates
<1> QED
  BY <1>1, <1>2, <1>3, <1>4

LEMMA PostponedRow ==
    ASSUME NEW o \in Order, NEW reason \in DeferralReasons
    PROVE  /\ Postponed(o, reason) \in Order /\ SameWork(o, Postponed(o, reason))
           /\ Postponed(o, reason).state = o.state /\ Postponed(o, reason).slot = o.slot
           /\ Postponed(o, reason).attempts = o.attempts
           /\ RowSound(o) /\ o.layer = "EconomyAndProduction" => RowSound(Postponed(o, reason))
<1> DEFINE n == IF o.reason = reason THEN o.deferrals + 1 ELSE 1
           m == IF n > MaxDeferrals THEN MaxDeferrals ELSE n
           p == [o EXCEPT !.reason = reason, !.deferrals = m]
<1>1. m \in Nat /\ reason \in Reasons
  BY TableBoundAssumption, WorkBoundAssumption DEF Order
<1>2. Postponed(o, reason) = p
  BY DEF Postponed, Deferred, Order
<1> HIDE DEF m
<1>3. /\ p \in Order /\ SameWork(o, p) /\ p.state = o.state /\ p.slot = o.slot /\ p.attempts = o.attempts
  BY <1>1 DEF Order, SameWork
<1> HIDE DEF p
<1>4. RowSound(o) /\ o.layer = "EconomyAndProduction" => RowSound(p)
  BY <1>3 DEF RowSound, SameWork, Terminal
<1> QED
  BY <1>2, <1>3, <1>4

LEMMA UndeferredRow ==
    ASSUME NEW o \in Order
    PROVE  /\ Undeferred(o) \in Order /\ SameWork(o, Undeferred(o))
           /\ Undeferred(o).state = o.state /\ Undeferred(o).slot = o.slot
           /\ Undeferred(o).attempts = o.attempts
           /\ RowSound(o) => RowSound(Undeferred(o))
<1> DEFINE p == [o EXCEPT !.reason = NoReason, !.deferrals = 0]
<1>1. /\ p \in Order /\ SameWork(o, p) /\ p.state = o.state /\ p.slot = o.slot /\ p.attempts = o.attempts
      /\ p.reason = NoReason
  BY DEF Order, SameWork
<1> HIDE DEF p
<1>2. RowSound(o) => RowSound(p)
  BY <1>1 DEF RowSound, SameWork, Terminal
<1> QED
  BY <1>1, <1>2 DEF Undeferred, p

LEMMA RetiredRow ==
    ASSUME NEW o \in Order, RowSound(o)
    PROVE  /\ Retired(o) \in Order /\ SameWork(o, Retired(o)) /\ RowSound(Retired(o))
           /\ ~Live(Retired(o)) /\ Retired(o).slot = NoSlot /\ Retired(o).state = "Expired"
           /\ Retired(o).attempts = o.attempts
<1> DEFINE p == Moved(o, "Expired")
<1>1. /\ p \in Order /\ SameWork(o, p) /\ RowSound(p) /\ p.state = "Expired" /\ p.slot = NoSlot
      /\ p.attempts = o.attempts
  BY EndedRow DEF TerminalStates
<1> HIDE DEF p
<1>2. /\ Undeferred(p) \in Order /\ SameWork(p, Undeferred(p)) /\ RowSound(Undeferred(p))
      /\ Undeferred(p).state = "Expired" /\ Undeferred(p).slot = NoSlot
      /\ Undeferred(p).attempts = o.attempts
  BY <1>1, UndeferredRow
<1> QED
  BY <1>1, <1>2 DEF Retired, p, SameWork, Live, LiveStates

LEMMA SlottedRow ==
    ASSUME NEW o \in Order, NEW slot \in Slots \cup {NoSlot}
    PROVE  LET p == [o EXCEPT !.slot = slot]
           IN  /\ p \in Order /\ SameWork(o, p) /\ p.state = o.state /\ p.slot = slot
               /\ p.attempts = o.attempts /\ p.reason = o.reason
               /\ /\ RowSound(o) /\ o.layer = "EconomyAndProduction"
                  /\ slot # NoSlot /\ o.detail \in Slots => slot = o.detail
                  => RowSound(p)
<1> DEFINE p == [o EXCEPT !.slot = slot]
<1>1. /\ p \in Order /\ SameWork(o, p) /\ p.state = o.state /\ p.slot = slot /\ p.attempts = o.attempts
      /\ p.reason = o.reason
  BY DEF Order, SameWork
<1> HIDE DEF p
<1>2. ASSUME RowSound(o), o.layer = "EconomyAndProduction", slot # NoSlot /\ o.detail \in Slots => slot = o.detail
      PROVE  RowSound(p)
  BY <1>1, <1>2 DEF RowSound, SameWork, Terminal
<1> QED
  BY <1>1, <1>2 DEF p
-----------------------------------------------------------------------------
(* Steps that leave the rows alone.                                         *)

LEMMA PlanTyped == planOrder \in Plans <=> DOMAIN planOrder \subseteq TaskIds /\ planOrder \in [DOMAIN planOrder -> Nat]
BY DEF Plans

LEMMA SoundParts ==
    ASSUME Sound
    PROVE  /\ Coherent /\ TypeOK /\ WorkTyped /\ Rows(orders) /\ Kinship(orders)
           /\ orders \in Seq(Order) /\ nextOrderId \in Nat \ {0}
           /\ DOMAIN orders = 1 .. Len(orders) /\ Len(orders) \in Nat
           /\ \A i \in DOMAIN orders : /\ orders[i] \in Order /\ RowSound(orders[i])
                                       /\ orders[i].id \in Nat \ {0} /\ orders[i].id < nextOrderId
                                       /\ orders[i].parent \in Nat
BY OrderFields DEF Sound, Coherent, TypeOK, IdsAscending, Kinship, Rows

(* Two rows with one id are one row.                                        *)
LEMMA OneRow ==
    ASSUME Sound, NEW i \in DOMAIN orders, NEW j \in DOMAIN orders, orders[i].id = orders[j].id
    PROVE  i = j
BY DEF Sound, Coherent, IndexExact

(* A terminal order comes back to life only as the recorded order of a step *)
(* that was complete and no longer is.                                      *)
StaysEnded ==
    \A i \in DOMAIN orders, j \in DOMAIN orders' :
        orders[i].id = orders'[j].id /\ Live(orders'[j]) =>
            \/ Live(orders[i])
            \/ /\ orders[i].state = "Completed" /\ orders'[j].state = "Queued"
               /\ orders[i].task \in completed \ completed'
               /\ planOrder[orders[i].task] = orders[i].id

LEMMA StaysInPlace ==
    ASSUME Sound, DOMAIN orders' = DOMAIN orders,
           \A i \in DOMAIN orders : /\ orders'[i].id = orders[i].id
                                    /\ Live(orders'[i]) => Live(orders[i])
    PROVE  StaysEnded
BY OneRow DEF StaysEnded

LEMMA NextBatchKeeps ==
    ASSUME Coherent, NextBatch, UNCHANGED planOrder
    PROVE  Coherent'
<1>1. View(orders) \in Seq(SeenOrder) /\ orders' = orders
  BY ViewLemma DEF Coherent, TypeOK, NextBatch
<1>2. TypeOK'
  BY <1>1 DEF NextBatch, Coherent, TypeOK
<1>3. IndexExact' /\ IdsAscending'
  BY DEF NextBatch, Coherent, IndexExact, IdsAscending
<1>4. DerivedAgrees'
  BY <1>1 DEF NextBatch, DerivedAgrees
<1> QED
  BY <1>2, <1>3, <1>4 DEF Coherent

LEMMA IdleKeeps ==
    ASSUME Coherent, UNCHANGED <<orders, nextOrderId, idToIndex, batchDepth, derivedDirty, derived, planOrder>>,
           prioritiesDirty' \in BOOLEAN
    PROVE  Coherent'
<1>1. TypeOK'
  BY DEF Coherent, TypeOK
<1>2. IndexExact' /\ IdsAscending' /\ DerivedAgrees'
  BY DEF Coherent, IndexExact, IdsAscending, DerivedAgrees
<1> QED
  BY <1>1, <1>2 DEF Coherent

LEMMA KeptSound ==
    ASSUME Sound, UNCHANGED <<orders, planOrder>>, late => late',
           Coherent', WorkTyped', Visits',
           Done(orders, planOrder, completed', phase'), Apart(orders, planOrder, blocked')
    PROVE  Sound' /\ StaysEnded
<1>1. Together(orders, late')
  BY DEF Sound, Together
<1>2. StaysEnded
  BY StaysInPlace
<1> QED
  BY <1>1, <1>2 DEF Sound

(* Done only weakens when the phase becomes or stays other than it names.   *)
LEMMA DoneAgain ==
    ASSUME Sound, phase # "reactivate" \/ phase' = "reactivate"
    PROVE  Done(orders, planOrder, completed, phase')
BY DEF Sound, Done

LEMMA NewFrameSound == Sound /\ NewFrame => Sound' /\ StaysEnded
<1> SUFFICES ASSUME Sound, NewFrame PROVE Sound' /\ StaysEnded
  OBVIOUS
<1>1. /\ phase = "frame" /\ phase' = "confirm" /\ BeginMutationBatch /\ todo' = DispatchedOrderIndices(derived)
      /\ UNCHANGED <<planOrder, completed, wall, remapped, failures, blocked, sent>>
      /\ late' \in IF CoverageGuard THEN {late, TRUE} ELSE {FALSE}
      /\ observed' \in SUBSET (sent \cup (IF sent # {} THEN {Anywhere} ELSE {}))
  BY DEF NewFrame, planVars
<1>2. /\ orders' = orders /\ nextOrderId' = nextOrderId /\ batchDepth' = batchDepth + 1 /\ batchDepth = 0
  BY <1>1 DEF BeginMutationBatch, Sound, WorkTyped
<1>3. Coherent'
  BY <1>1, BatchKeeps DEF Sound
<1>4. todo' \subseteq DOMAIN orders
  <2>1. derived = View(orders)
    BY <1>2 DEF Sound, Coherent, DerivedAgrees
  <2> QED
    BY <1>1, <2>1 DEF DispatchedOrderIndices, InState, View
<1>5. late' \in BOOLEAN /\ (late => late') /\ (late' => CoverageGuard)
  <2>1. late \in BOOLEAN
    BY DEF Sound, WorkTyped
  <2>2. CASE CoverageGuard
    <3>1. late' \in {late, TRUE}
      BY <1>1, <2>2, Zenon
    <3> QED
      BY <2>1, <2>2, <3>1, Zenon
  <2>3. CASE ~CoverageGuard
    BY <1>1, <2>3 DEF Sound, WorkTyped
  <2> QED
    BY <2>2, <2>3
<1>6. WorkTyped'
  BY <1>1, <1>2, <1>4, <1>5 DEF Sound, WorkTyped, Phases
<1>7. Visits'
  BY <1>1 DEF Visits
<1> QED
  BY <1>1, <1>2, <1>3, <1>5, <1>6, <1>7, DoneAgain, KeptSound DEF Sound

LEMMA EndConfirmSound == Sound /\ EndConfirm => Sound' /\ StaysEnded
<1> SUFFICES ASSUME Sound, EndConfirm PROVE Sound' /\ StaysEnded
  OBVIOUS
<1>1. /\ phase \in {"confirm", "compacted"} /\ phase' = "reactivate" /\ NextBatch /\ todo' = {} /\ todo = {}
      /\ UNCHANGED <<planOrder, completed, wall, remapped, failures, blocked, sent, observed, late>>
  BY DEF EndConfirm, planVars, worldVars
<1>2. orders' = orders /\ nextOrderId' = nextOrderId /\ batchDepth' = batchDepth
  BY <1>1 DEF NextBatch
<1>3. Coherent'
  BY <1>1, NextBatchKeeps DEF Sound
<1>4. WorkTyped' /\ Visits'
  BY <1>1, <1>2 DEF Sound, WorkTyped, Phases, Visits
<1> QED
  BY <1>1, <1>2, <1>3, <1>4, DoneAgain, KeptSound DEF Sound

LEMMA EndSeedingSound == Sound /\ EndSeeding => Sound' /\ StaysEnded
<1> SUFFICES ASSUME Sound, EndSeeding PROVE Sound' /\ StaysEnded
  OBVIOUS
<1>1. /\ phase = "goals" /\ phase' = "children" /\ NextBatch /\ todo' = StrategicOrderIndices(View(orders))
      /\ UNCHANGED <<planOrder, completed, wall, remapped, failures, blocked, sent, observed, late>>
  BY DEF EndSeeding, planVars, worldVars
<1>2. orders' = orders /\ nextOrderId' = nextOrderId /\ batchDepth' = batchDepth
  BY <1>1 DEF NextBatch
<1>3. Coherent'
  BY <1>1, NextBatchKeeps DEF Sound
<1>4. \A i \in todo' : i \in DOMAIN orders /\ orders[i].layer = "StrategicDirector"
  <2> SUFFICES ASSUME NEW i \in StrategicOrderIndices(View(orders))
               PROVE  i \in DOMAIN orders /\ orders[i].layer = "StrategicDirector"
    BY <1>1
  <2>1. i \in DOMAIN View(orders) /\ View(orders)[i].layer \in {"Agent", "StrategicDirector"}
    BY DEF StrategicOrderIndices, InState
  <2>2. i \in DOMAIN orders /\ orders[i].layer \in {"Agent", "StrategicDirector"}
    BY <2>1 DEF View, Seen
  <2> QED
    BY <2>2, SoundParts DEF RowSound
<1>5. WorkTyped' /\ Visits'
  BY <1>1, <1>2, <1>4 DEF Sound, WorkTyped, Phases, Visits
<1> QED
  BY <1>1, <1>2, <1>3, <1>5, DoneAgain, KeptSound DEF Sound

LEMMA BeginEconomySound == Sound /\ BeginEconomy => Sound' /\ StaysEnded
<1> SUFFICES ASSUME Sound, BeginEconomy PROVE Sound' /\ StaysEnded
  OBVIOUS
<1>1. /\ phase = "expanded" /\ phase' = "economy" /\ NextBatch /\ todo' = PlanningProcessIndices(View(orders))
      /\ UNCHANGED <<planOrder, completed, wall, remapped, failures, blocked, sent, observed, late>>
  BY DEF BeginEconomy, planVars, worldVars
<1>2. orders' = orders /\ nextOrderId' = nextOrderId /\ batchDepth' = batchDepth
  BY <1>1 DEF NextBatch
<1>3. Coherent'
  BY <1>1, NextBatchKeeps DEF Sound
<1>4. todo' \subseteq DOMAIN orders
  BY <1>1 DEF PlanningProcessIndices, InState, View
<1>5. WorkTyped' /\ Visits'
  BY <1>1, <1>2, <1>4 DEF Sound, WorkTyped, Phases, Visits
<1> QED
  BY <1>1, <1>2, <1>3, <1>5, DoneAgain, KeptSound DEF Sound

LEMMA EndEconomySound == Sound /\ EndEconomy => Sound' /\ StaysEnded
<1> SUFFICES ASSUME Sound, EndEconomy PROVE Sound' /\ StaysEnded
  OBVIOUS
<1>1. /\ phase = "economy" /\ phase' = "park"
      /\ todo' = {i \in DOMAIN orders : ShouldParkDeferredOrder(orders[i])}
      /\ UNCHANGED vars
      /\ UNCHANGED <<completed, wall, remapped, failures, blocked, sent, observed, late>>
  BY DEF EndEconomy, planVars, worldVars
<1>2. /\ orders' = orders /\ nextOrderId' = nextOrderId /\ batchDepth' = batchDepth /\ planOrder' = planOrder
      /\ UNCHANGED <<idToIndex, derivedDirty, derived, prioritiesDirty>>
  BY <1>1 DEF vars
<1>3. Coherent'
  BY <1>2, IdleKeeps DEF Sound, Coherent, TypeOK
<1>4. \A i \in todo' : orders[i].layer = "EconomyAndProduction"
  <2> SUFFICES ASSUME NEW i \in DOMAIN orders, ShouldParkDeferredOrder(orders[i])
               PROVE  orders[i].layer = "EconomyAndProduction"
    BY <1>1
  <2>1. orders[i].reason \in DeferralReasons
    BY DEF ShouldParkDeferredOrder, DeferralReasons
  <2>2. orders[i].reason # NoReason
    BY <2>1, WorkBoundAssumption, NullAssumption
  <2> QED
    BY <2>2, SoundParts DEF RowSound
<1>5. WorkTyped' /\ Visits'
  BY <1>1, <1>2, <1>4 DEF Sound, WorkTyped, Phases, Visits
<1> QED
  BY <1>1, <1>2, <1>3, <1>5, DoneAgain, KeptSound DEF Sound

LEMMA EndParkSound == Sound /\ EndPark => Sound' /\ StaysEnded
<1> SUFFICES ASSUME Sound, EndPark PROVE Sound' /\ StaysEnded
  OBVIOUS
<1>1. /\ phase = "park" /\ phase' = "rank" /\ EndMutationBatch
      /\ UNCHANGED <<planOrder, todo, completed, wall, remapped, failures, blocked, sent, observed, late>>
  BY DEF EndPark, planVars, worldVars
<1>2. orders' = orders /\ nextOrderId' = nextOrderId /\ batchDepth' = 0
  BY <1>1 DEF EndMutationBatch, Sound, WorkTyped
<1>3. Coherent'
  BY <1>1, BatchKeeps DEF Sound
<1>4. WorkTyped' /\ Visits'
  BY <1>1, <1>2 DEF Sound, WorkTyped, Phases, Visits
<1> QED
  BY <1>1, <1>2, <1>3, <1>4, DoneAgain, KeptSound DEF Sound

LEMMA StutterSound == Sound /\ UNCHANGED workVars => Sound' /\ StaysEnded
<1> SUFFICES ASSUME Sound, UNCHANGED workVars PROVE Sound' /\ StaysEnded
  OBVIOUS
<1>1. /\ UNCHANGED <<orders, nextOrderId, idToIndex, batchDepth, derivedDirty, derived, prioritiesDirty, planOrder>>
      /\ UNCHANGED <<phase, todo, completed, wall, remapped, failures, blocked, sent, observed, late>>
  BY DEF workVars, vars, planVars, worldVars
<1>2. Coherent'
  BY <1>1, IdleKeeps DEF Sound, Coherent, TypeOK
<1>3. WorkTyped' /\ Visits'
  BY <1>1 DEF Sound, WorkTyped, Visits
<1> QED
  BY <1>1, <1>2, <1>3, DoneAgain, KeptSound DEF Sound
-----------------------------------------------------------------------------
(* A record taken out of a buffer.                                          *)
CutAt(rest, q, i) ==
    /\ Len(rest) = Len(q) - 1
    /\ \A k \in DOMAIN rest : rest[k] = q[IF k < i THEN k ELSE k + 1]

LEMMA TakenOut ==
    ASSUME NEW buffers \in [Buffers -> Seq(WorkRecord)], ParkedOnce(buffers),
           NEW b \in Buffers, NEW i \in DOMAIN buffers[b],
           NEW rest \in Seq(WorkRecord), CutAt(rest, buffers[b], i),
           NEW after, after = [buffers EXCEPT ![b] = rest]
    PROVE  /\ after \in [Buffers -> Seq(WorkRecord)]
           /\ \A d \in Buffers : Len(after[d]) <= Len(buffers[d])
           /\ \A c : Parked(after, c) => Parked(buffers, c)
           /\ ~Parked(after, buffers[b][i].sig)
           /\ ParkedOnce(after)
<1>1. \A k \in DOMAIN rest : rest[k] = buffers[b][IF k < i THEN k ELSE k + 1]
  BY DEF CutAt
<1>2. PICK n \in Nat : n = Len(buffers[b]) /\ DOMAIN buffers[b] = 1 .. n /\ Len(rest) = n - 1 /\ DOMAIN rest = 1 .. n - 1
  <2>1. buffers[b] \in Seq(WorkRecord) /\ Len(buffers[b]) \in Nat
    OBVIOUS
  <2>2. Len(rest) = Len(buffers[b]) - 1
    BY DEF CutAt
  <2> QED
    BY <2>1, <2>2
<1>3. after \in [Buffers -> Seq(WorkRecord)] /\ after[b] = rest /\ \A d \in Buffers : d # b => after[d] = buffers[d]
  BY <1>1
<1> DEFINE g == [k \in DOMAIN rest |-> IF k < i THEN k ELSE k + 1]
<1>4. /\ \A k \in DOMAIN rest : g[k] \in DOMAIN buffers[b] /\ g[k] # i /\ rest[k] = buffers[b][g[k]]
      /\ \A k, l \in DOMAIN rest : g[k] = g[l] => k = l
  BY <1>1, <1>2
<1> HIDE DEF g
<1>5. ASSUME NEW d \in Buffers, NEW m \in DOMAIN after[d]
      PROVE  \E o \in DOMAIN buffers[d] :
                /\ after[d][m] = buffers[d][o]
                /\ d = b => o # i /\ o = g[m]
                /\ d # b => o = m
  BY <1>3, <1>4
<1>6. (\A c : Parked(after, c) => Parked(buffers, c)) /\ ~Parked(after, buffers[b][i].sig)
  BY <1>5 DEF Parked, ParkedOnce
<1>7. ParkedOnce(after)
  <2> SUFFICES ASSUME NEW d \in Buffers, NEW e \in Buffers, NEW m \in DOMAIN after[d], NEW l \in DOMAIN after[e],
                      after[d][m].sig = after[e][l].sig
               PROVE  d = e /\ m = l
    BY DEF ParkedOnce
  <2>1. PICK o \in DOMAIN buffers[d] : /\ after[d][m] = buffers[d][o] /\ (d = b => o = g[m]) /\ (d # b => o = m)
    BY <1>5
  <2>2. PICK p \in DOMAIN buffers[e] : /\ after[e][l] = buffers[e][p] /\ (e = b => p = g[l]) /\ (e # b => p = l)
    BY <1>5
  <2>3. d = e /\ o = p
    BY <2>1, <2>2 DEF ParkedOnce
  <2> QED
    BY <2>1, <2>2, <2>3, <1>3, <1>4
<1>8. \A d \in Buffers : Len(after[d]) <= Len(buffers[d])
  <2> SUFFICES ASSUME NEW d \in Buffers PROVE Len(after[d]) <= Len(buffers[d])
    OBVIOUS
  <2>1. buffers[d] \in Seq(WorkRecord) /\ Len(buffers[d]) \in Nat
    OBVIOUS
  <2> QED
    BY <2>1, <1>2, <1>3
<1> QED
  BY <1>1, <1>2, <1>3, <1>6, <1>7, <1>8

(* The buffers "after" are those "before" and r at place n of b.            *)
Joins(before, after, b, n, r) ==
    \A d \in Buffers : \A m \in DOMAIN after[d] :
        \/ m \in DOMAIN before[d] /\ after[d][m] = before[d][m]
        \/ d = b /\ m = n /\ after[d][m] = r

(* One more record, of work not parked yet.                                 *)
LEMMA Joined ==
    ASSUME NEW before, NEW after, ParkedOnce(before), NEW b, NEW n, NEW r, ~Parked(before, r.sig),
           Joins(before, after, b, n, r)
    PROVE  /\ ParkedOnce(after)
           /\ \A c : Parked(after, c) => Parked(before, c) \/ c = r.sig
<1>1. \A d \in Buffers : \A m \in DOMAIN before[d] : before[d][m].sig # r.sig
  BY DEF Parked
<1>0. \A d \in Buffers : \A m \in DOMAIN after[d] :
          \/ m \in DOMAIN before[d] /\ after[d][m] = before[d][m]
          \/ d = b /\ m = n /\ after[d][m] = r
  BY DEF Joins
<1>2. ParkedOnce(after)
  <2> SUFFICES ASSUME NEW d \in Buffers, NEW e \in Buffers, NEW m \in DOMAIN after[d], NEW l \in DOMAIN after[e],
                      after[d][m].sig = after[e][l].sig
               PROVE  d = e /\ m = l
    BY DEF ParkedOnce
  <2>1. CASE m \in DOMAIN before[d] /\ after[d][m] = before[d][m]
    <3>1. l \in DOMAIN before[e] /\ after[e][l] = before[e][l]
      BY <1>0, <1>1, <2>1
    <3>2. before[d][m].sig = before[e][l].sig
      BY <2>1, <3>1
    <3> QED
      BY <2>1, <3>1, <3>2 DEF ParkedOnce
  <2>2. CASE d = b /\ m = n /\ after[d][m] = r
    <3>1. e = b /\ l = n
      BY <1>0, <1>1, <2>2
    <3> QED
      BY <2>2, <3>1
  <2> QED
    BY <1>0, <2>1, <2>2
<1>3. \A c : Parked(after, c) => Parked(before, c) \/ c = r.sig
  <2> SUFFICES ASSUME NEW d \in Buffers, NEW m \in DOMAIN after[d]
               PROVE  Parked(before, after[d][m].sig) \/ after[d][m].sig = r.sig
    BY DEF Parked
  <2>1. CASE m \in DOMAIN before[d] /\ after[d][m] = before[d][m]
    BY <2>1 DEF Parked
  <2> QED
    BY <1>0, <2>1
<1> QED
  BY <1>2, <1>3

(* A record put back at the end.                                            *)
Behind(back, rest, r) == back = Append(rest, r)

LEMMA PutBack ==
    ASSUME NEW buffers \in [Buffers -> Seq(WorkRecord)], ParkedOnce(buffers),
           NEW b \in Buffers, NEW i \in DOMAIN buffers[b],
           NEW rest \in Seq(WorkRecord), CutAt(rest, buffers[b], i),
           NEW r, r = buffers[b][i], NEW back, Behind(back, rest, r),
           NEW after, after = [buffers EXCEPT ![b] = back]
    PROVE  /\ after \in [Buffers -> Seq(WorkRecord)]
           /\ \A d \in Buffers : Len(after[d]) <= Len(buffers[d])
           /\ \A c : Parked(after, c) => Parked(buffers, c)
           /\ ParkedOnce(after)
<1> DEFINE taken == [buffers EXCEPT ![b] = rest]
<1>1. /\ taken \in [Buffers -> Seq(WorkRecord)]
      /\ \A c : Parked(taken, c) => Parked(buffers, c)
      /\ ~Parked(taken, r.sig)
      /\ ParkedOnce(taken)
  BY TakenOut
<1>2. r \in WorkRecord /\ \A d \in Buffers : Len(buffers[d]) \in Nat
  OBVIOUS
<1>3. Len(rest) + 1 = Len(buffers[b])
  BY <1>2 DEF CutAt
<1>4. Parked(buffers, r.sig)
  BY DEF Parked
<1>5. taken[b] = rest /\ \A d \in Buffers : d # b => taken[d] = buffers[d]
  OBVIOUS
<1> HIDE DEF taken
<1>6. /\ back \in Seq(WorkRecord) /\ Len(back) = Len(rest) + 1
      /\ \A k \in DOMAIN rest : back[k] = rest[k]
      /\ back[Len(rest) + 1] = r
      /\ DOMAIN back = DOMAIN rest \cup {Len(rest) + 1}
  BY <1>1, <1>2, AppendProperties DEF Behind
<1>8. after \in [Buffers -> Seq(WorkRecord)] /\ after[b] = back
      /\ \A d \in Buffers : d # b => after[d] = buffers[d]
  BY <1>6
<1>9. \A d \in Buffers : Len(after[d]) <= Len(buffers[d])
  <2> SUFFICES ASSUME NEW d \in Buffers PROVE Len(after[d]) <= Len(buffers[d])
    OBVIOUS
  <2>1. CASE d = b
    BY <2>1, <1>3, <1>6, <1>8, <1>2
  <2>2. CASE d # b
    BY <2>2, <1>2, <1>8
  <2> QED
    BY <2>1, <2>2
<1>10. Joins(taken, after, b, Len(rest) + 1, r)
  <2> SUFFICES ASSUME NEW d \in Buffers, NEW m \in DOMAIN after[d]
               PROVE  \/ m \in DOMAIN taken[d] /\ after[d][m] = taken[d][m]
                      \/ d = b /\ m = Len(rest) + 1 /\ after[d][m] = r
    BY Zenon DEF Joins
  <2> QED
    BY <1>5, <1>6, <1>8
<1>12. ParkedOnce(after) /\ \A c : Parked(after, c) => Parked(taken, c) \/ c = r.sig
  <2>1. PICK n : n = Len(rest) + 1
    OBVIOUS
  <2>2. Joins(taken, after, b, n, r) /\ ParkedOnce(taken) /\ ~Parked(taken, r.sig)
    BY <1>10, <1>1, <2>1
  <2>3. ParkedOnce(after)
    BY <2>2, Joined
  <2>4. \A c : Parked(after, c) => Parked(taken, c) \/ c = r.sig
    <3>1. SUFFICES ASSUME NEW c, Parked(after, c), c # r.sig
                   PROVE  Parked(taken, c)
      OBVIOUS
    <3>2. PICK d \in Buffers : \E m \in DOMAIN after[d] : after[d][m].sig = c
      BY <3>1 DEF Parked
    <3>3. PICK m \in DOMAIN after[d] : after[d][m].sig = c
      BY <3>2
    <3>4. m \in DOMAIN taken[d] /\ taken[d][m].sig = c
      BY <3>1, <3>3, <2>2 DEF Joins
    <3> QED
      BY <3>4 DEF Parked
  <2> QED
    BY <2>3, <2>4
<1> QED
  BY <1>1, <1>4, <1>8, <1>9, <1>12
-----------------------------------------------------------------------------
(* Keys, classes and matching.                                              *)

LEMMA ClassLemma ==
    /\ \A k \in Key : k.task # 0 => ClassOf(k) = [task |-> k.task]
    /\ \A k, l \in Key : ClassOf(k) = ClassOf(l) <=> Matches(k, l)
<1>1. \A k \in Key : /\ k.task # 0 => ClassOf(k) = [task |-> k.task] /\ DOMAIN ClassOf(k) = {"task"}
                     /\ k.task = 0 => ClassOf(k) = [goal |-> k.goal, detail |-> k.detail]
                                      /\ DOMAIN ClassOf(k) = {"goal", "detail"}
  BY DEF ClassOf
<1>2. ASSUME NEW k \in Key, NEW l \in Key PROVE ClassOf(k) = ClassOf(l) <=> Matches(k, l)
  <2>1. CASE k.task # 0 /\ l.task # 0
    <3>1. ClassOf(k) = [task |-> k.task] /\ ClassOf(l) = [task |-> l.task]
      BY <2>1, <1>1
    <3>2. ClassOf(k) = ClassOf(l) <=> k.task = l.task
      <4>1. ClassOf(k).task = k.task /\ ClassOf(l).task = l.task
        BY <3>1
      <4> QED
        BY <3>1, <4>1
    <3> QED
      BY <2>1, <3>2 DEF Matches
  <2>2. CASE k.task = 0 /\ l.task = 0
    <3>1. /\ ClassOf(k) = [goal |-> k.goal, detail |-> k.detail]
          /\ ClassOf(l) = [goal |-> l.goal, detail |-> l.detail]
      BY <2>2, <1>1
    <3>2. ClassOf(k) = ClassOf(l) <=> k.goal = l.goal /\ k.detail = l.detail
      <4>1. /\ ClassOf(k).goal = k.goal /\ ClassOf(l).goal = l.goal
            /\ ClassOf(k).detail = k.detail /\ ClassOf(l).detail = l.detail
        BY <3>1
      <4> QED
        BY <3>1, <4>1
    <3> QED
      BY <2>2, <3>2 DEF Matches
  <2>3. CASE (k.task # 0) # (l.task # 0)
    <3>1. DOMAIN ClassOf(k) # DOMAIN ClassOf(l)
      BY <2>3, <1>1
    <3>2. ~Matches(k, l)
      BY <2>3 DEF Matches
    <3> QED
      BY <3>1, <3>2
  <2> QED
    BY <2>1, <2>2, <2>3
<1> QED
  BY <1>1, <1>2

LEMMA OrderKey ==
    ASSUME NEW o \in Order
    PROVE  /\ KeyOf(o) \in Key /\ KeyOf(o).task = o.task /\ KeyOf(o).goal = o.goal /\ KeyOf(o).detail = o.detail
           /\ o.task # 0 => Class(o) = [task |-> o.task]
<1>1. KeyOf(o) \in Key /\ KeyOf(o).task = o.task /\ KeyOf(o).goal = o.goal /\ KeyOf(o).detail = o.detail
  BY DEF Order, KeyOf, Key
<1> QED
  BY <1>1, ClassLemma DEF Class

(* Orders of one step are of one class.                                     *)
LEMMA SameClass ==
    ASSUME NEW o \in Order, NEW p \in Order
    PROVE  /\ o.task # 0 => (Class(o) = Class(p) <=> o.task = p.task)
           /\ o.task = p.task /\ o.goal = p.goal /\ o.detail = p.detail => Class(o) = Class(p)
<1>1. Class(o) = Class(p) <=> Matches(KeyOf(o), KeyOf(p))
  BY OrderKey, ClassLemma DEF Class
<1> QED
  BY <1>1, OrderKey DEF Matches
-----------------------------------------------------------------------------
(* A new row at the end of the table.                                       *)

Grown(s, row, r) ==
    \E n : /\ n \notin DOMAIN s /\ DOMAIN r = DOMAIN s \cup {n} /\ r[n] = row
           /\ \A i \in DOMAIN s : r[i] = s[i]

(* It is younger than all others and live; its parent is there, one layer   *)
(* above, for the same work and live if it is strategic; no other row has   *)
(* its work, builder or slot.                                               *)
Fits(s, row) ==
    /\ RowSound(row) /\ Live(row) /\ row.id # 0
    /\ \A i \in DOMAIN s : s[i].id < row.id /\ s[i].id # row.id /\ s[i].id # 0 /\ s[i].parent # row.id
    /\ row.parent < row.id /\ row.parent # row.id /\ (row.parent # 0 => row.parent \in Ids(s))
    /\ \A j \in DOMAIN s : row.parent = s[j].id =>
          /\ row.task = s[j].task /\ row.goal = s[j].goal /\ row.detail = s[j].detail
          /\ row.layer = "EconomyAndProduction" => s[j].layer = "StrategicDirector" /\ Live(s[j])
          /\ row.layer = "UnitExecution" => s[j].layer = "EconomyAndProduction"
    /\ \A i \in DOMAIN s :
          /\ Working(row) /\ Working(s[i]) /\ Class(s[i]) = Class(row) => Related(s[i], row)
          /\ row.layer = "UnitExecution" /\ s[i].layer = "UnitExecution" /\ Live(s[i])
                => s[i].parent # row.parent
          /\ row.slot # NoSlot /\ Live(s[i]) /\ s[i].slot = row.slot => Related(s[i], row)
          /\ row.actor # NoActor /\ Live(s[i]) => s[i].actor # row.actor

LEMMA GrownKinship ==
    ASSUME NEW s, NEW row, NEW r, Grown(s, row, r), Fits(s, row), Kinship(s)
    PROVE  Kinship(r)
<1>1. PICK n : /\ n \notin DOMAIN s /\ DOMAIN r = DOMAIN s \cup {n} /\ r[n] = row
               /\ \A i \in DOMAIN s : r[i] = s[i]
  BY DEF Grown
<1>2. Rows(r)
  BY <1>1 DEF Kinship, Rows, Fits
<1>3. Lineage(r)
  <2>1. \A i \in DOMAIN r : r[i].parent < r[i].id
    BY <1>1 DEF Kinship, Lineage, Fits
  <2>2. ASSUME NEW i \in DOMAIN r, NEW j \in DOMAIN r, r[i].parent = r[j].id
        PROVE  /\ r[i].task = r[j].task /\ r[i].goal = r[j].goal /\ r[i].detail = r[j].detail
               /\ r[i].layer = "EconomyAndProduction" => r[j].layer = "StrategicDirector"
               /\ r[i].layer = "UnitExecution" => r[j].layer = "EconomyAndProduction"
    <3>1. CASE i \in DOMAIN s /\ j \in DOMAIN s
      BY <1>1, <2>2, <3>1 DEF Kinship, Lineage
    <3>2. CASE i = n /\ j \in DOMAIN s
      BY <1>1, <2>2, <3>2 DEF Fits
    <3>3. j # n
      BY <1>1, <2>2 DEF Fits
    <3> QED
      BY <1>1, <3>1, <3>2, <3>3
  <2> QED
    BY <2>1, <2>2 DEF Lineage
<1>4. Family(r)
  <2> SUFFICES ASSUME NEW i \in DOMAIN r, NEW j \in DOMAIN r,
                      i # j, Working(r[i]), Working(r[j]), Class(r[i]) = Class(r[j])
               PROVE  Related(r[i], r[j])
    BY DEF Family
  <2>1. CASE i \in DOMAIN s /\ j \in DOMAIN s
    BY <1>1, <2>1 DEF Kinship, Family
  <2>2. CASE i = n
    BY <1>1, <2>2 DEF Fits, Related
  <2>3. CASE j = n
    BY <1>1, <2>3 DEF Fits, Related
  <2> QED
    BY <1>1, <2>1, <2>2, <2>3
<1>5. OneBuilder(r)
  BY <1>1 DEF Kinship, OneBuilder, Fits
<1>6. Standing(r)
  <2>1. Ids(s) \subseteq Ids(r)
    BY <1>1 DEF Ids
  <2> QED
    BY <1>1, <2>1 DEF Kinship, Standing, Fits
<1>7. SlotsExclusive(r)
  BY <1>1 DEF Kinship, SlotsExclusive, Fits, Related
<1>8. ActorsExclusive(r)
  BY <1>1 DEF Kinship, ActorsExclusive, Fits
<1> QED
  BY <1>2, <1>3, <1>4, <1>5, <1>6, <1>7, <1>8 DEF Kinship

LEMMA GrownTogether ==
    ASSUME NEW s, NEW row, NEW r, Grown(s, row, r), Fits(s, row), NEW l, Together(s, l)
    PROVE  Together(r, l)
<1>1. PICK n : /\ n \notin DOMAIN s /\ DOMAIN r = DOMAIN s \cup {n} /\ r[n] = row
               /\ \A i \in DOMAIN s : r[i] = s[i]
  BY DEF Grown
<1> SUFFICES ASSUME NEW i \in DOMAIN r, NEW j \in DOMAIN r, Live(r[i]), r[i].layer = "EconomyAndProduction",
                    r[i].task # 0, r[i].parent = r[j].id, ~l
             PROVE  Live(r[j])
  BY DEF Together
<1>2. j # n
  BY <1>1 DEF Fits
<1>3. CASE i \in DOMAIN s
  BY <1>1, <1>2, <1>3 DEF Together
<1>4. CASE i = n
  BY <1>1, <1>2, <1>4 DEF Fits
<1> QED
  BY <1>1, <1>3, <1>4

(* The plan with the row recorded for its step.                             *)
Enters(plan, row, plan2) ==
    plan2 = [t \in DOMAIN plan \cup {row.task} |-> IF t = row.task THEN row.id ELSE plan[t]]

LEMMA GrownTies ==
    ASSUME NEW s, NEW row, NEW r, Grown(s, row, r), Fits(s, row), NEW plan, Tied(s, plan),
           \A t \in DOMAIN plan : plan[t] # row.id, NEW plan2,
           \/ /\ plan2 = plan
              /\ Working(row) /\ row.task # 0 => row.task \in DOMAIN plan /\ plan[row.task] = row.parent
           \/ /\ Enters(plan, row, plan2)
              /\ row.parent = 0 /\ Working(row)
              /\ \A i \in DOMAIN s : Working(s[i]) => s[i].task # row.task
    PROVE  Tied(r, plan2)
<1>1. PICK n : /\ n \notin DOMAIN s /\ DOMAIN r = DOMAIN s \cup {n} /\ r[n] = row
               /\ \A i \in DOMAIN s : r[i] = s[i]
  BY DEF Grown
<1>2. ASSUME NEW t \in DOMAIN plan2, NEW i \in DOMAIN r, r[i].id = plan2[t]
      PROVE  /\ r[i].task = t /\ r[i].parent = 0 /\ r[i].layer # "UnitExecution"
             /\ Terminal(r[i]) => r[i].slot = NoSlot
  <2>1. CASE i \in DOMAIN s
    <3>1. t \in DOMAIN plan /\ plan2[t] = plan[t]
      BY <1>1, <1>2, <2>1 DEF Fits, Enters
    <3> QED
      BY <1>1, <1>2, <2>1, <3>1 DEF Tied, Owners
  <2>2. CASE i = n
    <3>1. t = row.task /\ row.parent = 0 /\ Working(row)
      BY <1>1, <1>2, <2>2 DEF Enters
    <3> QED
      BY <1>1, <2>2, <3>1 DEF Fits, Working, Live, Terminal, LiveStates, TerminalStates
  <2> QED
    BY <1>1, <2>1, <2>2
<1>3. ASSUME NEW i \in DOMAIN r, Working(r[i]), r[i].task # 0
      PROVE  r[i].task \in DOMAIN plan2 /\ plan2[r[i].task] \in {r[i].id, r[i].parent}
  <2>1. CASE i \in DOMAIN s
    <3>1. s[i].task \in DOMAIN plan /\ plan[s[i].task] \in {s[i].id, s[i].parent}
      BY <1>1, <1>3, <2>1 DEF Tied, Owned
    <3>2. s[i].task \in DOMAIN plan2 /\ plan2[s[i].task] = plan[s[i].task]
      BY <1>1, <1>3, <2>1, <3>1 DEF Enters
    <3> QED
      BY <1>1, <2>1, <3>1, <3>2
  <2>2. CASE i = n
    BY <1>1, <1>3, <2>2 DEF Enters
  <2> QED
    BY <1>1, <2>1, <2>2
<1> QED
  BY <1>2, <1>3 DEF Tied, Owners, Owned

LEMMA GrownApart ==
    ASSUME NEW s, NEW row, NEW r, Grown(s, row, r), NEW plan, NEW buffers, Apart(s, plan, buffers),
           NEW plan2, NEW buffers2, \A c : Parked(buffers2, c) => Parked(buffers, c), ParkedOnce(buffers2),
           Working(row) => ~Parked(buffers2, Class(row)),
           \A t \in DOMAIN plan2 : t \in DOMAIN plan \/ ~Parked(buffers2, [task |-> t])
    PROVE  Apart(r, plan2, buffers2)
BY DEF Grown, Apart

LEMMA GrownDone ==
    ASSUME NEW s, NEW row, NEW r, Grown(s, row, r), Fits(s, row), NEW plan, NEW done, NEW ph, Done(s, plan, done, ph),
           \A t \in DOMAIN plan : plan[t] # row.id, NEW plan2,
           \/ plan2 = plan
           \/ /\ Enters(plan, row, plan2)
              /\ row.task \in done => ph = "reactivate" /\ row.slot = NoSlot
    PROVE  Done(r, plan2, done, ph)
<1>1. PICK n : /\ n \notin DOMAIN s /\ DOMAIN r = DOMAIN s \cup {n} /\ r[n] = row
               /\ \A i \in DOMAIN s : r[i] = s[i]
  BY DEF Grown
<1> SUFFICES ASSUME NEW t \in done \cap DOMAIN plan2, NEW i \in DOMAIN r, r[i].id = plan2[t]
             PROVE  r[i].state = "Completed" \/ (ph = "reactivate" /\ Live(r[i]) /\ r[i].slot = NoSlot)
  BY DEF Done
<1>2. CASE i \in DOMAIN s
  <2>1. t \in DOMAIN plan /\ plan2[t] = plan[t]
    BY <1>1, <1>2 DEF Fits, Enters
  <2> QED
    BY <1>1, <1>2, <2>1 DEF Done
<1>3. CASE i = n
  <2>1. t = row.task /\ row.task \in done /\ ph = "reactivate" /\ row.slot = NoSlot
    BY <1>1, <1>3 DEF Enters
  <2> QED
    BY <1>1, <1>3, <2>1 DEF Fits
<1> QED
  BY <1>1, <1>2, <1>3

LEMMA AppendGrown ==
    ASSUME NEW S, NEW s \in Seq(S), NEW row \in S
    PROVE  Grown(s, row, Append(s, row))
<1>1. Len(s) + 1 \notin DOMAIN s
  OBVIOUS
<1>2. /\ DOMAIN Append(s, row) = DOMAIN s \cup {Len(s) + 1}
      /\ Append(s, row)[Len(s) + 1] = row
      /\ \A i \in DOMAIN s : Append(s, row)[i] = s[i]
  BY AppendProperties
<1> QED
  BY <1>1, <1>2, Zenon DEF Grown

(* What the creators of orders write.                                       *)
LEMMA NewRow ==
    ASSUME NEW layer \in Layers, NEW state \in LiveStates, NEW k \in Key,
           NEW actor \in Actors \cup {NoActor}, NEW slot \in Slots \cup {NoSlot}, NEW parent
    PROVE  /\ NewOrder(layer, state, k, actor, slot) \in Template
           /\ LET row == Numbered(NewOrder(layer, state, k, actor, slot), parent)
              IN  /\ row.id = nextOrderId /\ row.parent = parent /\ row.layer = layer /\ row.state = state
                  /\ row.task = k.task /\ row.goal = k.goal /\ row.detail = k.detail
                  /\ row.actor = actor /\ row.slot = slot /\ row.reason = NoReason /\ row.attempts = 0
                  /\ Live(row) /\ ~Terminal(row)
<1>1. (CHOOSE r \in Ranks : TRUE) \in Ranks
  BY RankAssumption
<1>2. k.task \in TaskIds \cup {0} /\ k.goal \in GoalIds \cup {0} /\ k.detail \in Details
  BY DEF Key
<1>3. NewOrder(layer, state, k, actor, slot) \in Template
  BY <1>1, <1>2 DEF NewOrder, Template
<1>4. state \notin TerminalStates
  BY DEF LiveStates, TerminalStates
<1> QED
  BY <1>3, <1>4 DEF NewOrder, Numbered, Live, Terminal

(* A row for the next id is younger than everything there is.               *)
LEMMA Youngest ==
    ASSUME Sound
    PROVE  /\ nextOrderId \in Nat /\ nextOrderId # 0
           /\ \A i \in DOMAIN orders : /\ orders[i].id < nextOrderId /\ orders[i].id # nextOrderId
                                       /\ orders[i].id # 0 /\ orders[i].parent # nextOrderId
           /\ \A t \in DOMAIN planOrder : planOrder[t] # nextOrderId
<1>1. nextOrderId \in Nat /\ nextOrderId # 0
  BY SoundParts
<1>2. ASSUME NEW i \in DOMAIN orders
      PROVE  /\ orders[i].id < nextOrderId /\ orders[i].id # nextOrderId
             /\ orders[i].id # 0 /\ orders[i].parent # nextOrderId
  <2>1. orders[i].parent < orders[i].id /\ orders[i].id < nextOrderId
    BY SoundParts DEF Kinship, Lineage
  <2> QED
    BY <1>1, <2>1, SoundParts
<1>3. ASSUME NEW t \in DOMAIN planOrder PROVE planOrder[t] # nextOrderId
  BY <1>1 DEF Sound, WorkTyped, Coherent, TypeOK
<1> QED
  BY <1>1, <1>2, <1>3

LEMMA StaysBehind ==
    ASSUME Sound, NEW s, NEW row, Grown(s, row, orders'), row.id = nextOrderId, DOMAIN s = DOMAIN orders,
           \A i \in DOMAIN orders : s[i].id = orders[i].id /\ (Live(s[i]) => Live(orders[i]))
    PROVE  StaysEnded
<1>1. PICK n : /\ n \notin DOMAIN s /\ DOMAIN orders' = DOMAIN s \cup {n} /\ orders'[n] = row
               /\ \A i \in DOMAIN s : orders'[i] = s[i]
  BY DEF Grown
<1> SUFFICES ASSUME NEW i \in DOMAIN orders, NEW j \in DOMAIN orders', orders[i].id = orders'[j].id,
                    Live(orders'[j])
             PROVE  Live(orders[i])
  BY DEF StaysEnded
<1>2. j # n
  BY <1>1, Youngest
<1>3. orders[j].id = orders[i].id /\ Live(orders[j]) /\ j \in DOMAIN orders
  BY <1>1, <1>2
<1> QED
  BY <1>3, OneRow

(* An order enqueued for work that nobody does yet, or below its parent.    *)
LEMMA GrownSound ==
    ASSUME Sound, NEW t \in Template, NEW parent \in Nat, EnqueueOrder(t, parent),
           NEW row, row = Numbered(t, parent), Fits(orders, row), Working(row),
           UNCHANGED <<completed, wall, remapped, failures, sent, observed, late, phase>>,
           todo' \subseteq todo,
           blocked' \in [Buffers -> Seq(WorkRecord)], \A b \in Buffers : Len(blocked'[b]) <= Capacity,
           \A c : Parked(blocked', c) => Parked(blocked, c), ParkedOnce(blocked'),
           ~Parked(blocked', Class(row)),
           \/ /\ planOrder' = planOrder
              /\ row.task # 0 => row.task \in DOMAIN planOrder /\ planOrder[row.task] = parent
           \/ /\ row.task # 0 /\ planOrder' = Recorded(row.task, nextOrderId) /\ parent = 0
              /\ \A i \in DOMAIN orders : Working(orders[i]) => orders[i].task # row.task
              /\ row.task \in completed => phase = "reactivate" /\ row.slot = NoSlot
    PROVE  Sound' /\ StaysEnded
<1>1. row \in Order /\ row.id = nextOrderId /\ row.parent = parent /\ row.task \in TaskIds \cup {0}
  <2>1. row \in Order /\ row.id = nextOrderId
    BY NumberedTyped, SoundParts
  <2>2. row.parent = parent
    BY DEF Numbered
  <2> QED
    BY <2>1, <2>2 DEF Order
<1>2. /\ EnqueueAfter(orders, t, parent) /\ orders' = Append(orders, row) /\ nextOrderId' = nextOrderId + 1
      /\ batchDepth' = batchDepth
  BY DEF EnqueueOrder, EnqueueAfter
<1>3. Grown(orders, row, orders')
  BY <1>1, <1>2, AppendGrown, SoundParts
<1>4. /\ DOMAIN orders \subseteq DOMAIN orders'
      /\ \A i \in DOMAIN orders : orders'[i] = orders[i]
  BY <1>3 DEF Grown
<1>5. /\ DOMAIN planOrder' \subseteq TaskIds /\ planOrder' \in [DOMAIN planOrder' -> Nat]
      /\ \A u \in DOMAIN planOrder' : planOrder'[u] # 0 /\ planOrder'[u] < nextOrderId'
  <2>1. /\ DOMAIN planOrder \subseteq TaskIds /\ planOrder \in [DOMAIN planOrder -> Nat]
        /\ \A u \in DOMAIN planOrder : planOrder[u] # 0 /\ planOrder[u] < nextOrderId
    BY DEF Sound, WorkTyped, Coherent, TypeOK
  <2>2. nextOrderId \in Nat /\ nextOrderId # 0
    BY Youngest
  <2>3. CASE planOrder' = planOrder
    <3>1. \A u \in DOMAIN planOrder : planOrder[u] < nextOrderId + 1
      BY <2>1, <2>2
    <3> QED
      BY <2>1, <2>3, <3>1, <1>2
  <2>4. CASE row.task # 0 /\ planOrder' = Recorded(row.task, nextOrderId)
    <3>1. row.task \in TaskIds
      BY <1>1, <2>4
    <3>2. DOMAIN planOrder' = DOMAIN planOrder \cup {row.task}
      BY <2>4 DEF Recorded
    <3>3. \A u \in DOMAIN planOrder' : planOrder'[u] = IF u = row.task THEN nextOrderId ELSE planOrder[u]
      BY <2>4 DEF Recorded
    <3>4. \A u \in DOMAIN planOrder' : planOrder'[u] \in Nat /\ planOrder'[u] # 0 /\ planOrder'[u] < nextOrderId'
      BY <2>1, <2>2, <3>2, <3>3, <1>2
    <3>5. planOrder' = [u \in DOMAIN planOrder' |-> planOrder'[u]]
      BY <2>4 DEF Recorded
    <3> QED
      BY <2>1, <3>1, <3>2, <3>4, <3>5
  <2> QED
    BY <2>3, <2>4
<1>6. Coherent'
  <2>1. \A i \in DOMAIN orders : orders[i].id = orders[i].id
    OBVIOUS
  <2> QED
    BY <1>2, <1>5, SoundParts, EnqueueAfterKeeps
<1>7. Kinship(orders')
  BY <1>3, SoundParts, GrownKinship
<1>8. Together(orders', late)
  BY <1>3, GrownTogether DEF Sound
<1>9. \A u \in DOMAIN planOrder : planOrder[u] # row.id
  BY <1>1, Youngest
<1>10. row.task # 0 /\ planOrder' = Recorded(row.task, nextOrderId) =>
           Enters(planOrder, row, planOrder')
  BY <1>1 DEF Recorded, Enters
<1>11. Tied(orders', planOrder')
  <2>1. CASE planOrder' = planOrder /\ (row.task # 0 => row.task \in DOMAIN planOrder /\ planOrder[row.task] = parent)
    BY <2>1, <1>1, <1>3, <1>9, GrownTies DEF Sound
  <2>2. CASE /\ row.task # 0 /\ planOrder' = Recorded(row.task, nextOrderId) /\ parent = 0
             /\ \A i \in DOMAIN orders : Working(orders[i]) => orders[i].task # row.task
    BY <2>2, <1>1, <1>3, <1>9, <1>10, GrownTies DEF Sound
  <2> QED
    BY <2>1, <2>2
<1>12. Done(orders', planOrder', completed, phase)
  <2>1. Done(orders, planOrder, completed, phase)
    BY DEF Sound
  <2> QED
    BY <2>1, <1>1, <1>3, <1>9, <1>10, GrownDone
<1>13. Apart(orders', planOrder', blocked')
  <2>1. \A u \in DOMAIN planOrder' : u \in DOMAIN planOrder \/ ~Parked(blocked', [task |-> u])
    <3>1. row.task # 0 => Class(row) = [task |-> row.task]
      BY <1>1, OrderKey
    <3> QED
      BY <3>1 DEF Recorded
  <2>2. Apart(orders, planOrder, blocked)
    BY DEF Sound
  <2> QED
    BY <2>1, <2>2, <1>3, GrownApart
<1>14. WorkTyped'
  <2>1. todo' \subseteq DOMAIN orders'
    BY <1>4 DEF Sound, WorkTyped
  <2> QED
    BY <2>1, <1>2, <1>5 DEF Sound, WorkTyped
<1>15. Visits'
  BY <1>4 DEF Sound, WorkTyped, Visits
<1>16. StaysEnded
  BY <1>1, <1>3, StaysBehind
<1> QED
  BY <1>6, <1>7, <1>8, <1>11, <1>12, <1>13, <1>14, <1>15, <1>16 DEF Sound
-----------------------------------------------------------------------------
(* What the lookups of the admission tests say.                             *)

LEMMA HeldIsParked ==
    ASSUME Sound, NEW k
    PROVE  HasEquivalentBlockedTask(k) <=> Parked(blocked, ClassOf(k))
<1>1. DOMAIN blocked = Buffers
  BY DEF Sound, WorkTyped
<1> QED
  BY <1>1 DEF HasEquivalentBlockedTask, Ring!Holds, Parked

(* For work without a step the index misses nothing that matches.           *)
LEMMA NotActive ==
    ASSUME Sound, NEW k \in Key, k.task = 0, FALSE \in EquivalentActiveTaskAnswers(k),
           NEW i \in DOMAIN orders, Live(orders[i])
    PROVE  Class(orders[i]) # ClassOf(k)
<1> DEFINE l == KeyOf(orders[i])
<1>1. l \in Key /\ l \in LiveKeys(orders)
  BY SoundParts, OrderKey DEF LiveKeys, LiveAt, Live
<1>2. ASSUME Class(orders[i]) = ClassOf(k) PROVE Matches(l, k) /\ l = k
  <2>1. Matches(l, k)
    BY <1>1, <1>2, ClassLemma DEF Class
  <2>2. l.task = 0 /\ l.goal = k.goal /\ l.detail = k.detail
    BY <2>1 DEF Matches
  <2> QED
    BY <1>1, <2>1, <2>2 DEF Key
<1>3. CASE derivedDirty
  <2>1. ~ScanAnswer(LiveKeys(orders), k)
    BY <1>3 DEF EquivalentActiveTaskAnswers
  <2>2. ~Matches(l, k)
    BY <1>1, <2>1 DEF ScanAnswer
  <2> QED
    BY <1>2, <2>2
<1>4. CASE ~derivedDirty
  <2>1. derived = View(orders)
    BY <1>4 DEF Sound, Coherent, DerivedAgrees
  <2>2. l \in LiveKeys(derived)
    <3>1. i \in LiveAt(derived) /\ KeyOf(derived[i]) = l
      BY <2>1 DEF View, Seen, LiveAt, Live, KeyOf
    <3> QED
      BY <3>1 DEF LiveKeys
  <2>3. FALSE \in IndexAnswers(LiveKeys(derived), k)
    BY <1>4 DEF EquivalentActiveTaskAnswers
  <2>4. l # k
    BY <2>2, <2>3 DEF IndexAnswers, SameHash
  <2> QED
    BY <1>2, <2>4
<1> QED
  BY <1>3, <1>4

(* The child that is not found is not there.                                *)
LEMMA NoChild ==
    ASSUME Sound, NEW p \in DOMAIN orders, NEW layer \in Layers,
           TryGetActiveChildOrderIndex(orders[p].id, layer) = {},
           NEW i \in DOMAIN orders, Live(orders[i]), orders[i].parent = orders[p].id
    PROVE  orders[i].layer # layer
<1> DEFINE C == {j \in LiveAt(orders) : orders[j].parent = orders[p].id /\ orders[j].layer = layer}
<1>1. First(C) = {}
  <2>1. orders[p].id \in Nat \ {0} /\ TypeOK
    BY SoundParts
  <2>2. ScannedChild(orders[p].id, layer) = {}
    <3>1. CASE derivedDirty
      BY <3>1 DEF TryGetActiveChildOrderIndex
    <3>2. CASE ~derivedDirty
      BY <2>1, <3>2, ViewAnswers DEF TryGetActiveChildOrderIndex, Sound, Coherent, DerivedAgrees
    <3> QED
      BY <3>1, <3>2
  <2> QED
    BY <2>2 DEF ScannedChild
<1>2. C \in SUBSET Nat
  BY SoundParts DEF LiveAt
<1>3. C = {}
  <2> HIDE DEF C
  <2>1. C # {} => \E x \in C : \A y \in C : x <= y
    BY <1>2, LeastOf
  <2> QED
    BY <1>1, <2>1 DEF First
<1> QED
  BY <1>3 DEF LiveAt, Live
-----------------------------------------------------------------------------
(* The steps that enqueue orders.                                           *)

(* A strategic or economy order without a parent fits when nobody works on  *)
(* its task.                                                                *)
LEMMA RootFits ==
    ASSUME Sound, NEW layer \in {"StrategicDirector", "EconomyAndProduction"},
           NEW k \in StepKeys,
           \A i \in DOMAIN orders : Working(orders[i]) => Class(orders[i]) # ClassOf(k)
    PROVE  LET row == Numbered(NewOrder(layer, "Queued", k, NoActor, NoSlot), 0)
           IN  /\ NewOrder(layer, "Queued", k, NoActor, NoSlot) \in Template
               /\ Fits(orders, row) /\ Working(row) /\ Class(row) = ClassOf(k)
               /\ row.task = k.task /\ row.slot = NoSlot
<1> DEFINE row == Numbered(NewOrder(layer, "Queued", k, NoActor, NoSlot), 0)
<1>1. k \in Key /\ (k.task # 0 => k.detail \in Slots) /\ layer \in Layers /\ "Queued" \in LiveStates
  BY DEF StepKeys, Layers, LiveStates
<1>2. /\ NewOrder(layer, "Queued", k, NoActor, NoSlot) \in Template
      /\ row.id = nextOrderId /\ row.parent = 0 /\ row.layer = layer /\ row.state = "Queued"
      /\ row.task = k.task /\ row.goal = k.goal /\ row.detail = k.detail
      /\ row.actor = NoActor /\ row.slot = NoSlot /\ row.reason = NoReason /\ row.attempts = 0
      /\ Live(row) /\ ~Terminal(row)
  BY <1>1, NewRow
<1> HIDE DEF row
<1>3. KeyOf(row) = k
  BY <1>1, <1>2 DEF KeyOf, Key
<1>4. Class(row) = ClassOf(k) /\ Working(row)
  BY <1>2, <1>3 DEF Class, Working
<1>5. RowSound(row)
  BY <1>1, <1>2 DEF RowSound
<1>6. /\ nextOrderId \in Nat /\ nextOrderId # 0 /\ 0 < nextOrderId
      /\ \A i \in DOMAIN orders : /\ orders[i].id < nextOrderId /\ orders[i].id # nextOrderId
                                  /\ orders[i].id # 0 /\ orders[i].parent # nextOrderId
  BY Youngest
<1>7. Fits(orders, row)
  BY <1>2, <1>4, <1>5, <1>6 DEF Fits
<1> QED
  BY <1>2, <1>4, <1>7 DEF row

LEMMA SeedOpeningStepSound == ASSUME NEW t \in TaskIds PROVE Sound /\ SeedOpeningStep(t) => Sound' /\ StaysEnded
<1> SUFFICES ASSUME Sound, SeedOpeningStep(t) PROVE Sound' /\ StaysEnded
  OBVIOUS
<1> DEFINE k == StepKey(t)
           row == Numbered(NewOrder("StrategicDirector", "Queued", k, NoActor, NoSlot), 0)
<1>1. /\ phase = "opening" /\ t \notin DOMAIN planOrder /\ t \notin completed /\ ~HasEquivalentBlockedTask(k)
      /\ planOrder' = Recorded(t, nextOrderId)
      /\ EnqueueOrder(NewOrder("StrategicDirector", "Queued", k, NoActor, NoSlot), 0)
      /\ UNCHANGED <<phase, todo, completed, wall, remapped, failures, blocked, sent, observed, late>>
  BY DEF SeedOpeningStep, HasSeededStep, MayAdmit, planVars, worldVars
<1>2. k \in StepKeys /\ k.task = t /\ t # 0 /\ k \in Key
  <2>1. EffectiveSlot(t) \in Slots
    BY StepAssumption DEF EffectiveSlot, Sound, WorkTyped, Remaps
  <2> QED
    BY <2>1, DetailAssumption, TaskIdAssumption DEF StepKey, StepKeys, Key
<1>3. \A i \in DOMAIN orders : Working(orders[i]) => orders[i].task # t
  BY <1>1, <1>2 DEF Sound, Tied, Owned
<1>4. \A i \in DOMAIN orders : Working(orders[i]) => Class(orders[i]) # ClassOf(k)
  <2> SUFFICES ASSUME NEW i \in DOMAIN orders, Working(orders[i]), Class(orders[i]) = ClassOf(k) PROVE FALSE
    OBVIOUS
  <2>1. Matches(KeyOf(orders[i]), k) /\ KeyOf(orders[i]).task = orders[i].task
    BY <1>2, SoundParts, OrderKey, ClassLemma DEF Class
  <2> QED
    BY <1>2, <1>3, <2>1 DEF Matches
<1>5. /\ NewOrder("StrategicDirector", "Queued", k, NoActor, NoSlot) \in Template
      /\ Fits(orders, row) /\ Working(row) /\ Class(row) = ClassOf(k) /\ row.task = t
  BY <1>2, <1>4, RootFits
<1>6. ~Parked(blocked, ClassOf(k))
  BY <1>1, HeldIsParked
<1>7. /\ blocked' \in [Buffers -> Seq(WorkRecord)] /\ \A b \in Buffers : Len(blocked'[b]) <= Capacity
      /\ blocked' = blocked /\ ParkedOnce(blocked)
  BY <1>1 DEF Sound, WorkTyped, Apart
<1> HIDE DEF row, k
<1> QED
  BY <1>1, <1>2, <1>3, <1>5, <1>6, <1>7, GrownSound DEF row

LEMMA SeedGoalSound == ASSUME NEW g \in GoalIds PROVE Sound /\ SeedGoal(g) => Sound' /\ StaysEnded
<1> SUFFICES ASSUME Sound, SeedGoal(g) PROVE Sound' /\ StaysEnded
  OBVIOUS
<1> DEFINE k == GoalKey(g)
           row == Numbered(NewOrder("StrategicDirector", "Queued", k, NoActor, NoSlot), 0)
<1>1. /\ phase = "goals" /\ FALSE \in EquivalentActiveTaskAnswers(k) /\ ~HasEquivalentBlockedTask(k)
      /\ EnqueueOrder(NewOrder("StrategicDirector", "Queued", k, NoActor, NoSlot), 0)
      /\ UNCHANGED <<planOrder, phase, todo, completed, wall, remapped, failures, blocked, sent, observed, late>>
  BY DEF SeedGoal, MayAdmit, planVars, worldVars
<1>2. k \in StepKeys /\ k.task = 0 /\ k \in Key
  BY DetailAssumption DEF GoalKey, StepKeys, Key
<1>3. \A i \in DOMAIN orders : Working(orders[i]) => Class(orders[i]) # ClassOf(k)
  BY <1>1, <1>2, NotActive DEF Working
<1>4. /\ NewOrder("StrategicDirector", "Queued", k, NoActor, NoSlot) \in Template
      /\ Fits(orders, row) /\ Working(row) /\ Class(row) = ClassOf(k) /\ row.task = 0
  BY <1>2, <1>3, RootFits
<1>5. ~Parked(blocked, ClassOf(k))
  BY <1>1, HeldIsParked
<1>6. /\ blocked' \in [Buffers -> Seq(WorkRecord)] /\ \A b \in Buffers : Len(blocked'[b]) <= Capacity
      /\ blocked' = blocked /\ ParkedOnce(blocked)
  BY <1>1 DEF Sound, WorkTyped, Apart
<1> HIDE DEF row, k
<1> QED
  BY <1>1, <1>2, <1>4, <1>5, <1>6, GrownSound DEF row

(* An economy order fits below a strategic order that has none.             *)
LEMMA ChildFits ==
    ASSUME Sound, NEW p \in DOMAIN orders, orders[p].layer = "StrategicDirector", Live(orders[p]),
           TryGetActiveChildOrderIndex(orders[p].id, "EconomyAndProduction") = {}
    PROVE  LET o == orders[p]
               row == Numbered(NewOrder("EconomyAndProduction", "Queued", KeyOf(o), NoActor, NoSlot), o.id)
           IN  /\ NewOrder("EconomyAndProduction", "Queued", KeyOf(o), NoActor, NoSlot) \in Template
               /\ Fits(orders, row) /\ Working(row) /\ Class(row) = Class(o) /\ row.task = o.task
<1> DEFINE o == orders[p]
           row == Numbered(NewOrder("EconomyAndProduction", "Queued", KeyOf(o), NoActor, NoSlot), o.id)
<1>1. /\ KeyOf(o) \in Key /\ o \in Order /\ RowSound(o) /\ o.id # 0
      /\ "EconomyAndProduction" \in Layers /\ "Queued" \in LiveStates
  BY SoundParts, OrderKey DEF Layers, LiveStates
<1>2. KeyOf(o).task = o.task /\ KeyOf(o).goal = o.goal /\ KeyOf(o).detail = o.detail
  BY DEF KeyOf
<1>3. /\ NewOrder("EconomyAndProduction", "Queued", KeyOf(o), NoActor, NoSlot) \in Template
      /\ row.id = nextOrderId /\ row.parent = o.id /\ row.layer = "EconomyAndProduction" /\ row.state = "Queued"
      /\ row.task = o.task /\ row.goal = o.goal /\ row.detail = o.detail
      /\ row.actor = NoActor /\ row.slot = NoSlot /\ row.reason = NoReason /\ row.attempts = 0
      /\ Live(row) /\ ~Terminal(row)
  BY <1>1, <1>2, NewRow
<1> HIDE DEF row
<1>4. Class(row) = Class(o) /\ Working(row)
  BY <1>3 DEF Class, KeyOf, Working
<1>5. RowSound(row)
  BY <1>1, <1>3 DEF RowSound
<1>6. /\ nextOrderId \in Nat /\ nextOrderId # 0
      /\ \A i \in DOMAIN orders : /\ orders[i].id < nextOrderId /\ orders[i].id # nextOrderId
                                  /\ orders[i].id # 0 /\ orders[i].parent # nextOrderId
  BY Youngest
<1>7. \A j \in DOMAIN orders : row.parent = orders[j].id => j = p
  BY <1>3, OneRow
<1>8. ASSUME NEW i \in DOMAIN orders, Working(orders[i]), Class(orders[i]) = Class(row)
      PROVE  Related(orders[i], row)
  <2>1. CASE i = p
    BY <2>1, <1>3 DEF Related
  <2>2. CASE i # p
    <3>1. Related(orders[i], o)
      <4>1. Working(o)
        BY DEF Working
      <4> QED
        BY <2>2, <4>1, <1>4, <1>8 DEF Sound, Kinship, Family
    <3>2. orders[i].parent = o.id
      BY <3>1, <1>1, <1>6 DEF Related, RowSound
    <3>3. orders[i].layer # "EconomyAndProduction"
      BY <1>1, <1>8, <3>2, NoChild DEF Working
    <3>4. orders[i].layer # "StrategicDirector"
      BY <3>2, <1>1, SoundParts DEF RowSound
    <3> QED
      BY <3>3, <3>4, <1>8, SoundParts DEF RowSound, Working
  <2> QED
    BY <2>1, <2>2
<1>9. Fits(orders, row)
  <2>1. row.parent < row.id /\ row.parent # row.id /\ row.parent \in Ids(orders)
    BY <1>3, <1>6 DEF Ids
  <2> QED
    BY <1>3, <1>5, <1>6, <1>7, <1>8, <2>1 DEF Fits
<1> QED
  BY <1>3, <1>4, <1>9 DEF row

LEMMA EnsureStrategicChildSound == ASSUME NEW i \in todo PROVE Sound /\ EnsureStrategicChild(i) => Sound' /\ StaysEnded
<1> SUFFICES ASSUME Sound, EnsureStrategicChild(i) PROVE Sound' /\ StaysEnded
  OBVIOUS
<1> DEFINE o == orders[i]
           new == NewOrder("EconomyAndProduction", "Queued", KeyOf(o), NoActor, NoSlot)
           row == Numbered(new, o.id)
<1>1. /\ phase = "children" /\ todo' = todo \ {i}
      /\ IF LacksChild(o) THEN EnqueueOrder(new, o.id) ELSE UNCHANGED vars
      /\ UNCHANGED <<planOrder, phase, completed, wall, remapped, failures, blocked, sent, observed, late>>
  BY DEF EnsureStrategicChild, planVars, worldVars
<1>2. i \in DOMAIN orders /\ o.layer = "StrategicDirector" /\ o \in Order /\ o.parent = 0 /\ o.id \in Nat
  BY <1>1, SoundParts DEF WorkTyped, Sound, Visits, RowSound
<1>3. CASE LacksChild(o)
  <2>1. Live(o) /\ TryGetActiveChildOrderIndex(o.id, "EconomyAndProduction") = {}
    BY <1>2, <1>3, OrderFields DEF LacksChild, Terminal, Live, States
  <2>2. new \in Template /\ Fits(orders, row) /\ Working(row) /\ Class(row) = Class(o) /\ row.task = o.task
    BY <1>2, <2>1, ChildFits
  <2>3. ~Parked(blocked, Class(row)) /\ Working(o)
    BY <1>2, <2>1, <2>2 DEF Sound, Apart, Working
  <2>4. row.task # 0 => row.task \in DOMAIN planOrder /\ planOrder[row.task] = o.id
    BY <1>2, <2>2, <2>3 DEF Sound, Tied, Owned, WorkTyped
  <2>5. /\ blocked' \in [Buffers -> Seq(WorkRecord)] /\ \A b \in Buffers : Len(blocked'[b]) <= Capacity
        /\ blocked' = blocked /\ ParkedOnce(blocked)
    BY <1>1 DEF Sound, WorkTyped, Apart
  <2> HIDE DEF row, new
  <2> QED
    BY <1>1, <1>2, <1>3, <2>2, <2>3, <2>4, <2>5, GrownSound DEF row
<1>4. CASE ~LacksChild(o)
  <2>1. UNCHANGED <<orders, nextOrderId, idToIndex, batchDepth, derivedDirty, derived, prioritiesDirty, planOrder>>
    BY <1>1, <1>4 DEF vars
  <2>2. Coherent'
    BY <2>1, IdleKeeps DEF Sound, Coherent, TypeOK
  <2>3. WorkTyped' /\ Visits'
    BY <1>1, <2>1 DEF Sound, WorkTyped, Visits
  <2> QED
    BY <1>1, <2>1, <2>2, <2>3, DoneAgain, KeptSound DEF Sound
<1> QED
  BY <1>3, <1>4

LEMMA ReactivateSound ==
    ASSUME NEW b \in DOMAIN blocked, NEW i \in DOMAIN blocked[b] PROVE Sound /\ Reactivate(b, i) => Sound' /\ StaysEnded
<1> SUFFICES ASSUME Sound, Reactivate(b, i) PROVE Sound' /\ StaysEnded
  OBVIOUS
<1> DEFINE r == blocked[b][i]
           rest == SubSeq(blocked[b], 1, i - 1) \o SubSeq(blocked[b], i + 1, Len(blocked[b]))
           new == NewOrder(r.layer, "Queued", r.key, NoActor, NoSlot)
           row == Numbered(new, 0)
<1>1. /\ phase = "reactivate" /\ UNCHANGED <<phase, todo, completed, wall, remapped, failures, sent, observed, late>>
      /\ \/ /\ blocked' = [blocked EXCEPT ![b] = rest] \/ blocked' = [blocked EXCEPT ![b] = Append(rest, r)]
            /\ prioritiesDirty' = TRUE
            /\ UNCHANGED <<orders, nextOrderId, idToIndex, batchDepth, derivedDirty, derived, planOrder>>
         \/ /\ blocked' = [blocked EXCEPT ![b] = rest]
            /\ EnqueueOrder(new, 0)
            /\ planOrder' = IF r.key.task # 0 THEN Recorded(r.key.task, nextOrderId) ELSE planOrder
  BY DEF Reactivate, planVars, worldVars
<1>2. /\ b \in Buffers /\ blocked \in [Buffers -> Seq(WorkRecord)] /\ ParkedOnce(blocked)
      /\ \A d \in Buffers : Len(blocked[d]) <= Capacity /\ Len(blocked[d]) \in Nat
  BY DEF Sound, WorkTyped, Apart
<1>3. rest \in Seq(WorkRecord) /\ CutAt(rest, blocked[b], i)
  <2>1. blocked[b] \in Seq(WorkRecord)
    BY <1>2
  <2>2. /\ rest \in Seq(WorkRecord) /\ Len(rest) = Len(blocked[b]) - 1
        /\ \A k \in DOMAIN rest : rest[k] = blocked[b][IF k < i THEN k ELSE k + 1]
    BY <2>1, CutLemma
  <2> HIDE DEF rest
  <2> QED
    BY <2>2 DEF CutAt
<1>4. r \in WorkRecord /\ r.key \in StepKeys /\ r.sig = ClassOf(r.key)
      /\ r.layer \in {"StrategicDirector", "EconomyAndProduction"} /\ r.key \in Key
  <2>1. r \in WorkRecord
    BY <1>2
  <2> HIDE DEF r
  <2> QED
    BY <2>1 DEF WorkRecord, StepKeys
<1> HIDE DEF rest
<1>5. ASSUME blocked' = [blocked EXCEPT ![b] = rest]
      PROVE  /\ blocked' \in [Buffers -> Seq(WorkRecord)]
             /\ \A d \in Buffers : Len(blocked'[d]) <= Len(blocked[d])
             /\ \A c : Parked(blocked', c) => Parked(blocked, c)
             /\ ~Parked(blocked', r.sig)
             /\ ParkedOnce(blocked')
  BY <1>2, <1>3, <1>5, TakenOut
<1>6. ASSUME blocked' = [blocked EXCEPT ![b] = Append(rest, r)]
      PROVE  /\ blocked' \in [Buffers -> Seq(WorkRecord)]
             /\ \A d \in Buffers : Len(blocked'[d]) <= Len(blocked[d])
             /\ \A c : Parked(blocked', c) => Parked(blocked, c)
             /\ ParkedOnce(blocked')
  <2> DEFINE back == Append(rest, r)
  <2>1. Behind(back, rest, r) /\ blocked' = [blocked EXCEPT ![b] = back]
    BY <1>6 DEF Behind
  <2> HIDE DEF back
  <2> QED
    BY <1>2, <1>3, <2>1, PutBack
<1> HIDE DEF r
<1>7. /\ blocked' \in [Buffers -> Seq(WorkRecord)]
      /\ \A d \in Buffers : Len(blocked'[d]) <= Len(blocked[d])
      /\ \A c : Parked(blocked', c) => Parked(blocked, c)
      /\ ParkedOnce(blocked')
  BY <1>1, <1>5, <1>6
<1>8. \A d \in Buffers : Len(blocked'[d]) <= Capacity
  <2> SUFFICES ASSUME NEW d \in Buffers PROVE Len(blocked'[d]) <= Capacity
    OBVIOUS
  <2>1. Len(blocked'[d]) \in Nat
    BY <1>7
  <2> QED
    BY <1>2, <1>7, <2>1, WorkBoundAssumption
<1>9. CASE UNCHANGED <<orders, nextOrderId, idToIndex, batchDepth, derivedDirty, derived, planOrder>>
           /\ prioritiesDirty' = TRUE
  <2>1. Coherent'
    BY <1>9, IdleKeeps DEF Sound
  <2>2. WorkTyped' /\ Visits'
    BY <1>1, <1>7, <1>8, <1>9 DEF Sound, WorkTyped, Visits
  <2>3. Apart(orders, planOrder, blocked')
    BY <1>7 DEF Sound, Apart
  <2> QED
    BY <1>1, <1>9, <2>1, <2>2, <2>3, DoneAgain, KeptSound DEF Sound
<1>10. CASE /\ blocked' = [blocked EXCEPT ![b] = rest]
            /\ EnqueueOrder(new, 0)
            /\ planOrder' = IF r.key.task # 0 THEN Recorded(r.key.task, nextOrderId) ELSE planOrder
  <2>1. Parked(blocked, r.sig)
    BY <1>2 DEF Parked, r
  <2>2. \A j \in DOMAIN orders : Working(orders[j]) => Class(orders[j]) # ClassOf(r.key)
    BY <2>1, <1>4 DEF Sound, Apart
  <2>3. new \in Template /\ Fits(orders, row) /\ Working(row) /\ Class(row) = ClassOf(r.key)
        /\ row.task = r.key.task /\ row.slot = NoSlot
    BY <2>2, <1>4, RootFits
  <2>4. ~Parked(blocked', Class(row))
    BY <2>3, <1>4, <1>5, <1>10
  <2>5. ASSUME row.task # 0, NEW j \in DOMAIN orders, Working(orders[j]), orders[j].task = row.task PROVE FALSE
    <3>1. KeyOf(orders[j]) \in Key /\ Matches(KeyOf(orders[j]), r.key)
      BY <2>3, <2>5, SoundParts, OrderKey DEF Matches
    <3>2. Class(orders[j]) = ClassOf(r.key)
      BY <1>4, <3>1, ClassLemma DEF Class
    <3> QED
      BY <2>2, <2>5, <3>2
  <2>6. \/ planOrder' = planOrder /\ row.task = 0
        \/ row.task # 0 /\ planOrder' = Recorded(row.task, nextOrderId)
    BY <1>10, <2>3
  <2>7. EnqueueOrder(new, 0) /\ todo' \subseteq todo
    BY <1>1, <1>10
  <2> HIDE DEF row, new
  <2> QED
    BY <1>1, <1>7, <1>8, <2>3, <2>4, <2>5, <2>6, <2>7, GrownSound DEF row
<1> QED
  BY <1>1, <1>9, <1>10
-----------------------------------------------------------------------------
(* The steps that rewrite rows inside a batch.                              *)

LEMMA ApplyKeeps ==
    ASSUME Coherent, batchDepth # 0, NEW r \in Seq(Order), DOMAIN r = DOMAIN orders,
           \A i \in DOMAIN orders : r[i].id = orders[i].id, Apply(r),
           DOMAIN planOrder' \subseteq TaskIds, planOrder' \in [DOMAIN planOrder' -> Nat]
    PROVE  Coherent'
<1>1. /\ orders' = r /\ derivedDirty' = (derivedDirty \/ View(r) # View(orders)) /\ prioritiesDirty' = TRUE
      /\ nextOrderId' = nextOrderId /\ idToIndex' = idToIndex /\ batchDepth' = batchDepth /\ derived' = derived
  BY DEF Apply
<1>2. TypeOK'
  BY <1>1 DEF Coherent, TypeOK
<1>3. IndexExact'
  <2>1. Ids(r) = Ids(orders)
    BY DEF Ids
  <2> QED
    BY <1>1, <2>1 DEF Coherent, IndexExact
<1>4. IdsAscending'
  BY <1>1 DEF Coherent, IdsAscending
<1>5. DerivedAgrees'
  BY <1>1 DEF Coherent, DerivedAgrees
<1> QED
  BY <1>2, <1>3, <1>4, <1>5 DEF Coherent

LEMMA AdvanceSound ==
    ASSUME Sound, batchDepth # 0, NEW r, Apply(r), Advances(orders, r), SlotsKept(orders, r),
           \A i \in DOMAIN orders : Terminal(r[i]) /\ ~Terminal(orders[i]) => r[i].slot = NoSlot,
           UNCHANGED <<planOrder, blocked>>,
           Together(r, late'), Done(r, planOrder, completed', phase'), WorkTyped', Visits'
    PROVE  Sound' /\ StaysEnded
<1>1. orders' = r /\ r \in Seq(Order) /\ DOMAIN r = DOMAIN orders
  BY DEF Apply, Advances
<1>2. \A i \in DOMAIN orders : r[i].id = orders[i].id
  BY DEF Advances, SameWork
<1>3. Coherent'
  BY <1>1, <1>2, ApplyKeeps DEF Sound, Coherent, TypeOK
<1>4. Kinship(r)
  BY AdvanceKinship, SoundParts
<1>5. Tied(r, planOrder)
  BY AdvanceTies DEF Sound
<1>6. Apart(r, planOrder, blocked)
  BY AdvanceApart DEF Sound
<1>7. StaysEnded
  BY <1>1, <1>2, StaysInPlace DEF Advances
<1> QED
  BY <1>1, <1>3, <1>4, <1>5, <1>6, <1>7 DEF Sound

(* Rows that end leave everything else of the table as it is.               *)
EndedAt(s, E, state) == [i \in DOMAIN s |-> IF i \in E THEN Moved(s[i], state) ELSE s[i]]

LEMMA EndedRows ==
    ASSUME NEW s \in Seq(Order), Rows(s), NEW E \in SUBSET DOMAIN s, NEW state \in TerminalStates
    PROVE  LET r == EndedAt(s, E, state)
           IN  /\ Advances(s, r) /\ SlotsKept(s, r) /\ DOMAIN r = DOMAIN s
               /\ \A i \in DOMAIN s : /\ Terminal(r[i]) /\ ~Terminal(s[i]) => r[i].slot = NoSlot
                                      /\ i \in E => ~Live(r[i]) /\ r[i].state = state /\ r[i].slot = NoSlot
                                      /\ i \notin E => r[i] = s[i]
<1> DEFINE r == EndedAt(s, E, state)
<1>1. ASSUME NEW i \in DOMAIN s
      PROVE  /\ r[i] \in Order /\ SameWork(s[i], r[i]) /\ (Live(r[i]) => Live(s[i])) /\ RowSound(r[i])
             /\ (r[i].slot = s[i].slot \/ r[i].slot = NoSlot)
             /\ Terminal(r[i]) /\ ~Terminal(s[i]) => r[i].slot = NoSlot
             /\ i \in E => ~Live(r[i]) /\ r[i].state = state /\ r[i].slot = NoSlot
             /\ i \notin E => r[i] = s[i]
  <2>1. s[i] \in Order /\ RowSound(s[i])
    BY DEF Rows
  <2>2. CASE i \in E
    <3>1. r[i] = Moved(s[i], state)
      BY <2>2 DEF EndedAt
    <3> QED
      BY <2>1, <2>2, <3>1, EndedRow
  <2>3. CASE i \notin E
    BY <2>1, <2>3 DEF SameWork, EndedAt
  <2> QED
    BY <2>2, <2>3
<1>2. r \in Seq(Order) /\ DOMAIN r = DOMAIN s
  <2>1. DOMAIN s = 1 .. Len(s) /\ Len(s) \in Nat
    OBVIOUS
  <2> QED
    BY <1>1, <2>1 DEF EndedAt
<1> QED
  BY <1>1, <1>2 DEF Advances, SlotsKept

LEMMA ConfirmDispatchedSound ==
    ASSUME NEW i \in todo, NEW s \in {"Completed", "Aborted", "Dispatched"}
    PROVE  Sound /\ ConfirmDispatched(i, s) => Sound' /\ StaysEnded
<1> SUFFICES ASSUME Sound, ConfirmDispatched(i, s) PROVE Sound' /\ StaysEnded
  OBVIOUS
<1>1. /\ phase = "confirm" /\ todo' = todo \ {i}
      /\ UNCHANGED <<planOrder, phase, completed, wall, remapped, failures, blocked, sent, observed, late>>
      /\ IF orders[i].layer = "UnitExecution" /\ orders[i].state = "Dispatched" /\ s # "Dispatched"
         THEN Apply([orders EXCEPT ![i] = Moved(@, s)])
         ELSE UNCHANGED vars
  BY DEF ConfirmDispatched, planVars, worldVars
<1>2. i \in DOMAIN orders
  BY DEF Sound, WorkTyped
<1>3. CASE orders[i].layer = "UnitExecution" /\ orders[i].state = "Dispatched" /\ s # "Dispatched"
  <2> DEFINE E == {i}
             r == EndedAt(orders, E, s)
  <2>1. [orders EXCEPT ![i] = Moved(@, s)] = r /\ DOMAIN r = DOMAIN orders
    <3>1. DOMAIN orders = 1 .. Len(orders) /\ orders \in Seq(Order)
      BY SoundParts
    <3> HIDE DEF Moved
    <3> QED
      BY <1>2, <3>1 DEF EndedAt
  <2>2. E \in SUBSET DOMAIN orders /\ s \in TerminalStates
    BY <1>2, <1>3 DEF TerminalStates
  <2>3. /\ Advances(orders, r) /\ SlotsKept(orders, r)
        /\ \A j \in DOMAIN orders : /\ Terminal(r[j]) /\ ~Terminal(orders[j]) => r[j].slot = NoSlot
                                    /\ j # i => r[j] = orders[j]
    <3>1. \A j : j # i => j \notin E
      OBVIOUS
    <3> HIDE DEF E
    <3> QED
      BY <2>2, <3>1, SoundParts, EndedRows
  <2>4. Apply(r) /\ orders' = r /\ nextOrderId' = nextOrderId /\ batchDepth' = batchDepth /\ batchDepth = 1
    BY <1>1, <1>3, <2>1 DEF Apply, Sound, WorkTyped
  <2> HIDE DEF r
  <2>5. Together(r, late)
    <3> SUFFICES ASSUME NEW j \in DOMAIN orders, NEW k \in DOMAIN orders, Live(r[j]),
                        r[j].layer = "EconomyAndProduction", r[j].task # 0, r[j].parent = r[k].id, ~late
                 PROVE  Live(r[k])
      BY <2>1 DEF Together
    <3>1. SameWork(orders[j], r[j]) /\ SameWork(orders[k], r[k]) /\ Live(orders[j])
      BY <2>3 DEF Advances
    <3>2. Live(orders[k]) /\ orders[k].layer = "StrategicDirector"
      <4>1. /\ orders[j].layer = "EconomyAndProduction" /\ orders[j].task # 0
            /\ orders[j].parent = orders[k].id
        BY <3>1 DEF SameWork
      <4>2. Together(orders, late) /\ Lineage(orders)
        BY DEF Sound, Kinship
      <4>3. Live(orders[k])
        BY <3>1, <4>1, <4>2 DEF Together
      <4> QED
        BY <4>1, <4>2, <4>3 DEF Lineage
    <3> QED
      BY <1>3, <2>3, <3>2
  <2>6. Done(r, planOrder, completed, phase)
    <3> SUFFICES ASSUME NEW t \in completed \cap DOMAIN planOrder, NEW j \in DOMAIN orders, r[j].id = planOrder[t]
                 PROVE  r[j].state = "Completed"
      BY <2>1 DEF Done
    <3>1. orders[j].id = planOrder[t]
      BY <2>3 DEF Advances, SameWork
    <3>2. orders[j].layer # "UnitExecution" /\ orders[j].state = "Completed"
      BY <1>1, <3>1 DEF Sound, Tied, Owners, Done
    <3> QED
      BY <1>3, <2>3, <3>2
  <2>7. WorkTyped' /\ Visits'
    BY <1>1, <2>1, <2>4 DEF Sound, WorkTyped, Visits
  <2> QED
    BY <1>1, <2>3, <2>4, <2>5, <2>6, <2>7, AdvanceSound
<1>4. CASE UNCHANGED vars
  <2>1. UNCHANGED <<orders, nextOrderId, idToIndex, batchDepth, derivedDirty, derived, prioritiesDirty, planOrder>>
    BY <1>4 DEF vars
  <2>2. Coherent'
    BY <2>1, IdleKeeps DEF Sound, Coherent, TypeOK
  <2>3. WorkTyped' /\ Visits'
    BY <1>1, <2>1 DEF Sound, WorkTyped, Visits
  <2> QED
    BY <1>1, <2>1, <2>2, <2>3, DoneAgain, KeptSound DEF Sound
<1> QED
  BY <1>1, <1>3, <1>4

LEMMA GuardCoverageSound == Sound /\ GuardCoverage => Sound' /\ StaysEnded
<1> SUFFICES ASSUME Sound, GuardCoverage PROVE Sound' /\ StaysEnded
  OBVIOUS
<1> DEFINE E == {i \in DOMAIN orders :
                    orders[i].layer = "StrategicDirector" /\ orders[i].task # 0 /\ Live(orders[i])}
           r == EndedAt(orders, E, "Expired")
<1>1. /\ phase = "opening" /\ phase' = "goals"
      /\ UNCHANGED <<planOrder, todo, completed, wall, remapped, failures, blocked, sent, observed, late>>
      /\ IF late /\ completed # TaskIds THEN Apply(r) ELSE UNCHANGED vars
  <2> DEFINE guarded(o) == IF o.layer = "StrategicDirector" /\ o.task # 0 /\ Live(o)
                           THEN Moved(o, "Expired") ELSE o
  <2>1. [i \in DOMAIN orders |-> guarded(orders[i])] = r
    BY DEF EndedAt
  <2> HIDE DEF r
  <2> QED
    BY <2>1 DEF GuardCoverage, planVars, worldVars
<1>2. CASE late /\ completed # TaskIds
  <2>1. "Expired" \in TerminalStates /\ E \in SUBSET DOMAIN orders /\ DOMAIN r = DOMAIN orders
    BY DEF TerminalStates, EndedAt
  <2>2. /\ Advances(orders, r) /\ SlotsKept(orders, r)
        /\ \A j \in DOMAIN orders : /\ Terminal(r[j]) /\ ~Terminal(orders[j]) => r[j].slot = NoSlot
                                    /\ j \notin E => r[j] = orders[j]
    <3> HIDE DEF E
    <3> QED
      BY <2>1, SoundParts, EndedRows
  <2>3. Apply(r) /\ orders' = r /\ nextOrderId' = nextOrderId /\ batchDepth' = batchDepth /\ batchDepth = 1
    BY <1>1, <1>2 DEF Apply, Sound, WorkTyped
  <2> HIDE DEF r
  <2>4. Together(r, late)
    BY <1>2 DEF Together
  <2>5. Done(r, planOrder, completed, phase')
    <3> SUFFICES ASSUME NEW t \in completed \cap DOMAIN planOrder, NEW j \in DOMAIN orders, r[j].id = planOrder[t]
                 PROVE  r[j].state = "Completed"
      BY <2>1 DEF Done
    <3>1. orders[j].id = planOrder[t]
      BY <2>2 DEF Advances, SameWork
    <3>2. orders[j].state = "Completed"
      BY <1>1, <3>1 DEF Sound, Done
    <3>3. j \notin E
      BY <3>2 DEF Live, LiveStates
    <3> QED
      BY <2>2, <3>2, <3>3
  <2>6. WorkTyped' /\ Visits'
    BY <1>1, <2>1, <2>3 DEF Sound, WorkTyped, Visits, Phases
  <2> QED
    BY <1>1, <2>2, <2>3, <2>4, <2>5, <2>6, AdvanceSound
<1>3. CASE UNCHANGED vars
  <2>1. UNCHANGED <<orders, nextOrderId, idToIndex, batchDepth, derivedDirty, derived, prioritiesDirty, planOrder>>
    BY <1>3 DEF vars
  <2>2. Coherent'
    BY <2>1, IdleKeeps DEF Sound, Coherent, TypeOK
  <2>3. WorkTyped' /\ Visits'
    BY <1>1, <2>1 DEF Sound, WorkTyped, Visits, Phases
  <2> QED
    BY <1>1, <2>1, <2>2, <2>3, DoneAgain, KeptSound DEF Sound
<1> QED
  BY <1>1, <1>2, <1>3
-----------------------------------------------------------------------------
(* The look at what the game shows.                                         *)

(* Recorded orders that come back to life without a slot.                   *)
Revives(s, r, plan) ==
    /\ r \in Seq(Order) /\ DOMAIN r = DOMAIN s
    /\ \A i \in DOMAIN s :
          /\ SameWork(s[i], r[i]) /\ RowSound(r[i]) /\ r[i].slot = s[i].slot
          /\ \/ r[i] = s[i]
             \/ Live(r[i]) /\ s[i].slot = NoSlot /\ \E t \in DOMAIN plan : s[i].id = plan[t]

LEMMA ReviveKinship ==
    ASSUME NEW s \in Seq(Order), NEW r, NEW plan, Revives(s, r, plan), Kinship(s), Tied(s, plan),
           0 \notin DOMAIN plan, \A i, j \in DOMAIN s : s[i].id = s[j].id => i = j
    PROVE  Kinship(r)
<1>1. /\ DOMAIN r = DOMAIN s
      /\ \A i \in DOMAIN s : /\ SameWork(s[i], r[i]) /\ r[i].slot = s[i].slot
                             /\ Class(r[i]) = Class(s[i]) /\ s[i] \in Order /\ r[i] \in Order
  BY DEF Revives, SameWork, Class, KeyOf
<1>2. ASSUME NEW i \in DOMAIN s, r[i] # s[i]
      PROVE  /\ Live(r[i]) /\ s[i].slot = NoSlot
             /\ s[i].task \in DOMAIN plan /\ plan[s[i].task] = s[i].id /\ s[i].task # 0
             /\ s[i].parent = 0 /\ s[i].layer # "UnitExecution" /\ r[i].actor = NoActor
  <2>1. Live(r[i]) /\ s[i].slot = NoSlot /\ RowSound(r[i]) /\ SameWork(s[i], r[i])
    BY <1>2 DEF Revives
  <2>2. PICK t \in DOMAIN plan : s[i].id = plan[t]
    BY <1>2 DEF Revives
  <2>3. s[i].task = t /\ s[i].parent = 0 /\ s[i].layer # "UnitExecution"
    BY <2>2 DEF Tied, Owners
  <2> QED
    BY <2>1, <2>2, <2>3 DEF RowSound, SameWork
<1>3. Rows(r)
  BY DEF Revives, Rows
<1>4. Lineage(r)
  BY <1>1 DEF Kinship, Lineage, SameWork
<1>5. Family(r)
  <2>1. ASSUME NEW i \in DOMAIN s, NEW j \in DOMAIN s, r[i] # s[i], Working(r[j]), Class(r[i]) = Class(r[j])
        PROVE  Related(r[i], r[j]) \/ i = j
    <3>1. s[j].task = s[i].task
      BY <1>1, <1>2, <2>1, SameClass
    <3>2. plan[s[i].task] \in {s[j].id, s[j].parent}
      <4>1. CASE r[j] = s[j]
        BY <1>2, <2>1, <3>1, <4>1 DEF Tied, Owned
      <4>2. CASE r[j] # s[j]
        BY <1>2, <3>1, <4>2
      <4> QED
        BY <4>1, <4>2
    <3> QED
      BY <1>1, <1>2, <2>1, <3>2 DEF Related, SameWork
  <2> SUFFICES ASSUME NEW i \in DOMAIN s, NEW j \in DOMAIN s,
                      i # j, Working(r[i]), Working(r[j]), Class(r[i]) = Class(r[j])
               PROVE  Related(r[i], r[j])
    BY <1>1 DEF Family
  <2>2. CASE r[i] = s[i] /\ r[j] = s[j]
    BY <2>2 DEF Kinship, Family
  <2>3. CASE r[i] # s[i]
    BY <2>1, <2>3
  <2>4. CASE r[j] # s[j]
    BY <2>1, <2>4 DEF Related
  <2> QED
    BY <2>2, <2>3, <2>4
<1>6. OneBuilder(r)
  BY <1>1, <1>2 DEF Kinship, OneBuilder, SameWork
<1>7. Standing(r)
  <2>1. Ids(r) = Ids(s)
    BY <1>1 DEF Ids, SameWork
  <2> QED
    BY <1>1, <1>2, <2>1 DEF Kinship, Standing, SameWork
<1>8. SlotsExclusive(r)
  BY <1>1, <1>2 DEF Kinship, SlotsExclusive, SameWork, Related
<1>9. ActorsExclusive(r)
  <2> SUFFICES ASSUME NEW i \in DOMAIN s, NEW j \in DOMAIN s, i # j, Live(r[i]), Live(r[j]),
                      r[i].actor # NoActor, r[i].actor = r[j].actor
               PROVE  FALSE
    BY <1>1 DEF ActorsExclusive
  <2>1. r[i] = s[i] /\ r[j] = s[j]
    BY <1>2
  <2> QED
    BY <2>1 DEF Kinship, ActorsExclusive
<1> QED
  BY <1>3, <1>4, <1>5, <1>6, <1>7, <1>8, <1>9 DEF Kinship

LEMMA ReviveRest ==
    ASSUME NEW s \in Seq(Order), NEW r, NEW plan, Revives(s, r, plan), Kinship(s), Tied(s, plan),
           0 \notin DOMAIN plan, NEW l, Together(s, l), NEW buffers, Apart(s, plan, buffers),
           \A i \in DOMAIN s : s[i].id # 0
    PROVE  Together(r, l) /\ Tied(r, plan) /\ Apart(r, plan, buffers)
<1>1. /\ DOMAIN r = DOMAIN s
      /\ \A i \in DOMAIN s : /\ SameWork(s[i], r[i]) /\ r[i].slot = s[i].slot
                             /\ Class(r[i]) = Class(s[i]) /\ s[i] \in Order /\ r[i] \in Order
                             /\ Live(s[i]) => Live(r[i])
  BY DEF Revives, SameWork, Class, KeyOf
<1>2. ASSUME NEW i \in DOMAIN s, r[i] # s[i]
      PROVE  /\ Live(r[i]) /\ s[i].slot = NoSlot
             /\ s[i].task \in DOMAIN plan /\ plan[s[i].task] = s[i].id /\ s[i].task # 0 /\ s[i].parent = 0
  BY <1>2 DEF Revives, Tied, Owners
<1>3. Together(r, l)
  <2> SUFFICES ASSUME NEW i \in DOMAIN s, NEW j \in DOMAIN s, Live(r[i]), r[i].layer = "EconomyAndProduction",
                      r[i].task # 0, r[i].parent = r[j].id, ~l
               PROVE  Live(r[j])
    BY <1>1 DEF Together
  <2>1. r[i] = s[i]
    BY <1>1, <1>2 DEF SameWork
  <2> QED
    BY <1>1, <2>1 DEF Together, SameWork
<1>4. Owners(r, plan)
  <2> SUFFICES ASSUME NEW t \in DOMAIN plan, NEW i \in DOMAIN s, r[i].id = plan[t]
               PROVE  /\ r[i].task = t /\ r[i].parent = 0 /\ r[i].layer # "UnitExecution"
                      /\ Terminal(r[i]) => r[i].slot = NoSlot
    BY <1>1 DEF Owners
  <2>1. s[i].id = plan[t]
    BY <1>1 DEF SameWork
  <2>2. /\ s[i].task = t /\ s[i].parent = 0 /\ s[i].layer # "UnitExecution"
        /\ Terminal(s[i]) => s[i].slot = NoSlot
    BY <2>1 DEF Tied, Owners
  <2>3. Terminal(r[i]) => r[i].slot = NoSlot
    BY <1>1, <1>2, <2>2
  <2> QED
    BY <1>1, <2>2, <2>3 DEF SameWork
<1>5. Owned(r, plan)
  <2> SUFFICES ASSUME NEW i \in DOMAIN s, Working(r[i]), r[i].task # 0
               PROVE  r[i].task \in DOMAIN plan /\ plan[r[i].task] \in {r[i].id, r[i].parent}
    BY <1>1 DEF Owned
  <2>1. CASE r[i] = s[i]
    BY <2>1 DEF Tied, Owned
  <2>2. CASE r[i] # s[i]
    BY <1>1, <1>2, <2>2 DEF SameWork
  <2> QED
    BY <2>1, <2>2
<1>6. Apart(r, plan, buffers)
  <2>1. ASSUME NEW i \in DOMAIN s, Working(r[i]) PROVE ~Parked(buffers, Class(r[i]))
    <3>1. CASE r[i] = s[i]
      BY <2>1, <3>1 DEF Apart
    <3>2. CASE r[i] # s[i]
      <4>1. Class(r[i]) = [task |-> s[i].task] /\ s[i].task \in DOMAIN plan
        BY <1>1, <1>2, <3>2, OrderKey
      <4> QED
        BY <4>1 DEF Apart
    <3> QED
      BY <3>1, <3>2
  <2> QED
    BY <1>1, <2>1 DEF Apart
<1> QED
  BY <1>3, <1>4, <1>5, <1>6 DEF Tied

LEMMA UpdateCompletedSound ==
    ASSUME Sound, batchDepth # 0, UpdateCompletedOpeningSteps,
           phase' \notin {"reactivate", "children", "park"}, phase' \in Phases,
           phase' \notin {"frame", "rank", "drain", "capture"},
           UNCHANGED <<todo, blocked, sent, observed, late>>
    PROVE  Sound' /\ StaysEnded
<1> DEFINE idsOf(S) == {planOrder[t] : t \in S \cap DOMAIN planOrder}
           reopened(o) == IF o.id \in idsOf(Reopening) THEN Undeferred(Moved(o, "Queued")) ELSE o
           stepDone(o) ==
               IF o.id \in idsOf(Completing)
                  \/ (o.parent \in idsOf(Completing) /\ o.layer = "EconomyAndProduction" /\ Live(o))
               THEN Moved(o, "Completed") ELSE o
           targetDone(o) == IF Live(o) /\ Satisfied(o) THEN Moved(o, "Completed") ELSE o
           s == [i \in DOMAIN orders |-> reopened(orders[i])]
           E == {i \in DOMAIN orders :
                    \/ s[i].id \in idsOf(Completing)
                    \/ s[i].parent \in idsOf(Completing) /\ s[i].layer = "EconomyAndProduction" /\ Live(s[i])
                    \/ Live(s[i]) /\ Satisfied(s[i])}
           r == EndedAt(s, E, "Completed")
<1>1. /\ Apply([i \in DOMAIN orders |-> targetDone(stepDone(reopened(orders[i])))])
      /\ completed' = (completed \ Reopening) \cup Completing
      /\ wall' = IF WallDepots \subseteq completed' THEN "Completed" ELSE wall
      /\ UNCHANGED <<planOrder, remapped, failures>>
  BY DEF UpdateCompletedOpeningSteps
<1>2. /\ DOMAIN planOrder \subseteq TaskIds /\ 0 \notin DOMAIN planOrder /\ completed \subseteq TaskIds
      /\ \A t \in DOMAIN planOrder : \A i \in DOMAIN orders : orders[i].id = planOrder[t] =>
            /\ orders[i].task = t /\ orders[i].parent = 0 /\ orders[i].layer # "UnitExecution"
            /\ Terminal(orders[i]) => orders[i].slot = NoSlot
  BY TaskIdAssumption DEF Sound, Coherent, TypeOK, WorkTyped, Tied, Owners
<1>3. ASSUME NEW t \in Reopening, NEW i \in DOMAIN orders, orders[i].id = planOrder[t]
      PROVE  /\ t \in completed /\ t \in DOMAIN planOrder /\ orders[i].slot = NoSlot
             /\ orders[i].detail \notin observed
  <2>1. t \in completed /\ t \in DOMAIN planOrder /\ HasOrder(planOrder[t]) /\ At(planOrder[t]).detail \notin observed
    BY DEF Reopening
  <2>2. At(planOrder[t]) = orders[i]
    BY <1>3 DEF At, Sound, Coherent, IndexExact
  <2>3. orders[i].state = "Completed" \/ orders[i].slot = NoSlot
    BY <1>3, <2>1 DEF Sound, Done
  <2>4. orders[i].slot = NoSlot
    BY <1>2, <1>3, <2>1, <2>3 DEF Terminal, TerminalStates
  <2> QED
    BY <2>1, <2>2, <2>4
<1>4. Revives(orders, s, planOrder)
  <2>1. ASSUME NEW i \in DOMAIN orders
        PROVE  /\ s[i] \in Order /\ SameWork(orders[i], s[i]) /\ RowSound(s[i]) /\ s[i].slot = orders[i].slot
               /\ \/ s[i] = orders[i]
                  \/ Live(s[i]) /\ orders[i].slot = NoSlot /\ \E t \in DOMAIN planOrder : orders[i].id = planOrder[t]
    <3>1. orders[i] \in Order /\ RowSound(orders[i])
      BY SoundParts
    <3>2. CASE orders[i].id \in idsOf(Reopening)
      <4>1. PICK t \in Reopening \cap DOMAIN planOrder : orders[i].id = planOrder[t]
        BY <3>2
      <4>2. orders[i].slot = NoSlot /\ orders[i].layer # "UnitExecution"
        BY <1>2, <1>3, <4>1
      <4> DEFINE p == Moved(orders[i], "Queued")
      <4>3. /\ p \in Order /\ SameWork(orders[i], p) /\ p.slot = orders[i].slot /\ p.state = "Queued"
            /\ p.attempts = orders[i].attempts /\ p.reason = orders[i].reason /\ p.layer = orders[i].layer
        <5>1. "Queued" \notin TerminalStates /\ "Queued" \in States
          BY DEF States, LiveStates, TerminalStates
        <5>2. p = [orders[i] EXCEPT !.state = "Queued"]
          BY <3>1, <5>1 DEF Moved, Order
        <5> QED
          BY <3>1, <5>1, <5>2 DEF Order, SameWork
      <4> HIDE DEF p
      <4>4. RowSound(p)
        BY <3>1, <4>2, <4>3 DEF RowSound, SameWork
      <4>5. /\ Undeferred(p) \in Order /\ SameWork(p, Undeferred(p)) /\ RowSound(Undeferred(p))
            /\ Undeferred(p).state = "Queued" /\ Undeferred(p).slot = orders[i].slot
        BY <4>3, <4>4, UndeferredRow
      <4>6. s[i] = Undeferred(p)
        BY <3>2 DEF p
      <4> QED
        BY <4>1, <4>2, <4>3, <4>5, <4>6 DEF SameWork, Live, LiveStates
    <3>3. CASE orders[i].id \notin idsOf(Reopening)
      BY <3>1, <3>3 DEF SameWork
    <3> QED
      BY <3>2, <3>3
  <2>2. s \in Seq(Order) /\ DOMAIN s = DOMAIN orders
    <3>1. DOMAIN orders = 1 .. Len(orders) /\ Len(orders) \in Nat
      BY SoundParts
    <3> QED
      BY <2>1, <3>1
  <2> QED
    BY <2>1, <2>2 DEF Revives
<1>5. \A i \in DOMAIN orders : s[i].state = orders[i].state \/ orders[i].id \in idsOf(Reopening)
  OBVIOUS
<1>6. [i \in DOMAIN orders |-> targetDone(stepDone(reopened(orders[i])))] = r
  <2>1. ASSUME NEW i \in DOMAIN orders PROVE targetDone(stepDone(s[i])) = r[i]
    <3>1. s[i] \in Order /\ RowSound(s[i]) /\ DOMAIN s = DOMAIN orders
      BY <1>4 DEF Revives
    <3>2. ~Live(Moved(s[i], "Completed"))
      BY <3>1, EndedRow DEF TerminalStates
    <3> HIDE DEF s
    <3> QED
      BY <3>1, <3>2 DEF EndedAt
  <2>2. DOMAIN r = DOMAIN orders
    BY DEF EndedAt
  <2> QED
    BY <2>1, <2>2 DEF EndedAt
<1> HIDE DEF s, E, r
<1>7. Kinship(s)
  <2>1. \A i, j \in DOMAIN orders : orders[i].id = orders[j].id => i = j
    BY OneRow
  <2> QED
    BY <1>2, <1>4, <2>1, SoundParts, ReviveKinship DEF Sound
<1>8. Together(s, late) /\ Tied(s, planOrder) /\ Apart(s, planOrder, blocked)
  <2>1. \A i \in DOMAIN orders : orders[i].id # 0
    BY SoundParts
  <2> QED
    BY <1>2, <1>4, <2>1, SoundParts, ReviveRest DEF Sound
<1>9. s \in Seq(Order) /\ Rows(s) /\ DOMAIN s = DOMAIN orders
  BY <1>4, <1>7 DEF Revives, Kinship
<1>10. /\ Advances(s, r) /\ SlotsKept(s, r)
       /\ \A i \in DOMAIN s : /\ Terminal(r[i]) /\ ~Terminal(s[i]) => r[i].slot = NoSlot
                              /\ i \in E => ~Live(r[i]) /\ r[i].state = "Completed"
                              /\ i \notin E => r[i] = s[i]
  <2>1. E \in SUBSET DOMAIN s /\ "Completed" \in TerminalStates
    BY <1>9 DEF E, TerminalStates
  <2> QED
    BY <1>9, <2>1, EndedRows DEF r
<1>11. Kinship(r) /\ Tied(r, planOrder) /\ Apart(r, planOrder, blocked)
  BY <1>7, <1>8, <1>10, AdvanceKinship, AdvanceTies, AdvanceApart
<1>12. Together(r, late)
  <2> SUFFICES ASSUME NEW i \in DOMAIN s, NEW j \in DOMAIN s, Live(r[i]), r[i].layer = "EconomyAndProduction",
                      r[i].task # 0, r[i].parent = r[j].id, ~late
               PROVE  Live(r[j])
    BY <1>10 DEF Together, Advances
  <2>1. SameWork(s[i], r[i]) /\ SameWork(s[j], r[j]) /\ Live(s[i]) /\ i \notin E /\ RowSound(s[i]) /\ RowSound(s[j])
    BY <1>9, <1>10 DEF Advances, Rows
  <2>2. /\ Live(s[j]) /\ s[i].detail = s[j].detail /\ s[j].layer = "StrategicDirector" /\ s[j].slot = NoSlot
        /\ s[i].parent = s[j].id /\ s[i].layer = "EconomyAndProduction" /\ s[i].task # 0
    <3>1. s[i].parent = s[j].id /\ s[i].layer = "EconomyAndProduction" /\ s[i].task # 0
      BY <2>1 DEF SameWork
    <3>2. Live(s[j])
      BY <1>8, <2>1, <3>1 DEF Together
    <3>3. s[i].detail = s[j].detail /\ s[j].layer = "StrategicDirector"
      BY <1>7, <3>1 DEF Kinship, Lineage
    <3> QED
      BY <2>1, <3>1, <3>2, <3>3 DEF RowSound
  <2>3. s[i].parent \notin idsOf(Completing) /\ ~Satisfied(s[i])
    BY <1>9, <2>1, <2>2 DEF E
  <2>4. ~Satisfied(s[j])
    BY <2>1, <2>2, <2>3 DEF Satisfied, RowSound
  <2>5. s[j].parent = 0 /\ s[j].layer # "EconomyAndProduction"
    BY <2>1, <2>2 DEF RowSound
  <2>6. j \notin E
    BY <2>2, <2>3, <2>4, <2>5 DEF E
  <2> QED
    BY <1>10, <2>2, <2>6
<1>13. Done(r, planOrder, completed', phase')
  <2> SUFFICES ASSUME NEW t \in completed' \cap DOMAIN planOrder, NEW i \in DOMAIN s, r[i].id = planOrder[t]
               PROVE  r[i].state = "Completed"
    BY <1>10 DEF Done, Advances
  <2>1. s[i].id = planOrder[t] /\ orders[i].id = planOrder[t] /\ s[i].detail = orders[i].detail
        /\ s[i].slot = orders[i].slot
    BY <1>4, <1>9, <1>10 DEF Advances, Revives, SameWork
  <2>2. CASE t \in Completing
    <3>1. i \in E
      BY <1>9, <2>1, <2>2 DEF E
    <3> QED
      BY <1>10, <3>1
  <2>3. CASE t \notin Completing
    <3>1. t \in completed /\ t \notin Reopening
      BY <1>1, <2>3
    <3>2. orders[i].detail \in observed
      <4>1. HasOrder(planOrder[t]) /\ At(planOrder[t]) = orders[i]
        BY <1>9, <2>1 DEF HasOrder, At, Sound, Coherent, IndexExact, Ids
      <4> QED
        BY <3>1, <4>1 DEF Reopening
    <3>3. orders[i].id \notin idsOf(Reopening)
      <4> SUFFICES ASSUME NEW u \in Reopening \cap DOMAIN planOrder, orders[i].id = planOrder[u] PROVE FALSE
        OBVIOUS
      <4>1. i \in DOMAIN orders
        BY <1>9
      <4>2. orders[i].task = u /\ orders[i].task = t
        BY <1>2, <2>1, <4>1
      <4> QED
        BY <3>1, <4>2
    <3>4. s[i] = orders[i]
      BY <1>9, <3>3 DEF s
    <3>5. CASE orders[i].state = "Completed"
      <4>1. CASE i \in E
        BY <1>10, <4>1
      <4>2. CASE i \notin E
        BY <1>10, <3>4, <3>5, <4>2
      <4> QED
        BY <4>1, <4>2
    <3>6. CASE Live(orders[i]) /\ orders[i].slot = NoSlot
      <4>1. i \in E
        BY <1>9, <3>2, <3>4, <3>6 DEF E, Satisfied
      <4> QED
        BY <1>10, <4>1
    <3> QED
      BY <1>9, <2>1, <3>1, <3>5, <3>6 DEF Sound, Done
  <2> QED
    BY <2>2, <2>3
<1>14. /\ orders' = r /\ DOMAIN r = DOMAIN orders /\ r \in Seq(Order) /\ nextOrderId' = nextOrderId
       /\ batchDepth' = batchDepth /\ \A i \in DOMAIN orders : r[i].id = orders[i].id
  <2>1. Apply(r)
    BY <1>1, <1>6
  <2>2. \A i \in DOMAIN orders : r[i].id = orders[i].id
    BY <1>4, <1>9, <1>10 DEF Advances, Revives, SameWork
  <2> QED
    BY <1>9, <1>10, <2>1, <2>2 DEF Apply, Advances
<1>15. Coherent'
  BY <1>1, <1>6, <1>14, ApplyKeeps DEF Sound, Coherent, TypeOK
<1>16. WorkTyped'
  <2>1. completed' \subseteq TaskIds
    BY <1>1, <1>2 DEF Completing
  <2> QED
    BY <1>1, <1>14, <2>1 DEF Sound, WorkTyped, Walls
<1>17. Visits'
  BY DEF Visits
<1>18. StaysEnded
  <2> SUFFICES ASSUME NEW i \in DOMAIN orders, NEW j \in DOMAIN orders', orders[i].id = orders'[j].id,
                      Live(orders'[j]), ~Live(orders[i])
               PROVE  /\ orders[i].state = "Completed" /\ orders'[j].state = "Queued"
                      /\ orders[i].task \in completed \ completed'
                      /\ planOrder[orders[i].task] = orders[i].id
    BY DEF StaysEnded
  <2>1. j = i
    BY <1>14, OneRow
  <2>2. i \notin E /\ r[i] = s[i] /\ Live(s[i]) /\ s[i].id = orders[i].id
    BY <1>4, <1>9, <1>10, <1>14, <2>1 DEF Revives, SameWork
  <2>3. PICK t \in Reopening \cap DOMAIN planOrder : orders[i].id = planOrder[t]
    BY <1>5, <2>2 DEF Live
  <2>4. t \in completed /\ orders[i].task = t
    BY <1>2, <2>3 DEF Reopening
  <2>5. orders[i].state = "Completed"
    BY <2>3, <2>4 DEF Sound, Done
  <2>6. t \notin Completing
    BY <1>9, <2>2, <2>3 DEF E
  <2>7. s[i].state = "Queued"
    <3>1. s[i] = Undeferred(Moved(orders[i], "Queued"))
      BY <2>3 DEF s
    <3>2. Moved(orders[i], "Queued").state = "Queued" /\ Moved(orders[i], "Queued") \in Order
      <4>1. orders[i] \in Order
        BY SoundParts
      <4>2. Moved(orders[i], "Queued") = [orders[i] EXCEPT !.state = "Queued"] /\ "Queued" \in States
        BY <4>1 DEF Moved, Order, States, LiveStates, TerminalStates
      <4> QED
        BY <4>1, <4>2 DEF Order
    <3> QED
      BY <3>1, <3>2, UndeferredRow
  <2> QED
    BY <1>1, <1>14, <2>1, <2>2, <2>3, <2>4, <2>5, <2>6, <2>7
<1> QED
  BY <1>1, <1>11, <1>12, <1>13, <1>14, <1>15, <1>16, <1>17, <1>18 DEF Sound

LEMMA CompleteBeforeSeedingSound == Sound /\ CompleteBeforeSeeding => Sound' /\ StaysEnded
<1> SUFFICES ASSUME Sound, CompleteBeforeSeeding PROVE Sound' /\ StaysEnded
  OBVIOUS
<1>1. /\ phase = "reactivate" /\ phase' = "opening" /\ UpdateCompletedOpeningSteps
      /\ UNCHANGED <<todo, blocked, sent, observed, late>>
  BY DEF CompleteBeforeSeeding, worldVars
<1>2. batchDepth # 0 /\ phase' \in Phases
  BY <1>1 DEF Sound, WorkTyped, Phases
<1> QED
  BY <1>1, <1>2, UpdateCompletedSound

LEMMA CompleteAfterSeedingSound == Sound /\ CompleteAfterSeeding => Sound' /\ StaysEnded
<1> SUFFICES ASSUME Sound, CompleteAfterSeeding PROVE Sound' /\ StaysEnded
  OBVIOUS
<1>1. /\ phase = "children" /\ phase' = "expanded" /\ UpdateCompletedOpeningSteps
      /\ UNCHANGED <<todo, blocked, sent, observed, late>>
  BY DEF CompleteAfterSeeding, worldVars
<1>2. batchDepth # 0 /\ phase' \in Phases
  BY <1>1 DEF Sound, WorkTyped, Phases
<1> QED
  BY <1>1, <1>2, UpdateCompletedSound
-----------------------------------------------------------------------------
(* Rows that leave the table.                                               *)

(* The rows of r are rows of s, each at most once.                          *)
Thins(s, r) ==
    \E f : /\ \A a \in DOMAIN r : f[a] \in DOMAIN s /\ r[a] = s[f[a]]
           /\ \A a, b \in DOMAIN r : a # b => f[a] # f[b]

LEMMA ThinnedKinship ==
    ASSUME NEW s, NEW r, Thins(s, r), Kinship(s), Standing(r)
    PROVE  Kinship(r)
<1>1. PICK f : /\ \A a \in DOMAIN r : f[a] \in DOMAIN s /\ r[a] = s[f[a]]
               /\ \A a, b \in DOMAIN r : a # b => f[a] # f[b]
  BY DEF Thins
<1>2. Rows(r)
  BY <1>1 DEF Kinship, Rows
<1>3. Lineage(r)
  BY <1>1 DEF Kinship, Lineage
<1>4. Family(r)
  BY <1>1 DEF Kinship, Family
<1>5. OneBuilder(r)
  BY <1>1 DEF Kinship, OneBuilder
<1>6. SlotsExclusive(r)
  BY <1>1 DEF Kinship, SlotsExclusive
<1>7. ActorsExclusive(r)
  BY <1>1 DEF Kinship, ActorsExclusive
<1> QED
  BY <1>2, <1>3, <1>4, <1>5, <1>6, <1>7 DEF Kinship

LEMMA ThinnedRest ==
    ASSUME NEW s, NEW r, Thins(s, r), NEW l, Together(s, l), NEW plan, Tied(s, plan),
           NEW done, NEW ph, Done(s, plan, done, ph), NEW buffers, Apart(s, plan, buffers)
    PROVE  Together(r, l) /\ Tied(r, plan) /\ Done(r, plan, done, ph) /\ Apart(r, plan, buffers)
<1>1. \A a \in DOMAIN r : \E i \in DOMAIN s : r[a] = s[i]
  BY DEF Thins
<1>2. Together(r, l)
  BY <1>1 DEF Together
<1>3. Tied(r, plan)
  BY <1>1 DEF Tied, Owners, Owned
<1>4. Done(r, plan, done, ph)
  BY <1>1 DEF Done
<1>5. Apart(r, plan, buffers)
  BY <1>1 DEF Apart
<1> QED
  BY <1>2, <1>3, <1>4, <1>5

(* Compaction never takes the parent from under live work.                  *)
LEMMA CompactSound == Sound /\ Compact => Sound' /\ StaysEnded
<1> SUFFICES ASSUME Sound, Compact PROVE Sound' /\ StaysEnded
  OBVIOUS
<1>1. /\ phase = "confirm" /\ todo = {} /\ CompactTerminalOrders /\ phase' = "compacted"
      /\ UNCHANGED <<planOrder, todo, completed, wall, remapped, failures, blocked, sent, observed, late>>
  BY DEF Compact, planVars, worldVars
<1>2. /\ orders' \in KeptAt(orders, Retained) /\ nextOrderId' = nextOrderId /\ batchDepth' = batchDepth
  BY <1>1 DEF CompactTerminalOrders
<1>3. orders \in Seq(Order) /\ Retained \in SUBSET DOMAIN orders
  BY SoundParts DEF Retained
<1>4. PICK f : Reads(orders', f, orders, Retained)
  BY <1>2, <1>3, KeptAtLemma
<1>5. orders' \in Seq(Order)
  BY <1>2, <1>3, KeptAtLemma
<1>6. /\ \A a \in DOMAIN orders' : f[a] \in DOMAIN orders /\ orders'[a] = orders[f[a]]
      /\ \A k \in Retained : \E a \in DOMAIN orders' : orders'[a] = orders[k]
  BY <1>3, <1>4 DEF Reads
<1>7. Thins(orders, orders')
  <2>1. \A a, b \in DOMAIN orders' : a # b => f[a] # f[b]
    <3> SUFFICES ASSUME NEW a \in DOMAIN orders', NEW b \in DOMAIN orders', a < b \/ b < a
                 PROVE  f[a] # f[b]
      BY <1>5
    <3>1. f[a] \in Nat /\ f[b] \in Nat
      BY <1>6, SoundParts
    <3> QED
      BY <1>4, <3>1 DEF Reads
  <2> QED
    BY <1>6, <2>1 DEF Thins
<1>8. Standing(orders')
  <2> SUFFICES ASSUME NEW a \in DOMAIN orders', Live(orders'[a]), orders'[a].parent # 0
               PROVE  orders'[a].parent \in Ids(orders')
    BY DEF Standing
  <2>1. PICK i \in DOMAIN orders : orders'[a] = orders[i]
    BY <1>6
  <2>2. PICK p \in DOMAIN orders : orders[p].id = orders[i].parent
    BY <2>1 DEF Sound, Kinship, Standing, Ids
  <2>3. p \in Retained
    BY <2>1, <2>2 DEF Retained, ShouldCompactTerminalOrder, HasNonTerminalChildOrder
  <2>4. PICK b \in DOMAIN orders' : orders'[b] = orders[p]
    BY <1>6, <2>3
  <2> QED
    BY <2>1, <2>2, <2>4 DEF Ids
<1>9. Kinship(orders')
  BY <1>7, <1>8, ThinnedKinship, SoundParts
<1>10. Done(orders, planOrder, completed, phase')
  BY <1>1, DoneAgain
<1>11. /\ Together(orders', late) /\ Tied(orders', planOrder) /\ Done(orders', planOrder, completed, phase')
       /\ Apart(orders', planOrder, blocked)
  BY <1>7, <1>10, ThinnedRest DEF Sound
<1>12. Coherent'
  BY <1>1, CompactionKeeps DEF Sound
<1>13. WorkTyped' /\ Visits'
  BY <1>1, <1>2 DEF Sound, WorkTyped, Phases, Visits
<1>14. StaysEnded
  <2> SUFFICES ASSUME NEW i \in DOMAIN orders, NEW a \in DOMAIN orders', orders[i].id = orders'[a].id,
                      Live(orders'[a])
               PROVE  Live(orders[i])
    BY DEF StaysEnded
  <2>1. f[a] \in DOMAIN orders /\ orders'[a] = orders[f[a]]
    BY <1>6
  <2> QED
    BY <2>1, OneRow
<1> QED
  BY <1>1, <1>9, <1>11, <1>12, <1>13, <1>14 DEF Sound
-----------------------------------------------------------------------------
(* The steps that rewrite rows between two batches.                         *)

LEMMA RewrittenSound ==
    ASSUME Sound, Advances(orders, orders'), SlotsKept(orders, orders'),
           \A i \in DOMAIN orders : Terminal(orders'[i]) /\ ~Terminal(orders[i]) => orders'[i].slot = NoSlot,
           \A i \in DOMAIN orders : orders[i].layer # "UnitExecution" => orders'[i].state = orders[i].state,
           UNCHANGED <<planOrder, completed, blocked, late>>, Coherent', WorkTyped', Visits',
           phase # "reactivate"
    PROVE  Sound' /\ StaysEnded
<1>1. DOMAIN orders' = DOMAIN orders /\ \A i \in DOMAIN orders : SameWork(orders[i], orders'[i])
  BY DEF Advances
<1>2. Kinship(orders')
  BY AdvanceKinship, SoundParts
<1>3. Tied(orders', planOrder) /\ Apart(orders', planOrder, blocked)
  BY AdvanceTies, AdvanceApart DEF Sound
<1>4. Together(orders', late)
  <2> SUFFICES ASSUME NEW i \in DOMAIN orders, NEW j \in DOMAIN orders, Live(orders'[i]),
                      orders'[i].layer = "EconomyAndProduction", orders'[i].task # 0,
                      orders'[i].parent = orders'[j].id, ~late
               PROVE  Live(orders'[j])
    BY <1>1 DEF Together
  <2>1. SameWork(orders[i], orders'[i]) /\ SameWork(orders[j], orders'[j]) /\ Live(orders[i])
    BY DEF Advances
  <2>2. /\ orders[i].parent = orders[j].id /\ orders[i].layer = "EconomyAndProduction" /\ orders[i].task # 0
    BY <2>1 DEF SameWork
  <2>3. Live(orders[j])
    BY <2>1, <2>2 DEF Sound, Together
  <2>4. orders[j].layer = "StrategicDirector"
    BY <2>2 DEF Sound, Kinship, Lineage
  <2> QED
    BY <2>3, <2>4 DEF Live
<1>5. Done(orders', planOrder, completed, phase')
  <2> SUFFICES ASSUME NEW t \in completed \cap DOMAIN planOrder, NEW i \in DOMAIN orders,
                      orders'[i].id = planOrder[t]
               PROVE  orders'[i].state = "Completed"
    BY <1>1 DEF Done
  <2>1. orders[i].id = planOrder[t]
    BY <1>1 DEF SameWork
  <2>2. orders[i].layer # "UnitExecution" /\ orders[i].state = "Completed"
    BY <2>1 DEF Sound, Tied, Owners, Done
  <2> QED
    BY <2>2
<1>6. StaysEnded
  BY StaysInPlace DEF Advances, SameWork
<1> QED
  BY <1>2, <1>3, <1>4, <1>5, <1>6 DEF Sound

LEMMA RankSound == Sound /\ Rank => Sound' /\ StaysEnded
<1> SUFFICES ASSUME Sound, Rank PROVE Sound' /\ StaysEnded
  OBVIOUS
<1>1. /\ phase = "rank" /\ phase' = "drain" /\ (UpdateTaskPriorities \/ UNCHANGED vars)
      /\ UNCHANGED <<planOrder, todo, completed, wall, remapped, failures, blocked, sent, observed, late>>
  BY DEF Rank, planVars, worldVars
<1>2. CASE UpdateTaskPriorities
  <2>1. PICK rankOf \in [DOMAIN orders -> Ranks] :
           orders' = [i \in DOMAIN orders |-> [orders[i] EXCEPT !.rank = rankOf[i]]]
    BY <1>2 DEF UpdateTaskPriorities
  <2>2. Coherent' /\ Retouched /\ batchDepth' = batchDepth
    BY <1>1, <1>2, RankingKeeps DEF Sound, UpdateTaskPriorities
  <2>3. ASSUME NEW i \in DOMAIN orders
        PROVE  /\ SameWork(orders[i], orders'[i]) /\ orders'[i].state = orders[i].state
               /\ orders'[i].slot = orders[i].slot /\ RowSound(orders'[i])
    <3> DEFINE p == [orders[i] EXCEPT !.rank = rankOf[i]]
    <3>1. orders'[i] = p /\ orders[i] \in Order /\ RowSound(orders[i])
      BY <2>1, SoundParts
    <3>2. /\ SameWork(orders[i], p) /\ p.state = orders[i].state /\ p.slot = orders[i].slot
          /\ p.attempts = orders[i].attempts /\ p.reason = orders[i].reason
      BY <3>1 DEF Order, SameWork
    <3> HIDE DEF p
    <3>3. RowSound(p)
      BY <3>1, <3>2 DEF RowSound, SameWork, Terminal
    <3> QED
      BY <3>1, <3>2, <3>3
  <2>4. Advances(orders, orders') /\ SlotsKept(orders, orders')
    BY <2>2, <2>3 DEF Advances, SlotsKept, Retouched, Live
  <2>5. \A i \in DOMAIN orders : Terminal(orders'[i]) /\ ~Terminal(orders[i]) => orders'[i].slot = NoSlot
    BY <2>3 DEF Terminal
  <2>6. WorkTyped' /\ Visits'
    BY <1>1, <2>2 DEF Sound, WorkTyped, Phases, Visits, Retouched
  <2> QED
    BY <1>1, <2>2, <2>3, <2>4, <2>5, <2>6, RewrittenSound
<1>3. CASE UNCHANGED vars
  <2>1. UNCHANGED <<orders, nextOrderId, idToIndex, batchDepth, derivedDirty, derived, prioritiesDirty, planOrder>>
    BY <1>3 DEF vars
  <2>2. Coherent'
    BY <2>1, IdleKeeps DEF Sound, Coherent, TypeOK
  <2>3. WorkTyped' /\ Visits'
    BY <1>1, <2>1 DEF Sound, WorkTyped, Visits, Phases
  <2> QED
    BY <1>1, <2>1, <2>2, <2>3, DoneAgain, KeptSound DEF Sound
<1> QED
  BY <1>1, <1>2, <1>3

(* An order sent out.                                                       *)
LEMMA DispatchedRow ==
    ASSUME NEW o \in Order, RowSound(o), o.state = "Ready"
    PROVE  LET p == Moved(o, "Dispatched")
           IN  /\ p \in Order /\ SameWork(o, p) /\ RowSound(p) /\ p.state = "Dispatched" /\ p.slot = o.slot
               /\ p.attempts = o.attempts /\ Live(p) /\ ~Terminal(p)
<1> DEFINE p == Moved(o, "Dispatched")
<1>1. /\ p \in Order /\ SameWork(o, p) /\ p.slot = o.slot /\ p.state = "Dispatched"
      /\ p.attempts = o.attempts /\ p.reason = o.reason
  <2>1. "Dispatched" \notin TerminalStates /\ "Dispatched" \in States
    BY DEF States, LiveStates, TerminalStates
  <2>2. p = [o EXCEPT !.state = "Dispatched"]
    BY <2>1 DEF Moved, Order
  <2> QED
    BY <2>1, <2>2 DEF Order, SameWork
<1> HIDE DEF p
<1>2. Live(p) /\ ~Terminal(p) /\ ~Terminal(o)
  BY <1>1 DEF Live, Terminal, LiveStates, TerminalStates
<1>3. RowSound(p)
  BY <1>1, <1>2 DEF RowSound, SameWork
<1> QED
  BY <1>1, <1>2, <1>3 DEF p

LEMMA DrainReadyIntentsSound == Sound /\ DrainReadyIntents => Sound' /\ StaysEnded
<1> SUFFICES ASSUME Sound, DrainReadyIntents PROVE Sound' /\ StaysEnded
  OBVIOUS
<1> DEFINE ready == ReadyIntentIndices(derived)
           manned == {i \in ready : orders[i].actor # NoActor}
           lost == {i \in ready \ manned : WithinBudget(i, manned)}
           out == {i \in manned : WithinBudget(i, manned)}
           after == [i \in DOMAIN orders |->
                       IF i \in lost THEN Moved(orders[i], "Aborted")
                       ELSE IF i \in out THEN Moved(orders[i], "Dispatched") ELSE orders[i]]
<1>1. /\ phase = "drain" /\ phase' = "capture"
      /\ \/ UNCHANGED vars
         \/ /\ orders' = after /\ MarkDerivedQueuesDirty(after)
            /\ UNCHANGED <<nextOrderId, idToIndex, batchDepth>>
      /\ UNCHANGED <<planOrder, todo, completed, wall, remapped, failures, blocked, sent, observed, late>>
  BY DEF DrainReadyIntents, planVars, worldVars
<1>2. lost \cap out = {} /\ lost \subseteq ready /\ out \subseteq ready
  OBVIOUS
<1> HIDE DEF lost, out
<1>3. CASE orders' = after /\ MarkDerivedQueuesDirty(after) /\ UNCHANGED <<nextOrderId, idToIndex, batchDepth>>
  <2>1. \A i \in ready : i \in DOMAIN orders /\ orders[i].state = "Ready"
    <3>1. derived = View(orders)
      BY <1>1 DEF Sound, WorkTyped, Coherent, DerivedAgrees
    <3> QED
      BY <3>1 DEF ReadyIntentIndices, InState, View, Seen
  <2>2. ASSUME NEW i \in DOMAIN orders
        PROVE  /\ after[i] \in Order /\ SameWork(orders[i], after[i]) /\ (Live(after[i]) => Live(orders[i]))
               /\ RowSound(after[i]) /\ (after[i].slot = orders[i].slot \/ after[i].slot = NoSlot)
               /\ Terminal(after[i]) /\ ~Terminal(orders[i]) => after[i].slot = NoSlot
               /\ orders[i].layer # "UnitExecution" => after[i].state = orders[i].state
    <3>1. orders[i] \in Order /\ RowSound(orders[i])
      BY SoundParts
    <3>2. i \in ready => orders[i].layer = "UnitExecution" /\ Live(orders[i])
      BY <2>1, <3>1 DEF RowSound, Terminal, TerminalStates, Live, LiveStates
    <3>3. CASE i \in lost
      <4>1. after[i] = Moved(orders[i], "Aborted")
        BY <3>3
      <4> HIDE DEF after
      <4> QED
        BY <1>2, <3>1, <3>2, <3>3, <4>1, EndedRow DEF TerminalStates
    <3>4. CASE i \in out
      <4>1. after[i] = Moved(orders[i], "Dispatched") /\ orders[i].state = "Ready"
        BY <1>2, <2>1, <3>4
      <4> HIDE DEF after
      <4> QED
        BY <1>2, <3>1, <3>2, <3>4, <4>1, DispatchedRow
    <3>5. CASE i \notin lost /\ i \notin out
      BY <3>1, <3>5 DEF SameWork
    <3> QED
      BY <3>3, <3>4, <3>5
  <2>3. after \in Seq(Order) /\ DOMAIN after = DOMAIN orders
    <3>1. DOMAIN orders = 1 .. Len(orders) /\ Len(orders) \in Nat
      BY SoundParts
    <3> QED
      BY <2>2, <3>1
  <2> HIDE DEF after
  <2>4. Retouched
    BY <1>3, <2>2, <2>3 DEF Retouched, SameWork
  <2>5. Coherent'
    <3>1. /\ derived' \in Seq(SeenOrder) /\ derivedDirty' \in BOOLEAN /\ prioritiesDirty' \in BOOLEAN
          /\ DerivedAgrees'
      BY <1>3, <2>3, MarkedDirty DEF Sound, Coherent
    <3>2. batchDepth' \in Nat
      BY <1>3 DEF Sound, Coherent, TypeOK
    <3> QED
      BY <1>1, <2>4, <3>1, <3>2, RetouchKeeps DEF Sound
  <2>6. Advances(orders, orders') /\ SlotsKept(orders, orders')
    BY <1>3, <2>2, <2>3 DEF Advances, SlotsKept
  <2>7. WorkTyped' /\ Visits'
    BY <1>1, <1>3, <2>3 DEF Sound, WorkTyped, Phases, Visits
  <2> QED
    BY <1>1, <1>3, <2>2, <2>5, <2>6, <2>7, RewrittenSound
<1>4. CASE UNCHANGED vars
  <2>1. UNCHANGED <<orders, nextOrderId, idToIndex, batchDepth, derivedDirty, derived, prioritiesDirty, planOrder>>
    BY <1>4 DEF vars
  <2>2. Coherent'
    BY <2>1, IdleKeeps DEF Sound, Coherent, TypeOK
  <2>3. WorkTyped' /\ Visits'
    BY <1>1, <2>1 DEF Sound, WorkTyped, Visits, Phases
  <2> QED
    BY <1>1, <2>1, <2>2, <2>3, DoneAgain, KeptSound DEF Sound
<1> QED
  BY <1>1, <1>3, <1>4

LEMMA CaptureNewlyDispatchedSound == Sound /\ CaptureNewlyDispatched => Sound' /\ StaysEnded
<1> SUFFICES ASSUME Sound, CaptureNewlyDispatched PROVE Sound' /\ StaysEnded
  OBVIOUS
<1> DEFINE fresh(o) == o.layer = "UnitExecution" /\ o.state = "Dispatched" /\ o.attempts = 0
<1>1. /\ phase = "capture" /\ phase' = "frame"
      /\ orders' = [i \in DOMAIN orders |->
                      IF fresh(orders[i]) THEN [Undeferred(orders[i]) EXCEPT !.attempts = 1] ELSE orders[i]]
      /\ UNCHANGED <<nextOrderId, idToIndex, batchDepth, derivedDirty, prioritiesDirty, derived>>
      /\ UNCHANGED <<planOrder, todo, completed, wall, remapped, failures, blocked, sent, observed, late>>
  BY DEF CaptureNewlyDispatched, planVars, worldVars
<1>2. ASSUME NEW i \in DOMAIN orders
      PROVE  /\ orders'[i] \in Order /\ SameWork(orders[i], orders'[i]) /\ RowSound(orders'[i])
             /\ orders'[i].state = orders[i].state /\ orders'[i].slot = orders[i].slot
             /\ Seen(orders'[i]) = Seen(orders[i])
  <2>1. orders[i] \in Order /\ RowSound(orders[i])
    BY SoundParts
  <2>2. CASE fresh(orders[i])
    <3> DEFINE q == Undeferred(orders[i])
               p == [q EXCEPT !.attempts = 1]
    <3>1. /\ q \in Order /\ SameWork(orders[i], q) /\ q.state = orders[i].state /\ q.slot = orders[i].slot
          /\ RowSound(q) /\ Seen(q) = Seen(orders[i])
      BY <2>1, UndeferredRow, RowEdits
    <3>2. orders'[i] = p
      BY <1>1, <2>2
    <3> HIDE DEF q
    <3>3. /\ p \in Order /\ SameWork(q, p) /\ p.state = q.state /\ p.slot = q.slot /\ p.reason = q.reason
          /\ Seen(p) = Seen(q) /\ p.layer = q.layer
      BY <3>1 DEF Order, SameWork, Seen
    <3> HIDE DEF p
    <3>4. p.layer = "UnitExecution" /\ p.state = "Dispatched"
      BY <2>2, <3>1, <3>3 DEF SameWork
    <3>5. RowSound(p)
      BY <3>1, <3>3, <3>4 DEF RowSound, SameWork
    <3> QED
      BY <3>1, <3>2, <3>3, <3>5 DEF SameWork
  <2>3. CASE ~fresh(orders[i])
    BY <1>1, <2>1, <2>3 DEF SameWork
  <2> QED
    BY <2>2, <2>3
<1>3. orders' \in Seq(Order) /\ DOMAIN orders' = DOMAIN orders
  <2>1. DOMAIN orders = 1 .. Len(orders) /\ Len(orders) \in Nat
    BY SoundParts
  <2> QED
    BY <1>1, <1>2, <2>1
<1>4. View(orders') = View(orders)
  BY <1>2, <1>3, SameView, SoundParts
<1>5. Coherent'
  <2>1. Retouched
    BY <1>1, <1>2, <1>3 DEF Retouched, SameWork
  <2>2. /\ derived' \in Seq(SeenOrder) /\ derivedDirty' \in BOOLEAN /\ prioritiesDirty' \in BOOLEAN
        /\ DerivedAgrees' /\ batchDepth' \in Nat
    BY <1>1, <1>4 DEF Sound, Coherent, TypeOK, DerivedAgrees
  <2> QED
    BY <1>1, <2>1, <2>2, RetouchKeeps DEF Sound
<1>6. Advances(orders, orders') /\ SlotsKept(orders, orders')
  BY <1>2, <1>3 DEF Advances, SlotsKept, Live
<1>7. \A i \in DOMAIN orders : Terminal(orders'[i]) /\ ~Terminal(orders[i]) => orders'[i].slot = NoSlot
  BY <1>2 DEF Terminal
<1>8. WorkTyped' /\ Visits'
  BY <1>1, <1>3 DEF Sound, WorkTyped, Phases, Visits
<1> QED
  BY <1>1, <1>2, <1>5, <1>6, <1>7, <1>8, RewrittenSound
-----------------------------------------------------------------------------
(* Setting work aside.                                                      *)

(* The two instances of the buffer operators are one.                       *)
LEMMA SamePush ==
    ASSUME NEW q, NEW r, NEW c
    PROVE  RingFacts!TryPushOrCoalesce(q, r, c) = Ring!TryPushOrCoalesce(q, r, c)
BY DEF RingFacts!TryPushOrCoalesce, Ring!TryPushOrCoalesce, RingFacts!Holds, Ring!Holds,
       RingFacts!NoFreeSlot, Ring!NoFreeSlot, RingFacts!Discardable, Ring!Discardable,
       RingFacts!FirstOf, Ring!FirstOf, RingFacts!RemoveOrderedIndex, Ring!RemoveOrderedIndex,
       RingFacts!RemoveAt, Ring!RemoveAt

(* The buffer c holds each task once: what q holds, and sig.                *)
DrawnFrom(c, q, sig) ==
    /\ \A k, l \in DOMAIN c : c[k].sig = c[l].sig => k = l
    /\ \A k \in DOMAIN c : c[k].sig = sig \/ \E i \in DOMAIN q : c[k].sig = q[i].sig

LEMMA PushDraws ==
    ASSUME NEW q \in Seq(WorkRecord), \A k, l \in DOMAIN q : q[k].sig = q[l].sig => k = l,
           NEW r \in WorkRecord, Len(q) <= Capacity
    PROVE  LET c == Ring!TryPushOrCoalesce(q, r, Capacity).buffer
           IN  c \in Seq(WorkRecord) /\ Len(c) <= Capacity /\ DrawnFrom(c, q, r.sig)
<1> DEFINE c == RingFacts!TryPushOrCoalesce(q, r, Capacity).buffer
<1>1. c = Ring!TryPushOrCoalesce(q, r, Capacity).buffer
  BY SamePush
<1>2. RingFacts!OnePerTask(q) /\ Capacity \in Nat
  BY WorkBoundAssumption DEF RingFacts!OnePerTask
<1>3. c \in Seq(WorkRecord) /\ \E f : RingFacts!Origin(q, r, c, f)
  BY <1>2, RingFacts!PushOrigin
<1>4. Len(c) <= Capacity
  BY <1>2, RingFacts!PushLength
<1> HIDE DEF c
<1>5. DrawnFrom(c, q, r.sig)
  <2>1. PICK f : RingFacts!Origin(q, r, c, f)
    BY <1>3
  <2>2. DOMAIN c \subseteq Nat
    BY <1>3
  <2>3. /\ RingFacts!OnePerTask(c)
        /\ \A k \in DOMAIN c : c[k].sig = r.sig \/ \E i \in DOMAIN q : c[k].sig = q[i].sig
    BY <1>2, <2>1, <2>2, RingFacts!OriginDistinct
  <2> QED
    BY <2>3 DEF DrawnFrom, RingFacts!OnePerTask
<1> QED
  BY <1>1, <1>3, <1>4, <1>5

(* A push of work that is not parked.                                       *)
LEMMA Pushed ==
    ASSUME NEW buffers \in [Buffers -> Seq(WorkRecord)], ParkedOnce(buffers), NEW b \in Buffers,
           NEW c, NEW sig, DrawnFrom(c, buffers[b], sig), ~Parked(buffers, sig),
           NEW after, after = [buffers EXCEPT ![b] = c]
    PROVE  /\ ParkedOnce(after)
           /\ \A x : Parked(after, x) => Parked(buffers, x) \/ x = sig
<1>1. after[b] = c /\ \A d \in Buffers : d # b => after[d] = buffers[d]
  OBVIOUS
<1>2. ASSUME NEW d \in Buffers, NEW m \in DOMAIN after[d]
      PROVE  after[d][m].sig = sig \/ \E i \in DOMAIN buffers[d] : after[d][m].sig = buffers[d][i].sig
  BY <1>1 DEF DrawnFrom
<1>3. ASSUME NEW d \in Buffers, NEW i \in DOMAIN buffers[d] PROVE buffers[d][i].sig # sig
  BY DEF Parked
<1>4. ParkedOnce(after)
  <2> SUFFICES ASSUME NEW d \in Buffers, NEW e \in Buffers, NEW m \in DOMAIN after[d], NEW l \in DOMAIN after[e],
                      after[d][m].sig = after[e][l].sig
               PROVE  d = e /\ m = l
    BY DEF ParkedOnce
  <2>1. CASE d = b /\ e = b
    BY <1>1, <2>1 DEF DrawnFrom
  <2>2. CASE d # b /\ e # b
    BY <1>1, <2>2 DEF ParkedOnce
  <2>3. CASE d = b /\ e # b
    <3>1. l \in DOMAIN buffers[e] /\ after[e][l] = buffers[e][l]
      BY <1>1, <2>3
    <3>2. PICK i \in DOMAIN buffers[d] : after[d][m].sig = buffers[d][i].sig
      BY <1>2, <1>3, <3>1
    <3> QED
      BY <2>3, <3>1, <3>2 DEF ParkedOnce
  <2>4. CASE d # b /\ e = b
    <3>1. m \in DOMAIN buffers[d] /\ after[d][m] = buffers[d][m]
      BY <1>1, <2>4
    <3>2. PICK i \in DOMAIN buffers[e] : after[e][l].sig = buffers[e][i].sig
      BY <1>2, <1>3, <3>1
    <3> QED
      BY <2>4, <3>1, <3>2 DEF ParkedOnce
  <2> QED
    BY <2>1, <2>2, <2>3, <2>4
<1>5. \A x : Parked(after, x) => Parked(buffers, x) \/ x = sig
  BY <1>2 DEF Parked
<1> QED
  BY <1>4, <1>5

(* Only work on a step has the class of the step.                           *)
LEMMA StepClass ==
    ASSUME NEW o \in Order, NEW t \in TaskIds, Class(o) = [task |-> t]
    PROVE  o.task = t
<1> DEFINE l == [task |-> t, goal |-> o.goal, detail |-> o.detail]
<1>1. l \in Key /\ l.task = t /\ t # 0
  BY TaskIdAssumption DEF Order, Key
<1> HIDE DEF l
<1>2. ClassOf(l) = [task |-> t]
  BY <1>1, ClassLemma
<1>3. Matches(KeyOf(o), l)
  BY <1>1, <1>2, OrderKey, ClassLemma DEF Class
<1> QED
  BY <1>1, <1>3, OrderKey DEF Matches

(* The order that is parked and the one its record stands for.              *)
LEMMA RootLemma ==
    ASSUME Sound, NEW i \in DOMAIN orders, orders[i].layer = "EconomyAndProduction", Live(orders[i])
    PROVE  /\ RootOf(i) \in DOMAIN orders /\ Working(orders[RootOf(i)])
           /\ orders[RootOf(i)].layer \in {"StrategicDirector", "EconomyAndProduction"}
           /\ Class(orders[RootOf(i)]) = Class(orders[i])
           /\ \A j \in DOMAIN orders :
                 Working(orders[j]) /\ Class(orders[j]) = Class(orders[i]) => j \in Retiring(i)
<1> DEFINE o == orders[i]
           Above == /\ o.layer = "EconomyAndProduction" /\ o.parent # 0 /\ HasOrder(o.parent)
                    /\ Live(At(o.parent)) /\ At(o.parent).layer = "StrategicDirector"
<1>1. Working(o) /\ o \in Order
  BY SoundParts DEF Working
<1>2. ASSUME NEW j \in DOMAIN orders, Working(orders[j]), Class(orders[j]) = Class(o), j # i
      PROVE  o.parent = orders[j].id /\ orders[j].layer = "StrategicDirector" /\ orders[j].id # 0
  <2>1. Related(orders[j], o)
    BY <1>1, <1>2 DEF Sound, Kinship, Family
  <2>2. orders[j].parent # o.id
    <3> SUFFICES ASSUME orders[j].parent = o.id PROVE FALSE
      OBVIOUS
    <3>1. orders[j].parent # 0 /\ RowSound(orders[j])
      BY SoundParts
    <3>2. orders[j].layer = "EconomyAndProduction"
      BY <1>2, <3>1 DEF RowSound, Working
    <3> QED
      BY <3>2 DEF Sound, Kinship, Lineage
  <2>3. o.parent = orders[j].id
    BY <2>1, <2>2 DEF Related
  <2> QED
    BY <2>3, SoundParts DEF Sound, Kinship, Lineage
<1>3. ASSUME NEW j \in DOMAIN orders, o.parent = orders[j].id
      PROVE  HasOrder(o.parent) /\ idToIndex[o.parent] = j /\ At(o.parent) = orders[j]
  BY <1>3 DEF HasOrder, At, Ids, Sound, Coherent, IndexExact
<1>4. CASE Above
  <2>1. RootOf(i) = idToIndex[o.parent]
    BY <1>4 DEF RootOf
  <2>2. PICK j \in DOMAIN orders : o.parent = orders[j].id
    BY <1>4 DEF HasOrder, Ids, Sound, Coherent, IndexExact
  <2>3. RootOf(i) = j /\ Live(orders[j]) /\ orders[j].layer = "StrategicDirector"
    BY <1>3, <1>4, <2>1, <2>2
  <2>4. Working(orders[j]) /\ Class(orders[j]) = Class(o)
    BY <2>2, <2>3 DEF Working, Class, KeyOf, Sound, Kinship, Lineage
  <2>5. ASSUME NEW k \in DOMAIN orders, Working(orders[k]), Class(orders[k]) = Class(o)
        PROVE  k = i \/ k = j
    BY <1>2, <2>2, <2>5, OneRow
  <2> QED
    BY <2>3, <2>4, <2>5 DEF Retiring
<1>5. CASE ~Above
  <2>1. RootOf(i) = i
    BY <1>5 DEF RootOf
  <2>2. ASSUME NEW j \in DOMAIN orders, Working(orders[j]), Class(orders[j]) = Class(o), j # i
        PROVE  FALSE
    <3>1. o.parent = orders[j].id /\ orders[j].layer = "StrategicDirector" /\ o.parent # 0
      BY <1>2, <2>2
    <3>2. HasOrder(o.parent) /\ At(o.parent) = orders[j] /\ Live(orders[j])
      BY <1>3, <2>2, <3>1 DEF Working
    <3> QED
      BY <1>5, <3>1, <3>2
  <2> QED
    BY <1>1, <2>1, <2>2 DEF Retiring
<1> QED
  BY <1>4, <1>5

LEMMA RetiredRows ==
    ASSUME NEW s \in Seq(Order), Rows(s), NEW E,
           NEW r, r = [j \in DOMAIN s |-> IF j \in E THEN Retired(s[j]) ELSE s[j]]
    PROVE  /\ Advances(s, r) /\ SlotsKept(s, r) /\ DOMAIN r = DOMAIN s
           /\ \A j \in DOMAIN s : /\ Terminal(r[j]) /\ ~Terminal(s[j]) => r[j].slot = NoSlot
                                  /\ j \in E => ~Live(r[j])
                                  /\ j \notin E => r[j] = s[j]
<1>1. ASSUME NEW j \in DOMAIN s
      PROVE  /\ r[j] \in Order /\ SameWork(s[j], r[j]) /\ (Live(r[j]) => Live(s[j])) /\ RowSound(r[j])
             /\ (r[j].slot = s[j].slot \/ r[j].slot = NoSlot)
             /\ Terminal(r[j]) /\ ~Terminal(s[j]) => r[j].slot = NoSlot
             /\ j \in E => ~Live(r[j])
             /\ j \notin E => r[j] = s[j]
  <2>1. s[j] \in Order /\ RowSound(s[j])
    BY DEF Rows
  <2>2. CASE j \in E
    <3>1. r[j] = Retired(s[j])
      BY <2>2
    <3> QED
      BY <2>1, <2>2, <3>1, RetiredRow
  <2>3. CASE j \notin E
    BY <2>1, <2>3 DEF SameWork
  <2> QED
    BY <2>2, <2>3
<1>2. r \in Seq(Order) /\ DOMAIN r = DOMAIN s
  <2>1. DOMAIN s = 1 .. Len(s) /\ Len(s) \in Nat
    OBVIOUS
  <2> QED
    BY <1>1, <2>1
<1> QED
  BY <1>1, <1>2 DEF Advances, SlotsKept

LEMMA RecordFor ==
    ASSUME NEW o \in Order, RowSound(o), o.layer \in {"StrategicDirector", "EconomyAndProduction"},
           NEW policy \in RetentionPolicies(o)
    PROVE  BlockedRecordFor(o, policy) \in WorkRecord /\ BlockedRecordFor(o, policy).sig = Class(o)
<1>1. KeyOf(o) \in StepKeys /\ KeyOf(o) \in Key
  BY OrderKey DEF RowSound, StepKeys
<1>2. policy \in {"HotMustRun", "BufferedRetry"}
  BY DEF RetentionPolicies
<1>3. BlockedRecordFor(o, policy) \in [sig : {ClassOf(k) : k \in Key}, policy : {"HotMustRun", "BufferedRetry"},
                                       layer : {"StrategicDirector", "EconomyAndProduction"}, key : StepKeys]
  BY <1>1, <1>2 DEF BlockedRecordFor
<1> QED
  BY <1>3 DEF WorkRecord, BlockedRecordFor, Class

LEMMA ParkDeferredSound ==
    ASSUME NEW i \in todo, NEW policy \in RetentionPolicies(orders[RootOf(i)])
    PROVE  Sound /\ ParkDeferred(i, policy) => Sound' /\ StaysEnded
<1> SUFFICES ASSUME Sound, ParkDeferred(i, policy) PROVE Sound' /\ StaysEnded
  OBVIOUS
<1> DEFINE o == orders[RootOf(i)]
           b == IF o.layer = "StrategicDirector" THEN "Strategic" ELSE "Planning"
           pushed == Ring!TryPushOrCoalesce(blocked[b], BlockedRecordFor(o, policy), Capacity)
           c == pushed.buffer
           r == [j \in DOMAIN orders |-> IF j \in Retiring(i) THEN Retired(orders[j]) ELSE orders[j]]
<1>1. /\ phase = "park" /\ phase' = "park" /\ todo' = todo \ {i}
      /\ UNCHANGED <<completed, wall, remapped, failures, sent, observed, late>>
      /\ \/ UNCHANGED <<vars, blocked>>
         \/ /\ ~Terminal(orders[i])
            /\ blocked' = [blocked EXCEPT ![b] = c]
            /\ planOrder' = Unseeded(o.task)
            /\ Apply(r)
  BY DEF ParkDeferred, planVars, worldVars
<1>2. i \in DOMAIN orders /\ orders[i].layer = "EconomyAndProduction" /\ orders[i] \in Order
  BY <1>1, SoundParts DEF Sound, WorkTyped, Visits
<1>3. CASE UNCHANGED <<vars, blocked>>
  <2>1. UNCHANGED <<orders, nextOrderId, idToIndex, batchDepth, derivedDirty, derived, prioritiesDirty, planOrder, blocked>>
    BY <1>3 DEF vars
  <2>2. Coherent'
    BY <2>1, IdleKeeps DEF Sound, Coherent, TypeOK
  <2>3. WorkTyped' /\ Visits'
    BY <1>1, <2>1 DEF Sound, WorkTyped, Visits
  <2> QED
    BY <1>1, <2>1, <2>2, <2>3, DoneAgain, KeptSound DEF Sound
<1>4. CASE /\ ~Terminal(orders[i])
           /\ blocked' = [blocked EXCEPT ![b] = c]
           /\ planOrder' = Unseeded(o.task)
           /\ Apply(r)
  <2>1. Live(orders[i])
    BY <1>2, <1>4, OrderFields DEF Live, Terminal, States
  <2>2. /\ RootOf(i) \in DOMAIN orders /\ Working(o) /\ o.layer \in {"StrategicDirector", "EconomyAndProduction"}
        /\ Class(o) = Class(orders[i]) /\ o \in Order /\ RowSound(o)
    BY <1>2, <2>1, RootLemma, SoundParts
  <2>3. \A j \in DOMAIN orders : Working(orders[j]) /\ Class(orders[j]) = Class(o) => j \in Retiring(i)
    BY <1>2, <2>1, <2>2, RootLemma
  <2>4. BlockedRecordFor(o, policy) \in WorkRecord /\ BlockedRecordFor(o, policy).sig = Class(o)
    BY <2>2, RecordFor
  <2>5. b \in Buffers /\ blocked \in [Buffers -> Seq(WorkRecord)] /\ ParkedOnce(blocked)
        /\ \A d \in Buffers : blocked[d] \in Seq(WorkRecord) /\ Len(blocked[d]) <= Capacity
    BY DEF Buffers, Sound, WorkTyped, Apart
  <2>6. c \in Seq(WorkRecord) /\ Len(c) <= Capacity /\ DrawnFrom(c, blocked[b], Class(o))
    <3>1. \A k, l \in DOMAIN blocked[b] : blocked[b][k].sig = blocked[b][l].sig => k = l
      BY <2>5 DEF ParkedOnce
    <3> HIDE DEF b
    <3> QED
      BY <2>4, <2>5, <3>1, PushDraws
  <2>7. ~Parked(blocked, Class(o))
    BY <2>2 DEF Sound, Apart
  <2> HIDE DEF b, c
  <2>8. ParkedOnce(blocked') /\ \A x : Parked(blocked', x) => Parked(blocked, x) \/ x = Class(o)
    BY <1>4, <2>5, <2>6, <2>7, Pushed
  <2>9. blocked' \in [Buffers -> Seq(WorkRecord)] /\ \A d \in Buffers : Len(blocked'[d]) <= Capacity
    BY <1>4, <2>5, <2>6
  <2>10. /\ Advances(orders, r) /\ SlotsKept(orders, r) /\ DOMAIN r = DOMAIN orders
         /\ \A j \in DOMAIN orders : /\ Terminal(r[j]) /\ ~Terminal(orders[j]) => r[j].slot = NoSlot
                                     /\ j \in Retiring(i) => ~Live(r[j])
                                     /\ j \notin Retiring(i) => r[j] = orders[j]
    BY SoundParts, RetiredRows
  <2>11. /\ orders' = r /\ nextOrderId' = nextOrderId /\ batchDepth' = batchDepth /\ batchDepth # 0
    BY <1>1, <1>4 DEF Apply, Sound, WorkTyped
  <2> HIDE DEF r
  <2>12. \A j \in Retiring(i) : Working(orders[j]) /\ Class(orders[j]) = Class(o)
    BY <1>2, <2>1, <2>2 DEF Retiring, Working
  <2>13. /\ DOMAIN planOrder' \subseteq DOMAIN planOrder /\ o.task \notin DOMAIN planOrder'
         /\ \A t \in DOMAIN planOrder' : planOrder'[t] = planOrder[t]
         /\ \A t \in DOMAIN planOrder : t # o.task => t \in DOMAIN planOrder'
         /\ DOMAIN planOrder' \subseteq TaskIds /\ planOrder' \in [DOMAIN planOrder' -> Nat]
    <3>1. DOMAIN planOrder \subseteq TaskIds /\ planOrder \in [DOMAIN planOrder -> Nat]
      BY DEF Sound, Coherent, TypeOK
    <3> QED
      BY <1>4, <3>1 DEF Unseeded
  <2>14. Kinship(r) /\ Tied(r, planOrder)
    BY <2>10, AdvanceKinship, AdvanceTies DEF Sound
  <2>15. \A j \in DOMAIN orders : Working(r[j]) =>
            Working(orders[j]) /\ Class(r[j]) = Class(orders[j]) /\ Class(orders[j]) # Class(o) /\ r[j] = orders[j]
    <3> SUFFICES ASSUME NEW j \in DOMAIN orders, Working(r[j])
                 PROVE  Working(orders[j]) /\ Class(r[j]) = Class(orders[j]) /\ Class(orders[j]) # Class(o) /\ r[j] = orders[j]
      OBVIOUS
    <3>1. j \notin Retiring(i) /\ r[j] = orders[j]
      BY <2>10 DEF Working
    <3> QED
      BY <2>3, <3>1
  <2>16. Tied(r, planOrder')
    <3>1. Owners(r, planOrder')
      BY <2>13, <2>14 DEF Tied, Owners
    <3>2. Owned(r, planOrder')
      <4> SUFFICES ASSUME NEW j \in DOMAIN orders, Working(r[j]), r[j].task # 0
                   PROVE  r[j].task \in DOMAIN planOrder' /\ planOrder'[r[j].task] \in {r[j].id, r[j].parent}
        BY <2>10 DEF Owned
      <4>1. r[j].task \in DOMAIN planOrder /\ planOrder[r[j].task] \in {r[j].id, r[j].parent}
        BY <2>10, <2>14 DEF Tied, Owned
      <4>2. r[j].task # o.task
        <5>1. orders[j] \in Order /\ orders[j].task = r[j].task /\ Class(orders[j]) # Class(o)
          BY <2>15, SoundParts
        <5> QED
          BY <2>2, <5>1, SameClass
      <4> QED
        BY <2>13, <4>1, <4>2
    <3> QED
      BY <3>1, <3>2 DEF Tied
  <2>17. Done(r, planOrder', completed, phase')
    <3> SUFFICES ASSUME NEW t \in completed \cap DOMAIN planOrder', NEW j \in DOMAIN orders, r[j].id = planOrder'[t]
                 PROVE  r[j].state = "Completed"
      BY <2>10 DEF Done
    <3>1. t \in DOMAIN planOrder /\ orders[j].id = planOrder[t]
      BY <2>10, <2>13 DEF Advances, SameWork
    <3>2. orders[j].state = "Completed"
      BY <1>1, <3>1 DEF Sound, Done
    <3>3. ~Live(orders[j])
      BY <3>2 DEF Live, LiveStates
    <3>4. j \notin Retiring(i)
      BY <2>12, <3>3 DEF Working
    <3> QED
      BY <2>10, <3>2, <3>4
  <2>18. Together(r, late)
    <3> SUFFICES ASSUME NEW j \in DOMAIN orders, NEW k \in DOMAIN orders, Live(r[j]),
                        r[j].layer = "EconomyAndProduction", r[j].task # 0, r[j].parent = r[k].id, ~late
                 PROVE  Live(r[k])
      BY <2>10 DEF Together
    <3>1. r[j] = orders[j] /\ Working(orders[j]) /\ Class(orders[j]) # Class(o) /\ orders[k].id = r[k].id
      <4>1. Working(r[j])
        BY DEF Working
      <4> QED
        BY <4>1, <2>10, <2>15 DEF Advances, SameWork
    <3>2. Live(orders[k])
      BY <3>1 DEF Sound, Together, Working
    <3>3. Class(orders[k]) = Class(orders[j])
      BY <3>1 DEF Sound, Kinship, Lineage, Class, KeyOf
    <3> QED
      BY <2>10, <2>12, <3>1, <3>2, <3>3
  <2>19. Apart(r, planOrder', blocked')
    <3>1. ASSUME NEW j \in DOMAIN r, Working(r[j]) PROVE ~Parked(blocked', Class(r[j]))
      <4>1. Working(orders[j]) /\ Class(r[j]) = Class(orders[j]) /\ Class(r[j]) # Class(o) /\ j \in DOMAIN orders
        BY <2>10, <2>15, <3>1
      <4>2. ~Parked(blocked, Class(r[j]))
        BY <4>1 DEF Sound, Apart
      <4> QED
        BY <2>8, <4>1, <4>2
    <3>2. ASSUME NEW t \in DOMAIN planOrder' PROVE ~Parked(blocked', [task |-> t])
      <4>1. ~Parked(blocked, [task |-> t])
        BY <2>13 DEF Sound, Apart
      <4>2. [task |-> t] # Class(o)
        BY <2>2, <2>13, StepClass
      <4> QED
        BY <2>8, <4>1, <4>2
    <3> QED
      BY <2>8, <3>1, <3>2 DEF Apart
  <2>20. Coherent'
    <3>1. r \in Seq(Order) /\ \A j \in DOMAIN orders : r[j].id = orders[j].id
      BY <2>10 DEF Advances, SameWork
    <3> QED
      BY <1>4, <2>10, <2>11, <2>13, <3>1, ApplyKeeps DEF Sound
  <2>21. WorkTyped'
    BY <1>1, <2>9, <2>10, <2>11, <2>13 DEF Sound, WorkTyped
  <2>22. Visits'
    <3>1. \A j \in todo' : orders'[j].layer = "EconomyAndProduction"
      BY <1>1, <2>10, <2>11 DEF Sound, Visits, WorkTyped, Advances, SameWork
    <3> QED
      BY <1>1, <3>1 DEF Visits
  <2>23. StaysEnded
    BY <2>10, <2>11, StaysInPlace DEF Advances, SameWork
  <2> QED
    BY <1>1, <2>11, <2>14, <2>16, <2>17, <2>18, <2>19, <2>20, <2>21, <2>22, <2>23 DEF Sound
<1> QED
  BY <1>1, <1>3, <1>4
-----------------------------------------------------------------------------
(* What an iteration over an economy order makes of table and plan.         *)

WorldType ==
    [table : Seq(Order), plan : Plans, wall : Walls, remapped : Remaps, failures : [TaskIds -> Nat]]

(* The recorded orders of a plan are those of the table before.             *)
Steady(r, plan) ==
    \A t \in DOMAIN plan : \A j \in DOMAIN r : r[j].id = plan[t] => r[j].state = orders[j].state

(* What the handlers have made of the world so far: no order came back to   *)
(* life, no slot was claimed, and an order that ended is recorded no more.  *)
From(w) ==
    /\ w \in WorldType
    /\ Advances(orders, w.table) /\ SlotsKept(orders, w.table)
    /\ DOMAIN w.plan \subseteq DOMAIN planOrder /\ \A t \in DOMAIN w.plan : w.plan[t] = planOrder[t]
    /\ Steady(w.table, w.plan) /\ Owned(w.table, w.plan) /\ Together(w.table, late)

LEMMA WorldFrom == ASSUME Sound PROVE From(World) /\ World.table = orders
<1>1. /\ World.table = orders /\ World.plan = planOrder /\ World.wall = wall
      /\ World.remapped = remapped /\ World.failures = failures
  BY DEF World
<1>2. World \in WorldType
  BY PlanTyped DEF World, WorldType, Sound, Coherent, TypeOK, WorkTyped
<1>3. Advances(orders, orders) /\ SlotsKept(orders, orders) /\ Steady(orders, planOrder)
  BY SoundParts DEF Advances, SlotsKept, Steady, SameWork
<1> QED
  BY <1>1, <1>2, <1>3 DEF From, Sound, Tied

LEMMA AdvanceAgain ==
    ASSUME NEW s, NEW q, NEW r, Advances(s, q), Advances(q, r), SlotsKept(s, q), SlotsKept(q, r)
    PROVE  Advances(s, r) /\ SlotsKept(s, r)
<1>1. Advances(s, r)
  BY DEF Advances, SameWork
<1>2. SlotsKept(s, r)
  BY DEF Advances, SlotsKept
<1> QED
  BY <1>1, <1>2

(* What follows for the table of such a world.                              *)
LEMMA FromParts ==
    ASSUME Sound, NEW w, From(w)
    PROVE  /\ w.table \in Seq(Order) /\ DOMAIN w.table = DOMAIN orders /\ w.plan \in Plans
           /\ Kinship(w.table) /\ Tied(w.table, w.plan)
           /\ Done(w.table, w.plan, completed, phase) /\ Apart(w.table, w.plan, blocked)
           /\ \A j \in DOMAIN orders : /\ w.table[j] \in Order /\ RowSound(w.table[j])
                                       /\ SameWork(orders[j], w.table[j])
                                       /\ Live(w.table[j]) => Live(orders[j])
<1>1. w.table \in Seq(Order) /\ w.plan \in Plans
  BY DEF From, WorldType
<1>2. /\ DOMAIN w.table = DOMAIN orders
      /\ \A j \in DOMAIN orders : /\ RowSound(w.table[j]) /\ SameWork(orders[j], w.table[j])
                                  /\ Live(w.table[j]) => Live(orders[j])
  BY DEF From, Advances
<1>3. Kinship(w.table)
  BY AdvanceKinship, SoundParts DEF From
<1>4. ASSUME NEW t \in DOMAIN w.plan, NEW j \in DOMAIN orders, w.table[j].id = w.plan[t]
      PROVE  /\ t \in DOMAIN planOrder /\ orders[j].id = planOrder[t] /\ w.table[j].state = orders[j].state
             /\ (w.table[j].slot = orders[j].slot \/ w.table[j].slot = NoSlot)
  BY <1>2, <1>4 DEF From, Steady, SameWork, SlotsKept
<1>5. Owners(w.table, w.plan)
  <2> SUFFICES ASSUME NEW t \in DOMAIN w.plan, NEW j \in DOMAIN orders, w.table[j].id = w.plan[t]
               PROVE  /\ w.table[j].task = t /\ w.table[j].parent = 0 /\ w.table[j].layer # "UnitExecution"
                      /\ Terminal(w.table[j]) => w.table[j].slot = NoSlot
    BY <1>2 DEF Owners
  <2>1. /\ t \in DOMAIN planOrder /\ orders[j].id = planOrder[t] /\ w.table[j].state = orders[j].state
        /\ (w.table[j].slot = orders[j].slot \/ w.table[j].slot = NoSlot)
    BY <1>4
  <2>2. /\ orders[j].task = t /\ orders[j].parent = 0 /\ orders[j].layer # "UnitExecution"
        /\ Terminal(orders[j]) => orders[j].slot = NoSlot
    BY <2>1 DEF Sound, Tied, Owners
  <2>3. Terminal(w.table[j]) => w.table[j].slot = NoSlot
    BY <2>1, <2>2 DEF Terminal
  <2> QED
    BY <1>2, <2>2, <2>3 DEF SameWork
<1>6. Done(w.table, w.plan, completed, phase)
  <2> SUFFICES ASSUME NEW t \in completed \cap DOMAIN w.plan, NEW j \in DOMAIN orders, w.table[j].id = w.plan[t]
               PROVE  \/ w.table[j].state = "Completed"
                      \/ phase = "reactivate" /\ Live(w.table[j]) /\ w.table[j].slot = NoSlot
    BY <1>2 DEF Done
  <2>1. /\ t \in DOMAIN planOrder /\ orders[j].id = planOrder[t] /\ w.table[j].state = orders[j].state
        /\ (w.table[j].slot = orders[j].slot \/ w.table[j].slot = NoSlot)
    BY <1>4
  <2> QED
    BY <2>1 DEF Sound, Done, Live
<1>7. Apart(w.table, w.plan, blocked)
  BY AdvanceApart DEF Sound, From
<1> QED
  BY <1>1, <1>2, <1>3, <1>5, <1>6, <1>7 DEF From, Tied

(* The world w with p for its i-th row.                                     *)
Rewrites(w, i, p, v) == v = [w EXCEPT !.table[i] = p]

(* A row written anew, still in its state and with no slot it had not.      *)
LEMMA RowFrom ==
    ASSUME Sound, NEW w, From(w), NEW i \in DOMAIN orders, NEW p \in Order,
           SameWork(w.table[i], p), p.state = w.table[i].state, RowSound(p),
           p.slot = w.table[i].slot \/ p.slot = NoSlot,
           NEW v, Rewrites(w, i, p, v)
    PROVE  From(v)
<1> DEFINE s == w.table
           r == [s EXCEPT ![i] = p]
<1>1. /\ s \in Seq(Order) /\ DOMAIN s = DOMAIN orders /\ Rows(s)
      /\ \A j \in DOMAIN orders : s[j] \in Order
  BY FromParts DEF Kinship
<1>2. /\ v.table = r /\ v.plan = w.plan /\ v.wall = w.wall /\ v.remapped = w.remapped /\ v.failures = w.failures
      /\ v \in WorldType
  <2>1. w \in WorldType
    BY DEF From
  <2>2. r \in Seq(Order)
    BY <1>1
  <2> QED
    BY <2>1, <2>2 DEF WorldType, Rewrites
<1>3. DOMAIN r = DOMAIN s /\ r[i] = p /\ \A j \in DOMAIN s : j # i => r[j] = s[j]
  BY <1>1
<1>4. r \in Seq(Order)
  BY <1>1
<1>5. \A j \in DOMAIN s : /\ SameWork(s[j], r[j]) /\ r[j].state = s[j].state /\ RowSound(r[j])
                          /\ (r[j].slot = s[j].slot \/ r[j].slot = NoSlot)
  <2> SUFFICES ASSUME NEW j \in DOMAIN s
               PROVE  /\ SameWork(s[j], r[j]) /\ r[j].state = s[j].state /\ RowSound(r[j])
                      /\ (r[j].slot = s[j].slot \/ r[j].slot = NoSlot)
    OBVIOUS
  <2>1. CASE j = i
    BY <2>1, <1>3
  <2>2. CASE j # i
    BY <2>2, <1>1, <1>3 DEF SameWork, Rows
  <2> QED
    BY <2>1, <2>2
<1> HIDE DEF r
<1>6. Advances(s, r) /\ SlotsKept(s, r)
  BY <1>3, <1>4, <1>5 DEF Advances, SlotsKept, Live
<1>7. Advances(orders, r) /\ SlotsKept(orders, r)
  BY <1>6, AdvanceAgain DEF From
<1>8. Steady(r, w.plan)
  BY <1>3, <1>5 DEF From, Steady, SameWork
<1>9. Owned(r, w.plan)
  BY <1>3, <1>5 DEF From, Owned, SameWork, Working, Live
<1>10. Together(r, late)
  BY <1>3, <1>5 DEF From, Together, SameWork, Live
<1> QED
  BY <1>2, <1>7, <1>8, <1>9, <1>10 DEF From, r

LEMMA PostponedFrom ==
    ASSUME Sound, NEW w, From(w), NEW i \in DOMAIN orders, orders[i].layer = "EconomyAndProduction",
           NEW reason \in DeferralReasons
    PROVE  From(PostponedIn(w, i, reason))
<1> DEFINE p == Postponed(w.table[i], reason)
<1>1. w.table[i] \in Order /\ RowSound(w.table[i]) /\ w.table[i].layer = "EconomyAndProduction"
  BY FromParts DEF SameWork
<1>2. /\ p \in Order /\ SameWork(w.table[i], p) /\ p.state = w.table[i].state /\ p.slot = w.table[i].slot
      /\ RowSound(p)
  BY <1>1, PostponedRow
<1>3. Rewrites(w, i, p, PostponedIn(w, i, reason))
  <2>1. w \in WorldType
    BY DEF From
  <2> QED
    BY <2>1 DEF PostponedIn, WorldType, Rewrites
<1> HIDE DEF p
<1> QED
  BY <1>2, <1>3, RowFrom

LEMMA ClearedFrom ==
    ASSUME Sound, NEW w, From(w), NEW i \in DOMAIN orders, orders[i].layer = "EconomyAndProduction"
    PROVE  From([w EXCEPT !.table[i].slot = NoSlot])
<1> DEFINE p == [w.table[i] EXCEPT !.slot = NoSlot]
<1>1. w.table[i] \in Order /\ RowSound(w.table[i]) /\ w.table[i].layer = "EconomyAndProduction"
  BY FromParts DEF SameWork
<1>2. /\ p \in Order /\ SameWork(w.table[i], p) /\ p.state = w.table[i].state /\ p.slot = NoSlot
      /\ RowSound(p)
  BY <1>1, SlottedRow
<1>3. Rewrites(w, i, p, [w EXCEPT !.table[i].slot = NoSlot])
  <2>1. w \in WorldType
    BY DEF From
  <2> QED
    BY <2>1 DEF WorldType, Rewrites
<1> HIDE DEF p
<1> QED
  BY <1>2, <1>3, RowFrom

(* The failure counts and the wall are beside the table.                    *)
LEMMA BesideFrom ==
    ASSUME NEW w, From(w), NEW v \in WorldType, v.table = w.table, v.plan = w.plan
    PROVE  From(v)
BY DEF From

LEMMA CountedFrom ==
    ASSUME NEW w, From(w), NEW t \in TaskIds, NEW n \in Nat
    PROVE  LET v == [w EXCEPT !.failures[t] = n]
           IN  From(v) /\ v.table = w.table /\ v.plan = w.plan /\ v.failures[t] = n
<1> DEFINE v == [w EXCEPT !.failures[t] = n]
<1>1. w \in WorldType
  BY DEF From
<1>2. v \in WorldType /\ v.table = w.table /\ v.plan = w.plan /\ v.failures[t] = n
  BY <1>1 DEF WorldType
<1> HIDE DEF v
<1>3. From(v)
  BY <1>2, BesideFrom
<1> QED
  BY <1>2, <1>3 DEF v

LEMMA ResetFrom ==
    ASSUME NEW w, From(w), NEW t \in TaskIds \cup {0}
    PROVE  /\ From(FailuresReset(w, t))
           /\ FailuresReset(w, t).table = w.table /\ FailuresReset(w, t).plan = w.plan
<1>1. CASE t = 0
  BY <1>1 DEF FailuresReset
<1>2. CASE t # 0
  <2>1. t \in TaskIds /\ 0 \in Nat /\ FailuresReset(w, t) = [w EXCEPT !.failures[t] = 0]
    BY <1>2 DEF FailuresReset
  <2> QED
    BY <2>1, CountedFrom
<1> QED
  BY <1>1, <1>2

(* The steps of a wall have places in a finite row.                         *)
LEMMA PlaceLemma ==
    ASSUME NEW S \in SUBSET TaskIds, NEW t \in TaskIds
    PROVE  Cardinality({u \in S : u < t}) \in Nat
<1> DEFINE B == {u \in S : u < t}
<1>1. t \in Nat /\ S \subseteq Nat
  BY TaskIdAssumption
<1>2. \A u \in B : u \in 0 .. t
  BY <1>1
<1> HIDE DEF B
<1>3. IsFiniteSet(0 .. t)
  BY <1>1, FS_Interval
<1>4. IsFiniteSet(B)
  BY <1>2, <1>3, FS_Subset
<1> QED
  BY <1>4, FS_CardinalityType DEF B

LEMMA FallbackFrom ==
    ASSUME Sound, NEW w, From(w)
    PROVE  From(Fallback(w))
<1> DEFINE pending == WallDepots \ completed
           place(t) == 1 + Cardinality({u \in pending : u < t})
           moving == {t \in pending : place(t) <= Len(NaturalSlots)}
           expiring == {w.plan[t] : t \in moving \cap DOMAIN w.plan}
           expired(o) == IF o.id \in expiring \/ (o.parent \in expiring /\ Live(o))
                         THEN Moved(o, "Expired") ELSE o
           s == w.table
           E == {j \in DOMAIN s : s[j].id \in expiring \/ (s[j].parent \in expiring /\ Live(s[j]))}
           r == EndedAt(s, E, "Expired")
           kept == [t \in DOMAIN w.plan \ moving |-> w.plan[t]]
           remap == [t \in moving |-> NaturalSlots[place(t)]]
           count == [t \in TaskIds |-> IF t \in moving THEN 0 ELSE w.failures[t]]
           v == [table |-> r, plan |-> kept, wall |-> "NaturalFallbackActive", remapped |-> remap,
                 failures |-> count]
<1>1. CASE w.wall # "RampActive"
  BY <1>1 DEF Fallback
<1>2. CASE w.wall = "RampActive"
  <2>1. Fallback(w) = v
    <3>1. [j \in DOMAIN s |-> expired(s[j])] = r
      BY DEF EndedAt
    <3> HIDE DEF r, remap, count, kept
    <3> QED
      BY <1>2, <3>1 DEF Fallback, r, remap, count, kept
  <2>2. w \in WorldType /\ s \in Seq(Order) /\ Rows(s) /\ DOMAIN s = DOMAIN orders /\ Tied(s, w.plan) /\ Kinship(s)
    BY FromParts DEF From, Kinship
  <2>3. remap \in Remaps
    <3>1. moving \subseteq WallDepots /\ \A t \in moving : t \in TaskIds
      BY StepAssumption
    <3>2. ASSUME NEW t \in moving PROVE NaturalSlots[place(t)] \in Slots
      <4>1. Cardinality({u \in pending : u < t}) \in Nat
        BY <3>1, PlaceLemma, StepAssumption
      <4>2. place(t) \in 1 .. Len(NaturalSlots)
        <5>1. Len(NaturalSlots) \in Nat
          BY StepAssumption
        <5> QED
          BY <4>1, <5>1, <3>2
      <4> HIDE DEF place
      <4> QED
        BY <4>2, StepAssumption
    <3> HIDE DEF moving, place
    <3>3. remap \in [moving -> Slots]
      BY <3>2
    <3> QED
      BY <3>1, <3>3 DEF Remaps
  <2>4. count \in [TaskIds -> Nat]
    <3>1. w.failures \in [TaskIds -> Nat]
      BY <2>2 DEF WorldType
    <3> HIDE DEF moving
    <3> QED
      BY <3>1
  <2>5. /\ kept \in Plans /\ DOMAIN kept = DOMAIN w.plan \ moving /\ \A t \in DOMAIN kept : kept[t] = w.plan[t]
    <3>1. w.plan \in Plans
      BY <2>2 DEF WorldType
    <3>2. DOMAIN w.plan \subseteq TaskIds /\ w.plan \in [DOMAIN w.plan -> Nat]
      BY <3>1 DEF Plans
    <3> HIDE DEF moving
    <3> QED
      BY <3>2 DEF Plans
  <2>6. /\ Advances(s, r) /\ SlotsKept(s, r) /\ DOMAIN r = DOMAIN s
        /\ \A j \in DOMAIN s : /\ j \in E => ~Live(r[j])
                               /\ j \notin E => r[j] = s[j]
    <3>1. E \in SUBSET DOMAIN s /\ "Expired" \in TerminalStates
      BY DEF TerminalStates
    <3> HIDE DEF E, s
    <3> QED
      BY <2>2, <3>1, EndedRows
  <2>7. \A id \in expiring : id # 0
    <3>1. \A t \in DOMAIN w.plan : w.plan[t] # 0
      BY DEF From, Sound, WorkTyped
    <3> QED
      BY <3>1
  <2>8. \A j \in DOMAIN s : /\ s[j].id \in expiring => j \in E
                            /\ s[j].parent \in expiring /\ Live(s[j]) => j \in E
                            /\ j \in E => s[j].id \in expiring \/ s[j].parent \in expiring
    OBVIOUS
  <2>9. \A t \in moving \cap DOMAIN w.plan : w.plan[t] \in expiring
    OBVIOUS
  <2>10. \A id \in expiring : \E t \in moving : t \in DOMAIN w.plan /\ id = w.plan[t]
    OBVIOUS
  <2>11. r \in Seq(Order)
    BY <2>6 DEF Advances
  <2> HIDE DEF r, E, expiring, kept, remap, count, moving
  <2>12. v \in WorldType /\ v.table = r /\ v.plan = kept
    BY <2>3, <2>4, <2>5, <2>11 DEF WorldType, Walls
  <2>13. Advances(orders, r) /\ SlotsKept(orders, r)
    BY <2>6, AdvanceAgain DEF From
  <2>14. Steady(r, kept)
    <3> SUFFICES ASSUME NEW t \in DOMAIN kept, NEW j \in DOMAIN s, r[j].id = kept[t]
                 PROVE  r[j].state = orders[j].state
      BY <2>6 DEF Steady
    <3>1. t \in DOMAIN w.plan /\ t \notin moving /\ s[j].id = w.plan[t]
      BY <2>5, <2>6 DEF Advances, SameWork
    <3>2. s[j].task = t /\ s[j].parent = 0
      BY <2>2, <3>1 DEF Tied, Owners
    <3>3. s[j].id \notin expiring
      <4> SUFFICES ASSUME NEW u \in moving, u \in DOMAIN w.plan, s[j].id = w.plan[u] PROVE FALSE
        BY <2>10
      <4>1. s[j].task = u
        BY <2>2 DEF Tied, Owners
      <4> QED
        BY <3>1, <3>2, <4>1
    <3>4. j \notin E
      BY <2>7, <2>8, <3>2, <3>3
    <3> QED
      BY <2>6, <3>1, <3>4 DEF From, Steady
  <2>15. Owned(r, kept)
    <3> SUFFICES ASSUME NEW j \in DOMAIN s, Working(r[j]), r[j].task # 0
                 PROVE  r[j].task \in DOMAIN kept /\ kept[r[j].task] \in {r[j].id, r[j].parent}
      BY <2>6 DEF Owned
    <3>1. j \notin E /\ r[j] = s[j] /\ Live(s[j])
      BY <2>6 DEF Working
    <3>2. s[j].task \in DOMAIN w.plan /\ w.plan[s[j].task] \in {s[j].id, s[j].parent}
      BY <3>1 DEF From, Owned
    <3>3. s[j].task \notin moving
      BY <2>8, <2>9, <3>1, <3>2
    <3> QED
      BY <2>5, <3>1, <3>2, <3>3
  <2>16. Together(r, late)
    <3> SUFFICES ASSUME NEW j \in DOMAIN s, NEW k \in DOMAIN s, Live(r[j]), r[j].layer = "EconomyAndProduction",
                        r[j].task # 0, r[j].parent = r[k].id, ~late
                 PROVE  Live(r[k])
      BY <2>6 DEF Together
    <3>1. j \notin E /\ r[j] = s[j] /\ r[k].id = s[k].id
      BY <2>6 DEF Advances, SameWork
    <3>2. Live(s[k])
      BY <3>1 DEF From, Together
    <3>3. s[k].layer = "StrategicDirector" /\ s[k].parent = 0
      BY <2>2, <3>1 DEF Kinship, Lineage, Rows, RowSound
    <3>4. k \notin E
      BY <2>7, <2>8, <3>1, <3>3
    <3> QED
      BY <2>6, <3>2, <3>4
  <2>17. DOMAIN kept \subseteq DOMAIN planOrder /\ \A t \in DOMAIN kept : kept[t] = planOrder[t]
    BY <2>5 DEF From
  <2> HIDE DEF v
  <2>18. From(v)
    BY <2>12, <2>13, <2>14, <2>15, <2>16, <2>17 DEF From
  <2> QED
    BY <2>1, <2>18
<1> QED
  BY <1>1, <1>2

LEMMA AfterFrom ==
    ASSUME Sound, NEW w, From(w), NEW o \in Order, NEW reason
    PROVE  From(AfterPlacementDeferral(w, o, reason))
<1>1. CASE ~IsMandatoryRampWallDepotOrder(o) \/ w.wall # "RampActive"
  BY <1>1 DEF AfterPlacementDeferral
<1>2. CASE ~(~IsMandatoryRampWallDepotOrder(o) \/ w.wall # "RampActive")
  <2>1. o.task \in TaskIds
    BY <1>2, StepAssumption DEF IsMandatoryRampWallDepotOrder
  <2>2. CASE reason = "ReservedSlotInvalidated"
    <3>1. AfterPlacementDeferral(w, o, reason) = Fallback(w)
      BY <1>2, <2>2 DEF AfterPlacementDeferral
    <3> QED
      BY <3>1, FallbackFrom
  <2>3. CASE reason = "ReservedSlotOccupied"
    <3> DEFINE counted == [w EXCEPT !.failures[o.task] = @ + 1]
               n == w.failures[o.task] + 1
    <3>1. w \in WorldType
      BY DEF From
    <3>2. n \in Nat /\ counted = [w EXCEPT !.failures[o.task] = n]
      BY <2>1, <3>1 DEF WorldType
    <3> HIDE DEF n
    <3>3. From(counted)
      BY <2>1, <3>2, CountedFrom
    <3> HIDE DEF counted
    <3>4. From(Fallback(counted))
      BY <3>3, FallbackFrom
    <3>5. AfterPlacementDeferral(w, o, reason) \in {Fallback(counted), counted}
      BY <1>2, <2>3 DEF AfterPlacementDeferral, counted
    <3> QED
      BY <3>3, <3>4, <3>5
  <2>4. CASE reason # "ReservedSlotInvalidated" /\ reason # "ReservedSlotOccupied"
    <3>1. AfterPlacementDeferral(w, o, reason) = FailuresReset(w, o.task)
      BY <1>2, <2>4 DEF AfterPlacementDeferral
    <3> QED
      BY <2>1, <3>1, ResetFrom
  <2> QED
    BY <2>2, <2>3, <2>4
<1> QED
  BY <1>1, <1>2

LEMMA CommitSound ==
    ASSUME Sound, phase = "economy", NEW w, From(w), Commit(w), todo' \subseteq todo,
           UNCHANGED <<phase, blocked, sent, observed, late>>
    PROVE  Sound' /\ StaysEnded
<1>1. /\ Apply(w.table) /\ planOrder' = w.plan /\ wall' = w.wall /\ remapped' = w.remapped
      /\ failures' = w.failures /\ completed' = completed
  BY DEF Commit
<1>2. /\ w.table \in Seq(Order) /\ DOMAIN w.table = DOMAIN orders /\ w.plan \in Plans
      /\ Kinship(w.table) /\ Tied(w.table, w.plan)
      /\ Done(w.table, w.plan, completed, phase) /\ Apart(w.table, w.plan, blocked)
      /\ \A j \in DOMAIN orders : w.table[j].id = orders[j].id
  BY FromParts DEF SameWork
<1>3. /\ orders' = w.table /\ nextOrderId' = nextOrderId /\ batchDepth' = batchDepth /\ batchDepth # 0
  BY <1>1 DEF Apply, Sound, WorkTyped
<1>4. DOMAIN planOrder' \subseteq TaskIds /\ planOrder' \in [DOMAIN planOrder' -> Nat]
  BY <1>1, <1>2 DEF Plans
<1>5. Coherent'
  BY <1>1, <1>2, <1>3, <1>4, ApplyKeeps DEF Sound
<1>6. WorkTyped'
  <2>1. /\ wall' \in Walls /\ remapped' \in Remaps /\ failures' \in [TaskIds -> Nat]
    BY <1>1 DEF From, WorldType
  <2>2. \A t \in DOMAIN planOrder' : planOrder'[t] # 0 /\ planOrder'[t] < nextOrderId'
    BY <1>1, <1>3 DEF From, Sound, WorkTyped
  <2>3. todo' \subseteq DOMAIN orders'
    BY <1>2, <1>3 DEF Sound, WorkTyped
  <2> QED
    BY <1>1, <1>3, <2>1, <2>2, <2>3 DEF Sound, WorkTyped
<1>7. Visits'
  BY DEF Visits
<1>8. Together(w.table, late)
  BY DEF From
<1>9. StaysEnded
  BY <1>2, <1>3, StaysInPlace DEF From, Advances
<1> QED
  BY <1>1, <1>2, <1>3, <1>5, <1>6, <1>7, <1>8, <1>9 DEF Sound

LEMMA HoldSound ==
    ASSUME Sound, phase = "economy", NEW w, From(w), NEW i \in DOMAIN orders,
           orders[i].layer = "EconomyAndProduction", NEW reason \in DeferralReasons,
           Hold(i, w, reason), todo' \subseteq todo, UNCHANGED <<phase, blocked, observed, late>>
    PROVE  Sound' /\ StaysEnded
<1>1. From(PostponedIn(w, i, reason))
  BY PostponedFrom
<1>2. Commit(PostponedIn(w, i, reason)) /\ UNCHANGED sent
  BY DEF Hold
<1> QED
  BY <1>1, <1>2, CommitSound

(* A slot nobody else claims.                                               *)
Claims(s, i, p, r) == r = [s EXCEPT ![i] = p]

LEMMA ClaimKinship ==
    ASSUME NEW s \in Seq(Order), Kinship(s), NEW i \in DOMAIN s, NEW p \in Order,
           SameWork(s[i], p), p.state = s[i].state, RowSound(p),
           \A j \in DOMAIN s : j # i /\ Live(s[j]) => s[j].slot # p.slot,
           NEW r, Claims(s, i, p, r)
    PROVE  Kinship(r)
<1>1. DOMAIN r = DOMAIN s /\ r[i] = p /\ \A j \in DOMAIN s : j # i => r[j] = s[j]
  BY DEF Claims
<1>2. \A j \in DOMAIN s : /\ SameWork(s[j], r[j]) /\ r[j].state = s[j].state /\ RowSound(r[j])
                          /\ (Live(r[j]) <=> Live(s[j])) /\ (Working(r[j]) <=> Working(s[j]))
                          /\ Class(r[j]) = Class(s[j])
  <2> SUFFICES ASSUME NEW j \in DOMAIN s
               PROVE  /\ SameWork(s[j], r[j]) /\ r[j].state = s[j].state /\ RowSound(r[j])
                      /\ (Live(r[j]) <=> Live(s[j])) /\ (Working(r[j]) <=> Working(s[j]))
                      /\ Class(r[j]) = Class(s[j])
    OBVIOUS
  <2>1. SameWork(s[j], r[j]) /\ r[j].state = s[j].state /\ RowSound(r[j])
    <3>1. CASE j = i
      BY <3>1, <1>1
    <3>2. CASE j # i
      BY <3>2, <1>1 DEF SameWork, Kinship, Rows
    <3> QED
      BY <3>1, <3>2
  <2> QED
    BY <2>1 DEF SameWork, Live, Working, Class, KeyOf
<1>3. Rows(r)
  BY <1>1, <1>2 DEF Rows
<1>4. Lineage(r)
  BY <1>1, <1>2 DEF Kinship, Lineage, SameWork
<1>5. Family(r)
  BY <1>1, <1>2 DEF Kinship, Family, SameWork, Related
<1>6. OneBuilder(r)
  BY <1>1, <1>2 DEF Kinship, OneBuilder, SameWork
<1>7. Standing(r)
  <2>1. Ids(r) = Ids(s)
    BY <1>1, <1>2 DEF Ids, SameWork
  <2> QED
    BY <1>1, <1>2, <2>1 DEF Kinship, Standing, SameWork
<1>8. SlotsExclusive(r)
  <2> SUFFICES ASSUME NEW j \in DOMAIN s, NEW k \in DOMAIN s, j # k, Live(r[j]), Live(r[k]),
                      r[j].slot # NoSlot, r[j].slot = r[k].slot
               PROVE  Related(r[j], r[k])
    BY <1>1 DEF SlotsExclusive
  <2>1. j # i /\ k # i
    BY <1>1, <1>2
  <2> QED
    BY <1>1, <2>1 DEF Kinship, SlotsExclusive
<1>9. ActorsExclusive(r)
  BY <1>1, <1>2 DEF Kinship, ActorsExclusive, SameWork
<1> QED
  BY <1>3, <1>4, <1>5, <1>6, <1>7, <1>8, <1>9 DEF Kinship

(* A builder's order fits below the order that claims its slot.             *)
LEMMA BuilderFits ==
    ASSUME Sound, NEW i \in DOMAIN orders, orders[i].layer = "EconomyAndProduction",
           ~HasActiveUnitExecutionChild(orders[i].id),
           NEW s, Advances(orders, s), NEW actor \in Actors, NEW slot \in SlotCandidates(orders[i]),
           ~Busy(s, actor), ~ClaimedByOther(s, slot, orders[i].id)
    PROVE  LET o == orders[i]
               new == NewOrder("UnitExecution", "Ready", KeyOf(o), actor, slot)
           IN  new \in Template /\ Fits(s, Numbered(new, o.id)) /\ ~Working(Numbered(new, o.id))
<1> DEFINE o == orders[i]
           new == NewOrder("UnitExecution", "Ready", KeyOf(o), actor, slot)
           row == Numbered(new, o.id)
<1>1. /\ KeyOf(o) \in Key /\ o \in Order /\ RowSound(o) /\ o.id # 0
      /\ "UnitExecution" \in Layers /\ "Ready" \in LiveStates
  BY SoundParts, OrderKey DEF Layers, LiveStates
<1>2. /\ KeyOf(o).task = o.task /\ KeyOf(o).goal = o.goal /\ KeyOf(o).detail = o.detail
      /\ slot \in Slots /\ (o.detail \in Slots => slot = o.detail) /\ slot # NoSlot /\ actor # NoActor
  BY <1>1, NullAssumption DEF KeyOf, SlotCandidates, RowSound, Order
<1>3. /\ new \in Template
      /\ row.id = nextOrderId /\ row.parent = o.id /\ row.layer = "UnitExecution" /\ row.state = "Ready"
      /\ row.task = o.task /\ row.goal = o.goal /\ row.detail = o.detail
      /\ row.actor = actor /\ row.slot = slot /\ row.reason = NoReason /\ row.attempts = 0
      /\ Live(row) /\ ~Terminal(row)
  BY <1>1, <1>2, NewRow
<1> HIDE DEF row, new
<1>4. ~Working(row)
  BY <1>3 DEF Working
<1>5. RowSound(row)
  BY <1>1, <1>2, <1>3 DEF RowSound
<1>6. /\ DOMAIN s = DOMAIN orders
      /\ \A j \in DOMAIN s : SameWork(orders[j], s[j]) /\ (Live(s[j]) => Live(orders[j]))
  BY DEF Advances
<1>7. /\ nextOrderId \in Nat /\ nextOrderId # 0
      /\ \A j \in DOMAIN s : /\ s[j].id < nextOrderId /\ s[j].id # nextOrderId
                             /\ s[j].id # 0 /\ s[j].parent # nextOrderId
  BY <1>6, Youngest DEF SameWork
<1>8. \A j \in DOMAIN s : s[j].id = o.id => j = i
  BY <1>6, OneRow DEF SameWork
<1>9. \A j \in DOMAIN s : Live(s[j]) /\ s[j].layer = "UnitExecution" => s[j].parent # o.id
  <2> DEFINE C == {j \in LiveAt(orders) : orders[j].parent = o.id /\ orders[j].layer = "UnitExecution"}
  <2>1. First(C) = {}
    BY DEF HasActiveUnitExecutionChild, ScannedChild
  <2>2. C \in SUBSET Nat
    BY SoundParts DEF LiveAt
  <2>3. C = {}
    <3> HIDE DEF C
    <3>1. C # {} => \E x \in C : \A y \in C : x <= y
      BY <2>2, LeastOf
    <3> QED
      BY <2>1, <3>1 DEF First
  <2> QED
    BY <1>6, <2>3 DEF LiveAt, Live, SameWork
<1>10. \A j \in DOMAIN s : Live(s[j]) => s[j].actor # actor
  BY DEF Busy
<1>11. \A j \in DOMAIN s : Live(s[j]) /\ s[j].slot = slot => Related(s[j], row)
  BY <1>3 DEF ClaimedByOther, Related
<1>12. row.parent < row.id /\ row.parent # row.id /\ row.parent \in Ids(s)
  <2>1. s[i].id = o.id
    BY <1>6 DEF SameWork
  <2> QED
    BY <1>3, <1>6, <1>7, <2>1 DEF Ids
<1>13. \A j \in DOMAIN s : row.parent = s[j].id =>
          /\ row.task = s[j].task /\ row.goal = s[j].goal /\ row.detail = s[j].detail
          /\ s[j].layer = "EconomyAndProduction"
  BY <1>3, <1>6, <1>8 DEF SameWork
<1>14. Fits(s, row)
  BY <1>3, <1>4, <1>5, <1>7, <1>9, <1>10, <1>11, <1>12, <1>13 DEF Fits
<1> QED
  BY <1>3, <1>4, <1>14 DEF row, new

(* The table once the order claims a slot.                                  *)
LEMMA ClaimedTable ==
    ASSUME Sound, phase = "economy", NEW w, From(w), NEW i \in DOMAIN orders, orders[i].state = "Queued",
           NEW p \in Order, SameWork(w.table[i], p), p.state = w.table[i].state, RowSound(p),
           ~ClaimedByOther(w.table, p.slot, orders[i].id),
           NEW r, Claims(w.table, i, p, r)
    PROVE  /\ r \in Seq(Order) /\ Advances(orders, r) /\ Kinship(r) /\ Together(r, late)
           /\ Tied(r, w.plan) /\ Done(r, w.plan, completed, phase) /\ Apart(r, w.plan, blocked)
           /\ DOMAIN r = DOMAIN w.table
           /\ \A j \in DOMAIN r : /\ j # i => r[j] = w.table[j]
                                  /\ r[j].id = w.table[j].id /\ r[j].actor = w.table[j].actor
                                  /\ Live(r[j]) <=> Live(w.table[j])
<1> DEFINE s == w.table
<1>1. /\ s \in Seq(Order) /\ DOMAIN s = DOMAIN orders /\ Kinship(s) /\ Tied(s, w.plan)
      /\ Done(s, w.plan, completed, phase) /\ Apart(s, w.plan, blocked)
      /\ \A j \in DOMAIN orders : /\ RowSound(s[j]) /\ SameWork(orders[j], s[j])
                                  /\ Live(s[j]) => Live(orders[j])
      /\ Steady(s, w.plan) /\ Together(s, late)
  BY FromParts DEF From
<1> HIDE DEF s
<1>2. Claims(s, i, p, r) /\ SameWork(s[i], p) /\ p.state = s[i].state /\ ~ClaimedByOther(s, p.slot, orders[i].id)
  BY DEF s
<1>3. r \in Seq(Order) /\ DOMAIN r = DOMAIN s /\ r[i] = p /\ \A j \in DOMAIN s : j # i => r[j] = s[j]
  <2>1. r = [s EXCEPT ![i] = p] /\ i \in DOMAIN s
    BY <1>1, <1>2 DEF Claims
  <2>2. r \in Seq(Order)
    BY <1>1, <2>1
  <2> QED
    BY <2>1, <2>2
<1>4. \A j \in DOMAIN s : j # i /\ Live(s[j]) => s[j].slot # p.slot
  <2> SUFFICES ASSUME NEW j \in DOMAIN s, j # i, Live(s[j]) PROVE s[j].slot # p.slot
    OBVIOUS
  <2>1. s[j].id # orders[i].id
    BY <1>1, OneRow DEF SameWork
  <2> QED
    BY <1>2, <2>1 DEF ClaimedByOther
<1>5. Kinship(r)
  BY <1>1, <1>2, <1>4, ClaimKinship
<1>6. \A j \in DOMAIN s : /\ SameWork(s[j], r[j]) /\ r[j].state = s[j].state /\ RowSound(r[j])
                          /\ (Live(r[j]) <=> Live(s[j]))
  <2> SUFFICES ASSUME NEW j \in DOMAIN s
               PROVE  /\ SameWork(s[j], r[j]) /\ r[j].state = s[j].state /\ RowSound(r[j])
                      /\ (Live(r[j]) <=> Live(s[j]))
    OBVIOUS
  <2>1. CASE j = i
    BY <2>1, <1>2, <1>3 DEF Live
  <2>2. CASE j # i
    BY <2>2, <1>1, <1>3 DEF SameWork
  <2> QED
    BY <2>1, <2>2
<1>7. Advances(orders, r)
  <2> SUFFICES ASSUME NEW j \in DOMAIN orders PROVE SameWork(orders[j], r[j]) /\ (Live(r[j]) => Live(orders[j]))
    BY <1>1, <1>3, <1>6 DEF Advances
  <2> QED
    BY <1>1, <1>6 DEF SameWork
<1>8. Together(r, late)
  BY <1>1, <1>3, <1>6 DEF Together, SameWork
<1>9. ASSUME NEW t \in DOMAIN w.plan, NEW j \in DOMAIN s, r[j].id = w.plan[t]
      PROVE  /\ r[j].task = t /\ r[j].parent = 0 /\ r[j].layer # "UnitExecution"
             /\ Terminal(r[j]) => r[j].slot = NoSlot
             /\ t \in completed => \/ r[j].state = "Completed"
                                   \/ phase = "reactivate" /\ Live(r[j]) /\ r[j].slot = NoSlot
  <2>1. s[j].id = w.plan[t] /\ r[j].state = s[j].state /\ s[j].state = orders[j].state
    BY <1>1, <1>6, <1>9 DEF SameWork, Steady
  <2>2. /\ s[j].task = t /\ s[j].parent = 0 /\ s[j].layer # "UnitExecution"
        /\ Terminal(s[j]) => s[j].slot = NoSlot
    BY <1>1, <2>1 DEF Tied, Owners
  <2>3. t \in completed => \/ s[j].state = "Completed"
                           \/ phase = "reactivate" /\ Live(s[j]) /\ s[j].slot = NoSlot
    BY <1>1, <2>1 DEF Done
  <2>4. CASE j = i
    <3>1. r[j].state = "Queued" /\ ~Terminal(r[j])
      BY <2>1, <2>4 DEF Terminal, TerminalStates
    <3>2. SameWork(s[j], r[j])
      BY <1>6
    <3> QED
      BY <2>1, <2>2, <2>3, <3>1, <3>2 DEF SameWork
  <2>5. CASE j # i
    BY <1>3, <2>2, <2>3, <2>5
  <2> QED
    BY <2>4, <2>5
<1>10. Tied(r, w.plan)
  <2>1. Owners(r, w.plan)
    BY <1>3, <1>9 DEF Owners
  <2>2. Owned(r, w.plan)
    BY <1>1, <1>3, <1>6 DEF Tied, Owned, SameWork, Working
  <2> QED
    BY <2>1, <2>2 DEF Tied
<1>11. Done(r, w.plan, completed, phase)
  BY <1>3, <1>9 DEF Done
<1>12. Apart(r, w.plan, blocked)
  <2>1. \A j \in DOMAIN s : Class(r[j]) = Class(s[j]) /\ (Working(r[j]) => Working(s[j]))
    BY <1>6 DEF SameWork, Class, KeyOf, Working
  <2> QED
    BY <1>1, <1>3, <2>1 DEF Apart
<1> QED
  BY <1>3, <1>5, <1>6, <1>7, <1>8, <1>10, <1>11, <1>12 DEF s, SameWork

(* The order claims its slot and the builder's order goes below it.         *)
LEMMA BuilderSent ==
    ASSUME Sound, phase = "economy", NEW w, From(w), NEW i \in DOMAIN orders, orders[i].state = "Queued",
           NEW r, r \in Seq(Order), Advances(orders, r), Kinship(r), Together(r, late), Tied(r, w.plan),
           Done(r, w.plan, completed, phase), Apart(r, w.plan, blocked),
           NEW t \in Template, Fits(r, Numbered(t, orders[i].id)), ~Working(Numbered(t, orders[i].id)),
           EnqueueAfter(r, t, orders[i].id), planOrder' = w.plan,
           wall' \in Walls, remapped' \in Remaps, failures' \in [TaskIds -> Nat],
           NEW slot \in Slots, sent' = sent \cup {slot}, todo' \subseteq todo,
           UNCHANGED <<completed, phase, blocked, observed, late>>
    PROVE  Sound' /\ StaysEnded
<1> DEFINE row == Numbered(t, orders[i].id)
<1>1. row \in Order /\ row.id = nextOrderId
  BY NumberedTyped, SoundParts
<1>2. orders' = Append(r, row) /\ nextOrderId' = nextOrderId + 1 /\ batchDepth' = batchDepth
  BY DEF EnqueueAfter
<1> HIDE DEF row
<1>3. Grown(r, row, orders')
  BY <1>1, <1>2, AppendGrown
<1>4. /\ DOMAIN r = DOMAIN orders
      /\ \A j \in DOMAIN orders : r[j].id = orders[j].id
  BY DEF Advances, SameWork
<1>5. DOMAIN orders \subseteq DOMAIN orders'
  BY <1>3, <1>4 DEF Grown
<1>6. /\ DOMAIN planOrder' \subseteq TaskIds /\ planOrder' \in [DOMAIN planOrder' -> Nat]
      /\ DOMAIN w.plan \subseteq DOMAIN planOrder /\ \A u \in DOMAIN w.plan : w.plan[u] = planOrder[u]
  BY FromParts DEF Plans, From
<1>7. Coherent'
  BY <1>4, <1>6, SoundParts, EnqueueAfterKeeps
<1>8. Kinship(orders')
  BY <1>3, GrownKinship DEF row
<1>9. Together(orders', late)
  BY <1>3, GrownTogether DEF row
<1>10. \A u \in DOMAIN w.plan : w.plan[u] # row.id
  BY <1>1, <1>6, Youngest
<1>11. Tied(orders', w.plan)
  BY <1>3, <1>10, GrownTies DEF row
<1>12. Done(orders', w.plan, completed, phase)
  BY <1>3, <1>10, GrownDone DEF row
<1>13. Apart(orders', w.plan, blocked)
  <2>1. ParkedOnce(blocked)
    BY DEF Apart
  <2> QED
    BY <1>3, <2>1, GrownApart DEF row
<1>14. WorkTyped'
  <2>1. todo' \subseteq DOMAIN orders'
    BY <1>5 DEF Sound, WorkTyped
  <2>2. \A u \in DOMAIN planOrder' : planOrder'[u] # 0 /\ planOrder'[u] < nextOrderId'
    <3>1. \A u \in DOMAIN w.plan : w.plan[u] # 0 /\ w.plan[u] < nextOrderId /\ w.plan[u] \in Nat
      BY <1>6 DEF Sound, WorkTyped
    <3>2. nextOrderId \in Nat
      BY SoundParts
    <3> QED
      BY <1>2, <3>1, <3>2
  <2>3. sent' \subseteq Slots /\ observed' \subseteq sent' \cup {Anywhere}
    BY DEF Sound, WorkTyped
  <2> QED
    BY <1>2, <2>1, <2>2, <2>3 DEF Sound, WorkTyped
<1>15. Visits'
  BY DEF Visits
<1>16. StaysEnded
  BY <1>1, <1>3, <1>4, StaysBehind DEF Advances
<1> QED
  BY <1>7, <1>8, <1>9, <1>11, <1>12, <1>13, <1>14, <1>15, <1>16 DEF Sound

LEMMA DispatchSound ==
    ASSUME Sound, phase = "economy", NEW w, From(w), NEW i \in DOMAIN orders,
           orders[i].layer = "EconomyAndProduction", orders[i].state = "Queued",
           ~HasActiveUnitExecutionChild(orders[i].id), Dispatch(i, orders[i], w),
           todo' \subseteq todo, UNCHANGED <<phase, blocked, observed, late>>
    PROVE  Sound' /\ StaysEnded
<1> DEFINE o == orders[i]
<1>1. PICK actor \in Actors, slot \in SlotCandidates(o) :
        /\ ~Busy(w.table, actor)
        /\ ~ClaimedByOther(w.table, slot, o.id)
        /\ LET claimed == [FailuresReset(w, o.task) EXCEPT !.table[i].slot = slot]
               held == PostponedIn(claimed, i, "AwaitingObservedCompletion")
           IN  /\ EnqueueAfter(held.table,
                               NewOrder("UnitExecution", "Ready", KeyOf(o), actor, slot), o.id)
               /\ planOrder' = held.plan /\ wall' = held.wall
               /\ remapped' = held.remapped /\ failures' = held.failures
        /\ sent' = sent \cup {slot}
        /\ UNCHANGED completed
  BY DEF Dispatch
<1> DEFINE f == FailuresReset(w, o.task)
           q == [w.table[i] EXCEPT !.slot = slot]
           p == Postponed(q, "AwaitingObservedCompletion")
           claimed == [f EXCEPT !.table[i].slot = slot]
           held == PostponedIn(claimed, i, "AwaitingObservedCompletion")
           r == [w.table EXCEPT ![i] = p]
           new == NewOrder("UnitExecution", "Ready", KeyOf(o), actor, slot)
<1>2. o \in Order /\ RowSound(o) /\ o.task \in TaskIds \cup {0}
  BY SoundParts DEF Order
<1>3. slot \in Slots /\ (o.detail \in Slots => slot = o.detail)
  BY <1>1, <1>2 DEF SlotCandidates, RowSound, Order
<1>4. From(f) /\ f.table = w.table /\ f.plan = w.plan /\ f \in WorldType
  BY <1>2, ResetFrom DEF From
<1>5. /\ w.table[i] \in Order /\ RowSound(w.table[i]) /\ SameWork(o, w.table[i])
      /\ w.table \in Seq(Order) /\ DOMAIN w.table = DOMAIN orders
  BY FromParts
<1>6. /\ q \in Order /\ SameWork(w.table[i], q) /\ q.state = w.table[i].state /\ q.slot = slot /\ RowSound(q)
      /\ q.layer = "EconomyAndProduction"
  <2>1. w.table[i].layer = "EconomyAndProduction" /\ w.table[i].detail = o.detail
    BY <1>5 DEF SameWork
  <2> HIDE DEF o
  <2>2. /\ q \in Order /\ SameWork(w.table[i], q) /\ q.state = w.table[i].state /\ q.slot = slot /\ RowSound(q)
    BY <1>3, <1>5, <2>1, SlottedRow
  <2> QED
    BY <2>1, <2>2 DEF SameWork
<1>7. /\ p \in Order /\ SameWork(w.table[i], p) /\ p.state = w.table[i].state /\ p.slot = slot /\ RowSound(p)
  <2>1. "AwaitingObservedCompletion" \in DeferralReasons
    BY DEF DeferralReasons
  <2> HIDE DEF q
  <2>2. /\ p \in Order /\ SameWork(q, p) /\ p.state = q.state /\ p.slot = q.slot /\ RowSound(p)
    BY <1>6, <2>1, PostponedRow
  <2> QED
    BY <1>6, <2>2 DEF SameWork
<1>8. /\ held.table = r /\ held.plan = w.plan /\ held.wall = f.wall /\ held.remapped = f.remapped
      /\ held.failures = f.failures
  BY <1>4, <1>5 DEF PostponedIn, WorldType
<1>9. Claims(w.table, i, p, r)
  BY DEF Claims
<1> HIDE DEF p, q, r, f, held
<1>10. /\ r \in Seq(Order) /\ Advances(orders, r) /\ Kinship(r) /\ Together(r, late)
       /\ Tied(r, w.plan) /\ Done(r, w.plan, completed, phase) /\ Apart(r, w.plan, blocked)
       /\ DOMAIN r = DOMAIN w.table
       /\ \A j \in DOMAIN r : /\ j # i => r[j] = w.table[j]
                              /\ r[j].id = w.table[j].id /\ r[j].actor = w.table[j].actor
                              /\ Live(r[j]) <=> Live(w.table[j])
  BY <1>1, <1>7, <1>9, ClaimedTable
<1>11. ~Busy(r, actor)
  BY <1>1, <1>10 DEF Busy
<1>12. ~ClaimedByOther(r, slot, o.id)
  <2>1. w.table[i].id = o.id
    BY <1>5 DEF SameWork
  <2> QED
    BY <1>1, <1>10, <2>1 DEF ClaimedByOther
<1>13. new \in Template /\ Fits(r, Numbered(new, o.id)) /\ ~Working(Numbered(new, o.id))
  BY <1>10, <1>11, <1>12, BuilderFits
<1>14. EnqueueAfter(r, new, o.id) /\ planOrder' = w.plan
  BY <1>1, <1>8 DEF held, f
<1>15. wall' \in Walls /\ remapped' \in Remaps /\ failures' \in [TaskIds -> Nat]
  <2>1. wall' = held.wall /\ remapped' = held.remapped /\ failures' = held.failures
    BY <1>1 DEF held, f
  <2> QED
    BY <1>4, <1>8, <2>1 DEF WorldType
<1>16. sent' = sent \cup {slot} /\ UNCHANGED completed
  BY <1>1
<1> HIDE DEF new
<1> QED
  BY <1>3, <1>10, <1>13, <1>14, <1>15, <1>16, BuilderSent

LEMMA AttemptSound ==
    ASSUME Sound, phase = "economy", NEW w, From(w), NEW i \in DOMAIN orders,
           orders[i].layer = "EconomyAndProduction", orders[i].state = "Queued",
           ~HasActiveUnitExecutionChild(orders[i].id), Attempt(i, orders[i], w),
           todo' \subseteq todo, UNCHANGED <<phase, blocked, observed, late>>
    PROVE  Sound' /\ StaysEnded
<1>1. orders[i] \in Order /\ "AwaitingObservedCompletion" \in DeferralReasons
  BY SoundParts DEF DeferralReasons
<1>2. CASE Hold(i, w, "AwaitingObservedCompletion")
  BY <1>1, <1>2, HoldSound
<1>3. CASE \E reason \in Hindrances : Hold(i, AfterPlacementDeferral(w, orders[i], reason), reason)
  <2>1. PICK reason \in Hindrances : Hold(i, AfterPlacementDeferral(w, orders[i], reason), reason)
    BY <1>3
  <2>2. reason \in DeferralReasons
    BY WorkBoundAssumption
  <2>3. From(AfterPlacementDeferral(w, orders[i], reason))
    BY <1>1, AfterFrom
  <2> QED
    BY <2>1, <2>2, <2>3, HoldSound
<1>4. CASE Dispatch(i, orders[i], w)
  BY <1>4, DispatchSound
<1> QED
  BY <1>2, <1>3, <1>4 DEF Attempt

(* What the game shows is already there: the order completes.               *)
LEMMA SatisfiedSound ==
    ASSUME Sound, phase = "economy", NEW i \in DOMAIN orders,
           orders[i].layer = "EconomyAndProduction", orders[i].state = "Queued",
           Commit([PostponedIn(FailuresReset(World, orders[i].task), i, "TargetAlreadySatisfied")
                      EXCEPT !.table[i] = Moved(@, "Completed")]),
           todo' \subseteq todo, UNCHANGED <<sent, phase, blocked, observed, late>>
    PROVE  Sound' /\ StaysEnded
<1> DEFINE f == FailuresReset(World, orders[i].task)
           q == Postponed(orders[i], "TargetAlreadySatisfied")
           p == Moved(q, "Completed")
           r == [orders EXCEPT ![i] = p]
           held == PostponedIn(f, i, "TargetAlreadySatisfied")
           v == [held EXCEPT !.table[i] = Moved(@, "Completed")]
<1>1. /\ orders[i] \in Order /\ RowSound(orders[i]) /\ orders[i].task \in TaskIds \cup {0}
      /\ orders \in Seq(Order)
  BY SoundParts DEF Order
<1>2. From(World) /\ World.table = orders /\ World.plan = planOrder /\ World.wall = wall /\ World.remapped = remapped
  BY WorldFrom DEF World
<1>3. /\ f \in WorldType /\ f.table = orders /\ f.plan = planOrder
      /\ f.wall \in Walls /\ f.remapped \in Remaps /\ f.failures \in [TaskIds -> Nat]
  BY <1>1, <1>2, ResetFrom DEF From, WorldType
<1>4. /\ q \in Order /\ SameWork(orders[i], q) /\ RowSound(q) /\ q.state = "Queued"
  <2>1. "TargetAlreadySatisfied" \in DeferralReasons
    BY DEF DeferralReasons
  <2> QED
    BY <1>1, <2>1, PostponedRow
<1>5. /\ p \in Order /\ SameWork(q, p) /\ RowSound(p) /\ p.state = "Completed" /\ p.slot = NoSlot
      /\ ~Live(p)
  <2>1. "Completed" \in TerminalStates
    BY DEF TerminalStates
  <2> HIDE DEF q
  <2> QED
    BY <1>4, <2>1, EndedRow
<1>6. /\ v.table = r /\ v.plan = planOrder /\ v.wall = f.wall /\ v.remapped = f.remapped
      /\ v.failures = f.failures
  <2> HIDE DEF f
  <2> QED
    BY <1>1, <1>3 DEF PostponedIn, WorldType
<1>7. SameWork(orders[i], p)
  BY <1>4, <1>5 DEF SameWork
<1> HIDE DEF p, q, held, f
<1>8. /\ r \in Seq(Order) /\ DOMAIN r = DOMAIN orders /\ r[i] = p
      /\ \A j \in DOMAIN orders : j # i => r[j] = orders[j]
  BY <1>1, <1>5
<1> HIDE DEF r
<1>9. Advances(orders, r) /\ SlotsKept(orders, r)
  <2> SUFFICES ASSUME NEW j \in DOMAIN orders
               PROVE  /\ SameWork(orders[j], r[j]) /\ (Live(r[j]) => Live(orders[j])) /\ RowSound(r[j])
                      /\ (r[j].slot = orders[j].slot \/ r[j].slot = NoSlot)
    BY <1>8 DEF Advances, SlotsKept
  <2>1. CASE j = i
    BY <2>1, <1>5, <1>7, <1>8
  <2>2. CASE j # i
    BY <2>2, <1>8, SoundParts DEF SameWork
  <2> QED
    BY <2>1, <2>2
<1>10. \A j \in DOMAIN orders : Terminal(r[j]) /\ ~Terminal(orders[j]) => r[j].slot = NoSlot
  BY <1>5, <1>8
<1>11. Together(r, late')
  <2> SUFFICES ASSUME NEW j \in DOMAIN r, NEW k \in DOMAIN r, Live(r[j]), r[j].layer = "EconomyAndProduction",
                      r[j].task # 0, r[j].parent = r[k].id, ~late
               PROVE  Live(r[k])
    BY DEF Together
  <2>1. j # i /\ r[j] = orders[j] /\ r[k].id = orders[k].id
    BY <1>5, <1>8, <1>9 DEF Advances, SameWork
  <2>2. Live(orders[k]) /\ orders[k].layer = "StrategicDirector"
    BY <1>8, <2>1 DEF Sound, Together, Kinship, Lineage
  <2> QED
    BY <1>8, <2>2
<1>12. Commit(v)
  BY DEF v, held, f
<1>13. /\ Apply(r) /\ planOrder' = planOrder /\ completed' = completed
       /\ wall' \in Walls /\ remapped' \in Remaps /\ failures' \in [TaskIds -> Nat]
  <2>1. /\ Apply(v.table) /\ planOrder' = v.plan /\ completed' = completed
        /\ wall' = v.wall /\ remapped' = v.remapped /\ failures' = v.failures
    <3> HIDE DEF v
    <3> QED
      BY <1>12 DEF Commit
  <2> QED
    BY <1>3, <1>6, <2>1
<1>14. Done(r, planOrder, completed', phase')
  <2> SUFFICES ASSUME NEW t \in completed \cap DOMAIN planOrder, NEW j \in DOMAIN r, r[j].id = planOrder[t]
               PROVE  \/ r[j].state = "Completed"
                      \/ phase = "reactivate" /\ Live(r[j]) /\ r[j].slot = NoSlot
    BY <1>13 DEF Done
  <2>1. CASE j = i
    BY <2>1, <1>5, <1>8
  <2>2. CASE j # i
    BY <2>2, <1>8 DEF Sound, Done
  <2> QED
    BY <2>1, <2>2
<1>15. WorkTyped' /\ Visits' /\ batchDepth # 0
  <2>1. orders' = r /\ nextOrderId' = nextOrderId /\ batchDepth' = batchDepth
    BY <1>13 DEF Apply
  <2> QED
    BY <1>8, <1>13, <2>1 DEF Sound, WorkTyped, Visits
<1> QED
  BY <1>9, <1>10, <1>11, <1>13, <1>14, <1>15, AdvanceSound

LEMMA ExpandSound == ASSUME NEW i \in todo PROVE Sound /\ Expand(i) => Sound' /\ StaysEnded
<1> SUFFICES ASSUME Sound, Expand(i) PROVE Sound' /\ StaysEnded
  OBVIOUS
<1> DEFINE o == orders[i]
           cleared == [World EXCEPT !.table[i].slot = NoSlot]
           after == AfterPlacementDeferral(cleared, o, "ReservedSlotInvalidated")
           moved == PostponedIn(after, i, "ReservedSlotInvalidated")
           beside == AfterPlacementDeferral(World, o, "ReservedSlotOccupied")
<1>1. /\ phase = "economy" /\ todo' \subseteq todo /\ i \in DOMAIN orders /\ o \in Order
      /\ UNCHANGED <<phase, blocked, observed, late>>
  BY SoundParts DEF Expand, Sound, WorkTyped
<1>2. /\ "AwaitingObservedCompletion" \in DeferralReasons /\ "ReservedSlotOccupied" \in DeferralReasons
      /\ "ReservedSlotInvalidated" \in DeferralReasons
  BY DEF DeferralReasons
<1>3. From(World)
  BY WorldFrom
<1>4. CASE UNCHANGED <<vars, planVars, sent>>
  <2>1. /\ UNCHANGED <<orders, nextOrderId, idToIndex, batchDepth, derivedDirty, derived, prioritiesDirty, planOrder>>
        /\ UNCHANGED <<completed, wall, remapped, failures, sent>>
    BY <1>4 DEF vars, planVars
  <2>2. Coherent'
    BY <2>1, IdleKeeps DEF Sound, Coherent, TypeOK
  <2>3. WorkTyped' /\ Visits'
    BY <1>1, <2>1 DEF Sound, WorkTyped, Visits
  <2> QED
    BY <1>1, <2>1, <2>2, <2>3, DoneAgain, KeptSound DEF Sound
<1>5. CASE /\ o.layer = "EconomyAndProduction" /\ o.state = "Queued"
           /\ Commit([PostponedIn(FailuresReset(World, o.task), i, "TargetAlreadySatisfied")
                         EXCEPT !.table[i] = Moved(@, "Completed")])
           /\ UNCHANGED sent
  BY <1>1, <1>5, SatisfiedSound
<1>6. CASE o.layer = "EconomyAndProduction" /\ Hold(i, World, "AwaitingObservedCompletion")
  BY <1>1, <1>2, <1>3, <1>6, HoldSound
<1>7. CASE o.layer = "EconomyAndProduction" /\ Hold(i, beside, "ReservedSlotOccupied")
  <2>1. From(beside)
    BY <1>1, <1>3, AfterFrom
  <2> HIDE DEF beside
  <2> QED
    BY <1>1, <1>2, <1>7, <2>1, HoldSound
<1>8. CASE /\ o.layer = "EconomyAndProduction" /\ o.state = "Queued" /\ ~HasActiveUnitExecutionChild(o.id)
           /\ Attempt(i, o, moved)
  <2>1. From(cleared)
    BY <1>1, <1>3, <1>8, ClearedFrom
  <2> HIDE DEF cleared
  <2>2. From(after)
    BY <1>1, <2>1, AfterFrom
  <2> HIDE DEF after
  <2>3. From(moved)
    BY <1>1, <1>2, <1>8, <2>2, PostponedFrom
  <2> HIDE DEF moved
  <2> QED
    BY <1>1, <1>8, <2>3, AttemptSound
<1>9. CASE /\ o.layer = "EconomyAndProduction" /\ o.state = "Queued" /\ ~HasActiveUnitExecutionChild(o.id)
           /\ Attempt(i, o, World)
  BY <1>1, <1>3, <1>9, AttemptSound
<1> QED
  BY <1>4, <1>5, <1>6, <1>7, <1>8, <1>9 DEF Expand
-----------------------------------------------------------------------------
(* The invariant.                                                           *)

LEMMA InitSound == InitWork => Sound
<1> SUFFICES ASSUME InitWork PROVE Sound
  OBVIOUS
<1>1. /\ Init /\ orders = <<>> /\ DOMAIN orders = {} /\ nextOrderId = 1 /\ batchDepth = 0
      /\ planOrder = [step \in {} |-> 0] /\ DOMAIN planOrder = {}
      /\ phase = "frame" /\ todo = {} /\ completed = {} /\ wall = "RampActive"
      /\ remapped = [t \in {} |-> NoSlot] /\ failures = [t \in TaskIds |-> 0]
      /\ blocked = [b \in Buffers |-> <<>>] /\ sent = {} /\ observed = {} /\ late = FALSE
  BY DEF InitWork, Init, Buffers
<1>2. Coherent
  BY <1>1, InitCoherent
<1>3. remapped \in Remaps
  BY <1>1 DEF Remaps
<1>4. /\ blocked \in [Buffers -> Seq(WorkRecord)]
      /\ \A b \in Buffers : Len(blocked[b]) = 0 /\ DOMAIN blocked[b] = {}
  BY <1>1
<1>5. WorkTyped
  <2>1. failures \in [TaskIds -> Nat]
    BY <1>1
  <2>2. \A b \in Buffers : Len(blocked[b]) <= Capacity
    BY <1>4, WorkBoundAssumption
  <2>3. phase \in Phases /\ wall \in Walls
    BY <1>1 DEF Phases, Walls
  <2> QED
    BY <1>1, <1>3, <1>4, <2>1, <2>2, <2>3 DEF WorkTyped
<1>6. Kinship(orders)
  BY <1>1 DEF Kinship, Rows, Lineage, Family, OneBuilder, Standing, SlotsExclusive, ActorsExclusive
<1>7. Together(orders, late) /\ Tied(orders, planOrder) /\ Done(orders, planOrder, completed, phase)
  BY <1>1 DEF Together, Tied, Owners, Owned, Done
<1>8. Apart(orders, planOrder, blocked)
  BY <1>1, <1>4 DEF Apart, ParkedOnce
<1>9. Visits
  BY <1>1 DEF Visits
<1> QED
  BY <1>2, <1>5, <1>6, <1>7, <1>8, <1>9 DEF Sound

LEMMA StepSound == Sound /\ [NextWork]_workVars => Sound' /\ StaysEnded
<1> SUFFICES ASSUME Sound, [NextWork]_workVars PROVE Sound' /\ StaysEnded
  OBVIOUS
<1>1. CASE UNCHANGED workVars
  BY <1>1, StutterSound
<1>2. CASE NewFrame
  BY <1>2, NewFrameSound
<1>3. ASSUME NEW i \in todo, NEW s \in {"Completed", "Aborted", "Dispatched"}, ConfirmDispatched(i, s)
      PROVE  Sound' /\ StaysEnded
  BY <1>3, ConfirmDispatchedSound
<1>4. CASE Compact
  BY <1>4, CompactSound
<1>5. CASE EndConfirm
  BY <1>5, EndConfirmSound
<1>6. ASSUME NEW b \in DOMAIN blocked, NEW i \in DOMAIN blocked[b], Reactivate(b, i)
      PROVE  Sound' /\ StaysEnded
  BY <1>6, ReactivateSound
<1>7. CASE CompleteBeforeSeeding
  BY <1>7, CompleteBeforeSeedingSound
<1>8. ASSUME NEW t \in TaskIds, SeedOpeningStep(t) PROVE Sound' /\ StaysEnded
  BY <1>8, SeedOpeningStepSound
<1>9. CASE GuardCoverage
  BY <1>9, GuardCoverageSound
<1>10. ASSUME NEW g \in GoalIds, SeedGoal(g) PROVE Sound' /\ StaysEnded
  BY <1>10, SeedGoalSound
<1>11. CASE EndSeeding
  BY <1>11, EndSeedingSound
<1>12. ASSUME NEW i \in todo, EnsureStrategicChild(i) PROVE Sound' /\ StaysEnded
  BY <1>12, EnsureStrategicChildSound
<1>13. CASE CompleteAfterSeeding
  BY <1>13, CompleteAfterSeedingSound
<1>14. CASE BeginEconomy
  BY <1>14, BeginEconomySound
<1>15. ASSUME NEW i \in todo, Expand(i) PROVE Sound' /\ StaysEnded
  BY <1>15, ExpandSound
<1>16. CASE EndEconomy
  BY <1>16, EndEconomySound
<1>17. ASSUME NEW i \in todo, NEW policy \in RetentionPolicies(orders[RootOf(i)]), ParkDeferred(i, policy)
       PROVE  Sound' /\ StaysEnded
  BY <1>17, ParkDeferredSound
<1>18. CASE EndPark
  BY <1>18, EndParkSound
<1>19. CASE Rank
  BY <1>19, RankSound
<1>20. CASE DrainReadyIntents
  BY <1>20, DrainReadyIntentsSound
<1>21. CASE CaptureNewlyDispatched
  BY <1>21, CaptureNewlyDispatchedSound
<1>22. CASE TableFull
  BY <1>22, StutterSound DEF TableFull
<1> QED
  BY <1>1, <1>2, <1>3, <1>4, <1>5, <1>6, <1>7, <1>8, <1>9, <1>10, <1>11, <1>12, <1>13, <1>14,
     <1>15, <1>16, <1>17, <1>18, <1>19, <1>20, <1>21, <1>22 DEF NextWork

(* In every state of the opening, the table, the plan that records its       *)
(* orders, the blocked-task buffers and the walk of the phase fit together: *)
(* what TerranAgent::OnStep relies on from phase to phase.                  *)
THEOREM WorkSound == SpecWork => []Sound
<1>1. InitWork => Sound
  BY InitSound
<1>2. Sound /\ [NextWork]_workVars => Sound'
  BY StepSound
<1> QED
  BY <1>1, <1>2, PTL DEF SpecWork
-----------------------------------------------------------------------------
(* What the invariant means for the properties the runs check.              *)

(* The scheduler's table, the opening plan, the buffers, the slots sent to  *)
(* and the counters of every phase have their types, whatever the opening.  *)
THEOREM WorkTypeCorrect == SpecWork => []WorkTypeOK
<1>1. Sound => WorkTypeOK
  <2> SUFFICES ASSUME Sound PROVE WorkTypeOK
    OBVIOUS
  <2>1. TypeOK
    BY SoundParts
  <2>2. WorkTyped
    BY DEF Sound
  <2>3. DOMAIN remapped \subseteq WallDepots /\ remapped \in [DOMAIN remapped -> Slots]
    BY <2>2 DEF WorkTyped, Remaps
  <2>4. ASSUME NEW b \in DOMAIN blocked, NEW i \in DOMAIN blocked[b] PROVE blocked[b][i].key \in Key
    <3>1. b \in Buffers /\ blocked[b] \in Seq(WorkRecord)
      BY <2>2 DEF WorkTyped
    <3>2. blocked[b][i] \in WorkRecord
      BY <3>1
    <3> QED
      BY <3>2 DEF WorkRecord, StepKeys
  <2> QED
    BY <2>1, <2>2, <2>3, <2>4 DEF WorkTypeOK, WorkTyped, Walls
<1> QED
  BY <1>1, WorkSound, PTL

(* No placement slot is claimed for two pieces of work: only an economy     *)
(* order and the builder's order it sent may hold the same slot.            *)
THEOREM SlotsNeverShared == SpecWork => []SlotExclusive
<1>1. Sound => SlotExclusive
  BY DEF Sound, Kinship, SlotsExclusive, SlotExclusive, ActiveOrders, LiveAt, Live, Related
<1> QED
  BY <1>1, WorkSound, PTL

(* No builder has two live orders, however stale the queues it was chosen   *)
(* from.                                                                    *)
THEOREM ActorsNeverShared == SpecWork => []ActorExclusive
<1>1. Sound => ActorExclusive
  BY DEF Sound, Kinship, ActorsExclusive, ActorExclusive, ActiveOrders, LiveAt, Live
<1> QED
  BY <1>1, WorkSound, PTL

(* Parking, reactivation, expiry and seeding never expand work twice: below *)
(* one order there is one live order of a layer, and a step has one live    *)
(* strategic order.                                                         *)
THEOREM NeverExpandedTwice == SpecWork => []ExpandedOnce
<1>1. Sound => ExpandedOnce
  <2> SUFFICES ASSUME Sound, NEW i \in DOMAIN orders, NEW j \in DOMAIN orders, i # j,
                      Live(orders[i]), Live(orders[j]), orders[i].layer = orders[j].layer
               PROVE  /\ orders[i].parent # 0 => orders[i].parent # orders[j].parent
                      /\ orders[i].layer = "StrategicDirector" /\ orders[i].task # 0
                            => orders[i].task # orders[j].task
    BY DEF ExpandedOnce, ActiveOrders, LiveAt, Live
  <2>1. /\ Family(orders) /\ OneBuilder(orders) /\ Standing(orders) /\ Lineage(orders)
        /\ RowSound(orders[i]) /\ RowSound(orders[j]) /\ orders[i] \in Order /\ orders[j] \in Order
        /\ orders[i].id # 0 /\ orders[j].id # 0
    BY SoundParts DEF Kinship
  <2>2. CASE orders[i].layer = "UnitExecution"
    BY <2>1, <2>2 DEF OneBuilder
  <2>3. CASE orders[i].layer = "StrategicDirector"
    <3>1. orders[i].parent = 0 /\ orders[j].parent = 0 /\ Working(orders[i]) /\ Working(orders[j])
      BY <2>1, <2>3 DEF RowSound, Working
    <3>2. Class(orders[i]) # Class(orders[j])
      BY <2>1, <3>1 DEF Family, Related
    <3> QED
      BY <2>1, <3>1, <3>2, SameClass
  <2>4. CASE orders[i].layer = "EconomyAndProduction"
    <3> SUFFICES ASSUME orders[i].parent # 0, orders[i].parent = orders[j].parent PROVE FALSE
      BY <2>4
    <3>1. PICK k \in DOMAIN orders : orders[k].id = orders[i].parent
      BY <2>1 DEF Standing, Ids
    <3>2. /\ orders[i].task = orders[j].task /\ orders[i].goal = orders[j].goal
          /\ orders[i].detail = orders[j].detail
      BY <2>1, <3>1 DEF Lineage
    <3>3. Working(orders[i]) /\ Working(orders[j]) /\ Class(orders[i]) = Class(orders[j])
      BY <2>1, <2>4, <3>2, SameClass DEF Working
    <3>4. Related(orders[i], orders[j])
      BY <2>1, <3>3 DEF Family
    <3>5. orders[i].layer = "EconomyAndProduction" /\ orders[j].layer = "EconomyAndProduction"
      BY <2>4
    <3> QED
      BY <2>1, <3>4, <3>5 DEF Related, Lineage
  <2> QED
    BY <2>1, <2>2, <2>3, <2>4 DEF RowSound
<1> QED
  BY <1>1, WorkSound, PTL

(* Live work stands below an order that is in the table, and the economy    *)
(* work of an opening step below a live one, until the coverage guard.      *)
THEOREM ParentsAlwaysStand == SpecWork => []ParentsStand
<1>1. Sound => ParentsStand
  <2> SUFFICES ASSUME Sound, NEW i \in DOMAIN orders, Live(orders[i]), orders[i].parent # 0
               PROVE  /\ HasOrder(orders[i].parent)
                      /\ orders[i].layer = "EconomyAndProduction" /\ orders[i].task # 0 /\ ~late
                            => Live(At(orders[i].parent))
    BY DEF ParentsStand, ActiveOrders, LiveAt, Live
  <2>1. PICK k \in DOMAIN orders : orders[k].id = orders[i].parent
    BY SoundParts DEF Kinship, Standing, Ids
  <2>2. HasOrder(orders[i].parent) /\ At(orders[i].parent) = orders[k]
    BY <2>1, SoundParts DEF Coherent, IndexExact, HasOrder, At, Ids
  <2> QED
    BY <2>1, <2>2 DEF Sound, Together
<1> QED
  BY <1>1, WorkSound, PTL

(* No piece of work is both in the table and set aside, and no parked step  *)
(* is recorded as seeded: at no point of the frame, so between two frames.  *)
THEOREM NeverParkedAndActive == SpecWork => []ParkedOrActive
<1>1. Sound => ParkedOrActive
  <2> SUFFICES ASSUME Sound
               PROVE  /\ \A i \in ActiveOrders :
                            orders[i].layer # "UnitExecution" => ~HasEquivalentBlockedTask(KeyOf(orders[i]))
                      /\ \A t \in DOMAIN planOrder :
                            ~HasEquivalentBlockedTask([task |-> t, goal |-> 0, detail |-> Anywhere])
    BY DEF ParkedOrActive
  <2>1. Apart(orders, planOrder, blocked)
    BY DEF Sound
  <2>2. ASSUME NEW i \in ActiveOrders, orders[i].layer # "UnitExecution"
        PROVE  ~HasEquivalentBlockedTask(KeyOf(orders[i]))
    <3>1. i \in DOMAIN orders /\ Working(orders[i])
      BY <2>2 DEF ActiveOrders, LiveAt, Working, Live
    <3> QED
      BY <2>1, <3>1, HeldIsParked DEF Apart, Class
  <2>3. ASSUME NEW t \in DOMAIN planOrder
        PROVE  ~HasEquivalentBlockedTask([task |-> t, goal |-> 0, detail |-> Anywhere])
    <3> DEFINE k == [task |-> t, goal |-> 0, detail |-> Anywhere]
    <3>1. t \in TaskIds /\ t # 0
      BY TaskIdAssumption DEF Sound, Coherent, TypeOK
    <3>2. ClassOf(k) = [task |-> t]
      BY <3>1 DEF ClassOf
    <3> HIDE DEF k
    <3>3. ~HasEquivalentBlockedTask(k)
      BY <2>1, <3>2, HeldIsParked DEF Apart
    <3> QED
      BY <3>3 DEF k
  <2> QED
    BY <2>2, <2>3
<1> QED
  BY <1>1, WorkSound, PTL

(* A terminal order stays terminal, but for the recorded order of a complete *)
(* step that lost its structure, and no order is dispatched a second time.  *)
THEOREM NothingComesBack == SpecWork => EndedStaysEnded
<1>1. ASSUME Sound, [NextWork]_workVars
      PROVE  \A i \in DOMAIN orders, j \in DOMAIN orders' :
                orders[i].id = orders'[j].id =>
                  /\ Terminal(orders[i]) /\ Live(orders'[j]) =>
                        /\ orders[i].state = "Completed" /\ orders[i].task \in completed \ completed'
                        /\ planOrder[orders[i].task] = orders[i].id
                  /\ orders[i].attempts > 0 /\ orders'[j].state = "Dispatched" => orders[i].state = "Dispatched"
  <2> SUFFICES ASSUME NEW i \in DOMAIN orders, NEW j \in DOMAIN orders', orders[i].id = orders'[j].id
               PROVE  /\ Terminal(orders[i]) /\ Live(orders'[j]) =>
                            /\ orders[i].state = "Completed" /\ orders[i].task \in completed \ completed'
                            /\ planOrder[orders[i].task] = orders[i].id
                      /\ orders[i].attempts > 0 /\ orders'[j].state = "Dispatched" => orders[i].state = "Dispatched"
    OBVIOUS
  <2>1. StaysEnded
    BY <1>1, StepSound
  <2>2. ~(Terminal(orders[i]) /\ Live(orders[i]))
    BY DEF Terminal, Live, TerminalStates, LiveStates
  <2>3. ASSUME orders[i].attempts > 0, orders'[j].state = "Dispatched" PROVE orders[i].state = "Dispatched"
    <3>1. Live(orders'[j])
      BY <2>3 DEF Live, LiveStates
    <3>2. Live(orders[i])
      BY <2>1, <2>3, <3>1 DEF StaysEnded
    <3>3. orders[i].layer = "UnitExecution" /\ orders[i].state # "Ready"
      BY <1>1, <2>3, SoundParts DEF RowSound
    <3>4. orders[i].state \in {"Ready", "Dispatched"} \/ Terminal(orders[i])
      BY <1>1, <3>3, SoundParts DEF RowSound
    <3> QED
      BY <2>2, <3>2, <3>3, <3>4
  <2> QED
    BY <2>1, <2>2, <2>3 DEF StaysEnded
<1> QED
  BY <1>1, WorkSound, PTL DEF SpecWork, EndedStaysEnded
-----------------------------------------------------------------------------
(* The drain: the ready queue is a linear order and the budget cuts it.     *)

LEMMA BeforeLemma ==
    ASSUME Sound
    PROVE  /\ \A i, j \in DOMAIN orders : i = j \/ Before(View(orders), i, j) \/ Before(View(orders), j, i)
           /\ \A i \in DOMAIN orders : ~Before(View(orders), i, i)
           /\ \A i, j, k \in DOMAIN orders :
                 Before(View(orders), i, j) /\ Before(View(orders), j, k) => Before(View(orders), i, k)
<1> DEFINE v == View(orders)
<1>1. \A i \in DOMAIN orders : v[i].rank \in Nat /\ v[i].id \in Nat /\ v[i].id = orders[i].id
  <2> SUFFICES ASSUME NEW i \in DOMAIN orders
               PROVE  v[i].rank \in Nat /\ v[i].id \in Nat /\ v[i].id = orders[i].id
    OBVIOUS
  <2>1. orders[i].rank \in Nat /\ orders[i].id \in Nat
    BY SoundParts, RankAssumption DEF Order
  <2> QED
    BY <2>1 DEF View, Seen
<1> HIDE DEF v
<1>2. \A i, j \in DOMAIN orders : i = j \/ v[i].id # v[j].id
  BY <1>1, OneRow
<1>3. \A i, j \in DOMAIN orders : i = j \/ Before(v, i, j) \/ Before(v, j, i)
  BY <1>1, <1>2 DEF Before
<1>4. \A i \in DOMAIN orders : ~Before(v, i, i)
  BY <1>1 DEF Before
<1>5. \A i, j, k \in DOMAIN orders : Before(v, i, j) /\ Before(v, j, k) => Before(v, i, k)
  BY <1>1 DEF Before
<1> QED
  BY <1>3, <1>4, <1>5 DEF v

(* The orders of a queue that go before another.                            *)
Ahead(queue, i) == {k \in queue : Before(View(orders), k, i)}

LEMMA AheadLemma ==
    ASSUME Sound, NEW queue \in SUBSET DOMAIN orders, NEW i \in DOMAIN orders, NEW j \in DOMAIN orders,
           Before(View(orders), j, i)
    PROVE  /\ Cardinality(Ahead(queue, j)) <= Cardinality(Ahead(queue, i))
           /\ j \in queue => Cardinality(Ahead(queue, j)) < Cardinality(Ahead(queue, i))
<1>1. IsFiniteSet(DOMAIN orders)
  BY SoundParts, FS_Interval
<1>2. IsFiniteSet(Ahead(queue, i)) /\ IsFiniteSet(Ahead(queue, j))
  <2>1. Ahead(queue, i) \in SUBSET DOMAIN orders /\ Ahead(queue, j) \in SUBSET DOMAIN orders
    BY DEF Ahead
  <2> QED
    BY <1>1, <2>1, FS_Subset
<1>3. Ahead(queue, j) \in SUBSET Ahead(queue, i)
  BY BeforeLemma DEF Ahead
<1>4. j \in queue => Ahead(queue, i) # Ahead(queue, j)
  BY BeforeLemma DEF Ahead
<1>5. /\ Cardinality(Ahead(queue, i)) \in Nat /\ Cardinality(Ahead(queue, j)) \in Nat
      /\ Cardinality(Ahead(queue, j)) <= Cardinality(Ahead(queue, i))
      /\ Cardinality(Ahead(queue, i)) = Cardinality(Ahead(queue, j)) => Ahead(queue, i) = Ahead(queue, j)
  BY <1>2, <1>3, FS_Subset, FS_CardinalityType
<1> QED
  BY <1>4, <1>5

LEMMA AheadCounts ==
    ASSUME Sound, NEW queue \in SUBSET DOMAIN orders
    PROVE  \A i : Cardinality(Ahead(queue, i)) \in Nat
<1>1. IsFiniteSet(DOMAIN orders)
  BY SoundParts, FS_Interval
<1> SUFFICES ASSUME NEW i PROVE Cardinality(Ahead(queue, i)) \in Nat
  OBVIOUS
<1>2. Ahead(queue, i) \in SUBSET DOMAIN orders
  BY DEF Ahead
<1> QED
  BY <1>1, <1>2, FS_Subset, FS_CardinalityType

(* The part of a queue within a budget.                                     *)
LEMMA BudgetCuts ==
    ASSUME Sound, NEW queue \in SUBSET DOMAIN orders, NEW budget \in Nat,
           NEW out, out = {i \in queue : Cardinality(Ahead(queue, i)) < budget}
    PROVE  /\ Cardinality(out) <= budget
           /\ \A i \in out, j \in queue \ out : ~Before(View(orders), j, i)
           /\ queue # {} /\ budget > 0 => out # {}
<1> DEFINE place(i) == Cardinality(Ahead(queue, i))
<1>1. \A i : place(i) \in Nat
  BY AheadCounts
<1>2. \A i, j \in queue : Before(View(orders), j, i) => place(j) < place(i)
  BY AheadLemma
<1>3. \A i : i \in out <=> i \in queue /\ place(i) < budget
  OBVIOUS
<1> HIDE DEF place
<1>4. Cardinality(out) <= budget
  <2> DEFINE f == [i \in out |-> place(i)]
             places == 0 .. (budget - 1)
  <2>1. f \in Injection(out, places)
    <3>1. \A i \in out : f[i] \in places
      BY <1>1, <1>3
    <3>2. \A i, j \in out : f[i] = f[j] => i = j
      <4> SUFFICES ASSUME NEW i \in out, NEW j \in out, i # j PROVE place(i) # place(j)
        OBVIOUS
      <4>1. i \in queue /\ j \in queue
        BY <1>3
      <4>2. Before(View(orders), i, j) \/ Before(View(orders), j, i)
        BY <4>1, BeforeLemma
      <4>3. place(i) < place(j) \/ place(j) < place(i)
        BY <1>2, <4>1, <4>2
      <4> QED
        BY <1>1, <4>3
    <3> QED
      BY <3>1, <3>2 DEF Injection, IsInjective
  <2>2. IsFiniteSet(places) /\ Cardinality(places) = budget
    BY FS_Interval
  <2> HIDE DEF f, places
  <2> QED
    BY <2>1, <2>2, FS_Injection
<1>5. ASSUME NEW i \in out, NEW j \in queue \ out, Before(View(orders), j, i) PROVE FALSE
  <2>1. place(j) < place(i) /\ place(i) < budget /\ ~(place(j) < budget)
    BY <1>2, <1>3, <1>5
  <2> QED
    BY <1>1, <2>1
<1>6. ASSUME queue # {}, budget > 0 PROVE out # {}
  <2> DEFINE T == {place(i) : i \in queue}
  <2>1. T \in SUBSET Nat /\ T # {}
    BY <1>1, <1>6
  <2>2. PICK x \in T : \A y \in T : x <= y
    <3> HIDE DEF T
    <3> QED
      BY <2>1, LeastOf
  <2>3. PICK i \in queue : place(i) = x
    BY <2>2
  <2>4. \A j \in queue : place(i) <= place(j)
    BY <2>2, <2>3
  <2>5. \A j \in queue : ~Before(View(orders), j, i)
    BY <1>1, <1>2, <2>4
  <2>6. Ahead(queue, i) = {}
    BY <2>5 DEF Ahead
  <2>7. place(i) = 0
    BY <2>6, FS_EmptySet DEF place
  <2> QED
    BY <1>3, <1>6, <2>7
<1> QED
  BY <1>4, <1>5, <1>6

(* A frame sends at most the budget out, the front of the ready queue and    *)
(* at least one order if there is any, and what stays behind stays ready.    *)
THEOREM DrainKeepsOrder == SpecWork => BudgetedInOrder
<1> DEFINE ready == {i \in DOMAIN orders : orders[i].state = "Ready" /\ orders[i].actor # NoActor}
           gone == {i \in ready : orders'[i].state = "Dispatched"}
           goal == /\ Cardinality(gone) <= DrainBudget
                   /\ \A i \in ready \ gone : orders'[i].state = "Ready"
                   /\ \A i \in gone, j \in ready \ gone : ~Before(View(orders), j, i)
                   /\ ready # {} /\ DrainBudget > 0 => gone # {}
<1>1. ASSUME Sound, NextWork, phase = "drain" PROVE goal \/ UNCHANGED workVars
  <2> DEFINE queue == {i \in ReadyIntentIndices(derived) : orders[i].actor # NoActor}
             lost == {i \in ReadyIntentIndices(derived) \ queue : WithinBudget(i, queue)}
             out == {i \in queue : WithinBudget(i, queue)}
  <2>1. DrainReadyIntents \/ UNCHANGED workVars
    <3>1. /\ ~NewFrame /\ ~Compact /\ ~EndConfirm /\ ~CompleteBeforeSeeding /\ ~GuardCoverage /\ ~EndSeeding
          /\ ~CompleteAfterSeeding /\ ~BeginEconomy /\ ~EndEconomy /\ ~EndPark /\ ~Rank /\ ~CaptureNewlyDispatched
      BY <1>1 DEF NewFrame, Compact, EndConfirm, CompleteBeforeSeeding, GuardCoverage, EndSeeding,
                  CompleteAfterSeeding, BeginEconomy, EndEconomy, EndPark, Rank, CaptureNewlyDispatched
    <3>2. /\ \A i \in todo : /\ ~EnsureStrategicChild(i) /\ ~Expand(i) /\ (\A p : ~ParkDeferred(i, p))
                             /\ \A s : ~ConfirmDispatched(i, s)
          /\ \A b, i : ~Reactivate(b, i)
          /\ \A t : ~SeedOpeningStep(t) /\ ~SeedGoal(t)
      BY <1>1 DEF EnsureStrategicChild, Expand, ParkDeferred, ConfirmDispatched, Reactivate, SeedOpeningStep,
                  SeedGoal
    <3> QED
      BY <1>1, <3>1, <3>2 DEF NextWork, TableFull
  <2>2. derived = View(orders)
    BY <1>1 DEF Sound, WorkTyped, Coherent, DerivedAgrees
  <2>3. queue = ready
    BY <2>2 DEF ReadyIntentIndices, InState, View, Seen
  <2>4. lost = {}
    <3> SUFFICES ASSUME NEW i \in ReadyIntentIndices(derived) PROVE orders[i].actor # NoActor
      OBVIOUS
    <3>1. i \in DOMAIN orders /\ orders[i].state = "Ready"
      BY <2>2 DEF ReadyIntentIndices, InState, View, Seen
    <3>2. RowSound(orders[i])
      BY <1>1, <3>1, SoundParts
    <3> QED
      BY <3>1, <3>2 DEF RowSound, Terminal, TerminalStates
  <2>5. out = {i \in ready : Cardinality(Ahead(ready, i)) < DrainBudget}
    BY <2>2, <2>3 DEF WithinBudget, Ahead
  <2>6. ready \in SUBSET DOMAIN orders /\ \A i \in ready : orders[i].state = "Ready"
    OBVIOUS
  <2> HIDE DEF ready
  <2>7. /\ Cardinality(out) <= DrainBudget
        /\ \A i \in out, j \in ready \ out : ~Before(View(orders), j, i)
        /\ ready # {} /\ DrainBudget > 0 => out # {}
    <3>1. DrainBudget \in Nat
      BY WorkBoundAssumption
    <3>2. Sound /\ ready \in SUBSET DOMAIN orders
      BY <1>1, <2>6
    <3> HIDE DEF out, queue, lost
    <3> QED
      BY <2>5, <3>1, <3>2, BudgetCuts
  <2>8. ASSUME DrainReadyIntents PROVE gone = out /\ \A i \in ready \ gone : orders'[i].state = "Ready"
    <3>1. IF lost \cup out = {} THEN UNCHANGED vars
          ELSE orders' = [i \in DOMAIN orders |->
                             IF i \in lost THEN Moved(orders[i], "Aborted")
                             ELSE IF i \in out THEN Moved(orders[i], "Dispatched") ELSE orders[i]]
      BY <2>8 DEF DrainReadyIntents
    <3>2. out \in SUBSET ready
      BY <2>5
    <3> HIDE DEF out, lost
    <3>3. ASSUME NEW i \in ready
          PROVE  orders'[i].state = IF i \in out THEN "Dispatched" ELSE "Ready"
      <4>1. orders[i] \in Order /\ i \in DOMAIN orders
        BY <1>1, <2>6, SoundParts
      <4>2. Moved(orders[i], "Dispatched").state = "Dispatched"
        BY <4>1, DispatchedRow, <1>1, <2>6, SoundParts
      <4>3. CASE out = {}
        BY <2>4, <2>6, <3>1, <4>3 DEF vars
      <4>4. CASE out # {}
        <5>1. orders'[i] = IF i \in out THEN Moved(orders[i], "Dispatched") ELSE orders[i]
          BY <2>4, <3>1, <4>1, <4>4
        <5> QED
          BY <2>6, <4>2, <5>1
      <4> QED
        BY <4>3, <4>4
    <3> QED
      BY <3>2, <3>3
  <2> HIDE DEF gone, out
  <2> QED
    BY <2>1, <2>7, <2>8
<1>2. ASSUME Sound, [NextWork]_workVars PROVE (phase = "drain" => goal) \/ UNCHANGED workVars
  <2> HIDE DEF goal
  <2> QED
    BY <1>1, <1>2
<1> QED
  BY <1>2, WorkSound, PTL DEF SpecWork, BudgetedInOrder
-----------------------------------------------------------------------------
(* No work is lost between the table and the buffers.                       *)

Worked(s, c) == \E i \in DOMAIN s : Live(s[i]) /\ Class(s[i]) = c

LEMMA WorkIs ==
    ASSUME NEW s, NEW buffers, DOMAIN buffers = Buffers, NEW c
    PROVE  c \in Work(s, buffers) <=> Worked(s, c) \/ Parked(buffers, c)
BY DEF Work, LiveAt, Live, Worked, Parked, Class

Begins(back, rest) == DOMAIN rest \subseteq DOMAIN back /\ \A k \in DOMAIN rest : back[k] = rest[k]

(* A record taken out leaves the others, wherever they come to stand.       *)
LEMMA OthersStay ==
    ASSUME NEW buffers \in [Buffers -> Seq(WorkRecord)], NEW b \in Buffers, NEW i \in DOMAIN buffers[b],
           NEW rest \in Seq(WorkRecord), CutAt(rest, buffers[b], i),
           NEW back, Begins(back, rest),
           NEW after, after = [buffers EXCEPT ![b] = back],
           NEW c, Parked(buffers, c), c # buffers[b][i].sig
    PROVE  Parked(after, c)
<1>0. PICK d \in Buffers : \E m \in DOMAIN buffers[d] : buffers[d][m].sig = c
  BY DEF Parked
<1>1. PICK m \in DOMAIN buffers[d] : buffers[d][m].sig = c
  BY <1>0
<1>2. after[b] = back /\ (d # b => after[d] = buffers[d])
  OBVIOUS
<1>3. CASE d # b
  BY <1>1, <1>2, <1>3 DEF Parked
<1>4. CASE d = b
  <2>1. PICK n \in Nat : n = Len(buffers[b]) /\ DOMAIN buffers[b] = 1 .. n /\ DOMAIN rest = 1 .. n - 1
    <3>1. buffers[b] \in Seq(WorkRecord) /\ Len(buffers[b]) \in Nat
      OBVIOUS
    <3> QED
      BY <3>1 DEF CutAt
  <2>2. PICK k \in DOMAIN rest : rest[k] = buffers[b][m]
    <3>1. m # i /\ m \in 1 .. n /\ i \in 1 .. n
      BY <1>1, <1>4, <2>1
    <3>2. CASE m < i
      BY <2>1, <3>1, <3>2 DEF CutAt
    <3>3. CASE m > i
      <4>1. m - 1 \in DOMAIN rest /\ ~(m - 1 < i) /\ m - 1 + 1 = m
        BY <2>1, <3>1, <3>3
      <4> QED
        BY <4>1 DEF CutAt
    <3> QED
      BY <3>1, <3>2, <3>3
  <2>3. k \in DOMAIN after[b] /\ after[b][k].sig = c
    BY <1>1, <1>2, <1>4, <2>2 DEF Begins
  <2> QED
    BY <2>3 DEF Parked
<1> QED
  BY <1>3, <1>4

(* What the lookup finds is worked on.                                      *)
LEMMA FoundIsWorked ==
    ASSUME Sound, NEW k \in Key, TRUE \in EquivalentActiveTaskAnswers(k)
    PROVE  Worked(orders, ClassOf(k))
<1>1. PICK l \in LiveKeys(orders) : Matches(l, k)
  <2>1. CASE derivedDirty
    BY <2>1 DEF EquivalentActiveTaskAnswers, ScanAnswer
  <2>2. CASE ~derivedDirty
    <3>1. TRUE \in IndexAnswers(LiveKeys(derived), k)
      BY <2>2 DEF EquivalentActiveTaskAnswers
    <3>2. PICK l \in LiveKeys(derived) : Matches(k, l)
      BY <3>1 DEF IndexAnswers, SameHash, Matches
    <3>3. PICK i \in DOMAIN derived : Live(derived[i]) /\ l = KeyOf(derived[i])
      BY DEF LiveKeys, LiveAt, Live
    <3>4. derived = View(orders)
      BY <2>2 DEF Sound, Coherent, DerivedAgrees
    <3>5. i \in DOMAIN orders /\ Live(orders[i]) /\ KeyOf(orders[i]) = l
      BY <3>3, <3>4 DEF View, Seen, Live, KeyOf
    <3>6. l \in LiveKeys(orders)
      BY <3>5 DEF LiveKeys, LiveAt, Live
    <3> QED
      BY <3>2, <3>6 DEF Matches
  <2> QED
    BY <2>1, <2>2
<1>2. PICK i \in DOMAIN orders : Live(orders[i]) /\ l = KeyOf(orders[i])
  BY DEF LiveKeys, LiveAt, Live
<1>3. ClassOf(l) = ClassOf(k)
  BY <1>1, <1>2, SoundParts, OrderKey, ClassLemma
<1> QED
  BY <1>2, <1>3 DEF Worked, Class

(* A new strategic or economic row is live and of its key.                  *)
LEMMA RootRow ==
    ASSUME NEW layer \in {"StrategicDirector", "EconomyAndProduction"}, NEW k \in Key
    PROVE  LET row == Numbered(NewOrder(layer, "Queued", k, NoActor, NoSlot), 0)
           IN  Live(row) /\ KeyOf(row) = k
<1> DEFINE row == Numbered(NewOrder(layer, "Queued", k, NoActor, NoSlot), 0)
<1>1. layer \in Layers /\ "Queued" \in LiveStates /\ NoActor \in Actors \cup {NoActor}
      /\ NoSlot \in Slots \cup {NoSlot}
  BY DEF Layers, LiveStates
<1>2. Live(row) /\ row.task = k.task /\ row.goal = k.goal /\ row.detail = k.detail
  BY <1>1, NewRow
<1> HIDE DEF row
<1>3. KeyOf(row) = k
  BY <1>2 DEF KeyOf, Key
<1> QED
  BY <1>2, <1>3 DEF row

LEMMA ReactivateKeeps ==
    ASSUME Sound, Sound', NEW b \in DOMAIN blocked, NEW i \in DOMAIN blocked[b], Reactivate(b, i),
           NEW c \in Work(orders, blocked)
    PROVE  c \in Work(orders', blocked')
<1> DEFINE r == blocked[b][i]
           rest == SubSeq(blocked[b], 1, i - 1) \o SubSeq(blocked[b], i + 1, Len(blocked[b]))
           new == NewOrder(r.layer, "Queued", r.key, NoActor, NoSlot)
           row == Numbered(new, 0)
<1>1. \/ /\ TRUE \in EquivalentActiveTaskAnswers(r.key)
         /\ blocked' = [blocked EXCEPT ![b] = rest]
         /\ orders' = orders
      \/ /\ blocked' = [blocked EXCEPT ![b] = Append(rest, r)]
         /\ orders' = orders
      \/ /\ blocked' = [blocked EXCEPT ![b] = rest]
         /\ orders' = Append(orders, row)
  BY DEF Reactivate, EnqueueOrder, EnqueueAfter
<1>2. /\ b \in Buffers /\ blocked \in [Buffers -> Seq(WorkRecord)] /\ blocked[b] \in Seq(WorkRecord)
      /\ DOMAIN blocked = Buffers /\ DOMAIN blocked' = Buffers
  BY DEF Sound, WorkTyped
<1>3. rest \in Seq(WorkRecord) /\ CutAt(rest, blocked[b], i)
  <2>1. /\ rest \in Seq(WorkRecord) /\ Len(rest) = Len(blocked[b]) - 1
        /\ \A k \in DOMAIN rest : rest[k] = blocked[b][IF k < i THEN k ELSE k + 1]
    BY <1>2, CutLemma
  <2> HIDE DEF rest
  <2> QED
    BY <2>1 DEF CutAt
<1>4. r \in WorkRecord /\ r.key \in Key /\ r.sig = ClassOf(r.key)
      /\ r.layer \in {"StrategicDirector", "EconomyAndProduction"}
  <2>1. r \in WorkRecord
    BY <1>2
  <2> HIDE DEF r
  <2> QED
    BY <2>1 DEF WorkRecord, StepKeys
<1>5. Worked(orders, c) \/ Parked(blocked, c)
  BY <1>2, WorkIs
<1> SUFFICES Worked(orders', c) \/ Parked(blocked', c)
  BY <1>2, WorkIs
<1>6. /\ Append(rest, r) \in Seq(WorkRecord)
      /\ DOMAIN Append(rest, r) = DOMAIN rest \cup {Len(rest) + 1}
      /\ \A k \in DOMAIN rest : Append(rest, r)[k] = rest[k]
      /\ Append(rest, r)[Len(rest) + 1] = r
  <2> HIDE DEF rest, r
  <2> QED
    BY <1>3, <1>4, AppendProperties
<1> HIDE DEF rest
<1>7. ASSUME Parked(blocked, c), c # r.sig PROVE Parked(blocked', c)
  <2>1. CASE blocked' = [blocked EXCEPT ![b] = rest]
    <3>1. Begins(rest, rest)
      BY DEF Begins
    <3> QED
      BY <1>2, <1>3, <1>7, <2>1, <3>1, OthersStay
  <2>2. CASE blocked' = [blocked EXCEPT ![b] = Append(rest, r)]
    <3>1. PICK back : back = Append(rest, r)
      OBVIOUS
    <3>2. Begins(back, rest)
      BY <1>6, <3>1 DEF Begins
    <3>3. blocked' = [blocked EXCEPT ![b] = back]
      BY <2>2, <3>1
    <3> QED
      BY <1>2, <1>3, <1>7, <3>2, <3>3, OthersStay
  <2> QED
    BY <1>1, <2>1, <2>2
<1>8. ASSUME Worked(orders, c) PROVE Worked(orders', c)
  <2>1. PICK j \in DOMAIN orders : Live(orders[j]) /\ Class(orders[j]) = c
    BY <1>8 DEF Worked
  <2>2. j \in DOMAIN orders' /\ orders'[j] = orders[j]
    <3>1. orders \in Seq(Order)
      BY SoundParts
    <3> HIDE DEF row
    <3>2. CASE orders' = orders
      BY <3>2
    <3>3. CASE orders' = Append(orders, row)
      <4>1. DOMAIN orders' = 1 .. Len(orders) + 1 /\ DOMAIN orders = 1 .. Len(orders) /\ Len(orders) \in Nat
        BY <3>1, <3>3
      <4>2. orders'[j] = orders[j]
        BY <3>1, <3>3
      <4> QED
        BY <4>1, <4>2
    <3> QED
      BY <1>1, <3>2, <3>3
  <2> QED
    BY <2>1, <2>2 DEF Worked
<1>9. CASE c = r.sig
  <2>1. CASE TRUE \in EquivalentActiveTaskAnswers(r.key) /\ orders' = orders
    BY <1>4, <1>9, <2>1, FoundIsWorked
  <2>2. CASE blocked' = [blocked EXCEPT ![b] = Append(rest, r)]
    <3>1. Len(rest) + 1 \in DOMAIN blocked'[b] /\ blocked'[b][Len(rest) + 1] = r
      BY <1>2, <1>6, <2>2
    <3> QED
      BY <1>2, <1>9, <3>1 DEF Parked
  <2>3. CASE orders' = Append(orders, row)
    <3>1. Live(row) /\ KeyOf(row) = r.key
      <4> HIDE DEF r
      <4> QED
        BY <1>4, RootRow
    <3>3. Len(orders) + 1 \in DOMAIN orders' /\ orders'[Len(orders) + 1] = row
      <4>1. orders \in Seq(Order)
        BY SoundParts
      <4> HIDE DEF row
      <4> QED
        BY <2>3, <4>1
    <3> HIDE DEF row
    <3> QED
      BY <1>4, <1>9, <3>1, <3>3 DEF Worked, Class
  <2> QED
    BY <1>1, <2>1, <2>2, <2>3
<1> QED
  BY <1>5, <1>7, <1>8, <1>9

(* A push that drops nothing keeps what the buffer holds and adds the       *)
(* record; else the buffer is full, and must-run work is rejected.          *)
LEMMA PushKeeps ==
    ASSUME NEW q \in Seq(WorkRecord), NEW r \in WorkRecord
    PROVE  LET p == Ring!TryPushOrCoalesce(q, r, Capacity)
           IN  \/ /\ \A k \in DOMAIN q : \E l \in DOMAIN p.buffer : p.buffer[l].sig = q[k].sig
                  /\ \E l \in DOMAIN p.buffer : p.buffer[l].sig = r.sig
               \/ /\ p.buffer = q /\ Len(q) >= Capacity
                  /\ r.policy = "HotMustRun" => Rejected(p.flag)
<1> DEFINE p == Ring!TryPushOrCoalesce(q, r, Capacity)
           holds == /\ \A k \in DOMAIN q : \E l \in DOMAIN p.buffer : p.buffer[l].sig = q[k].sig
                    /\ \E l \in DOMAIN p.buffer : p.buffer[l].sig = r.sig
           drops == /\ p.buffer = q /\ Len(q) >= Capacity
                    /\ r.policy = "HotMustRun" => Rejected(p.flag)
<1>1. p = RingFacts!TryPushOrCoalesce(q, r, Capacity) /\ Capacity \in Nat
  BY SamePush, WorkBoundAssumption
<1> HIDE DEF p
<1>2. \/ RingFacts!Coalesces(q, r, p) \/ RingFacts!Appends(q, r, p, Capacity)
      \/ RingFacts!Evicts(q, r, p, Capacity) \/ RingFacts!Refuses(q, r, p, Capacity)
  BY <1>1, RingFacts!PushOutcome
<1>3. ASSUME RingFacts!Coalesces(q, r, p) PROVE holds
  <2>1. PICK i \in DOMAIN q : q[i].sig = r.sig /\ p.buffer = [q EXCEPT ![i] = r]
    BY <1>3 DEF RingFacts!Coalesces
  <2> QED
    BY <2>1
<1>4. ASSUME RingFacts!Appends(q, r, p, Capacity) PROVE holds
  <2>1. p.buffer = Append(q, r)
    BY <1>4 DEF RingFacts!Appends
  <2>2. /\ DOMAIN p.buffer = DOMAIN q \cup {Len(q) + 1} /\ p.buffer[Len(q) + 1] = r
        /\ \A k \in DOMAIN q : p.buffer[k] = q[k]
    BY <2>1, AppendProperties
  <2> QED
    BY <2>2
<1>5. ~RingFacts!Evicts(q, r, p, Capacity)
  <2>1. \A k \in DOMAIN q : q[k].policy # "DiscardableDuplicate"
    BY DEF WorkRecord
  <2> QED
    BY <2>1 DEF RingFacts!Evicts
<1>6. ASSUME RingFacts!Refuses(q, r, p, Capacity) PROVE drops
  BY <1>6 DEF RingFacts!Refuses, Rejected
<1>7. holds \/ drops
  BY <1>2, <1>3, <1>4, <1>5, <1>6
<1> QED
  BY <1>7 DEF p

LEMMA ParkDeferredKeeps ==
    ASSUME Sound, Sound', NEW i \in todo, NEW policy \in RetentionPolicies(orders[RootOf(i)]),
           ParkDeferred(i, policy),
           NEW c \in Work(orders, blocked), c \notin Work(orders', blocked')
    PROVE  /\ phase = "park"
           /\ \E b \in DOMAIN blocked : Len(blocked[b]) = Capacity
           /\ ~Parked(blocked, c)
           /\ \A j \in DOMAIN orders :
                 Live(orders[j]) /\ orders[j].layer = "StrategicDirector" /\ orders[j].task # 0
                     => Class(orders[j]) # c
<1> DEFINE o == orders[RootOf(i)]
           b == IF o.layer = "StrategicDirector" THEN "Strategic" ELSE "Planning"
           record == BlockedRecordFor(o, policy)
           pushed == Ring!TryPushOrCoalesce(blocked[b], record, Capacity)
           r == [j \in DOMAIN orders |-> IF j \in Retiring(i) THEN Retired(orders[j]) ELSE orders[j]]
<1>1. /\ phase = "park"
      /\ \/ UNCHANGED <<orders, blocked>>
         \/ /\ ~Terminal(orders[i]) /\ ~Rejected(pushed.flag)
            /\ blocked' = [blocked EXCEPT ![b] = pushed.buffer]
            /\ orders' = r
  BY DEF ParkDeferred, Apply, vars
<1>2. /\ i \in DOMAIN orders /\ orders[i].layer = "EconomyAndProduction" /\ orders[i] \in Order
      /\ blocked \in [Buffers -> Seq(WorkRecord)] /\ DOMAIN blocked = Buffers /\ DOMAIN blocked' = Buffers
      /\ b \in Buffers /\ blocked[b] \in Seq(WorkRecord) /\ Len(blocked[b]) <= Capacity
  BY <1>1, SoundParts DEF Sound, WorkTyped, Visits, Buffers
<1>3. Worked(orders, c) \/ Parked(blocked, c)
  BY <1>2, WorkIs
<1>4. ~Worked(orders', c) /\ ~Parked(blocked', c)
  BY <1>2, WorkIs
<1>5. /\ ~Terminal(orders[i]) /\ ~Rejected(pushed.flag)
      /\ blocked' = [blocked EXCEPT ![b] = pushed.buffer]
      /\ orders' = r
  BY <1>1, <1>3, <1>4
<1>6. Live(orders[i])
  BY <1>2, <1>5, OrderFields DEF Live, Terminal, States
<1>7. /\ RootOf(i) \in DOMAIN orders /\ Class(o) = Class(orders[i]) /\ o \in Order /\ RowSound(o)
      /\ o.layer \in {"StrategicDirector", "EconomyAndProduction"}
      /\ \A j \in DOMAIN orders : Working(orders[j]) /\ Class(orders[j]) = Class(o) => j \in Retiring(i)
  BY <1>2, <1>6, RootLemma, SoundParts
<1>8. record \in WorkRecord /\ record.sig = Class(o) /\ record.policy = policy
  <2>1. record \in WorkRecord /\ record.sig = Class(o)
    BY <1>7, RecordFor
  <2> QED
    BY <2>1 DEF BlockedRecordFor
<1> HIDE DEF record, b
<1>9. \/ /\ \A k \in DOMAIN blocked[b] : \E l \in DOMAIN blocked'[b] : blocked'[b][l].sig = blocked[b][k].sig
         /\ \E l \in DOMAIN blocked'[b] : blocked'[b][l].sig = Class(o)
      \/ /\ blocked'[b] = blocked[b] /\ Len(blocked[b]) = Capacity
         /\ policy # "HotMustRun"
  <2>1. blocked'[b] = pushed.buffer
    BY <1>2, <1>5
  <2>2. \/ /\ \A k \in DOMAIN blocked[b] : \E l \in DOMAIN pushed.buffer : pushed.buffer[l].sig = blocked[b][k].sig
           /\ \E l \in DOMAIN pushed.buffer : pushed.buffer[l].sig = record.sig
        \/ /\ pushed.buffer = blocked[b] /\ Len(blocked[b]) >= Capacity
           /\ record.policy = "HotMustRun" => Rejected(pushed.flag)
    BY <1>2, <1>8, PushKeeps
  <2>3. Len(blocked[b]) \in Nat /\ Capacity \in Nat
    BY <1>2, WorkBoundAssumption
  <2> HIDE DEF pushed
  <2> QED
    BY <1>2, <1>5, <1>8, <2>1, <2>2, <2>3
<1>10. \A d \in Buffers : d # b => blocked'[d] = blocked[d]
  BY <1>2, <1>5
<1>11. ASSUME NEW x, Parked(blocked, x) PROVE Parked(blocked', x)
  <2>1. PICK d \in Buffers : \E m \in DOMAIN blocked[d] : blocked[d][m].sig = x
    BY <1>11 DEF Parked
  <2>2. \E m \in DOMAIN blocked'[d] : blocked'[d][m].sig = x
    BY <1>9, <1>10, <2>1
  <2> QED
    BY <2>2 DEF Parked
<1>12. Worked(orders, c) /\ ~Parked(blocked, c)
  BY <1>3, <1>4, <1>11
<1>13. ASSUME NEW j \in DOMAIN orders, Live(orders[j]), Class(orders[j]) = c
       PROVE  j \in Retiring(i) /\ c = Class(o)
  <2>1. j \in Retiring(i)
    <3> SUFFICES ASSUME j \notin Retiring(i) PROVE FALSE
      OBVIOUS
    <3>1. j \in DOMAIN orders' /\ orders'[j] = orders[j]
      BY <1>5
    <3> QED
      BY <1>4, <1>13, <3>1 DEF Worked
  <2> QED
    BY <1>7, <1>13, <2>1 DEF Retiring
<1>14. c = Class(o)
  BY <1>12, <1>13 DEF Worked
<1>15. Len(blocked[b]) = Capacity /\ policy # "HotMustRun"
  <2>1. ~\E l \in DOMAIN blocked'[b] : blocked'[b][l].sig = Class(o)
    BY <1>2, <1>4, <1>14 DEF Parked
  <2> QED
    BY <1>9, <2>1
<1>16. ASSUME NEW j \in DOMAIN orders, Live(orders[j]), orders[j].layer = "StrategicDirector", orders[j].task # 0,
              Class(orders[j]) = c
       PROVE  FALSE
  <2>1. j = RootOf(i)
    BY <1>2, <1>13, <1>16 DEF Retiring
  <2>2. policy = "HotMustRun"
    BY <1>16, <2>1 DEF RetentionPolicies
  <2> QED
    BY <1>15, <2>2
<1> QED
  BY <1>1, <1>2, <1>12, <1>15, <1>16

(* Reactivating a record and parking an order lose no work but what a full  *)
(* buffer drops, and that is neither parked already nor a step of the       *)
(* opening whose strategic order is live.                                   *)
THEOREM WorkNeverLost == SpecWork => WorkKept
<1> DEFINE spared(c) ==
              /\ phase = "park"
              /\ \E b \in DOMAIN blocked : Len(blocked[b]) = Capacity
              /\ \A b \in DOMAIN blocked : ~Ring!Holds(blocked[b], c)
              /\ \A i \in ActiveOrders :
                    orders[i].layer = "StrategicDirector" /\ orders[i].task # 0
                        => ClassOf(KeyOf(orders[i])) # c
<1>1. ASSUME Sound, [NextWork]_workVars, phase \in {"reactivate", "park"}, phase' = phase,
             NEW c \in Work(orders, blocked) \ Work(orders', blocked')
      PROVE  spared(c)
  <2>0. Sound'
    BY <1>1, StepSound
  <2>1. \/ UNCHANGED workVars
        \/ \E b \in DOMAIN blocked : \E i \in DOMAIN blocked[b] : Reactivate(b, i)
        \/ \E i \in todo : \E policy \in RetentionPolicies(orders[RootOf(i)]) : ParkDeferred(i, policy)
    <3> HIDE DEF spared
    <3>1. /\ ~NewFrame /\ ~Compact /\ ~EndConfirm /\ ~CompleteBeforeSeeding /\ ~GuardCoverage /\ ~EndSeeding
          /\ ~CompleteAfterSeeding /\ ~BeginEconomy /\ ~EndEconomy /\ ~EndPark /\ ~Rank
          /\ ~CaptureNewlyDispatched /\ ~DrainReadyIntents
      BY <1>1 DEF NewFrame, Compact, EndConfirm, CompleteBeforeSeeding, GuardCoverage, EndSeeding,
                  CompleteAfterSeeding, BeginEconomy, EndEconomy, EndPark, Rank, CaptureNewlyDispatched,
                  DrainReadyIntents
    <3>2. /\ \A i \in todo : ~EnsureStrategicChild(i) /\ ~Expand(i) /\ \A s : ~ConfirmDispatched(i, s)
          /\ \A t : ~SeedOpeningStep(t) /\ ~SeedGoal(t)
      BY <1>1 DEF EnsureStrategicChild, Expand, ConfirmDispatched, SeedOpeningStep, SeedGoal
    <3> QED
      BY <1>1, <3>1, <3>2 DEF NextWork, TableFull
  <2>2. CASE UNCHANGED workVars
    BY <1>1, <2>2 DEF workVars, vars
  <2>3. CASE \E b \in DOMAIN blocked : \E i \in DOMAIN blocked[b] : Reactivate(b, i)
    BY <1>1, <2>0, <2>3, ReactivateKeeps
  <2>4. CASE \E i \in todo : \E policy \in RetentionPolicies(orders[RootOf(i)]) : ParkDeferred(i, policy)
    <3>1. /\ phase = "park"
          /\ \E b \in DOMAIN blocked : Len(blocked[b]) = Capacity
          /\ ~Parked(blocked, c)
          /\ \A j \in DOMAIN orders :
                Live(orders[j]) /\ orders[j].layer = "StrategicDirector" /\ orders[j].task # 0
                    => Class(orders[j]) # c
      BY <1>1, <2>0, <2>4, ParkDeferredKeeps
    <3>2. DOMAIN blocked = Buffers
      BY <1>1 DEF Sound, WorkTyped
    <3>3. \A b \in DOMAIN blocked : ~Ring!Holds(blocked[b], c)
      BY <3>1, <3>2 DEF Parked, Ring!Holds
    <3>4. \A i \in ActiveOrders : i \in DOMAIN orders /\ Live(orders[i])
      BY DEF ActiveOrders, LiveAt, Live
    <3> QED
      BY <3>1, <3>3, <3>4 DEF Class
  <2> QED
    BY <2>1, <2>2, <2>3, <2>4
<1>2. ASSUME Sound, [NextWork]_workVars
      PROVE  (phase \in {"reactivate", "park"} /\ phase' = phase) =>
                \A c \in Work(orders, blocked) \ Work(orders', blocked') : spared(c)
  <2> HIDE DEF spared
  <2> QED
    BY <1>1, <1>2
<1> QED
  BY <1>2, WorkSound, PTL DEF SpecWork, WorkKept

=============================================================================
