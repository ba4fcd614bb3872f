------------------------- MODULE OrderDispatchProofs -------------------------
(***************************************************************************)
(* For any number of places, actors and kinds, any timeouts and any game:   *)
(* no dispatched order outlives its time by more than a frame, orders only  *)
(* go the ways of their lifecycle, and what the game did for one is heard.  *)
(*                                                                         *)
(* The bound on the age is not inductive by itself: it says less after the  *)
(* maintenance of a frame than it must.  InTime states the age by phase:    *)
(* between the maintenance and the rebuild every captured order is younger  *)
(* than its timeout, and one step of the game is all that is added to it.   *)
(* Nor is AnswersHeard: Heard says, phase by phase, what the last look at   *)
(* the game told of an order and what its count and baseline say of it.     *)
(***************************************************************************)
EXTENDS OrderDispatch, TLAPS, FiniteSetTheorems

Rows == [Places -> Order \cup Ended \cup {Vacant}]

(* The part of TypeOK the arguments rest on.                                *)
TablesOK ==
    /\ orders \in Rows
    /\ seen \in Counts /\ made \in Counts

InTime ==
    \A p \in Places : Captured(p) /\ orders[p].timed =>
        orders[p].age < IF phase = "maintained" THEN Timeout(orders[p]) ELSE Timeout(orders[p]) + StepSize

Timely == TablesOK /\ InTime
-----------------------------------------------------------------------------
(* What the states of a row tell about its fields.                          *)
LEMMA RowTypes ==
    ASSUME NEW o \in Order \cup Ended \cup {Vacant}
    PROVE  /\ o.state \in {"Ready", "Dispatched"} => o \in Order
           /\ o.state \in {"none", "Ready", "Dispatched", "Completed", "Aborted"}
BY DEF Order, Ended, Vacant

LEMMA TimeoutType == \A o : Timeout(o) \in Nat
BY DispatchAssumption DEF Timeout

(* The counts of a frame, of what stands and what the units do.             *)
Makers(d, k) == {a \in Actors : d[a] = k}

Frame(m, d) ==
    [k \in Kinds |->
        IF k \in Constructed THEN m[k]
        ELSE [m[k] EXCEPT !.unfinished = Cardinality(Makers(d, k))]]

Count == [finished : Nat, unfinished : Nat]

LEMMA FrameOf ==
    ASSUME NEW m \in Counts, NEW d, NEW k \in Kinds
    PROVE  /\ Frame(m, d)[k] \in Count /\ m[k] \in Count
           /\ Frame(m, d)[k].finished = m[k].finished
           /\ k \in Constructed => Frame(m, d)[k] = m[k]
           /\ k \notin Constructed =>
                 Frame(m, d)[k].unfinished = Cardinality(Makers(d, k))
<1> DEFINE c == Cardinality(Makers(d, k))
<1>1. c \in Nat
  BY DispatchAssumption, FS_Subset, FS_CardinalityType DEF Makers
<1>2. m[k] \in Count
  BY DEF Counts, Count
<1> HIDE DEF c
<1>3. Frame(m, d)[k] = IF k \in Constructed THEN m[k] ELSE [m[k] EXCEPT !.unfinished = c]
  BY DEF Frame, c
<1>4. k \notin Constructed => Frame(m, d)[k].unfinished = c
  BY <1>1, <1>2, <1>3 DEF Count
<1> QED
  BY <1>1, <1>2, <1>3, <1>4 DEF Count, c

LEMMA ShownFrame == Shown = Frame(made, doing) /\ Shown' = Frame(made', doing')
BY DEF Shown, Frame, Makers

LEMMA ShownType ==
    /\ made \in Counts => Shown \in Counts
    /\ made' \in Counts => Shown' \in Counts
<1>1. \A m \in Counts : \A d : Frame(m, d) \in Counts
  <2> SUFFICES ASSUME NEW m \in Counts, NEW d PROVE Frame(m, d) \in Counts
    OBVIOUS
  <2>1. \A k \in Kinds : Frame(m, d)[k] \in [finished : Nat, unfinished : Nat]
    BY FrameOf DEF Count
  <2> QED
    BY <2>1 DEF Frame, Counts
<1> QED
  BY <1>1, ShownFrame

LEMMA InitTimely == Init => Timely
BY DEF Init, Timely, TablesOK, Rows, Counts, InTime, Captured, Vacant

(* What the game does leaves the orders alone and the counts counts.        *)
LEMMA GameKeepsTimely ==
    ASSUME Timely, UNCHANGED <<phase, orders, seen>>, made' \in Counts
    PROVE  Timely'
BY DEF Timely, TablesOK, InTime, Captured, Timeout

LEMMA GameCounts ==
    ASSUME made \in Counts,
           \/ \E a \in Actors : Begins(a) \/ Trains(a) \/ Stops(a) \/ Dies(a) \/ Arrives(a)
           \/ \E k \in Kinds : Finishes(k) \/ \E part \in {"finished", "unfinished"} : Falls(k, part)
    PROVE  made' \in Counts /\ UNCHANGED <<phase, orders, seen>>
<1>1. ASSUME NEW a \in Actors, Begins(a)
      PROVE  made' \in Counts /\ UNCHANGED <<phase, orders, seen>>
  BY <1>1, DispatchAssumption DEF Begins, Counts
<1>2. ASSUME NEW a \in Actors, Trains(a)
      PROVE  made' \in Counts /\ UNCHANGED <<phase, orders, seen>>
  BY <1>2, DispatchAssumption DEF Trains, Counts
<1>3. ASSUME NEW a \in Actors, Stops(a) \/ Dies(a) \/ Arrives(a)
      PROVE  made' \in Counts /\ UNCHANGED <<phase, orders, seen>>
  BY <1>3 DEF Stops, Dies, Arrives
<1>4. ASSUME NEW k \in Kinds, Finishes(k)
      PROVE  made' \in Counts /\ UNCHANGED <<phase, orders, seen>>
  BY <1>4 DEF Finishes, Counts
<1>5. ASSUME NEW k \in Kinds, NEW part \in {"finished", "unfinished"}, Falls(k, part)
      PROVE  made' \in Counts /\ UNCHANGED <<phase, orders, seen>>
  <2>1. CASE part = "finished"
    BY <1>5, <2>1 DEF Falls, Counts
  <2>2. CASE part = "unfinished"
    BY <1>5, <2>2 DEF Falls, Counts
  <2> QED
    BY <2>1, <2>2
<1> QED
  BY <1>1, <1>2, <1>3, <1>4, <1>5
-----------------------------------------------------------------------------
(* The frame.                                                               *)
LEMMA UpdateTimely ==
    ASSUME Timely, UpdateDispatchedSchedulerOrders
    PROVE  Timely'
<1> USE DEF UpdateDispatchedSchedulerOrders
<1>1. ASSUME NEW p \in Places
      PROVE  /\ orders'[p] \in Order \cup Ended \cup {Vacant}
             /\ Captured(p)' => orders'[p] = orders[p] /\ (orders[p].timed => orders[p].age < Timeout(orders[p]))
  <2>1. orders[p] \in Order \cup Ended \cup {Vacant}
    BY DEF Timely, TablesOK, Rows
  <2>2. CASE orders[p].state # "Dispatched"
    <3>1. orders'[p] = orders[p]
      BY <2>2
    <3> QED
      BY <2>1, <2>2, <3>1 DEF Captured
  <2>3. CASE orders[p].state = "Dispatched" /\ Outcome(orders[p]) = "Dispatched"
    <3>1. orders'[p] = orders[p] /\ orders[p] \in Order
      BY <2>1, <2>3, RowTypes DEF Maintained
    <3>2. ~Overdue(orders[p])
      BY <2>3 DEF Outcome
    <3>3. orders[p].age \in Nat
      BY <3>1 DEF Order
    <3> QED
      BY <3>1, <3>2, <3>3, TimeoutType DEF Captured, Overdue
  <2>4. CASE orders[p].state = "Dispatched" /\ Outcome(orders[p]) # "Dispatched"
    <3>1. Outcome(orders[p]) \in {"Completed", "Aborted"}
      BY <2>4 DEF Outcome
    <3>2. orders'[p] = [state |-> Outcome(orders[p])]
      BY <2>4 DEF Maintained
    <3> QED
      BY <3>1, <3>2 DEF Ended, Captured
  <2> QED
    BY <2>2, <2>3, <2>4
<1>2. TablesOK'
  BY <1>1 DEF Timely, TablesOK, Rows, gameVars
<1>3. InTime'
  BY <1>1 DEF InTime, Captured, Timeout
<1> QED
  BY <1>2, <1>3 DEF Timely

LEMMA RebuildTimely ==
    ASSUME Timely, NEW compacts \in BOOLEAN, Rebuild(compacts)
    PROVE  Timely'
<1>1. phase = "maintained" /\ phase' = "rebuilt" /\ seen' = Shown /\ made' = made
  BY DEF Rebuild, gameVars
<1>2. ASSUME NEW p \in Places
      PROVE  /\ orders'[p] \in Order \cup Ended \cup {Vacant}
             /\ Captured(p)' /\ orders'[p].timed => orders'[p].age < Timeout(orders'[p]) + StepSize
  <2>1. orders[p] \in Order \cup Ended \cup {Vacant}
    BY DEF Timely, TablesOK, Rows
  <2>2. \/ orders'[p] = Vacant
        \/ Captured(p) /\ orders'[p] = LaterLoop(orders[p])
        \/ ~Captured(p) /\ orders'[p] = orders[p]
    BY DEF Rebuild
  <2>3. CASE orders'[p] = Vacant
    BY <2>3 DEF Captured, Vacant
  <2>4. CASE Captured(p) /\ orders'[p] = LaterLoop(orders[p])
    <3>1. orders[p] \in Order
      BY <2>1, <2>4, RowTypes DEF Captured
    <3>2. orders[p].age \in Nat /\ (orders[p].timed => orders[p].age < Timeout(orders[p]))
      BY <1>1, <2>4, <3>1 DEF Timely, InTime, Order
    <3>3. /\ orders'[p].timed = orders[p].timed /\ orders'[p].kind = orders[p].kind
          /\ orders[p].timed => orders'[p].age = orders[p].age + StepSize
      BY <2>4, <3>1 DEF LaterLoop, Order
    <3>4. orders'[p] \in Order
      BY <2>4, <3>1, DispatchAssumption DEF LaterLoop, Order
    <3>5. Timeout(orders'[p]) = Timeout(orders[p])
      BY <3>3 DEF Timeout
    <3> QED
      BY <3>2, <3>3, <3>4, <3>5, TimeoutType, DispatchAssumption
  <2>5. CASE ~Captured(p) /\ orders'[p] = orders[p]
    BY <2>1, <2>5 DEF Captured
  <2> QED
    BY <2>2, <2>3, <2>4, <2>5
<1>3. orders' \in Rows
  BY <1>2 DEF Rebuild, Rows
<1>4. TablesOK'
  BY <1>1, <1>3, ShownType DEF Timely, TablesOK
<1>5. InTime'
  <2>1. \A p \in Places : Captured(p)' /\ orders'[p].timed => orders'[p].age < Timeout(orders'[p]) + StepSize
    BY <1>2
  <2> QED
    BY <1>1, <2>1 DEF InTime, Timeout
<1> QED
  BY <1>4, <1>5 DEF Timely

(* A step that changes orders only to what is not captured, or is captured  *)
(* at age zero.                                                             *)
LEMMA PlanTimely ==
    ASSUME Timely, phase # "maintained", phase' # "maintained",
           UNCHANGED <<seen, made>>,
           orders' \in Rows,
           \A p \in Places : orders'[p] = orders[p] \/ ~Captured(p)' \/ orders'[p].age = 0
    PROVE  Timely'
<1>1. ASSUME NEW p \in Places, Captured(p)', orders'[p].timed
      PROVE  orders'[p].age < Timeout(orders'[p]) + StepSize
  <2>1. CASE orders'[p] = orders[p]
    BY <1>1, <2>1 DEF Timely, InTime, Captured
  <2>2. CASE orders'[p].age = 0
    BY <2>2, TimeoutType, DispatchAssumption
  <2> QED
    BY <1>1, <2>1, <2>2
<1>2. InTime'
  BY <1>1 DEF InTime, Timeout
<1>3. TablesOK'
  BY DEF Timely, TablesOK
<1> QED
  BY <1>2, <1>3 DEF Timely

LEMMA SynchronizeTimely ==
    ASSUME Timely, NEW reached \in SUBSET Places, SynchronizeTargets(reached)
    PROVE  Timely'
<1>1. phase = "rebuilt" /\ phase' = "plan" /\ UNCHANGED <<seen, made>>
  BY DEF SynchronizeTargets, gameVars
<1>2. ASSUME NEW p \in Places
      PROVE  /\ orders'[p] \in Order \cup Ended \cup {Vacant}
             /\ orders'[p] = orders[p] \/ ~Captured(p)'
  <2>1. orders[p] \in Order \cup Ended \cup {Vacant}
    BY DEF Timely, TablesOK, Rows
  <2>2. CASE p \in reached
    <3>1. orders'[p] = [state |-> "Completed"]
      BY <2>2 DEF SynchronizeTargets
    <3> QED
      BY <3>1 DEF Captured, Ended
  <2>3. CASE p \notin reached
    BY <2>1, <2>3 DEF SynchronizeTargets
  <2> QED
    BY <2>2, <2>3
<1>3. orders' \in Rows
  BY <1>2 DEF SynchronizeTargets, Rows
<1> QED
  BY <1>1, <1>2, <1>3, PlanTimely

LEMMA EnqueueTimely ==
    ASSUME Timely, NEW p \in Places, NEW a \in Actors, NEW k \in Kinds, NEW r \in Priorities,
           EnqueueReady(p, a, k, r)
    PROVE  Timely'
<1>1. phase = "plan" /\ phase' = "plan" /\ UNCHANGED <<seen, made>>
  BY DEF EnqueueReady, gameVars
<1>2. orders \in Rows
  BY DEF Timely, TablesOK
<1>3. [state |-> "Ready", actor |-> a, kind |-> k, priority |-> r, attempts |-> 0,
       timed |-> FALSE, age |-> 0, finishedAt |-> 0, unfinishedAt |-> 0] \in Order
  BY DEF Order
<1>4. orders' \in Rows
  BY <1>2, <1>3 DEF EnqueueReady, Rows
<1>5. ASSUME NEW q \in Places
      PROVE  orders'[q] = orders[q] \/ ~Captured(q)'
  <2>1. CASE q = p
    BY <1>2, <2>1 DEF EnqueueReady, Rows, Captured
  <2>2. CASE q # p
    BY <1>2, <2>2 DEF EnqueueReady, Rows
  <2> QED
    BY <2>1, <2>2
<1> QED
  BY <1>1, <1>4, <1>5, PlanTimely

(* DrainReadyIntents marks ready orders only.                               *)
LEMMA DrainTakesReady ==
    ASSUME NEW queue \in Queues, DrainReadyIntents(queue), NEW p \in Places
    PROVE  \/ orders'[p] = orders[p]
           \/ orders[p].state = "Ready" /\ orders'[p] = [orders[p] EXCEPT !.state = "Dispatched"]
<1>1. {queue[n] : n \in DOMAIN queue} = {q \in Places : orders[q].state = "Ready"}
  BY DEF DrainReadyIntents
<1>2. PICK m \in Nat : queue \in [1 .. m -> Places]
  BY DEF Queues
<1> DEFINE last == IF Len(queue) < DrainBudget THEN Len(queue) ELSE DrainBudget
           taken == {queue[n] : n \in 1 .. last}
<1>3. Len(queue) = m /\ DOMAIN queue = 1 .. m
  BY <1>2
<1>4. last \in Nat /\ last <= m
  BY <1>3, <1>2, DispatchAssumption
<1>5. taken \subseteq {queue[n] : n \in DOMAIN queue}
  BY <1>3, <1>4
<1>6. orders' = [q \in Places |-> IF q \in taken THEN [orders[q] EXCEPT !.state = "Dispatched"] ELSE orders[q]]
  BY DEF DrainReadyIntents
<1> QED
  BY <1>1, <1>5, <1>6

LEMMA DrainTimely ==
    ASSUME Timely, NEW queue \in Queues, DrainReadyIntents(queue)
    PROVE  Timely'
<1>1. phase = "plan" /\ phase' = "resolve" /\ UNCHANGED <<seen, made>>
  BY DEF DrainReadyIntents, gameVars
<1>2. orders \in Rows
  BY DEF Timely, TablesOK
<1>3. ASSUME NEW p \in Places
      PROVE  /\ orders'[p] \in Order \cup Ended \cup {Vacant}
             /\ orders'[p] = orders[p] \/ ~Captured(p)' \/ orders'[p].age = 0
  <2>1. orders[p] \in Order \cup Ended \cup {Vacant}
    BY <1>2 DEF Rows
  <2>2. CASE orders[p].state = "Ready" /\ orders'[p] = [orders[p] EXCEPT !.state = "Dispatched"]
    <3>1. orders[p] \in Order
      BY <2>1, <2>2, RowTypes
    <3>2. orders[p].state = "Ready" /\ orders[p].attempts = 0
      BY <2>2, <3>1 DEF Order
    <3>3. orders'[p] = [orders[p] EXCEPT !.state = "Dispatched"]
      BY <2>2
    <3>4. orders'[p] \in Order
      BY <3>1, <3>3 DEF Order
    <3>5. orders'[p].attempts = 0
      BY <3>1, <3>2, <3>3 DEF Order
    <3> QED
      BY <3>4, <3>5 DEF Captured
  <2>3. CASE orders'[p] = orders[p]
    BY <2>1, <2>3
  <2> QED
    BY <2>2, <2>3, DrainTakesReady
<1>4. orders' \in Rows
  BY <1>3 DEF DrainReadyIntents, Rows
<1> QED
  BY <1>1, <1>3, <1>4, PlanTimely

LEMMA CaptureTimely ==
    ASSUME Timely, Capture
    PROVE  Timely'
<1>1. phase = "capture" /\ phase' = "game" /\ UNCHANGED <<seen, made>>
  BY DEF Capture, gameVars
<1>2. ASSUME NEW p \in Places
      PROVE  /\ orders'[p] \in Order \cup Ended \cup {Vacant}
             /\ orders'[p] = orders[p] \/ orders'[p].age = 0
  <2>1. orders[p] \in Order \cup Ended \cup {Vacant}
    BY DEF Timely, TablesOK, Rows
  <2>2. CASE Fresh(orders[p])
    <3>1. orders[p] \in Order
      BY <2>1, <2>2, RowTypes DEF Fresh
    <3>2. seen[orders[p].kind] \in [finished : Nat, unfinished : Nat]
      BY <3>1 DEF Timely, TablesOK, Counts, Order
    <3>3. orders'[p] = [orders[p] EXCEPT !.attempts = 1, !.timed = ~zero, !.age = 0,
                           !.finishedAt = seen[orders[p].kind].finished,
                           !.unfinishedAt = seen[orders[p].kind].unfinished]
      BY <2>2 DEF Capture
    <3>4. orders[p].state = "Dispatched"
      BY <2>2 DEF Fresh
    <3> DEFINE f == seen[orders[p].kind].finished
               u == seen[orders[p].kind].unfinished
    <3>5. f \in Nat /\ u \in Nat
      BY <3>2
    <3> HIDE DEF f, u
    <3>6. orders'[p] = [orders[p] EXCEPT !.attempts = 1, !.timed = ~zero, !.age = 0, !.finishedAt = f, !.unfinishedAt = u]
      BY <3>3 DEF f, u
    <3>7. orders'[p].age = 0
      BY <3>1, <3>6 DEF Order
    <3>8. orders'[p] \in Order
      <4> DEFINE o == orders[p]
      <4> HIDE DEF o
      <4>1. o \in Order /\ o.state = "Dispatched"
        BY <3>1, <3>4 DEF o
      <4>2. orders'[p] = [state |-> o.state, actor |-> o.actor, kind |-> o.kind, priority |-> o.priority,
                          attempts |-> 1, timed |-> ~zero, age |-> 0, finishedAt |-> f, unfinishedAt |-> u]
        BY <3>6, <4>1 DEF Order, o
      <4> QED
        BY <3>5, <4>1, <4>2 DEF Order
    <3> QED
      BY <3>7, <3>8
  <2>3. CASE ~Fresh(orders[p])
    BY <2>1, <2>3 DEF Capture
  <2> QED
    BY <2>2, <2>3
<1>3. orders' \in Rows
  BY <1>2 DEF Capture, Rows
<1> QED
  BY <1>1, <1>2, <1>3, PlanTimely
-----------------------------------------------------------------------------
LEMMA NextTimely ==
    ASSUME Timely, [Next]_dispatchVars
    PROVE  Timely'
<1>1. CASE UNCHANGED dispatchVars
  BY <1>1, GameKeepsTimely DEF dispatchVars, gameVars, Timely, TablesOK
<1>2. CASE \/ \E a \in Actors : Begins(a) \/ Trains(a) \/ Stops(a) \/ Dies(a) \/ Arrives(a)
           \/ \E k \in Kinds : Finishes(k) \/ \E part \in {"finished", "unfinished"} : Falls(k, part)
  <2>1. made' \in Counts /\ UNCHANGED <<phase, orders, seen>>
    BY <1>2, GameCounts DEF Timely, TablesOK
  <2> QED
    BY <2>1, GameKeepsTimely
<1>3. ASSUME NEW p \in Places, NEW a \in Actors, NEW k \in Kinds, NEW r \in Priorities,
             EnqueueReady(p, a, k, r)
      PROVE  Timely'
  BY <1>3, EnqueueTimely
<1>4. ASSUME NEW a \in Actors, Relieve(a)
      PROVE  Timely'
  BY <1>4, GameKeepsTimely DEF Relieve, gameVars, Timely, TablesOK
<1>5. CASE UpdateDispatchedSchedulerOrders
  BY <1>5, UpdateTimely
<1>6. ASSUME NEW compacts \in BOOLEAN, Rebuild(compacts)
      PROVE  Timely'
  BY <1>6, RebuildTimely
<1>7. ASSUME NEW reached \in SUBSET Places, SynchronizeTargets(reached)
      PROVE  Timely'
  BY <1>7, SynchronizeTimely
<1>8. ASSUME NEW queue \in Queues, DrainReadyIntents(queue)
      PROVE  Timely'
  BY <1>8, DrainTimely
<1>9. ASSUME NEW refused \in SUBSET DOMAIN buffer, ResolveAndExecute(refused)
      PROVE  Timely'
  <2>1. phase # "maintained" /\ phase' # "maintained" /\ UNCHANGED <<orders, seen, made>>
    BY <1>9 DEF ResolveAndExecute
  <2> QED
    BY <2>1, PlanTimely DEF Timely, TablesOK
<1>10. CASE Capture
  BY <1>10, CaptureTimely
<1> QED
  BY <1>1, <1>2, <1>3, <1>4, <1>5, <1>6, <1>7, <1>8, <1>9, <1>10 DEF Next, FrameStep

(* UpdateDispatchedSchedulerOrders gives every dispatched order up in time, *)
(* whatever happens to its actor, its command or its intent: no captured    *)
(* order, but those of game loop 0, is older than its timeout by a frame.   *)
THEOREM DispatchedEndInTime == Spec => []GivenUpInTime
<1>1. Timely => GivenUpInTime
  <2> SUFFICES ASSUME Timely, NEW p \in Places, Captured(p), orders[p].timed
               PROVE  orders[p].age < Timeout(orders[p]) + StepSize
    BY DEF GivenUpInTime
  <2>1. orders[p] \in Order
    BY RowTypes DEF Timely, TablesOK, Rows, Captured
  <2>2. orders[p].age \in Nat
    BY <2>1 DEF Order
  <2> QED
    BY <2>2, TimeoutType, DispatchAssumption DEF Timely, InTime
<1> QED
  BY <1>1, InitTimely, NextTimely, PTL DEF Spec
-----------------------------------------------------------------------------
(* The stages of the orders: every step moves each by one stage at most.    *)
Moves(p) ==
    \/ Stage(orders'[p]) = Stage(orders[p])
    \/ Lifecycle!Advance(Stage(orders[p]), Stage(orders'[p]))

(* The stage of a row is its state unless it was captured without its time. *)
LEMMA StageOf ==
    ASSUME NEW o \in Order \cup Ended \cup {Vacant}
    PROVE  /\ Stage(o) \in Lifecycle!Stages
           /\ o.state # "Dispatched" => Stage(o) = o.state
           /\ o.state = "Dispatched" => Stage(o) \in {"Dispatched", "Untimed"}
BY RowTypes DEF Stage, Lifecycle!Stages, Lifecycle!Ends

LEMMA StepMoves ==
    ASSUME Timely, Next, NEW p \in Places
    PROVE  Moves(p)
<1> USE DEF Moves, Lifecycle!Advance, Lifecycle!Ends
<1>1. orders[p] \in Order \cup Ended \cup {Vacant} /\ orders \in Rows
  BY DEF Timely, TablesOK, Rows
<1>2. CASE UNCHANGED orders
  BY <1>2
<1>3. CASE \/ \E a \in Actors : Begins(a) \/ Trains(a) \/ Stops(a) \/ Dies(a) \/ Arrives(a) \/ Relieve(a)
           \/ \E k \in Kinds : Finishes(k) \/ \E part \in {"finished", "unfinished"} : Falls(k, part)
           \/ \E refused \in SUBSET DOMAIN buffer : ResolveAndExecute(refused)
  <2>1. UNCHANGED orders
    BY <1>3 DEF Begins, Trains, Stops, Dies, Arrives, Relieve, Finishes, Falls, ResolveAndExecute
  <2> QED
    BY <1>2, <2>1
<1>4. ASSUME NEW q \in Places, NEW a \in Actors, NEW k \in Kinds, NEW r \in Priorities,
             EnqueueReady(q, a, k, r)
      PROVE  Moves(p)
  BY <1>1, <1>4 DEF EnqueueReady, Rows, Vacant, Stage
<1>5. CASE UpdateDispatchedSchedulerOrders
  <2>1. CASE orders[p].state = "Dispatched"
    <3>1. orders'[p] = Maintained(orders[p])
      BY <1>5, <2>1 DEF UpdateDispatchedSchedulerOrders
    <3>2. orders'[p] = orders[p] \/ orders'[p].state \in {"Completed", "Aborted"}
      BY <3>1 DEF Maintained, Outcome
    <3> QED
      BY <1>1, <2>1, <3>2, StageOf DEF Stage
  <2>2. CASE orders[p].state # "Dispatched"
    BY <1>5, <2>2 DEF UpdateDispatchedSchedulerOrders
  <2> QED
    BY <2>1, <2>2
<1>6. ASSUME NEW compacts \in BOOLEAN, Rebuild(compacts)
      PROVE  Moves(p)
  <2>1. \/ orders'[p] = Vacant /\ orders[p].state \in {"Completed", "Aborted"}
        \/ Captured(p) /\ orders'[p] = LaterLoop(orders[p])
        \/ orders'[p] = orders[p]
    BY <1>6 DEF Rebuild
  <2>2. CASE Captured(p) /\ orders'[p] = LaterLoop(orders[p])
    <3>1. orders[p] \in Order
      BY <1>1, <2>2, RowTypes DEF Captured
    <3>2. /\ orders'[p].state = orders[p].state /\ orders'[p].attempts = orders[p].attempts
          /\ orders'[p].timed = orders[p].timed
      BY <2>2, <3>1 DEF LaterLoop, Order
    <3> QED
      BY <3>2 DEF Stage
  <2> QED
    BY <2>1, <2>2 DEF Vacant, Stage
<1>7. ASSUME NEW reached \in SUBSET Places, SynchronizeTargets(reached)
      PROVE  Moves(p)
  <2>1. \/ orders'[p] = orders[p]
        \/ Pending(p) /\ orders'[p] = [state |-> "Completed"]
    BY <1>7 DEF SynchronizeTargets
  <2> QED
    BY <1>1, <2>1, StageOf DEF Pending, Stage
<1>8. ASSUME NEW queue \in Queues, DrainReadyIntents(queue)
      PROVE  Moves(p)
  <2>1. \/ orders'[p] = orders[p]
        \/ orders[p].state = "Ready" /\ orders'[p] = [orders[p] EXCEPT !.state = "Dispatched"]
    BY <1>8, DrainTakesReady
  <2>2. CASE orders[p].state = "Ready" /\ orders'[p] = [orders[p] EXCEPT !.state = "Dispatched"]
    <3>1. orders[p] \in Order
      BY <1>1, <2>2, RowTypes
    <3>2. orders'[p].state = "Dispatched" /\ orders'[p].attempts = 0
      BY <2>2, <3>1 DEF Order
    <3> QED
      BY <2>2, <3>2 DEF Stage
  <2> QED
    BY <2>1, <2>2
<1>9. CASE Capture
  <2>1. CASE Fresh(orders[p])
    <3> DEFINE o == orders[p]
               f == seen[o.kind].finished
               u == seen[o.kind].unfinished
    <3>1. o \in Order /\ o.state = "Dispatched" /\ o.attempts = 0
      BY <1>1, <2>1, RowTypes DEF Fresh
    <3>2. orders'[p] = [o EXCEPT !.attempts = 1, !.timed = ~zero, !.age = 0, !.finishedAt = f, !.unfinishedAt = u]
      BY <1>9, <2>1 DEF Capture
    <3> HIDE DEF o, f, u
    <3>3. orders'[p].state = "Dispatched" /\ orders'[p].attempts = 1 /\ (orders'[p].timed <=> ~zero)
      BY <3>1, <3>2 DEF Order
    <3>4. Stage(orders[p]) = "Dispatched"
      BY <3>1 DEF Stage, o
    <3>5. /\ zero => Stage(orders'[p]) = "Untimed"
          /\ ~zero => Stage(orders'[p]) = "Dispatched"
      BY <3>3 DEF Stage
    <3>6. ~zero'
      BY <1>9 DEF Capture
    <3> QED
      BY <3>4, <3>5, <3>6
  <2>2. CASE ~Fresh(orders[p])
    BY <1>9, <2>2 DEF Capture
  <2> QED
    BY <2>1, <2>2
<1> QED
  BY <1>3, <1>4, <1>5, <1>6, <1>7, <1>8, <1>9 DEF Next, FrameStep

(* The frame of game loop 0 is over with its capture and does not come back. *)
LEMMA ZeroEnds == Next => zero' \in {zero, FALSE}
BY DEF Next, FrameStep, Begins, Trains, Stops, Dies, Arrives, Finishes, Falls, EnqueueReady, Relieve,
       UpdateDispatchedSchedulerOrders, Rebuild, SynchronizeTargets, DrainReadyIntents,
       ResolveAndExecute, Capture

(* The scheduler keeps every order to its stages: whatever the game does,   *)
(* none returns from its end, is sent without having been ready, is left    *)
(* without its time but with the frame of game loop 0, or leaves the table  *)
(* before it has ended.                                                     *)
THEOREM OrdersGoStagewise == Spec => Lifecycle!Stagewise
<1> DEFINE lives == <<[p \in Places |-> Stage(orders[p])], zero>>
<1>1. Init => Lifecycle!Init
  BY DEF Init, Vacant, Stage, Lifecycle!Init
<1>2. ASSUME Timely, Timely', [Next]_dispatchVars
      PROVE  Lifecycle!Next \/ UNCHANGED lives
  <2>1. CASE UNCHANGED dispatchVars
    BY <2>1 DEF dispatchVars
  <2>2. CASE Next
    <3>1. \A p \in Places : Moves(p)
      BY <1>2, <2>2, StepMoves
    <3>2. \A p \in Places : Stage(orders'[p]) \in Lifecycle!Stages
      BY <1>2, StageOf DEF Timely, TablesOK, Rows
    <3> QED
      BY <2>2, <3>1, <3>2, ZeroEnds DEF Lifecycle!Next, Moves
  <2> QED
    BY <1>2, <2>1, <2>2
<1>3. Spec => []Timely
  BY InitTimely, NextTimely, PTL DEF Spec
<1> QED
  BY <1>1, <1>2, <1>3, PTL DEF Spec, Lifecycle!Stagewise, Lifecycle!stageVars
-----------------------------------------------------------------------------
(* The other variables, and when an order may be sent but not yet captured. *)
LEMMA TypesTimely == ASSUME TypeOK PROVE TablesOK
BY DEF TypeOK, TablesOK, Rows

(* A frame without a row that is sent and not captured.                     *)
LEMMA NoneFresh ==
    ASSUME TypeOK, phase \notin {"resolve", "capture"}, NEW p \in Places
    PROVE  ~Fresh(orders[p])
BY DEF TypeOK

LEMMA GameKeepsTypes ==
    ASSUME TypeOK, TablesOK',
           \/ \E a \in Actors : Begins(a) \/ Trains(a) \/ Stops(a) \/ Dies(a) \/ Arrives(a)
           \/ \E k \in Kinds : Finishes(k) \/ \E part \in {"finished", "unfinished"} : Falls(k, part)
    PROVE  TypeOK'
<1> DEFINE Same == UNCHANGED <<phase, zero, orders, buffer, seen>>
           NewsOK == news' \in [Places -> {"none", "begun", "shown"}]
           LostOK == undone' \subseteq Places
           UnitsOK == alive' \subseteq Actors /\ doing' \in [Actors -> Kinds \cup {Nothing}]
<1>1. \A K : Reported(K) => NewsOK
  BY DEF TypeOK, Reported
<1>2. \A K : Undone(K) => LostOK
  BY DEF TypeOK, Undone, Dispatched
<1>3. (UNCHANGED news => NewsOK) /\ (UNCHANGED undone => LostOK)
  BY DEF TypeOK
<1> HIDE DEF NewsOK, LostOK
<1>4. Same /\ NewsOK /\ LostOK /\ UnitsOK
  <2>1. ASSUME NEW a \in Actors, Begins(a) \/ Trains(a) \/ Stops(a) \/ Dies(a) \/ Arrives(a)
        PROVE  Same /\ NewsOK /\ LostOK /\ UnitsOK
    BY <1>1, <1>2, <1>3, <2>1 DEF Begins, Trains, Stops, Dies, Arrives, history, TypeOK
  <2>2. ASSUME NEW k \in Kinds, Finishes(k) \/ \E part \in {"finished", "unfinished"} : Falls(k, part)
        PROVE  Same /\ NewsOK /\ LostOK /\ UnitsOK
    BY <1>1, <1>2, <1>3, <2>2 DEF Finishes, Falls, TypeOK
  <2> QED
    BY <2>1, <2>2
<1>5. \A p \in Places : Fresh(orders'[p]) => phase' \in {"resolve", "capture"}
  BY <1>4 DEF TypeOK, Fresh
<1> QED
  BY <1>4, <1>5 DEF TypeOK, TablesOK, Rows, NewsOK, LostOK

(* Whatever the orders become, none that is sent and not captured comes     *)
(* back before the next drain.                                              *)
LEMMA FrameKeepsTypes ==
    ASSUME TypeOK, TablesOK', zero' \in BOOLEAN, UNCHANGED <<alive, doing>>,
           phase' \in {"game", "maintained", "rebuilt", "plan", "resolve", "capture"},
           buffer' \in Seq(Intent),
           news' \in [Places -> {"none", "begun", "shown"}], undone' \subseteq Places,
           phase' \in {"resolve", "capture"} \/ \A p \in Places : ~Fresh(orders'[p])
    PROVE  TypeOK'
BY DEF TypeOK, TablesOK, Rows

LEMMA FrameTypes ==
    ASSUME TypeOK, TablesOK',
           \/ UpdateDispatchedSchedulerOrders
           \/ \E compacts \in BOOLEAN : Rebuild(compacts)
           \/ \E reached \in SUBSET Places : SynchronizeTargets(reached)
           \/ Capture
    PROVE  TypeOK'
<1> USE DEF gameVars, history
<1>1. CASE UpdateDispatchedSchedulerOrders
  <2>1. ASSUME NEW p \in Places
        PROVE  ~Fresh(orders'[p])
    <3>1. ~Fresh(orders[p]) /\ orders'[p] \in {orders[p], Maintained(orders[p])}
      BY <1>1, NoneFresh DEF UpdateDispatchedSchedulerOrders
    <3>2. Maintained(orders[p]) = orders[p] \/ Maintained(orders[p]).state # "Dispatched"
      BY DEF Maintained, Outcome
    <3> QED
      BY <3>1, <3>2 DEF Fresh
  <2> QED
    BY <1>1, <2>1, FrameKeepsTypes DEF UpdateDispatchedSchedulerOrders, TypeOK
<1>2. ASSUME NEW compacts \in BOOLEAN, Rebuild(compacts)
      PROVE  TypeOK'
  <2>1. ASSUME NEW p \in Places
        PROVE  ~Fresh(orders'[p])
    <3>1. ~Fresh(orders[p])
      BY <1>2, NoneFresh DEF Rebuild
    <3>2. \/ orders'[p] = Vacant
          \/ Captured(p) /\ orders'[p] = LaterLoop(orders[p])
          \/ orders'[p] = orders[p]
      BY <1>2 DEF Rebuild
    <3>3. CASE Captured(p) /\ orders'[p] = LaterLoop(orders[p])
      <4>1. orders[p] \in Order
        BY <3>3, RowTypes DEF TypeOK, Captured
      <4> QED
        BY <3>3, <4>1 DEF LaterLoop, Fresh, Captured, Order
    <3> QED
      BY <3>1, <3>2, <3>3 DEF Fresh, Vacant
  <2>2. news' \in [Places -> {"none", "begun", "shown"}] /\ undone' \subseteq Places
    BY <1>2 DEF Rebuild, TypeOK
  <2> QED
    BY <1>2, <2>1, <2>2, FrameKeepsTypes DEF Rebuild, TypeOK
<1>3. ASSUME NEW reached \in SUBSET Places, SynchronizeTargets(reached)
      PROVE  TypeOK'
  <2>1. ASSUME NEW p \in Places
        PROVE  ~Fresh(orders'[p])
    BY <1>3, NoneFresh DEF SynchronizeTargets, Fresh
  <2> QED
    BY <1>3, <2>1, FrameKeepsTypes DEF SynchronizeTargets, TypeOK
<1>4. CASE Capture
  <2>1. ASSUME NEW p \in Places
        PROVE  ~Fresh(orders'[p])
    <3>1. CASE Fresh(orders[p])
      <4> DEFINE o == orders[p]
                 f == seen[o.kind].finished
                 u == seen[o.kind].unfinished
      <4>1. o \in Order
        BY <3>1, RowTypes DEF TypeOK, Fresh
      <4>2. orders'[p] = [o EXCEPT !.attempts = 1, !.timed = ~zero, !.age = 0, !.finishedAt = f, !.unfinishedAt = u]
        BY <1>4, <3>1 DEF Capture
      <4> HIDE DEF o, f, u
      <4>3. orders'[p].attempts = 1
        BY <4>1, <4>2 DEF Order
      <4> QED
        BY <4>3 DEF Fresh
    <3>2. CASE ~Fresh(orders[p])
      BY <1>4, <3>2 DEF Capture
    <3> QED
      BY <3>1, <3>2
  <2> QED
    BY <1>4, <2>1, FrameKeepsTypes DEF Capture, TypeOK
<1> QED
  BY <1>1, <1>2, <1>3, <1>4

LEMMA PlanTypes ==
    ASSUME TypeOK, TablesOK',
           \/ \E p \in Places, a \in Actors, k \in Kinds, r \in Priorities : EnqueueReady(p, a, k, r)
           \/ \E a \in Actors : Relieve(a)
    PROVE  TypeOK'
<1> USE DEF gameVars, history
<1>1. ASSUME NEW p \in Places, NEW a \in Actors, NEW k \in Kinds, NEW r \in Priorities,
             EnqueueReady(p, a, k, r)
      PROVE  TypeOK'
  <2>1. ASSUME NEW q \in Places
        PROVE  ~Fresh(orders'[q])
    <3>1. ~Fresh(orders[q])
      BY <1>1, NoneFresh DEF EnqueueReady
    <3> QED
      BY <1>1, <3>1 DEF EnqueueReady, Fresh, TypeOK
  <2> QED
    BY <1>1, <2>1, FrameKeepsTypes DEF EnqueueReady, TypeOK
<1>2. ASSUME NEW a \in Actors, Relieve(a)
      PROVE  TypeOK'
  <2> DEFINE top == CHOOSE r \in Priorities : \A s \in Priorities : s <= r
             move == [actor |-> a, domain |-> "Recovery", what |-> "move", priority |-> top]
  <2>1. top \in Priorities
    BY DispatchAssumption
  <2> HIDE DEF top
  <2>2. move \in Intent
    BY <2>1, DispatchAssumption DEF Intent, DomainOrder
  <2>3. buffer' = Append(buffer, move)
    BY <1>2 DEF Relieve, top
  <2> HIDE DEF move
  <2>4. buffer' \in Seq(Intent)
    BY <2>2, <2>3 DEF TypeOK
  <2>5. \A p \in Places : ~Fresh(orders'[p])
    BY <1>2, NoneFresh DEF Relieve
  <2> QED
    BY <1>2, <2>4, <2>5, FrameKeepsTypes DEF Relieve, TypeOK
<1> QED
  BY <1>1, <1>2

(* What is drained is ready, and no more than the queue holds.              *)
LEMMA DrainTypes ==
    ASSUME TypeOK, TablesOK', NEW queue \in Queues, DrainReadyIntents(queue)
    PROVE  TypeOK'
<1> DEFINE ready == {p \in Places : orders[p].state = "Ready"}
           last == IF Len(queue) < DrainBudget THEN Len(queue) ELSE DrainBudget
           drained == {queue[n] : n \in 1 .. last}
           added == [n \in 1 .. Cardinality(drained) |-> IntentFor(orders[queue[n]])]
<1>1. {queue[n] : n \in DOMAIN queue} = ready /\ Len(queue) = Cardinality(ready)
  BY DEF DrainReadyIntents
<1>2. PICK m \in Nat : queue \in [1 .. m -> Places]
  BY DEF Queues
<1>3. Len(queue) = m /\ DOMAIN queue = 1 .. m
  BY <1>2
<1>4. last \in Nat /\ last <= m
  BY <1>3, <1>2, DispatchAssumption
<1>5. drained \subseteq ready
  BY <1>1, <1>3, <1>4
<1>6. IsFiniteSet(ready)
  <2>1. queue \in [1 .. m -> ready] /\ \A p \in ready : \E n \in 1 .. m : queue[n] = p
    BY <1>1, <1>2, <1>3
  <2> HIDE DEF ready
  <2>2. queue \in Surjection(1 .. m, ready)
    BY <2>1 DEF Surjection
  <2> QED
    BY <2>2, FS_NatSurjection DEF ExistsSurjection
<1>7. Cardinality(drained) \in Nat /\ Cardinality(drained) <= m
  BY <1>1, <1>3, <1>5, <1>6, FS_Subset, FS_CardinalityType
<1>8. buffer' = buffer \o added /\ phase' = "resolve" /\ UNCHANGED <<zero, alive, doing, news, undone>>
  BY DEF DrainReadyIntents, gameVars, history
<1> HIDE DEF last
<1>9. ASSUME NEW n \in 1 .. Cardinality(drained)
      PROVE  IntentFor(orders[queue[n]]) \in Intent
  <2> DEFINE c == Cardinality(drained)
  <2>1. queue[n] \in ready
    <3>1. n \in 1 .. c /\ c \in Nat /\ c <= m
      BY <1>7
    <3> HIDE DEF c
    <3>2. n \in DOMAIN queue
      BY <1>3, <3>1
    <3> QED
      BY <1>1, <3>2
  <2>2. orders[queue[n]] \in Order
    BY <2>1, RowTypes DEF TypeOK
  <2> QED
    BY <2>2, DispatchAssumption DEF IntentFor, Intent, Order, DomainOrder
<1>10. added \in Seq(Intent)
  <2> DEFINE c == Cardinality(drained)
  <2>1. c \in Nat /\ \A n \in 1 .. c : IntentFor(orders[queue[n]]) \in Intent
    BY <1>7, <1>9
  <2> HIDE DEF c
  <2>2. [n \in 1 .. c |-> IntentFor(orders[queue[n]])] \in Seq(Intent)
    BY <2>1
  <2> QED
    BY <2>2 DEF c
<1> HIDE DEF added
<1>11. buffer' \in Seq(Intent)
  BY <1>8, <1>10 DEF TypeOK
<1> QED
  BY <1>8, <1>11, FrameKeepsTypes DEF TypeOK

LEMMA ResolveTypes ==
    ASSUME TypeOK, TablesOK', NEW refused \in SUBSET DOMAIN buffer, ResolveAndExecute(refused)
    PROVE  TypeOK'
<1>1. phase' = "capture" /\ buffer' = <<>> /\ UNCHANGED <<zero, orders, seen, alive, made>>
  BY DEF ResolveAndExecute
<1>2. doing' \in [Actors -> Kinds \cup {Nothing}]
  <2>1. PICK told, f : doing' = [a \in Actors |-> IF a \notin told THEN doing[a]
                                   ELSE IF f[a].what \in Kinds THEN f[a].what ELSE Nothing]
    <3> DEFINE sound == {<<i.actor, i.what>> : i \in {buffer[n] : n \in DOMAIN buffer \ refused}}
               commands == Resolve(buffer, {s \in sound : s[1] \in alive})
               heard == {commands[n].actor : n \in DOMAIN commands}
               command(a) == CHOOSE i \in {commands[n] : n \in DOMAIN commands} : i.actor = a
               g == [a \in Actors |-> command(a)]
    <3>1. doing' = [a \in Actors |-> IF a \notin heard THEN doing[a]
                       ELSE IF command(a).what \in Kinds THEN command(a).what ELSE Nothing]
      BY DEF ResolveAndExecute
    <3>2. \A a \in Actors : g[a] = command(a)
      OBVIOUS
    <3> HIDE DEF heard, command, g
    <3>3. doing' = [a \in Actors |-> IF a \notin heard THEN doing[a]
                       ELSE IF g[a].what \in Kinds THEN g[a].what ELSE Nothing]
      BY <3>1, <3>2
    <3> QED
      BY <3>3
  <2> QED
    BY <2>1 DEF TypeOK
<1>3. news' \in [Places -> {"none", "begun", "shown"}] /\ undone' \subseteq Places
  <2>1. \A K : Reported(K) => news' \in [Places -> {"none", "begun", "shown"}]
    BY DEF Reported, TypeOK
  <2>2. \A K : Undone(K) => undone' \subseteq Places
    BY DEF Undone, Dispatched, TypeOK
  <2>3. \E K, L : Reported(K) /\ Undone(L)
    BY DEF ResolveAndExecute
  <2> QED
    BY <2>1, <2>2, <2>3
<1> QED
  BY <1>1, <1>2, <1>3 DEF TypeOK, TablesOK, Rows

LEMMA NextTypes ==
    ASSUME TypeOK, TablesOK', [Next]_dispatchVars
    PROVE  TypeOK'
<1>1. CASE UNCHANGED dispatchVars
  BY <1>1 DEF dispatchVars, gameVars, history, TypeOK, Fresh
<1>2. CASE Next
  BY <1>2, GameKeepsTypes, PlanTypes, FrameTypes, DrainTypes, ResolveTypes DEF Next, FrameStep
<1> QED
  BY <1>1, <1>2

(* The rows, the counts and the buffer stay what they are declared to be,   *)
(* and outside the stretch from the drain to the capture no order has been  *)
(* sent without its counts and its game loop having been written down.      *)
THEOREM DispatchTypeCorrect == Spec => []TypeOK
<1>1. Init => TypeOK
  BY DEF Init, TypeOK, Vacant, Fresh, Counts
<1> QED
  BY <1>1, InitTimely, NextTimely, NextTypes, PTL DEF Spec, Timely
-----------------------------------------------------------------------------
(* What a frame decides for an order, and what the game did for it.  The    *)
(* counts an order is measured against are those it was captured with, and  *)
(* until then those of the descriptor.                                      *)
Before(o) ==
    IF o.attempts > 0 THEN [finished |-> o.finishedAt, unfinished |-> o.unfinishedAt]
    ELSE seen[o.kind]

(* The counts compare by what is finished and by what there is in all: a    *)
(* unit that is finished moves from one to the other and takes from neither. *)
AtMost(c, b) == c.finished <= b.finished /\ c.unfinished <= b.unfinished
AtLeast(c, b) == c.finished >= b.finished /\ c.finished + c.unfinished >= b.finished + b.unfinished
Beyond(c, b) == c.finished > b.finished \/ c.finished + c.unfinished > b.finished + b.unfinished

(* News is neither early nor lost, but for what was undone.                 *)
Told(p) ==
    LET shown == Shown[orders[p].kind]
        inDescriptor == seen[orders[p].kind]
        before == Before(orders[p])
    IN  /\ news[p] = "none" => AtMost(shown, before)
        /\ news[p] # "shown" => AtMost(inDescriptor, before)
        /\ news[p] = "shown" => orders[p].attempts > 0
        /\ p \notin undone => AtLeast(shown, before)
        /\ p \notin undone /\ news[p] # "none" => Beyond(shown, before)
        /\ p \notin undone /\ news[p] = "shown" => Beyond(inDescriptor, before)

Heard ==
    /\ phase \in {"rebuilt", "plan", "resolve"} => seen = Shown
    /\ \A p \in Places : orders[p].state \in {"none", "Ready"} => news[p] = "none"
    /\ \A p \in Places : orders[p].state = "Dispatched" => Told(p)

(* What a step of the game, or a command, does to the counts of the frame:  *)
(* where nothing is reported nothing is more, where nothing is undone       *)
(* nothing is less, and where something is only reported there is more.     *)
Comes(K, L) ==
    \A k \in Kinds :
        /\ k \notin K => AtMost(Shown'[k], Shown[k])
        /\ k \notin L => AtLeast(Shown'[k], Shown[k])
        /\ k \in K \ L => Beyond(Shown'[k], Shown[k])

LEMMA BeforeType ==
    ASSUME seen \in Counts, NEW o \in Order
    PROVE  Before(o) \in Count
BY DEF Before, Count, Counts, Order

LEMMA ComesToldOf ==
    ASSUME TypeOK, TypeOK', NEW K, NEW L, Comes(K, L), Reported(K), Undone(L),
           UNCHANGED <<orders, seen>>, NEW p \in Places, orders[p].state = "Dispatched", Told(p)
    PROVE  Told(p)'
<1> DEFINE k == orders[p].kind
           b == Before(orders[p])
           c == Shown[k]
           d == Shown'[k]
           e == seen[k]
<1>1. orders[p] \in Order /\ k \in Kinds
  BY RowTypes DEF TypeOK, Order
<1>2. b \in Count /\ c \in Count /\ d \in Count /\ e \in Count
  BY <1>1, BeforeType, ShownType DEF TypeOK, Counts, Count
<1>3. /\ Before(orders[p])' = b
      /\ Shown'[orders'[p].kind] = d /\ seen'[orders'[p].kind] = e
      /\ orders'[p].attempts = orders[p].attempts
  BY DEF Before
<1>4. /\ k \notin K => AtMost(d, c)
      /\ k \notin L => AtLeast(d, c)
      /\ k \in K \ L => Beyond(d, c)
  BY <1>1 DEF Comes
<1>5. /\ k \notin K => news'[p] = news[p]
      /\ k \in K => news'[p] = IF news[p] = "none" THEN "begun" ELSE news[p]
      /\ k \in L => p \in undone'
      /\ p \in undone => p \in undone'
  BY DEF Reported, Undone, Dispatched
<1>6. /\ news[p] = "none" => AtMost(c, b)
      /\ news[p] # "shown" => AtMost(e, b)
      /\ news[p] = "shown" => orders[p].attempts > 0
      /\ p \notin undone => AtLeast(c, b)
      /\ p \notin undone /\ news[p] # "none" => Beyond(c, b)
      /\ p \notin undone /\ news[p] = "shown" => Beyond(e, b)
  BY DEF Told
<1>7. /\ news'[p] = "none" => AtMost(d, b)
      /\ news'[p] # "shown" => AtMost(e, b)
      /\ news'[p] = "shown" => orders[p].attempts > 0
      /\ p \notin undone' => AtLeast(d, b)
      /\ p \notin undone' /\ news'[p] # "none" => Beyond(d, b)
      /\ p \notin undone' /\ news'[p] = "shown" => Beyond(e, b)
  <2> HIDE DEF b, c, d, e, k
  <2>1. news'[p] = "none" => news[p] = "none" /\ k \notin K
    BY <1>5
  <2>2. /\ AtMost(d, c) /\ AtMost(c, b) => AtMost(d, b)
        /\ AtLeast(d, c) /\ AtLeast(c, b) => AtLeast(d, b)
        /\ AtLeast(d, c) /\ Beyond(c, b) => Beyond(d, b)
        /\ Beyond(d, c) /\ AtLeast(c, b) => Beyond(d, b)
    BY <1>2 DEF AtMost, AtLeast, Beyond, Count
  <2>3. news'[p] # "shown" => news[p] # "shown"
    BY <1>5
  <2>4. p \notin undone' => p \notin undone /\ k \notin L
    BY <1>5
  <2>5. news'[p] # "none" => news[p] # "none" \/ k \in K
    BY <1>5
  <2>6. news'[p] = "shown" => news[p] = "shown"
    BY <1>5
  <2> QED
    BY <1>4, <1>6, <2>1, <2>2, <2>3, <2>4, <2>5, <2>6
<1> HIDE DEF b, c, d, e
<1> QED
  BY <1>3, <1>7 DEF Told

LEMMA ComesHeard ==
    ASSUME TypeOK, TypeOK', Heard, NEW K, NEW L, Comes(K, L), Reported(K), Undone(L),
           UNCHANGED <<orders, seen>>, phase' \notin {"rebuilt", "plan", "resolve"}
    PROVE  Heard'
<1>1. ASSUME NEW p \in Places, orders[p].state \in {"none", "Ready"}
      PROVE  news'[p] = "none"
  BY <1>1 DEF Heard, Reported, Dispatched
<1>2. ASSUME NEW p \in Places, orders[p].state = "Dispatched"
      PROVE  Told(p)'
  BY <1>2, ComesToldOf DEF Heard
<1> QED
  BY <1>1, <1>2 DEF Heard
-----------------------------------------------------------------------------
(* What comes and goes with each step, kind by kind.                        *)
LEMMA FrameStays ==
    ASSUME NEW m \in Counts, NEW n \in Counts, NEW d, NEW e, NEW k \in Kinds,
           m[k] = n[k], Makers(d, k) = Makers(e, k) \/ k \in Constructed
    PROVE  /\ AtMost(Frame(n, e)[k], Frame(m, d)[k])
           /\ AtLeast(Frame(n, e)[k], Frame(m, d)[k])
<1>1. Frame(m, d)[k] \in Count
  BY FrameOf
<1>2. Frame(n, e)[k] = Frame(m, d)[k]
  BY Zenon DEF Frame
<1> QED
  BY <1>1, <1>2 DEF AtMost, AtLeast, Count

LEMMA ShownOf ==
    ASSUME made \in Counts, made' \in Counts, NEW k \in Kinds
    PROVE  /\ Shown[k] \in Count /\ Shown'[k] \in Count
           /\ Shown[k].finished = made[k].finished /\ Shown'[k].finished = made'[k].finished
           /\ k \notin Constructed =>
                 /\ Shown[k].unfinished = Cardinality(Makers(doing, k))
                 /\ Shown'[k].unfinished = Cardinality(Makers(doing', k))
<1> DEFINE f == Frame(made, doing)[k]
           g == Frame(made', doing')[k]
<1>0. ASSUME NEW m \in Counts, NEW d
      PROVE  /\ Frame(m, d)[k] \in Count /\ Frame(m, d)[k].finished = m[k].finished
             /\ k \notin Constructed =>
                   Frame(m, d)[k].unfinished = Cardinality(Makers(d, k))
  BY FrameOf
<1>1. /\ f \in Count /\ f.finished = made[k].finished
      /\ k \notin Constructed => f.unfinished = Cardinality(Makers(doing, k))
  BY <1>0
<1>2. /\ g \in Count /\ g.finished = made'[k].finished
      /\ k \notin Constructed => g.unfinished = Cardinality(Makers(doing', k))
  BY <1>0
<1>3. f = Shown[k] /\ g = Shown'[k]
  BY ShownFrame, Zenon
<1> HIDE DEF f, g
<1> QED
  BY <1>1, <1>2, <1>3

LEMMA MakersLess ==
    ASSUME NEW m \in Counts, NEW d, NEW e, NEW k \in Kinds,
           Makers(e, k) \subseteq Makers(d, k)
    PROVE  AtMost(Frame(m, e)[k], Frame(m, d)[k])
<1> DEFINE S == Makers(d, k)
           T == Makers(e, k)
<1>1. IsFiniteSet(S) /\ T \in SUBSET S
  BY DispatchAssumption, FS_Subset DEF Makers
<1>2. Cardinality(S) \in Nat /\ Cardinality(T) \in Nat /\ Cardinality(T) <= Cardinality(S)
  BY <1>1, FS_Subset, FS_CardinalityType
<1>3. /\ Frame(m, d)[k] \in Count /\ Frame(m, e)[k] \in Count
      /\ Frame(m, d)[k].finished = Frame(m, e)[k].finished
      /\ k \in Constructed => Frame(m, d)[k] = Frame(m, e)[k]
      /\ k \notin Constructed => /\ Frame(m, d)[k].unfinished = Cardinality(S)
                                 /\ Frame(m, e)[k].unfinished = Cardinality(T)
  BY FrameOf
<1> QED
  BY <1>2, <1>3 DEF AtMost, Count

LEMMA MakersMore ==
    ASSUME NEW m \in Counts, NEW d, NEW e, NEW k \in Kinds,
           Makers(d, k) \subseteq Makers(e, k)
    PROVE  /\ AtLeast(Frame(m, e)[k], Frame(m, d)[k])
           /\ k \notin Constructed /\ Makers(d, k) # Makers(e, k) =>
                 Beyond(Frame(m, e)[k], Frame(m, d)[k])
<1> DEFINE S == Makers(d, k)
           T == Makers(e, k)
<1>1. IsFiniteSet(T) /\ S \in SUBSET T
  BY DispatchAssumption, FS_Subset DEF Makers
<1>2. /\ Cardinality(S) \in Nat /\ Cardinality(T) \in Nat /\ Cardinality(S) <= Cardinality(T)
      /\ S # T => Cardinality(S) # Cardinality(T)
  BY <1>1, FS_Subset, FS_CardinalityType
<1>3. /\ Frame(m, d)[k] \in Count /\ Frame(m, e)[k] \in Count
      /\ Frame(m, d)[k].finished = Frame(m, e)[k].finished
      /\ k \in Constructed => Frame(m, d)[k] = Frame(m, e)[k]
      /\ k \notin Constructed => /\ Frame(m, d)[k].unfinished = Cardinality(S)
                                 /\ Frame(m, e)[k].unfinished = Cardinality(T)
  BY FrameOf
<1>4. AtLeast(Frame(m, e)[k], Frame(m, d)[k])
  BY <1>2, <1>3 DEF AtLeast, Count
<1>5. k \notin Constructed /\ S # T => Beyond(Frame(m, e)[k], Frame(m, d)[k])
  BY <1>2, <1>3 DEF Beyond, Count
<1> QED
  BY <1>4, <1>5

LEMMA BeginsComes ==
    ASSUME TypeOK, NEW a \in Actors, Begins(a)
    PROVE  Comes({doing[a]}, {})
<1>1. ASSUME NEW k \in Kinds, k # doing[a]
      PROVE  AtMost(Shown'[k], Shown[k]) /\ AtLeast(Shown'[k], Shown[k])
  <2>1. made'[k] = made[k] /\ made \in Counts /\ made' \in Counts
    BY <1>1, GameCounts DEF Begins, TypeOK, Counts
  <2>2. Makers(doing', k) = Makers(doing, k)
    BY <1>1, DispatchAssumption DEF Begins, TypeOK, Makers
  <2> QED
    BY <2>1, <2>2, FrameStays, ShownFrame
<1>2. ASSUME NEW k \in Kinds, k = doing[a]
      PROVE  AtLeast(Shown'[k], Shown[k]) /\ Beyond(Shown'[k], Shown[k])
  <2>1. k \in Constructed /\ made[k] \in Count /\ made' = [made EXCEPT ![k].unfinished = @ + 1]
    BY <1>2 DEF Begins, TypeOK, Counts, Count
  <2>2. made'[k].finished = made[k].finished /\ made'[k].unfinished = made[k].unfinished + 1
    BY <2>1 DEF TypeOK, Counts, Count
  <2>3. Shown[k] = made[k] /\ Shown'[k] = made'[k]
    BY <2>1 DEF Shown
  <2> QED
    BY <2>1, <2>2, <2>3 DEF AtLeast, Beyond, Count
<1> QED
  BY <1>1, <1>2 DEF Comes

LEMMA TrainsComes ==
    ASSUME TypeOK, NEW a \in Actors, Trains(a)
    PROVE  Comes({doing[a]}, {})
<1>1. ASSUME NEW k \in Kinds, k # doing[a]
      PROVE  AtMost(Shown'[k], Shown[k]) /\ AtLeast(Shown'[k], Shown[k])
  <2>1. made'[k] = made[k] /\ made \in Counts /\ made' \in Counts
    BY <1>1, GameCounts DEF Trains, TypeOK, Counts
  <2>2. Makers(doing', k) = Makers(doing, k)
    BY <1>1, DispatchAssumption DEF Trains, TypeOK, Makers
  <2> QED
    BY <2>1, <2>2, FrameStays, ShownFrame
<1>2. ASSUME NEW k \in Kinds, k = doing[a]
      PROVE  AtLeast(Shown'[k], Shown[k]) /\ Beyond(Shown'[k], Shown[k])
  <2> DEFINE S == Makers(doing, k)
             T == Makers(doing', k)
  <2>1. /\ k \notin Constructed /\ made[k] \in Count /\ made \in Counts /\ made' \in Counts
        /\ made' = [made EXCEPT ![k].finished = @ + 1]
    BY <1>2, GameCounts DEF Trains, TypeOK, Counts, Count
  <2>2. made'[k].finished = made[k].finished + 1
    BY <2>1 DEF TypeOK, Counts, Count
  <2>3. T = S \ {a} /\ a \in S
    BY <1>2, DispatchAssumption DEF Trains, TypeOK, Makers
  <2>4. IsFiniteSet(S)
    BY DispatchAssumption, FS_Subset DEF Makers
  <2>5. Cardinality(S) \in Nat /\ Cardinality(T) = Cardinality(S) - 1 /\ Cardinality(T) \in Nat
    BY <2>3, <2>4, FS_RemoveElement, FS_CardinalityType
  <2>6. /\ Shown[k] \in Count /\ Shown'[k] \in Count
        /\ Shown[k].finished = made[k].finished /\ Shown'[k].finished = made'[k].finished
        /\ Shown[k].unfinished = Cardinality(S) /\ Shown'[k].unfinished = Cardinality(T)
    BY <2>1, ShownOf
  <2> HIDE DEF S, T
  <2> QED
    BY <2>2, <2>5, <2>6 DEF AtLeast, Beyond, Count
<1> QED
  BY <1>1, <1>2 DEF Comes

LEMMA FinishesComes ==
    ASSUME TypeOK, NEW k \in Kinds, Finishes(k)
    PROVE  Comes({k}, {})
<1>0. made \in Counts /\ made' \in Counts
  BY GameCounts DEF TypeOK
<1>1. ASSUME NEW j \in Kinds, j # k
      PROVE  AtMost(Shown'[j], Shown[j]) /\ AtLeast(Shown'[j], Shown[j])
  <2>1. made'[j] = made[j] /\ doing' = doing
    BY <1>0, <1>1 DEF Finishes, Counts
  <2> QED
    BY <1>0, <2>1, FrameStays, ShownFrame
<1>2. AtLeast(Shown'[k], Shown[k]) /\ Beyond(Shown'[k], Shown[k])
  <2>1. /\ made[k].finished \in Nat /\ made[k].unfinished \in Nat /\ doing' = doing
        /\ made'[k].finished = made[k].finished + 1
        /\ made'[k].unfinished = made[k].unfinished - 1
    BY <1>0 DEF Finishes, Counts
  <2>2. CASE k \in Constructed
    <3>1. Shown[k] = made[k] /\ Shown'[k] = made'[k]
      BY <2>2 DEF Shown
    <3> QED
      BY <2>1, <3>1 DEF AtLeast, Beyond
  <2>3. CASE k \notin Constructed
    <3>1. /\ Shown[k] \in Count /\ Shown'[k] \in Count
          /\ Shown[k].finished = made[k].finished /\ Shown'[k].finished = made'[k].finished
          /\ Shown'[k].unfinished = Shown[k].unfinished
      BY <1>0, <2>1, <2>3, ShownOf
    <3> QED
      BY <2>1, <3>1 DEF AtLeast, Beyond, Count
  <2> QED
    BY <2>2, <2>3
<1> QED
  BY <1>1, <1>2 DEF Comes

LEMMA StopsComes ==
    ASSUME TypeOK, NEW a \in Actors, made' = made, doing' = [doing EXCEPT ![a] = Nothing]
    PROVE  Comes({}, {doing[a]} \ Constructed)
<1>0. made \in Counts
  BY DEF TypeOK
<1>1. ASSUME NEW k \in Kinds
      PROVE  AtMost(Shown'[k], Shown[k])
  <2>1. Makers(doing', k) \subseteq Makers(doing, k)
    BY DispatchAssumption DEF TypeOK, Makers
  <2> QED
    BY <1>0, <2>1, MakersLess, ShownFrame
<1>2. ASSUME NEW k \in Kinds, k \notin {doing[a]} \ Constructed
      PROVE  AtLeast(Shown'[k], Shown[k])
  <2>1. k \in Constructed \/ Makers(doing, k) = Makers(doing', k)
    BY <1>2, DispatchAssumption DEF TypeOK, Makers
  <2> QED
    BY <1>0, <2>1, FrameStays, ShownFrame
<1> QED
  BY <1>1, <1>2 DEF Comes

LEMMA FallsComes ==
    ASSUME TypeOK, NEW k \in Kinds, NEW part \in {"finished", "unfinished"}, Falls(k, part)
    PROVE  Comes({}, {k})
<1>0. made \in Counts /\ made' \in Counts /\ doing' = doing
  BY GameCounts DEF TypeOK, Falls
<1>1. ASSUME NEW j \in Kinds, j # k
      PROVE  AtMost(Shown'[j], Shown[j]) /\ AtLeast(Shown'[j], Shown[j])
  <2>1. made'[j] = made[j]
    BY <1>0, <1>1 DEF Falls, Counts
  <2> QED
    BY <1>0, <2>1, FrameStays, ShownFrame
<1>2. AtMost(Shown'[k], Shown[k])
  <2>1. /\ made[k].finished \in Nat /\ made[k].unfinished \in Nat
        /\ made'[k].finished <= made[k].finished /\ made'[k].unfinished <= made[k].unfinished
    <3>1. CASE part = "finished"
      BY <1>0, <3>1 DEF Falls, Counts
    <3>2. CASE part = "unfinished"
      BY <1>0, <3>2 DEF Falls, Counts
    <3> QED
      BY <3>1, <3>2
  <2>2. CASE k \in Constructed
    BY <2>1, <2>2 DEF Shown, AtMost
  <2>3. CASE k \notin Constructed
    <3>1. /\ Shown[k] \in Count /\ Shown'[k] \in Count
          /\ Shown[k].finished = made[k].finished /\ Shown'[k].finished = made'[k].finished
          /\ Shown'[k].unfinished = Shown[k].unfinished
      BY <1>0, <2>3, ShownOf
    <3> QED
      BY <2>1, <3>1 DEF AtMost, Count
  <2> QED
    BY <2>2, <2>3
<1> QED
  BY <1>1, <1>2 DEF Comes

(* What is told to the units is reported where a unit takes it up, and      *)
(* undone where it gives something else up for it.                          *)
LEMMA ResolveComes ==
    ASSUME TypeOK, TablesOK', NEW refused \in SUBSET DOMAIN buffer, ResolveAndExecute(refused)
    PROVE  \E K, L : Comes(K, L) /\ Reported(K) /\ Undone(L)
<1> DEFINE changed == {a \in Actors : doing'[a] # doing[a]}
           K == {doing'[a] : a \in changed} \ Constructed
           L == {doing[a] : a \in changed} \ Constructed
<1>1. Reported(K) /\ Undone(L)
  BY DEF ResolveAndExecute
<1>2. made' = made /\ made \in Counts
  BY DEF ResolveAndExecute, TypeOK
<1>3. ASSUME NEW k \in Kinds, k \notin K
      PROVE  AtMost(Shown'[k], Shown[k])
  <2>1. CASE k \in Constructed
    BY <1>2, <2>1, FrameStays, ShownFrame
  <2>2. CASE k \notin Constructed
    <3>1. Makers(doing', k) \subseteq Makers(doing, k)
      BY <1>3, <2>2 DEF Makers
    <3> QED
      BY <1>2, <3>1, MakersLess, ShownFrame
  <2> QED
    BY <2>1, <2>2
<1>4. ASSUME NEW k \in Kinds, k \notin L
      PROVE  AtLeast(Shown'[k], Shown[k])
  <2>1. CASE k \in Constructed
    BY <1>2, <2>1, FrameStays, ShownFrame
  <2>2. CASE k \notin Constructed
    <3>1. Makers(doing, k) \subseteq Makers(doing', k)
      BY <1>4, <2>2 DEF Makers
    <3> QED
      BY <1>2, <3>1, MakersMore, ShownFrame
  <2> QED
    BY <2>1, <2>2
<1>5. ASSUME NEW k \in Kinds, k \in K \ L
      PROVE  Beyond(Shown'[k], Shown[k])
  <2>1. k \notin Constructed
    BY <1>5
  <2>2. Makers(doing, k) \subseteq Makers(doing', k)
    BY <1>5, <2>1 DEF Makers
  <2>3. Makers(doing, k) # Makers(doing', k)
    <3>1. PICK a \in changed : doing'[a] = k
      BY <1>5
    <3> QED
      BY <3>1 DEF Makers
  <2> QED
    BY <1>2, <2>1, <2>2, <2>3, MakersMore, ShownFrame
<1>6. Comes(K, L)
  BY <1>3, <1>4, <1>5 DEF Comes
<1> QED
  BY <1>1, <1>6

LEMMA GameComes ==
    ASSUME TypeOK, TablesOK',
           \/ \E a \in Actors : Begins(a) \/ Trains(a) \/ Stops(a) \/ Dies(a) \/ Arrives(a)
           \/ \E k \in Kinds : Finishes(k) \/ \E part \in {"finished", "unfinished"} : Falls(k, part)
    PROVE  \E K, L : Comes(K, L) /\ Reported(K) /\ Undone(L)
<1>1. (UNCHANGED news => Reported({})) /\ (UNCHANGED undone => Undone({}))
  BY DEF TypeOK, Reported, Undone, Dispatched
<1>2. ASSUME NEW a \in Actors, Begins(a)
      PROVE  Comes({doing[a]}, {}) /\ Reported({doing[a]}) /\ Undone({})
  BY <1>1, <1>2, BeginsComes DEF Begins
<1>3. ASSUME NEW a \in Actors, Trains(a)
      PROVE  Comes({doing[a]}, {}) /\ Reported({doing[a]}) /\ Undone({})
  BY <1>1, <1>3, TrainsComes DEF Trains
<1>4. ASSUME NEW a \in Actors, Stops(a) \/ Dies(a)
      PROVE  /\ Comes({}, {doing[a]} \ Constructed)
             /\ Reported({}) /\ Undone({doing[a]} \ Constructed)
  BY <1>1, <1>4, StopsComes DEF Stops, Dies
<1>5. ASSUME NEW a \in Actors, Arrives(a)
      PROVE  Comes({}, {}) /\ Reported({}) /\ Undone({})
  <2>1. ASSUME NEW k \in Kinds
        PROVE  AtMost(Shown'[k], Shown[k]) /\ AtLeast(Shown'[k], Shown[k])
    BY <1>5, FrameStays, ShownFrame DEF Arrives, TypeOK
  <2> QED
    BY <1>1, <1>5, <2>1 DEF Comes, Arrives, history
<1>6. ASSUME NEW k \in Kinds, Finishes(k)
      PROVE  Comes({k}, {}) /\ Reported({k}) /\ Undone({})
  BY <1>1, <1>6, FinishesComes DEF Finishes
<1>7. ASSUME NEW k \in Kinds, NEW part \in {"finished", "unfinished"}, Falls(k, part)
      PROVE  Comes({}, {k}) /\ Reported({}) /\ Undone({k})
  BY <1>1, <1>7, FallsComes DEF Falls
<1> QED
  BY <1>2, <1>3, <1>4, <1>5, <1>6, <1>7, Zenon
-----------------------------------------------------------------------------
(* The frame: what it does to an order keeps what was told of it.           *)
LEMMA RebuildHeard ==
    ASSUME TypeOK, Timely, Heard, NEW compacts \in BOOLEAN, Rebuild(compacts)
    PROVE  Heard'
<1>1. /\ phase = "maintained" /\ phase' = "rebuilt" /\ seen' = Shown /\ UNCHANGED <<made, doing>>
      /\ Shown' = Shown
  BY DEF Rebuild, gameVars, Shown
<1>2. ASSUME NEW p \in Places, orders'[p].state \in {"none", "Ready"}
      PROVE  news'[p] = "none"
  <2>1. \/ orders'[p] = Vacant /\ news'[p] = "none"
        \/ Captured(p) /\ orders'[p] = LaterLoop(orders[p])
        \/ orders'[p] = orders[p] /\ news'[p] = IF news[p] = "begun" THEN "shown" ELSE news[p]
    BY DEF Rebuild
  <2>2. CASE Captured(p) /\ orders'[p] = LaterLoop(orders[p])
    <3>1. orders[p] \in Order
      BY <2>2, RowTypes DEF TypeOK, Captured
    <3> QED
      BY <1>2, <2>2, <3>1 DEF LaterLoop, Captured, Order
  <2> QED
    BY <1>2, <2>1, <2>2 DEF Heard
<1>3. ASSUME NEW p \in Places, orders'[p].state = "Dispatched"
      PROVE  Told(p)'
  <2>1. /\ \/ Captured(p) /\ orders'[p] = LaterLoop(orders[p])
           \/ ~Captured(p) /\ orders'[p] = orders[p]
        /\ news'[p] = IF news[p] = "begun" THEN "shown" ELSE news[p]
        /\ p \in undone' <=> p \in undone
    BY <1>3 DEF Rebuild, Vacant
  <2>2. orders[p].state = "Dispatched" /\ orders[p] \in Order
    <3>1. orders[p].state = "Dispatched"
      BY <1>3, <2>1 DEF Captured
    <3> QED
      BY <3>1, RowTypes DEF TypeOK
  <2>3. orders[p].attempts > 0
    <3>1. ~Fresh(orders[p]) /\ orders[p].attempts \in {0, 1}
      BY <1>1, <2>2, NoneFresh DEF Order
    <3> QED
      BY <2>2, <3>1 DEF Fresh
  <2>4. orders'[p] = LaterLoop(orders[p])
    BY <2>1, <2>2, <2>3 DEF Captured
  <2>5. /\ orders'[p].kind = orders[p].kind /\ orders'[p].attempts = orders[p].attempts
        /\ orders'[p].finishedAt = orders[p].finishedAt
        /\ orders'[p].unfinishedAt = orders[p].unfinishedAt
    BY <2>2, <2>4 DEF LaterLoop, Order
  <2> DEFINE k == orders[p].kind
             b == Before(orders[p])
             c == Shown[k]
  <2>6. b = [finished |-> orders[p].finishedAt, unfinished |-> orders[p].unfinishedAt]
    BY <2>3 DEF Before
  <2>7. Before(orders[p])' = b /\ Shown'[orders'[p].kind] = c /\ seen'[orders'[p].kind] = c
    BY <1>1, <2>3, <2>5, <2>6 DEF Before
  <2>8. /\ news[p] = "none" => AtMost(c, b)
        /\ p \notin undone => AtLeast(c, b)
        /\ p \notin undone /\ news[p] # "none" => Beyond(c, b)
    BY <2>2 DEF Heard, Told
  <2> HIDE DEF b, c
  <2>9. news'[p] # "shown" => news[p] = "none"
    BY <2>1 DEF TypeOK
  <2> QED
    BY <2>1, <2>3, <2>5, <2>7, <2>8, <2>9 DEF Told
<1> QED
  BY <1>1, <1>2, <1>3 DEF Heard

(* A step that leaves the units and the counts alone, and changes an order  *)
(* only to something that is over or to one whose news is told.             *)
LEMMA QuietHeard ==
    ASSUME TypeOK, Heard, UNCHANGED <<seen, made, doing, news, undone>>,
           phase' \in {"rebuilt", "plan", "resolve"} => phase \in {"rebuilt", "plan", "resolve"},
           \A p \in Places : \/ orders'[p] = orders[p]
                             \/ orders'[p].state \in {"Completed", "Aborted"}
                             \/ orders'[p].state = "Ready" /\ news[p] = "none"
    PROVE  Heard'
<1>1. Shown' = Shown
  BY DEF Shown
<1>2. ASSUME NEW p \in Places, orders'[p].state = "Dispatched"
      PROVE  Told(p)'
  <2>1. orders'[p] = orders[p] /\ Told(p)
    BY <1>2 DEF Heard
  <2>2. Before(orders[p])' = Before(orders[p])
    BY <2>1 DEF Before
  <2> QED
    BY <1>1, <2>1, <2>2 DEF Told
<1> QED
  BY <1>1, <1>2 DEF Heard

LEMMA FrameHeard ==
    ASSUME TypeOK, Heard,
           \/ UpdateDispatchedSchedulerOrders
           \/ \E reached \in SUBSET Places : SynchronizeTargets(reached)
           \/ \E p \in Places, a \in Actors, k \in Kinds, r \in Priorities : EnqueueReady(p, a, k, r)
           \/ \E a \in Actors : Relieve(a)
    PROVE  Heard'
<1> USE DEF gameVars, history
<1>1. CASE UpdateDispatchedSchedulerOrders
  <2>1. \A p \in Places : orders'[p] = orders[p] \/ orders'[p].state \in {"Completed", "Aborted"}
    BY <1>1 DEF UpdateDispatchedSchedulerOrders, Maintained, Outcome
  <2> QED
    BY <1>1, <2>1, QuietHeard DEF UpdateDispatchedSchedulerOrders
<1>2. ASSUME NEW reached \in SUBSET Places, SynchronizeTargets(reached)
      PROVE  Heard'
  <2>1. \A p \in Places : orders'[p] = orders[p] \/ orders'[p].state \in {"Completed", "Aborted"}
    BY <1>2 DEF SynchronizeTargets
  <2> QED
    BY <1>2, <2>1, QuietHeard DEF SynchronizeTargets
<1>3. ASSUME NEW p \in Places, NEW a \in Actors, NEW k \in Kinds, NEW r \in Priorities,
             EnqueueReady(p, a, k, r)
      PROVE  Heard'
  <2>1. news[p] = "none"
    BY <1>3 DEF EnqueueReady, Heard, Vacant
  <2>2. \A q \in Places : orders'[q] = orders[q] \/ (orders'[q].state = "Ready" /\ news[q] = "none")
    <3> DEFINE new == [state |-> "Ready", actor |-> a, kind |-> k, priority |-> r, attempts |-> 0,
                       timed |-> FALSE, age |-> 0, finishedAt |-> 0, unfinishedAt |-> 0]
    <3>0. orders' = [orders EXCEPT ![p] = new] /\ DOMAIN orders = Places
      BY <1>3 DEF EnqueueReady, TypeOK
    <3>1. ASSUME NEW q \in Places, q # p
          PROVE  orders'[q] = orders[q]
      BY <3>0, <3>1
    <3>2. orders'[p].state = "Ready"
      <4>1. new.state = "Ready"
        OBVIOUS
      <4> HIDE DEF new
      <4> QED
        BY <3>0, <4>1
    <3> QED
      BY <2>1, <3>1, <3>2
  <2> QED
    BY <1>3, <2>2, QuietHeard DEF EnqueueReady
<1>4. ASSUME NEW a \in Actors, Relieve(a)
      PROVE  Heard'
  BY <1>4, QuietHeard DEF Relieve
<1> QED
  BY <1>1, <1>2, <1>3, <1>4

(* A ready order is sent in the frame whose descriptor is still what is     *)
(* shown, before the commands: nothing has come of it.                      *)
LEMMA DrainHeard ==
    ASSUME TypeOK, Heard, NEW queue \in Queues, DrainReadyIntents(queue)
    PROVE  Heard'
<1>1. phase = "plan" /\ phase' = "resolve" /\ UNCHANGED <<seen, made, doing, news, undone>>
  BY DEF DrainReadyIntents, gameVars, history
<1>2. Shown' = Shown /\ seen = Shown
  BY <1>1 DEF Shown, Heard
<1>3. ASSUME NEW p \in Places, orders'[p].state \in {"none", "Ready"}
      PROVE  news'[p] = "none"
  BY <1>1, <1>3, DrainTakesReady DEF Heard
<1>4. ASSUME NEW p \in Places, orders'[p].state = "Dispatched"
      PROVE  Told(p)'
  <2>1. CASE orders'[p] = orders[p]
    <3>1. Before(orders[p])' = Before(orders[p]) /\ Told(p)
      BY <1>1, <1>4, <2>1 DEF Before, Heard
    <3> QED
      BY <1>1, <1>2, <2>1, <3>1 DEF Told
  <2>2. CASE orders[p].state = "Ready" /\ orders'[p] = [orders[p] EXCEPT !.state = "Dispatched"]
    <3>1. orders[p] \in Order /\ news[p] = "none"
      BY <2>2, RowTypes DEF TypeOK, Heard
    <3>2. orders'[p].attempts = 0 /\ orders'[p].kind = orders[p].kind /\ orders[p].kind \in Kinds
      BY <2>2, <3>1 DEF Order
    <3> DEFINE c == seen[orders[p].kind]
    <3>3. c \in Count
      BY <3>2 DEF TypeOK, Counts, Count
    <3>4. Before(orders[p])' = c /\ Shown'[orders'[p].kind] = c /\ seen'[orders'[p].kind] = c
      BY <1>1, <1>2, <3>2 DEF Before
    <3> HIDE DEF c
    <3>5. AtMost(c, c) /\ AtLeast(c, c)
      BY <3>3 DEF AtMost, AtLeast, Count
    <3> QED
      BY <1>1, <3>1, <3>4, <3>5 DEF Told
  <2> QED
    BY <2>1, <2>2, DrainTakesReady
<1> QED
  BY <1>1, <1>2, <1>3, <1>4 DEF Heard

LEMMA CaptureHeard ==
    ASSUME TypeOK, Heard, Capture
    PROVE  Heard'
<1>1. phase' = "game" /\ UNCHANGED <<seen, made, doing, news, undone>>
  BY DEF Capture, gameVars, history
<1>2. Shown' = Shown
  BY <1>1 DEF Shown
<1>3. ASSUME NEW p \in Places, Fresh(orders[p])
      PROVE  /\ orders'[p].state = "Dispatched" /\ orders'[p].kind = orders[p].kind
             /\ orders'[p].attempts = 1
             /\ orders'[p].finishedAt = seen[orders[p].kind].finished
             /\ orders'[p].unfinishedAt = seen[orders[p].kind].unfinished
  <2> DEFINE o == orders[p]
             f == seen[o.kind].finished
             u == seen[o.kind].unfinished
  <2>1. o \in Order /\ o.state = "Dispatched"
    BY <1>3, RowTypes DEF TypeOK, Fresh
  <2>2. orders'[p] = [o EXCEPT !.attempts = 1, !.timed = ~zero, !.age = 0, !.finishedAt = f, !.unfinishedAt = u]
    BY <1>3 DEF Capture
  <2> HIDE DEF o, f, u
  <2>3. /\ orders'[p].state = "Dispatched" /\ orders'[p].kind = o.kind /\ orders'[p].attempts = 1
        /\ orders'[p].finishedAt = f /\ orders'[p].unfinishedAt = u
    BY <2>1, <2>2 DEF Order
  <2> QED
    BY <2>3 DEF o, f, u
<1>4. ASSUME NEW p \in Places, ~Fresh(orders[p])
      PROVE  orders'[p] = orders[p]
  BY <1>4 DEF Capture
<1>5. ASSUME NEW p \in Places, orders'[p].state = "Dispatched"
      PROVE  Told(p)'
  <2>1. CASE ~Fresh(orders[p])
    <3>1. orders'[p] = orders[p]
      BY <1>4, <2>1
    <3>2. Before(orders[p])' = Before(orders[p]) /\ Told(p)
      BY <1>1, <1>5, <3>1 DEF Before, Heard
    <3> QED
      BY <1>1, <1>2, <3>1, <3>2 DEF Told
  <2>2. CASE Fresh(orders[p])
    <3> DEFINE k == orders[p].kind
               c == seen[k]
               d == Shown[k]
    <3>1. Told(p) /\ orders[p].attempts = 0
      BY <2>2 DEF Heard, Fresh
    <3>2. k \in Kinds /\ c \in Count
      BY <2>2, RowTypes DEF TypeOK, Fresh, Order, Counts, Count
    <3>3. /\ Before(orders[p]) = c
          /\ Shown'[orders'[p].kind] = d /\ seen'[orders'[p].kind] = c
      BY <1>1, <1>2, <1>3, <2>2, <3>1 DEF Before
    <3>4. Before(orders[p])' = [finished |-> c.finished, unfinished |-> c.unfinished]
      BY <1>3, <2>2 DEF Before
    <3>5. /\ news[p] = "none" => AtMost(d, c)
          /\ news[p] # "shown"
          /\ p \notin undone => AtLeast(d, c)
          /\ p \notin undone /\ news[p] # "none" => Beyond(d, c)
      BY <3>1, <3>3 DEF Told
    <3>6. orders'[p].attempts = 1
      BY <1>3, <2>2
    <3> HIDE DEF c, d, k
    <3>7. Before(orders[p])' = c
      BY <3>2, <3>4 DEF Count
    <3>8. AtMost(c, c)
      BY <3>2 DEF AtMost, Count
    <3> QED
      BY <1>1, <3>3, <3>5, <3>6, <3>7, <3>8 DEF Told
  <2> QED
    BY <2>1, <2>2
<1>6. ASSUME NEW p \in Places, orders'[p].state \in {"none", "Ready"}
      PROVE  news'[p] = "none"
  <2>1. ~Fresh(orders[p])
    BY <1>3, <1>6
  <2> QED
    BY <1>1, <1>4, <1>6, <2>1 DEF Heard
<1> QED
  BY <1>1, <1>5, <1>6 DEF Heard

LEMMA NextHeard ==
    ASSUME TypeOK, TypeOK', Timely, Heard, [Next]_dispatchVars
    PROVE  Heard'
<1>1. CASE UNCHANGED dispatchVars
  <2>1. UNCHANGED <<phase, orders, seen, made, doing, news, undone>>
    BY <1>1 DEF dispatchVars, gameVars, history
  <2> QED
    BY <2>1, QuietHeard
<1>2. CASE \/ \E a \in Actors : Begins(a) \/ Trains(a) \/ Stops(a) \/ Dies(a) \/ Arrives(a)
           \/ \E k \in Kinds : Finishes(k) \/ \E part \in {"finished", "unfinished"} : Falls(k, part)
  <2>1. TablesOK'
    BY DEF TypeOK, TablesOK, Rows
  <2>2. UNCHANGED <<phase, orders, seen>>
    BY <1>2, GameCounts DEF TypeOK
  <2>3. phase = "game"
    BY <1>2 DEF Begins, Trains, Stops, Dies, Arrives, Finishes, Falls
  <2> QED
    BY <1>2, <2>1, <2>2, <2>3, GameComes, ComesHeard
<1>3. ASSUME NEW refused \in SUBSET DOMAIN buffer, ResolveAndExecute(refused)
      PROVE  Heard'
  <2>1. TablesOK'
    BY DEF TypeOK, TablesOK, Rows
  <2>2. UNCHANGED <<orders, seen>> /\ phase' = "capture"
    BY <1>3 DEF ResolveAndExecute
  <2> QED
    BY <1>3, <2>1, <2>2, ResolveComes, ComesHeard
<1>4. CASE Next
  BY <1>2, <1>3, <1>4, FrameHeard, RebuildHeard, DrainHeard, CaptureHeard DEF Next, FrameStep
<1> QED
  BY <1>1, <1>4

(* An update decides for an order by what it was told: the counts of the    *)
(* descriptor are beyond those of its capture only if news of its kind is   *)
(* in them, and if it is and nothing was undone they are.                   *)
LEMMA UpdateAnswers ==
    ASSUME TypeOK, Heard, UpdateDispatchedSchedulerOrders, phase = "game",
           NEW p \in Places, orders[p].state = "Dispatched"
    PROVE  /\ orders'[p].state = "Completed" => news[p] = "shown" \/ HasProducerConfirmed(orders[p])
           /\ orders'[p].state = "Aborted" => news[p] # "shown" \/ p \in undone
<1> DEFINE o == orders[p]
           e == seen[o.kind]
           b == [finished |-> o.finishedAt, unfinished |-> o.unfinishedAt]
<1>1. o \in Order /\ ~Fresh(o)
  BY RowTypes, NoneFresh DEF TypeOK
<1>2. o.attempts > 0
  BY <1>1 DEF Fresh, Order
<1>3. Before(orders[p]) = b
  BY <1>2 DEF Before
<1>4. /\ news[p] # "shown" => AtMost(e, b)
      /\ p \notin undone /\ news[p] = "shown" => Beyond(e, b)
  BY <1>3 DEF Heard, Told
<1>5. e \in Count /\ o.finishedAt \in Nat /\ o.unfinishedAt \in Nat
  BY <1>1 DEF TypeOK, Counts, Count, Order
<1>6. Grown(o) <=> e.finished > o.finishedAt \/ e.unfinished > o.unfinishedAt
  BY DEF Grown
<1>7. /\ AtMost(e, b) => ~Grown(o)
      /\ Beyond(e, b) => Grown(o)
  <2> HIDE DEF e, o
  <2> QED
    BY <1>5, <1>6 DEF AtMost, Beyond, Count
<1>8. orders'[p] = Maintained(o)
  BY DEF UpdateDispatchedSchedulerOrders
<1>9. /\ orders'[p].state = "Completed" => Outcome(o) = "Completed"
      /\ orders'[p].state = "Aborted" => Outcome(o) = "Aborted"
  BY <1>8 DEF Maintained
<1>10. /\ Outcome(o) = "Completed" => Grown(o) \/ HasProducerConfirmed(o)
       /\ Outcome(o) = "Aborted" => ~Grown(o)
  BY DEF Outcome
<1> QED
  BY <1>4, <1>7, <1>9, <1>10

(* UpdateDispatchedSchedulerOrders never takes an order for done of whose   *)
(* kind nothing has come and that no producer is at, and never gives one up *)
(* when what came of it is in the descriptor and none of its kind was lost  *)
(* since: for any number of orders, actors and kinds and any game.          *)
THEOREM EveryAnswerHeard == Spec => AnswersHeard
<1> DEFINE step == phase = "game" /\ phase' = "maintained" =>
                     \A p \in Places : orders[p].state = "Dispatched" =>
                       /\ orders'[p].state = "Completed" => news[p] = "shown" \/ HasProducerConfirmed(orders[p])
                       /\ orders'[p].state = "Aborted" => news[p] # "shown" \/ p \in undone
           Inv == Timely /\ TypeOK /\ Heard
<1>1. Init => Inv
  <2>1. Init => TypeOK
    BY DEF Init, TypeOK, Vacant, Fresh, Counts
  <2>2. Init => Heard
    BY DEF Init, Heard, Vacant
  <2> QED
    BY <2>1, <2>2, InitTimely
<1>2. Inv /\ [Next]_dispatchVars => Inv'
  BY NextTimely, NextTypes, NextHeard DEF Timely
<1>3. Inv /\ [Next]_dispatchVars => step
  <2> SUFFICES ASSUME Inv, [Next]_dispatchVars, phase = "game", phase' = "maintained",
                      NEW p \in Places, orders[p].state = "Dispatched"
               PROVE  /\ orders'[p].state = "Completed" => news[p] = "shown" \/ HasProducerConfirmed(orders[p])
                      /\ orders'[p].state = "Aborted" => news[p] # "shown" \/ p \in undone
    OBVIOUS
  <2>1. UpdateDispatchedSchedulerOrders
    BY DEF Next, FrameStep, dispatchVars, Begins, Trains, Stops, Dies, Arrives, Finishes, Falls,
           EnqueueReady, Relieve, Rebuild, SynchronizeTargets, DrainReadyIntents, ResolveAndExecute, Capture
  <2> QED
    BY <2>1, UpdateAnswers
<1> QED
  BY <1>1, <1>2, <1>3, PTL DEF Spec, AnswersHeard
=============================================================================
