------------------------ MODULE SchedulingStateProofs ------------------------
(***************************************************************************)
(* What holds of the order table for every instance of its constants, under *)
(* any sequence of calls of its interface.                                  *)
(*                                                                         *)
(* The inductive invariant is Coherent: the types, the id index, the order  *)
(* of the ids, and that the derived side is the view of the table unless it *)
(* is flagged dirty, which it can only be inside a batch.                   *)
(***************************************************************************)
EXTENDS SchedulingState, RetentionProofs

(* The derived side is current or known to be stale.                        *)
DerivedAgrees ==
    /\ ~derivedDirty => derived = View(orders)
    /\ batchDepth = 0 => ~derivedDirty

Coherent == TypeOK /\ IndexExact /\ IdsAscending /\ DerivedAgrees
-----------------------------------------------------------------------------
(* The view of a table, and what marking it dirty establishes.              *)

LEMMA ViewLemma ==
    ASSUME NEW s \in Seq(Order)
    PROVE  /\ View(s) \in Seq(SeenOrder)
           /\ DOMAIN View(s) = DOMAIN s
           /\ \A i \in DOMAIN s : View(s)[i] = Seen(s[i]) /\ Seen(s[i]) \in SeenOrder
<1>1. DOMAIN s = 1 .. Len(s) /\ Len(s) \in Nat /\ \A i \in DOMAIN s : s[i] \in Order
  OBVIOUS
<1>2. \A o \in Order : Seen(o) \in SeenOrder
  BY DEF Order, Seen, SeenOrder
<1> QED
  BY <1>1, <1>2 DEF View

(* A table that differs only where the view does not look has the same view. *)
LEMMA SameView ==
    ASSUME NEW s \in Seq(Order), NEW r \in Seq(Order), DOMAIN r = DOMAIN s,
           \A i \in DOMAIN s : Seen(r[i]) = Seen(s[i])
    PROVE  View(r) = View(s)
BY DEF View

LEMMA MarkedDirty ==
    ASSUME TypeOK, DerivedAgrees, NEW s \in Seq(Order), orders' = s,
           MarkDerivedQueuesDirty(s), UNCHANGED batchDepth
    PROVE  /\ derived' \in Seq(SeenOrder)
           /\ derivedDirty' \in BOOLEAN /\ prioritiesDirty' \in BOOLEAN
           /\ DerivedAgrees'
<1>1. View(s) \in Seq(SeenOrder)
  BY ViewLemma
<1>2. CASE batchDepth = 0
  BY <1>1, <1>2 DEF MarkDerivedQueuesDirty, DerivedAgrees, TypeOK
<1>3. CASE batchDepth # 0
  BY <1>1, <1>3 DEF MarkDerivedQueuesDirty, DerivedAgrees, TypeOK
<1> QED
  BY <1>2, <1>3
-----------------------------------------------------------------------------
(* Steps that rewrite rows in place: the index is not disturbed.            *)

Retouched ==
    /\ orders' \in Seq(Order)
    /\ DOMAIN orders' = DOMAIN orders
    /\ \A i \in DOMAIN orders : orders'[i].id = orders[i].id
    /\ UNCHANGED <<nextOrderId, idToIndex>>

LEMMA RetouchedIndex ==
    ASSUME TypeOK, IndexExact, IdsAscending, Retouched
    PROVE  IndexExact' /\ IdsAscending'
<1>1. Ids(orders') = Ids(orders)
  BY DEF Retouched, Ids
<1> QED
  BY <1>1 DEF Retouched, IndexExact, IdsAscending

LEMMA OrderAt ==
    ASSUME TypeOK, IndexExact, NEW id, HasOrder(id)
    PROVE  /\ idToIndex[id] \in DOMAIN orders
           /\ At(id) \in Order /\ At(id).id = id
<1>1. PICK i \in DOMAIN orders : orders[i].id = id
  BY DEF HasOrder, IndexExact, Ids
<1>2. idToIndex[id] = i
  BY <1>1 DEF IndexExact
<1>3. orders[i] \in Order
  BY DEF TypeOK
<1> QED
  BY <1>1, <1>2, <1>3 DEF At

(* Replacing the row of an id by one with the same id.                      *)
LEMMA Replaced ==
    ASSUME TypeOK, IndexExact, NEW id, HasOrder(id), NEW o \in Order, o.id = id,
           orders' = [orders EXCEPT ![idToIndex[id]] = o],
           UNCHANGED <<nextOrderId, idToIndex>>
    PROVE  /\ Retouched
           /\ Seen(o) = Seen(At(id)) => View(orders') = View(orders)
<1>1. /\ idToIndex[id] \in DOMAIN orders /\ At(id).id = id
      /\ At(id) = orders[idToIndex[id]]
  BY OrderAt DEF At
<1>2. orders \in Seq(Order)
  BY DEF TypeOK
<1>3. orders' \in Seq(Order) /\ DOMAIN orders' = DOMAIN orders
  BY <1>1, <1>2
<1>4. \A i \in DOMAIN orders : orders'[i] = IF i = idToIndex[id] THEN o ELSE orders[i]
  BY <1>1, <1>2
<1>5. Retouched
  BY <1>1, <1>3, <1>4 DEF Retouched
<1>6. ASSUME Seen(o) = Seen(At(id)) PROVE View(orders') = View(orders)
  <2>1. \A i \in DOMAIN orders : Seen(orders'[i]) = Seen(orders[i])
    BY <1>1, <1>4, <1>6
  <2> QED
    BY <2>1, <1>2, <1>3, SameView
<1> QED
  BY <1>5, <1>6
-----------------------------------------------------------------------------
(* Every step keeps the table coherent.                                     *)

LEMMA OrderFields ==
    \A o \in Order : o.id \in Nat \ {0} /\ o.parent \in Nat /\ o.state \in States
BY DEF Order

LEMMA InitCoherent == Init => Coherent
<1> SUFFICES ASSUME Init PROVE Coherent
  OBVIOUS
<1>1. orders = <<>> /\ DOMAIN orders = {} /\ Ids(orders) = {}
  BY DEF Init, Ids
<1>2. TypeOK
  <2>1. orders \in Seq(Order) /\ derived \in Seq(SeenOrder)
    BY DEF Init
  <2>2. DOMAIN idToIndex = {} /\ DOMAIN planOrder = {}
    BY DEF Init
  <2>3. /\ DOMAIN idToIndex \subseteq Nat /\ idToIndex \in [DOMAIN idToIndex -> Nat]
        /\ DOMAIN planOrder \subseteq TaskIds /\ planOrder \in [DOMAIN planOrder -> Nat]
    BY <2>2 DEF Init
  <2>4. nextOrderId \in Nat \ {0} /\ batchDepth \in Nat
    BY DEF Init
  <2>5. derivedDirty \in BOOLEAN /\ prioritiesDirty \in BOOLEAN
    BY Zenon DEF Init
  <2> QED
    BY <2>1, <2>3, <2>4, <2>5, Zenon DEF TypeOK
<1>3. IndexExact /\ IdsAscending
  BY <1>1 DEF Init, IndexExact, IdsAscending
<1>4. View(orders) = <<>>
  BY <1>1 DEF View
<1>5. DerivedAgrees
  BY <1>4 DEF Init, DerivedAgrees
<1> QED
  BY <1>2, <1>3, <1>5 DEF Coherent

LEMMA NumberedTyped ==
    ASSUME TypeOK, NEW t \in Template, NEW parent \in Nat
    PROVE  Numbered(t, parent) \in Order /\ Numbered(t, parent).id = nextOrderId
<1>1. /\ t.layer \in Layers /\ t.state \in LiveStates /\ t.task \in TaskIds \cup {0}
      /\ t.goal \in GoalIds \cup {0} /\ t.detail \in Details
      /\ t.actor \in Actors \cup {NoActor} /\ t.rank \in Ranks /\ t.slot \in Slots \cup {NoSlot}
  BY DEF Template
<1>2. t.state \in States
  BY <1>1 DEF States
<1>3. nextOrderId \in Nat \ {0}
  BY DEF TypeOK
<1> QED
  BY <1>1, <1>2, <1>3 DEF Numbered, Order

(* Rows rewritten in place and a new one behind them.                       *)
LEMMA EnqueueAfterKeeps ==
    ASSUME Coherent, NEW s \in Seq(Order), DOMAIN s = DOMAIN orders,
           \A i \in DOMAIN orders : s[i].id = orders[i].id,
           NEW t \in Template, NEW parent \in Nat, EnqueueAfter(s, t, parent),
           DOMAIN planOrder' \subseteq TaskIds, planOrder' \in [DOMAIN planOrder' -> Nat]
    PROVE  Coherent'
<1> DEFINE row == Numbered(t, parent)
           after == Append(s, row)
<1>1. /\ orders' = after /\ nextOrderId' = nextOrderId + 1
      /\ idToIndex' = [id \in DOMAIN idToIndex \cup {nextOrderId} |->
                          IF id = nextOrderId THEN Len(s) + 1 ELSE idToIndex[id]]
      /\ MarkDerivedQueuesDirty(after) /\ UNCHANGED batchDepth
  BY DEF EnqueueAfter
<1>2. /\ orders \in Seq(Order) /\ nextOrderId \in Nat \ {0}
      /\ Len(s) \in Nat /\ DOMAIN s = 1 .. Len(s)
      /\ Ids(s) = Ids(orders)
  <2>1. Ids(s) = Ids(orders)
    BY DEF Ids
  <2>2. orders \in Seq(Order) /\ nextOrderId \in Nat \ {0}
    BY DEF Coherent, TypeOK
  <2> QED
    BY <2>1, <2>2
<1>3. row \in Order /\ row.id = nextOrderId
  BY NumberedTyped DEF Coherent
<1> HIDE DEF row
<1>4. /\ after \in Seq(Order) /\ Len(after) = Len(s) + 1
      /\ \A i \in DOMAIN s : after[i] = s[i]
      /\ after[Len(s) + 1] = row
      /\ DOMAIN after = DOMAIN s \cup {Len(s) + 1}
      /\ Len(s) + 1 \notin DOMAIN s
  BY <1>2, <1>3
<1>5. Ids(after) = Ids(orders) \cup {nextOrderId}
  <2>1. Ids(after) = {after[i].id : i \in DOMAIN s} \cup {row.id}
    BY <1>4 DEF Ids
  <2>2. Ids(s) = {after[i].id : i \in DOMAIN s}
    BY <1>4 DEF Ids
  <2> QED
    BY <1>2, <1>3, <2>1, <2>2
<1>6. \A i \in DOMAIN s : /\ s[i].id \in Nat /\ s[i].id < nextOrderId /\ s[i].id \in Ids(orders)
                          /\ idToIndex[s[i].id] = i
  <2> SUFFICES ASSUME NEW i \in DOMAIN s
               PROVE  /\ s[i].id \in Nat /\ s[i].id < nextOrderId /\ s[i].id \in Ids(orders)
                      /\ idToIndex[s[i].id] = i
    OBVIOUS
  <2>1. s[i] \in Order
    BY DEF Coherent
  <2> QED
    BY <2>1, OrderFields DEF Coherent, IdsAscending, IndexExact, Ids
<1>7. DOMAIN idToIndex = Ids(orders) /\ nextOrderId \notin Ids(orders)
  BY <1>2, <1>6 DEF Coherent, IndexExact, Ids
<1>8. IndexExact'
  <2>1. DOMAIN idToIndex' = Ids(orders')
    BY <1>1, <1>5, <1>7
  <2>2. ASSUME NEW i \in DOMAIN s PROVE idToIndex'[orders'[i].id] = i
    <3>1. orders'[i] = s[i]
      BY <1>1, <1>4
    <3> QED
      BY <3>1, <1>1, <1>6, <1>7
  <2>3. idToIndex'[orders'[Len(s) + 1].id] = Len(s) + 1
    BY <1>1, <1>3, <1>4
  <2> QED
    BY <2>1, <2>2, <2>3, <1>1, <1>4 DEF IndexExact
<1>9. IdsAscending'
  <2>1. ASSUME NEW i \in DOMAIN after PROVE after[i].id < nextOrderId + 1
    <3>1. CASE i \in DOMAIN s
      BY <3>1, <1>2, <1>4, <1>6
    <3>2. CASE i = Len(s) + 1
      BY <3>2, <1>2, <1>3, <1>4
    <3> QED
      BY <3>1, <3>2, <1>4
  <2>2. ASSUME NEW i \in DOMAIN after, NEW j \in DOMAIN after, i < j
        PROVE  after[i].id < after[j].id
    <3>1. i \in DOMAIN s
      BY <1>2, <1>4, <2>2
    <3>2. CASE j \in DOMAIN s
      BY <2>2, <3>1, <3>2, <1>4 DEF Coherent, IdsAscending
    <3>3. CASE j = Len(s) + 1
      BY <3>1, <3>3, <1>3, <1>4, <1>6
    <3> QED
      BY <3>2, <3>3, <1>4
  <2> QED
    BY <2>1, <2>2, <1>1 DEF IdsAscending
<1>10. /\ derived' \in Seq(SeenOrder) /\ derivedDirty' \in BOOLEAN /\ prioritiesDirty' \in BOOLEAN
       /\ DerivedAgrees'
  BY <1>1, <1>4, MarkedDirty DEF Coherent
<1>11. DOMAIN idToIndex' \subseteq Nat /\ idToIndex' \in [DOMAIN idToIndex' -> Nat]
  <2>1. DOMAIN idToIndex \subseteq Nat /\ idToIndex \in [DOMAIN idToIndex -> Nat]
    BY DEF Coherent, TypeOK
  <2> QED
    BY <1>1, <1>2, <2>1
<1>12. TypeOK'
  BY <1>1, <1>2, <1>4, <1>10, <1>11 DEF Coherent, TypeOK
<1> QED
  BY <1>8, <1>9, <1>10, <1>12 DEF Coherent

LEMMA EnqueueKeeps ==
    ASSUME Coherent, NEW t \in Templates, NEW parent \in Ids(orders) \cup {0},
           EnqueueOrder(t, parent), UNCHANGED planOrder
    PROVE  Coherent'
<1>1. orders \in Seq(Order) /\ t \in Template /\ EnqueueAfter(orders, t, parent)
  BY TemplateAssumption DEF Coherent, TypeOK, EnqueueOrder
<1>2. parent \in Nat
  <2>1. \A i \in DOMAIN orders : orders[i].id \in Nat
    BY <1>1, OrderFields
  <2> QED
    BY <2>1 DEF Ids
<1>3. DOMAIN planOrder' \subseteq TaskIds /\ planOrder' \in [DOMAIN planOrder' -> Nat]
  BY DEF Coherent, TypeOK
<1> QED
  BY <1>1, <1>2, <1>3, EnqueueAfterKeeps

(* The shared part of every step that rewrites rows.                        *)
LEMMA RetouchKeeps ==
    ASSUME Coherent, Retouched, UNCHANGED planOrder, batchDepth' \in Nat,
           derivedDirty' \in BOOLEAN, prioritiesDirty' \in BOOLEAN,
           derived' \in Seq(SeenOrder), DerivedAgrees'
    PROVE  Coherent'
<1>1. IndexExact' /\ IdsAscending'
  BY RetouchedIndex DEF Coherent
<1>2. TypeOK'
  BY DEF Coherent, TypeOK, Retouched
<1> QED
  BY <1>1, <1>2 DEF Coherent

(* Rewriting a row where the view does not look leaves the derived side     *)
(* right, dirty or not.                                                     *)
LEMMA RewriteKeeps ==
    ASSUME Coherent, NEW id, HasOrder(id), NEW o \in Order, o.id = id, Seen(o) = Seen(At(id)),
           Rewrite(id, o), prioritiesDirty' \in BOOLEAN, UNCHANGED planOrder
    PROVE  Coherent' /\ Retouched
<1>1. /\ orders' = [orders EXCEPT ![idToIndex[id]] = o]
      /\ UNCHANGED <<nextOrderId, idToIndex, batchDepth, derivedDirty, derived>>
  BY DEF Rewrite
<1>2. Retouched /\ View(orders') = View(orders)
  BY <1>1, Replaced DEF Coherent
<1>3. DerivedAgrees'
  BY <1>1, <1>2 DEF Coherent, DerivedAgrees
<1> QED
  BY <1>1, <1>2, <1>3, RetouchKeeps DEF Coherent, TypeOK

(* The rows the setters write are orders with the id they had.              *)
LEMMA RowEdits ==
    ASSUME NEW o \in Order
    PROVE  /\ \A s \in States : Moved(o, s) \in Order /\ Moved(o, s).id = o.id
           /\ \A reason \in Reasons :
                /\ Deferred(o, reason) \in Order /\ Deferred(o, reason).id = o.id
                /\ Seen(Deferred(o, reason)) = Seen(o)
           /\ Undeferred(o) \in Order /\ Undeferred(o).id = o.id /\ Seen(Undeferred(o)) = Seen(o)
<1>1. ASSUME NEW s \in States PROVE Moved(o, s) \in Order /\ Moved(o, s).id = o.id
  <2>1. Moved(o, s) = [o EXCEPT !.state = s, !.slot = NoSlot] \/ Moved(o, s) = [o EXCEPT !.state = s]
    BY DEF Moved, Order
  <2> QED
    BY <2>1 DEF Order
<1>2. ASSUME NEW reason \in Reasons
      PROVE  /\ Deferred(o, reason) \in Order /\ Deferred(o, reason).id = o.id
             /\ Seen(Deferred(o, reason)) = Seen(o)
  <2> DEFINE n == IF o.reason = reason THEN o.deferrals + 1 ELSE 1
  <2>1. n \in Nat
    BY DEF Order
  <2>2. Deferred(o, reason) = [o EXCEPT !.reason = reason, !.deferrals = n]
    BY DEF Deferred
  <2> HIDE DEF n
  <2> QED
    BY <2>1, <2>2 DEF Order, Seen
<1>3. Undeferred(o) \in Order /\ Undeferred(o).id = o.id /\ Seen(Undeferred(o)) = Seen(o)
  BY DEF Undeferred, Order, Seen
<1> QED
  BY <1>1, <1>2, <1>3

LEMMA LifecycleKeeps ==
    ASSUME Coherent, NEW id, NEW s \in Moves, SetOrderLifecycleState(id, s), UNCHANGED planOrder
    PROVE  Coherent' /\ Retouched
<1> DEFINE o == Moved(At(id), s)
           after == [orders EXCEPT ![idToIndex[id]] = o]
<1>1. /\ HasOrder(id) /\ orders' = after /\ MarkDerivedQueuesDirty(after)
      /\ UNCHANGED <<nextOrderId, idToIndex, batchDepth>>
  BY DEF SetOrderLifecycleState, At
<1>2. At(id) \in Order /\ At(id).id = id
  BY <1>1, OrderAt DEF Coherent
<1>3. o \in Order /\ o.id = id
  BY <1>2, RowEdits, TemplateAssumption
<1> HIDE DEF o
<1>4. Retouched
  BY <1>1, <1>3, Replaced DEF Coherent
<1>5. after \in Seq(Order)
  BY <1>1, <1>4 DEF Retouched
<1>6. /\ derived' \in Seq(SeenOrder) /\ derivedDirty' \in BOOLEAN /\ prioritiesDirty' \in BOOLEAN
      /\ DerivedAgrees'
  BY <1>1, <1>5, MarkedDirty DEF Coherent
<1> QED
  BY <1>1, <1>4, <1>6, RetouchKeeps DEF Coherent, TypeOK

LEMMA DeferralKeeps ==
    ASSUME Coherent, NEW id, NEW reason \in Reasons, SetOrderDeferralState(id, reason),
           UNCHANGED planOrder
    PROVE  Coherent' /\ Retouched
<1>1. HasOrder(id) /\ Rewrite(id, Deferred(At(id), reason)) /\ prioritiesDirty' \in BOOLEAN
  BY Zenon DEF SetOrderDeferralState
<1>2. At(id) \in Order /\ At(id).id = id
  BY <1>1, OrderAt DEF Coherent
<1> QED
  BY <1>1, <1>2, RowEdits, RewriteKeeps

LEMMA ClearKeeps ==
    ASSUME Coherent, NEW id, ClearOrderDeferralState(id), UNCHANGED planOrder
    PROVE  Coherent' /\ Retouched
<1>1. HasOrder(id) /\ Rewrite(id, Undeferred(At(id))) /\ prioritiesDirty' \in BOOLEAN
  BY Zenon DEF ClearOrderDeferralState
<1>2. At(id) \in Order /\ At(id).id = id
  BY <1>1, OrderAt DEF Coherent
<1> QED
  BY <1>1, <1>2, RowEdits, RewriteKeeps

LEMMA DispatchKeeps ==
    ASSUME Coherent, NEW id, SetOrderDispatchState(id), UNCHANGED planOrder
    PROVE  Coherent' /\ Retouched
<1> DEFINE o == [Undeferred(At(id)) EXCEPT !.attempts = @ + 1]
<1>1. HasOrder(id) /\ Rewrite(id, o) /\ UNCHANGED prioritiesDirty
  BY DEF SetOrderDispatchState
<1>2. At(id) \in Order /\ At(id).id = id
  BY <1>1, OrderAt DEF Coherent
<1>3. Undeferred(At(id)) \in Order /\ Undeferred(At(id)).id = id /\ Seen(Undeferred(At(id))) = Seen(At(id))
  BY <1>2, RowEdits
<1>4. o \in Order /\ o.id = id /\ Seen(o) = Seen(Undeferred(At(id)))
  BY <1>3 DEF Order, Seen
<1>5. prioritiesDirty' \in BOOLEAN
  BY <1>1 DEF Coherent, TypeOK
<1> HIDE DEF o
<1> QED
  BY <1>1, <1>3, <1>4, <1>5, RewriteKeeps

LEMMA SlotKeeps ==
    ASSUME Coherent, NEW id, NEW slot \in Slots \cup {NoSlot}, SetOrderReservedPlacementSlot(id, slot),
           UNCHANGED planOrder
    PROVE  Coherent' /\ Retouched
<1> DEFINE o == [At(id) EXCEPT !.slot = slot]
<1>1. HasOrder(id) /\ Rewrite(id, o) /\ UNCHANGED prioritiesDirty
  BY DEF SetOrderReservedPlacementSlot
<1>2. At(id) \in Order /\ At(id).id = id
  BY <1>1, OrderAt DEF Coherent
<1>3. o \in Order /\ o.id = id /\ Seen(o) = Seen(At(id))
  BY <1>2 DEF Order, Seen
<1>4. prioritiesDirty' \in BOOLEAN
  BY <1>1 DEF Coherent, TypeOK
<1> HIDE DEF o
<1> QED
  BY <1>1, <1>3, <1>4, RewriteKeeps

LEMMA RankingKeeps ==
    ASSUME Coherent, UpdateTaskPriorities, UNCHANGED planOrder
    PROVE  Coherent' /\ Retouched
<1>1. PICK rankOf \in [DOMAIN orders -> Ranks] :
         /\ orders' = [i \in DOMAIN orders |-> [orders[i] EXCEPT !.rank = rankOf[i]]]
         /\ IF batchDepth = 0
            THEN derivedDirty' = FALSE /\ derived' = View(orders')
            ELSE derivedDirty' = TRUE /\ UNCHANGED derived
  BY DEF UpdateTaskPriorities
<1>2. prioritiesDirty' = FALSE /\ UNCHANGED <<nextOrderId, idToIndex, batchDepth>>
  BY DEF UpdateTaskPriorities
<1>3. orders \in Seq(Order) /\ DOMAIN orders = 1 .. Len(orders) /\ Len(orders) \in Nat
  BY DEF Coherent, TypeOK
<1>4. \A i \in DOMAIN orders : orders'[i] \in Order /\ orders'[i].id = orders[i].id
  <2> TAKE i \in DOMAIN orders
  <2>1. orders[i] \in Order /\ rankOf[i] \in Ranks /\ orders'[i] = [orders[i] EXCEPT !.rank = rankOf[i]]
    BY <1>1, <1>3
  <2> QED
    BY <2>1 DEF Order
<1>5. DOMAIN orders' = DOMAIN orders /\ orders' \in Seq(Order)
  BY <1>1, <1>3, <1>4
<1>6. Retouched
  BY <1>2, <1>4, <1>5 DEF Retouched
<1>7. View(orders') \in Seq(SeenOrder)
  BY <1>5, ViewLemma
<1>8. derived' \in Seq(SeenOrder)
  BY <1>1, <1>7 DEF Coherent, TypeOK
<1>9. derivedDirty' \in BOOLEAN /\ prioritiesDirty' \in BOOLEAN
  BY <1>1, <1>2, Zenon
<1>10. DerivedAgrees'
  <2>1. CASE batchDepth = 0
    BY <2>1, <1>1, <1>2, Zenon DEF DerivedAgrees
  <2>2. CASE batchDepth # 0
    BY <2>2, <1>1, <1>2, Zenon DEF DerivedAgrees
  <2> QED
    BY <2>1, <2>2
<1>11. batchDepth' \in Nat
  BY <1>2 DEF Coherent, TypeOK
<1> QED
  BY <1>6, <1>8, <1>9, <1>10, <1>11, RetouchKeeps

(* In a table with ascending ids a row is found by its id.                  *)
LEMMA IndexOfLemma ==
    ASSUME NEW s \in Seq(Order), \A i, j \in DOMAIN s : i < j => s[i].id < s[j].id
    PROVE  /\ DOMAIN IndexOf(s) = Ids(s)
           /\ \A i \in DOMAIN s : IndexOf(s)[s[i].id] = i
<1>1. ASSUME NEW i \in DOMAIN s, NEW j \in DOMAIN s, s[i].id = s[j].id PROVE i = j
  <2>1. i \in Nat /\ j \in Nat /\ s[i].id \in Nat /\ s[j].id \in Nat
    BY OrderFields
  <2>2. ~(i < j) /\ ~(j < i)
    BY <1>1, <2>1
  <2> QED
    BY <2>1, <2>2
<1>2. ASSUME NEW i \in DOMAIN s PROVE IndexOf(s)[s[i].id] = i
  <2>1. s[i].id \in Ids(s)
    BY DEF Ids
  <2>2. IndexOf(s)[s[i].id] = CHOOSE j \in DOMAIN s : s[j].id = s[i].id
    BY <2>1 DEF IndexOf
  <2> QED
    BY <2>2, <1>1
<1> QED
  BY <1>2 DEF IndexOf

LEMMA CompactionKeeps ==
    ASSUME Coherent, CompactTerminalOrders, UNCHANGED planOrder
    PROVE  Coherent'
<1>1. /\ orders' \in KeptAt(orders, Retained) /\ idToIndex' = IndexOf(orders')
      /\ MarkDerivedQueuesDirty(orders') /\ UNCHANGED <<nextOrderId, batchDepth>>
  BY DEF CompactTerminalOrders
<1>2. orders \in Seq(Order) /\ Retained \in SUBSET DOMAIN orders
  BY DEF Coherent, TypeOK, Retained
<1>3. orders' \in Seq(Order) /\ \E f : Reads(orders', f, orders, Retained)
  BY <1>1, <1>2, KeptAtLemma
<1>4. IdsAscending'
  <2> PICK f : Reads(orders', f, orders, Retained)
    BY <1>3
  <2>1. \A a, b \in DOMAIN orders' : a < b => orders'[a].id < orders'[b].id
    BY <1>2 DEF Reads, Coherent, IdsAscending
  <2>2. \A a \in DOMAIN orders' : orders'[a].id < nextOrderId'
    BY <1>1, <1>2 DEF Reads, Coherent, IdsAscending
  <2> QED
    BY <2>1, <2>2 DEF IdsAscending
<1>5. IndexExact'
  <2>1. /\ DOMAIN IndexOf(orders') = Ids(orders')
        /\ \A i \in DOMAIN orders' : IndexOf(orders')[orders'[i].id] = i
    BY <1>3, <1>4, IndexOfLemma DEF IdsAscending
  <2> QED
    BY <1>1, <2>1 DEF IndexExact
<1>6. DOMAIN idToIndex' \subseteq Nat /\ idToIndex' \in [DOMAIN idToIndex' -> Nat]
  <2>1. DOMAIN idToIndex' = Ids(orders')
    BY <1>5 DEF IndexExact
  <2>2. \A i \in DOMAIN orders' : i \in Nat /\ orders'[i].id \in Nat /\ idToIndex'[orders'[i].id] = i
    BY <1>3, <1>5, OrderFields DEF IndexExact
  <2>3. \A id \in Ids(orders') : id \in Nat /\ idToIndex'[id] \in Nat
    BY <2>2 DEF Ids
  <2>4. idToIndex' = [id \in DOMAIN idToIndex' |-> idToIndex'[id]]
    BY <1>1 DEF IndexOf
  <2> QED
    BY <2>1, <2>3, <2>4
<1>7. /\ derived' \in Seq(SeenOrder) /\ derivedDirty' \in BOOLEAN /\ prioritiesDirty' \in BOOLEAN
      /\ DerivedAgrees'
  BY <1>1, <1>3, MarkedDirty DEF Coherent
<1>8. TypeOK'
  <2>1. nextOrderId' \in Nat \ {0} /\ batchDepth' \in Nat
    BY <1>1 DEF Coherent, TypeOK
  <2>2. DOMAIN planOrder' \subseteq TaskIds /\ planOrder' \in [DOMAIN planOrder' -> Nat]
    BY DEF Coherent, TypeOK
  <2> QED
    BY <2>1, <2>2, <1>3, <1>6, <1>7, Zenon DEF TypeOK
<1> QED
  BY <1>4, <1>5, <1>7, <1>8 DEF Coherent

LEMMA BatchKeeps ==
    ASSUME Coherent, BeginMutationBatch \/ EndMutationBatch \/ StimulusChanged, UNCHANGED planOrder
    PROVE  Coherent' /\ Retouched
<1>1. Retouched
  BY DEF BeginMutationBatch, EndMutationBatch, StimulusChanged, Retouched, Coherent, TypeOK
<1>2. View(orders) \in Seq(SeenOrder) /\ orders' = orders
  BY ViewLemma DEF Coherent, TypeOK, BeginMutationBatch, EndMutationBatch, StimulusChanged
<1>3. derived' \in Seq(SeenOrder)
  BY <1>2 DEF BeginMutationBatch, EndMutationBatch, StimulusChanged, Coherent, TypeOK
<1>4. batchDepth' \in Nat
  BY DEF BeginMutationBatch, EndMutationBatch, StimulusChanged, Coherent, TypeOK
<1>5. derivedDirty' \in BOOLEAN /\ prioritiesDirty' \in BOOLEAN
  BY Zenon DEF BeginMutationBatch, EndMutationBatch, StimulusChanged, Coherent, TypeOK
<1>6. DerivedAgrees'
  <2>1. CASE BeginMutationBatch
    <3>1. batchDepth' # 0
      BY <2>1 DEF BeginMutationBatch, Coherent, TypeOK
    <3> QED
      BY <2>1, <3>1, <1>2 DEF BeginMutationBatch, Coherent, DerivedAgrees
  <2>2. CASE EndMutationBatch
    <3>1. batchDepth \in Nat \ {0} /\ batchDepth' = batchDepth - 1
      BY <2>2 DEF EndMutationBatch, Coherent, TypeOK
    <3>2. batchDepth' = 0 => batchDepth = 1
      BY <3>1
    <3>3. CASE batchDepth = 1 /\ derivedDirty
      BY <2>2, <3>3, <1>2 DEF EndMutationBatch, DerivedAgrees
    <3>4. CASE ~(batchDepth = 1 /\ derivedDirty)
      BY <2>2, <3>2, <3>4, <1>2 DEF EndMutationBatch, Coherent, DerivedAgrees
    <3> QED
      BY <3>3, <3>4
  <2>3. CASE StimulusChanged
    BY <2>3, <1>2 DEF StimulusChanged, Coherent, DerivedAgrees
  <2> QED
    BY <2>1, <2>2, <2>3
<1> QED
  BY <1>1, <1>3, <1>4, <1>5, <1>6, RetouchKeeps

LEMMA PlanKeeps ==
    ASSUME Coherent, NEW step \in TaskIds,
           UnseedPlan(step) \/ \E id \in Ids(orders) : SeedPlan(step, id)
    PROVE  Coherent' /\ Retouched
<1>1. UNCHANGED <<orders, nextOrderId, idToIndex, batchDepth, derivedDirty, prioritiesDirty, derived>>
  BY DEF UnseedPlan, SeedPlan
<1>2. DOMAIN planOrder' \subseteq TaskIds /\ planOrder' \in [DOMAIN planOrder' -> Nat]
  <2>1. CASE UnseedPlan(step)
    BY <2>1 DEF UnseedPlan, Unseeded, Coherent, TypeOK
  <2>2. ASSUME NEW id \in Ids(orders), SeedPlan(step, id)
        PROVE  DOMAIN planOrder' \subseteq TaskIds /\ planOrder' \in [DOMAIN planOrder' -> Nat]
    <3>1. \A i \in DOMAIN orders : orders[i].id \in Nat
      BY OrderFields DEF Coherent, TypeOK
    <3>2. id \in Nat
      BY <3>1 DEF Ids
    <3> QED
      BY <2>2, <3>2 DEF SeedPlan, Recorded, Coherent, TypeOK
  <2> QED
    BY <2>1, <2>2
<1>3. TypeOK'
  BY <1>1, <1>2 DEF Coherent, TypeOK
<1>4. IndexExact' /\ IdsAscending' /\ DerivedAgrees'
  BY <1>1 DEF Coherent, IndexExact, IdsAscending, DerivedAgrees
<1>5. Retouched
  BY <1>1 DEF Retouched, Coherent, TypeOK
<1> QED
  BY <1>3, <1>4, <1>5 DEF Coherent

(* A step rewrites rows in place, appends one, or compacts.                 *)
Shape ==
    \/ Retouched
    \/ \E row : orders' = Append(orders, row)
    \/ CompactTerminalOrders

LEMMA StepCoherent == Coherent /\ [Next]_vars => Coherent' /\ Shape
<1> SUFFICES ASSUME Coherent, [Next]_vars PROVE Coherent' /\ Shape
  OBVIOUS
<1>1. ASSUME Mutate, UNCHANGED planOrder PROVE Coherent' /\ Shape
  <2>1. ASSUME NEW t \in Templates, NEW parent \in Ids(orders) \cup {0}, EnqueueOrder(t, parent)
        PROVE  Coherent' /\ Shape
    BY <1>1, <2>1, EnqueueKeeps DEF EnqueueOrder, EnqueueAfter, Shape
  <2>2. ASSUME NEW id \in Ids(orders), NEW s \in Moves, SetOrderLifecycleState(id, s) PROVE Coherent' /\ Shape
    BY <1>1, <2>2, LifecycleKeeps DEF Shape
  <2>3. ASSUME NEW id \in Ids(orders), NEW reason \in Reasons, SetOrderDeferralState(id, reason)
        PROVE  Coherent' /\ Shape
    BY <1>1, <2>3, DeferralKeeps DEF Shape
  <2>4. ASSUME NEW id \in Ids(orders), ClearOrderDeferralState(id) PROVE Coherent' /\ Shape
    BY <1>1, <2>4, ClearKeeps DEF Shape
  <2>5. ASSUME NEW id \in Ids(orders), SetOrderDispatchState(id) PROVE Coherent' /\ Shape
    BY <1>1, <2>5, DispatchKeeps DEF Shape
  <2>6. ASSUME NEW id \in Ids(orders), NEW slot \in Slots \cup {NoSlot},
               SetOrderReservedPlacementSlot(id, slot)
        PROVE  Coherent' /\ Shape
    BY <1>1, <2>6, SlotKeeps DEF Shape
  <2>7. CASE CompactTerminalOrders
    BY <1>1, <2>7, CompactionKeeps DEF Shape
  <2>8. CASE UpdateTaskPriorities
    BY <1>1, <2>8, RankingKeeps DEF Shape
  <2>9. CASE BeginMutationBatch \/ EndMutationBatch \/ StimulusChanged
    BY <1>1, <2>9, BatchKeeps DEF Shape
  <2> QED
    BY <1>1, <2>1, <2>2, <2>3, <2>4, <2>5, <2>6, <2>7, <2>8, <2>9 DEF Mutate
<1>2. ASSUME NEW step \in TaskIds, UnseedPlan(step) \/ \E id \in Ids(orders) : SeedPlan(step, id)
      PROVE  Coherent' /\ Shape
  BY <1>2, PlanKeeps DEF Shape
<1>3. CASE UNCHANGED vars
  <2>1. TypeOK'
    BY <1>3 DEF vars, Coherent, TypeOK
  <2>2. IndexExact' /\ IdsAscending' /\ DerivedAgrees'
    BY <1>3 DEF vars, Coherent, IndexExact, IdsAscending, DerivedAgrees
  <2>3. Retouched
    BY <1>3 DEF vars, Retouched, Coherent, TypeOK
  <2> QED
    BY <2>1, <2>2, <2>3 DEF Coherent, Shape
<1> QED
  BY <1>1, <1>2, <1>3 DEF Next
-----------------------------------------------------------------------------
(* The inductive invariant holds in every reachable state.                  *)
THEOREM CoherentAlways == Spec => []Coherent
<1>1. Init => Coherent
  BY InitCoherent
<1>2. Coherent /\ [Next]_vars => Coherent'
  BY StepCoherent
<1> QED
  BY <1>1, <1>2, PTL DEF Spec

(* The table and everything beside it keep their types.                     *)
THEOREM TypeCorrect == Spec => []TypeOK
<1>1. Coherent => TypeOK
  BY DEF Coherent
<1> QED
  BY <1>1, CoherentAlways, PTL

(* OrderIdToIndex finds every row and nothing else, whatever is appended,   *)
(* rewritten or compacted.                                                  *)
THEOREM IndexAlwaysExact == Spec => []IndexExact
<1>1. Coherent => IndexExact
  BY DEF Coherent
<1> QED
  BY <1>1, CoherentAlways, PTL

(* The rows stay in the order their ids were handed out; no id is reused.   *)
THEOREM IdsAlwaysAscending == Spec => []IdsAscending
<1>1. Coherent => IdsAscending
  BY DEF Coherent
<1> QED
  BY <1>1, CoherentAlways, PTL

(* Outside a batch the queues and indices are those of the table.           *)
THEOREM QueuesAlwaysSettled == Spec => []QueuesSettled
<1>1. Coherent => QueuesSettled
  BY DEF Coherent, DerivedAgrees, QueuesSettled
<1> QED
  BY <1>1, CoherentAlways, PTL
-----------------------------------------------------------------------------
(* Index and scan agree.                                                    *)

LEMMA ViewAnswers ==
    ASSUME TypeOK
    PROVE  /\ LiveAt(View(orders)) = LiveAt(orders)
           /\ \A id \in Nat \ {0}, layer \in Layers :
                 IndexedChild(View(orders), id, layer) = ScannedChild(id, layer)
           /\ \A actor \in Actors : IndexedExecution(View(orders), actor) = ScannedExecution(actor)
           /\ \A goal : IndexedStrategic(View(orders), goal) = ScannedStrategic(goal)
           /\ \A layer : ActiveCount(View(orders), layer) = ActiveCount(orders, layer)
<1>1. /\ DOMAIN View(orders) = DOMAIN orders
      /\ \A i \in DOMAIN orders :
            /\ View(orders)[i].state = orders[i].state /\ View(orders)[i].layer = orders[i].layer
            /\ View(orders)[i].parent = orders[i].parent /\ View(orders)[i].actor = orders[i].actor
            /\ View(orders)[i].goal = orders[i].goal
  BY DEF View, Seen
<1> DEFINE v == View(orders)
<1> HIDE DEF v
<1>2. /\ LiveAt(v) = LiveAt(orders)
      /\ \A i \in LiveAt(orders) :
            /\ v[i].layer = orders[i].layer /\ v[i].parent = orders[i].parent
            /\ v[i].actor = orders[i].actor /\ v[i].goal = orders[i].goal
  BY <1>1 DEF LiveAt, v
<1>3. ASSUME NEW id \in Nat \ {0}, NEW layer \in Layers
      PROVE  IndexedChild(v, id, layer) = ScannedChild(id, layer)
  <2>1. {i \in LiveAt(v) : id # 0 /\ v[i].parent = id /\ v[i].layer = layer}
          = {i \in LiveAt(orders) : orders[i].parent = id /\ orders[i].layer = layer}
    BY <1>2
  <2> QED
    BY <2>1 DEF IndexedChild, ScannedChild
<1>4. ASSUME NEW actor \in Actors PROVE IndexedExecution(v, actor) = ScannedExecution(actor)
  <2>1. {i \in LiveAt(v) : actor # NoActor /\ v[i].layer = "UnitExecution" /\ v[i].actor = actor}
          = {i \in LiveAt(orders) : orders[i].layer = "UnitExecution" /\ orders[i].actor = actor}
    BY <1>2, NullAssumption
  <2> QED
    BY <2>1 DEF IndexedExecution, ScannedExecution
<1>5. ASSUME NEW goal PROVE IndexedStrategic(v, goal) = ScannedStrategic(goal)
  <2>1. {i \in LiveAt(v) : goal # 0 /\ v[i].layer = "StrategicDirector" /\ v[i].goal = goal}
          = {i \in LiveAt(orders) : goal # 0 /\ orders[i].layer = "StrategicDirector" /\ orders[i].goal = goal}
    BY <1>2
  <2> QED
    BY <2>1 DEF IndexedStrategic, ScannedStrategic
<1>6. ASSUME NEW layer PROVE ActiveCount(v, layer) = ActiveCount(orders, layer)
  <2>1. {i \in LiveAt(v) : v[i].layer = layer} = {i \in LiveAt(orders) : orders[i].layer = layer}
    BY <1>2
  <2> QED
    BY <2>1 DEF ActiveCount
<1> QED
  BY <1>2, <1>3, <1>4, <1>5, <1>6 DEF v

(* What a lookup answers does not depend on whether its caller is inside a  *)
(* dirty batch.                                                             *)
THEOREM LookupsAlwaysFresh == Spec => []LookupsFresh
<1>1. ASSUME Coherent PROVE LookupsFresh
  <2>1. CASE derivedDirty
    BY <2>1 DEF LookupsFresh, TryGetActiveChildOrderIndex, TryGetActiveExecutionOrderIndexForActor,
                HasActiveStrategicOrderForGoalId, GetActiveOrderCountForLayer
  <2>2. CASE ~derivedDirty
    <3>1. derived = View(orders) /\ TypeOK
      BY <1>1, <2>2 DEF Coherent, DerivedAgrees
    <3>2. \A id \in Ids(orders) : id \in Nat \ {0}
      <4>1. \A i \in DOMAIN orders : orders[i].id \in Nat \ {0}
        BY <3>1, OrderFields DEF TypeOK
      <4> QED
        BY <4>1 DEF Ids
    <3> QED
      BY <2>2, <3>1, <3>2, ViewAnswers
      DEF LookupsFresh, TryGetActiveChildOrderIndex, TryGetActiveExecutionOrderIndexForActor,
          HasActiveStrategicOrderForGoalId, GetActiveOrderCountForLayer
  <2> QED
    BY <2>1, <2>2
<1> QED
  BY <1>1, CoherentAlways, PTL
-----------------------------------------------------------------------------
(* Action properties.                                                       *)

(* Inside a batch the derived side does not move.                           *)
THEOREM BatchFreezes == Spec => FrozenInBatch
<1>1. Coherent /\ [Next]_vars => [batchDepth > 0 /\ batchDepth' > 0 => derived' = derived]_vars
  <2> SUFFICES ASSUME Coherent, [Next]_vars, batchDepth > 0, batchDepth' > 0
               PROVE  derived' = derived
    OBVIOUS
  <2>1. batchDepth \in Nat /\ batchDepth # 0
    BY DEF Coherent, TypeOK
  <2>2. ASSUME NEW s, MarkDerivedQueuesDirty(s) PROVE derived' = derived
    BY <2>1, <2>2 DEF MarkDerivedQueuesDirty
  <2>3. CASE EndMutationBatch
    <3>1. batchDepth # 1
      BY <2>1, <2>3 DEF EndMutationBatch
    <3> QED
      BY <2>3, <3>1 DEF EndMutationBatch
  <2>4. CASE UpdateTaskPriorities
    BY <2>1, <2>4 DEF UpdateTaskPriorities
  <2>5. ASSUME NEW id, NEW x,
               \/ SetOrderDeferralState(id, x) \/ ClearOrderDeferralState(id)
               \/ SetOrderDispatchState(id) \/ SetOrderReservedPlacementSlot(id, x)
        PROVE  derived' = derived
    BY <2>5 DEF SetOrderDeferralState, ClearOrderDeferralState, SetOrderDispatchState,
                SetOrderReservedPlacementSlot, Rewrite
  <2>6. ASSUME NEW t, NEW parent, EnqueueOrder(t, parent) PROVE derived' = derived
    BY <2>2, <2>6 DEF EnqueueOrder, EnqueueAfter
  <2>7. ASSUME NEW id, NEW s, SetOrderLifecycleState(id, s) PROVE derived' = derived
    BY <2>2, <2>7 DEF SetOrderLifecycleState
  <2>8. CASE CompactTerminalOrders
    BY <2>2, <2>8 DEF CompactTerminalOrders
  <2>9. CASE BeginMutationBatch \/ StimulusChanged \/ UNCHANGED vars
    BY <2>9 DEF BeginMutationBatch, StimulusChanged, vars
  <2>10. ASSUME NEW step, UnseedPlan(step) \/ \E id \in Ids(orders) : SeedPlan(step, id)
         PROVE  derived' = derived
    BY <2>10 DEF UnseedPlan, SeedPlan
  <2> QED
    BY <2>3, <2>4, <2>5, <2>6, <2>7, <2>8, <2>9, <2>10 DEF Next, Mutate
<1> QED
  BY <1>1, CoherentAlways, PTL DEF Spec, FrozenInBatch

(* Compaction keeps every row ShouldCompactTerminalOrder does not name.     *)
LEMMA CompactedSpent ==
    ASSUME Coherent, CompactTerminalOrders, NEW i \in DOMAIN orders, orders[i].id \notin Ids(orders')
    PROVE  ShouldCompactTerminalOrder(orders[i])
<1>1. orders \in Seq(Order) /\ Retained \in SUBSET DOMAIN orders
  BY DEF Coherent, TypeOK, Retained
<1>2. PICK f : Reads(orders', f, orders, Retained)
  BY <1>1, KeptAtLemma DEF CompactTerminalOrders
<1>3. \A k \in Retained : orders[k].id \in Ids(orders')
  <2>1. \A k \in Retained : \E a \in DOMAIN orders' : orders'[a] = orders[k]
    BY <1>2 DEF Reads
  <2> QED
    BY <2>1 DEF Ids
<1> QED
  BY <1>3 DEF Retained

(* What compaction takes is terminal, has no live order below it and is not *)
(* unfinished opening work that is still seeded.                            *)
THEOREM SpentRows == Spec => OnlySpentRowsLeave
<1> DEFINE
      Spent(i) ==
        /\ Terminal(orders[i])
        /\ \A j \in DOMAIN orders : orders[j].parent = orders[i].id => Terminal(orders[j])
        /\ ~(/\ HasSeededStep(orders[i].task) /\ orders[i].layer # "UnitExecution"
             /\ orders[i].state \in {"Aborted", "Expired"})
<1>1. ASSUME Coherent, [Next]_vars
      PROVE  /\ \A i \in DOMAIN orders : orders[i].id \notin Ids(orders') => Spent(i)
             /\ Len(orders') < Len(orders) =>
                   \A i \in DOMAIN orders' : \E j \in DOMAIN orders : orders'[i] = orders[j]
  <2>1. orders \in Seq(Order)
    BY <1>1 DEF Coherent, TypeOK
  <2>2. CASE Retouched
    <3>1. Ids(orders') = Ids(orders) /\ \A i \in DOMAIN orders : orders[i].id \in Ids(orders)
      BY <2>2 DEF Retouched, Ids
    <3>2. Len(orders') = Len(orders)
      BY <2>1, <2>2 DEF Retouched
    <3>3. ~(Len(orders') < Len(orders))
      BY <2>1, <3>2
    <3> QED
      BY <3>1, <3>3
  <2>3. ASSUME NEW row, orders' = Append(orders, row)
        PROVE  (\A i \in DOMAIN orders : orders[i].id \in Ids(orders')) /\ ~(Len(orders') < Len(orders))
    <3>1. orders \in Seq(Order \cup {row}) /\ row \in Order \cup {row}
      BY <2>1
    <3>2. /\ \A i \in DOMAIN orders : i \in DOMAIN orders' /\ orders'[i] = orders[i]
          /\ ~(Len(orders') < Len(orders))
      BY <2>3, <3>1
    <3> QED
      BY <3>2 DEF Ids
  <2>4. CASE CompactTerminalOrders
    <3>1. ASSUME NEW i \in DOMAIN orders, orders[i].id \notin Ids(orders') PROVE Spent(i)
      <4>1. ShouldCompactTerminalOrder(orders[i])
        BY <1>1, <2>4, <3>1, CompactedSpent
      <4>2. \A j \in DOMAIN orders : orders[j].parent = orders[i].id => Terminal(orders[j])
        <5>1. \A j \in DOMAIN orders : orders[j].parent = orders[i].id => ~Live(orders[j])
          BY <4>1 DEF ShouldCompactTerminalOrder, HasNonTerminalChildOrder
        <5>2. \A j \in DOMAIN orders : orders[j].state \in States
          BY <2>1, OrderFields
        <5> QED
          BY <5>1, <5>2 DEF Live, Terminal, States
      <4>3. HasSeededStep(orders[i].task) => orders[i].task # 0
        BY <1>1, TaskIdAssumption DEF HasSeededStep, Coherent, TypeOK
      <4> QED
        BY <4>1, <4>2, <4>3 DEF ShouldCompactTerminalOrder
    <3>2. \A a \in DOMAIN orders' : \E j \in DOMAIN orders : orders'[a] = orders[j]
      <4>1. Retained \in SUBSET DOMAIN orders
        BY DEF Retained
      <4>2. PICK f : Reads(orders', f, orders, Retained)
        BY <2>1, <2>4, <4>1, KeptAtLemma DEF CompactTerminalOrders
      <4> QED
        BY <4>1, <4>2 DEF Reads
    <3> QED
      BY <3>1, <3>2
  <2> QED
    BY <1>1, <2>2, <2>3, <2>4, StepCoherent DEF Shape
<1>2. Coherent /\ [Next]_vars =>
        [ /\ \A i \in DOMAIN orders : orders[i].id \notin Ids(orders') => Spent(i)
          /\ Len(orders') < Len(orders) =>
               \A i \in DOMAIN orders' : \E j \in DOMAIN orders : orders'[i] = orders[j] ]_vars
  BY <1>1
<1> QED
  BY <1>2, CoherentAlways, PTL DEF Spec, OnlySpentRowsLeave
-----------------------------------------------------------------------------
(* The deferral reason and its counter.                                     *)

Counted(o) == o.reason = NoReason <=> o.deferrals = 0

LEMMA DeferralStep == Coherent /\ DeferralCoherent /\ [Next]_vars => DeferralCoherent'
<1> SUFFICES ASSUME Coherent, DeferralCoherent, [Next]_vars PROVE DeferralCoherent'
  OBVIOUS
<1>1. /\ orders \in Seq(Order) /\ TypeOK /\ IndexExact
      /\ \A i \in DOMAIN orders : Counted(orders[i]) /\ orders[i].deferrals \in Nat
  <2>1. \A o \in Order : o.deferrals \in Nat
    BY DEF Order
  <2> QED
    BY <2>1 DEF Coherent, TypeOK, DeferralCoherent, Counted
<1>2. SUFFICES \A i \in DOMAIN orders' : Counted(orders'[i])
  BY DEF DeferralCoherent, Counted
<1>3. ASSUME NEW id, HasOrder(id), NEW o, Counted(o), orders' = [orders EXCEPT ![idToIndex[id]] = o]
      PROVE  \A i \in DOMAIN orders' : Counted(orders'[i])
  BY <1>1, <1>3
<1>4. ASSUME NEW id, HasOrder(id) PROVE Counted(At(id)) /\ At(id).deferrals \in Nat /\ At(id) \in Order
  BY <1>1, <1>4, OrderAt DEF At
<1>5. ASSUME NEW id, HasOrder(id) PROVE Counted(Undeferred(At(id)))
  <2>1. Undeferred(At(id)).reason = NoReason /\ Undeferred(At(id)).deferrals = 0
    BY <1>4, <1>5 DEF Undeferred, Order
  <2> QED
    BY <2>1 DEF Counted
<1>6. ASSUME NEW t, NEW parent, EnqueueOrder(t, parent) PROVE \A i \in DOMAIN orders' : Counted(orders'[i])
  <2> DEFINE row == Numbered(t, parent)
  <2>1. Counted(row)
    BY DEF Numbered, Counted
  <2>2. orders' = Append(orders, row)
    BY <1>6 DEF EnqueueOrder, EnqueueAfter
  <2>3. orders \in Seq(Order \cup {row}) /\ row \in Order \cup {row}
    BY <1>1
  <2> HIDE DEF row
  <2>4. \A i \in DOMAIN orders' : orders'[i] = row \/ (i \in DOMAIN orders /\ orders'[i] = orders[i])
    BY <2>2, <2>3
  <2> QED
    BY <1>1, <2>1, <2>4
<1>7. ASSUME NEW id, NEW s, SetOrderLifecycleState(id, s) PROVE \A i \in DOMAIN orders' : Counted(orders'[i])
  <2>1. HasOrder(id) /\ orders' = [orders EXCEPT ![idToIndex[id]] = Moved(At(id), s)]
    BY <1>7 DEF SetOrderLifecycleState, At
  <2>2. Counted(Moved(At(id), s))
    <3>1. At(id) \in Order /\ Counted(At(id))
      BY <1>4, <2>1
    <3>2. Moved(At(id), s).reason = At(id).reason /\ Moved(At(id), s).deferrals = At(id).deferrals
      BY <3>1 DEF Moved, Order
    <3> QED
      BY <3>1, <3>2 DEF Counted
  <2> QED
    BY <1>3, <2>1, <2>2
<1>8. ASSUME NEW id, NEW reason \in Reasons, SetOrderDeferralState(id, reason)
      PROVE  \A i \in DOMAIN orders' : Counted(orders'[i])
  <2>1. HasOrder(id) /\ orders' = [orders EXCEPT ![idToIndex[id]] = Deferred(At(id), reason)]
    BY <1>8 DEF SetOrderDeferralState, Rewrite
  <2>2. At(id) \in Order /\ At(id).deferrals \in Nat
    BY <1>4, <2>1
  <2>3. /\ Deferred(At(id), reason).reason = reason
        /\ Deferred(At(id), reason).deferrals \in {At(id).deferrals + 1, 1}
    BY <2>2 DEF Deferred, Order
  <2>4. Counted(Deferred(At(id), reason))
    BY <2>2, <2>3, NullAssumption DEF Counted
  <2> QED
    BY <1>3, <2>1, <2>4
<1>9. ASSUME NEW id, ClearOrderDeferralState(id) PROVE \A i \in DOMAIN orders' : Counted(orders'[i])
  BY <1>3, <1>5, <1>9 DEF ClearOrderDeferralState, Rewrite
<1>10. ASSUME NEW id, SetOrderDispatchState(id) PROVE \A i \in DOMAIN orders' : Counted(orders'[i])
  <2> DEFINE o == [Undeferred(At(id)) EXCEPT !.attempts = @ + 1]
  <2>1. HasOrder(id) /\ orders' = [orders EXCEPT ![idToIndex[id]] = o]
    BY <1>10 DEF SetOrderDispatchState, Rewrite
  <2>2. o.reason = NoReason /\ o.deferrals = 0
    BY <1>4, <2>1 DEF Undeferred, Order
  <2>3. Counted(o)
    BY <2>2 DEF Counted
  <2> QED
    BY <1>3, <2>1, <2>3
<1>11. ASSUME NEW id, NEW slot, SetOrderReservedPlacementSlot(id, slot)
       PROVE  \A i \in DOMAIN orders' : Counted(orders'[i])
  <2> DEFINE o == [At(id) EXCEPT !.slot = slot]
  <2>1. HasOrder(id) /\ orders' = [orders EXCEPT ![idToIndex[id]] = o]
    BY <1>11 DEF SetOrderReservedPlacementSlot, Rewrite
  <2>2. Counted(At(id)) /\ o.reason = At(id).reason /\ o.deferrals = At(id).deferrals
    BY <1>4, <2>1 DEF Order
  <2>3. Counted(o)
    BY <2>2 DEF Counted
  <2> QED
    BY <1>3, <2>1, <2>3
<1>12. CASE CompactTerminalOrders
  <2>1. Retained \in SUBSET DOMAIN orders
    BY DEF Retained
  <2>2. PICK f : Reads(orders', f, orders, Retained)
    BY <1>1, <1>12, <2>1, KeptAtLemma DEF CompactTerminalOrders
  <2> QED
    BY <1>1, <2>1, <2>2 DEF Reads
<1>13. CASE UpdateTaskPriorities
  <2>1. PICK rankOf \in [DOMAIN orders -> Ranks] :
           orders' = [i \in DOMAIN orders |-> [orders[i] EXCEPT !.rank = rankOf[i]]]
    BY <1>13 DEF UpdateTaskPriorities
  <2>2. \A i \in DOMAIN orders :
           orders'[i].reason = orders[i].reason /\ orders'[i].deferrals = orders[i].deferrals
    <3> TAKE i \in DOMAIN orders
    <3>1. orders[i] \in Order /\ orders'[i] = [orders[i] EXCEPT !.rank = rankOf[i]]
      BY <1>1, <2>1
    <3> QED
      BY <3>1 DEF Order
  <2> QED
    BY <1>1, <2>1, <2>2 DEF Counted
<1>14. ASSUME UNCHANGED orders PROVE \A i \in DOMAIN orders' : Counted(orders'[i])
  BY <1>1, <1>14
<1>15. ASSUME BeginMutationBatch \/ EndMutationBatch \/ StimulusChanged \/ UNCHANGED vars
              \/ (\E step \in TaskIds : UnseedPlan(step) \/ \E id \in Ids(orders) : SeedPlan(step, id))
       PROVE  UNCHANGED orders
  BY <1>15 DEF BeginMutationBatch, EndMutationBatch, StimulusChanged, vars, UnseedPlan, SeedPlan
<1> QED
  BY <1>6, <1>7, <1>8, <1>9, <1>10, <1>11, <1>12, <1>13, <1>14, <1>15 DEF Next, Mutate

(* An order counts deferrals exactly while it carries the reason for them.  *)
THEOREM DeferralsCounted == Spec => []DeferralCoherent
<1>1. Init => DeferralCoherent
  BY DEF Init, DeferralCoherent
<1>2. Coherent /\ DeferralCoherent /\ [Next]_vars => DeferralCoherent'
  BY DeferralStep
<1> QED
  BY <1>1, <1>2, CoherentAlways, PTL DEF Spec
=============================================================================
