------------------------ MODULE BlockedTaskRingProofs ------------------------
(***************************************************************************)
(* What holds of a blocked-task buffer for every capacity, any tasks and    *)
(* reasons, any clock and any revisions.                                    *)
(*                                                                         *)
(* The inductive invariant is Sorted: the types, that no task is held       *)
(* twice, neither in the buffer nor among what was collected nor in both,   *)
(* and that buffer and collected records fit into the array together.       *)
(***************************************************************************)
EXTENDS BlockedTaskRing, BlockedTasksProofs

Disjoint(s, t) == \A i \in DOMAIN s, j \in DOMAIN t : s[i].sig # t[j].sig

Sorted ==
    /\ TypeOK
    /\ OnePerTask(buffer) /\ OnePerTask(collected) /\ Disjoint(buffer, collected)
    /\ RoomToPushBack

LEMMA SortedDistinct == Sorted => DistinctTasks
<1> SUFFICES ASSUME Sorted, NEW i \in DOMAIN (buffer \o collected), NEW j \in DOMAIN (buffer \o collected),
                    (buffer \o collected)[i].sig = (buffer \o collected)[j].sig
             PROVE  i = j
  BY DEF DistinctTasks
<1> DEFINE m == Len(buffer)
           n == Len(collected)
<1>1. /\ buffer \in Seq(BlockedRecord) /\ collected \in Seq(BlockedRecord)
      /\ m \in Nat /\ n \in Nat /\ DOMAIN buffer = 1 .. m /\ DOMAIN collected = 1 .. n
  BY DEF Sorted, TypeOK
<1>2. /\ DOMAIN (buffer \o collected) = 1 .. m + n
      /\ \A k \in 1 .. m + n : (buffer \o collected)[k] = IF k <= m THEN buffer[k] ELSE collected[k - m]
  BY <1>1, ConcatProperties
<1>3. \A k \in 1 .. m + n : k > m => k - m \in DOMAIN collected
  BY <1>1
<1>4. CASE i <= m /\ j <= m
  BY <1>1, <1>2, <1>4 DEF Sorted, OnePerTask
<1>5. CASE i <= m /\ j > m
  BY <1>1, <1>2, <1>3, <1>5 DEF Sorted, Disjoint
<1>6. CASE i > m /\ j <= m
  BY <1>1, <1>2, <1>3, <1>6 DEF Sorted, Disjoint
<1>7. CASE i > m /\ j > m
  <2>1. i - m = j - m
    BY <1>1, <1>2, <1>3, <1>7 DEF Sorted, OnePerTask
  <2> QED
    BY <2>1, <1>1, <1>2
<1> QED
  BY <1>1, <1>2, <1>4, <1>5, <1>6, <1>7
-----------------------------------------------------------------------------
(* The records the steps push are records.                                  *)
LEMMA ParkedRecordTyped ==
    ASSUME TypeOK, NEW sig \in Signatures, NEW policy \in Policies, NEW reason \in Reasons,
           NEW n \in 0 .. MaxRetry
    PROVE  CreateBlockedTaskRecord(sig, policy, reason, n) \in BlockedRecord
<1>1. WakeKindFor(reason) \in StimulusKinds
  BY ReasonAssumption DEF WakeKindFor, StimulusKinds, WakeKinds, ParkableReasons
<1>2. RevisionToStamp(revision, WakeKindFor(reason)) \in Nat
  BY <1>1 DEF RevisionToStamp, TypeOK, Revisions, StimulusKinds
<1>3. now + Delay[reason] \in Nat /\ n \in Nat
  BY DelayAssumption, BoundAssumption DEF TypeOK
<1> QED
  BY <1>1, <1>2, <1>3 DEF CreateBlockedTaskRecord, BlockedRecord, StimulusKinds

LEMMA DeferredTyped ==
    ASSUME TypeOK, NEW r \in BlockedRecord
    PROVE  Deferred(r) \in BlockedRecord /\ Deferred(r).sig = r.sig
<1>1. RevisionToStamp(revision, r.wake) \in Nat
  BY DEF RevisionToStamp, TypeOK, Revisions, StimulusKinds, BlockedRecord, WakeKinds
<1>2. PICK delay \in Nat : delay = SmallerOf(BackoffBase * (2 + r.retry), BackoffMax)
  <2>1. r.retry \in Nat /\ BackoffBase \in Nat /\ BackoffMax \in Nat
    BY BackoffAssumption DEF BlockedRecord
  <2>2. BackoffBase * (2 + r.retry) \in Nat
    BY <2>1
  <2> QED
    BY <2>1, <2>2 DEF SmallerOf
<1>3. LargerOf(r.nextEligible, now + delay) \in Nat
  BY DEF LargerOf, TypeOK, BlockedRecord
<1>4. r.retry + 1 \in Nat
  BY DEF BlockedRecord
<1> DEFINE stamp == RevisionToStamp(revision, r.wake)
           due == LargerOf(r.nextEligible, now + delay)
<1>5. Deferred(r) = [r EXCEPT !.retry = r.retry + 1, !.lastSeen = stamp, !.nextEligible = due]
  BY <1>2 DEF Deferred, BlockedRecord
<1> HIDE DEF stamp, due
<1>6. stamp \in Nat /\ due \in Nat
  BY <1>1, <1>3 DEF stamp, due
<1> QED
  BY <1>4, <1>5, <1>6 DEF BlockedRecord

LEMMA TailProperties ==
    ASSUME TypeOK, collected # <<>>
    PROVE  /\ Head(collected) \in BlockedRecord /\ Head(collected) = collected[1]
           /\ 1 \in DOMAIN collected
           /\ Tail(collected) \in Seq(BlockedRecord) /\ Len(Tail(collected)) = Len(collected) - 1
           /\ \A i \in DOMAIN Tail(collected) : i + 1 \in DOMAIN collected /\ Tail(collected)[i] = collected[i + 1]
           /\ \A j \in DOMAIN collected : j # 1 => j - 1 \in DOMAIN Tail(collected) /\ Tail(collected)[j - 1] = collected[j]
<1>1. collected \in Seq(BlockedRecord) /\ Len(collected) \in Nat /\ Len(collected) > 0
  BY DEF TypeOK
<1>2. /\ Tail(collected) \in Seq(BlockedRecord) /\ Len(Tail(collected)) = Len(collected) - 1
      /\ Head(collected) = collected[1] /\ collected[1] \in BlockedRecord
      /\ \A i \in 1 .. Len(collected) - 1 : Tail(collected)[i] = collected[i + 1]
  BY <1>1
<1>3. DOMAIN Tail(collected) = 1 .. Len(collected) - 1 /\ DOMAIN collected = 1 .. Len(collected)
  BY <1>1, <1>2
<1>4. \A i \in 1 .. Len(collected) - 1 : i + 1 \in 1 .. Len(collected)
  BY <1>1
<1>5. \A j \in 1 .. Len(collected) : j # 1 => j - 1 \in 1 .. Len(collected) - 1 /\ j - 1 + 1 = j
  BY <1>1
<1>6. 1 \in 1 .. Len(collected)
  BY <1>1
<1> QED
  BY <1>2, <1>3, <1>4, <1>5, <1>6
-----------------------------------------------------------------------------
(* One push, from either of the steps that push: collected' is collected or *)
(* what is left of it, and the record pushed is for a task it is without.   *)
LEMMA PushSorted ==
    ASSUME Sorted, NEW r \in BlockedRecord, Push(r),
           collected' \in Seq(BlockedRecord), OnePerTask(collected'),
           Disjoint(buffer, collected'),
           \A j \in DOMAIN collected' : collected'[j].sig # r.sig,
           collected' = <<>> \/ Len(collected') < Len(collected),
           now' = now, revision' = revision
    PROVE  Sorted'
<1>1. buffer \in Seq(BlockedRecord) /\ OnePerTask(buffer) /\ Len(buffer) \in Nat
      /\ Len(collected) \in Nat /\ Len(buffer) + Len(collected) <= Capacity /\ Capacity \in Nat
  BY CapacityAssumption DEF Sorted, TypeOK, RoomToPushBack
<1>2. /\ buffer' = TryPushOrCoalesce(buffer, r, Capacity).buffer
      /\ verdict' = TryPushOrCoalesce(buffer, r, Capacity).flag
  BY DEF Push
<1>3. buffer' \in Seq(BlockedRecord) /\ verdict' \in Verdicts /\ \E f : Origin(buffer, r, buffer', f)
  BY <1>1, <1>2, PushOrigin DEF Verdicts, Flags
<1>4. PICK f : Origin(buffer, r, buffer', f)
  BY <1>3
<1>5. /\ OnePerTask(buffer')
      /\ \A k \in DOMAIN buffer' : buffer'[k].sig = r.sig \/ \E i \in DOMAIN buffer : buffer'[k].sig = buffer[i].sig
  <2>1. DOMAIN buffer' \subseteq Nat
    BY <1>3
  <2> QED
    BY <1>1, <1>4, <2>1, OriginDistinct
<1>6. Disjoint(buffer', collected')
  BY <1>5 DEF Disjoint
<1>7. TypeOK'
  <2>1. offered' \in Seq(BlockedRecord)
    BY DEF Push
  <2> QED
    BY <1>3, <2>1 DEF Sorted, TypeOK
<1>8. RoomToPushBack'
  <2>1. Len(buffer') <= Len(buffer) + 1 /\ Len(buffer') <= Capacity /\ Len(buffer') \in Nat
    BY <1>1, <1>2, <1>3, PushLength
  <2>2. CASE collected' = <<>>
    BY <2>1, <2>2 DEF RoomToPushBack
  <2>3. CASE Len(collected') < Len(collected)
    BY <2>1, <2>3, <1>1 DEF RoomToPushBack
  <2> QED
    BY <2>2, <2>3
<1> QED
  BY <1>5, <1>6, <1>7, <1>8 DEF Sorted, OnePerTask, Disjoint

LEMMA SortedInit == Init => Sorted
<1> SUFFICES ASSUME Init PROVE Sorted
  OBVIOUS
<1>1. revision \in Revisions
  BY DEF Init, Revisions
<1>2. TypeOK
  BY <1>1 DEF Init, TypeOK, Verdicts
<1>3. RoomToPushBack
  BY CapacityAssumption DEF Init, RoomToPushBack
<1> QED
  BY <1>2, <1>3 DEF Init, Sorted, OnePerTask, Disjoint

(* What a collection leaves of the buffer and takes out of it.              *)
LEMMA CollectTakes ==
    ASSUME Sorted, Collect
    PROVE  /\ buffer' \in Seq(BlockedRecord) /\ collected' \in Seq(BlockedRecord)
           /\ Len(buffer') + Len(collected') = Len(buffer)
           /\ \E f : Takes(collected', f, buffer, WokenAt(buffer, now, revision))
           /\ \E g : Takes(buffer', g, buffer, DOMAIN buffer \ WokenAt(buffer, now, revision))
<1>1. buffer \in Seq(BlockedRecord)
  BY DEF Sorted, TypeOK
<1>2. /\ collected' = CollectReactivatableRecords(buffer, now, revision).out
      /\ buffer' = CollectReactivatableRecords(buffer, now, revision).buffer
  BY DEF Collect
<1> QED
  BY <1>1, <1>2, CollectLemma

LEMMA TakesDistinct ==
    ASSUME NEW s, OnePerTask(s), NEW r, NEW f, NEW K \in SUBSET DOMAIN s, Takes(r, f, s, K),
           DOMAIN r \subseteq Nat, DOMAIN s \subseteq Nat
    PROVE  OnePerTask(r)
<1> SUFFICES ASSUME NEW k \in DOMAIN r, NEW l \in DOMAIN r, r[k].sig = r[l].sig PROVE k = l
  BY DEF OnePerTask
<1>1. f[k] = f[l] /\ f[k] \in Nat
  BY DEF Takes, OnePerTask
<1>2. ~(f[k] < f[l]) /\ ~(f[l] < f[k])
  BY <1>1
<1> QED
  BY <1>2 DEF Takes

LEMMA SortedStep == Sorted /\ [Next]_vars => Sorted'
<1> SUFFICES ASSUME Sorted, [Next]_vars PROVE Sorted'
  OBVIOUS
<1>0. TypeOK /\ OnePerTask(buffer) /\ OnePerTask(collected) /\ Disjoint(buffer, collected)
  BY DEF Sorted
<1>1. ASSUME NEW sig \in Signatures, NEW policy \in Policies, NEW reason \in Reasons,
             NEW n \in 0 .. MaxRetry, Park(sig, policy, reason, n)
      PROVE  Sorted'
  <2> DEFINE r == CreateBlockedTaskRecord(sig, policy, reason, n)
  <2>1. r \in BlockedRecord
    BY <1>0, ParkedRecordTyped
  <2>2. Push(r) /\ collected' = <<>> /\ now' = now /\ revision' = revision
    BY <1>1 DEF Park
  <2> HIDE DEF r
  <2>3. collected' \in Seq(BlockedRecord) /\ OnePerTask(collected') /\ Disjoint(buffer, collected')
    BY <2>2 DEF OnePerTask, Disjoint
  <2> QED
    BY <2>1, <2>2, <2>3, PushSorted
<1>2. CASE Collect
  <2> DEFINE W == WokenAt(buffer, now, revision)
  <2>1. /\ buffer' \in Seq(BlockedRecord) /\ collected' \in Seq(BlockedRecord)
        /\ Len(buffer') + Len(collected') = Len(buffer)
    BY <1>2, CollectTakes
  <2>2. PICK f : Takes(collected', f, buffer, W)
    BY <1>2, CollectTakes
  <2>3. PICK g : Takes(buffer', g, buffer, DOMAIN buffer \ W)
    BY <1>2, CollectTakes
  <2>4. W \in SUBSET DOMAIN buffer /\ DOMAIN buffer \subseteq Nat
    BY <1>0 DEF WokenAt, TypeOK
  <2> HIDE DEF W
  <2>5. OnePerTask(buffer') /\ OnePerTask(collected')
    <3>1. DOMAIN buffer' \subseteq Nat /\ DOMAIN collected' \subseteq Nat
      BY <2>1
    <3>2. OnePerTask(buffer')
      BY <1>0, <2>3, <2>4, <3>1, TakesDistinct
    <3>3. OnePerTask(collected')
      BY <1>0, <2>2, <2>4, <3>1, TakesDistinct
    <3> QED
      BY <3>2, <3>3
  <2>6. Disjoint(buffer', collected')
    BY <1>0, <2>2, <2>3, <2>4 DEF Disjoint, Takes, OnePerTask
  <2>7. TypeOK'
    BY <1>0, <1>2, <2>1 DEF TypeOK, Collect, NoPush, Verdicts
  <2>8. RoomToPushBack'
    <3>1. Len(buffer) + Len(collected) <= Capacity /\ collected = <<>> /\ Len(buffer) \in Nat /\ Capacity \in Nat
      BY <1>0, <1>2, CapacityAssumption DEF Sorted, RoomToPushBack, Collect, TypeOK
    <3> QED
      BY <2>1, <3>1 DEF RoomToPushBack
  <2> QED
    BY <2>5, <2>6, <2>7, <2>8 DEF Sorted, OnePerTask, Disjoint
<1>3. ASSUME collected # <<>>, collected' = Tail(collected)
      PROVE  /\ collected' \in Seq(BlockedRecord) /\ Len(collected') = Len(collected) - 1
             /\ Len(collected') < Len(collected)
             /\ OnePerTask(collected') /\ Disjoint(buffer, collected')
             /\ \A j \in DOMAIN collected' : collected'[j].sig # Head(collected).sig
  <2>1. /\ Head(collected) = collected[1] /\ 1 \in DOMAIN collected
        /\ collected' \in Seq(BlockedRecord) /\ Len(collected') = Len(collected) - 1
        /\ \A i \in DOMAIN collected' : i + 1 \in DOMAIN collected /\ collected'[i] = collected[i + 1]
    BY <1>0, <1>3, TailProperties
  <2>2. DOMAIN collected' \subseteq Nat \ {0}
    BY <2>1
  <2>3. Len(collected) \in Nat
    BY <1>0 DEF TypeOK
  <2>4. OnePerTask(collected')
    <3> SUFFICES ASSUME NEW k \in DOMAIN collected', NEW l \in DOMAIN collected',
                        collected'[k].sig = collected'[l].sig
                 PROVE  k = l
      BY DEF OnePerTask
    <3>1. k + 1 = l + 1
      BY <1>0, <2>1 DEF OnePerTask
    <3> QED
      BY <3>1, <2>2
  <2>5. Disjoint(buffer, collected')
    BY <1>0, <2>1 DEF Disjoint
  <2>6. \A j \in DOMAIN collected' : collected'[j].sig # Head(collected).sig
    <3> SUFFICES ASSUME NEW j \in DOMAIN collected', collected'[j].sig = Head(collected).sig PROVE FALSE
      OBVIOUS
    <3>1. j + 1 = 1
      BY <1>0, <2>1 DEF OnePerTask
    <3> QED
      BY <3>1, <2>2
  <2> QED
    BY <2>1, <2>3, <2>4, <2>5, <2>6
<1>4. CASE Spend
  <2>1. collected # <<>> /\ collected' = Tail(collected) /\ buffer' = buffer
    BY <1>4 DEF Spend
  <2>2. TypeOK'
    BY <1>0, <1>3, <1>4, <2>1 DEF TypeOK, Spend, NoPush, Verdicts
  <2>3. RoomToPushBack'
    <3>1. Len(buffer) \in Nat /\ Len(collected) \in Nat /\ Capacity \in Nat
          /\ Len(buffer) + Len(collected) <= Capacity
      BY <1>0, CapacityAssumption DEF TypeOK, Sorted, RoomToPushBack
    <3>2. Len(buffer') = Len(buffer) /\ Len(collected') = Len(collected) - 1
      BY <1>3, <2>1
    <3> QED
      BY <3>1, <3>2 DEF RoomToPushBack
  <2> QED
    BY <1>0, <1>3, <2>1, <2>2, <2>3 DEF Sorted, OnePerTask, Disjoint
<1>5. CASE PushBack
  <2>1. /\ collected # <<>> /\ collected' = Tail(collected) /\ now' = now /\ revision' = revision
        /\ Push(Deferred(Head(collected)))
    BY <1>5 DEF PushBack
  <2>2. Head(collected) \in BlockedRecord
    BY <1>0, <2>1, TailProperties
  <2>3. Deferred(Head(collected)) \in BlockedRecord /\ Deferred(Head(collected)).sig = Head(collected).sig
    BY <1>0, <2>2, DeferredTyped
  <2> QED
    BY <1>3, <2>1, <2>3, PushSorted
<1>6. CASE Tick
  BY <1>0, <1>6 DEF Tick, NoPush, Sorted, TypeOK, OnePerTask, Disjoint, RoomToPushBack, Verdicts
<1>7. ASSUME NEW reason \in Reasons, Stimulus(WakeKindFor(reason)) PROVE Sorted'
  <2> DEFINE k == WakeKindFor(reason)
  <2>0. k \in StimulusKinds
    BY ReasonAssumption DEF WakeKindFor, StimulusKinds, WakeKinds, ParkableReasons
  <2> HIDE DEF k
  <2>1. revision' \in Revisions
    <3>1. revision' = [revision EXCEPT ![k] = @ + 1]
      BY <1>7 DEF Stimulus, k
    <3> QED
      BY <3>1, <1>0, <2>0 DEF TypeOK, Revisions
  <2> QED
    BY <1>0, <1>7, <2>1 DEF Stimulus, NoPush, Sorted, TypeOK, OnePerTask, Disjoint, RoomToPushBack, Verdicts
<1>8. CASE UNCHANGED vars
  BY <1>8 DEF vars, Sorted, TypeOK, OnePerTask, Disjoint, RoomToPushBack
<1> QED
  BY <1>1, <1>2, <1>4, <1>5, <1>6, <1>7, <1>8 DEF Next

(* Whatever is parked, collected, spent and pushed back, each task has one  *)
(* record and there is room for all of them (FBlockedTaskRingBuffer).       *)
THEOREM SortedAlways == Spec => []Sorted
BY SortedInit, SortedStep, PTL DEF Spec

(* Clock, revisions, buffer and collected records are well typed, whatever  *)
(* is parked, collected and pushed back (FBlockedTaskRingBuffer).           *)
THEOREM RingTypeCorrect == Spec => []TypeOK
<1>1. Sorted => TypeOK
  BY DEF Sorted
<1> QED
  BY <1>1, SortedAlways, PTL

(* No task is held twice, in the buffer or among the collected records, so  *)
(* a push never overwrites the record of another task (MatchesSignature).   *)
THEOREM TasksDistinct == Spec => []DistinctTasks
BY SortedDistinct, SortedAlways, PTL

(* What a collection took out fits back in: ReactivateBlockedTasks loses    *)
(* nothing by ignoring the flags of its pushes.                             *)
THEOREM PushBackHasRoom == Spec => []RoomToPushBack
<1>1. Sorted => RoomToPushBack
  BY DEF Sorted
<1> QED
  BY <1>1, SortedAlways, PTL
-----------------------------------------------------------------------------
(* What a step does to the buffer: it leaves it, or collects from it, or    *)
(* pushes one record onto it.                                               *)
LEMMA StepKinds ==
    ASSUME Sorted, Next
    PROVE  \/ /\ buffer' = buffer /\ NoPush
              /\ collected' # <<>> => collected # <<>>
           \/ Collect
           \/ \E r \in BlockedRecord :
                 /\ Push(r)
                 /\ collected' # <<>> => collected # <<>>
                 /\ MustRun(collected) \subseteq MustRun(collected')
<1>0. TypeOK
  BY DEF Sorted
<1>1. ASSUME NEW sig \in Signatures, NEW policy \in Policies, NEW reason \in Reasons,
             NEW n \in 0 .. MaxRetry, Park(sig, policy, reason, n)
      PROVE  \E r \in BlockedRecord :
                 /\ Push(r)
                 /\ collected' # <<>> => collected # <<>>
                 /\ MustRun(collected) \subseteq MustRun(collected')
  <2>1. CreateBlockedTaskRecord(sig, policy, reason, n) \in BlockedRecord
    BY <1>0, ParkedRecordTyped
  <2>2. /\ Push(CreateBlockedTaskRecord(sig, policy, reason, n))
        /\ collected' = <<>> /\ collected = <<>>
    BY <1>1 DEF Park
  <2>3. MustRun(collected) = {}
    BY <2>2 DEF MustRun
  <2> QED
    BY <2>1, <2>2, <2>3
<1>2. CASE PushBack
  <2>1. /\ collected # <<>> /\ collected' = Tail(collected) /\ Push(Deferred(Head(collected)))
        /\ Head(collected).policy # "HotMustRun"
    BY <1>2 DEF PushBack
  <2>2. Deferred(Head(collected)) \in BlockedRecord
    BY <1>0, <2>1, TailProperties, DeferredTyped
  <2>3. MustRun(collected) \subseteq MustRun(collected')
    <3> SUFFICES ASSUME NEW j \in DOMAIN collected, collected[j].policy = "HotMustRun"
                 PROVE  collected[j].sig \in MustRun(collected')
      BY DEF MustRun
    <3>1. j # 1
      BY <1>0, <2>1, TailProperties
    <3>2. j - 1 \in DOMAIN collected' /\ collected'[j - 1] = collected[j]
      BY <1>0, <2>1, <3>1, TailProperties
    <3> QED
      BY <3>2 DEF MustRun
  <2> QED
    BY <2>1, <2>2, <2>3
<1>3. CASE Spend
  BY <1>3 DEF Spend
<1>4. CASE Tick
  BY <1>4 DEF Tick
<1>5. ASSUME NEW reason \in Reasons, Stimulus(WakeKindFor(reason))
      PROVE  buffer' = buffer /\ NoPush /\ (collected' # <<>> => collected # <<>>)
  BY <1>5 DEF Stimulus
<1> QED
  BY <1>1, <1>2, <1>3, <1>4, <1>5 DEF Next

(* The tasks of some records, one by one.                                   *)
LEMMA TasksIn ==
    ASSUME NEW s
    PROVE  /\ \A t : t \in Tasks(s) <=> \E i \in DOMAIN s : s[i].sig = t
           /\ \A t : t \in MustRun(s) <=> \E i \in DOMAIN s : s[i].sig = t /\ s[i].policy = "HotMustRun"
           /\ \A r : In(r, s) => r.sig \in Tasks(s) /\ (r.policy = "HotMustRun" => r.sig \in MustRun(s))
BY DEF Tasks, MustRun, In

(* What a push leaves, gives up and says.                                   *)
LEMMA PushTells ==
    ASSUME TypeOK, NEW r \in BlockedRecord, Push(r)
    PROVE  /\ NoneLost(buffer, r, buffer') \/ OneLost(buffer, r, buffer', Capacity)
           /\ Told(r, [buffer |-> buffer', flag |-> verdict'])
           /\ Tasks(offered') = {r.sig}
           /\ MustRun(offered') = IF r.policy = "HotMustRun" THEN {r.sig} ELSE {}
<1>1. buffer \in Seq(BlockedRecord) /\ Capacity \in Nat
  BY CapacityAssumption DEF TypeOK
<1>2. /\ buffer' = TryPushOrCoalesce(buffer, r, Capacity).buffer
      /\ verdict' = TryPushOrCoalesce(buffer, r, Capacity).flag
      /\ offered' = <<r>>
  BY DEF Push
<1>3. Told(r, [buffer |-> buffer', flag |-> verdict'])
  <2>1. Told(r, TryPushOrCoalesce(buffer, r, Capacity))
    BY <1>1, PushCosts
  <2> QED
    BY <1>2, <2>1 DEF Told
<1>4. DOMAIN offered' = {1} /\ offered'[1] = r
  BY <1>2
<1> QED
  BY <1>1, <1>2, <1>3, <1>4, PushCosts DEF Tasks, MustRun

(* A collection keeps every task, in the buffer or out of it.               *)
LEMMA CollectKeepsTasks ==
    ASSUME Sorted, Collect, NEW i \in DOMAIN buffer
    PROVE  In(buffer[i], buffer') \/ In(buffer[i], collected')
<1> DEFINE W == WokenAt(buffer, now, revision)
<1>1. PICK f : Takes(collected', f, buffer, W)
  BY CollectTakes
<1>2. PICK g : Takes(buffer', g, buffer, DOMAIN buffer \ W)
  BY CollectTakes
<1> HIDE DEF W
<1>3. CASE i \in W
  BY <1>1, <1>3 DEF Takes, In
<1>4. CASE i \notin W
  BY <1>2, <1>4 DEF Takes, In
<1> QED
  BY <1>3, <1>4

(* A must-run task stays parked as such until it is collected and spent, or *)
(* parked again as something else, and a must-run record that finds no      *)
(* place is flagged (ParkDeferredOrders, ReactivateBlockedTasks).           *)
THEOREM MustRunNeverLost == Spec => MustRunKept
<1> DEFINE A == /\ \A t \in MustRun(buffer) :
                      t \in MustRun(buffer') \cup MustRun(collected') \cup (Tasks(offered') \cap Tasks(buffer'))
                /\ offered' # <<>> => MustRun(collected) \subseteq MustRun(collected')
                /\ \A t \in MustRun(offered') :
                      IF verdict' = "rejectedMustRun" THEN t \notin Tasks(buffer') ELSE t \in MustRun(buffer')
<1>1. Sorted /\ Next => A
  <2> SUFFICES ASSUME Sorted, Next PROVE A
    OBVIOUS
  <2>0. TypeOK
    BY DEF Sorted
  <2>1. CASE buffer' = buffer /\ NoPush
    BY <2>1, TasksIn DEF NoPush
  <2>2. CASE Collect
    <3>1. offered' = <<>>
      BY <2>2 DEF Collect, NoPush
    <3>2. \A t \in MustRun(buffer) : t \in MustRun(buffer') \cup MustRun(collected')
      BY <2>2, CollectKeepsTasks, TasksIn
    <3> QED
      BY <3>1, <3>2, TasksIn
  <2>3. ASSUME NEW r \in BlockedRecord, Push(r), MustRun(collected) \subseteq MustRun(collected')
        PROVE  A
    <3>1. /\ NoneLost(buffer, r, buffer') \/ OneLost(buffer, r, buffer', Capacity)
          /\ \/ In(r, buffer') /\ verdict' \in {"buffered", "coalesced"}
             \/ /\ ~Holds(buffer', r.sig)
                /\ verdict' = IF r.policy = "HotMustRun" THEN "rejectedMustRun" ELSE "dropped"
          /\ Tasks(offered') = {r.sig}
          /\ MustRun(offered') = IF r.policy = "HotMustRun" THEN {r.sig} ELSE {}
      BY <2>0, <2>3, PushTells DEF Told
    <3>2. ASSUME NEW i \in DOMAIN buffer, buffer[i].policy = "HotMustRun"
          PROVE  buffer[i].sig \in MustRun(buffer') \/ (buffer[i].sig = r.sig /\ r.sig \in Tasks(buffer'))
      <4>1. In(buffer[i], buffer') \/ (buffer[i].sig = r.sig /\ In(r, buffer'))
        BY <3>1, <3>2 DEF NoneLost, OneLost
      <4> QED
        BY <3>2, <4>1, TasksIn
    <3>3. \A t \in MustRun(buffer) : t \in MustRun(buffer') \/ t \in Tasks(offered') \cap Tasks(buffer')
      BY <3>1, <3>2, TasksIn
    <3>4. \A t \in MustRun(offered') :
             IF verdict' = "rejectedMustRun" THEN t \notin Tasks(buffer') ELSE t \in MustRun(buffer')
      <4> SUFFICES ASSUME r.policy = "HotMustRun"
                   PROVE  IF verdict' = "rejectedMustRun" THEN r.sig \notin Tasks(buffer')
                                                          ELSE r.sig \in MustRun(buffer')
        BY <3>1
      <4>1. CASE In(r, buffer') /\ verdict' \in {"buffered", "coalesced"}
        BY <4>1, TasksIn
      <4>2. CASE ~Holds(buffer', r.sig) /\ verdict' = "rejectedMustRun"
        BY <4>2, TasksIn DEF Holds
      <4> QED
        BY <3>1, <4>1, <4>2
    <3> QED
      BY <2>3, <3>3, <3>4
  <2> QED
    BY <2>1, <2>2, <2>3, StepKinds
<1>2. Spec => [][A]_vars
  BY <1>1, SortedAlways, PTL DEF Spec
<1> QED
  BY <1>2 DEF MustRunKept

(* A push costs at most one record, a discardable one of a full buffer, and *)
(* only for a record that is in the buffer then; no other step costs any    *)
(* (TryPushOrCoalesce, CollectReactivatableRecords).                        *)
THEOREM EvictionSparesTheRest == Spec => OnlyDiscardableEvicted
<1> DEFINE A == /\ \A i \in Lost : buffer[i].policy = "DiscardableDuplicate"
                /\ \A i, j \in Lost : i = j
                /\ Lost # {} =>
                      /\ Len(buffer) = Capacity
                      /\ offered' # <<>> /\ Tasks(offered') \subseteq Tasks(buffer')
<1>1. Sorted /\ Next => A
  <2> SUFFICES ASSUME Sorted, Next PROVE A
    OBVIOUS
  <2>0. TypeOK
    BY DEF Sorted
  <2>1. CASE buffer' = buffer
    <3>1. Lost = {}
      BY <2>1, TasksIn DEF Lost
    <3> QED
      BY <3>1
  <2>2. CASE Collect
    <3>1. \A i \in DOMAIN buffer : buffer[i].sig \in Tasks(buffer') \cup Tasks(collected')
      BY <2>2, CollectKeepsTasks, TasksIn
    <3>2. Lost = {}
      BY <3>1 DEF Lost
    <3> QED
      BY <3>2
  <2>3. ASSUME NEW r \in BlockedRecord, Push(r) PROVE A
    <3>1. Tasks(offered') = {r.sig} /\ offered' # <<>>
      BY <2>0, <2>3, PushTells DEF Push
    <3>2. CASE NoneLost(buffer, r, buffer')
      <4>1. \A i \in DOMAIN buffer : buffer[i].sig \in Tasks(buffer')
        BY <3>2, TasksIn DEF NoneLost
      <4>2. Lost = {}
        BY <4>1 DEF Lost
      <4> QED
        BY <4>2
    <3>3. CASE OneLost(buffer, r, buffer', Capacity)
      <4>1. PICK e \in DOMAIN buffer :
                /\ buffer[e].policy = "DiscardableDuplicate"
                /\ \A i \in DOMAIN buffer : i # e => In(buffer[i], buffer')
        BY <3>3 DEF OneLost
      <4>2. \A i \in Lost : i = e
        BY <4>1, TasksIn DEF Lost
      <4>3. Len(buffer) = Capacity
        <5>1. /\ Len(buffer) \in Nat /\ Len(collected) \in Nat /\ Capacity \in Nat
              /\ Len(buffer) + Len(collected) <= Capacity
          BY CapacityAssumption DEF Sorted, TypeOK, RoomToPushBack
        <5>2. Len(buffer) >= Capacity
          BY <3>3 DEF OneLost
        <5> QED
          BY <5>1, <5>2
      <4>4. r.sig \in Tasks(buffer')
        BY <3>3, TasksIn DEF OneLost
      <4>5. /\ \A i \in Lost : buffer[i].policy = "DiscardableDuplicate"
            /\ \A i, j \in Lost : i = j
            /\ Len(buffer) = Capacity /\ offered' # <<>> /\ Tasks(offered') \subseteq Tasks(buffer')
        BY <3>1, <4>1, <4>2, <4>3, <4>4
      <4> QED
        BY <4>5
    <3> QED
      BY <2>0, <2>3, <3>2, <3>3, PushTells
  <2> QED
    BY <2>1, <2>2, <2>3, StepKinds
<1>2. Spec => [][A]_vars
  BY <1>1, SortedAlways, PTL DEF Spec
<1> QED
  BY <1>2 DEF OnlyDiscardableEvicted

(* The buffer stays first come, first served: no step swaps two tasks that  *)
(* both stay (RemoveOrderedIndex shifts, and never fills a hole).           *)
THEOREM RingKeepsOrder == Spec => OrderKept
<1> DEFINE A == \A i, j \in DOMAIN buffer : \A k, l \in DOMAIN buffer' :
                   (i < j /\ buffer[i].sig = buffer'[k].sig /\ buffer[j].sig = buffer'[l].sig) => k < l
<1>1. Sorted /\ Next => A
  <2> SUFFICES ASSUME Sorted, Next, NEW i \in DOMAIN buffer, NEW j \in DOMAIN buffer,
                      NEW k \in DOMAIN buffer', NEW l \in DOMAIN buffer',
                      i < j, buffer[i].sig = buffer'[k].sig, buffer[j].sig = buffer'[l].sig
               PROVE  k < l
    OBVIOUS
  <2>0. /\ TypeOK /\ OnePerTask(buffer) /\ buffer \in Seq(BlockedRecord)
        /\ DOMAIN buffer \subseteq Nat
        /\ buffer' \in Seq(BlockedRecord) /\ DOMAIN buffer' \subseteq Nat
    BY SortedStep DEF Sorted, TypeOK
  <2>1. CASE buffer' = buffer
    BY <2>0, <2>1 DEF OnePerTask
  <2>2. CASE Collect
    <3> DEFINE K == DOMAIN buffer \ WokenAt(buffer, now, revision)
    <3>1. PICK g : Takes(buffer', g, buffer, K)
      BY <2>2, CollectTakes
    <3> HIDE DEF K
    <3>2. K \subseteq DOMAIN buffer
      BY DEF K
    <3>3. g[k] = i /\ g[l] = j
      BY <2>0, <3>1, <3>2 DEF Takes, OnePerTask
    <3>4. ~(l < k) /\ l # k
      <4>1. ~(g[l] < g[k]) /\ g[l] # g[k]
        BY <2>0, <3>3
      <4> QED
        BY <4>1, <3>1 DEF Takes
    <3> QED
      BY <2>0, <3>4
  <2>3. ASSUME NEW r \in BlockedRecord, Push(r) PROVE k < l
    <3>1. PICK f : Origin(buffer, r, buffer', f)
      BY <2>0, <2>3, PushOrigin, CapacityAssumption DEF Push
    <3> QED
      BY <2>0, <3>1, OriginOrder
  <2> QED
    BY <2>1, <2>2, <2>3, StepKinds
<1>2. Spec => [][A]_vars
  BY <1>1, SortedAlways, PTL DEF Spec
<1> QED
  BY <1>2 DEF OrderKept

(* The walk over the shrinking buffer meets every record once: it takes out *)
(* those that wake, leaves those that sleep, and loses and doubles none     *)
(* (CollectReactivatableRecords).                                           *)
THEOREM NoneLeftAsleep == Spec => CollectedAllWoken
<1> DEFINE A == collected = <<>> /\ collected' # <<>> =>
                    /\ \A i \in DOMAIN buffer' : ~Wakes(buffer'[i], now, revision)
                    /\ \A i \in DOMAIN collected' : Wakes(collected'[i], now, revision)
                    /\ Len(buffer') + Len(collected') = Len(buffer)
                    /\ Tasks(buffer) = Tasks(buffer') \cup Tasks(collected')
<1>1. Sorted /\ Next => A
  <2> SUFFICES ASSUME Sorted, Next, collected = <<>>, collected' # <<>>
               PROVE  /\ \A i \in DOMAIN buffer' : ~Wakes(buffer'[i], now, revision)
                      /\ \A i \in DOMAIN collected' : Wakes(collected'[i], now, revision)
                      /\ Len(buffer') + Len(collected') = Len(buffer)
                      /\ Tasks(buffer) = Tasks(buffer') \cup Tasks(collected')
    OBVIOUS
  <2> DEFINE W == WokenAt(buffer, now, revision)
  <2>1. Collect
    BY StepKinds
  <2>2. PICK f : Takes(collected', f, buffer, W)
    BY <2>1, CollectTakes
  <2>3. PICK g : Takes(buffer', g, buffer, DOMAIN buffer \ W)
    BY <2>1, CollectTakes
  <2>4. \A i \in DOMAIN buffer' : ~Wakes(buffer'[i], now, revision)
    BY <2>3 DEF Takes, WokenAt
  <2>5. \A i \in DOMAIN collected' : Wakes(collected'[i], now, revision)
    BY <2>2 DEF Takes, WokenAt
  <2>6. Len(buffer') + Len(collected') = Len(buffer)
    BY <2>1, CollectTakes
  <2>7. Tasks(buffer) \subseteq Tasks(buffer') \cup Tasks(collected')
    BY <2>1, CollectKeepsTasks, TasksIn
  <2>8. Tasks(buffer') \cup Tasks(collected') \subseteq Tasks(buffer)
    <3>1. W \subseteq DOMAIN buffer
      BY DEF WokenAt
    <3> HIDE DEF W
    <3>2. /\ \A i \in DOMAIN buffer' : \E k \in DOMAIN buffer : buffer'[i] = buffer[k]
          /\ \A i \in DOMAIN collected' : \E k \in DOMAIN buffer : collected'[i] = buffer[k]
      BY <2>2, <2>3, <3>1 DEF Takes
    <3> QED
      BY <3>2, TasksIn
  <2> QED
    BY <2>4, <2>5, <2>6, <2>7, <2>8
<1>2. Spec => [][A]_vars
  BY <1>1, SortedAlways, PTL DEF Spec
<1> QED
  BY <1>2 DEF CollectedAllWoken
=============================================================================
