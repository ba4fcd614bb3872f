---------------------------- MODULE BlockedTaskRing ----------------------------
(***************************************************************************)
(* One blocked-task buffer of the scheduler in use: orders that cannot run *)
(* are parked in it (ParkDeferredOrders), each scheduler step collects the *)
(* records whose wake condition holds (ReactivateBlockedTasks), and each    *)
(* collected record either becomes an order again or is pushed back with a  *)
(* longer delay.  The buffer is a fixed array; the game clock and the       *)
(* stimulus revisions move between steps.                                   *)
(***************************************************************************)
EXTENDS BlockedTasks

CONSTANTS
    Capacity,       \* slots of the array: MaxBlockedStrategicTasks, MaxBlockedPlanningTasks
    Delay,          \* game loops until a record parked for a reason is retried
    BackoffBase,    \* FailedReactivationBaseDelayGameLoops
    BackoffMax,     \* FailedReactivationMaxDelayGameLoops
    MaxGameLoop,    \* bound on the clock
    MaxRevision,    \* bound on every stimulus revision
    Reasons,        \* the deferral reasons orders are parked for
    MaxRetry        \* bound on the retry counter of a record

(* The deferral reasons ShouldParkDeferredOrder can answer TRUE for.        *)
ParkableReasons ==
    {"NoProducer", "InsufficientResources", "NoValidPlacement",
     "ReservedSlotOccupied", "ReservedSlotInvalidated", "ProducerBusy"}

ASSUME CapacityAssumption == Capacity \in Nat
ASSUME ReasonAssumption == Reasons \subseteq ParkableReasons
ASSUME DelayAssumption == Delay \in [Reasons -> Nat]
ASSUME BackoffAssumption == BackoffBase \in Nat /\ BackoffMax \in Nat
ASSUME BoundAssumption ==
    MaxGameLoop \in Nat /\ MaxRevision \in Nat /\ MaxRetry \in Nat

VARIABLES
    now,        \* CurrentGameLoop
    revision,   \* SchedulerStimulusState
    buffer,     \* the active records of the array
    collected,  \* OutBlockedTaskRecords, not processed yet
    verdict,    \* the flag raised by the last push
    offered     \* history: the record of this push, none after another step

vars == <<now, revision, buffer, collected, verdict, offered>>

Init ==
    /\ now = 0
    /\ revision = [k \in StimulusKinds |-> 1]
    /\ buffer = <<>>
    /\ collected = <<>>
    /\ verdict = "none"
    /\ offered = <<>>

(* The wake kind CreateBlockedTaskRecord gives a record parked for a reason. *)
WakeKindFor(reason) ==
    CASE reason \in {"NoProducer", "ProducerBusy"} -> "ProducerAvailability"
      [] reason = "InsufficientResources" -> "Resources"
      [] OTHER -> "Placement"

(* A mutant of CreateBlockedTaskRecord: the delay is taken off the clock.    *)
BackdatedRecord(sig, policy, reason, retries) ==
    [sig |-> sig, policy |-> policy, wake |-> WakeKindFor(reason),
     nextEligible |-> now - Delay[reason],
     lastSeen |-> RevisionToStamp(revision, WakeKindFor(reason)),
     retry |-> retries]

CreateBlockedTaskRecord(sig, policy, reason, retries) ==
    [sig |-> sig, policy |-> policy, wake |-> WakeKindFor(reason),
     nextEligible |-> now + Delay[reason],
     lastSeen |-> RevisionToStamp(revision, WakeKindFor(reason)),
     retry |-> retries]

Push(r) ==
    LET pushed == TryPushOrCoalesce(buffer, r, Capacity)
    IN  buffer' = pushed.buffer /\ verdict' = pushed.flag /\ offered' = <<r>>

NoPush == verdict' = "none" /\ offered' = <<>>

(* ParkDeferredOrders pushes one record; the reactivation of a step is over *)
(* by then.                                                                 *)
Park(sig, policy, reason, retries) ==
    /\ collected = <<>>
    /\ Push(CreateBlockedTaskRecord(sig, policy, reason, retries))
    /\ UNCHANGED <<now, revision, collected>>

(* The records that wake, if any, are taken out for reactivation.           *)
Collect ==
    /\ collected = <<>>
    /\ LET loop == CollectReactivatableRecords(buffer, now, revision)
       IN  /\ loop.out # <<>>
           /\ collected' = loop.out
           /\ buffer' = loop.buffer
    /\ NoPush
    /\ UNCHANGED <<now, revision>>

(* A collected record becomes an order, or an active order already does its *)
(* work: either way the record is spent.                                    *)
Spend ==
    /\ collected # <<>>
    /\ collected' = Tail(collected)
    /\ NoPush
    /\ UNCHANGED <<now, revision, buffer>>

SmallerOf(a, b) == IF a <= b THEN a ELSE b
LargerOf(a, b) == IF a >= b THEN a ELSE b

(* A collected record CanAdmitOrder refuses (it never refuses a must-run    *)
(* one) goes back with one more retry, a fresh stamp and a growing delay;   *)
(* the push's flags are ignored.                                            *)
Deferred(r) ==
    [r EXCEPT !.retry = @ + 1,
              !.lastSeen = RevisionToStamp(revision, r.wake),
              !.nextEligible =
                  LargerOf(@, now + SmallerOf(BackoffBase * (2 + r.retry), BackoffMax))]

PushBack ==
    /\ collected # <<>>
    /\ Head(collected).policy # "HotMustRun"
    /\ Head(collected).retry < MaxRetry
    /\ Push(Deferred(Head(collected)))
    /\ collected' = Tail(collected)
    /\ UNCHANGED <<now, revision>>

(* Time passes between scheduler steps.                                     *)
Tick ==
    /\ collected = <<>>
    /\ now < MaxGameLoop
    /\ now' = now + 1
    /\ NoPush
    /\ UNCHANGED <<revision, buffer, collected>>

(* RefreshStimulusState sees another fingerprint of one cause.              *)
Stimulus(k) ==
    /\ collected = <<>>
    /\ revision[k] < MaxRevision
    /\ revision' = [revision EXCEPT ![k] = @ + 1]
    /\ NoPush
    /\ UNCHANGED <<now, buffer, collected>>

Next ==
    \/ \E sig \in Signatures, policy \in Policies, reason \in Reasons, n \in 0 .. MaxRetry :
          Park(sig, policy, reason, n)
    \/ Collect
    \/ Spend
    \/ PushBack
    \/ Tick
    \/ \E reason \in Reasons : Stimulus(WakeKindFor(reason))

Spec == Init /\ [][Next]_vars
-----------------------------------------------------------------------------
Verdicts == {"none", "buffered", "coalesced", "dropped", "rejectedMustRun"}

TypeOK ==
    /\ now \in Nat
    /\ revision \in Revisions
    /\ buffer \in Seq(BlockedRecord)
    /\ collected \in Seq(BlockedRecord)
    /\ verdict \in Verdicts
    /\ offered \in Seq(BlockedRecord)

(* No task is parked twice: a record still waiting in the buffer and one    *)
(* taken out for reactivation never stand for the same task, so pushing a   *)
(* record back cannot overwrite another one (MatchesSignature).             *)
DistinctTasks ==
    LET held == buffer \o collected
    IN  \A i, j \in DOMAIN held : held[i].sig = held[j].sig => i = j

(* Reactivation gives up no slot it may need again: what is left in the     *)
(* buffer and what was taken out of it fit together, which is why           *)
(* ReactivateBlockedTasks may ignore the flags of its pushes.               *)
RoomToPushBack == Len(buffer) + Len(collected) <= Capacity

Tasks(s) == {s[i].sig : i \in DOMAIN s}
MustRun(s) == {s[i].sig : i \in {j \in DOMAIN s : s[j].policy = "HotMustRun"}}

(* A push never costs a must-run task its record ("explicit rejection"      *)
(* instead of a silent drop): a task parked as must-run stays so until it   *)
(* is collected and spent, or parked again as something else.  A must-run   *)
(* record that is pushed is in the buffer then, or refused, and exactly     *)
(* then flagged as rejected.                                                *)
MustRunKept ==
    [][ /\ \A t \in MustRun(buffer) :
              t \in MustRun(buffer') \cup MustRun(collected') \cup (Tasks(offered') \cap Tasks(buffer'))
        /\ offered' # <<>> => MustRun(collected) \subseteq MustRun(collected')
        /\ \A t \in MustRun(offered') :
              IF verdict' = "rejectedMustRun" THEN t \notin Tasks(buffer') ELSE t \in MustRun(buffer')
      ]_vars

(* The records of the buffer that a step leaves without a place.            *)
Lost == {i \in DOMAIN buffer : buffer[i].sig \notin Tasks(buffer') \cup Tasks(collected')}

(* The eviction of a full buffer costs one record at most, a discardable    *)
(* one, and only for a record that then has its place; no other step costs  *)
(* any: what leaves the buffer has been collected.                          *)
OnlyDiscardableEvicted ==
    [][ /\ \A i \in Lost : buffer[i].policy = "DiscardableDuplicate"
        /\ \A i, j \in Lost : i = j
        /\ Lost # {} =>
              /\ Len(buffer) = Capacity
              /\ offered' # <<>> /\ Tasks(offered') \subseteq Tasks(buffer')
      ]_vars

(* The buffer is first come, first served: two tasks that both stay keep    *)
(* their order, whatever is evicted, coalesced or collected around them.    *)
OrderKept ==
    [][ \A i, j \in DOMAIN buffer : \A k, l \in DOMAIN buffer' :
           (i < j /\ buffer[i].sig = buffer'[k].sig /\ buffer[j].sig = buffer'[l].sig) => k < l ]_vars

(* Nothing that should run stays behind, and nothing else is taken: the     *)
(* walk over the shrinking buffer meets every record once.                  *)
CollectedAllWoken ==
    [][ collected = <<>> /\ collected' # <<>> =>
          /\ \A i \in DOMAIN buffer' : ~Wakes(buffer'[i], now, revision)
          /\ \A i \in DOMAIN collected' : Wakes(collected'[i], now, revision)
          /\ Len(buffer') + Len(collected') = Len(buffer)
          /\ Tasks(buffer) = Tasks(buffer') \cup Tasks(collected') ]_vars
=============================================================================
