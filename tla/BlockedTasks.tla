----------------------------- MODULE BlockedTasks -----------------------------
(***************************************************************************)
(* The blocked-task buffer of the scheduler as operators on a sequence.    *)
(*                                                                         *)
(* FBlockedTaskRingBuffer keeps its active records in slots 0..ActiveCount-1*)
(* of a fixed array (HeadIndex is never moved), so the buffer is the        *)
(* sequence of its active records, oldest slot first.  A record keeps the  *)
(* class of its task signature, its retention policy and what wakes it.    *)
(***************************************************************************)
EXTENDS Naturals, Sequences, SequencesExt

CONSTANTS Signatures    \* task-signature classes (TaskSignature!ClassOf)

Policies == {"HotMustRun", "BufferedRetry", "DiscardableDuplicate"}
WakeKinds == {"ProducerAvailability", "Resources", "Placement",
              "GoalRevision", "CooldownOnly"}

(* SchedulerStimulusState has one revision per observable cause.           *)
StimulusKinds == WakeKinds \ {"CooldownOnly"}
Revisions == [StimulusKinds -> Nat]

BlockedRecord ==
    [sig : Signatures, policy : Policies, wake : WakeKinds,
     nextEligible : Nat, lastSeen : Nat, retry : Nat]

(* GetStimulusRevisionForWakeKind: the revision a record is stamped with   *)
(* when it is parked; CooldownOnly falls through to the goal revision.     *)
RevisionToStamp(rev, wake) ==
    IF wake = "CooldownOnly" THEN rev["GoalRevision"] ELSE rev[wake]

(* DoesWakeConditionMatch: the clock, or a change of the awaited cause;    *)
(* a CooldownOnly record compares with its own stamp, so only the clock.   *)
Wakes(r, now, rev) ==
    \/ now >= r.nextEligible
    \/ r.wake # "CooldownOnly" /\ rev[r.wake] # r.lastSeen

(* A mutant of Holds: only the oldest record is compared.                   *)
HoldsAtHead(buf, sig) == buf # <<>> /\ buf[1].sig = sig

(* HasEquivalentRecord and HasEquivalentOrderSignature                     *)
Holds(buf, sig) == \E i \in DOMAIN buf : buf[i].sig = sig

(* A mutant of NoFreeSlot: the array is overrun by one record.                  *)
OverByOne(buf, capacity) == Len(buf) > capacity

NoFreeSlot(buf, capacity) == Len(buf) >= capacity

(* Mutants of Discardable: a full buffer gives up its oldest record,        *)
(* whatever its policy, or its first record that is not must-run.           *)
Oldest(buf) == IF buf = <<>> THEN {} ELSE {1}
NotMustRun(buf) == {i \in DOMAIN buf : buf[i].policy # "HotMustRun"}

(* What a full buffer may give up for a new record.                         *)
Discardable(buf) ==
    {i \in DOMAIN buf : buf[i].policy = "DiscardableDuplicate"}

FirstOf(S) == CHOOSE i \in S : \A j \in S : i <= j

(* A mutant of RemoveOrderedIndex: the hole is filled with the last record. *)
FillWithLast(buf, i) == SubSeq([buf EXCEPT ![i] = Last(buf)], 1, Len(buf) - 1)

RemoveOrderedIndex(buf, i) == RemoveAt(buf, i)

(* TryPushOrCoalesce, its four ways out in the order the code tries them.  *)
(* The result carries the new buffer and which output flag was raised; an   *)
(* empty array (capacity 0) has no record to match or to evict and refuses. *)
TryPushOrCoalesce(buf, r, capacity) ==
    LET result(b, flag) == [buffer |-> b, flag |-> flag]
        refusal == IF r.policy = "HotMustRun" THEN "rejectedMustRun" ELSE "dropped"
    IN  IF Holds(buf, r.sig) THEN
            LET i == FirstOf({j \in DOMAIN buf : buf[j].sig = r.sig})
            IN  result([buf EXCEPT ![i] = r], "coalesced")
        ELSE IF ~NoFreeSlot(buf, capacity) THEN
            result(Append(buf, r), "buffered")
        ELSE IF Discardable(buf) # {} THEN
            result(Append(RemoveOrderedIndex(buf, FirstOf(Discardable(buf))), r), "buffered")
        ELSE result(buf, refusal)

(* A mutant of Visit: the index goes on after a removal, too, and steps     *)
(* over the record that moved up.                                           *)
VisitAndGoOn(loop, now, rev) ==
    IF loop.at > Len(loop.buffer) THEN loop
    ELSE IF ~Wakes(loop.buffer[loop.at], now, rev) THEN [loop EXCEPT !.at = @ + 1]
    ELSE [at |-> loop.at + 1, buffer |-> RemoveOrderedIndex(loop.buffer, loop.at),
          out |-> Append(loop.out, loop.buffer[loop.at])]

(* One turn of the loop: a record that sleeps on is passed; one that wakes  *)
(* is taken out, and the index stays for the record that moves up.          *)
Visit(loop, now, rev) ==
    IF loop.at > Len(loop.buffer) THEN loop
    ELSE IF ~Wakes(loop.buffer[loop.at], now, rev) THEN [loop EXCEPT !.at = @ + 1]
    ELSE [loop EXCEPT !.buffer = RemoveOrderedIndex(@, loop.at),
                      !.out = Append(@, loop.buffer[loop.at])]

(* CollectReactivatableRecords: every turn brings index and count one       *)
(* closer, so there is one for each record of the buffer.  The result has   *)
(* the buffer and, in "out", the records taken out of it.                   *)
CollectReactivatableRecords(buf, now, rev) ==
    LET loop[n \in 0 .. Len(buf)] ==
            IF n = 0 THEN [at |-> 1, buffer |-> buf, out |-> <<>>] ELSE Visit(loop[n - 1], now, rev)
    IN  loop[Len(buf)]

(* CountRecordsByDeferralReason is a read-only tally and is left out.      *)
=============================================================================
