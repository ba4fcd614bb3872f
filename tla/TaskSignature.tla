---------------------------- MODULE TaskSignature ----------------------------
(***************************************************************************)
(* When two pieces of scheduler work are "the same task".                  *)
(*                                                                         *)
(* A key is what FCommandTaskSignatureKey::FromOrderRecord keeps of an     *)
(* order: the opening task id (0 for goal-driven work) and the fields that *)
(* stand for it when there is none.  Ability, result unit, upgrade and the *)
(* two preferred slots are folded into one "detail": the code only ever    *)
(* compares them all together.                                             *)
(***************************************************************************)
EXTENDS Naturals

CONSTANTS
    TaskIds,    \* opening task ids, positive
    GoalIds,    \* goal ids, positive (0 is "no goal" in the source)
    Details     \* the remaining fields of a key

ASSUME TaskIdAssumption == TaskIds \subseteq Nat \ {0}
ASSUME GoalIdAssumption == GoalIds \subseteq Nat \ {0}

Key == [task : TaskIds \cup {0}, goal : GoalIds \cup {0}, detail : Details]

(* operator==, which is also MatchesTaskSignatureValues of the blocked     *)
(* record: a task id on either side decides alone.                         *)
Matches(k, l) ==
    IF k.task # 0 \/ l.task # 0
    THEN k.task = l.task
    ELSE k.goal = l.goal /\ k.detail = l.detail

(* FCommandTaskSignatureKeyHash mixes every field in, whatever the task id *)
(* is: two keys are sure to meet in one bucket only when all fields agree. *)
SameHash(k, l) == k = l

(* What Matches compares, as a value: the class of a key.                  *)
ClassOf(k) ==
    IF k.task # 0 THEN [task |-> k.task]
                  ELSE [goal |-> k.goal, detail |-> k.detail]

(* The answers a lookup of k in a hash index over the keys S may give.  It *)
(* surely finds an equal key; a key that only Matches k is found or missed *)
(* depending on where the build's hash table puts it.                      *)
IndexAnswers(S, k) ==
    IF \E l \in S : SameHash(k, l) THEN {TRUE}
    ELSE IF \E l \in S : Matches(k, l) THEN {TRUE, FALSE}
    ELSE {FALSE}

(* The answer of the linear scan used while the derived queues are dirty.  *)
ScanAnswer(S, k) == \E l \in S : Matches(l, k)
=============================================================================
