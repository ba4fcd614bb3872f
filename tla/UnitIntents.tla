----------------------------- MODULE UnitIntents -----------------------------
(***************************************************************************)
(* FUnitIntent and FIntentArbiter: which of the intents buffered in a frame *)
(* become commands.  Ability, target and flags of an intent are one value,  *)
(* "what"; the answers of the game to the arbiter's questions about it (is  *)
(* the actor there, the target visible, the placement free, the point       *)
(* reachable) are the set "sound" of the actors and whats it finds nothing  *)
(* wrong with.                                                              *)
(***************************************************************************)
EXTENDS Naturals, Sequences

CONSTANTS Tags, NullTag, Whats, Priorities

ASSUME IntentAssumption == NullTag \in Tags /\ Priorities \subseteq Nat

(* EIntentDomain; GetIntentDomainOrder is the position.                     *)
DomainOrder ==
    [Recovery |-> 0, StructureBuild |-> 1, StructureControl |-> 2, UnitProduction |-> 3,
     ArmyCombat |-> 4]

Intent == [actor : Tags, domain : DOMAIN DomainOrder, priority : Priorities, what : Whats]

HasIntentForActor(buffer, actor) == \E n \in DOMAIN buffer : buffer[n].actor = actor

(* A mutant of ShouldReplaceWinner: a later equal takes over.               *)
ReplacesEqual(challenger, incumbent) ==
    \/ challenger.priority > incumbent.priority
    \/ /\ challenger.priority = incumbent.priority
       /\ DomainOrder[challenger.domain] <= DomainOrder[incumbent.domain]

ShouldReplaceWinner(challenger, incumbent) ==
    \/ challenger.priority > incumbent.priority
    \/ /\ challenger.priority = incumbent.priority
       /\ DomainOrder[challenger.domain] < DomainOrder[incumbent.domain]

(* An intent in the first loop of Resolve: it wins its actor, or nothing.   *)
Contend(w, i) ==
    IF \/ i.actor = NullTag
       \/ i.actor \in DOMAIN w /\ ~ShouldReplaceWinner(i, w[i.actor])
    THEN w
    ELSE [a \in DOMAIN w \cup {i.actor} |-> IF a = i.actor THEN i ELSE w[a]]

(* WinningIntents after the first loop: a function on the actors that have  *)
(* an intent.                                                               *)
Winners(buffer) ==
    LET won[n \in 0..Len(buffer)] ==
          IF n = 0 THEN [a \in {} |-> NullTag] ELSE Contend(won[n - 1], buffer[n])
    IN  won[Len(buffer)]

(* The second loop passes over what is not equal to the winner.             *)
Offered(i, w) == i.actor \in DOMAIN w /\ i = w[i.actor]

(* An intent in the second loop, with ValidateAndNormalize: one of the      *)
(* domain of structures reserves its actor before anything else about it is *)
(* asked.                                                                   *)
Validate(r, i, w, sound) ==
    LET reserves == i.domain = "StructureBuild"
        accepted == <<i.actor, i.what>> \in sound /\ ~(reserves /\ i.actor \in r.reserved)
    IN  IF ~Offered(i, w) \/ \E m \in DOMAIN r.out : r.out[m].actor = i.actor THEN r
        ELSE [out |-> IF accepted THEN Append(r.out, i) ELSE r.out,
              reserved |-> IF reserves THEN r.reserved \cup {i.actor} ELSE r.reserved]

Resolve(buffer, sound) ==
    LET w == Winners(buffer)
        pass[n \in 0..Len(buffer)] ==
          IF n = 0 THEN [out |-> <<>>, reserved |-> {}]
          ELSE Validate(pass[n - 1], buffer[n], w, sound)
    IN  pass[Len(buffer)].out
=============================================================================
