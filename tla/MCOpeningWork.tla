---------------------------- MODULE MCOpeningWork ----------------------------
(* Every wall depot has a slot on the ramp and one at the natural entrance.   *)
EXTENDS OpeningWork, TLC

MCRampSlot == [t \in TaskIds |-> IF t = 1 THEN "ramp1" ELSE "ramp2"]
MCNaturalSlots == SubSeq(<<"natural1", "natural2">>, 1, Cardinality(WallDepots))
MCSlots == {MCRampSlot[t] : t \in TaskIds} \cup {MCNaturalSlots[n] : n \in DOMAIN MCNaturalSlots}
MCDetails == MCSlots \cup {"anywhere"}

(* No step prefers a builder to another, and no liveness is checked here, so  *)
(* symmetry is sound.                                                         *)
BuilderSymmetry == Permutations(Actors)
=============================================================================
