------------------------------ MODULE Retention ------------------------------
(***************************************************************************)
(* Keeping the elements of a sequence that sit at chosen positions, in      *)
(* their order: what BuildCompactedVector and the shifting loop of          *)
(* RemoveOrderedIndex compute.                                              *)
(***************************************************************************)
EXTENDS Naturals, Sequences, FiniteSets

(* The order-preserving enumerations of a finite set K of positions.  There *)
(* is exactly one, but nothing below needs to know it.                      *)
Enumerations(K) ==
    {f \in [1 .. Cardinality(K) -> K] :
        /\ \A a, b \in DOMAIN f : a < b => f[a] < f[b]
        /\ \A k \in K : \E a \in DOMAIN f : f[a] = k}

(* The (singleton) set of what is left of s when only K is kept.            *)
KeptAt(s, K) == {[i \in DOMAIN f |-> s[f[i]]] : f \in Enumerations(K)}
=============================================================================
