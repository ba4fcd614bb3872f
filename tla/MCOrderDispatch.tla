--------------------------- MODULE MCOrderDispatch ---------------------------
(* OrderDispatch with an SCV that builds depots and a barracks that trains  *)
(* marines, or with two of one sort that do the same.                       *)
EXTENDS OrderDispatch

OneKindEach == {<<"scv", "depot">>, <<"barracks", "marine">>}
AllTheSame == Actors \X Kinds
=============================================================================
