------------------------------ MODULE MCSettle ------------------------------
(***************************************************************************)
(* Module Settle for TLC: two packages, the second a dependency of the     *)
(* first.                                                                  *)
(***************************************************************************)
EXTENDS Settle, TLC

CONSTANTS axi, cells, c1, c2

MCNeeds == [n \in Names |-> IF n = axi THEN Names \ {axi} ELSE {}]
=============================================================================
