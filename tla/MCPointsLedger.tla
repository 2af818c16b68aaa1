--------------------------- MODULE MCPointsLedger ---------------------------
(***************************************************************************)
(* A final and a group match of the same two players, one of them close to *)
(* the floor, at the coefficient 0.5, whose halves need rounding.          *)
(***************************************************************************)
EXTENDS PointsLedger, TLC

CONSTANTS a, b, final, group

MCMatch == {final, group}
MCPair == [m \in MCMatch |-> {a, b}]
MCWinnerPlace == (final :> 1) @@ (group :> 0)
MCLoserPlace == (final :> 2) @@ (group :> 0)
MCPlaceBonus == [i \in 1..8 |-> IF i = 1 THEN 25 ELSE 20]
MCOpening == (a :> 4) @@ (b :> 19)
MCAdjustBy == {-30, 7}
MCMaxFinish == (final :> 2) @@ (group :> 1)
=============================================================================
