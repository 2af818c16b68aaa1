----------------------------- MODULE MCBracket -----------------------------
(***************************************************************************)
(* Two semifinals, the final and the match for third place.  One point     *)
(* decides a semifinal and the third place; the final is a best of three   *)
(* such sets, so it can be SCHEDULED, LIVE and FINISHED.  Player d of the  *)
(* second semifinal is also the referee of the match for third place, and  *)
(* may mistype its code.                                                   *)
(***************************************************************************)
EXTENDS Matches, TLC

CONSTANTS sf1, sf2, final, third, a, b, c, d, none, u1, u2

MCMatch == {sf1, sf2, final, third}
MCPlayer == {a, b, c, d}
MCWinnerTo == (sf1 :> <<final, 1>>) @@ (sf2 :> <<final, 2>>)
              @@ (final :> none) @@ (third :> none)
MCLoserTo == (sf1 :> <<third, 1>>) @@ (sf2 :> <<third, 2>>)
             @@ (final :> none) @@ (third :> none)
Pair(p, q) == <<p, q>>
MCEntry == (sf1 :> Pair(a, b)) @@ (sf2 :> Pair(c, d))
           @@ (final :> Pair(none, none)) @@ (third :> Pair(none, none))
MCBestOf == [m \in MCMatch |-> IF m = final THEN 3 ELSE 1]
MCAssigned == [m \in MCMatch |-> IF m = third THEN {u2} ELSE {u1}]
MCOwnPlayer == (u1 :> none) @@ (u2 :> d)
MCEditable == {final}
MCEditPlayers == {a}
MCEditBestOf == {3}
=============================================================================
