------------------------------ MODULE MCMatch ------------------------------
(***************************************************************************)
(* One match in full: short sets (two points, a lead of one), best of      *)
(* three, penalty points and one time-out.                                 *)
(***************************************************************************)
EXTENDS Matches, TLC

CONSTANTS m1, a, b, none, ref

MCMatches == {m1}
MCPlayer == {a, b}
MCNowhere == m1 :> none
MCEntry == m1 :> <<a, b>>
MCBestOf == m1 :> 3
MCAssigned == m1 :> {ref}
MCOwnPlayer == ref :> none
MCEditPlayers == {none}
MCEditBestOf == {1}
=============================================================================
