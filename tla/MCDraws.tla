------------------------------ MODULE MCDraws ------------------------------
(* Three players, two requests at a time, groups from three players on.     *)
EXTENDS Draws, TLC

CONSTANTS p1, p2, p3, r1, r2

(* Requests are interchangeable, and so are players. *)
Interchange == Permutations(Player) \cup Permutations(Request)
=============================================================================
