------------------------- MODULE MCScoreboardBridge -------------------------
(***************************************************************************)
(* One court.  It can end a match with a clean win, with a win after a     *)
(* lost point or set, or with a score that is no end.  In a best of three  *)
(* with sets of one point the row on the site shows no points at any time, *)
(* and only its sets tell that it has begun; in one set of two points only *)
(* its points do.                                                          *)
(***************************************************************************)
EXTENDS ScoreboardBridge, TLC

CONSTANTS m1, m2, r1, r2

Clean == << <<1, 0>>, <<1, 0>> >>
Lost == << <<1, 0>>, <<0, 1>>, <<0, 1>> >>
Short == << <<1, 0>> >>
MCResults == {Clean, Lost, Short}

Win == << <<2, 0>> >>
Unfinished == << <<1, 0>> >>
MCOneSet == {Win, Unfinished}

(* Matches and calls are interchangeable. *)
Interchange == Permutations(Match) \cup Permutations(Request)
=============================================================================
