----------------------------- MODULE MCLiveFeed -----------------------------
(***************************************************************************)
(* A page or a screen, one score on the board, and a match that is         *)
(* written often enough to be finished, undone and finished again.         *)
(***************************************************************************)
EXTENDS LiveFeed
=============================================================================
