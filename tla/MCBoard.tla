------------------------------ MODULE MCBoard ------------------------------
(***************************************************************************)
(* Sets of three points with a lead of one, a match of one or three sets;  *)
(* the ends change at the first point of the last set.                     *)
(***************************************************************************)
EXTENDS Board
=============================================================================
