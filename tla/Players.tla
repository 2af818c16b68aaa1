------------------------------ MODULE Players ------------------------------
(* Who plays: shared by the draw of a category and the referees' engine,   *)
(* where a referee may be a player of the tournament himself.              *)
CONSTANTS Player, None    \* None: there is no player here

ASSUME PlayersAssumption == None \notin Player
=============================================================================
