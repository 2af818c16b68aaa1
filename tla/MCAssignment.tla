---------------------------- MODULE MCAssignment ----------------------------
(***************************************************************************)
(* Two matches of one tournament at times that overlap in part, and three  *)
(* referees of whom the first plays and the second is from the region of a *)
(* player.  The second match gets its pair from more than one source.      *)
(***************************************************************************)
EXTENDS Assignment

CONSTANTS t1, ann, ben, cleo, dora

MCOf == [m \in Match |-> t1]
MCStage == [m \in Match |-> IF m = 3 THEN 2 ELSE 5]
MCOwnPlayer == [r \in Referee |-> IF r = 1 THEN ann ELSE None]
MCRank == [r \in Referee |-> IF r = 1 THEN 0 ELSE 3]
MCNeighbours == [r \in Referee |-> IF r = 2 THEN {cleo} ELSE {}]
MCSchedule == [m \in Match |-> 30 * (m - 1)]
MCPairs == [m \in Match |-> IF m = 1 THEN {{ann, ben}} ELSE {{ann, cleo}, {cleo, dora}}]
MCDeskOptions == {[onlyUnassigned |-> FALSE, needAssistant |-> TRUE],
                  [onlyUnassigned |-> TRUE, needAssistant |-> FALSE]}
=============================================================================
