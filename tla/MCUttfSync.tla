----------------------------- MODULE MCUttfSync -----------------------------
(***************************************************************************)
(* Two of what has an order or a limit, one of the rest. The first player's*)
(* photo cannot be loaded, a run loads one photo and writes one article.   *)
(***************************************************************************)
EXTENDS UttfSync

CONSTANTS trn, ann, ben, cup, clip, game, feast, draw, uz, ru

MCTournaments == <<trn>>
MCPlayers == <<ann, ben>>
MCClubs == <<cup>>
MCVideos == <<clip>>
MCMatches == <<game>>
MCNews == <<feast, draw>>
MCClubOf == [p \in {ann, ben} |-> IF p = ann THEN None ELSE cup]
MCTournamentOf == [m \in {game} |-> trn]
MCPairOf == [m \in {game} |-> {ann, ben}]
MCTextsOf == [a \in {feast, draw} |-> IF a = feast THEN {uz, ru} ELSE {uz}]
MCDuties == {{"tournaments", "players", "matches"}, {"tournaments", "tournament-names"},
             {"clubs", "players", "photos"}, {"news"}, {"videos"}}
=============================================================================
