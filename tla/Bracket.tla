------------------------------- MODULE Bracket -------------------------------
(***************************************************************************)
(* The matches of a bracket (draw.engine.ts: planMatches) of so many       *)
(* rounds, whose places are given, twice as many as the first round has    *)
(* matches, from 0. A match is <<round, position>>; a place without a      *)
(* player is a bye.                                                        *)
(***************************************************************************)
EXTENDS Integers, FiniteSets

CONSTANT NoOne        \* nobody: a place left empty

(* One match in the last round, and twice as many in the one before.       *)
MatchesIn(rounds, round) ==
    LET held[k \in 0..(rounds - 1)] == IF k = 0 THEN 1 ELSE 2 * held[k - 1]
    IN  held[rounds - round]
MatchIds(rounds) ==
    {m \in (1..rounds) \X (1..MatchesIn(rounds, 1)) : m[2] <= MatchesIn(rounds, m[1])}

(* Who is through without a match: only in the first round.                *)
Walkover(places, m) ==
    LET p1 == places[2 * m[2] - 2]  p2 == places[2 * m[2] - 1]
    IN  IF m[1] # 1 THEN NoOne
        ELSE IF p2 = NoOne THEN p1 ELSE IF p1 = NoOne THEN p2 ELSE NoOne
(* Mutant: the winner of an even match goes where that of the odd one goes.*)
FeedsFirst(rounds, m) ==
    IF m[1] = rounds THEN <<>> ELSE <<<<m[1] + 1, (m[2] + 1) \div 2>>, 1>>
(* The match and the slot the winner of m goes to.                         *)
Feeds(rounds, m) ==
    IF m[1] = rounds THEN <<>>
    ELSE <<<<m[1] + 1, (m[2] + 1) \div 2>>, IF m[2] % 2 = 1 THEN 1 ELSE 2>>
(* Who stands in a slot before anything is played.                         *)
PlayerOf(places, m, slot) ==
    IF m[1] = 1 THEN places[2 * m[2] - 3 + slot]
    ELSE IF m[1] = 2 THEN Walkover(places, <<1, 2 * m[2] - 2 + slot>>)
    ELSE NoOne

----------------------------------------------------------------------------
(* Every slot after the first round waits for the winner of exactly one    *)
(* match of the round before, and has a player from the start exactly when *)
(* that one has no opponent there (planMatches): what the theorems about   *)
(* matches assume of a bracket.                                            *)
EverySlotIsFedOnce(rounds, places) ==
    LET ids == MatchIds(rounds) IN
    /\ \A m \in ids, slot \in {1, 2} :
          m[1] > 1 => \E f \in ids : {g \in ids : Feeds(rounds, g) = <<m, slot>>} = {f}
    /\ \A m \in ids : m[1] < rounds =>
          LET to == Feeds(rounds, m) IN
          /\ to[1] \in ids /\ to[2] \in {1, 2} /\ to[1][1] = m[1] + 1
          /\ PlayerOf(places, to[1], to[2]) = Walkover(places, m)
=============================================================================
