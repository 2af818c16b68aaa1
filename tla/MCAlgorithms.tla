---------------------------- MODULE MCAlgorithms ----------------------------
(***************************************************************************)
(* The pure parts of the site, each on its own inputs: `job` is what is    *)
(* computed. Draws, qualifiers and groups are placed step by step with     *)
(* every lot, and a match is played point by point; tables of groups, plans*)
(* of tables and replays of results are looked at as they are.             *)
(***************************************************************************)
EXTENDS Placing, GroupTable, Lots, TablePlan, SentResult

CONSTANTS MaxPlayers,     \* bound: players of a draw that is looked at
          MaxGroups, MaxAdvancing, MaxQualifiers,   \* bounds: groups, who goes through
          MaxMatches,     \* bound: matches of a hall
          MaxDealt        \* bound: players dealt into groups

Draws == {[kind |-> "draw", n |-> n, org |-> [p \in 1..n |-> NoOrg]] : n \in 2..MaxPlayers}
    \cup UNION {[kind : {"draw"}, n : {n}, org : Org(n)] : n \in 2..MaxLots}
Qualifyings == {j \in [kind : {"qualify"}, groups : 2..MaxGroups, advancing : 1..MaxAdvancing] :
    j.groups * j.advancing <= MaxQualifiers}
Snakes ==
    {j \in UNION {[kind : {"snake"}, n : {n}, groups : 2..4, modified : BOOLEAN, org : Org(n)] :
                    n \in 4..MaxDealt} :
        2 * j.groups <= j.n /\ (j.modified <=> j.groups = 4)}

(* Results of the match of a and b.                                        *)
None == [kind |-> "NONE", aWon |-> TRUE, sets |-> <<>>, partial |-> <<0, 0>>]
Won(kind, aWon, sets, partial) == [kind |-> kind, aWon |-> aWon, sets |-> sets, partial |-> partial]
Outcomes ==
    {None,
     Won("PLAYED", TRUE, <<<<11, 9>>, <<11, 2>>>>, <<0, 0>>),
     Won("PLAYED", TRUE, <<<<11, 9>>, <<7, 11>>, <<11, 9>>>>, <<0, 0>>),
     Won("PLAYED", FALSE, <<<<9, 11>>, <<9, 11>>>>, <<0, 0>>),
     Won("PLAYED", FALSE, <<<<9, 11>>, <<11, 7>>, <<5, 11>>>>, <<0, 0>>),
     Won("FORFEIT", TRUE, <<<<9, 11>>>>, <<5, 10>>),
     Won("FORFEIT", FALSE, <<>>, <<0, 0>>)}
Pairs == {<<a, b>> \in Group \X Group : a < b}
Result(pair, o) == [a |-> pair[1], b |-> pair[2], bestOf |-> 3] @@ o
(* The fourth player of a group loses whatever she plays.                  *)
OutcomesOf(pr) ==
    IF pr[2] = 4 THEN {Won("PLAYED", TRUE, <<<<11, 9>>, <<11, 2>>>>, <<0, 0>>)} ELSE Outcomes \ {None}
Tabled == [kind : {"table"}, allDone : BOOLEAN, results : {[pr \in Pairs |-> None]}]
ResultsOf(j) == {Result(pr, j.results[pr]) : pr \in Pairs}

(* Matches given up: full sets before, and a set that is not over.         *)
Forfeits == [kind : {"forfeit"}, aWon : BOOLEAN, bestOf : {5},
             partial : {pt \in (0..14) \X (0..14) : Unfinished(pt)},
             sets : {<<>>, <<<<11, 4>>>>, <<<<12, 14>>>>, <<<<11, 6>>, <<3, 11>>>>,
                     <<<<11, 9>>, <<11, 8>>>>}]
Frac == (0..3) \X (0..3)

(* The points of a late stage's players and of those with a table do not count. *)
Matches == [key : {TRUE}, rating : {0}, table : {0}]
    \cup [key : {FALSE}, rating : Ratings, table : {0}]
    \cup [key : {FALSE}, rating : {0}, table : Tables]

Init ==
    /\ at = <<>> /\ MatchInit /\ NothingSent /\ EmptyHall
    /\ \/ job = [kind |-> "match"]
       \/ job \in Draws
       \/ job \in Qualifyings
       \/ job \in Snakes
       \/ job \in Tabled
       \/ job = [kind |-> "tables"]
       \/ job \in Forfeits
       \/ job \in [kind : {"fractions"}, x : Frac, y : Frac, z : Frac]
       \/ job \in [kind : {"rounds"}, n : 2..9]
       \/ job = [kind |-> "replay"]
    /\ job.kind # "match" => umpire.opener = 1
    /\ job.kind # "tables" => hall.main = {}

(* A match of the group is over.                                           *)
PlayMatch ==
    /\ job.kind = "table"
    /\ \E pr \in Pairs : /\ job.results[pr] = None
                         /\ \E o \in OutcomesOf(pr) : job' = [job EXCEPT !.results[pr] = o]
    /\ UNCHANGED <<at, matchVars, sent, hall>>

(* One more set of a result that a scoreboard sends, bound: BestOf of them.*)
MoreSets ==
    /\ job.kind = "replay" /\ Len(sent) < BestOf
    /\ OneSetMore /\ UNCHANGED <<pvars, matchVars, hall>>

(* One more match of a hall, bound: MaxMatches of them.                    *)
MoreMatches ==
    /\ job.kind = "tables" /\ Len(hall.matches) < MaxMatches
    /\ \E m \in Matches : OneMatchMore(m)
    /\ UNCHANGED <<pvars, matchVars, sent>>

PlayPoint == job.kind = "match" /\ MatchNext /\ UNCHANGED <<pvars, sent, hall>>
Place == Next /\ UNCHANGED <<matchVars, sent, hall>>

Spec == Init /\ [][Place \/ PlayMatch \/ MoreSets \/ MoreMatches \/ PlayPoint]_<<pvars, matchVars, sent, hall>>

(* ---------------- The draw ----------------                              *)

Drawn == job.kind = "draw" /\ Placed
SeedPlaces == UNION {PlacesOf(r, Size) : r \in 1..SeedCount}
(* 1, 2, 3-4, 5-8 and so on are of the same strength to the rules.         *)
Strength(p) == Min({k \in 0..6 : p <= 2 ^ k})

(* Every empty place is beside the place of a seed, none on it, in draws of*)
(* up to 64; and no player is given a bye while a stronger one plays       *)
(* (drawByRules, byePositions).                                            *)
ByesAreForTheBest ==
    job.kind = "draw" =>
        /\ \A b \in Byes : b \notin SeedPlaces /\ Beside(b) \in SeedPlaces
        /\ Placed => \A p, q \in 1..job.n :
              Beside(at[p]) \notin Taken /\ Beside(at[q]) \in Taken => Strength(p) <= Strength(q)

(* Of the seeds, the best 2^k stand in different 2^k-ths of the bracket: no*)
(* two meet before as few are left (drawByRules).                          *)
SeedsMeetLate ==
    job.kind = "draw" => \A p, q \in 1..SeedCount \cap DOMAIN at :
        p < q => MeetingRound(at[p], at[q]) > Rounds - Strength(q)

FirstPairs == {{2 * i, 2 * i + 1} : i \in 0..(BracketSize \div 2 - 1)}
(* Players of an organisation larger than every other meet in the first    *)
(* round only as often as the places left by the seeds give no choice      *)
(* (drawByRules).                                                          *)
LargestOrgMeetsNoMoreThanItMust ==
    Drawn => \A o \in Orgs :
        (\A other \in Orgs \ {o} : OrgSize(other) < OrgSize(o)) =>
            LET mates == {p \in 1..job.n : job.org[p] = o}
                drawn == {p \in mates : p > SeedCount}
                spots == {at[p] : p \in SeedCount + 1..job.n}
                apart == {pr \in FirstPairs : pr \cap spots # {}
                              /\ \A p \in mates \ drawn : at[p] \notin pr}
            IN  Cardinality({pr \in FirstPairs : /\ pr \subseteq {at[p] : p \in mates}
                                                /\ pr \cap spots # {}})
                    = Max({0, Cardinality(drawn) - Cardinality(apart)})

(* No match of the first round is left without players (drawByRules,       *)
(* placeQualifiers).                                                       *)
NoEmptyMatch == Placed => \A pr \in FirstPairs : pr \cap Taken # {}

(* Every slot after the first round waits for the winner of exactly one    *)
(* match, and a player without an opponent already stands in the slot that *)
(* the match feeds (planMatches): what the theorems about matches assume.  *)
BracketFeedsEverySlot ==
    Placed => EverySlotIsFedOnce(Rounds, [i \in 0..(BracketSize - 1) |-> StandsAt(i)])

(* ---------------- From the groups ----------------                       *)

(* The second of every group stands in the other half than its winner,     *)
(* whatever the lots and whoever was placed before (placeQualifiers).      *)
SecondsInOtherHalf ==
    job.kind = "qualify" /\ Placed /\ job.advancing > 1 =>
        \A g \in 1..job.groups : HalfOf(at[<<g, 1>>]) # HalfOf(at[<<g, 2>>])

(* A draw by the rules, of all players or of those who come out of groups: *)
(* byes and places for the seeds, members of an organisation apart, winner *)
(* and second of a group in different halves, no empty match, and every    *)
(* later slot fed once (drawByRules, placeQualifiers, planMatches).        *)
DrawIsByTheRules ==
    /\ ByesAreForTheBest
    /\ SeedsMeetLate
    /\ LargestOrgMeetsNoMoreThanItMust
    /\ SecondsInOtherHalf
    /\ NoEmptyMatch
    /\ BracketFeedsEverySlot

(* ---------------- The table of a group ----------------                  *)

(* The table is final when the matches of all groups are over.             *)
Final == job.allDone /\ \A pr \in Pairs : job.results[pr] # None
Rank(table, x) == CHOOSE i \in DOMAIN table : x \in table[i]
Table == Standings(ResultsOf(job), Final)
Counts(x) == x \notin Annulled(ResultsOf(job), Final)
PointsOf(x) == Metric(Counted(ResultsOf(job), Final), "p", x)[1]

(* When exactly two have the same points, the one who beat the other is    *)
(* ahead, and a lot decides only if they have not played (resolveTied).    *)
TwoLevelAreSettledByTheirMatch ==
    job.kind = "table" =>
        LET table == Table
            points == [x \in Group |-> PointsOf(x)]
            in == {x \in Group : Counts(x)}
        IN  \A pr \in Pairs : LET a == pr[1]  b == pr[2]  o == job.results[pr] IN
                a \in in /\ b \in in /\ {x \in in : points[x] = points[a]} = {a, b} =>
                    CASE o.kind = "NONE" -> Rank(table, a) = Rank(table, b)
                      [] o.kind # "NONE" /\ o.aWon -> Rank(table, a) < Rank(table, b)
                      [] OTHER -> Rank(table, a) > Rank(table, b)

(* A better result of a match that was played, all others the same, never  *)
(* puts a player behind somebody who was not ahead (groupStandings).       *)
Margin(o) == CASE ~o.aWon /\ Len(o.sets) = 2 -> 1 [] ~o.aWon /\ Len(o.sets) = 3 -> 2
               [] o.aWon /\ Len(o.sets) = 3 -> 3 [] OTHER -> 4
BetterResultNeverHurts ==
    job.kind = "table" => \A pr \in Pairs : \A o \in Outcomes :
        LET c == job.results[pr]
            table == Table
            better == Standings({Result(q, IF q = pr THEN o ELSE job.results[q]) : q \in Pairs},
                                Final)
        IN  o.kind = "PLAYED" /\ c.kind = "PLAYED" /\ Margin(o) > Margin(c) /\ Counts(pr[1]) =>
                \A y \in {y \in Group : Counts(y)} :
                    Rank(table, pr[1]) <= Rank(table, y) => Rank(better, pr[1]) <= Rank(better, y)

(* The warning that a lot decides who goes through is given exactly when   *)
(* lots can end with different players through (lotStraddlesBoundary).     *)
LotIsAnnouncedWhenItDecides ==
    job.kind = "table" =>
        LET table == Table IN
        /\ IsTable(table)
        /\ \A advancing \in 1..(Cardinality(Group) - 1) : WarnsWhenLotsDecide(table, advancing)

(* An unfinished match counts as the shortest legal match its winner could *)
(* still have won without another point to the loser (normalize).          *)
ForfeitIsTheShortestWin ==
    job.kind = "forfeit" =>
        LET m == [job EXCEPT !.kind = "FORFEIT"] IN GivenUp(m) /\ CountsAsShortestWin(m)

(* Fractions are ordered whatever their denominators (cmpFrac).            *)
FractionsAreOrdered == job.kind = "fractions" => AreOrdered(job.x, job.y, job.z)

(* The table of a group ranks by the rules, from the result of one match   *)
(* to the lot that must be announced (normalize, cmpFrac, resolveTied,     *)
(* groupStandings, lotStraddlesBoundary).                                  *)
StandingsAreByTheRules ==
    /\ ForfeitIsTheShortestWin
    /\ FractionsAreOrdered
    /\ TwoLevelAreSettledByTheirMatch
    /\ BetterResultNeverHurts
    /\ LotIsAnnouncedWhenItDecides

(* ---------------- What the comments say ----------------                 *)

(* groups.engine.ts:28 says that players of one organisation fall in       *)
(* different groups when they are fewer than the groups, which outranks the*)
(* snake: snakeDraw deals without looking ahead.                           *)
MatesInDifferentGroups ==
    job.kind = "snake" /\ DOMAIN at = 1..job.n => \A p, q \in 1..job.n :
        p # q /\ job.org[p] = job.org[q] /\ job.org[p] # NoOrg
            /\ OrgSize(job.org[p]) < job.groups => at[p] # at[q]

(* groups.engine.ts:379 and draw.engine.ts:176 say that the empty places   *)
(* are those of the book: a winner may be put on one.                      *)
EmptyPlacesAreByTheBook ==
    job.kind = "qualify" /\ Placed => Taken \cap QByes = {}

(* groups.engine.ts:441 puts a late meeting of group mates before the      *)
(* marked places: the weights do the reverse.                              *)
MatesMeetAsLateAsTheyCan ==
    [][\A q \in DOMAIN at' \ DOMAIN at :
          job.kind = "qualify" /\ WinnersPlaced =>
            LET first(p) == Min({MeetingRound(p, at[x]) : x \in {x \in DOMAIN at : x[1] = q[1]}})
            IN  \A p \in Open : first(p) <= first(at'[q])]_pvars
=============================================================================
