---------------------------- MODULE PointsLedger ----------------------------
(***************************************************************************)
(* Ranking points and their journal in one tournament with the official    *)
(* rating (common/points.ts, rankings/bonus.ts, rankings/rating.engine.ts, *)
(* rankings/rating.service.ts, awardOfficial and undo of                   *)
(* matches.service.ts, adjust of rankings.controller.ts).                  *)
(*                                                                         *)
(* The journal is kept as the sums the code's queries take of it.  Exact   *)
(* points are whole numbers of 1/U.  The end of a match reads the ratings  *)
(* and the sums before it locks the players' rows: two actions.  So is the *)
(* manual adjustment, which locks nothing at all.  The matches here feed   *)
(* no other match (group matches, a final), so undo is free at any time.   *)
(***************************************************************************)
EXTENDS Integers, FiniteSets

CONSTANTS
    Player, Match,
    None,                     \* no match, no player, no pending work
    Pair,                     \* the two players of a match, a set
    WinnerPlace, LoserPlace,  \* place a match decides for its players, or 0
    Third,                    \* the match for third place, if there is one
    PlaceBonus,               \* bonus of a place (placeBonus)
    Penalty,                  \* penaltyPoints
    K,                        \* tournament coefficient in tenths
    Opening,                  \* points before the tournament
    AdjustBy,                 \* changes an administrator may ask for
    MaxFinish,                \* bound: times each match is finished
    Excludable,               \* bound: players that may be excluded
    MaxAdmin                  \* bound: penalties and adjustments

ASSUME LedgerAssumption ==
    /\ None \notin Match /\ None \notin Player
    /\ Pair \in [Match -> SUBSET Player]
    /\ \A m \in Match : \E p, q \in Player : p # q /\ Pair[m] = {p, q}
    /\ WinnerPlace \in [Match -> 0..8] /\ LoserPlace \in [Match -> 0..8]
    /\ Third \subseteq Match
    /\ PlaceBonus \in [1..8 -> Nat]
    /\ Penalty \in Nat /\ K \in Nat
    /\ Opening \in [Player -> Nat]
    /\ AdjustBy \subseteq Int /\ Excludable \subseteq Player
    /\ MaxFinish \in [Match -> Nat] /\ MaxAdmin \in Nat

VARIABLES
    acct,      \* the points of a player and the sums of the player's rows
    rows,      \* net of a match's own rows, per player
    result,    \* the open, won or technical result of a match
    pending,   \* what the end of a match has read and not yet written
    active,    \* players that are not excluded (status # INACTIVE)
    adjusting, \* the adjustment that has read the points: [player, before]
    finishes,  \* bound: times each match was finished
    admin,     \* bound: penalties and adjustments so far
    overtaken, \* ghost: players an adjustment wrote with an old reading
    cut,       \* ghost: <<match, player>> whose reversal met the floor 0
    stale      \* ghost: matches whose reading was overtaken by another row

vars == <<acct, rows, result, pending, active, adjusting, finishes, admin,
          overtaken, cut, stale>>

U == 200
Round(n) == (n + U \div 2) \div U

Account == [points : Nat, logged : Int, tour : Int, whole : Int, exact : Int,
            bonus : Int]
Net == [whole : Int, exact : Int, bonus : Int]
NoNet == [whole |-> 0, exact |-> 0, bonus |-> 0]
Open == [winner |-> None, technical |-> FALSE]
Result == [winner : Player \cup {None}, technical : BOOLEAN]
Reading == [winner : Player, delta : [Player -> Int], exact : [Player -> Int],
            rated : SUBSET Player]

(* Points are whole and never negative, whatever is taken away.            *)
TypeOK ==
    /\ acct \in [Player -> Account]
    /\ rows \in [Match -> [Player -> Net]]
    /\ result \in [Match -> Result]
    /\ pending \in [Match -> Reading \cup {None}]
    /\ active \subseteq Player
    /\ adjusting \in [player : Player, before : Nat] \cup {None}
    /\ finishes \in [Match -> Nat] /\ admin \in Nat
    /\ overtaken \subseteq Player
    /\ cut \subseteq Match \X Player
    /\ stale \subseteq Match

Init ==
    /\ acct = [p \in Player |-> [points |-> Opening[p], logged |-> 0, tour |-> 0,
                                 whole |-> 0, exact |-> 0, bonus |-> 0]]
    /\ rows = [m \in Match |-> [p \in Player |-> NoNet]]
    /\ result = [m \in Match |-> Open]
    /\ pending = [m \in Match |-> None]
    /\ active = Player
    /\ adjusting = None
    /\ finishes = [m \in Match |-> 0]
    /\ admin = 0
    /\ overtaken = {} /\ cut = {} /\ stale = {}

----------------------------------------------------------------------------
(* One row of the journal *)

(* Mutant: the floor at zero is forgotten. *)
AppliedUnfloored(before, delta) == delta
(* floorApply: the change that GREATEST(0, points + delta) really makes.   *)
Applied(before, delta) ==
    (IF before + delta < 0 THEN 0 ELSE before + delta) - before

(* Mutant: what was asked for is journalled, not what was applied. *)
LoggedAsRequested(requested, applied) == requested
(* The delta column of a row. *)
Logged(requested, applied) == applied

(* Mutant: the exact points ignore the floor. *)
LoggedExactUncut(exact, requested, applied) == exact
(* loggedExact: what the floor cut off is taken off the exact points too.  *)
LoggedExact(exact, requested, applied) == exact + U * (applied - requested)

(* applyPoints on the locked row of a player: an official row of play has  *)
(* an exact value, a bonus and a penalty row have none.                    *)
Play(a, delta, exact) ==
    LET applied == Applied(a.points, delta)
        logged == Logged(delta, applied) IN
    [a EXCEPT !.points = @ + applied, !.logged = @ + logged,
              !.tour = @ + logged, !.whole = @ + logged,
              !.exact = @ + LoggedExact(exact, delta, applied)]

Bonus(a, delta) ==
    LET applied == Applied(a.points, delta)
        logged == Logged(delta, applied) IN
    [a EXCEPT !.points = @ + applied, !.logged = @ + logged,
              !.tour = @ + logged, !.bonus = @ + logged]

Penalised(a) ==
    LET applied == Applied(a.points, 0 - Penalty)
        logged == Logged(0 - Penalty, applied) IN
    [a EXCEPT !.points = @ + applied, !.logged = @ + logged,
              !.tour = @ + logged]

(* A match's own rows grow by what its transaction adds to the sums. *)
RowsAfter(m) ==
    [rows EXCEPT ![m] = [p \in Player |->
        [whole |-> @[p].whole + acct'[p].whole - acct[p].whole,
         exact |-> @[p].exact + acct'[p].exact - acct[p].exact,
         bonus |-> @[p].bonus + acct'[p].bonus - acct[p].bonus]]]

----------------------------------------------------------------------------
(* The end of a match *)

(* winnerMatchPoints and loserMatchPoints times K, in 1/U. *)
WinnerExact(gr, yr) ==
    IF gr = yr THEN U * K
    ELSE IF gr - yr > 100 THEN 0
    ELSE 2 * K * (100 - (gr - yr))
LoserExact(gr, yr) ==
    IF gr = yr THEN 0 - U * K
    ELSE IF gr - yr > 100 THEN 0
    ELSE 0 - K * (100 - (gr - yr))

(* preRating: the points without this tournament's rows. *)
PreRating(p) == acct[p].points - acct[p].tour

(* wholeDelta: only the sum of the exact points is rounded. *)
WholeDelta(p, exact) == Round(acct[p].exact + exact) - acct[p].whole

Loser(m, w) == CHOOSE p \in Pair[m] : p # w
IsBonusStage(m) == WinnerPlace[m] # 0 \/ LoserPlace[m] # 0
(* The advisory lock of the tournament's bonuses. *)
BonusLockFree == \A m \in Match : IsBonusStage(m) => pending[m] = None

(* The deciding point, up to the first row lock: ratings, exclusions and   *)
(* sums are read; a bonus stage has taken the advisory lock.               *)
Read(m, w) ==
    LET l == Loser(m, w)
        gr == PreRating(w)  yr == PreRating(l)
        exact == [p \in Player |-> IF p = w THEN WinnerExact(gr, yr)
                                   ELSE IF p = l THEN LoserExact(gr, yr) ELSE 0]
    IN
    /\ result[m] = Open /\ pending[m] = None
    /\ w \in Pair[m]
    /\ finishes[m] < MaxFinish[m]
    /\ IsBonusStage(m) => BonusLockFree
    /\ pending' = [pending EXCEPT ![m] =
          [winner |-> w, exact |-> exact, rated |-> active \cap Pair[m],
           delta |-> [p \in Player |-> IF p \in Pair[m]
                                       THEN WholeDelta(p, exact[p]) ELSE 0]]]
    /\ stale' = stale \ {m}
    /\ UNCHANGED <<acct, rows, result, active, adjusting, finishes, admin,
                   overtaken, cut>>

(* Mutant: bonuses given by hand are not looked at. *)
HasMatchBonus(p) == \E m \in Match : rows[m][p].bonus > 0
(* playersWithBonus: the bonus rows of the tournament add up to something. *)
HasBonus(p) == acct[p].bonus > 0

PlaceOf(m, w, p) == IF p = w THEN WinnerPlace[m] ELSE LoserPlace[m]

WithBonus(a, p, place) ==
    IF place = 0 \/ HasBonus(p) THEN a ELSE Bonus(a, PlaceBonus[place])

(* Other matches of these players that are between reading and writing.    *)
Overtaken(m) == {n \in Match \ {m} : pending[n] # None /\ Pair[n] \cap Pair[m] # {}}

(* The rest of the transaction: the rows of play, winner first, then the   *)
(* bonuses of the places that are now certain.                             *)
Award(m) ==
    /\ pending[m] # None
    /\ LET r == pending[m] IN
       /\ acct' = [p \in Player |->
             IF p \in r.rated
             THEN WithBonus(Play(acct[p], r.delta[p], r.exact[p]), p,
                            PlaceOf(m, r.winner, p))
             ELSE acct[p]]
       /\ result' = [result EXCEPT ![m] =
                        [winner |-> r.winner, technical |-> FALSE]]
    /\ rows' = RowsAfter(m)
    /\ pending' = [pending EXCEPT ![m] = None]
    /\ finishes' = [finishes EXCEPT ![m] = @ + 1]
    /\ stale' = stale \cup Overtaken(m)
    /\ UNCHANGED <<active, adjusting, admin, overtaken, cut>>

(* A disqualification: a technical win moves no points (loserId is null).  *)
Technical(m, w) ==
    /\ result[m] = Open /\ pending[m] = None
    /\ w \in Pair[m]
    /\ finishes[m] < MaxFinish[m]
    /\ result' = [result EXCEPT ![m] = [winner |-> w, technical |-> TRUE]]
    /\ finishes' = [finishes EXCEPT ![m] = @ + 1]
    /\ UNCHANGED <<acct, rows, pending, active, adjusting, admin, overtaken,
                   cut, stale>>

(* Mutant: the bonus row of the match is not reversed. *)
ReversedPlayOnly(a, net, playFirst) == Play(a, 0 - net.whole, 0 - net.exact)
(* netReversal and its rows: the net per player and note is reversed, in   *)
(* the order the rows happen to come back from the database.               *)
Reversed(a, net, playFirst) ==
    IF playFirst
    THEN Bonus(Play(a, 0 - net.whole, 0 - net.exact), 0 - net.bonus)
    ELSE Play(Bonus(a, 0 - net.bonus), 0 - net.whole, 0 - net.exact)

(* Ghost: the points do not suffice for one of the reversals, or for both. *)
MeetsFloor(a, net) ==
    \/ a.points < net.whole
    \/ a.points < net.bonus
    \/ a.points < net.whole + net.bonus

(* undo of the deciding point; a technical win cannot be undone. *)
Undo(m, playFirst) ==
    /\ result[m] # Open /\ ~result[m].technical
    /\ acct' = [p \in Player |-> Reversed(acct[p], rows[m][p], playFirst)]
    /\ rows' = RowsAfter(m)
    /\ result' = [result EXCEPT ![m] = Open]
    /\ cut' = cut \cup ({m} \X {p \in Player : MeetsFloor(acct[p], rows[m][p])})
    /\ stale' = stale \cup Overtaken(m)
    /\ UNCHANGED <<pending, active, adjusting, finishes, admin, overtaken>>

----------------------------------------------------------------------------
(* The administrators *)

(* places: the best place each player has from the matches that are over;  *)
(* a disqualified loser has none.                                          *)
PlacesOf(p) ==
    {PlaceOf(m, result[m].winner, p) : m \in {n \in Match :
        /\ result[n] # Open /\ p \in Pair[n]
        /\ result[n].technical => p = result[n].winner}} \ {0}
BestPlace(p) ==
    IF PlacesOf(p) = {} THEN 0
    ELSE CHOOSE i \in PlacesOf(p) : \A j \in PlacesOf(p) : i <= j
Due(p) == BestPlace(p) # 0 /\ ~HasBonus(p) /\ PlaceBonus[BestPlace(p)] > 0

(* awardBonuses with apply: under the advisory lock, once the third place  *)
(* is decided, to everybody who is due a bonus, excluded players too.      *)
AwardBonuses ==
    /\ BonusLockFree
    /\ \A m \in Third : result[m] # Open
    /\ \E p \in Player : Due(p)
    /\ acct' = [p \in Player |-> IF Due(p)
                                 THEN Bonus(acct[p], PlaceBonus[BestPlace(p)])
                                 ELSE acct[p]]
    /\ UNCHANGED <<rows, result, pending, active, adjusting, finishes, admin,
                   overtaken, cut, stale>>

Penalize(p) ==
    /\ admin < MaxAdmin
    /\ acct' = [acct EXCEPT ![p] = Penalised(@)]
    /\ admin' = admin + 1
    /\ UNCHANGED <<rows, result, pending, active, adjusting, finishes,
                   overtaken, cut, stale>>

(* adjust reads the points ... *)
AdjustRead(p) ==
    /\ adjusting = None
    /\ admin < MaxAdmin
    /\ adjusting' = [player |-> p, before |-> acct[p].points]
    /\ admin' = admin + 1
    /\ UNCHANGED <<acct, rows, result, pending, active, finishes, overtaken,
                   cut, stale>>

(* ... and writes the new total it has computed, and its own delta; a      *)
(* change of nothing is refused.                                           *)
AdjustWrite(d) ==
    /\ adjusting # None
    /\ LET p == adjusting.player
           delta == Applied(adjusting.before, d) IN
       IF delta = 0
       THEN UNCHANGED <<acct, overtaken>>
       ELSE /\ acct' = [acct EXCEPT ![p] =
                  [acct[p] EXCEPT !.points = adjusting.before + delta,
                                  !.logged = @ + delta]]
            /\ overtaken' = IF acct[p].points = adjusting.before THEN overtaken
                            ELSE overtaken \cup {p}
    /\ adjusting' = None
    /\ UNCHANGED <<rows, result, pending, active, finishes, admin, cut, stale>>

Exclude(p) ==
    /\ p \in Excludable
    /\ active' = active \ {p}
    /\ UNCHANGED <<acct, rows, result, pending, adjusting, finishes, admin,
                   overtaken, cut, stale>>

Restore(p) ==
    /\ active' = active \cup {p}
    /\ UNCHANGED <<acct, rows, result, pending, adjusting, finishes, admin,
                   overtaken, cut, stale>>

MatchStep(m) ==
    \/ \E w \in Player : Read(m, w) \/ Technical(m, w)
    \/ Award(m)
    \/ \E playFirst \in BOOLEAN : Undo(m, playFirst)

AdminStep ==
    \/ AwardBonuses
    \/ \E p \in Player : Penalize(p) \/ AdjustRead(p) \/ Exclude(p) \/ Restore(p)
    \/ \E d \in AdjustBy : AdjustWrite(d)

Next == (\E m \in Match : MatchStep(m)) \/ AdminStep

Spec == Init /\ [][Next]_vars

----------------------------------------------------------------------------
(* Properties *)

(* The points of a player are the sum of the player's journal, through     *)
(* every award, floor at zero, reversal, bonus and penalty; only the       *)
(* adjustment can break it, when it writes over a change it has not read   *)
(* (applyPoints, adjust).                                                  *)
LedgerBalance ==
    \A p \in Player : p \notin overtaken =>
        acct[p].points = Opening[p] + acct[p].logged

(* A player has at most one bonus in a tournament, whether a match or an   *)
(* administrator gave it, after any number of undos (playersWithBonus).    *)
BonusSources(p) == {m \in Match : rows[m][p].bonus > 0}
OneBonusPerPlayer ==
    \A p \in Player :
        /\ Cardinality(BonusSources(p)) <= 1
        /\ \A m \in BonusSources(p) : rows[m][p].bonus = acct[p].bonus
        /\ acct[p].bonus >= 0

(* Finished and undone any number of times, an open match has left no      *)
(* points of any kind behind, unless the floor stopped a reversal of its   *)
(* rows (netReversal).                                                     *)
UndoLeavesNothingBehind ==
    \A m \in Match, p \in Player :
        result[m] = Open /\ <<m, p>> \notin cut => rows[m][p] = NoNet

(* What the proofs carry along: only an open match has a reading, a match  *)
(* has rows of its two players only, and a reading nobody has overtaken    *)
(* still fits the sums it was made of.                                     *)
PendingIsOpen == \A m \in Match : pending[m] # None => result[m] = Open
OnlyThePair ==
    \A m \in Match :
        /\ \A p \in Player \ Pair[m] : rows[m][p] = NoNet
        /\ pending[m] # None => pending[m].rated \subseteq Pair[m]
FreshReading ==
    \A m \in Match :
        pending[m] # None /\ m \notin stale =>
            \A p \in pending[m].rated :
                pending[m].delta[p] = WholeDelta(p, pending[m].exact[p])
LInv ==
    /\ TypeOK
    /\ LedgerBalance
    /\ UndoLeavesNothingBehind
    /\ PendingIsOpen
    /\ OnlyThePair
    /\ FreshReading

(* After a match has been rated the whole points of its players are the    *)
(* rounded sum of the exact ones: floors and earlier undos leave no error  *)
(* that the next match does not make good (wholeDelta, loggedExact).       *)
RatingMakesGood ==
    [][\A m \in Match :
          pending[m] # None /\ pending'[m] = None /\ m \notin stale =>
              \A p \in pending[m].rated :
                  acct'[p].whole = Round(acct'[p].exact)]_vars

----------------------------------------------------------------------------
(* What the code's own words say, and it does not do *)

(* "rankingPoints == Σ delta saqlanadi": the points are always the sum of  *)
(* the journal, and adjust limits its delta so that they stay so.          *)
LedgerAlwaysBalances ==
    \A p \in Player : acct[p].points = Opening[p] + acct[p].logged

(* "Σ butun o'zgarishlar = round(K·МРБ)": the whole changes add up to the  *)
(* rounded exact ones (wholeDelta), also when no two matches of a player   *)
(* are rated at the same moment.                                           *)
WholeIsRoundedSum ==
    stale = {} => \A p \in Player : acct[p].whole = Round(acct[p].exact)

(* "reyting tizimidan chiqarilgan (INACTIVE) sportchi ball olmaydi": no    *)
(* bonus for a player who is excluded already (awardBonuses).              *)
ExcludedGetsNoBonus ==
    [][\A p \in Player :
          p \notin active /\ (\A m \in Match : pending[m] = None) =>
              acct'[p].bonus <= acct[p].bonus]_vars
=============================================================================
