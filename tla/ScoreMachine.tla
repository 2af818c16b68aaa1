---------------------------- MODULE ScoreMachine ----------------------------
(***************************************************************************)
(* One match played point by point through the score engine, beside an     *)
(* umpire who keeps the service by the rules of table tennis: two points   *)
(* each, one each from deuce on, the other player opens the next set.      *)
(* The umpire is the reference the engine's display helpers are checked    *)
(* against; nothing of it is read by the engine.                           *)
(***************************************************************************)
EXTENDS ScoringEngine, FiniteSets

CONSTANTS
    BestOf,      \* sets the match is played over: 3, 5 or 7, an odd number
    MaxPoints    \* bound: no slot gets more points than this in one set

ASSUME MatchAssumption == BestOf \in Nat /\ BestOf % 2 = 1 /\ MaxPoints \in Nat

VARIABLES
    score,     \* the score the engine keeps
    umpire     \* [opener, server, taken]: who opened the set, who serves,
               \* points this server has served in a row

matchVars == <<score, umpire>>

MatchInit ==
    /\ score = InitialState
    /\ \E s \in Slot : umpire = [opener |-> s, server |-> s, taken |-> 0]

(* The umpire after a point: a new set, a new service, or the same one. *)
UmpireAfter(next) ==
    IF Len(next.sets) > Len(score.sets)
    THEN [opener |-> Opp(umpire.opener), server |-> Opp(umpire.opener),
          taken |-> 0]
    ELSE IF umpire.taken = 1 \/ (score.cur[1] >= GamePoint - 1 /\ score.cur[2] >= GamePoint - 1)
         THEN [umpire EXCEPT !.server = Opp(@), !.taken = 0]
         ELSE [umpire EXCEPT !.taken = 1]

Point(player) ==
    /\ score.status # "FINISHED"
    /\ score.cur[player] < MaxPoints
    /\ score' = ApplyPoint(score, BestOf, player)
    /\ umpire' = UmpireAfter(score')

Disqualify(player) ==
    /\ score.status # "FINISHED"
    /\ score' = ApplyDisqualification(score, player)
    /\ UNCHANGED umpire

MatchNext == \E s \in Slot : Point(s) \/ Disqualify(s)

MatchSpec == MatchInit /\ [][MatchNext]_matchVars

----------------------------------------------------------------------------
(* The slot of the first set's opener, recovered from the parity of sets.  *)
FirstServer ==
    IF Len(score.sets) % 2 = 0 THEN umpire.opener ELSE Opp(umpire.opener)

(* The service indicator computed from nothing but the score names the     *)
(* player the umpire has been following since the first point of the       *)
(* match, through deuces and set changes (serverSlot).                     *)
ServiceIndicatorIsRight ==
    score.status # "FINISHED" => ServerSlot(score, FirstServer) = umpire.server

(* The set- and match-point banner is lit for a player exactly when one    *)
(* more point of that player takes the set, and says "match" exactly when  *)
(* that point also ends the match (pointAlert against applyPoint).         *)
AlertForeseesTheNextPoint ==
    score.status # "FINISHED" =>
        \A s \in Slot :
            LET after == ApplyPoint(score, BestOf, s)
                lit == {a \in PointAlert(score, BestOf) : a.player = s}
            IN  /\ (lit # {}) <=> Len(after.sets) > Len(score.sets)
                /\ \A a \in lit : a.isMatchPoint <=> after.status = "FINISHED"

(* At every score the board shows what the rules say: who serves, and for  *)
(* whom the next point is a set or match point (serverSlot, pointAlert).   *)
DisplaysAreRight == ServiceIndicatorIsRight /\ AlertForeseesTheNextPoint

(* A set is won at GamePoint, or later by exactly the lead. *)
LegalSet(set) ==
    LET w == set[Leader(set)]  l == set[Opp(Leader(set))] IN
    /\ w >= GamePoint /\ w - l >= WinBy
    /\ w > GamePoint => w - l = WinBy

(* Sets a slot has taken, counted from the finished sets themselves. *)
SetsTaken(sets, s) == Cardinality({i \in DOMAIN sets : sets[i][s] > sets[i][Opp(s)]})
HasMajority(sets, s) == 2 * SetsTaken(sets, s) > BestOf

(* The stored counters agree with the list of finished sets, and every set *)
(* ended at the first point that decided it.                               *)
SetsAreWhole ==
    /\ \A s \in Slot : score.won[s] = SetsTaken(score.sets, s)
    /\ \A i \in DOMAIN score.sets : LegalSet(score.sets[i])

(* The sets are whole, and a point ends the match exactly when it gives    *)
(* its player the majority of BestOf: no earlier, no later, and that       *)
(* player is the winner (applyPoint, setsToWin).                           *)
MatchEndsWithTheMajority ==
    [][/\ SetsAreWhole'
       /\ \A s \in Slot : Point(s) =>
             /\ score'.status = "FINISHED" <=> HasMajority(score'.sets, s)
             /\ score'.status = "FINISHED" => score'.winnerSlot = s]_score

(* The reminder to change ends lights up once per match: in the last set   *)
(* that can be played, at the point that brings the first player to Half,  *)
(* and never a second time when the other player gets there.               *)
EndsChangeAnnouncedOnce ==
    [][/\ SideChangeDue(score', BestOf) /\ ~SideChangeDue(score, BestOf) =>
            /\ Len(score.sets) = BestOf - 1
            /\ \A s \in Slot : score.cur[s] < Half
       /\ (/\ Len(score.sets) = BestOf - 1
           /\ \A s \in Slot : score.cur[s] < Half
           /\ \E s \in Slot : score'.cur[s] = Half) =>
            SideChangeDue(score', BestOf)]_score

(* From the first point to the last a match goes by the rules: sets, their *)
(* majority, and the change of ends in the last one (applyPoint,           *)
(* sideChangeDue).                                                         *)
MatchRunsByTheRules == MatchEndsWithTheMajority /\ EndsChangeAnnouncedOnce

(* The engine keeps a match as the umpire does: at every score what it     *)
(* shows, and at every point what it makes of the score.                   *)
EngineIsByTheRules == []DisplaysAreRight /\ MatchRunsByTheRules
=============================================================================
