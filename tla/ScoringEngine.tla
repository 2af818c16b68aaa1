--------------------------- MODULE ScoringEngine ---------------------------
(***************************************************************************)
(* The table tennis score engine (modules/matches/scoring.engine.ts): pure *)
(* operators on a score state, no variables.  A score is a record          *)
(*   status     "SCHEDULED", "LIVE" or "FINISHED"                          *)
(*   cur        points of the running set, a function of the slot          *)
(*   sets       the finished sets, oldest first                            *)
(*   won        sets won, a function of the slot                           *)
(*   winnerSlot 0 (the code's null) or the winning slot                    *)
(* The code has GamePoint = 11 and WinBy = 2; both are parameters so that  *)
(* small instances keep every branch of the rules.                         *)
(***************************************************************************)
EXTENDS Integers, Sequences

CONSTANTS
    GamePoint,   \* points a set is played to
    WinBy        \* lead that is needed to take a set

ASSUME ScoringAssumption ==
    /\ GamePoint \in Nat \ {0}
    /\ WinBy \in Nat \ {0}

Slot == {1, 2}
Opp(s) == IF s = 1 THEN 2 ELSE 1
Status == {"SCHEDULED", "LIVE", "FINISHED"}
SetScore == [Slot -> Nat]
NoPoints == [s \in Slot |-> 0]

Score == [status : Status, cur : SetScore, sets : Seq(SetScore),
          won : SetScore, winnerSlot : {0} \cup Slot]

InitialState ==
    [status |-> "SCHEDULED", cur |-> NoPoints, sets |-> <<>>,
     won |-> NoPoints, winnerSlot |-> 0]

(* Mutant: Math.floor instead of Math.ceil. *)
SetsToWinFloor(bestOf) == bestOf \div 2

(* Math.ceil(bestOf / 2) *)
SetsToWin(bestOf) == (bestOf + 1) \div 2

IsSetWon(set) ==
    /\ set[1] >= GamePoint \/ set[2] >= GamePoint
    /\ set[1] - set[2] >= WinBy \/ set[2] - set[1] >= WinBy

(* The slot that has more points (or sets): the code's p1 > p2 ? 1 : 2. *)
Leader(pair) == IF pair[1] > pair[2] THEN 1 ELSE 2

(* Mutant: the running set is not reset. *)
KeepPoints(cur) == cur
NextSet(cur) == NoPoints

(* applyPoint on a score that is not FINISHED (the caller's guard). *)
ApplyPoint(st, bestOf, player) ==
    LET cur == [st.cur EXCEPT ![player] = @ + 1]
        won == [st.won EXCEPT ![Leader(cur)] = @ + 1]
        decided == \E s \in Slot : won[s] >= SetsToWin(bestOf)
    IN  IF ~IsSetWon(cur)
        THEN [st EXCEPT !.status = "LIVE", !.cur = cur]
        ELSE [status |-> IF decided THEN "FINISHED" ELSE "LIVE",
              cur |-> NextSet(cur),
              sets |-> Append(st.sets, cur),
              won |-> won,
              winnerSlot |-> IF decided THEN Leader(won) ELSE 0]

(* applyDisqualification: the score stays, the opponent wins at once. *)
ApplyDisqualification(st, disqualified) ==
    [st EXCEPT !.status = "FINISHED", !.winnerSlot = Opp(disqualified)]

(* Mutant: deuce starts one point late. *)
DeuceLate(cur) == \A s \in Slot : cur[s] >= GamePoint
Deuce(cur) == \A s \in Slot : cur[s] >= GamePoint - 1

(* The slot that serves the next point.  Service changes every two points, *)
(* at deuce (both one short of GamePoint) after every point; every set is  *)
(* opened by the other slot.                                               *)
ServerSlot(st, firstServer) ==
    LET total == st.cur[1] + st.cur[2]
        blocks == IF Deuce(st.cur)
                  THEN (GamePoint - 1) + (total - 2 * (GamePoint - 1))
                  ELSE total \div 2
        flips == (blocks + Len(st.sets)) % 2
    IN  IF flips = 0 THEN firstServer ELSE Opp(firstServer)

(* Mutant: the lead is forgotten. *)
OnePointFromSetNoLead(cur, s) == cur[s] >= GamePoint - 1
OnePointFromSet(cur, s) ==
    /\ cur[s] >= GamePoint - 1
    /\ cur[s] - cur[Opp(s)] >= WinBy - 1

(* {} is the code's null; at most one slot can be one point from a set. *)
PointAlert(st, bestOf) ==
    IF st.status = "FINISHED" THEN {}
    ELSE {[player |-> s, isMatchPoint |-> st.won[s] = SetsToWin(bestOf) - 1] :
             s \in {t \in Slot : OnePointFromSet(st.cur, t)}}

(* Reminder to change ends in the deciding set, at Half (the code's 5). *)
Half == GamePoint \div 2

(* Mutant: the opponent's points are not looked at. *)
FirstAtHalfAnyOpponent(cur) == \E s \in Slot : cur[s] = Half
FirstAtHalf(cur) == \E s \in Slot : cur[s] = Half /\ cur[Opp(s)] < Half

SideChangeDue(st, bestOf) ==
    /\ st.status # "FINISHED"
    /\ \A s \in Slot : st.won[s] = SetsToWin(bestOf) - 1
    /\ FirstAtHalf(st.cur)
=============================================================================
