----------------------------- MODULE ReplayPlan -----------------------------
(***************************************************************************)
(* How the result of a match that was played on a scoreboard is turned     *)
(* into points (modules/scoreboard-bridge/replay-plan.ts).  The board      *)
(* sends the scores of the sets; the site plays them through its own score *)
(* engine first and takes only what ends a match with its last point.      *)
(***************************************************************************)
EXTENDS ScoringEngine

CONSTANT MaxSetScore    \* largest score of a set the site accepts (60)

ASSUME ReplayAssumption == MaxSetScore \in Nat

(* Mutant: the rest goes to the wrong player. *)
SetOrderSwapped(set) ==
    LET lo == set[Opp(Leader(set))] IN
    [i \in 1..(set[1] + set[2]) |->
        IF i > 2 * lo THEN Opp(Leader(set)) ELSE IF i % 2 = 1 THEN 1 ELSE 2]
(* setOrder: turn by turn up to the smaller score, then the winner's rest. *)
SetOrder(set) ==
    LET lo == set[Opp(Leader(set))] IN
    [i \in 1..(set[1] + set[2]) |->
        IF i > 2 * lo THEN Leader(set) ELSE IF i % 2 = 1 THEN 1 ELSE 2]

(* Mutant: a set that is not over is let through. *)
EndsNoSooner(setFinished, last) == setFinished => last
(* A set ends with its last point and with no other. *)
EndsAtLast(setFinished, last) == setFinished = last

(* One point of a set: none may follow the end of the match.               *)
TakePoint(p, bestOf, player, last) ==
    LET next == ApplyPoint(p.st, bestOf, player)
        setFinished == Len(next.sets) > Len(p.st.sets)
    IN  IF ~p.ok \/ p.st.status = "FINISHED"
        THEN [p EXCEPT !.ok = FALSE]
        ELSE [ok |-> EndsAtLast(setFinished, last), st |-> next,
              all |-> Append(p.all, player)]

(* A set on top of what has been played; one of no points is refused.      *)
PlaySet(played, bestOf, set) ==
    LET order == SetOrder(set)
        after[i \in 0..Len(order)] ==
            IF i = 0 THEN [played EXCEPT !.ok = @ /\ order # <<>>]
            ELSE TakePoint(after[i - 1], bestOf, order[i], i = Len(order))
    IN  after[Len(order)]

(* planReplay: whether the sets are a whole match, and its points in order.*)
PlanReplay(sets, bestOf) ==
    LET played[n \in 0..Len(sets)] ==
            IF n = 0 THEN [ok |-> sets # <<>>, st |-> InitialState, all |-> <<>>]
            ELSE PlaySet(played[n - 1], bestOf, sets[n])
        end == played[Len(sets)]
    IN  [ok |-> /\ \A i \in DOMAIN sets, s \in Slot : sets[i][s] <= MaxSetScore
                /\ end.ok
                /\ end.st.status = "FINISHED",
         order |-> end.all]
=============================================================================
