------------------------------- MODULE Board -------------------------------
(***************************************************************************)
(* One court of the scoreboard program (apps/scoreboard/server.js): apply, *)
(* afterPoint, resetMatch and the undo stack.  The program keeps score by  *)
(* itself: it counts points and sets, hands the service on and changes the *)
(* ends as it goes, where the site works all of it out of the score.       *)
(*                                                                         *)
(* Sides 0 and 1 of the code are slots 1 and 2, null is 0.  Names, screens,*)
(* yellow cards, time-outs and pictures are left out.                      *)
(***************************************************************************)
EXTENDS ScoringEngine, FiniteSets

CONSTANTS
    ServeEvery,     \* points after which the service changes (2)
    EndsAt,         \* points at which the ends change in the last set (5)
    Formats,        \* values of bestOf a referee can choose
    DefaultBestOf,  \* of a court that was reset (5)
    MaxUndo,        \* length of the undo stack (300)
    MaxPoints,      \* bound: no side gets more points than this in one set
    MaxIncidents    \* bound: red cards of a match, the last of which may be an override

ASSUME BoardAssumption ==
    /\ ServeEvery \in Nat \ {0} /\ EndsAt \in Nat \ {0}
    /\ Formats \subseteq {n \in Nat : n % 2 = 1}
    /\ DefaultBestOf \in Formats
    /\ MaxUndo \in Nat \ {0}
    /\ MaxPoints \in Nat /\ MaxIncidents \in Nat

VARIABLES
    court,    \* the court
    undo      \* its undo stack, oldest first

vars == <<court, undo>>

(* byHand is a ghost: what the referee has set in place of the program.    *)
Court == [points : SetScore, won : SetScore, sets : Seq(SetScore),
          winner : {0} \cup Slot, bestOf : Formats,
          server : {0} \cup Slot, starter : {0} \cup Slot,
          swapped : BOOLEAN, deciderDone : BOOLEAN,
          reds : SetScore,
          byHand : SUBSET {"score", "service", "ends"}]

(* resetMatch clears all but the settings. *)
ResetMatch(n) == [points |-> NoPoints, won |-> NoPoints, sets |-> <<>>,
                  winner |-> 0, bestOf |-> n, server |-> 0, starter |-> 0,
                  swapped |-> FALSE, deciderDone |-> FALSE,
                  reds |-> NoPoints, byHand |-> {}]
Empty == ResetMatch(DefaultBestOf)

TypeOK ==
    /\ court \in Court
    /\ undo \in Seq(Court) /\ Len(undo) <= MaxUndo

Init == court = Empty /\ undo = <<>>

----------------------------------------------------------------------------
(* Keeping score *)

Total(c) == c.points[1] + c.points[2]
Untouched(c) == c.sets = <<>> /\ Total(c) = 0
InPlay(c) == c.winner = 0
SetsNeeded(c) == (c.bestOf + 1) \div 2

Wins(c, s) ==
    /\ c.points[s] >= GamePoint
    /\ c.points[s] - c.points[Opp(s)] >= WinBy

(* Mutant: whoever served last opens the next set. *)
OpenedByLastServer(c) == c
(* The player who received first serves first. *)
OpenedByReceiver(c) ==
    IF c.starter = 0 THEN c
    ELSE [c EXCEPT !.starter = Opp(@), !.server = Opp(c.starter)]

(* The set is over; so is the match, or the ends change. *)
SetOver(c, s) ==
    LET counted == [c EXCEPT !.won[s] = @ + 1, !.sets = Append(@, c.points),
                             !.points = NoPoints] IN
    IF counted.won[s] >= SetsNeeded(c) THEN [counted EXCEPT !.winner = s]
    ELSE OpenedByReceiver([counted EXCEPT !.swapped = ~@])

(* Mutant: the ends change in every set. *)
AnySet(c) == TRUE
Decider(c) == \A s \in Slot : c.won[s] = SetsNeeded(c) - 1

ChangeEnds(c) ==
    IF Decider(c) /\ ~c.deciderDone /\ \E s \in Slot : c.points[s] >= EndsAt
    THEN [c EXCEPT !.deciderDone = TRUE, !.swapped = ~@] ELSE c

ServiceChanges(c) == Deuce(c.points) \/ Total(c) % ServeEvery = 0

HandService(c) ==
    IF c.server # 0 /\ ServiceChanges(c) THEN [c EXCEPT !.server = Opp(@)] ELSE c

AfterPoint(c) ==
    IF \E s \in Slot : Wins(c, s)
    THEN SetOver(c, CHOOSE s \in Slot : Wins(c, s))
    ELSE HandService(ChangeEnds(c))

Scored(c, s) == AfterPoint([c EXCEPT !.points[s] = @ + 1])

(* Mutant: penalty points go on after the match is over. *)
PenaltyGoesOn(c) == TRUE
PenaltyStops(c) == InPlay(c)

OnePenalty(c, s) == IF PenaltyStops(c) THEN Scored(c, s) ELSE c

(* Penalty points are given one by one. *)
Penalised(c, s, n) ==
    CASE n = 0 -> c
      [] n = 1 -> OnePenalty(c, s)
      [] n = 2 -> OnePenalty(OnePenalty(c, s), s)

----------------------------------------------------------------------------
(* Operations *)

(* Mutant: the oldest steps are never given up. *)
KeptAll(stack) == stack
Kept(stack) == IF Len(stack) > MaxUndo THEN Tail(stack) ELSE stack
Popped(stack) == SubSeq(stack, 1, Len(stack) - 1)

(* The court goes on the stack before the operation, which may push the    *)
(* oldest out, and comes off again if nothing has changed.                 *)
Step(next) ==
    LET pushed == Kept(Append(undo, court)) IN
    /\ court' = next
    /\ undo' = IF next = court THEN Popped(pushed) ELSE pushed

(* The clock of a start makes every start a change, and going off the      *)
(* screens may be the only change of a new match.                          *)
Renewed(next) == court' = next /\ undo' = Kept(Append(undo, court))

Hand(c, what) == [c EXCEPT !.byHand = @ \cup what]
Small(c) == \A s \in Slot : c.points[s] <= MaxPoints

MoreIncidents ==
    court.byHand = {} /\ court.reds[1] + court.reds[2] < MaxIncidents

Point(s) ==
    LET next == Scored(court, s) IN
    /\ InPlay(court) => Small(next)
    /\ Step(IF InPlay(court) THEN next ELSE court)

(* A point is taken off again, of a finished match too; service and ends   *)
(* stay as they are.                                                       *)
Minus(s) ==
    /\ MoreIncidents
    /\ Step(IF court.points[s] = 0 THEN court
            ELSE Hand([court EXCEPT !.points[s] = @ - 1], {"score", "service", "ends"}))

(* A first red card gives the other side a point, a second one two, a      *)
(* further one none.                                                       *)
RedCard(s) ==
    LET n == CASE court.reds[s] = 0 -> 1 [] court.reds[s] = 1 -> 2 [] OTHER -> 0
        next == Penalised([court EXCEPT !.reds[s] = @ + 1], Opp(s), n) IN
    /\ MoreIncidents
    /\ Small(next)
    /\ Step(IF InPlay(court) THEN next ELSE court)

Walkover(s) ==
    Step(IF InPlay(court)
         THEN Hand([court EXCEPT !.winner = s], {"score", "ends"})
         ELSE court)

(* The side that is ahead in sets, in points when the sets are level.      *)
Ahead(c) == IF c.won[1] # c.won[2] THEN Leader(c.won)
            ELSE IF c.points[1] # c.points[2] THEN Leader(c.points) ELSE 0

(* The button that ends a match at any score; the running set is noted,    *)
(* and counted when it decides.                                            *)
Finish ==
    LET w == Ahead(court)
        noted == IF Total(court) = 0 THEN court
                 ELSE [court EXCEPT !.sets = Append(@, court.points),
                                    !.won[w] = IF court.won[1] = court.won[2]
                                               THEN @ + 1 ELSE @,
                                    !.points = NoPoints] IN
    Step(IF InPlay(court) /\ w # 0
         THEN Hand([noted EXCEPT !.winner = w], {"score", "ends"})
         ELSE court)

(* Between sets this is how the first server is named. *)
Serve(side) ==
    LET next == [court EXCEPT !.server = side, !.starter = side] IN
    /\ Total(court) > 0 => MoreIncidents
    /\ Step(IF next = court THEN court
            ELSE IF Total(court) = 0 THEN [next EXCEPT !.byHand = @ \ {"service"}]
            ELSE Hand(next, {"service"}))

Swap == MoreIncidents /\ Step(Hand([court EXCEPT !.swapped = ~@], {"ends"}))

(* set: the format may change at any time. *)
SetFormat(n) ==
    /\ MoreIncidents
    /\ Step(IF n = court.bestOf THEN court
            ELSE IF Untouched(court) /\ InPlay(court) THEN [court EXCEPT !.bestOf = n]
            ELSE Hand([court EXCEPT !.bestOf = n], {"score", "ends"}))

Start(n) == Renewed(ResetMatch(n))
NewMatch == Step(ResetMatch(court.bestOf)) \/ Renewed(ResetMatch(court.bestOf))
ResetAll == Step(Empty) \/ Renewed(Empty)

Undo ==
    /\ undo # <<>>
    /\ court' = undo[Len(undo)]
    /\ undo' = Popped(undo)

Next ==
    \/ \E s \in Slot : Point(s) \/ Minus(s) \/ RedCard(s) \/ Walkover(s)
    \/ \E side \in {0} \cup Slot : Serve(side)
    \/ \E n \in Formats : SetFormat(n) \/ Start(n)
    \/ Finish \/ Swap \/ NewMatch \/ ResetAll \/ Undo

Spec == Init /\ [][Next]_vars

----------------------------------------------------------------------------
(* Properties *)

(* The score of the site that a court shows. *)
SiteScore(c) ==
    [status |-> IF ~InPlay(c) THEN "FINISHED"
                ELSE IF Untouched(c) THEN "SCHEDULED" ELSE "LIVE",
     cur |-> c.points, sets |-> c.sets, won |-> c.won, winnerSlot |-> c.winner]
FreeHand(c) == "score" \in c.byHand

SheetOf(c) == [st |-> SiteScore(c), bestOf |-> c.bestOf, free |-> FreeHand(c)]
Shown(stack) == [i \in DOMAIN stack |-> SheetOf(stack[i])]

Sheet == INSTANCE ScoreSheet WITH
    st <- SiteScore(court),
    bestOf <- court.bestOf,
    free <- FreeHand(court),
    past <- Shown(undo)

(* The court keeps the score of the site's engine: through sets, penalties *)
(* that end a set or the match, and undos, until the referee overrides it  *)
(* (afterPoint, apply).                                                    *)
KeepsTheSheet == Sheet!Spec

(* The player shown as server is the one the site works out of the score,  *)
(* when the first server was named between points (afterPoint, serve).     *)
ServesByTheRules ==
    LET first == IF Len(court.sets) % 2 = 0 THEN court.starter
                 ELSE Opp(court.starter) IN
    /\ InPlay(court) /\ court.server # 0 /\ "service" \notin court.byHand
    => court.server = ServerSlot(SiteScore(court), first)

(* The players change ends after every set but the last, and once more in  *)
(* the last set that can be played, with the first to reach EndsAt         *)
(* (afterPoint, resetMatch).                                               *)
EndsByTheRules ==
    LET breaks == Len(court.sets) - IF InPlay(court) THEN 0 ELSE 1
        half == /\ Len(court.sets) = court.bestOf - 1
                /\ \E s \in Slot : court.points[s] >= EndsAt
        halfSeen == Len(court.sets) = court.bestOf IN
    court.byHand \cap {"score", "ends"} = {} =>
        /\ court.deciderDone = (half \/ halfSeen)
        /\ court.swapped = ((breaks + IF court.deciderDone THEN 1 ELSE 0) % 2 = 1)

(* The server and the ends a court shows are those of the rules, in every  *)
(* set and after every undo, until the referee names them himself.         *)
CourtFollowsTheRules == ServesByTheRules /\ EndsByTheRules

----------------------------------------------------------------------------
(* What the code's own words say, and it does not do *)

(* README.md:113 "-1" corrects a mistake, :106 the service changes by      *)
(* itself every two points: with no service named in the middle of a set, the     *)
(* server shown fits the score also after a point was taken off.           *)
ServesAfterCorrection ==
    [][\A s \in Slot :
          Minus(s) /\ ServesByTheRules /\ "service" \notin court.byHand /\ InPlay(court)
          => LET first == IF Len(court.sets) % 2 = 0 THEN court.starter
                          ELSE Opp(court.starter) IN
             court'.server # 0 =>
                 court'.server = ServerSlot(SiteScore(court'), first)]_vars
=============================================================================
