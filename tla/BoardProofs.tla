---------------------------- MODULE BoardProofs ----------------------------
(***************************************************************************)
(* A court of the scoreboard program keeps a score sheet, for every length *)
(* of sets, lead, format and length of the undo stack.                     *)
(*                                                                         *)
(* The argument: while nobody has written over the score, no player of a   *)
(* match in play has the sets it takes yet, so the set that ends a match   *)
(* on the court is the first to do so for the site's engine too.  The      *)
(* courts on the undo stack were all current once, so the same holds of    *)
(* them, and going back to one is going back to its sheet.                 *)
(***************************************************************************)
EXTENDS Board, SequenceTheorems, TLAPS

Good == {c \in Court :
            "score" \notin c.byHand =>
                /\ InPlay(c) => \A t \in Slot : c.won[t] < SetsNeeded(c)
                /\ c.sets = <<>> => c.won = NoPoints}
Inv == court \in Good /\ undo \in Seq(Good) /\ Len(undo) <= MaxUndo

(* A court that was reset is a good one, with every format.                *)
LEMMA ResetIsGood == ASSUME NEW n \in Formats PROVE ResetMatch(n) \in Good
<1>1. n \in Nat /\ n % 2 = 1
  BY BoardAssumption
<1>2. n > 0
  BY <1>1
<1>3. (n + 1) \div 2 > 0
  BY <1>1, <1>2
<1>4. NoPoints \in SetScore /\ 0 \in {0} \cup Slot /\ <<>> \in Seq(SetScore)
  BY DEF NoPoints, SetScore, Slot
<1>5. {} \in SUBSET {"score", "service", "ends"}
  OBVIOUS
<1>6. ResetMatch(n) \in Court
  BY <1>4, <1>5 DEF ResetMatch, Court
<1>7. \A t \in Slot : ResetMatch(n).won[t] < SetsNeeded(ResetMatch(n))
  BY <1>3 DEF ResetMatch, SetsNeeded, NoPoints
<1>8. ResetMatch(n).won = NoPoints
  BY DEF ResetMatch
<1> QED BY <1>6, <1>7, <1>8 DEF Good

----------------------------------------------------------------------------
(* A point *)

(* A court without its service and its ends. *)
Bare(c) == [c EXCEPT !.starter = 0, !.server = 0, !.swapped = FALSE, !.deciderDone = FALSE]

(* Service and ends are not the score.                                     *)
LEMMA HandingOn ==
    ASSUME NEW c \in Court
    PROVE  /\ OpenedByReceiver(c) \in Court /\ Bare(OpenedByReceiver(c)) = Bare(c)
           /\ ChangeEnds(c) \in Court /\ Bare(ChangeEnds(c)) = Bare(c)
           /\ HandService(c) \in Court /\ Bare(HandService(c)) = Bare(c)
<1>0. \A s \in {0} \cup Slot : Opp(s) \in Slot
  BY DEF Opp, Slot
<1>1. OpenedByReceiver(c) \in Court /\ Bare(OpenedByReceiver(c)) = Bare(c)
  BY <1>0 DEF OpenedByReceiver, Court, Bare
<1>2. ChangeEnds(c) \in Court /\ Bare(ChangeEnds(c)) = Bare(c)
  BY DEF ChangeEnds, Court, Bare
<1>3. HandService(c) \in Court /\ Bare(HandService(c)) = Bare(c)
  BY <1>0 DEF HandService, Court, Bare
<1> QED BY <1>1, <1>2, <1>3

(* At most one side has won the set, the one with more points.             *)
LEMMA SetWinner ==
    ASSUME NEW c \in Court
    PROVE  /\ \A s \in Slot : Wins(c, s) => Leader(c.points) = s
           /\ IsSetWon(c.points) <=> \E s \in Slot : Wins(c, s)
<1>1. c.points[1] \in Nat /\ c.points[2] \in Nat
  BY DEF Court, SetScore, Slot
<1>2. GamePoint \in Nat \ {0} /\ WinBy \in Nat \ {0}
  BY ScoringAssumption
<1> HIDE DEF Court
<1>3. Wins(c, 1) <=> c.points[1] >= GamePoint /\ c.points[1] - c.points[2] >= WinBy
  BY DEF Wins, Opp
<1>4. Wins(c, 2) <=> c.points[2] >= GamePoint /\ c.points[2] - c.points[1] >= WinBy
  BY DEF Wins, Opp
<1>5. Wins(c, 1) => c.points[1] > c.points[2]
  BY <1>1, <1>2, <1>3
<1>6. Wins(c, 2) => ~(c.points[1] > c.points[2])
  BY <1>1, <1>2, <1>4
<1>7. IsSetWon(c.points) <=> Wins(c, 1) \/ Wins(c, 2)
  BY <1>1, <1>2, <1>3, <1>4 DEF IsSetWon
<1> QED BY <1>5, <1>6, <1>7 DEF Leader, Slot

(* The court after a point for s, up to service and ends, when the point   *)
(* does not win the set, and when it does.                                 *)
LEMMA ScoredIs ==
    ASSUME NEW c \in Court, NEW s \in Slot
    PROVE  LET up == [c EXCEPT !.points[s] = @ + 1]
               w == Leader(up.points)
               counted == [up EXCEPT !.won[w] = @ + 1, !.sets = Append(@, up.points),
                                     !.points = NoPoints]
               after == IF ~IsSetWon(up.points) THEN up
                        ELSE IF counted.won[w] >= SetsNeeded(c)
                             THEN [counted EXCEPT !.winner = w] ELSE counted IN
           /\ up \in Court /\ after \in Court /\ w \in Slot
           /\ Scored(c, s) \in Court
           /\ Bare(Scored(c, s)) = Bare(after)
<1> DEFINE up == [c EXCEPT !.points[s] = @ + 1]
           w == Leader(up.points)
           counted == [up EXCEPT !.won[w] = @ + 1, !.sets = Append(@, up.points),
                                 !.points = NoPoints]
           over == [counted EXCEPT !.winner = w]
           swap == [counted EXCEPT !.swapped = ~@]
<1>1. up \in Court
  <2>1. [c.points EXCEPT ![s] = @ + 1] \in SetScore
    BY DEF Court, SetScore
  <2>2. up = [c EXCEPT !.points = [c.points EXCEPT ![s] = @ + 1]]
    OBVIOUS
  <2> QED BY <2>1, <2>2 DEF Court
<1>2. w \in Slot
  BY DEF Leader, Slot
<1>3. SetsNeeded(up) = SetsNeeded(c)
  BY DEF SetsNeeded, Court
<1> HIDE DEF up, w
<1>4. counted \in Court
  <2>1. NoPoints \in SetScore
    BY DEF NoPoints, SetScore
  <2>2. Append(up.sets, up.points) \in Seq(SetScore)
    BY <1>1 DEF Court
  <2>3. [up.won EXCEPT ![w] = @ + 1] \in SetScore
    BY <1>1, <1>2 DEF Court, SetScore
  <2>4. counted = [up EXCEPT !.won = [up.won EXCEPT ![w] = @ + 1],
                             !.sets = Append(up.sets, up.points), !.points = NoPoints]
    BY <1>1 DEF Court
  <2> QED BY <1>1, <2>1, <2>2, <2>3, <2>4 DEF Court
<1> HIDE DEF counted
<1>5. over \in Court /\ swap \in Court /\ Bare(swap) = Bare(counted)
  BY <1>4, <1>2 DEF Court, Bare
<1>6. CASE ~IsSetWon(up.points)
  <2>1. Scored(c, s) = HandService(ChangeEnds(up))
    BY <1>6, <1>1, SetWinner DEF Scored, AfterPoint, up
  <2>2. ChangeEnds(up) \in Court /\ Bare(ChangeEnds(up)) = Bare(up)
    BY <1>1, HandingOn
  <2> QED BY <1>6, <1>1, <1>2, <2>1, <2>2, HandingOn DEF up, w
<1>7. CASE IsSetWon(up.points)
  <2>1. Scored(c, s) = SetOver(up, w)
    <3>1. \A t \in Slot : Wins(up, t) => t = w
      BY <1>1, SetWinner DEF w
    <3>2. PICK t \in Slot : Wins(up, t)
      BY <1>7, <1>1, SetWinner
    <3>3. (CHOOSE t_1 \in Slot : Wins(up, t_1)) = w
      BY <3>1, <3>2
    <3> QED BY <3>2, <3>3 DEF Scored, AfterPoint, up
  <2>2. SetOver(up, w) = IF counted.won[w] >= SetsNeeded(c) THEN over ELSE OpenedByReceiver(swap)
    BY <1>3 DEF SetOver, counted
  <2>3. OpenedByReceiver(swap) \in Court /\ Bare(OpenedByReceiver(swap)) = Bare(counted)
    BY <1>5, HandingOn
  <2> QED BY <1>7, <1>1, <1>2, <1>4, <1>5, <2>1, <2>2, <2>3 DEF up, w, counted
<1> QED BY <1>6, <1>7

LEMMA BareSame ==
    ASSUME NEW c \in Court, NEW d \in Court, Bare(c) = Bare(d)
    PROVE  /\ c.points = d.points /\ c.won = d.won /\ c.sets = d.sets
           /\ c.winner = d.winner /\ c.bestOf = d.bestOf
           /\ c.reds = d.reds /\ c.byHand = d.byHand
<1>1. \A e \in Court : /\ Bare(e).points = e.points /\ Bare(e).won = e.won
                       /\ Bare(e).sets = e.sets /\ Bare(e).winner = e.winner
                       /\ Bare(e).bestOf = e.bestOf /\ Bare(e).reds = e.reds
                       /\ Bare(e).byHand = e.byHand
  BY DEF Bare, Court
<1> QED BY <1>1

(* A point on a court is a point on the sheet.                             *)
LEMMA ScoredIsAPoint ==
    ASSUME NEW c \in Good, NEW s \in Slot
    PROVE  LET d == Scored(c, s) IN
           /\ d \in Court /\ d.bestOf = c.bestOf /\ d.byHand = c.byHand /\ d # c
           /\ d.reds = c.reds
           /\ InPlay(c) => d \in Good
           /\ InPlay(c) /\ "score" \notin c.byHand
                 => SiteScore(d) = Sheet!ApplyPoint(SiteScore(c), c.bestOf, s)
<1> DEFINE d == Scored(c, s)
           up == [c EXCEPT !.points[s] = @ + 1]
           w == Leader(up.points)
           counted == [up EXCEPT !.won[w] = @ + 1, !.sets = Append(@, up.points),
                                 !.points = NoPoints]
           over == [counted EXCEPT !.winner = w]
           after == IF ~IsSetWon(up.points) THEN up
                    ELSE IF counted.won[w] >= SetsNeeded(c) THEN over ELSE counted
<1>1. c \in Court
  BY DEF Good
<1>2. up \in Court /\ after \in Court /\ w \in Slot /\ d \in Court /\ Bare(d) = Bare(after)
  BY <1>1, ScoredIs
<1>3. /\ up.points = [c.points EXCEPT ![s] = @ + 1] /\ up.won = c.won /\ up.sets = c.sets
      /\ up.winner = c.winner /\ up.bestOf = c.bestOf /\ up.byHand = c.byHand
      /\ up.reds = c.reds
  BY <1>1 DEF Court
<1> HIDE DEF up
<1>4. /\ counted.points = NoPoints /\ counted.won = [c.won EXCEPT ![w] = @ + 1]
      /\ counted.sets = Append(c.sets, up.points)
      /\ counted.winner = c.winner /\ counted.bestOf = c.bestOf
      /\ counted.byHand = c.byHand /\ counted.reds = c.reds
  BY <1>2, <1>3 DEF Court
<1>5. /\ over.points = NoPoints /\ over.won = [c.won EXCEPT ![w] = @ + 1]
      /\ over.sets = Append(c.sets, up.points)
      /\ over.winner = w /\ over.bestOf = c.bestOf /\ over.byHand = c.byHand
      /\ over.reds = c.reds
  <2>1. /\ over.points = counted.points /\ over.won = counted.won /\ over.sets = counted.sets
        /\ over.bestOf = counted.bestOf /\ over.byHand = counted.byHand
        /\ over.reds = counted.reds
    OBVIOUS
  <2>2. "winner" \in DOMAIN counted
    BY <1>2 DEF Court
  <2> QED BY <1>4, <2>1, <2>2
<1>6. /\ d.points = after.points /\ d.won = after.won /\ d.sets = after.sets
      /\ d.winner = after.winner /\ d.bestOf = after.bestOf /\ d.byHand = after.byHand
      /\ d.reds = after.reds
  BY <1>2, BareSame
<1>7. /\ c.points[s] \in Nat /\ c.won \in [Slot -> Nat] /\ c.sets \in Seq(SetScore)
      /\ c.points \in [Slot -> Nat] /\ up.points \in SetScore /\ c.bestOf \in Nat
  BY <1>1, <1>2, BoardAssumption DEF Court, SetScore
<1> HIDE DEF counted, over, w, d
<1>8. d.bestOf = c.bestOf /\ d.byHand = c.byHand /\ d.reds = c.reds
  BY <1>3, <1>4, <1>5, <1>6
<1>9. Append(c.sets, up.points) # c.sets /\ Append(c.sets, up.points) # <<>>
  BY <1>7
<1>10. d # c
  <2>1. CASE IsSetWon(up.points)
    <3>1. d.sets = Append(c.sets, up.points)
      BY <2>1, <1>4, <1>5, <1>6
    <3> QED BY <3>1, <1>9
  <2>2. CASE ~IsSetWon(up.points)
    <3>1. d.points = [c.points EXCEPT ![s] = @ + 1]
      BY <2>2, <1>3, <1>6
    <3>2. d.points[s] = c.points[s] + 1
      BY <3>1, <1>7
    <3> QED BY <3>2, <1>7
  <2> QED BY <2>1, <2>2
<1>11. CASE ~(InPlay(c) /\ "score" \notin c.byHand)
  BY <1>2, <1>8, <1>10, <1>11 DEF Good, d
<1>12. CASE InPlay(c) /\ "score" \notin c.byHand
  <2>1. /\ \A t \in Slot : c.won[t] < SetsNeeded(c)
        /\ c.sets = <<>> => c.won = NoPoints
    BY <1>12 DEF Good
  <2>2. SetsNeeded(d) = SetsNeeded(c) /\ SetsNeeded(c) = Sheet!SetsToWin(c.bestOf)
    BY <1>8 DEF SetsNeeded, Sheet!SetsToWin
  <2>3. SetsNeeded(c) \in Int
    BY <1>7 DEF SetsNeeded
  <2> DEFINE won == [c.won EXCEPT ![w] = @ + 1]
  <2>4. /\ won[w] \in Nat /\ \A t \in Slot \ {w} : won[t] = c.won[t]
        /\ won[w] = c.won[w] + 1
    BY <1>2, <1>7
  <2> HIDE DEF won
  <2>5. /\ Sheet!IsSetWon(up.points) <=> IsSetWon(up.points)
        /\ Sheet!Leader(up.points) = w /\ Sheet!NextSet(up.points) = NoPoints
    BY DEF Sheet!IsSetWon, IsSetWon, Sheet!Leader, Leader, w, Sheet!NextSet,
           Sheet!NoPoints, NoPoints, Sheet!Slot, Slot
  <2>6. LET site == SiteScore(c) IN
        /\ site.cur = c.points /\ site.sets = c.sets /\ site.won = c.won
        /\ site.winnerSlot = 0 /\ site = [status |-> site.status, cur |-> c.points,
              sets |-> c.sets, won |-> c.won, winnerSlot |-> 0]
    BY <1>12 DEF SiteScore, InPlay
  <2>7. Sheet!Slot = Slot
    BY DEF Sheet!Slot, Slot
  <2>8. CASE ~IsSetWon(up.points)
    <3>1. /\ d.points = up.points /\ d.won = c.won /\ d.sets = c.sets
          /\ d.winner = 0
      BY <2>8, <1>3, <1>6, <1>12 DEF InPlay
    <3>2. InPlay(d) /\ ~Untouched(d)
      <4>1. up.points[1] + up.points[2] # 0
        BY <1>3, <1>7 DEF Slot
      <4> QED BY <3>1, <4>1 DEF InPlay, Untouched, Total
    <3>3. d \in Good
      BY <3>1, <2>1, <2>2, <1>2 DEF Good, d
    <3>4. SiteScore(d) = [status |-> "LIVE", cur |-> up.points, sets |-> c.sets,
                          won |-> c.won, winnerSlot |-> 0]
      BY <3>1, <3>2 DEF SiteScore
    <3>5. Sheet!ApplyPoint(SiteScore(c), c.bestOf, s) =
            [status |-> "LIVE", cur |-> up.points, sets |-> c.sets,
             won |-> c.won, winnerSlot |-> 0]
      BY <2>5, <2>6, <2>8, <1>3 DEF Sheet!ApplyPoint
    <3> QED BY <3>3, <3>4, <3>5, <1>2, <1>8, <1>10 DEF d
  <2>9. CASE IsSetWon(up.points)
    <3>1. Sheet!ApplyPoint(SiteScore(c), c.bestOf, s) =
            LET decided == \E t \in Slot : won[t] >= SetsNeeded(c) IN
            [status |-> IF decided THEN "FINISHED" ELSE "LIVE",
             cur |-> NoPoints, sets |-> Append(c.sets, up.points), won |-> won,
             winnerSlot |-> IF decided THEN Sheet!Leader(won) ELSE 0]
      <4> DEFINE site == SiteScore(c)
      <4>1. /\ [site.cur EXCEPT ![s] = @ + 1] = up.points
            /\ [site.won EXCEPT ![Sheet!Leader(up.points)] = @ + 1] = won
            /\ site.sets = c.sets
        BY <2>5, <2>6, <1>3 DEF won
      <4> HIDE DEF site
      <4>2. Sheet!ApplyPoint(site, c.bestOf, s) =
              LET decided == \E t \in Sheet!Slot : won[t] >= Sheet!SetsToWin(c.bestOf) IN
              [status |-> IF decided THEN "FINISHED" ELSE "LIVE",
               cur |-> Sheet!NextSet(up.points), sets |-> Append(c.sets, up.points),
               won |-> won, winnerSlot |-> IF decided THEN Sheet!Leader(won) ELSE 0]
        BY <4>1, <2>5, <2>9 DEF Sheet!ApplyPoint
      <4> QED BY <4>2, <2>2, <2>5, <2>7 DEF site
    <3>2. (\E t \in Slot : won[t] >= SetsNeeded(c)) <=> won[w] >= SetsNeeded(c)
      <4>1. \A t \in Slot \ {w} : ~(won[t] >= SetsNeeded(c))
        BY <2>1, <2>3, <2>4, <1>7
      <4> QED BY <4>1, <1>2
    <3>3. d.points = NoPoints /\ d.won = won /\ d.sets = Append(c.sets, up.points)
      BY <2>9, <1>4, <1>5, <1>6 DEF won
    <3>4. ~Untouched(d)
      BY <3>3, <1>9 DEF Untouched
    <3>5. CASE won[w] >= SetsNeeded(c)
      <4>1. d.winner = w
        BY <3>5, <2>9, <1>4, <1>5, <1>6 DEF won
      <4>2. ~InPlay(d)
        BY <4>1, <1>2 DEF InPlay, Slot
      <4>3. Sheet!Leader(won) = w
        <5>1. \A t \in Slot \ {w} : won[t] < won[w]
          BY <3>5, <2>1, <2>3, <2>4, <1>7
        <5> QED BY <5>1, <2>4, <1>2, <1>7 DEF Sheet!Leader, Slot
      <4>4. d \in Good
        BY <4>2, <3>3, <1>9, <1>2 DEF Good, d
      <4>5. SiteScore(d) = [status |-> "FINISHED", cur |-> NoPoints,
                            sets |-> Append(c.sets, up.points), won |-> won,
                            winnerSlot |-> w]
        BY <4>1, <4>2, <3>3 DEF SiteScore
      <4>6. Sheet!ApplyPoint(SiteScore(c), c.bestOf, s) = SiteScore(d)
        BY <4>3, <4>5, <3>1, <3>2, <3>5
      <4> QED BY <4>4, <4>6, <1>2, <1>8, <1>10 DEF d
    <3>6. CASE ~(won[w] >= SetsNeeded(c))
      <4>1. d.winner = 0 /\ InPlay(d)
        BY <3>6, <2>9, <1>4, <1>6, <1>12 DEF won, InPlay
      <4>2. \A t \in Slot : d.won[t] < SetsNeeded(d)
        BY <3>3, <3>6, <2>1, <2>2, <2>3, <2>4
      <4>3. d \in Good
        BY <4>2, <3>3, <1>9, <1>2 DEF Good, d
      <4>4. SiteScore(d) = [status |-> "LIVE", cur |-> NoPoints,
                            sets |-> Append(c.sets, up.points), won |-> won,
                            winnerSlot |-> 0]
        BY <4>1, <3>3, <3>4 DEF SiteScore
      <4>5. Sheet!ApplyPoint(SiteScore(c), c.bestOf, s) = SiteScore(d)
        <5>1. ~\E t \in Slot : won[t] >= SetsNeeded(c)
          BY <3>2, <3>6
        <5> QED BY <4>4, <3>1, <5>1
      <4> QED BY <4>3, <4>5, <1>2, <1>8, <1>10 DEF d
    <3> QED BY <3>5, <3>6
  <2> QED BY <2>8, <2>9
<1> QED BY <1>11, <1>12 DEF d

----------------------------------------------------------------------------
(* The undo stack *)

Rows == {SheetOf(c) : c \in Good}

LEMMA ShownIs ==
    ASSUME NEW u \in Seq(Good)
    PROVE  /\ Shown(u) \in Seq(Rows) /\ Len(Shown(u)) = Len(u)
           /\ \A i \in 1..Len(u) : Shown(u)[i] = SheetOf(u[i])
<1>1. Len(u) \in Nat /\ DOMAIN u = 1..Len(u) /\ \A i \in 1..Len(u) : u[i] \in Good
  BY LenProperties, ElementOfSeq
<1>2. Shown(u) = [i \in 1..Len(u) |-> SheetOf(u[i])]
  BY <1>1 DEF Shown
<1>3. \A i \in 1..Len(u) : SheetOf(u[i]) \in Rows
  BY <1>1 DEF Rows
<1>4. Shown(u) \in [1..Len(u) -> Rows]
  BY <1>2, <1>3
<1>5. Shown(u) \in Seq(Rows)
  BY <1>1, <1>4, SeqDef
<1>6. Len(Shown(u)) = Len(u)
  BY <1>1, <1>4, <1>5, LenProperties
<1> QED BY <1>2, <1>5, <1>6

(* What is pushed on the stack, or drops out of it, or comes off it again, *)
(* does so on the sheets.                                                  *)
LEMMA ShownAppend ==
    ASSUME NEW u \in Seq(Good), NEW c \in Good
    PROVE  Shown(Append(u, c)) = Append(Shown(u), SheetOf(c))
<1> DEFINE v == Append(u, c)
           x == Append(Shown(u), SheetOf(c))
<1>1. /\ v \in Seq(Good) /\ Len(v) = Len(u) + 1 /\ v[Len(u) + 1] = c
      /\ \A i \in 1..Len(u) : v[i] = u[i]
  BY AppendProperties
<1>2. SheetOf(c) \in Rows
  BY DEF Rows
<1>3. /\ Shown(u) \in Seq(Rows) /\ Len(Shown(u)) = Len(u)
      /\ \A i \in 1..Len(u) : Shown(u)[i] = SheetOf(u[i])
  BY ShownIs
<1>4. /\ x \in Seq(Rows) /\ Len(x) = Len(u) + 1 /\ x[Len(u) + 1] = SheetOf(c)
      /\ \A i \in 1..Len(u) : x[i] = SheetOf(u[i])
  BY <1>2, <1>3, AppendProperties
<1>5. /\ Shown(v) \in Seq(Rows) /\ Len(Shown(v)) = Len(u) + 1
      /\ \A i \in 1..Len(u) + 1 : Shown(v)[i] = SheetOf(v[i])
  BY <1>1, ShownIs
<1> HIDE DEF v, x
<1>6. Len(u) \in Nat
  BY LenProperties
<1>7. \A i \in 1..Len(u) + 1 : Shown(v)[i] = x[i]
  BY <1>1, <1>4, <1>5, <1>6
<1>8. Shown(v) = x
  BY <1>4, <1>5, <1>7, SeqEqual
<1> QED BY <1>8 DEF v, x

LEMMA ShownTail ==
    ASSUME NEW u \in Seq(Good), u # <<>>
    PROVE  Shown(Tail(u)) = Tail(Shown(u)) /\ Tail(u) \in Seq(Good)
<1> DEFINE v == Tail(u)
           x == Tail(Shown(u))
<1>1. /\ v \in Seq(Good) /\ Len(v) = Len(u) - 1
      /\ \A i \in 1..Len(v) : v[i] = u[i + 1]
  BY HeadTailProperties
<1>2. /\ Shown(u) \in Seq(Rows) /\ Len(Shown(u)) = Len(u)
      /\ \A i \in 1..Len(u) : Shown(u)[i] = SheetOf(u[i])
  BY ShownIs
<1>3. Len(u) \in Nat \ {0}
  BY EmptySeq
<1>4. Shown(u) # <<>>
  BY <1>2, <1>3, EmptySeq
<1>5. /\ x \in Seq(Rows) /\ Len(x) = Len(u) - 1
      /\ \A i \in 1..Len(x) : x[i] = Shown(u)[i + 1]
  BY <1>2, <1>4, HeadTailProperties
<1>6. /\ Shown(v) \in Seq(Rows) /\ Len(Shown(v)) = Len(v)
      /\ \A i \in 1..Len(v) : Shown(v)[i] = SheetOf(v[i])
  BY <1>1, ShownIs
<1> HIDE DEF v, x
<1>7. \A i \in 1..Len(v) : Shown(v)[i] = x[i]
  <2>1. \A i \in 1..Len(v) : i + 1 \in 1..Len(u)
    BY <1>1, <1>3
  <2> QED BY <2>1, <1>1, <1>2, <1>5, <1>6
<1>8. Shown(v) = x
  BY <1>1, <1>5, <1>6, <1>7, SeqEqual
<1> QED BY <1>1, <1>8 DEF v, x

LEMMA OneLess ==
    ASSUME NEW n \in Nat \ {0}
    PROVE  /\ (IF 1 <= n - 1 THEN n - 1 - 1 + 1 ELSE 0) = n - 1
           /\ 1..(n - 1 - 1 + 1) = 1..n - 1
           /\ \A i \in 1..n - 1 : 1 + i - 1 = i
<1>1. n - 1 - 1 + 1 = n - 1
  OBVIOUS
<1>2. ~(1 <= n - 1) => n - 1 = 0
  OBVIOUS
<1>3. \A i \in Int : 1 + i - 1 = i
  OBVIOUS
<1>4. 1..n - 1 \subseteq Int
  OBVIOUS
<1>5. 1..(n - 1 - 1 + 1) = 1..n - 1
  BY <1>1, Zenon
<1> QED BY <1>1, <1>2, <1>3, <1>4, <1>5

LEMMA ShownPopped ==
    ASSUME NEW u \in Seq(Good), u # <<>>
    PROVE  /\ Popped(u) \in Seq(Good) /\ Len(Popped(u)) = Len(u) - 1
           /\ Shown(Popped(u)) = SubSeq(Shown(u), 1, Len(Shown(u)) - 1)
<1> DEFINE v == Popped(u)
           x == SubSeq(Shown(u), 1, Len(Shown(u)) - 1)
<1>1. Len(u) \in Nat \ {0} /\ Len(u) - 1 \in Int
  BY EmptySeq
<1>2. \A i \in 1..Len(u) - 1 : i \in 1..Len(u)
  BY <1>1
<1>3. \A i \in 1..Len(u) - 1 : u[i] \in Good
  BY <1>2, ElementOfSeq
<1>4. /\ v \in Seq(Good) /\ Len(v) = Len(u) - 1
      /\ \A i \in 1..Len(u) - 1 : v[i] = u[i]
  <2>1. /\ v \in Seq(Good) /\ Len(v) = IF 1 <= Len(u) - 1 THEN Len(u) - 1 - 1 + 1 ELSE 0
        /\ \A i \in 1..(Len(u) - 1 - 1 + 1) : v[i] = u[1 + i - 1]
    BY <1>1, <1>3, SubSeqProperties DEF Popped
  <2>2. /\ (IF 1 <= Len(u) - 1 THEN Len(u) - 1 - 1 + 1 ELSE 0) = Len(u) - 1
        /\ 1..(Len(u) - 1 - 1 + 1) = 1..Len(u) - 1
        /\ \A i \in 1..Len(u) - 1 : 1 + i - 1 = i
    BY <1>1, OneLess
  <2> HIDE DEF v
  <2> QED BY <2>1, <2>2
<1>5. /\ Shown(u) \in Seq(Rows) /\ Len(Shown(u)) = Len(u)
      /\ \A i \in 1..Len(u) : Shown(u)[i] = SheetOf(u[i])
  BY ShownIs
<1>6. \A i \in 1..Len(u) - 1 : Shown(u)[i] \in Rows
  BY <1>2, <1>5, ElementOfSeq
<1>7. /\ x \in Seq(Rows) /\ Len(x) = Len(u) - 1
      /\ \A i \in 1..Len(u) - 1 : x[i] = Shown(u)[i]
  <2>1. /\ x \in Seq(Rows) /\ Len(x) = IF 1 <= Len(u) - 1 THEN Len(u) - 1 - 1 + 1 ELSE 0
        /\ \A i \in 1..(Len(u) - 1 - 1 + 1) : x[i] = Shown(u)[1 + i - 1]
    BY <1>1, <1>5, <1>6, SubSeqProperties
  <2>2. /\ (IF 1 <= Len(u) - 1 THEN Len(u) - 1 - 1 + 1 ELSE 0) = Len(u) - 1
        /\ 1..(Len(u) - 1 - 1 + 1) = 1..Len(u) - 1
        /\ \A i \in 1..Len(u) - 1 : 1 + i - 1 = i
    BY <1>1, OneLess
  <2> HIDE DEF x
  <2> QED BY <2>1, <2>2
<1>8. /\ Shown(v) \in Seq(Rows) /\ Len(Shown(v)) = Len(v)
      /\ \A i \in 1..Len(v) : Shown(v)[i] = SheetOf(v[i])
  BY <1>4, ShownIs
<1> HIDE DEF v, x
<1>9. \A i \in 1..Len(v) : Shown(v)[i] = x[i]
  BY <1>2, <1>4, <1>5, <1>7, <1>8
<1>10. Shown(v) = x
  BY <1>4, <1>7, <1>8, <1>9, SeqEqual
<1> QED BY <1>4, <1>10 DEF v, x

LEMMA ShownKept ==
    ASSUME NEW u \in Seq(Good), NEW c \in Good, Len(u) <= MaxUndo
    PROVE  LET pushed == Kept(Append(u, c)) IN
           /\ pushed \in Seq(Good) /\ Len(pushed) <= MaxUndo /\ pushed # <<>>
           /\ Shown(pushed) = Sheet!Kept(Append(Shown(u), SheetOf(c)))
           /\ \/ Shown(Popped(pushed)) = Shown(u)
              \/ Shown(u) # <<>> /\ Shown(Popped(pushed)) = Tail(Shown(u))
<1> DEFINE v == Append(u, c)
           pushed == Kept(v)
<1>1. v \in Seq(Good) /\ Len(v) = Len(u) + 1 /\ v # <<>>
  BY AppendProperties
<1>2. Shown(v) = Append(Shown(u), SheetOf(c)) /\ Len(Shown(v)) = Len(v)
  BY <1>1, ShownAppend, ShownIs
<1>3. Shown(Tail(v)) = Tail(Shown(v)) /\ Tail(v) \in Seq(Good)
  BY <1>1, ShownTail
<1>4. Len(Tail(v)) = Len(v) - 1
  BY <1>1, HeadTailProperties
<1>5. Len(u) \in Nat /\ MaxUndo \in Nat \ {0}
  BY LenProperties, BoardAssumption
<1>6. Shown(pushed) = Sheet!Kept(Append(Shown(u), SheetOf(c)))
  BY <1>2, <1>3 DEF Kept, Sheet!Kept
<1>7. Popped(v) = u
  <2>1. \A i \in 1..Len(u) : v[i] = u[i]
    BY AppendProperties
  <2>2. Popped(v) \in Seq(Good) /\ Len(Popped(v)) = Len(u)
    <3>1. Len(v) - 1 = Len(u)
      BY <1>1, <1>5
    <3> HIDE DEF v
    <3> QED BY <3>1, <1>1, ShownPopped
  <2>3. \A i \in 1..Len(u) : Popped(v)[i] = u[i]
    BY <2>1, <1>1, <1>5 DEF Popped
  <2> QED BY <2>2, <2>3, SeqEqual
<1>8. CASE Len(v) <= MaxUndo
  <2>1. pushed = v
    BY <1>1, <1>5, <1>8 DEF Kept
  <2> QED BY <2>1, <1>1, <1>6, <1>7, <1>8
<1>9. CASE ~(Len(v) <= MaxUndo)
  <2>1. pushed = Tail(v)
    BY <1>1, <1>5, <1>9 DEF Kept
  <2>2. Len(pushed) = Len(u) /\ Len(u) = MaxUndo
    BY <2>1, <1>1, <1>4, <1>5, <1>9
  <2>3. pushed # <<>> /\ u # <<>>
    BY <2>1, <2>2, <1>3, <1>5, EmptySeq
  <2>4. Popped(pushed) = Tail(u)
    <3>1. Tail(v) = Append(Tail(u), c)
      BY <2>3, HeadTailAppend
    <3>2. Tail(u) \in Seq(Good) /\ Len(Tail(u)) = Len(u) - 1
      BY <2>3, HeadTailProperties
    <3>3. \A i \in 1..Len(Tail(u)) : Tail(v)[i] = Tail(u)[i]
      BY <3>1, <3>2, AppendProperties
    <3>4. Popped(pushed) \in Seq(Good) /\ Len(Popped(pushed)) = Len(Tail(u))
      BY <2>1, <2>2, <2>3, <1>3, <3>2, ShownPopped
    <3>5. \A i \in 1..Len(Tail(u)) : Popped(pushed)[i] = Tail(u)[i]
      BY <2>1, <2>2, <3>2, <3>3, <1>5, <1>3 DEF Popped
    <3> QED BY <3>2, <3>4, <3>5, SeqEqual
  <2>5. Shown(u) # <<>> /\ Shown(Tail(u)) = Tail(Shown(u))
    BY <2>3, ShownTail, ShownIs, EmptySeq
  <2> QED BY <2>1, <2>2, <2>3, <2>4, <2>5, <1>3, <1>6
<1> QED BY <1>8, <1>9, <1>1, <1>5

----------------------------------------------------------------------------
(* Operations *)

SheetStep == Sheet!Next \/ UNCHANGED Sheet!vars

(* The mapped variables after a step, in terms of the new court and stack. *)
LEMMA NewSheetIs ==
    /\ SiteScore(court)' = SiteScore(court') /\ FreeHand(court)' = FreeHand(court')
    /\ Shown(undo)' = Shown(undo')
    /\ Sheet!sheet = SheetOf(court) /\ Sheet!sheet' = SheetOf(court')
BY DEF Sheet!sheet, SheetOf, SiteScore, FreeHand, Shown, InPlay, Untouched, Total

(* A step that pushes the court and goes to a good one. *)
LEMMA Pushes ==
    ASSUME Inv, court' \in Good, undo' = Kept(Append(undo, court))
    PROVE  Inv' /\ Sheet!Remember
<1>1. /\ undo' \in Seq(Good) /\ Len(undo') <= MaxUndo
      /\ Shown(undo') = Sheet!Kept(Append(Shown(undo), SheetOf(court)))
  BY ShownKept DEF Inv
<1>2. Inv'
  BY <1>1 DEF Inv
<1> QED BY <1>1, <1>2, NewSheetIs DEF Sheet!Remember

(* A step that changes nothing leaves the stack too, or loses its oldest.  *)
LEMMA NoStep ==
    ASSUME Inv, Step(court)
    PROVE  Inv' /\ SheetStep
<1> DEFINE pushed == Kept(Append(undo, court))
<1>1. court' = court /\ undo' = Popped(pushed)
  BY DEF Step
<1>2. /\ pushed \in Seq(Good) /\ Len(pushed) <= MaxUndo /\ pushed # <<>>
      /\ \/ Shown(Popped(pushed)) = Shown(undo)
         \/ Shown(undo) # <<>> /\ Shown(Popped(pushed)) = Tail(Shown(undo))
  BY ShownKept DEF Inv
<1> HIDE DEF pushed
<1>3. undo' \in Seq(Good) /\ Len(undo') <= MaxUndo
  <2>1. Popped(pushed) \in Seq(Good) /\ Len(Popped(pushed)) = Len(pushed) - 1
    BY <1>2, ShownPopped
  <2>2. Len(pushed) \in Nat /\ MaxUndo \in Nat
    BY <1>2, LenProperties, BoardAssumption
  <2> QED BY <1>1, <1>2, <2>1, <2>2
<1>4. Inv'
  BY <1>1, <1>3 DEF Inv
<1>5. UNCHANGED <<SiteScore(court), court.bestOf, FreeHand(court)>>
  BY <1>1, NewSheetIs
<1>6. CASE Shown(undo') = Shown(undo)
  BY <1>4, <1>5, <1>6, NewSheetIs DEF SheetStep, Sheet!vars
<1>7. CASE Shown(undo) # <<>> /\ Shown(undo') = Tail(Shown(undo))
  <2>1. Sheet!Note
    BY <1>5, <1>7, NewSheetIs DEF Sheet!Note
  <2> QED BY <1>4, <2>1 DEF SheetStep, Sheet!Next
<1> QED BY <1>1, <1>2, <1>6, <1>7

(* A step of the stack goes to the court it names.                         *)
LEMMA StepTo ==
    ASSUME Inv, NEW d \in Good, Step(d) \/ Renewed(d), ~Step(court)
    PROVE  court' = d /\ Inv' /\ Sheet!Remember
<1>1. court' = d /\ undo' = Kept(Append(undo, court))
  BY DEF Step, Renewed
<1> QED BY <1>1, Pushes

(* Writing over the sheet, or doing anything to one written over.          *)
LEMMA OverHand ==
    ASSUME Inv, NEW d \in Court, "score" \in d.byHand, Step(d)
    PROVE  Inv' /\ SheetStep
<1>1. CASE Step(court)
  BY <1>1, NoStep
<1>2. CASE ~Step(court)
  <2>1. d \in Good
    BY DEF Good
  <2>2. court' = d /\ Inv' /\ Sheet!Remember
    BY <1>2, <2>1, StepTo
  <2>3. Sheet!ByHand
    BY <2>2, NewSheetIs DEF Sheet!ByHand, FreeHand
  <2> QED BY <2>2, <2>3 DEF SheetStep, Sheet!Next
<1> QED BY <1>1, <1>2

(* What is not on the sheet. *)
LEMMA Aside ==
    ASSUME Inv, NEW d \in Good, SheetOf(d) = SheetOf(court), Step(d)
    PROVE  Inv' /\ SheetStep
<1>1. CASE Step(court)
  BY <1>1, NoStep
<1>2. CASE ~Step(court)
  <2>1. court' = d /\ Inv' /\ Sheet!Remember
    BY <1>2, StepTo
  <2>2. UNCHANGED <<SiteScore(court), court.bestOf, FreeHand(court)>>
    BY <2>1, NewSheetIs DEF SheetOf
  <2>3. Sheet!Note
    BY <2>1, <2>2 DEF Sheet!Note, Sheet!Remember
  <2> QED BY <2>1, <2>3 DEF SheetStep, Sheet!Next
<1> QED BY <1>1, <1>2

(* A new match, or another format before the first point. *)
LEMMA AnewStep ==
    ASSUME Inv, NEW d \in Good, Step(d) \/ Renewed(d),
           SiteScore(d) = Sheet!InitialState, ~FreeHand(d)
    PROVE  Inv' /\ SheetStep
<1>1. CASE Step(court)
  BY <1>1, NoStep
<1>2. CASE ~Step(court)
  <2>1. court' = d /\ Inv' /\ Sheet!Remember
    BY <1>2, StepTo
  <2>2. d.bestOf \in Formats /\ FreeHand(d) = FALSE
    BY DEF Good, Court, FreeHand
  <2>3. Sheet!NewSheet
    BY <2>1, <2>2, NewSheetIs DEF Sheet!NewSheet
  <2> QED BY <2>1, <2>3 DEF SheetStep, Sheet!Next
<1> QED BY <1>1, <1>2

LEMMA ResetIsInitial ==
    ASSUME NEW n \in Formats
    PROVE  SiteScore(ResetMatch(n)) = Sheet!InitialState /\ ~FreeHand(ResetMatch(n))
<1>1. /\ ResetMatch(n).points = NoPoints /\ ResetMatch(n).won = NoPoints
      /\ ResetMatch(n).sets = <<>> /\ ResetMatch(n).winner = 0
      /\ ResetMatch(n).byHand = {}
  BY DEF ResetMatch
<1>2. Untouched(ResetMatch(n)) /\ InPlay(ResetMatch(n))
  BY <1>1 DEF Untouched, InPlay, Total, NoPoints, Slot
<1>3. Sheet!NoPoints = NoPoints
  BY DEF Sheet!NoPoints, NoPoints, Sheet!Slot, Slot
<1> QED BY <1>1, <1>2, <1>3 DEF SiteScore, FreeHand, Sheet!InitialState

LEMMA OnePenaltyIs ==
    ASSUME NEW c \in Good, c.bestOf = court.bestOf, NEW s \in Slot
    PROVE  LET d == OnePenalty(c, s) IN
           /\ d \in Good /\ d.bestOf = c.bestOf /\ d.byHand = c.byHand /\ d.reds = c.reds
           /\ "score" \notin c.byHand => SiteScore(d) = Sheet!OneMore(SiteScore(c), s)
<1>1. (SiteScore(c).status = "FINISHED") <=> ~InPlay(c)
  BY DEF SiteScore
<1>2. CASE InPlay(c)
  <2>1. OnePenalty(c, s) = Scored(c, s)
    BY <1>2 DEF OnePenalty, PenaltyStops
  <2> QED BY <1>1, <1>2, <2>1, ScoredIsAPoint DEF Sheet!OneMore
<1>3. CASE ~InPlay(c)
  BY <1>1, <1>3 DEF OnePenalty, PenaltyStops, Sheet!OneMore
<1> QED BY <1>2, <1>3

(* Up to two penalty points, entered on the sheet at once. *)
LEMMA PenalisedIs ==
    ASSUME NEW c \in Good, SheetOf(c) = SheetOf(court), NEW s \in Slot, NEW n \in 0..2
    PROVE  LET d == Penalised(c, s, n) IN
           /\ d \in Good /\ d.bestOf = c.bestOf /\ d.byHand = c.byHand /\ d.reds = c.reds
           /\ "score" \notin c.byHand => SiteScore(d) = Sheet!Given(s, n)
<1>0. c.bestOf = court.bestOf /\ SiteScore(c) = SiteScore(court)
  BY DEF SheetOf
<1> DEFINE e == OnePenalty(c, s)
<1>1. /\ e \in Good /\ e.bestOf = c.bestOf /\ e.byHand = c.byHand /\ e.reds = c.reds
      /\ "score" \notin c.byHand => SiteScore(e) = Sheet!OneMore(SiteScore(c), s)
  BY <1>0, OnePenaltyIs
<1> HIDE DEF e
<1> DEFINE d == OnePenalty(e, s)
<1>2. /\ d \in Good /\ d.bestOf = c.bestOf /\ d.byHand = c.byHand /\ d.reds = c.reds
      /\ "score" \notin c.byHand => SiteScore(d) = Sheet!OneMore(SiteScore(e), s)
  BY <1>0, <1>1, OnePenaltyIs
<1> HIDE DEF d
<1>3. CASE n = 0
  BY <1>3, <1>0 DEF Penalised, Sheet!Given
<1>4. CASE n = 1
  <2>1. Penalised(c, s, n) = e
    BY <1>4 DEF Penalised, e
  <2>2. Sheet!Given(s, n) = Sheet!OneMore(SiteScore(court), s)
    BY <1>4 DEF Sheet!Given
  <2> QED BY <2>1, <2>2, <1>0, <1>1
<1>5. CASE n = 2
  <2>1. Penalised(c, s, n) = d
    BY <1>5 DEF Penalised, d, e
  <2>2. Sheet!Given(s, n) = Sheet!OneMore(Sheet!OneMore(SiteScore(court), s), s)
    BY <1>5 DEF Sheet!Given
  <2> QED BY <2>1, <2>2, <1>0, <1>1, <1>2
<1> QED BY <1>3, <1>4, <1>5

(* Points of a rally or of a penalty on a court in play.                   *)
LEMMA PointsStep ==
    ASSUME Inv, InPlay(court), NEW d \in Good, Step(d), d # court, d.byHand = court.byHand,
           d.bestOf = court.bestOf, NEW s \in Slot, NEW n \in 0..2,
           "score" \notin court.byHand => SiteScore(d) = Sheet!Given(s, n)
    PROVE  Inv' /\ SheetStep
<1>1. CASE "score" \in court.byHand
  <2>1. d \in Court
    BY DEF Good
  <2> QED BY <1>1, <2>1, OverHand
<1>2. CASE "score" \notin court.byHand
  <2>1. ~Step(court)
    BY DEF Step
  <2>2. court' = d /\ Inv' /\ Sheet!Remember
    BY <2>1, StepTo
  <2>3. SiteScore(court).status # "FINISHED" /\ ~FreeHand(court)
    BY <1>2 DEF SiteScore, FreeHand
  <2>4. UNCHANGED <<court.bestOf, FreeHand(court)>>
    BY <2>2, NewSheetIs DEF FreeHand
  <2>5. Sheet!Points(s, n)
    BY <1>2, <2>2, <2>3, <2>4, NewSheetIs DEF Sheet!Points
  <2>6. s \in Sheet!Slot
    BY DEF Sheet!Slot, Slot
  <2> QED BY <2>2, <2>5, <2>6 DEF SheetStep, Sheet!Next
<1> QED BY <1>1, <1>2

LEMMA PointStep == ASSUME Inv, NEW s \in Slot, Point(s) PROVE Inv' /\ SheetStep
<1>0. court \in Good
  BY DEF Inv
<1>1. CASE ~InPlay(court)
  BY <1>1, NoStep DEF Point
<1>2. CASE InPlay(court)
  <2> DEFINE d == Scored(court, s)
  <2>1. /\ d \in Good /\ d.bestOf = court.bestOf /\ d.byHand = court.byHand /\ d # court
        /\ "score" \notin court.byHand
              => SiteScore(d) = Sheet!ApplyPoint(SiteScore(court), court.bestOf, s)
    BY <1>0, <1>2, ScoredIsAPoint
  <2>2. Step(d)
    BY <1>2 DEF Point
  <2> HIDE DEF d
  <2>3. Sheet!Given(s, 1) = Sheet!ApplyPoint(SiteScore(court), court.bestOf, s)
    BY <1>2 DEF Sheet!Given, Sheet!OneMore, SiteScore
  <2> QED BY <1>2, <2>1, <2>2, <2>3, PointsStep
<1> QED BY <1>1, <1>2

LEMMA RedCardStep == ASSUME Inv, NEW s \in Slot, RedCard(s) PROVE Inv' /\ SheetStep
<1>0. court \in Good /\ court \in Court /\ Opp(s) \in Slot
  BY DEF Inv, Good, Opp, Slot
<1> DEFINE c == [court EXCEPT !.reds[s] = @ + 1]
           n == CASE court.reds[s] = 0 -> 1 [] court.reds[s] = 1 -> 2 [] OTHER -> 0
           d == Penalised(c, Opp(s), n)
<1>1. Step(IF InPlay(court) THEN d ELSE court)
  BY DEF RedCard
<1>2. CASE ~InPlay(court)
  BY <1>1, <1>2, NoStep
<1>3. CASE InPlay(court)
  <2>1. n \in 0..2
    OBVIOUS
  <2>2. /\ c.points = court.points /\ c.won = court.won /\ c.sets = court.sets
        /\ c.winner = court.winner /\ c.bestOf = court.bestOf /\ c.byHand = court.byHand
        /\ c.reds[s] = court.reds[s] + 1 /\ court.reds[s] \in Nat
    BY <1>0 DEF Court, SetScore
  <2>3. c \in Court
    <3>1. [court.reds EXCEPT ![s] = @ + 1] \in SetScore
      BY <1>0 DEF Court, SetScore
    <3>2. c = [court EXCEPT !.reds = [court.reds EXCEPT ![s] = @ + 1]]
      OBVIOUS
    <3> QED BY <1>0, <3>1, <3>2 DEF Court
  <2> HIDE DEF c, n
  <2>4. c \in Good /\ SheetOf(c) = SheetOf(court)
    BY <1>0, <2>2, <2>3 DEF Good, SheetOf, SiteScore, FreeHand, InPlay, SetsNeeded,
                            Untouched, Total
  <2>5. /\ d \in Good /\ d.bestOf = c.bestOf /\ d.byHand = c.byHand /\ d.reds = c.reds
        /\ "score" \notin c.byHand => SiteScore(d) = Sheet!Given(Opp(s), n)
    BY <1>0, <2>1, <2>4, PenalisedIs
  <2> HIDE DEF d
  <2>6. d # court
    BY <2>2, <2>5
  <2> QED BY <1>0, <1>1, <1>3, <2>1, <2>2, <2>5, <2>6, PointsStep
<1> QED BY <1>2, <1>3

(* What Hand adds to a court of the right type. *)
LEMMA HandIs ==
    ASSUME NEW c \in Court, NEW what \in SUBSET {"score", "service", "ends"}
    PROVE  Hand(c, what) \in Court /\ Hand(c, what).byHand = c.byHand \cup what
<1>1. c.byHand \cup what \in SUBSET {"score", "service", "ends"}
  BY DEF Court
<1>2. Hand(c, what) = [c EXCEPT !.byHand = c.byHand \cup what]
  BY DEF Hand
<1> QED BY <1>1, <1>2 DEF Court

LEMMA MinusStep == ASSUME Inv, NEW s \in Slot, Minus(s) PROVE Inv' /\ SheetStep
<1>0. court \in Court
  BY DEF Inv, Good
<1> DEFINE c == [court EXCEPT !.points[s] = @ - 1]
           d == Hand(c, {"score", "service", "ends"})
<1>1. Step(IF court.points[s] = 0 THEN court ELSE d)
  BY DEF Minus
<1>2. CASE court.points[s] = 0
  BY <1>1, <1>2, NoStep
<1>3. CASE court.points[s] # 0
  <2>1. [court.points EXCEPT ![s] = @ - 1] \in SetScore
    BY <1>0, <1>3 DEF Court, SetScore
  <2>2. c = [court EXCEPT !.points = [court.points EXCEPT ![s] = @ - 1]]
    OBVIOUS
  <2>3. c \in Court
    BY <1>0, <2>1, <2>2 DEF Court
  <2> HIDE DEF c
  <2>4. d \in Court /\ "score" \in d.byHand
    BY <2>3, HandIs
  <2> QED BY <1>1, <1>3, <2>4, OverHand
<1> QED BY <1>2, <1>3

LEMMA WalkoverStep == ASSUME Inv, NEW s \in Slot, Walkover(s) PROVE Inv' /\ SheetStep
<1>0. court \in Court
  BY DEF Inv, Good
<1> DEFINE c == [court EXCEPT !.winner = s]
           d == Hand(c, {"score", "ends"})
<1>1. Step(IF InPlay(court) THEN d ELSE court)
  BY DEF Walkover
<1>2. c \in Court
  BY <1>0 DEF Court
<1> HIDE DEF c
<1>3. d \in Court /\ "score" \in d.byHand
  BY <1>2, HandIs
<1> QED BY <1>1, <1>3, NoStep, OverHand

LEMMA FinishStep == ASSUME Inv, Finish PROVE Inv' /\ SheetStep
<1>0. court \in Court
  BY DEF Inv, Good
<1> DEFINE w == Ahead(court)
           wons == [court.won EXCEPT ![w] = IF court.won[1] = court.won[2] THEN @ + 1 ELSE @]
           noted == IF Total(court) = 0 THEN court
                    ELSE [court EXCEPT !.sets = Append(@, court.points),
                                       !.won[w] = IF court.won[1] = court.won[2]
                                                  THEN @ + 1 ELSE @,
                                       !.points = NoPoints]
           c == [noted EXCEPT !.winner = w]
           d == Hand(c, {"score", "ends"})
<1>1. Step(IF InPlay(court) /\ w # 0 THEN d ELSE court)
  BY DEF Finish
<1>2. CASE ~(InPlay(court) /\ w # 0)
  BY <1>1, <1>2, NoStep
<1>3. CASE InPlay(court) /\ w # 0
  <2>1. w \in Slot
    BY <1>3 DEF Ahead, Leader, Slot
  <2> HIDE DEF w
  <2>2. /\ wons \in SetScore /\ NoPoints \in SetScore
        /\ Append(court.sets, court.points) \in Seq(SetScore)
    BY <1>0, <2>1 DEF Court, SetScore, NoPoints
  <2>3. CASE Total(court) = 0
    BY <1>0, <1>1, <1>3, <2>1, <2>3, HandIs, OverHand DEF Court
  <2>4. CASE Total(court) # 0
    <3>1. noted = [court EXCEPT !.sets = Append(court.sets, court.points),
                                !.won = wons, !.points = NoPoints]
      BY <2>4, <1>0 DEF Court
    <3> HIDE DEF wons, noted
    <3>2. noted \in Court
      BY <1>0, <2>2, <3>1 DEF Court
    <3>3. c \in Court
      BY <2>1, <3>2 DEF Court
    <3> HIDE DEF c
    <3>4. d \in Court /\ "score" \in d.byHand
      BY <3>3, HandIs
    <3> QED BY <1>1, <1>3, <3>4, OverHand
  <2> QED BY <2>3, <2>4
<1> QED BY <1>2, <1>3

(* A court that differs in its service and its ends only. *)
LEMMA SameSheet ==
    ASSUME Inv, NEW d \in Court, d.points = court.points, d.won = court.won,
           d.sets = court.sets, d.winner = court.winner, d.bestOf = court.bestOf,
           "score" \in d.byHand <=> "score" \in court.byHand, Step(d)
    PROVE  Inv' /\ SheetStep
<1>1. d \in Good
  BY DEF Inv, Good, InPlay, SetsNeeded
<1>2. SheetOf(d) = SheetOf(court)
  BY DEF SheetOf, SiteScore, FreeHand, InPlay, Untouched, Total
<1> QED BY <1>1, <1>2, Aside

LEMMA ServeStep == ASSUME Inv, NEW side \in {0} \cup Slot, Serve(side) PROVE Inv' /\ SheetStep
<1>0. court \in Court
  BY DEF Inv, Good
<1> DEFINE next == [court EXCEPT !.server = side, !.starter = side]
           named == [next EXCEPT !.byHand = @ \ {"service"}]
           hand == Hand(next, {"service"})
<1>1. /\ next \in Court /\ next.points = court.points /\ next.won = court.won
      /\ next.sets = court.sets /\ next.winner = court.winner
      /\ next.bestOf = court.bestOf /\ next.byHand = court.byHand
  BY <1>0 DEF Court
<1>2. Step(court) \/ Step(named) \/ Step(hand)
  BY DEF Serve
<1> HIDE DEF next
<1>3. CASE Step(named)
  <2>1. /\ named \in Court /\ named.points = court.points /\ named.won = court.won
        /\ named.sets = court.sets /\ named.winner = court.winner
        /\ named.bestOf = court.bestOf /\ named.byHand = court.byHand \ {"service"}
    BY <1>1 DEF Court
  <2> HIDE DEF named
  <2> QED BY <1>3, <2>1, SameSheet
<1>4. CASE Step(hand)
  <2>1. hand \in Court /\ hand.byHand = court.byHand \cup {"service"}
    BY <1>1, HandIs
  <2>2. /\ hand.points = court.points /\ hand.won = court.won
        /\ hand.sets = court.sets /\ hand.winner = court.winner
        /\ hand.bestOf = court.bestOf
    BY <1>1 DEF Hand
  <2> HIDE DEF hand
  <2> QED BY <1>4, <2>1, <2>2, SameSheet
<1> QED BY <1>2, <1>3, <1>4, NoStep

LEMMA SwapStep == ASSUME Inv, Swap PROVE Inv' /\ SheetStep
<1>0. court \in Court
  BY DEF Inv, Good
<1> DEFINE c == [court EXCEPT !.swapped = ~@]
           d == Hand(c, {"ends"})
<1>1. /\ c \in Court /\ c.points = court.points /\ c.won = court.won /\ c.sets = court.sets
      /\ c.winner = court.winner /\ c.bestOf = court.bestOf /\ c.byHand = court.byHand
  BY <1>0 DEF Court
<1> HIDE DEF c
<1>2. d \in Court /\ d.byHand = court.byHand \cup {"ends"}
  BY <1>1, HandIs
<1>3. /\ d.points = court.points /\ d.won = court.won /\ d.sets = court.sets
      /\ d.winner = court.winner /\ d.bestOf = court.bestOf
  BY <1>1 DEF Hand
<1>4. Step(d)
  BY DEF Swap, c
<1> HIDE DEF d
<1> QED BY <1>2, <1>3, <1>4, SameSheet

LEMMA SetFormatStep == ASSUME Inv, NEW n \in Formats, SetFormat(n) PROVE Inv' /\ SheetStep
<1>0. court \in Good /\ court \in Court
  BY DEF Inv, Good
<1> DEFINE d == [court EXCEPT !.bestOf = n]
           hand == Hand(d, {"score", "ends"})
<1>1. /\ d \in Court /\ d.points = court.points /\ d.won = court.won /\ d.sets = court.sets
      /\ d.winner = court.winner /\ d.bestOf = n /\ d.byHand = court.byHand
  BY <1>0 DEF Court
<1>2. \/ Step(court)
      \/ Untouched(court) /\ InPlay(court) /\ Step(d)
      \/ Step(hand)
  BY DEF SetFormat
<1> HIDE DEF d
<1>3. CASE Step(hand)
  <2>1. hand \in Court /\ "score" \in hand.byHand
    BY <1>1, HandIs
  <2> QED BY <1>3, <2>1, OverHand
<1>4. CASE Untouched(court) /\ InPlay(court) /\ Step(d)
  <2>1. CASE "score" \in court.byHand
    BY <1>1, <1>4, <2>1, OverHand
  <2>2. CASE "score" \notin court.byHand
    <3>1. court.sets = <<>> /\ court.won = NoPoints /\ court.winner = 0
      BY <1>0, <1>4, <2>2 DEF Good, Untouched, InPlay
    <3>2. court.points = NoPoints
      <4>1. court.points \in [Slot -> Nat] /\ court.points[1] + court.points[2] = 0
        BY <1>0, <1>4 DEF Court, SetScore, Untouched, Total
      <4>2. court.points[1] = 0 /\ court.points[2] = 0
        BY <4>1 DEF Slot
      <4> QED BY <4>1, <4>2 DEF NoPoints, Slot
    <3>3. /\ d.points = ResetMatch(n).points /\ d.won = ResetMatch(n).won
          /\ d.sets = ResetMatch(n).sets /\ d.winner = ResetMatch(n).winner
          /\ d.bestOf = ResetMatch(n).bestOf
      BY <1>1, <3>1, <3>2 DEF ResetMatch
    <3>4. ResetMatch(n) \in Good /\ "score" \notin ResetMatch(n).byHand
      BY ResetIsGood DEF ResetMatch
    <3>5. d \in Good
      BY <1>1, <3>3, <3>4 DEF Good, InPlay, SetsNeeded
    <3>6. SiteScore(d) = SiteScore(ResetMatch(n)) /\ ~FreeHand(d)
      BY <1>1, <2>2, <3>3 DEF SiteScore, FreeHand, InPlay, Untouched, Total
    <3> QED BY <1>4, <3>5, <3>6, ResetIsInitial, AnewStep
  <2> QED BY <2>1, <2>2
<1> QED BY <1>2, <1>3, <1>4, NoStep

LEMMA AnewSteps ==
    ASSUME Inv, NewMatch \/ ResetAll \/ \E n \in Formats : Start(n)
    PROVE  Inv' /\ SheetStep
<1>1. PICK n \in Formats : Step(ResetMatch(n)) \/ Renewed(ResetMatch(n))
  <2>1. court.bestOf \in Formats
    BY DEF Inv, Good, Court
  <2> QED BY <2>1, BoardAssumption DEF NewMatch, ResetAll, Start, Empty
<1> QED BY <1>1, ResetIsGood, ResetIsInitial, AnewStep

LEMMA UndoStep == ASSUME Inv, Undo PROVE Inv' /\ SheetStep
<1>1. /\ undo \in Seq(Good) /\ Len(undo) <= MaxUndo /\ undo # <<>>
      /\ court' = undo[Len(undo)] /\ undo' = Popped(undo)
  BY DEF Inv, Undo
<1>2. Len(undo) \in Nat \ {0} /\ MaxUndo \in Nat
  BY <1>1, EmptySeq, BoardAssumption
<1>3. Len(undo) \in 1..Len(undo)
  BY <1>2
<1>4. court' \in Good
  BY <1>1, <1>3, ElementOfSeq
<1>5. /\ undo' \in Seq(Good) /\ Len(undo') = Len(undo) - 1
      /\ Shown(undo') = SubSeq(Shown(undo), 1, Len(Shown(undo)) - 1)
  BY <1>1, ShownPopped
<1>6. Inv'
  BY <1>1, <1>2, <1>4, <1>5 DEF Inv
<1>7. /\ Shown(undo) \in Seq(Rows) /\ Len(Shown(undo)) = Len(undo)
      /\ Shown(undo)[Len(undo)] = SheetOf(court')
  BY <1>1, <1>3, ShownIs
<1>8. Shown(undo) # <<>>
  BY <1>2, <1>7, EmptySeq
<1>9. Sheet!TakeBack
  BY <1>5, <1>7, <1>8, NewSheetIs DEF Sheet!TakeBack
<1> QED BY <1>6, <1>9 DEF SheetStep, Sheet!Next

----------------------------------------------------------------------------
(* The court as a whole *)

LEMMA InitInv == Init => Inv /\ Sheet!Init
<1> SUFFICES ASSUME Init PROVE Inv /\ Sheet!Init
  OBVIOUS
<1>1. court = ResetMatch(DefaultBestOf) /\ undo = <<>> /\ DefaultBestOf \in Formats
  BY BoardAssumption DEF Init, Empty
<1>2. court \in Good
  BY <1>1, ResetIsGood
<1>3. undo \in Seq(Good) /\ Len(undo) <= MaxUndo
  BY <1>1, EmptySeq, BoardAssumption
<1>4. court.bestOf = DefaultBestOf
  BY <1>1 DEF ResetMatch
<1>5. Shown(undo) = <<>>
  BY <1>1 DEF Shown
<1>6. SiteScore(court) = Sheet!InitialState /\ FreeHand(court) = FALSE
  BY <1>1, ResetIsInitial DEF FreeHand
<1>7. Sheet!Init
  BY <1>1, <1>4, <1>5, <1>6 DEF Sheet!Init
<1> QED BY <1>2, <1>3, <1>7 DEF Inv

(* Every operation keeps the invariant and is a step of the sheet, or none. *)
LEMMA NextStep == ASSUME Inv, [Next]_vars PROVE Inv' /\ SheetStep
<1>1. ASSUME NEW s \in Slot, Point(s) \/ Minus(s) \/ RedCard(s) \/ Walkover(s)
      PROVE  Inv' /\ SheetStep
  BY <1>1, PointStep, MinusStep, RedCardStep, WalkoverStep
<1>2. ASSUME NEW side \in {0} \cup Slot, Serve(side) PROVE Inv' /\ SheetStep
  BY <1>2, ServeStep
<1>3. ASSUME NEW n \in Formats, SetFormat(n) PROVE Inv' /\ SheetStep
  BY <1>3, SetFormatStep
<1>4. ASSUME NewMatch \/ ResetAll \/ \E n \in Formats : Start(n)
      PROVE  Inv' /\ SheetStep
  BY <1>4, AnewSteps
<1>5. CASE UNCHANGED vars
  <2>1. Inv'
    BY <1>5 DEF vars, Inv
  <2>2. UNCHANGED Sheet!vars
    BY <1>5, NewSheetIs DEF vars, Sheet!vars
  <2> QED BY <2>1, <2>2 DEF SheetStep
<1> QED BY <1>1, <1>2, <1>3, <1>4, <1>5, FinishStep, SwapStep, UndoStep DEF Next

(* The invariant: the court and all courts on the stack are good ones.     *)
THEOREM AlwaysGood == Spec => []Inv
<1>1. Init => Inv
  BY InitInv
<1>2. Inv /\ [Next]_vars => Inv'
  BY NextStep
<1> QED BY <1>1, <1>2, PTL DEF Spec

(* Every court, and every court that can be brought back, is one the       *)
(* program can show, and the stack never grows past its limit (apply).     *)
THEOREM BoardTypeOK == Spec => []TypeOK
<1>1. Inv => TypeOK
  <2> SUFFICES ASSUME Inv PROVE TypeOK
    OBVIOUS
  <2>1. Good \subseteq Court
    BY DEF Good
  <2>2. undo \in Seq(Court)
    BY <2>1, SeqMonotonic DEF Inv
  <2> QED BY <2>1, <2>2 DEF Inv, TypeOK
<1> QED BY <1>1, AlwaysGood, PTL

(* Through sets, penalties, corrections and undo, a court is a score sheet *)
(* kept by the engine of the site, whatever the length of a set, the lead, *)
(* the format and the depth of the stack (afterPoint, apply, resetMatch).  *)
THEOREM CourtKeepsTheSheet == Spec => KeepsTheSheet
<1>1. Init => Sheet!Init
  BY InitInv
<1>2. Inv /\ [Next]_vars => [Sheet!Next]_Sheet!vars
  BY NextStep DEF SheetStep
<1> QED BY <1>1, <1>2, AlwaysGood, PTL DEF Spec, KeepsTheSheet, Sheet!Spec

----------------------------------------------------------------------------
(* Service and ends *)

(* The numbers of the program's rules: its own (two points, the fifth      *)
(* point of eleven), up to a lead at which the service would no longer     *)
(* change with every point of a deuce.                                     *)
ByTheBook == ServeEvery = 2 /\ EndsAt < GamePoint /\ WinBy <= 3

(* How often the service has changed in a set. *)
Blocks(p) ==
    LET total == p[1] + p[2] IN
    IF Deuce(p) THEN (GamePoint - 1) + (total - 2 * (GamePoint - 1)) ELSE total \div 2
(* How often the ends have changed in a match, and whether the change of   *)
(* the last set is behind it.                                              *)
Unbroken(c) == IF InPlay(c) THEN 0 ELSE 1
Turned(c) == IF c.deciderDone THEN 1 ELSE 0
EndChanges(c) == Len(c.sets) - Unbroken(c) + Turned(c)
LastChange(c) ==
    \/ Len(c.sets) = c.bestOf - 1 /\ \E s \in Slot : c.points[s] >= EndsAt
    \/ Len(c.sets) = c.bestOf

Serves(c) ==
    /\ c.server = 0 <=> c.starter = 0
    /\ InPlay(c) /\ "service" \notin c.byHand =>
          /\ ~IsSetWon(c.points)
          /\ c.server # 0 => (c.server = c.starter <=> Blocks(c.points) % 2 = 0)
Counts(c) == "score" \notin c.byHand => Len(c.sets) = c.won[1] + c.won[2]
Changes(c) ==
    c.byHand \cap {"score", "ends"} = {} =>
        /\ c.deciderDone <=> LastChange(c)
        /\ c.swapped <=> EndChanges(c) % 2 = 1
Lawful == {c \in Good : Serves(c) /\ Counts(c) /\ Changes(c)}
LawfulInv == court \in Lawful /\ undo \in Seq(Lawful)

LEMMA Parity ==
    ASSUME NEW n \in Int
    PROVE  /\ n % 2 \in {0, 1} /\ (n + 1) % 2 = 1 - (n % 2)
           /\ n + 1 - 1 = n /\ (n - 1 + 1) = n
OBVIOUS

(* The service changes in every second point, and in every point of deuce. *)
LEMMA NextBlock ==
    ASSUME ByTheBook, NEW a \in Nat, NEW b \in Nat, NEW p \in SetScore, NEW q \in SetScore,
           p[1] = a, p[2] = b, ~IsSetWon(p),
           \/ q[1] = a + 1 /\ q[2] = b
           \/ q[1] = a /\ q[2] = b + 1
    PROVE  /\ Blocks(p) \in Int
           /\ Blocks(q) = Blocks(p) + (IF Deuce(q) \/ (q[1] + q[2]) % 2 = 0 THEN 1 ELSE 0)
<1> DEFINE g == GamePoint
<1>1. g \in Nat /\ g >= 1 /\ WinBy \in 1..3
  BY ScoringAssumption DEF ByTheBook
<1>2. /\ Deuce(p) <=> a >= g - 1 /\ b >= g - 1
      /\ Deuce(q) <=> q[1] >= g - 1 /\ q[2] >= g - 1
  BY DEF Deuce, Slot
<1>3. (a >= g \/ b >= g) => a - b < WinBy /\ b - a < WinBy
  BY <1>1 DEF IsSetWon
<1>4. /\ Deuce(p) => Blocks(p) = (g - 1) + (a + b - 2 * (g - 1))
      /\ ~Deuce(p) => Blocks(p) = (a + b) \div 2
      /\ Deuce(q) => Blocks(q) = (g - 1) + (a + b + 1 - 2 * (g - 1))
      /\ ~Deuce(q) => Blocks(q) = (a + b + 1) \div 2
      /\ q[1] + q[2] = a + b + 1
  <2>1. p[1] + p[2] = a + b /\ q[1] + q[2] = a + b + 1
    OBVIOUS
  <2>2. /\ Deuce(p) => Blocks(p) = (g - 1) + (p[1] + p[2]) - 2 * (g - 1)
        /\ ~Deuce(p) => Blocks(p) = (p[1] + p[2]) \div 2
        /\ Deuce(q) => Blocks(q) = (g - 1) + (q[1] + q[2]) - 2 * (g - 1)
        /\ ~Deuce(q) => Blocks(q) = (q[1] + q[2]) \div 2
    BY Zenon DEF Blocks
  <2> HIDE DEF g
  <2> QED BY <1>1, <2>1, <2>2
<1> HIDE DEF g
<1>5. PICK n \in Nat : a + b = n
  OBVIOUS
<1>6. CASE Deuce(p)
  <2>1. Deuce(q)
    BY <1>1, <1>2, <1>6
  <2> QED BY <1>1, <1>4, <1>6, <2>1
<1>7. CASE ~Deuce(p) /\ ~Deuce(q)
  BY <1>1, <1>4, <1>5, <1>7
<1>8. CASE ~Deuce(p) /\ Deuce(q)
  <2>1. \/ a = g - 2 /\ b >= g - 1 /\ b <= g
        \/ b = g - 2 /\ a >= g - 1 /\ a <= g
    BY <1>1, <1>2, <1>3, <1>8
  <2>2. a + b = 2 * g - 3 \/ a + b = 2 * g - 2
    BY <1>1, <2>1
  <2>3. CASE a + b = 2 * g - 3
    BY <1>1, <1>4, <1>8, <2>3
  <2>4. CASE a + b = 2 * g - 2
    BY <1>1, <1>4, <1>8, <2>4
  <2> QED BY <2>2, <2>3, <2>4
<1> QED BY <1>6, <1>7, <1>8

LEMMA ServerIs ==
    ASSUME NEW st, NEW first
    PROVE  ServerSlot(st, first) =
              IF (Blocks(st.cur) + Len(st.sets)) % 2 = 0 THEN first ELSE Opp(first)
BY Zenon DEF ServerSlot, Blocks

LEMMA Parities ==
    ASSUME NEW b \in Int, NEW n \in Int
    PROVE  /\ (b + n) % 2 = 0 <=> (b % 2 = n % 2)
           /\ n % 2 \in {0, 1} /\ b % 2 \in {0, 1}
OBVIOUS

(* What the site works out of the score, in terms of the set's opener.     *)
LEMMA LawfulFollows ==
    ASSUME court \in Lawful
    PROVE  CourtFollowsTheRules
<1>1. court \in Court /\ Serves(court) /\ Changes(court)
  BY DEF Lawful, Good
<1>2. ServesByTheRules
  <2> DEFINE opener == IF Len(court.sets) % 2 = 0 THEN court.starter ELSE Opp(court.starter)
             b == Blocks(court.points)
             n == Len(court.sets)
  <2> SUFFICES ASSUME InPlay(court), court.server # 0, "service" \notin court.byHand
               PROVE  court.server = ServerSlot(SiteScore(court), opener)
    BY DEF ServesByTheRules
  <2>1. /\ court.server \in Slot /\ court.starter \in Slot
        /\ court.server = court.starter <=> b % 2 = 0
    BY <1>1 DEF Serves, Court
  <2>2. SiteScore(court).cur = court.points /\ SiteScore(court).sets = court.sets
    BY DEF SiteScore
  <2>3. ServerSlot(SiteScore(court), opener) = IF (b + n) % 2 = 0 THEN opener ELSE Opp(opener)
    <3> HIDE DEF opener
    <3> QED BY <2>2, ServerIs
  <2>4. n \in Nat /\ b \in Int
    <3>1. court.points[1] \in Nat /\ court.points[2] \in Nat /\ court.sets \in Seq(SetScore)
      BY <1>1 DEF Court, SetScore, Slot
    <3> QED BY <3>1, ScoringAssumption DEF Blocks
  <2> HIDE DEF b
  <2>5. /\ (b + n) % 2 = 0 <=> (b % 2 = n % 2)
        /\ n % 2 \in {0, 1} /\ b % 2 \in {0, 1}
    <3> HIDE DEF n
    <3> QED BY <2>4, Parities
  <2>7. opener = IF n % 2 = 0 THEN court.starter ELSE Opp(court.starter)
    OBVIOUS
  <2> HIDE DEF n, opener
  <2>8. Opp(Opp(court.starter)) = court.starter /\ Opp(court.starter) \in Slot
        /\ \A s \in Slot : s # court.starter => s = Opp(court.starter)
    BY <2>1 DEF Opp, Slot
  <2> QED BY <2>1, <2>3, <2>5, <2>7, <2>8
<1>3. EndsByTheRules
  <2> SUFFICES ASSUME court.byHand \cap {"score", "ends"} = {}
               PROVE  EndsByTheRules
    BY DEF EndsByTheRules
  <2>1. /\ court.deciderDone \in BOOLEAN /\ court.swapped \in BOOLEAN
        /\ court.deciderDone <=> LastChange(court)
        /\ court.swapped <=> EndChanges(court) % 2 = 1
    BY <1>1 DEF Changes, Court
  <2>2. court.deciderDone = LastChange(court)
    BY <2>1 DEF LastChange
  <2>3. court.swapped = (EndChanges(court) % 2 = 1)
    BY <2>1
  <2> QED BY <2>2, <2>3, Zenon DEF EndsByTheRules, LastChange, EndChanges, Unbroken, Turned
<1> QED BY <1>2, <1>3 DEF CourtFollowsTheRules

LEMMA ResetIsLawful == ASSUME ByTheBook, NEW n \in Formats PROVE ResetMatch(n) \in Lawful
<1> DEFINE c == ResetMatch(n)
<1>1. /\ c.points = NoPoints /\ c.won = NoPoints /\ c.sets = <<>> /\ c.winner = 0
      /\ c.server = 0 /\ c.starter = 0 /\ c.swapped = FALSE /\ c.deciderDone = FALSE
      /\ c.bestOf = n /\ c.byHand = {} /\ c \in Good
  BY ResetIsGood DEF ResetMatch
<1> HIDE DEF c
<1>2. n \in Nat /\ n % 2 = 1 /\ EndsAt \in Nat \ {0} /\ GamePoint \in Nat \ {0} /\ WinBy \in Nat \ {0}
  BY BoardAssumption, ScoringAssumption
<1>3. Len(c.sets) = 0 /\ c.won[1] = 0 /\ c.won[2] = 0 /\ c.points[1] = 0 /\ c.points[2] = 0
  BY <1>1 DEF NoPoints, Slot
<1>4. Serves(c)
  BY <1>1, <1>2, <1>3 DEF Serves, IsSetWon
<1>5. Counts(c)
  BY <1>3 DEF Counts
<1>6. Changes(c)
  <2>1. ~LastChange(c)
    BY <1>1, <1>2, <1>3 DEF LastChange, Slot
  <2>2. EndChanges(c) = 0
    BY <1>1, <1>3 DEF EndChanges, Unbroken, Turned, InPlay
  <2> QED BY <1>1, <2>1, <2>2 DEF Changes
<1> QED BY <1>1, <1>4, <1>5, <1>6 DEF Lawful, c

(* The set that has just begun is served by its opener. *)
LEMMA FreshSet ==
    /\ ~IsSetWon(NoPoints) /\ Blocks(NoPoints) = 0
    /\ \A s \in Slot : NoPoints[s] = 0
<1>1. NoPoints[1] = 0 /\ NoPoints[2] = 0
  BY DEF NoPoints, Slot
<1>2. GamePoint \in Nat \ {0} /\ WinBy \in Nat \ {0}
  BY ScoringAssumption
<1>3. Deuce(NoPoints) => GamePoint = 1
  BY <1>1, <1>2 DEF Deuce, Slot
<1>4. Blocks(NoPoints) = 0
  <2>1. Deuce(NoPoints) => Blocks(NoPoints) = (GamePoint - 1) + (NoPoints[1] + NoPoints[2]) - 2 * (GamePoint - 1)
    BY Zenon DEF Blocks
  <2>2. ~Deuce(NoPoints) => Blocks(NoPoints) = (NoPoints[1] + NoPoints[2]) \div 2
    BY Zenon DEF Blocks
  <2> QED BY <1>1, <1>2, <1>3, <2>1, <2>2
<1> QED BY <1>1, <1>2, <1>4 DEF IsSetWon, Slot

(* A point that does not win the set: the ends may change, and the service.*)
LEMMA RallyIs ==
    ASSUME NEW c \in Court, NEW s \in Slot,
           ~IsSetWon([c.points EXCEPT ![s] = @ + 1])
    PROVE  LET d == Scored(c, s)
               p == [c.points EXCEPT ![s] = @ + 1]
               up == [c EXCEPT !.points[s] = @ + 1]
               turn == Decider(c) /\ ~c.deciderDone /\ \E t \in Slot : p[t] >= EndsAt IN
           /\ d \in Court /\ d.points = p /\ d.won = c.won /\ d.sets = c.sets
           /\ d.winner = c.winner /\ d.bestOf = c.bestOf /\ d.byHand = c.byHand
           /\ d.starter = c.starter
           /\ d.deciderDone = (IF turn THEN TRUE ELSE c.deciderDone)
           /\ d.swapped = (IF turn THEN ~c.swapped ELSE c.swapped)
           /\ d.server = IF c.server # 0 /\ (Deuce(p) \/ (p[1] + p[2]) % ServeEvery = 0)
                         THEN Opp(c.server) ELSE c.server
<1> DEFINE p == [c.points EXCEPT ![s] = @ + 1]
           up == [c EXCEPT !.points[s] = @ + 1]
           turn == Decider(c) /\ ~c.deciderDone /\ \E t \in Slot : p[t] >= EndsAt
           mid == ChangeEnds(up)
           d == HandService(mid)
<1>1. /\ up \in Court /\ up.points = p /\ up.won = c.won /\ up.sets = c.sets
      /\ up.winner = c.winner /\ up.bestOf = c.bestOf /\ up.byHand = c.byHand
      /\ up.starter = c.starter /\ up.server = c.server /\ up.swapped = c.swapped
      /\ up.deciderDone = c.deciderDone
  <2>1. up \in Court
    BY ScoredIs
  <2> QED BY <2>1 DEF Court
<1>2. Scored(c, s) = d
  <2>1. ~\E t \in Slot : Wins(up, t)
    BY <1>1, SetWinner
  <2> QED BY <2>1 DEF Scored, AfterPoint
<1> HIDE DEF p, up
<1>3. Decider(up) <=> Decider(c)
  BY <1>1 DEF Decider, SetsNeeded
<1>4. /\ mid \in Court /\ mid.points = p /\ mid.won = c.won /\ mid.sets = c.sets
      /\ mid.winner = c.winner /\ mid.bestOf = c.bestOf /\ mid.byHand = c.byHand
      /\ mid.starter = c.starter /\ mid.server = c.server
      /\ mid.deciderDone = (IF turn THEN TRUE ELSE c.deciderDone)
      /\ mid.swapped = (IF turn THEN ~c.swapped ELSE c.swapped)
  <2>1. mid = IF turn THEN [up EXCEPT !.deciderDone = TRUE, !.swapped = ~up.swapped] ELSE up
    BY <1>1, <1>3 DEF ChangeEnds
  <2> HIDE DEF mid
  <2>2. CASE turn
    BY <1>1, <2>1, <2>2 DEF Court
  <2>3. CASE ~turn
    BY <1>1, <2>1, <2>3
  <2> QED BY <2>2, <2>3
<1> HIDE DEF mid, turn
<1>5. /\ d \in Court /\ d.points = p /\ d.won = c.won /\ d.sets = c.sets
      /\ d.winner = c.winner /\ d.bestOf = c.bestOf /\ d.byHand = c.byHand
      /\ d.starter = c.starter
      /\ d.deciderDone = mid.deciderDone /\ d.swapped = mid.swapped
      /\ d.server = IF c.server # 0 /\ (Deuce(p) \/ (p[1] + p[2]) % ServeEvery = 0)
                    THEN Opp(c.server) ELSE c.server
  <2>1. ServiceChanges(mid) <=> (Deuce(p) \/ (p[1] + p[2]) % ServeEvery = 0)
    BY <1>4 DEF ServiceChanges, Total
  <2>2. d = IF mid.server # 0 /\ ServiceChanges(mid)
            THEN [mid EXCEPT !.server = Opp(mid.server)] ELSE mid
    BY DEF HandService
  <2>3. Opp(mid.server) \in Slot
    BY DEF Opp, Slot
  <2> HIDE DEF d
  <2> QED BY <1>4, <2>1, <2>2, <2>3 DEF Court
<1> QED BY <1>2, <1>4, <1>5, Zenon DEF p, turn

(* A point that wins the set: it may win the match; if not, the ends change*)
(* and the other player opens the next one.                                *)
LEMMA SetPointIs ==
    ASSUME NEW c \in Court, NEW s \in Slot,
           IsSetWon([c.points EXCEPT ![s] = @ + 1])
    PROVE  LET d == Scored(c, s)
               p == [c.points EXCEPT ![s] = @ + 1]
               w == Leader(p)
               over == c.won[w] + 1 >= SetsNeeded(c) IN
           /\ d \in Court /\ d.points = NoPoints /\ d.won = [c.won EXCEPT ![w] = @ + 1]
           /\ d.sets = Append(c.sets, p) /\ w \in Slot
           /\ d.winner = (IF over THEN w ELSE c.winner)
           /\ d.bestOf = c.bestOf /\ d.byHand = c.byHand
           /\ d.deciderDone = c.deciderDone
           /\ d.swapped = (IF over THEN c.swapped ELSE ~c.swapped)
           /\ ~over => IF c.starter = 0 THEN d.starter = 0 /\ d.server = c.server
                       ELSE d.starter = Opp(c.starter) /\ d.server = Opp(c.starter)
           /\ over => d.starter = c.starter /\ d.server = c.server
<1> DEFINE p == [c.points EXCEPT ![s] = @ + 1]
           up == [c EXCEPT !.points[s] = @ + 1]
           w == Leader(p)
           over == c.won[w] + 1 >= SetsNeeded(c)
           wons == [c.won EXCEPT ![w] = @ + 1]
           counted == [up EXCEPT !.won[w] = @ + 1, !.sets = Append(@, up.points),
                                 !.points = NoPoints]
           swap == [counted EXCEPT !.swapped = ~@]
<1>1. /\ up \in Court /\ up.points = p /\ up.won = c.won /\ up.sets = c.sets
      /\ up.winner = c.winner /\ up.bestOf = c.bestOf /\ up.byHand = c.byHand
      /\ up.starter = c.starter /\ up.server = c.server /\ up.swapped = c.swapped
      /\ up.deciderDone = c.deciderDone
  <2>1. up \in Court
    BY ScoredIs
  <2> QED BY <2>1 DEF Court
<1>2. w \in Slot /\ wons[w] = c.won[w] + 1 /\ wons \in SetScore
  <2>1. w \in Slot
    BY DEF Leader, Slot
  <2> HIDE DEF w
  <2> QED BY <2>1 DEF Court, SetScore
<1>3. Scored(c, s) = SetOver(up, w)
  <2>1. IsSetWon(up.points)
    BY <1>1
  <2>2. PICK t \in Slot : Wins(up, t)
    BY <1>1, <2>1, SetWinner
  <2>3. \A t_1 \in Slot : Wins(up, t_1) => t_1 = w
    BY <1>1, SetWinner
  <2> HIDE DEF w, up
  <2>4. (CHOOSE t_1 \in Slot : Wins(up, t_1)) = w
    BY <2>2, <2>3
  <2> QED BY <2>2, <2>4 DEF Scored, AfterPoint, up
<1> HIDE DEF p, up, w
<1>4. /\ counted \in Court /\ counted.points = NoPoints /\ counted.won = wons
      /\ counted.sets = Append(c.sets, p)
      /\ counted.winner = c.winner /\ counted.bestOf = c.bestOf /\ counted.byHand = c.byHand
      /\ counted.starter = c.starter /\ counted.server = c.server
      /\ counted.swapped = c.swapped /\ counted.deciderDone = c.deciderDone
  <2>1. NoPoints \in SetScore /\ Append(c.sets, p) \in Seq(SetScore)
    BY <1>1 DEF NoPoints, SetScore, Court
  <2>2. counted = [up EXCEPT !.won = wons, !.sets = Append(c.sets, p), !.points = NoPoints]
    BY <1>1 DEF Court
  <2> HIDE DEF counted, wons
  <2> QED BY <1>1, <1>2, <2>1, <2>2 DEF Court
<1>5. SetOver(up, w) = IF over THEN [counted EXCEPT !.winner = w] ELSE OpenedByReceiver(swap)
  BY <1>1, <1>2, <1>4 DEF SetOver, SetsNeeded
<1> HIDE DEF counted, wons
<1>6. CASE over
  <2>1. Scored(c, s) = [counted EXCEPT !.winner = w]
    BY <1>3, <1>5, <1>6
  <2> HIDE DEF over
  <2> QED BY <1>2, <1>4, <1>6, <2>1 DEF Court, p, w, wons, over
<1>7. CASE ~over
  <2>1. Scored(c, s) = OpenedByReceiver(swap)
    BY <1>3, <1>5, <1>7
  <2>2. /\ swap \in Court /\ swap.swapped = ~c.swapped
        /\ swap.points = NoPoints /\ swap.won = wons
        /\ swap.sets = Append(c.sets, p)
        /\ swap.winner = c.winner /\ swap.bestOf = c.bestOf /\ swap.byHand = c.byHand
        /\ swap.starter = c.starter /\ swap.server = c.server
        /\ swap.deciderDone = c.deciderDone
    BY <1>4 DEF Court
  <2> HIDE DEF swap
  <2>3. Opp(c.starter) \in Slot
    BY DEF Opp, Slot
  <2>4. OpenedByReceiver(swap) = IF c.starter = 0 THEN swap
            ELSE [swap EXCEPT !.starter = Opp(c.starter), !.server = Opp(c.starter)]
    BY <2>2 DEF OpenedByReceiver, Court
  <2> DEFINE d == OpenedByReceiver(swap)
  <2>5. d \in Court /\ d.swapped = ~c.swapped
        /\ d.points = NoPoints /\ d.won = wons
        /\ d.sets = Append(c.sets, p)
        /\ d.winner = c.winner /\ d.bestOf = c.bestOf /\ d.byHand = c.byHand
        /\ d.deciderDone = c.deciderDone
    <3>1. CASE c.starter = 0
      BY <2>2, <2>4, <3>1
    <3>2. CASE c.starter # 0
      <4>1. d = [swap EXCEPT !.starter = Opp(c.starter), !.server = Opp(c.starter)]
        BY <2>4, <3>2
      <4> HIDE DEF d
      <4> QED BY <2>2, <2>3, <4>1 DEF Court
    <3> QED BY <3>1, <3>2
  <2>6. IF c.starter = 0 THEN d.starter = 0 /\ d.server = c.server
        ELSE d.starter = Opp(c.starter) /\ d.server = Opp(c.starter)
    BY <2>2, <2>4 DEF Court
  <2> HIDE DEF d, over
  <2> QED BY <1>2, <1>7, <2>1, <2>5, <2>6 DEF d, p, w, wons, over
<1> QED BY <1>6, <1>7

(* In play, nobody has the sets it takes: the last set that can be played  *)
(* is the one in which both have one less, and no set comes after it.      *)
LEMMA LastSet ==
    ASSUME NEW c \in Lawful, InPlay(c), "score" \notin c.byHand
    PROVE  /\ Len(c.sets) < c.bestOf
           /\ Decider(c) <=> Len(c.sets) = c.bestOf - 1
           /\ SetsNeeded(c) \in Nat /\ c.bestOf = 2 * SetsNeeded(c) - 1
           /\ c.won[1] \in Nat /\ c.won[2] \in Nat /\ Len(c.sets) = c.won[1] + c.won[2]
<1>1. c.bestOf \in Nat /\ c.bestOf % 2 = 1
  BY BoardAssumption DEF Lawful, Good, Court
<1>2. /\ c.won[1] \in Nat /\ c.won[2] \in Nat /\ Len(c.sets) = c.won[1] + c.won[2]
      /\ c.won[1] < SetsNeeded(c) /\ c.won[2] < SetsNeeded(c)
  BY DEF Lawful, Good, Court, Counts, SetScore, Slot
<1>3. SetsNeeded(c) \in Nat /\ c.bestOf = 2 * SetsNeeded(c) - 1
  BY <1>1 DEF SetsNeeded
<1>4. Decider(c) <=> c.won[1] = SetsNeeded(c) - 1 /\ c.won[2] = SetsNeeded(c) - 1
  BY DEF Decider, Slot
<1>5. Len(c.sets) < c.bestOf /\ (Decider(c) <=> Len(c.sets) = c.bestOf - 1)
  <2> DEFINE x == c.won[1]  y == c.won[2]  k == SetsNeeded(c)  l == Len(c.sets)
  <2>1. /\ x \in Nat /\ y \in Nat /\ k \in Nat /\ l = x + y /\ c.bestOf = 2 * k - 1
        /\ x < k /\ y < k
    BY <1>2, <1>3
  <2>2. Decider(c) <=> x = k - 1 /\ y = k - 1
    BY <1>4
  <2> HIDE DEF x, y, k, l
  <2>3. l < 2 * k - 1 /\ (l = 2 * k - 1 - 1 <=> x = k - 1 /\ y = k - 1)
    BY <2>1
  <2>4. l < c.bestOf /\ (Decider(c) <=> l = c.bestOf - 1)
    BY <2>1, <2>2, <2>3
  <2> QED BY <2>4 DEF l
<1> QED BY <1>2, <1>3, <1>5

LEMMA RallyIsLawful ==
    ASSUME ByTheBook, NEW c \in Lawful, InPlay(c), NEW s \in Slot,
           ~IsSetWon([c.points EXCEPT ![s] = @ + 1])
    PROVE  Scored(c, s) \in Lawful
<1> DEFINE d == Scored(c, s)
           p == [c.points EXCEPT ![s] = @ + 1]
           turn == Decider(c) /\ ~c.deciderDone /\ \E t \in Slot : p[t] >= EndsAt
<1>1. c \in Court /\ c \in Good /\ d \in Good
  BY ScoredIsAPoint DEF Lawful, Good
<1>2. /\ d \in Court /\ d.points = p /\ d.won = c.won /\ d.sets = c.sets
      /\ d.winner = c.winner /\ d.bestOf = c.bestOf /\ d.byHand = c.byHand
      /\ d.starter = c.starter
      /\ d.deciderDone = (IF turn THEN TRUE ELSE c.deciderDone)
      /\ d.swapped = (IF turn THEN ~c.swapped ELSE c.swapped)
      /\ d.server = IF c.server # 0 /\ (Deuce(p) \/ (p[1] + p[2]) % ServeEvery = 0)
                    THEN Opp(c.server) ELSE c.server
  BY <1>1, RallyIs
<1>3. /\ c.points \in SetScore /\ c.points[1] \in Nat /\ c.points[2] \in Nat /\ p \in SetScore
      /\ \/ p[1] = c.points[1] + 1 /\ p[2] = c.points[2]
         \/ p[1] = c.points[1] /\ p[2] = c.points[2] + 1
  BY <1>1 DEF Court, SetScore, Slot
<1>4. ~IsSetWon(p)
  OBVIOUS
<1>5. c.winner = 0 /\ InPlay(d)
  BY <1>2 DEF InPlay
<1>6. c.server \in {0} \cup Slot /\ c.starter \in {0} \cup Slot /\ (c.server = 0 <=> c.starter = 0)
  BY <1>1 DEF Lawful, Serves, Court
<1> HIDE DEF d, p, turn
<1>7. \A t \in Slot : Opp(t) \in Slot /\ Opp(t) # t /\ \A u \in Slot : u # t => u = Opp(t)
  BY DEF Opp, Slot
<1>8. Serves(d)
  <2>1. d.server = 0 <=> d.starter = 0
    BY <1>2, <1>6, <1>7 DEF Slot
  <2>2. ASSUME "service" \notin d.byHand, d.server # 0
        PROVE  d.server = d.starter <=> Blocks(d.points) % 2 = 0
    <3>1. c.server \in Slot /\ c.starter \in Slot /\ c.server # 0
      BY <1>2, <1>6, <2>2
    <3>2. ~IsSetWon(c.points) /\ (c.server = c.starter <=> Blocks(c.points) % 2 = 0)
      BY <1>2, <2>2, <3>1 DEF Lawful, Serves
    <3>3. /\ Blocks(c.points) \in Int
          /\ Blocks(p) = Blocks(c.points) + (IF Deuce(p) \/ (p[1] + p[2]) % 2 = 0 THEN 1 ELSE 0)
      BY <1>3, <3>2, NextBlock
    <3>4. CASE Deuce(p) \/ (p[1] + p[2]) % 2 = 0
      <4>1. d.server = Opp(c.server)
        BY <1>2, <3>1, <3>4 DEF ByTheBook
      <4>2. Blocks(p) = Blocks(c.points) + 1
        BY <3>3, <3>4
      <4>3. Blocks(p) % 2 = 1 - (Blocks(c.points) % 2) /\ Blocks(c.points) % 2 \in {0, 1}
        BY <3>3, <4>2, Parity
      <4>4. Blocks(p) % 2 = 0 <=> ~(Blocks(c.points) % 2 = 0)
        BY <4>3
      <4> QED BY <1>2, <1>7, <3>1, <3>2, <4>1, <4>4
    <3>5. CASE ~(Deuce(p) \/ (p[1] + p[2]) % 2 = 0)
      <4>1. d.server = c.server
        BY <1>2, <3>5 DEF ByTheBook
      <4>2. Blocks(p) = Blocks(c.points)
        BY <3>3, <3>5
      <4> QED BY <1>2, <3>2, <4>1, <4>2
    <3> QED BY <3>4, <3>5
  <2> QED BY <1>2, <1>4, <2>1, <2>2 DEF Serves
<1>9. Counts(d)
  BY <1>2 DEF Lawful, Counts
<1>10. Changes(d)
  <2> SUFFICES ASSUME c.byHand \cap {"score", "ends"} = {}
               PROVE  /\ d.deciderDone <=> LastChange(d)
                      /\ d.swapped <=> EndChanges(d) % 2 = 1
    BY <1>2 DEF Changes
  <2>1. /\ c.deciderDone <=> LastChange(c)
        /\ c.swapped <=> EndChanges(c) % 2 = 1
        /\ c.deciderDone \in BOOLEAN /\ c.swapped \in BOOLEAN
    BY <1>1 DEF Lawful, Changes, Court
  <2>2. /\ Len(c.sets) < c.bestOf /\ Len(c.sets) \in Nat /\ c.bestOf \in Nat
        /\ Decider(c) <=> Len(c.sets) = c.bestOf - 1
    BY <1>1, BoardAssumption, LastSet DEF Court
  <2>3. LastChange(d) <=> Decider(c) /\ \E t \in Slot : p[t] >= EndsAt
    BY <1>2, <2>2 DEF LastChange
  <2>4. LastChange(c) <=> Decider(c) /\ \E t \in Slot : c.points[t] >= EndsAt
    BY <2>2 DEF LastChange
  <2>5. LastChange(c) => LastChange(d)
    <3>1. EndsAt \in Nat /\ \A t \in Slot : p[t] >= c.points[t] /\ p[t] \in Nat /\ c.points[t] \in Nat
      BY <1>3, BoardAssumption DEF Slot
    <3> QED BY <2>3, <2>4, <3>1
  <2>6. turn <=> ~c.deciderDone /\ LastChange(d)
    BY <2>3 DEF turn
  <2>7. EndChanges(c) = Len(c.sets) + Turned(c)
    BY <2>2, <1>5 DEF EndChanges, Unbroken, Turned, InPlay
  <2>8. EndChanges(d) = Len(c.sets) + Turned(d)
    BY <2>2, <1>2, <1>5 DEF EndChanges, Unbroken, Turned
  <2>9. CASE turn
    <3>1. EndChanges(d) = EndChanges(c) + 1 /\ EndChanges(c) \in Int
      <4>1. d.deciderDone = TRUE /\ c.deciderDone = FALSE
        BY <1>2, <2>1, <2>6, <2>9
      <4>2. Turned(d) = 1 /\ Turned(c) = 0
        BY <4>1 DEF Turned
      <4> QED BY <2>2, <2>7, <2>8, <4>2
    <3>2. EndChanges(d) % 2 = 1 <=> ~(EndChanges(c) % 2 = 1)
      <4>1. EndChanges(d) % 2 = 1 - (EndChanges(c) % 2) /\ EndChanges(c) % 2 \in {0, 1}
        BY <3>1, Parity
      <4> QED BY <4>1
    <3> QED BY <1>2, <2>1, <2>6, <2>9, <3>2
  <2>10. CASE ~turn
    <3>1. d.deciderDone = c.deciderDone /\ d.swapped = c.swapped
      BY <1>2, <2>10
    <3>2. EndChanges(d) = EndChanges(c)
      BY <2>7, <2>8, <3>1 DEF Turned
    <3> QED BY <2>1, <2>5, <2>6, <2>10, <3>1, <3>2
  <2> QED BY <2>9, <2>10
<1> QED BY <1>1, <1>8, <1>9, <1>10 DEF Lawful, d

LEMMA SetPointIsLawful ==
    ASSUME ByTheBook, NEW c \in Lawful, InPlay(c), NEW s \in Slot,
           IsSetWon([c.points EXCEPT ![s] = @ + 1])
    PROVE  Scored(c, s) \in Lawful
<1> DEFINE d == Scored(c, s)
           p == [c.points EXCEPT ![s] = @ + 1]
           w == Leader(p)
           over == c.won[w] + 1 >= SetsNeeded(c)
<1>1. c \in Court /\ c \in Good /\ d \in Good
  BY ScoredIsAPoint DEF Lawful, Good
<1>2. /\ d \in Court /\ d.points = NoPoints /\ d.won = [c.won EXCEPT ![w] = @ + 1]
      /\ d.sets = Append(c.sets, p) /\ w \in Slot
      /\ d.winner = (IF over THEN w ELSE c.winner)
      /\ d.bestOf = c.bestOf /\ d.byHand = c.byHand
      /\ d.deciderDone = c.deciderDone
      /\ d.swapped = (IF over THEN c.swapped ELSE ~c.swapped)
      /\ ~over => IF c.starter = 0 THEN d.starter = 0 /\ d.server = c.server
                  ELSE d.starter = Opp(c.starter) /\ d.server = Opp(c.starter)
      /\ over => d.starter = c.starter /\ d.server = c.server
  BY <1>1, SetPointIs
<1>3. /\ c.points[1] \in Nat /\ c.points[2] \in Nat
      /\ c.won \in [Slot -> Nat] /\ c.sets \in Seq(SetScore)
      /\ \/ p[1] = c.points[1] + 1 /\ p[2] = c.points[2]
         \/ p[1] = c.points[1] /\ p[2] = c.points[2] + 1
  BY <1>1 DEF Court, SetScore, Slot
<1>4. p[1] >= GamePoint \/ p[2] >= GamePoint
  BY DEF IsSetWon
<1>5. Len(d.sets) = Len(c.sets) + 1 /\ Len(c.sets) \in Nat
  BY <1>2, <1>3
<1>6. c.winner = 0 /\ (InPlay(d) <=> ~over)
  BY <1>2 DEF InPlay, Slot
<1>7. c.server \in {0} \cup Slot /\ c.starter \in {0} \cup Slot /\ (c.server = 0 <=> c.starter = 0)
  BY <1>1 DEF Lawful, Serves, Court
<1> HIDE DEF d, p, w, over
<1>8. Serves(d)
  <2>1. \A t \in {0} \cup Slot : Opp(t) \in Slot
    BY DEF Opp, Slot
  <2>2. d.server = 0 <=> d.starter = 0
    BY <1>2, <1>7, <2>1 DEF Slot
  <2>3. InPlay(d) => (d.server # 0 => d.server = d.starter)
    BY <1>2, <1>6, <1>7
  <2> QED BY <1>2, <2>2, <2>3, FreshSet DEF Serves
<1>9. "score" \notin c.byHand => Len(d.sets) = d.won[1] + d.won[2]
  <2>1. d.won[1] + d.won[2] = c.won[1] + c.won[2] + 1
    BY <1>2, <1>3 DEF Slot
  <2> QED BY <1>5, <2>1 DEF Lawful, Counts
<1>10. Changes(d)
  <2> SUFFICES ASSUME c.byHand \cap {"score", "ends"} = {}
               PROVE  /\ d.deciderDone <=> LastChange(d)
                      /\ d.swapped <=> EndChanges(d) % 2 = 1
    BY <1>2 DEF Changes
  <2>1. /\ c.deciderDone <=> LastChange(c)
        /\ c.swapped <=> EndChanges(c) % 2 = 1
        /\ c.deciderDone \in BOOLEAN /\ c.swapped \in BOOLEAN
    BY <1>1 DEF Lawful, Changes, Court
  <2>2. /\ Len(c.sets) < c.bestOf /\ c.bestOf \in Nat
        /\ Decider(c) <=> Len(c.sets) = c.bestOf - 1
        /\ SetsNeeded(c) \in Nat /\ c.bestOf = 2 * SetsNeeded(c) - 1
        /\ c.won[1] \in Nat /\ c.won[2] \in Nat /\ Len(c.sets) = c.won[1] + c.won[2]
    BY <1>1, BoardAssumption, LastSet DEF Court
  <2>3. GamePoint \in Nat /\ EndsAt \in Nat \ {0} /\ EndsAt < GamePoint
    BY ScoringAssumption, BoardAssumption DEF ByTheBook
  <2>4. \E t \in Slot : c.points[t] >= EndsAt
    <3>1. c.points[1] >= EndsAt \/ c.points[2] >= EndsAt
      BY <1>3, <1>4, <2>3
    <3> QED BY <3>1 DEF Slot
  <2>5. LastChange(c) <=> Decider(c)
    BY <1>5, <2>2, <2>4 DEF LastChange
  <2>6. ~(\E t \in Slot : d.points[t] >= EndsAt)
    BY <1>2, <2>3, FreshSet
  <2>7. LastChange(d) <=> Len(c.sets) = c.bestOf - 1
    <3>1. Len(d.sets) = Len(c.sets) + 1 /\ d.bestOf = c.bestOf /\ Len(c.sets) \in Nat
      BY <1>2, <1>5, <2>2
    <3>2. LastChange(d) <=> Len(d.sets) = d.bestOf
      BY <2>6 DEF LastChange
    <3> QED BY <2>2, <3>1, <3>2
  <2>8. EndChanges(c) = Len(c.sets) + Turned(c) /\ Turned(c) \in Int
    BY <1>5, <1>6 DEF EndChanges, Unbroken, Turned, InPlay
  <2>9. EndChanges(d) = Len(c.sets) + 1 - Unbroken(d) + Turned(c)
    <3>1. Turned(d) = Turned(c)
      BY <1>2 DEF Turned
    <3>2. Unbroken(d) \in Int /\ Turned(c) \in Int
      BY DEF Unbroken, Turned
    <3> QED BY <1>5, <3>1, <3>2 DEF EndChanges
  <2>10. CASE over
    <3>1. EndChanges(d) = EndChanges(c) /\ d.swapped = c.swapped
      <4>1. Unbroken(d) = 1
        BY <1>6, <2>10 DEF Unbroken
      <4> QED BY <1>2, <1>5, <2>8, <2>9, <2>10, <4>1
    <3> QED BY <1>2, <2>1, <2>2, <2>5, <2>7, <3>1
  <2>11. CASE ~over
    <3>1. EndChanges(d) = EndChanges(c) + 1 /\ EndChanges(c) \in Int
      <4>1. Unbroken(d) = 0
        BY <1>6, <2>11 DEF Unbroken
      <4> QED BY <1>5, <2>8, <2>9, <4>1
    <3>2. EndChanges(d) % 2 = 1 <=> ~(EndChanges(c) % 2 = 1)
      <4>1. EndChanges(d) % 2 = 1 - (EndChanges(c) % 2) /\ EndChanges(c) % 2 \in {0, 1}
        BY <3>1, Parity
      <4> QED BY <4>1
    <3>3. d.swapped = ~c.swapped
      BY <1>2, <2>11
    <3> QED BY <1>2, <2>1, <2>2, <2>5, <2>7, <3>2, <3>3
  <2> QED BY <2>10, <2>11
<1> QED BY <1>1, <1>2, <1>8, <1>9, <1>10 DEF Lawful, Counts, d

LEMMA PointIsLawful ==
    ASSUME ByTheBook, NEW c \in Lawful, InPlay(c), NEW s \in Slot
    PROVE  Scored(c, s) \in Lawful
BY RallyIsLawful, SetPointIsLawful

(* The stack keeps what it is given, or drops it. *)
LEMMA StackStays ==
    ASSUME NEW S, NEW u \in Seq(S), NEW c \in S
    PROVE  /\ Kept(Append(u, c)) \in Seq(S)
           /\ Popped(Kept(Append(u, c))) \in Seq(S)
<1> DEFINE v == Kept(Append(u, c))
<1>1. v \in Seq(S)
  BY AppendProperties, HeadTailProperties DEF Kept
<1>2. \A x \in Seq(S) : Popped(x) \in Seq(S)
  <2> TAKE x \in Seq(S)
  <2>1. Len(x) \in Nat /\ \A i \in 1..Len(x) : x[i] \in S
    BY LenProperties, ElementOfSeq
  <2>2. \A i \in 1..Len(x) - 1 : x[i] \in S
    BY <2>1
  <2>3. Len(x) - 1 \in Int
    BY <2>1
  <2> QED BY <2>2, <2>3, SubSeqProperties DEF Popped
<1> QED BY <1>1, <1>2

(* An operation that goes to a court by the rules, or does nothing.        *)
LEMMA ToLawful ==
    ASSUME LawfulInv, NEW d \in Lawful, Step(d) \/ Renewed(d)
    PROVE  LawfulInv'
BY StackStays DEF LawfulInv, Step, Renewed

LEMMA NotLawful ==
    ASSUME LawfulInv, Step(court)
    PROVE  LawfulInv'
BY StackStays DEF LawfulInv, Step

(* A court whose sets, points and ends are as they were, and whose service *)
(* has been named, or is as it was.                                        *)
LEMMA StaysLawful ==
    ASSUME NEW c \in Lawful, NEW d \in Good,
           d.points = c.points, d.won = c.won, d.sets = c.sets, d.winner = c.winner,
           d.bestOf = c.bestOf, d.deciderDone = c.deciderDone, d.swapped = c.swapped,
           c.byHand \cap {"score", "ends"} \subseteq d.byHand,
           Serves(d)
    PROVE  d \in Lawful
<1>1. EndChanges(d) = EndChanges(c) /\ LastChange(d) = LastChange(c)
  BY DEF EndChanges, LastChange, Unbroken, Turned, InPlay
<1>2. Counts(d)
  BY DEF Lawful, Counts
<1>3. Changes(d)
  BY <1>1 DEF Lawful, Changes
<1> QED BY <1>2, <1>3 DEF Lawful

(* A court that is the referee's own in all that the rules are about.      *)
LEMMA FreeIsLawful ==
    ASSUME NEW d \in Court, "score" \in d.byHand, "ends" \in d.byHand, Serves(d)
    PROVE  d \in Lawful
BY DEF Lawful, Good, Counts, Changes

LEMMA PenaltyIsLawful ==
    ASSUME ByTheBook, NEW c \in Lawful, NEW s \in Slot, NEW n \in 0..2
    PROVE  Penalised(c, s, n) \in Lawful
<1>1. \A e \in Lawful : OnePenalty(e, s) \in Lawful
  BY PointIsLawful DEF OnePenalty, PenaltyStops
<1>2. OnePenalty(c, s) \in Lawful /\ OnePenalty(OnePenalty(c, s), s) \in Lawful
  BY <1>1
<1>3. n = 0 \/ n = 1 \/ n = 2
  OBVIOUS
<1> QED BY <1>2, <1>3 DEF Penalised

LEMMA ScoringLawful ==
    ASSUME ByTheBook, LawfulInv, NEW s \in Slot, Point(s) \/ RedCard(s)
    PROVE  LawfulInv'
<1>0. court \in Lawful /\ court \in Court /\ Opp(s) \in Slot
  BY DEF LawfulInv, Lawful, Good, Opp, Slot
<1>1. CASE Point(s)
  BY <1>0, <1>1, PointIsLawful, ToLawful, NotLawful DEF Point
<1>2. CASE RedCard(s)
  <2> DEFINE c == [court EXCEPT !.reds[s] = @ + 1]
             n == CASE court.reds[s] = 0 -> 1 [] court.reds[s] = 1 -> 2 [] OTHER -> 0
  <2>1. Step(IF InPlay(court) THEN Penalised(c, Opp(s), n) ELSE court)
    BY <1>2 DEF RedCard
  <2>2. n \in 0..2
    OBVIOUS
  <2>3. /\ c.points = court.points /\ c.won = court.won /\ c.sets = court.sets
        /\ c.winner = court.winner /\ c.bestOf = court.bestOf /\ c.byHand = court.byHand
        /\ c.server = court.server /\ c.starter = court.starter
        /\ c.swapped = court.swapped /\ c.deciderDone = court.deciderDone
    BY <1>0 DEF Court
  <2>4. c \in Court
    <3>1. [court.reds EXCEPT ![s] = @ + 1] \in SetScore
      BY <1>0 DEF Court, SetScore
    <3>2. c = [court EXCEPT !.reds = [court.reds EXCEPT ![s] = @ + 1]]
      OBVIOUS
    <3> QED BY <1>0, <3>1, <3>2 DEF Court
  <2> HIDE DEF c, n
  <2>5. c \in Good /\ Serves(c)
    BY <1>0, <2>3, <2>4 DEF Lawful, Good, Serves, InPlay, SetsNeeded
  <2>6. c \in Lawful
    BY <1>0, <2>3, <2>5, StaysLawful
  <2>7. Penalised(c, Opp(s), n) \in Lawful
    BY <1>0, <2>2, <2>6, PenaltyIsLawful
  <2> QED BY <2>1, <2>7, ToLawful, NotLawful
<1> QED BY <1>1, <1>2

LEMMA SetFormatLawful ==
    ASSUME ByTheBook, LawfulInv, NEW n \in Formats, SetFormat(n)
    PROVE  LawfulInv'
<1>0. court \in Lawful /\ court \in Good /\ court \in Court
  BY DEF LawfulInv, Lawful, Good
<1> DEFINE d == [court EXCEPT !.bestOf = n]
           hand == Hand(d, {"score", "ends"})
<1>1. /\ d \in Court /\ d.points = court.points /\ d.won = court.won /\ d.sets = court.sets
      /\ d.winner = court.winner /\ d.bestOf = n /\ d.byHand = court.byHand
      /\ d.server = court.server /\ d.starter = court.starter
      /\ d.swapped = court.swapped /\ d.deciderDone = court.deciderDone
  BY <1>0 DEF Court
<1>2. \/ Step(court)
      \/ Untouched(court) /\ InPlay(court) /\ Step(d)
      \/ Step(hand)
  BY DEF SetFormat
<1>3. Serves(d)
  BY <1>0, <1>1 DEF Lawful, Serves, InPlay
<1> HIDE DEF d
<1>4. CASE Step(hand)
  <2>1. hand \in Court /\ hand.byHand = court.byHand \cup {"score", "ends"}
    BY <1>1, HandIs
  <2>2. /\ hand.points = court.points /\ hand.winner = court.winner
        /\ hand.server = court.server /\ hand.starter = court.starter
    BY <1>1 DEF Hand
  <2> HIDE DEF hand
  <2>3. Serves(hand)
    BY <1>0, <2>1, <2>2 DEF Lawful, Serves, InPlay
  <2> QED BY <1>4, <2>1, <2>3, FreeIsLawful, ToLawful
<1>5. CASE Untouched(court) /\ InPlay(court) /\ Step(d)
  <2>1. CASE "score" \in court.byHand
    <3>1. Counts(d) /\ Changes(d)
      BY <1>1, <2>1 DEF Counts, Changes
    <3>2. d \in Good
      BY <1>1, <2>1 DEF Good
    <3>3. d \in Lawful
      BY <1>3, <3>1, <3>2 DEF Lawful
    <3> QED BY <1>5, <3>3, ToLawful
  <2>2. CASE "score" \notin court.byHand
    <3>1. court.sets = <<>> /\ court.won = NoPoints /\ court.winner = 0
      BY <1>0, <1>5, <2>2 DEF Good, Untouched, InPlay
    <3>2. court.points = NoPoints
      <4>1. court.points \in [Slot -> Nat] /\ court.points[1] + court.points[2] = 0
        BY <1>0, <1>5 DEF Court, SetScore, Untouched, Total
      <4>2. court.points[1] = 0 /\ court.points[2] = 0
        BY <4>1 DEF Slot
      <4> QED BY <4>1, <4>2 DEF NoPoints, Slot
    <3>3. /\ d.points = ResetMatch(n).points /\ d.won = ResetMatch(n).won
          /\ d.sets = ResetMatch(n).sets /\ d.winner = ResetMatch(n).winner
          /\ d.bestOf = ResetMatch(n).bestOf
      BY <1>1, <3>1, <3>2 DEF ResetMatch
    <3>4. ResetMatch(n) \in Good /\ "score" \notin ResetMatch(n).byHand
      BY ResetIsGood DEF ResetMatch
    <3>5. d \in Good
      BY <1>1, <3>3, <3>4 DEF Good, InPlay, SetsNeeded
    <3>6. Counts(d)
      BY <1>0, <1>1 DEF Lawful, Counts
    <3>7. /\ court.bestOf \in Nat \ {0} /\ n \in Nat \ {0} /\ Len(court.sets) = 0
          /\ EndsAt \in Nat \ {0} /\ \A t \in Slot : court.points[t] = 0
      <4>1. \A k \in Formats : k \in Nat /\ k % 2 = 1
        BY BoardAssumption
      <4>2. \A k \in Formats : k \in Nat \ {0}
        BY <4>1
      <4>3. court.bestOf \in Formats
        BY <1>0 DEF Court
      <4>4. EndsAt \in Nat \ {0}
        BY BoardAssumption
      <4> QED BY <3>1, <3>2, <4>2, <4>3, <4>4 DEF NoPoints
    <3>8. ~LastChange(court) /\ ~LastChange(d)
      BY <1>1, <3>7 DEF LastChange
    <3>9. EndChanges(d) = EndChanges(court)
      BY <1>1 DEF EndChanges, Unbroken, Turned, InPlay
    <3>10. Changes(d)
      BY <1>0, <1>1, <3>8, <3>9 DEF Lawful, Changes
    <3>11. d \in Lawful
      BY <1>3, <3>5, <3>6, <3>10 DEF Lawful
    <3> QED BY <1>5, <3>11, ToLawful
  <2> QED BY <2>1, <2>2
<1> QED BY <1>2, <1>4, <1>5, NotLawful

LEMMA ServeLawful ==
    ASSUME LawfulInv, NEW side \in {0} \cup Slot, Serve(side)
    PROVE  LawfulInv'
<1>0. court \in Lawful /\ court \in Good /\ court \in Court
  BY DEF LawfulInv, Lawful, Good
<1> DEFINE next == [court EXCEPT !.server = side, !.starter = side]
           named == [next EXCEPT !.byHand = @ \ {"service"}]
           hand == Hand(next, {"service"})
<1>1. /\ next \in Court /\ next.points = court.points /\ next.won = court.won
      /\ next.sets = court.sets /\ next.winner = court.winner
      /\ next.bestOf = court.bestOf /\ next.byHand = court.byHand
      /\ next.server = side /\ next.starter = side
      /\ next.swapped = court.swapped /\ next.deciderDone = court.deciderDone
  BY <1>0 DEF Court
<1>2. Step(court) \/ (Total(court) = 0 /\ Step(named)) \/ Step(hand)
  BY DEF Serve
<1> HIDE DEF next
<1>3. CASE Total(court) = 0 /\ Step(named)
  <2>1. /\ named \in Court /\ named.points = court.points /\ named.won = court.won
        /\ named.sets = court.sets /\ named.winner = court.winner
        /\ named.bestOf = court.bestOf /\ named.byHand = court.byHand \ {"service"}
        /\ named.server = side /\ named.starter = side
        /\ named.swapped = court.swapped /\ named.deciderDone = court.deciderDone
    BY <1>1 DEF Court
  <2> HIDE DEF named
  <2>2. court.points = NoPoints
    <3>1. court.points \in [Slot -> Nat] /\ court.points[1] + court.points[2] = 0
      BY <1>0, <1>3 DEF Court, SetScore, Total
    <3>2. court.points[1] = 0 /\ court.points[2] = 0
      BY <3>1 DEF Slot
    <3> QED BY <3>1, <3>2 DEF NoPoints, Slot
  <2>3. Serves(named)
    BY <2>1, <2>2, FreshSet DEF Serves
  <2>4. named \in Good
    BY <1>0, <2>1 DEF Good, InPlay, SetsNeeded
  <2>5. named \in Lawful
    BY <1>0, <2>1, <2>3, <2>4, StaysLawful
  <2> QED BY <1>3, <2>5, ToLawful
<1>4. CASE Step(hand)
  <2>1. hand \in Court /\ hand.byHand = court.byHand \cup {"service"}
    BY <1>1, HandIs
  <2>2. /\ hand.points = court.points /\ hand.won = court.won
        /\ hand.sets = court.sets /\ hand.winner = court.winner
        /\ hand.bestOf = court.bestOf /\ hand.server = side /\ hand.starter = side
        /\ hand.swapped = court.swapped /\ hand.deciderDone = court.deciderDone
    BY <1>1 DEF Hand
  <2> HIDE DEF hand
  <2>3. Serves(hand)
    BY <2>1, <2>2 DEF Serves
  <2>4. hand \in Good
    BY <1>0, <2>1, <2>2 DEF Good, InPlay, SetsNeeded
  <2>5. hand \in Lawful
    BY <1>0, <2>1, <2>2, <2>3, <2>4, StaysLawful
  <2> QED BY <1>4, <2>5, ToLawful
<1> QED BY <1>2, <1>3, <1>4, NotLawful

(* What Hand leaves of a court. *)
LEMMA HandKeeps ==
    ASSUME NEW c \in Court, NEW what \in SUBSET {"score", "service", "ends"}
    PROVE  /\ Hand(c, what) \in Court /\ what \subseteq Hand(c, what).byHand
           /\ Hand(c, what).server = c.server /\ Hand(c, what).starter = c.starter
           /\ Hand(c, what).winner = c.winner
<1>1. Hand(c, what) \in Court /\ Hand(c, what).byHand = c.byHand \cup what
  BY HandIs
<1>2. /\ Hand(c, what).server = c.server /\ Hand(c, what).starter = c.starter
      /\ Hand(c, what).winner = c.winner
  BY DEF Hand, Court
<1> QED BY <1>1, <1>2

(* What the referee does in place of the program: its result is his own.   *)
LEMMA ByHandLawful ==
    ASSUME LawfulInv, Finish \/ \E s \in Slot : Minus(s) \/ Walkover(s)
    PROVE  LawfulInv'
<1>0. court \in Lawful /\ court \in Court
  BY DEF LawfulInv, Lawful, Good
<1>1. court.server = 0 <=> court.starter = 0
  BY <1>0 DEF Lawful, Serves
<1>2. ASSUME NEW s \in Slot, Minus(s) PROVE LawfulInv'
  <2> DEFINE c == [court EXCEPT !.points[s] = @ - 1]
             d == Hand(c, {"score", "service", "ends"})
  <2>1. CASE court.points[s] = 0
    BY <1>2, <2>1, NotLawful DEF Minus
  <2>2. CASE court.points[s] # 0
    <3>1. [court.points EXCEPT ![s] = @ - 1] \in SetScore
      BY <1>0, <2>2 DEF Court, SetScore
    <3>2. c = [court EXCEPT !.points = [court.points EXCEPT ![s] = @ - 1]]
      OBVIOUS
    <3>3. c \in Court /\ c.server = court.server /\ c.starter = court.starter
      BY <1>0, <3>1, <3>2 DEF Court
    <3> HIDE DEF c
    <3>4. /\ d \in Court /\ {"score", "service", "ends"} \subseteq d.byHand
          /\ d.server = court.server /\ d.starter = court.starter
      BY <3>3, HandKeeps
    <3>5. Step(d)
      BY <1>2, <2>2 DEF Minus, c
    <3> HIDE DEF d
    <3>6. Serves(d)
      BY <1>1, <3>4 DEF Serves
    <3> QED BY <3>4, <3>5, <3>6, FreeIsLawful, ToLawful
  <2> QED BY <2>1, <2>2
<1>3. ASSUME NEW s \in Slot, Walkover(s) PROVE LawfulInv'
  <2> DEFINE c == [court EXCEPT !.winner = s]
             d == Hand(c, {"score", "ends"})
  <2>1. Step(IF InPlay(court) THEN d ELSE court)
    BY <1>3 DEF Walkover
  <2>2. /\ c \in Court /\ c.server = court.server /\ c.starter = court.starter
        /\ c.winner = s
    BY <1>0 DEF Court
  <2> HIDE DEF c
  <2>3. /\ d \in Court /\ {"score", "ends"} \subseteq d.byHand
        /\ d.server = court.server /\ d.starter = court.starter /\ d.winner = s
    BY <2>2, HandKeeps
  <2> HIDE DEF d
  <2>4. Serves(d)
    BY <1>1, <2>3 DEF Serves, InPlay, Slot
  <2> QED BY <2>1, <2>3, <2>4, FreeIsLawful, ToLawful, NotLawful
<1>4. CASE Finish
  <2> DEFINE w == Ahead(court)
             wons == [court.won EXCEPT ![w] = IF court.won[1] = court.won[2] THEN @ + 1 ELSE @]
             noted == IF Total(court) = 0 THEN court
                      ELSE [court EXCEPT !.sets = Append(@, court.points),
                                         !.won[w] = IF court.won[1] = court.won[2]
                                                    THEN @ + 1 ELSE @,
                                         !.points = NoPoints]
             c == [noted EXCEPT !.winner = w]
             d == Hand(c, {"score", "ends"})
  <2>1. Step(IF InPlay(court) /\ w # 0 THEN d ELSE court)
    BY <1>4 DEF Finish
  <2>2. CASE ~(InPlay(court) /\ w # 0)
    BY <2>1, <2>2, NotLawful
  <2>3. CASE InPlay(court) /\ w # 0
    <3>1. w \in Slot
      BY <2>3 DEF Ahead, Leader, Slot
    <3> HIDE DEF w
    <3>2. /\ wons \in SetScore /\ NoPoints \in SetScore
          /\ Append(court.sets, court.points) \in Seq(SetScore)
      BY <1>0, <3>1 DEF Court, SetScore, NoPoints
    <3>3. /\ noted \in Court /\ noted.server = court.server
          /\ noted.starter = court.starter
      <4>1. CASE Total(court) = 0
        BY <1>0, <4>1
      <4>2. CASE Total(court) # 0
        <5>1. noted = [court EXCEPT !.sets = Append(court.sets, court.points),
                                    !.won = wons, !.points = NoPoints]
          BY <4>2, <1>0 DEF Court
        <5> HIDE DEF wons, noted
        <5> QED BY <1>0, <3>2, <5>1 DEF Court
      <4> QED BY <4>1, <4>2
    <3> HIDE DEF noted, wons
    <3>4. /\ c \in Court /\ c.server = court.server /\ c.starter = court.starter
          /\ c.winner = w
      BY <3>1, <3>3 DEF Court
    <3> HIDE DEF c
    <3>5. /\ d \in Court /\ {"score", "ends"} \subseteq d.byHand
          /\ d.server = court.server /\ d.starter = court.starter /\ d.winner = w
      BY <3>4, HandKeeps
    <3> HIDE DEF d
    <3>6. Serves(d)
      BY <1>1, <2>3, <3>5 DEF Serves, InPlay
    <3> QED BY <2>1, <2>3, <3>5, <3>6, FreeIsLawful, ToLawful
  <2> QED BY <2>2, <2>3
<1> QED BY <1>2, <1>3, <1>4

LEMMA SwapLawful == ASSUME LawfulInv, Swap PROVE LawfulInv'
<1>0. court \in Lawful /\ court \in Good /\ court \in Court
  BY DEF LawfulInv, Lawful, Good
<1> DEFINE c == [court EXCEPT !.swapped = ~@]
           d == Hand(c, {"ends"})
<1>1. /\ c \in Court /\ c.points = court.points /\ c.won = court.won /\ c.sets = court.sets
      /\ c.winner = court.winner /\ c.bestOf = court.bestOf /\ c.byHand = court.byHand
      /\ c.server = court.server /\ c.starter = court.starter
  BY <1>0 DEF Court
<1> HIDE DEF c
<1>2. d \in Court /\ d.byHand = court.byHand \cup {"ends"}
  BY <1>1, HandIs
<1>3. /\ d.points = court.points /\ d.won = court.won /\ d.sets = court.sets
      /\ d.winner = court.winner /\ d.bestOf = court.bestOf
      /\ d.server = court.server /\ d.starter = court.starter
  BY <1>1 DEF Hand
<1>4. Step(d)
  BY DEF Swap, c
<1> HIDE DEF d
<1>5. d \in Good
  BY <1>0, <1>2, <1>3 DEF Good, InPlay, SetsNeeded
<1>6. Serves(d) /\ Counts(d) /\ Changes(d)
  BY <1>0, <1>2, <1>3 DEF Lawful, Serves, Counts, Changes, InPlay
<1>7. d \in Lawful
  BY <1>5, <1>6 DEF Lawful
<1> QED BY <1>4, <1>7, ToLawful

LEMMA UndoLawful == ASSUME LawfulInv, Undo PROVE LawfulInv'
<1>1. /\ undo \in Seq(Lawful) /\ undo # <<>>
      /\ court' = undo[Len(undo)] /\ undo' = Popped(undo)
  BY DEF LawfulInv, Undo
<1>2. Len(undo) \in Nat \ {0} /\ \A i \in 1..Len(undo) : undo[i] \in Lawful
  BY <1>1, EmptySeq, ElementOfSeq
<1>3. court' \in Lawful
  BY <1>1, <1>2
<1>4. Popped(undo) \in Seq(Lawful)
  <2>1. \A i \in 1..Len(undo) - 1 : undo[i] \in Lawful
    BY <1>2
  <2>2. Len(undo) - 1 \in Int
    BY <1>2
  <2> QED BY <2>1, <2>2, SubSeqProperties DEF Popped
<1> QED BY <1>1, <1>3, <1>4 DEF LawfulInv

LEMMA AnewLawful ==
    ASSUME ByTheBook, LawfulInv, NewMatch \/ ResetAll \/ \E n \in Formats : Start(n)
    PROVE  LawfulInv'
<1>1. PICK n \in Formats : Step(ResetMatch(n)) \/ Renewed(ResetMatch(n))
  <2>1. court.bestOf \in Formats
    BY DEF LawfulInv, Lawful, Good, Court
  <2> QED BY <2>1, BoardAssumption DEF NewMatch, ResetAll, Start, Empty
<1> QED BY <1>1, ResetIsLawful, ToLawful

LEMMA LawfulStep == ASSUME ByTheBook, LawfulInv, [Next]_vars PROVE LawfulInv'
<1>1. ASSUME NEW s \in Slot, Point(s) \/ Minus(s) \/ RedCard(s) \/ Walkover(s)
      PROVE  LawfulInv'
  BY <1>1, ScoringLawful, ByHandLawful
<1>2. CASE UNCHANGED vars
  BY <1>2 DEF vars, LawfulInv
<1> QED BY <1>1, <1>2, ServeLawful, SetFormatLawful, AnewLawful, ByHandLawful, SwapLawful,
           UndoLawful DEF Next

(* With the numbers of the program's rules, the server and the ends a court*)
(* shows are those of the rules: in every set of every format, through a   *)
(* deuce of any length, penalties and undo, until the referee names them   *)
(* himself (afterPoint, serve, resetMatch).                                *)
THEOREM CourtPlaysByTheRules == ByTheBook /\ Spec => []CourtFollowsTheRules
<1>1. ByTheBook /\ Init => LawfulInv
  <2> SUFFICES ASSUME ByTheBook, Init PROVE LawfulInv
    OBVIOUS
  <2>1. court = ResetMatch(DefaultBestOf) /\ undo = <<>> /\ DefaultBestOf \in Formats
    BY BoardAssumption DEF Init, Empty
  <2>2. court \in Lawful
    BY <2>1, ResetIsLawful
  <2> QED BY <2>1, <2>2, EmptySeq DEF LawfulInv
<1>2. ByTheBook /\ LawfulInv /\ [Next]_vars => ByTheBook' /\ LawfulInv'
  BY LawfulStep DEF ByTheBook
<1>3. LawfulInv => CourtFollowsTheRules
  BY LawfulFollows DEF LawfulInv
<1> QED BY <1>1, <1>2, <1>3, PTL DEF Spec
=============================================================================
