--------------------------- MODULE MatchesProofs ---------------------------
(***************************************************************************)
(* Invariance proofs for Matches, for every bracket, every scoring format  *)
(* and every set of people.                                                *)
(***************************************************************************)
EXTENDS Matches, FiniteSetTheorems, SequenceTheorems, WellFoundedInduction, TLAPS

----------------------------------------------------------------------------
(* Types *)

(* A point leads from a score to a score that has started, and a finished  *)
(* match has a winning slot (applyPoint).                                  *)
LEMMA ApplyPointType ==
    ASSUME NEW st \in Score, NEW b \in Nat \ {0}, NEW s \in Slot
    PROVE  LET r == ApplyPoint(st, b, s) IN
           /\ r \in Score
           /\ r.status # "SCHEDULED"
           /\ r.status = "FINISHED" => r.winnerSlot \in Slot
<1> DEFINE cur == [st.cur EXCEPT ![s] = @ + 1]
           won == [st.won EXCEPT ![Leader(cur)] = @ + 1]
<1>1. cur \in SetScore
  BY DEF Score, SetScore, Slot
<1>2. Leader(cur) \in Slot /\ Leader(won) \in Slot
  BY DEF Leader, Slot
<1>3. won \in SetScore
  BY <1>1, <1>2 DEF Score, SetScore, Slot
<1>4. Append(st.sets, cur) \in Seq(SetScore)
  BY <1>1 DEF Score
<1>5. CASE ~IsSetWon(cur)
  <2>1. ApplyPoint(st, b, s) = [st EXCEPT !.status = "LIVE", !.cur = cur]
    BY <1>5 DEF ApplyPoint
  <2> QED
    BY <2>1, <1>1 DEF Score, Status
<1>6. CASE IsSetWon(cur)
  <2> DEFINE decided == \E t \in Slot : won[t] >= SetsToWin(b)
  <2>1. ApplyPoint(st, b, s) =
          [status |-> IF decided THEN "FINISHED" ELSE "LIVE",
           cur |-> NextSet(cur), sets |-> Append(st.sets, cur), won |-> won,
           winnerSlot |-> IF decided THEN Leader(won) ELSE 0]
    BY <1>6 DEF ApplyPoint
  <2>2. NextSet(cur) \in SetScore
    BY DEF NextSet, NoPoints, SetScore
  <2> HIDE DEF decided, won, cur
  <2> QED
    BY <2>1, <2>2, <1>2, <1>3, <1>4 DEF Score, Status
<1> QED
  BY <1>5, <1>6

(* The snapshot of a match is a snapshot. *)
LEMMA SnapshotOfGame ==
    ASSUME NEW g \in GameType
    PROVE  /\ Snapshot(g) \in SnapshotType
           /\ Snapshot(g).status = g.score.status
  BY DEF GameType, SnapshotType, Snapshot, Score

(* No game at all is a game, and its snapshot is a snapshot. *)
LEMMA NoGameType == NoGame \in GameType /\ NoSnapshot \in SnapshotType
<1>1. NoPoints \in SetScore
  BY DEF NoPoints, SetScore
<1>2. InitialState \in Score
  BY <1>1 DEF InitialState, Score, Status
<1>3. NoGame \in GameType
  BY <1>2 DEF NoGame, GameType
<1> QED
  BY <1>3, SnapshotOfGame DEF NoSnapshot

----------------------------------------------------------------------------
(* What the log says about the score *)

(* A point given to an open match with two players (pointTx). *)
LEMMA AfterPointPlayed ==
    ASSUME TypeOK,
           NEW m \in Match, NEW s \in Slot, BothPlayers(m),
           NEW g \in GameType, Played(g), g.score.status # "FINISHED"
    PROVE  LET h == AfterPoint(g, m, s) IN
           /\ h \in GameType
           /\ Played(h)
           /\ h.score.status # "SCHEDULED"
           /\ h.score.status = "FINISHED" =>
                 h.winner \in {player[m][1], player[m][2]}
<1> DEFINE r == ApplyPoint(g.score, bestOf[m], s)
           e == [type |-> "POINT", player |-> s, snapshot |-> Snapshot(g)]
           h == AfterPoint(g, m, s)
<1>1. g.score \in Score /\ bestOf[m] \in Nat \ {0}
  BY DEF GameType, TypeOK
<1>2. /\ r \in Score
      /\ r.status # "SCHEDULED"
      /\ r.status = "FINISHED" => r.winnerSlot \in Slot
  BY <1>1, ApplyPointType
<1>3. e \in EventType
  BY SnapshotOfGame DEF EventType
<1> HIDE DEF r, e
<1>4. h = [g EXCEPT !.score = [r EXCEPT !.winnerSlot = 0],
                    !.winner = IF r.status = "FINISHED"
                               THEN player[m][r.winnerSlot] ELSE @,
                    !.log = Append(@, e)]
  BY DEF AfterPoint, r, e
<1>5. player[m] \in [Slot -> Player \cup {NoPlayer}]
  BY DEF TypeOK
<1>6. r.status = "FINISHED" =>
        /\ player[m][r.winnerSlot] \in Player
        /\ player[m][r.winnerSlot] \in {player[m][1], player[m][2]}
  BY <1>2, <1>5 DEF BothPlayers, Slot
<1>7. [r EXCEPT !.winnerSlot = 0] \in Score
  BY <1>2 DEF Score
<1>8. Append(g.log, e) \in Seq(EventType)
  BY <1>3 DEF GameType
<1>9. h \in GameType
  BY <1>4, <1>6, <1>7, <1>8 DEF GameType
<1>10. h.score.status = r.status
  BY <1>2, <1>4 DEF GameType, Score
<1>11. h.score.status = "FINISHED" => h.winner \in {player[m][1], player[m][2]}
  BY <1>4, <1>6, <1>10 DEF GameType
<1>12. h.log = Append(g.log, e)
  BY <1>4 DEF GameType
<1>13. e.type = "POINT" /\ e.snapshot.status = g.score.status
  BY SnapshotOfGame DEF e
<1>14. Played(h)
  <2>1. h.score.status = "FINISHED" => h.winner # NoPlayer
    BY <1>4, <1>6, <1>10, BracketAssumption DEF GameType
  <2>2. g.log \in Seq(EventType)
    BY DEF GameType
  <2>3. ASSUME NEW i \in DOMAIN h.log, h.log[i].type = "POINT"
        PROVE  /\ h.log[i].snapshot.status # "FINISHED"
               /\ \A j \in DOMAIN h.log :
                     i < j /\ h.log[j].type = "POINT" =>
                         h.log[j].snapshot.status # "SCHEDULED"
    BY <1>12, <1>13, <2>2, <2>3 DEF Played
  <2> QED
    BY <1>2, <1>10, <2>1, <2>3 DEF Played
<1> QED
  BY <1>2, <1>9, <1>10, <1>11, <1>14

(* A card event and a stored card (card). *)
LEMMA AfterCardPlayed ==
    ASSUME NEW g \in GameType, Played(g), NEW s \in Slot
    PROVE  LET h == AfterCard(g, s) IN
           /\ h \in GameType
           /\ Played(h)
           /\ h.score = g.score /\ h.winner = g.winner
<1> DEFINE e == [type |-> "CARD", player |-> s, snapshot |-> NoSnapshot]
           h == AfterCard(g, s)
<1>1. e \in EventType
  BY NoGameType DEF EventType
<1>2. e.type = "CARD"
  OBVIOUS
<1> HIDE DEF e
<1>3. h = [g EXCEPT !.cards = Append(@, s), !.log = Append(@, e)]
  BY DEF AfterCard, e
<1>4. g.log \in Seq(EventType) /\ g.cards \in Seq(Slot)
  BY DEF GameType
<1>5. h \in GameType
  <2>1. Append(g.log, e) \in Seq(EventType) /\ Append(g.cards, s) \in Seq(Slot)
    BY <1>1, <1>4
  <2> QED
    BY <1>3, <2>1 DEF GameType
<1>6. h.score = g.score /\ h.winner = g.winner /\ h.log = Append(g.log, e)
  BY <1>3 DEF GameType
<1>7. Played(h)
  BY <1>2, <1>4, <1>6 DEF Played
<1> QED
  BY <1>5, <1>6, <1>7

(* The penalty points of a card: none, one or two, and none after the end. *)
LEMMA AfterPenaltyPlayed ==
    ASSUME TypeOK,
           NEW m \in Match, NEW s \in Slot, NEW n \in Nat,
           n > 0 => BothPlayers(m),
           NEW g \in GameType, Played(g), g.score.status # "FINISHED"
    PROVE  LET h == AfterPenalty(g, m, s, n) IN
           /\ h \in GameType
           /\ Played(h)
           /\ h.score.status # g.score.status => BothPlayers(m)
           /\ h.score.status = "FINISHED" =>
                 h.winner \in {player[m][1], player[m][2]}
<1>1. CASE n = 0
  BY <1>1 DEF AfterPenalty
<1>2. CASE n = 1
  BY <1>2, AfterPointPlayed DEF AfterPenalty, PenaltyPoint
<1>3. CASE n > 1
  <2> DEFINE one == AfterPoint(g, m, s)
  <2>1. PenaltyPoint(g, m, s) = one
    BY DEF PenaltyPoint
  <2>2. /\ one \in GameType /\ Played(one)
        /\ one.score.status = "FINISHED" =>
              one.winner \in {player[m][1], player[m][2]}
    BY <1>3, AfterPointPlayed
  <2>3. AfterPenalty(g, m, s, n) = PenaltyPoint(one, m, s)
    BY <1>3, <2>1 DEF AfterPenalty
  <2> HIDE DEF one
  <2>4. CASE one.score.status = "FINISHED"
    BY <1>3, <2>2, <2>3, <2>4 DEF PenaltyPoint
  <2>5. CASE one.score.status # "FINISHED"
    <3>1. AfterPenalty(g, m, s, n) = AfterPoint(one, m, s)
      BY <2>3, <2>5 DEF PenaltyPoint
    <3> QED
      BY <1>3, <2>2, <2>5, <3>1, AfterPointPlayed
  <2> QED
    BY <2>4, <2>5
<1> QED
  BY <1>1, <1>2, <1>3

(* Restored is a game again, as it was before the undone point (undo). *)
LEMMA RestoredPlayed ==
    ASSUME NEW g \in GameType, Played(g), g.log # <<>>,
           g.log[Len(g.log)].type = "POINT"
    PROVE  LET snap == g.log[Len(g.log)].snapshot
               h == Restored(g, snap)
           IN  /\ h \in GameType
               /\ Played(h)
               /\ h.score.status = snap.status /\ snap.status # "FINISHED"
               /\ g.score.status # "SCHEDULED"
<1> DEFINE n == Len(g.log)
           snap == g.log[n].snapshot
           h == Restored(g, snap)
<1>1. /\ g.log \in Seq(EventType) /\ n \in Nat \ {0} /\ n \in DOMAIN g.log
      /\ g.log[n] \in EventType
  BY DEF GameType
<1>2. snap \in SnapshotType
  BY <1>1 DEF EventType
<1>3. g.score \in Score /\ g.cards \in Seq(Slot)
  BY DEF GameType
<1>4. KeepKnown(g.score.sets, snap.sets) \in Seq(SetScore)
  <2>1. g.score.sets \in Seq(SetScore) /\ snap.sets \in Nat
    BY <1>2, <1>3 DEF Score, SnapshotType
  <2> QED
    BY <2>1 DEF KeepKnown
<1>5. KeepKnown(g.cards, snap.cards) \in Seq(Slot)
  <2>1. snap.cards \in Nat
    BY <1>2 DEF SnapshotType
  <2> QED
    BY <2>1, <1>3 DEF KeepKnown
<1>6. /\ SubSeq(g.log, 1, n - 1) \in Seq(EventType)
      /\ DOMAIN SubSeq(g.log, 1, n - 1) = 1..(n - 1)
      /\ \A i \in 1..(n - 1) : SubSeq(g.log, 1, n - 1)[i] = g.log[i]
  BY <1>1
<1>7. /\ h.score = [status |-> snap.status, cur |-> snap.cur,
                    sets |-> KeepKnown(g.score.sets, snap.sets),
                    won |-> snap.won, winnerSlot |-> 0]
      /\ h.winner = snap.winner
      /\ h.cards = KeepKnown(g.cards, snap.cards)
      /\ h.log = SubSeq(g.log, 1, n - 1)
      /\ h = [score |-> h.score, winner |-> h.winner, cards |-> h.cards,
              log |-> h.log]
  BY DEF Restored
<1> HIDE DEF h
<1>8. h.score \in Score /\ h.winner \in Player \cup {NoPlayer}
  <2>1. /\ snap.status \in Status
        /\ snap.cur \in SetScore /\ snap.won \in SetScore
        /\ snap.winner \in Player \cup {NoPlayer}
    BY <1>2 DEF SnapshotType
  <2> HIDE DEF snap
  <2> QED BY <1>4, <1>7, <2>1 DEF Score
<1>9. h \in GameType
  BY <1>5, <1>6, <1>7, <1>8 DEF GameType
<1>10. h.score.status = snap.status
  BY <1>7
<1>11. snap.status # "FINISHED" /\ g.score.status # "SCHEDULED"
  BY <1>1 DEF Played
<1>12. ASSUME NEW i \in DOMAIN h.log, h.log[i].type = "POINT"
       PROVE  /\ h.log[i].snapshot.status # "FINISHED"
              /\ h.score.status # "SCHEDULED"
              /\ \A j \in DOMAIN h.log :
                    i < j /\ h.log[j].type = "POINT" =>
                        h.log[j].snapshot.status # "SCHEDULED"
  <2>1. i \in DOMAIN g.log /\ i < n /\ h.log[i] = g.log[i]
    BY <1>1, <1>6, <1>7, <1>12
  <2>2. snap.status # "SCHEDULED"
    BY <1>1, <1>12, <2>1 DEF Played
  <2>3. \A j \in DOMAIN h.log : j \in DOMAIN g.log /\ h.log[j] = g.log[j]
    BY <1>1, <1>6, <1>7
  <2> QED
    BY <1>10, <1>12, <2>1, <2>2, <2>3 DEF Played
<1>13. Played(h)
  BY <1>10, <1>11, <1>12 DEF Played
<1> QED
  BY <1>9, <1>10, <1>11, <1>13 DEF h

----------------------------------------------------------------------------
(* What a step does to the slots *)

(* Nothing that the slots depend on changes. *)
LEMMA QuietStep ==
    ASSUME IInv, game' = game, player' = player, handSet' = handSet
    PROVE  /\ \A m \in Match : Played(game'[m])
           /\ StartedIsPaired'
           /\ SlotFollowsFeeder'
  BY DEF IInv, StartedIsPaired, SlotFollowsFeeder, ByHand, StatusOf, Loser

(* An open match stays open, and starts only with two players. *)
LEMMA OpenStep ==
    ASSUME IInv, NEW m \in Match, NEW g \in GameType, Played(g),
           StatusOf(m) # "FINISHED", g.score.status # "FINISHED",
           StatusOf(m) = "SCHEDULED" /\ g.score.status # "SCHEDULED" =>
               BothPlayers(m),
           game' = [game EXCEPT ![m] = g],
           player' = player, handSet' = handSet
    PROVE  /\ \A n \in Match : Played(game'[n])
           /\ StartedIsPaired'
           /\ SlotFollowsFeeder'
<1>1. /\ game'[m] = g
      /\ \A n \in Match : n # m => game'[n] = game[n]
  BY DEF IInv, TypeOK
<1>2. \A n \in Match : Played(game'[n])
  BY <1>1 DEF IInv
<1>3. StartedIsPaired'
  BY <1>1 DEF IInv, StartedIsPaired, ByHand, StatusOf, BothPlayers
<1>4. SlotFollowsFeeder'
  BY <1>1 DEF IInv, SlotFollowsFeeder, ByHand, StatusOf, Loser
<1> QED
  BY <1>2, <1>3, <1>4

(* Who moves where when match m ends with this winner and this loser. *)
LEMMA PropagatedSlots ==
    ASSUME TypeOK, NEW m \in Match, NEW w, NEW l,
           player' = Propagated(m, w, l)
    PROVE  /\ \A n \in Match, s \in Slot :
                 /\ WinnerTo[m] = <<n, s>> => player'[n][s] = w
                 /\ LoserTo[m] = <<n, s>> => player'[n][s] = l
                 /\ <<n, s>> \notin {WinnerTo[m], LoserTo[m]} =>
                       player'[n][s] = player[n][s]
           /\ \A s \in Slot : player'[m][s] = player[m][s]
<1>1. \A n \in Match, s \in Slot :
         player'[n][s] = IF WinnerTo[m] = <<n, s>> THEN w
                         ELSE IF LoserTo[m] = <<n, s>> THEN l
                         ELSE player[n][s]
  BY DEF Propagated
<1>2. \A n \in Match, s \in Slot : <<n, s>> # NoDest
  BY BracketAssumption DEF Dest
<1>3. \A n \in Match, s \in Slot :
         WinnerTo[m] = <<n, s>> => LoserTo[m] # <<n, s>>
  BY <1>2, BracketAssumption
<1>4. \A s \in Slot : WinnerTo[m] # <<m, s>> /\ LoserTo[m] # <<m, s>>
  BY <1>2, BracketAssumption
<1> QED
  BY <1>1, <1>3, <1>4

(* A match ends: its players move into slots that were empty, so no other  *)
(* slot, and no match that has been played, sees a change.                 *)
LEMMA FinishStep ==
    ASSUME IInv, NEW m \in Match, NEW g \in GameType, Played(g),
           BothPlayers(m), StatusOf(m) # "FINISHED",
           g.score.status = "FINISHED",
           g.winner \in {player[m][1], player[m][2]},
           game' = [game EXCEPT ![m] = g],
           player' = Propagated(m, g.winner, Loser(m, g.winner)),
           handSet' = handSet
    PROVE  /\ \A n \in Match : Played(game'[n])
           /\ StartedIsPaired'
           /\ SlotFollowsFeeder'
           /\ \A n \in Match, s \in Slot :
                 StatusOf(n) # "SCHEDULED" /\ ~ByHand(n, s) =>
                     player'[n][s] = player[n][s]
<1> DEFINE w == g.winner
           l == Loser(m, g.winner)
<1>1. /\ game'[m] = g
      /\ \A n \in Match : n # m => game'[n] = game[n]
  BY DEF IInv, TypeOK
<1>2. TypeOK /\ w # NoPlayer /\ l # NoPlayer
  BY DEF IInv, BothPlayers, Loser, Slot
<1> HIDE DEF l
<1>3. /\ \A n \in Match, s \in Slot :
            /\ WinnerTo[m] = <<n, s>> => player'[n][s] = w
            /\ LoserTo[m] = <<n, s>> => player'[n][s] = l
            /\ <<n, s>> \notin {WinnerTo[m], LoserTo[m]} =>
                  player'[n][s] = player[n][s]
      /\ \A s \in Slot : player'[m][s] = player[m][s]
  BY <1>2, PropagatedSlots DEF l
<1>4. \A n \in Match : Played(game'[n])
  BY <1>1 DEF IInv
<1>5. ASSUME NEW n \in Match, NEW s \in Slot, ~ByHand(n, s), 
             StatusOf(n) # "SCHEDULED"
      PROVE  player'[n][s] = player[n][s]
  <2>1. player[n][s] # NoPlayer
    BY <1>5 DEF IInv, StartedIsPaired
  <2>2. WinnerTo[m] # <<n, s>>
    BY <1>5, <2>1 DEF IInv, SlotFollowsFeeder
  <2>3. LoserTo[m] # <<n, s>>
    BY <1>5, <2>1 DEF IInv, SlotFollowsFeeder
  <2> QED
    BY <1>3, <2>2, <2>3
<1>6. StartedIsPaired'
  <2> SUFFICES ASSUME NEW n \in Match, NEW s \in Slot,
                      StatusOf(n)' # "SCHEDULED", ~ByHand(n, s)'
               PROVE  player'[n][s] # NoPlayer
    BY DEF StartedIsPaired
  <2>1. CASE n = m
    BY <1>3, <2>1 DEF BothPlayers
  <2>2. CASE n # m
    BY <1>1, <1>5, <2>2 DEF IInv, StartedIsPaired, StatusOf, ByHand
  <2> QED
    BY <2>1, <2>2
<1>7. SlotFollowsFeeder'
  <2> SUFFICES ASSUME NEW k \in Match, NEW n \in Match, NEW s \in Slot,
                      ~ByHand(n, s)'
               PROVE  /\ WinnerTo[k] = <<n, s>> =>
                            player'[n][s] = IF StatusOf(k)' = "FINISHED"
                                            THEN game'[k].winner ELSE NoPlayer
                      /\ LoserTo[k] = <<n, s>> =>
                            IF StatusOf(k)' = "FINISHED"
                            THEN ~ByHand(k, 1)' /\ ~ByHand(k, 2)' =>
                                    player'[n][s] = Loser(k, game[k].winner)'
                            ELSE player'[n][s] = NoPlayer
    BY DEF SlotFollowsFeeder
  <2>0. \A a \in Match, t \in Slot : ByHand(a, t)' = ByHand(a, t)
    BY DEF ByHand
  <2>1. CASE k = m
    <3>1. StatusOf(k)' = "FINISHED" /\ game'[k].winner = w
      BY <1>1, <2>1 DEF StatusOf
    <3>2. Loser(k, game[k].winner)' = l
      BY <1>3, <2>1, <3>1 DEF Loser, l, Slot
    <3> QED
      BY <1>3, <2>1, <3>1, <3>2
  <2>2. CASE k # m /\ <<n, s>> \in {WinnerTo[k], LoserTo[k]}
    <3>1. <<n, s>> # NoDest
      BY BracketAssumption DEF Dest
    <3>2. <<n, s>> # WinnerTo[m] /\ <<n, s>> # LoserTo[m]
      BY <2>2, <3>1, BracketAssumption
    <3>3. player'[n][s] = player[n][s] /\ game'[k] = game[k]
      BY <1>1, <1>3, <2>2, <3>2
    <3>4. StatusOf(k) = "FINISHED" /\ ~ByHand(k, 1) /\ ~ByHand(k, 2) =>
             Loser(k, game[k].winner)' = Loser(k, game[k].winner)
      <4>1. StatusOf(k) = "FINISHED" /\ ~ByHand(k, 1) /\ ~ByHand(k, 2) =>
               player'[k][1] = player[k][1] /\ player'[k][2] = player[k][2]
        BY <1>5 DEF Slot
      <4> QED
        BY <3>3, <4>1 DEF Loser
    <3>5. StatusOf(k)' = StatusOf(k)
      BY <3>3 DEF StatusOf
    <3>6. /\ WinnerTo[k] = <<n, s>> =>
                player[n][s] = IF StatusOf(k) = "FINISHED"
                               THEN game[k].winner ELSE NoPlayer
          /\ LoserTo[k] = <<n, s>> =>
                IF StatusOf(k) = "FINISHED"
                THEN ~ByHand(k, 1) /\ ~ByHand(k, 2) =>
                        player[n][s] = Loser(k, game[k].winner)
                ELSE player[n][s] = NoPlayer
      BY <2>0 DEF IInv, SlotFollowsFeeder
    <3> QED
      BY <2>0, <3>3, <3>4, <3>5, <3>6 DEF Slot
  <2> QED
    BY <2>1, <2>2
<1> QED
  BY <1>4, <1>5, <1>6, <1>7

(* Undo reopens a match: nobody has played on its result, so the slots it  *)
(* had filled are emptied and no started match sees a change.              *)
LEMMA UndoStep ==
    ASSUME IInv, NEW m \in Match, Undo(m)
    PROVE  /\ game' \in [Match -> GameType]
           /\ player' \in [Match -> [Slot -> Player \cup {NoPlayer}]]
           /\ \A n \in Match : Played(game'[n])
           /\ StartedIsPaired'
           /\ SlotFollowsFeeder'
           /\ \A n \in Match, s \in Slot :
                 StatusOf(n) # "SCHEDULED" => player'[n][s] = player[n][s]
<1> DEFINE g == game[m]
           snap == g.log[Len(g.log)].snapshot
           h == Restored(g, snap)
<1>1. g \in GameType /\ Played(g)
  BY DEF IInv, TypeOK
<1>2. g.log # <<>> /\ g.log[Len(g.log)].type = "POINT"
  BY DEF Undo, LastEvent
<1>3. /\ h \in GameType /\ Played(h)
      /\ h.score.status = snap.status /\ snap.status # "FINISHED"
      /\ g.score.status # "SCHEDULED"
  BY <1>1, <1>2, RestoredPlayed
<1>4. game' = [game EXCEPT ![m] = h] /\ handSet' = handSet
  BY DEF Undo, LastEvent, refereeVars
<1>5. game' \in [Match -> GameType]
  BY <1>3, <1>4 DEF IInv, TypeOK
<1>6. player \in [Match -> [Slot -> Player \cup {NoPlayer}]]
  BY DEF IInv, TypeOK
<1>7. CASE ~EndedByLastPoint(m)
  <2>1. player' = player
    BY <1>7 DEF Undo
  <2>2. StatusOf(m) # "FINISHED"
    <3>1. LastEvent(m).snapshot.status # "FINISHED"
      BY <1>3 DEF LastEvent
    <3> QED
      BY <1>1, <1>7, <3>1 DEF EndedByLastPoint, Played, StatusOf
  <2>3. StatusOf(m) # "SCHEDULED"
    BY <1>3 DEF StatusOf
  <2> HIDE DEF h, snap
  <2>4. /\ \A n \in Match : Played(game'[n])
        /\ StartedIsPaired'
        /\ SlotFollowsFeeder'
    BY <1>3, <1>4, <2>1, <2>2, <2>3, OpenStep
  <2> QED
    BY <1>5, <1>6, <2>1, <2>4
<1>8. CASE EndedByLastPoint(m)
  <2> HIDE DEF h, snap
  <2>1. NextNotStarted(m) /\ player' = Unpropagated(m)
    BY <1>8 DEF Undo
  <2>2. player' \in [Match -> [Slot -> Player \cup {NoPlayer}]]
    BY <1>6, <2>1 DEF Unpropagated
  <2>3. \A n \in Match, s \in Slot :
           player'[n][s] = IF <<n, s>> \in {WinnerTo[m], LoserTo[m]}
                           THEN NoPlayer ELSE player[n][s]
    BY <2>1 DEF Unpropagated, NextNotStarted
  <2>4. \A n \in Match, s \in Slot :
           StatusOf(n) # "SCHEDULED" => player'[n][s] = player[n][s]
    BY <2>1 DEF Unpropagated
  <2>5. /\ game'[m] = h
        /\ \A n \in Match : n # m => game'[n] = game[n]
    BY <1>4 DEF IInv, TypeOK
  <2>6. \A n \in Match : Played(game'[n])
    BY <1>3, <2>5 DEF IInv
  <2>7. StartedIsPaired'
    BY <1>3, <1>4, <2>4, <2>5 DEF IInv, StartedIsPaired, StatusOf, ByHand
  <2>8. SlotFollowsFeeder'
    <3> SUFFICES ASSUME NEW k \in Match, NEW n \in Match, NEW s \in Slot,
                        ~ByHand(n, s)'
                 PROVE  /\ WinnerTo[k] = <<n, s>> =>
                              player'[n][s] = IF StatusOf(k)' = "FINISHED"
                                              THEN game'[k].winner
                                              ELSE NoPlayer
                        /\ LoserTo[k] = <<n, s>> =>
                              IF StatusOf(k)' = "FINISHED"
                              THEN ~ByHand(k, 1)' /\ ~ByHand(k, 2)' =>
                                      player'[n][s] = Loser(k, game[k].winner)'
                              ELSE player'[n][s] = NoPlayer
      BY DEF SlotFollowsFeeder
    <3>1. CASE k = m
      <4>1. StatusOf(k)' # "FINISHED"
        BY <1>3, <2>5, <3>1 DEF StatusOf
      <4> QED
        BY <2>3, <3>1, <4>1
    <3>2. CASE k # m /\ <<n, s>> \in {WinnerTo[k], LoserTo[k]}
      <4>1. <<n, s>> # NoDest
        BY BracketAssumption DEF Dest
      <4>2. <<n, s>> # WinnerTo[m] /\ <<n, s>> # LoserTo[m]
        BY <3>2, <4>1, BracketAssumption
      <4>3. player'[n][s] = player[n][s] /\ game'[k] = game[k]
        BY <2>3, <2>5, <3>2, <4>2
      <4>4. StatusOf(k) = "FINISHED" =>
               Loser(k, game[k].winner)' = Loser(k, game[k].winner)
        <5>1. StatusOf(k) = "FINISHED" =>
                 player'[k][1] = player[k][1] /\ player'[k][2] = player[k][2]
          BY <2>4 DEF Slot
        <5> QED
          BY <4>3, <5>1 DEF Loser
      <4>5. StatusOf(k)' = StatusOf(k)
        BY <4>3 DEF StatusOf
      <4>6. ByHand(k, 1)' = ByHand(k, 1) /\ ByHand(k, 2)' = ByHand(k, 2)
        BY <1>4 DEF ByHand
      <4>7. /\ WinnerTo[k] = <<n, s>> =>
                  player[n][s] = IF StatusOf(k) = "FINISHED"
                                 THEN game[k].winner ELSE NoPlayer
            /\ LoserTo[k] = <<n, s>> =>
                  IF StatusOf(k) = "FINISHED"
                  THEN ~ByHand(k, 1) /\ ~ByHand(k, 2) =>
                          player[n][s] = Loser(k, game[k].winner)
                  ELSE player[n][s] = NoPlayer
        BY <1>4 DEF IInv, SlotFollowsFeeder, ByHand
      <4> QED
        BY <4>3, <4>4, <4>5, <4>6, <4>7
    <3> QED
      BY <3>1, <3>2
  <2> QED
    BY <1>5, <2>2, <2>4, <2>6, <2>7, <2>8
<1> QED
  BY <1>7, <1>8

(* The two ways a match goes forward: it ends, or it stays open. *)
LEMMA ForwardStep ==
    ASSUME IInv, NEW m \in Match, NEW g \in GameType, Played(g),
           StatusOf(m) # "FINISHED",
           g.score.status # StatusOf(m) => BothPlayers(m),
           g.score.status = "FINISHED" =>
               g.winner \in {player[m][1], player[m][2]},
           game' = [game EXCEPT ![m] = g],
           player' = IF g.score.status = "FINISHED"
                     THEN Propagated(m, g.winner, Loser(m, g.winner))
                     ELSE player,
           handSet' = handSet
    PROVE  /\ game' \in [Match -> GameType]
           /\ player' \in [Match -> [Slot -> Player \cup {NoPlayer}]]
           /\ \A n \in Match : Played(game'[n])
           /\ StartedIsPaired'
           /\ SlotFollowsFeeder'
           /\ \A n \in Match, s \in Slot :
                 StatusOf(n) # "SCHEDULED" /\ ~ByHand(n, s) =>
                     player'[n][s] = player[n][s]
<1>1. game' \in [Match -> GameType]
  BY DEF IInv, TypeOK
<1>2. player \in [Match -> [Slot -> Player \cup {NoPlayer}]]
  BY DEF IInv, TypeOK
<1>3. CASE g.score.status # "FINISHED"
  BY <1>1, <1>2, <1>3, OpenStep
<1>4. CASE g.score.status = "FINISHED"
  <2> DEFINE l == Loser(m, g.winner)
  <2>1. BothPlayers(m)
    BY <1>4
  <2>2. g.winner \in Player \cup {NoPlayer} /\ l \in Player \cup {NoPlayer}
    BY <1>2, <1>4 DEF Loser, Slot
  <2>3. player' = Propagated(m, g.winner, l)
    BY <1>4
  <2>4. player' \in [Match -> [Slot -> Player \cup {NoPlayer}]]
    <3> HIDE DEF l
    <3> QED
      BY <1>2, <2>2, <2>3 DEF Propagated
  <2> QED
    BY <1>1, <1>4, <2>1, <2>3, <2>4, FinishStep
<1> QED
  BY <1>3, <1>4

(* Points and cards (Settle). *)
LEMMA SettleStep ==
    ASSUME IInv, NEW m \in Match, NEW g \in GameType, Played(g),
           StatusOf(m) # "FINISHED",
           g.score.status # StatusOf(m) => BothPlayers(m),
           g.score.status = "FINISHED" =>
               g.winner \in {player[m][1], player[m][2]},
           Settle(m, g)
    PROVE  /\ IInv'
           /\ \A n \in Match, s \in Slot :
                 StatusOf(n) # "SCHEDULED" /\ ~ByHand(n, s) =>
                     player'[n][s] = player[n][s]
<1>1. /\ game' = [game EXCEPT ![m] = g]
      /\ player' = IF g.score.status = "FINISHED"
                   THEN Propagated(m, g.winner, Loser(m, g.winner))
                   ELSE player
      /\ UNCHANGED <<disqualified, timeouts, refereeVars>>
  BY DEF Settle
<1>2. handSet' = handSet
  BY <1>1 DEF refereeVars
<1>3. /\ game' \in [Match -> GameType]
      /\ player' \in [Match -> [Slot -> Player \cup {NoPlayer}]]
      /\ \A n \in Match : Played(game'[n])
      /\ StartedIsPaired'
      /\ SlotFollowsFeeder'
      /\ \A n \in Match, s \in Slot :
            StatusOf(n) # "SCHEDULED" /\ ~ByHand(n, s) =>
                player'[n][s] = player[n][s]
  BY <1>1, <1>2, ForwardStep
<1>4. TypeOK'
  BY <1>1, <1>3 DEF IInv, TypeOK, refereeVars
<1> QED
  BY <1>3, <1>4 DEF IInv

(* The opponent of a disqualified player wins (disqualify). *)
LEMMA DisqualifyStep ==
    ASSUME IInv, NEW m \in Match, NEW s \in Slot, Disqualify(m, s)
    PROVE  /\ IInv'
           /\ \A n \in Match, t \in Slot :
                 StatusOf(n) # "SCHEDULED" /\ ~ByHand(n, t) =>
                     player'[n][t] = player[n][t]
<1> DEFINE out == player[m][s]
           winner == player[m][Opp(s)]
           e == [type |-> "DISQUALIFY", player |-> s, snapshot |-> NoSnapshot]
           g == AfterDisqualify(game[m], s, winner)
<1>1. /\ StatusOf(m) # "FINISHED" /\ BothPlayers(m)
      /\ game' = [game EXCEPT ![m] = g]
      /\ disqualified' = [disqualified EXCEPT ![m] = out]
      /\ player' = Propagated(m, winner, out)
      /\ UNCHANGED <<timeouts, refereeVars>>
  BY DEF Disqualify, IInv, TypeOK
<1>2. /\ game[m] \in GameType /\ Played(game[m])
      /\ player[m] \in [Slot -> Player \cup {NoPlayer}]
  BY DEF IInv, TypeOK
<1>3. /\ out \in Player /\ winner \in Player /\ winner # NoPlayer
      /\ winner \in {player[m][1], player[m][2]}
      /\ out = Loser(m, winner)
  BY <1>1, <1>2, BracketAssumption DEF BothPlayers, Opp, Slot, Loser
<1>4. e \in EventType /\ e.type = "DISQUALIFY"
  BY NoGameType DEF EventType
<1> HIDE DEF e, winner, out, g
<1>5. g = [game[m] EXCEPT !.score = [@ EXCEPT !.status = "FINISHED"],
                          !.winner = winner, !.log = Append(@, e)]
  BY DEF AfterDisqualify, e, g
<1>6. /\ g.score = [game[m].score EXCEPT !.status = "FINISHED"]
      /\ g.winner = winner /\ g.log = Append(game[m].log, e)
  BY <1>2, <1>5 DEF GameType
<1>7. g.score.status = "FINISHED" /\ g.score \in Score
  BY <1>2, <1>6 DEF GameType, Score, Status
<1>8. g \in GameType
  <2>1. Append(game[m].log, e) \in Seq(EventType)
    BY <1>2, <1>4 DEF GameType
  <2>2. [game[m].score EXCEPT !.status = "FINISHED"] \in Score
    BY <1>6, <1>7
  <2> QED
    BY <1>2, <1>3, <1>5, <2>1, <2>2 DEF GameType
<1>9. Played(g)
  <2>1. game[m].log \in Seq(EventType)
    BY <1>2 DEF GameType
  <2>2. ASSUME NEW i \in DOMAIN g.log, g.log[i].type = "POINT"
        PROVE  /\ i \in DOMAIN game[m].log /\ g.log[i] = game[m].log[i]
    BY <1>4, <1>6, <2>1, <2>2
  <2> QED
    BY <1>2, <1>3, <1>6, <1>7, <2>2 DEF Played
<1>10. handSet' = handSet
  BY <1>1 DEF refereeVars
<1>11. /\ game' \in [Match -> GameType]
       /\ player' \in [Match -> [Slot -> Player \cup {NoPlayer}]]
       /\ \A n \in Match : Played(game'[n])
       /\ StartedIsPaired'
       /\ SlotFollowsFeeder'
       /\ \A n \in Match, t \in Slot :
             StatusOf(n) # "SCHEDULED" /\ ~ByHand(n, t) =>
                 player'[n][t] = player[n][t]
  BY <1>1, <1>3, <1>6, <1>7, <1>8, <1>9, <1>10, ForwardStep
<1>12. TypeOK'
  BY <1>1, <1>3, <1>11 DEF IInv, TypeOK, refereeVars
<1> QED
  BY <1>11, <1>12 DEF IInv

(* The administrator writes a slot (update). *)
LEMMA EditSlotStep ==
    ASSUME IInv, NEW m \in Match, NEW s \in Slot, NEW p \in EditPlayers,
           EditSlot(m, s, p)
    PROVE  IInv'
<1>1. /\ player' = [player EXCEPT ![m][s] = p]
      /\ handSet' = handSet \cup {<<m, s>>}
      /\ game' = game
  BY DEF EditSlot
<1>2. /\ player \in [Match -> [Slot -> Player \cup {NoPlayer}]]
      /\ p \in Player \cup {NoPlayer}
  BY ParameterAssumption DEF IInv, TypeOK
<1>3. \A n \in Match, t \in Slot :
         <<n, t>> # <<m, s>> => player'[n][t] = player[n][t]
  BY <1>1, <1>2
<1>4. TypeOK'
  BY <1>1, <1>2 DEF EditSlot, IInv, TypeOK, Dest
<1>5. StartedIsPaired'
  BY <1>1, <1>3 DEF IInv, StartedIsPaired, StatusOf, ByHand
<1>6. SlotFollowsFeeder'
  <2> SUFFICES ASSUME NEW k \in Match, NEW n \in Match, NEW t \in Slot,
                      ~ByHand(n, t)'
               PROVE  /\ WinnerTo[k] = <<n, t>> =>
                            player'[n][t] = IF StatusOf(k)' = "FINISHED"
                                            THEN game'[k].winner
                                            ELSE NoPlayer
                      /\ LoserTo[k] = <<n, t>> =>
                            IF StatusOf(k)' = "FINISHED"
                            THEN ~ByHand(k, 1)' /\ ~ByHand(k, 2)' =>
                                    player'[n][t] = Loser(k, game[k].winner)'
                            ELSE player'[n][t] = NoPlayer
    BY DEF SlotFollowsFeeder
  <2>1. ~ByHand(n, t) /\ player'[n][t] = player[n][t]
    BY <1>1, <1>3 DEF ByHand
  <2>2. ~ByHand(k, 1)' /\ ~ByHand(k, 2)' =>
           /\ ~ByHand(k, 1) /\ ~ByHand(k, 2)
           /\ player'[k][1] = player[k][1] /\ player'[k][2] = player[k][2]
    BY <1>1, <1>3 DEF ByHand, Slot
  <2>3. ~ByHand(k, 1)' /\ ~ByHand(k, 2)' =>
           Loser(k, game[k].winner)' = Loser(k, game[k].winner)
    BY <1>1, <2>2 DEF Loser
  <2>4. StatusOf(k)' = StatusOf(k)
    BY <1>1 DEF StatusOf
  <2> QED
    BY <1>1, <2>1, <2>2, <2>3, <2>4 DEF IInv, SlotFollowsFeeder
<1> QED
  BY <1>1, <1>4, <1>5, <1>6 DEF IInv

----------------------------------------------------------------------------
(* Steps of the referees *)

(* A point, also the one that ends the match (point, pointTx). *)
LEMMA PointStep ==
    ASSUME IInv, NEW m \in Match, NEW s \in Slot, Point(m, s)
    PROVE  /\ IInv'
           /\ \A n \in Match, t \in Slot :
                 StatusOf(n) # "SCHEDULED" /\ ~ByHand(n, t) =>
                     player'[n][t] = player[n][t]
<1> DEFINE g == AfterPoint(game[m], m, s)
<1>1. /\ TypeOK /\ BothPlayers(m) /\ StatusOf(m) # "FINISHED"
      /\ game[m] \in GameType /\ Played(game[m])
      /\ game[m].score.status # "FINISHED"
      /\ Settle(m, g)
  BY DEF Point, IInv, TypeOK, StatusOf
<1>2. /\ g \in GameType /\ Played(g)
      /\ g.score.status = "FINISHED" =>
            g.winner \in {player[m][1], player[m][2]}
  BY <1>1, AfterPointPlayed
<1> HIDE DEF g
<1> QED
  BY <1>1, <1>2, SettleStep

(* The cards a player had before are counted.                              *)
LEMMA PriorCardsType ==
    ASSUME NEW m \in Match, game[m] \in GameType, NEW s \in Slot
    PROVE  PriorCards(m, s) \in Nat
<1>1. game[m].cards \in Seq(Slot)
  BY DEF GameType
<1>2. IsFiniteSet(DOMAIN game[m].cards)
  <2>1. DOMAIN game[m].cards = 1..Len(game[m].cards)
    BY <1>1
  <2> QED BY <1>1, <2>1, FS_Interval
<1>3. IsFiniteSet({i \in DOMAIN game[m].cards : game[m].cards[i] = s})
  BY <1>2, FS_Subset
<1> QED BY <1>3, FS_CardinalityType DEF PriorCards

(* A yellow card with its penalty points (card). *)
LEMMA YellowStep ==
    ASSUME IInv, NEW m \in Match, NEW s \in Slot, Yellow(m, s)
    PROVE  /\ IInv'
           /\ \A n \in Match, t \in Slot :
                 StatusOf(n) # "SCHEDULED" /\ ~ByHand(n, t) =>
                     player'[n][t] = player[n][t]
<1> DEFINE points == PriorCards(m, s)
           c == AfterCard(game[m], s)
           g == AfterPenalty(c, m, Opp(s), points)
<1>1. /\ TypeOK /\ StatusOf(m) # "FINISHED"
      /\ game[m] \in GameType /\ Played(game[m])
      /\ game[m].score.status = StatusOf(m)
      /\ points > 0 => BothPlayers(m)
      /\ Settle(m, g)
  BY DEF Yellow, IInv, TypeOK, StatusOf
<1>2. points \in Nat
  BY <1>1, PriorCardsType
<1>3. /\ c \in GameType /\ Played(c)
      /\ c.score = game[m].score
  BY <1>1, AfterCardPlayed
<1>4. Opp(s) \in Slot
  BY DEF Opp, Slot
<1> HIDE DEF c, points
<1>5. /\ g \in GameType /\ Played(g)
      /\ g.score.status # c.score.status => BothPlayers(m)
      /\ g.score.status = "FINISHED" =>
            g.winner \in {player[m][1], player[m][2]}
  BY <1>1, <1>2, <1>3, <1>4, AfterPenaltyPlayed
<1> HIDE DEF g
<1> QED
  BY <1>1, <1>3, <1>5, SettleStep

(* A red card (card). *)
LEMMA RedStep ==
    ASSUME IInv, NEW m \in Match, NEW s \in Slot, Red(m, s)
    PROVE  /\ IInv'
           /\ \A n \in Match, t \in Slot :
                 StatusOf(n) # "SCHEDULED" /\ ~ByHand(n, t) =>
                     player'[n][t] = player[n][t]
<1> DEFINE g == AfterCard(game[m], s)
<1>1. /\ StatusOf(m) # "FINISHED"
      /\ game[m] \in GameType /\ Played(game[m])
      /\ game[m].score.status = StatusOf(m)
      /\ Settle(m, g)
  BY DEF Red, IInv, TypeOK, StatusOf
<1>2. /\ g \in GameType /\ Played(g) /\ g.score = game[m].score
  BY <1>1, AfterCardPlayed
<1> HIDE DEF g
<1> QED
  BY <1>1, <1>2, SettleStep

(* The last point is taken back (undo). *)
LEMMA UndoKeepsInvariant ==
    ASSUME IInv, NEW m \in Match, Undo(m)
    PROVE  IInv'
<1>2. /\ game' \in [Match -> GameType]
      /\ player' \in [Match -> [Slot -> Player \cup {NoPlayer}]]
      /\ \A n \in Match : Played(game'[n])
      /\ StartedIsPaired'
      /\ SlotFollowsFeeder'
  BY UndoStep
<1>3. TypeOK'
  BY <1>2 DEF Undo, IInv, TypeOK, refereeVars
<1> QED
  BY <1>2, <1>3 DEF IInv

(* The steps that touch neither the score nor the slots. *)
LEMMA OtherStep ==
    ASSUME IInv, NEW m \in Match,
           \/ \E u \in User : Verify(m, u) \/ VerifyWrong(m, u)
           \/ \E s \in Slot : Timeout(m, s)
           \/ RegenerateCode(m)
           \/ EditRead(m)
           \/ \E b \in EditBestOf : EditFormat(m, b)
    PROVE  IInv' /\ game' = game /\ player' = player /\ handSet' = handSet
<1>1. game' = game /\ player' = player /\ handSet' = handSet
  BY DEF Verify, VerifyWrong, Timeout, RegenerateCode, EditRead, EditFormat,
         refereeVars
<1>2. TypeOK'
  <2>1. ASSUME NEW u \in User, Verify(m, u) PROVE TypeOK'
    BY <2>1, ParameterAssumption DEF Verify, IInv, TypeOK
  <2>2. ASSUME NEW u \in User, VerifyWrong(m, u) PROVE TypeOK'
    BY <2>2, ParameterAssumption DEF VerifyWrong, MayEnter, IInv, TypeOK
  <2>3. ASSUME NEW s \in Slot, Timeout(m, s) PROVE TypeOK'
    BY <2>3 DEF Timeout, IInv, TypeOK, refereeVars
  <2>4. CASE RegenerateCode(m)
    BY <2>4, ParameterAssumption DEF RegenerateCode, IInv, TypeOK
  <2>5. CASE EditRead(m)
    BY <2>5 DEF EditRead, IInv, TypeOK
  <2>6. ASSUME NEW b \in EditBestOf, EditFormat(m, b) PROVE TypeOK'
    BY <2>6, ParameterAssumption DEF EditFormat, IInv, TypeOK
  <2> QED
    BY <2>1, <2>2, <2>3, <2>4, <2>5, <2>6
<1> QED
  BY <1>1, <1>2, QuietStep DEF IInv

----------------------------------------------------------------------------
(* The invariant *)

(* Every step keeps the invariant. *)
LEMMA NextStep == IInv /\ [Next]_vars => IInv'
<1> SUFFICES ASSUME IInv, [Next]_vars PROVE IInv'
  OBVIOUS
<1>1. CASE UNCHANGED vars
  BY <1>1, QuietStep DEF vars, IInv, TypeOK
<1>2. ASSUME NEW m \in Match, RefereeStep(m) PROVE IInv'
  BY <1>2, OtherStep, PointStep, YellowStep, RedStep, DisqualifyStep,
     UndoKeepsInvariant DEF RefereeStep
<1>3. ASSUME NEW m \in Match, AdminStep(m) PROVE IInv'
  BY <1>3, OtherStep, EditSlotStep DEF AdminStep
<1> QED
  BY <1>1, <1>2, <1>3 DEF Next

(* It holds when the draw has made the matches: slots that are fed are     *)
(* empty and nothing has been played.                                      *)
LEMMA InitStep == Init => IInv
<1> SUFFICES ASSUME Init PROVE IInv
  OBVIOUS
<1>1. TypeOK
  BY NoGameType, BracketAssumption, ParameterAssumption DEF Init, TypeOK
<1>2. \A m \in Match : game[m] = NoGame /\ StatusOf(m) = "SCHEDULED"
  BY DEF Init, StatusOf, NoGame, InitialState
<1>3. \A m \in Match : Played(game[m])
  BY <1>2 DEF Played, NoGame, InitialState
<1>4. StartedIsPaired
  BY <1>2 DEF StartedIsPaired
<1>5. SlotFollowsFeeder
  <2> SUFFICES ASSUME NEW m \in Match, NEW n \in Match, NEW s \in Slot,
                      WinnerTo[m] = <<n, s>> \/ LoserTo[m] = <<n, s>>
               PROVE  player[n][s] = NoPlayer
    BY <1>2 DEF SlotFollowsFeeder
  <2>1. <<n, s>> \in Dest /\ <<n, s>>[1] = n /\ <<n, s>>[2] = s
    BY DEF Dest
  <2>2. Entry[<<n, s>>[1]][<<n, s>>[2]] = NoPlayer
    BY <2>1, BracketAssumption
  <2> QED
    BY <2>1, <2>2 DEF Init
<1> QED
  BY <1>1, <1>3, <1>4, <1>5 DEF IInv

(* The inductive invariant holds in every behaviour of the bracket. *)
THEOREM Invariance == Spec => []IInv
  BY InitStep, NextStep, PTL DEF Spec

(* Every variable keeps its type (matches.service.ts). *)
THEOREM TypeCorrect == Spec => []TypeOK
<1>1. IInv => TypeOK
  BY DEF IInv
<1> QED
  BY <1>1, Invariance, PTL

(* Whatever is played, undone and replayed, in whatever order, a slot that *)
(* nobody has written by hand shows the present result of the match that   *)
(* feeds it (propagateWinner, unpropagateWinner and their loser twins).    *)
THEOREM SlotsFollow == Spec => []SlotFollowsFeeder
<1>1. IInv => SlotFollowsFeeder
  BY DEF IInv
<1> QED
  BY <1>1, Invariance, PTL

(* No referee's step ever changes who plays a match that has started: undo *)
(* stops at the first point of a later match (assertNextNotStarted).       *)
THEOREM PairsAreFixed == Spec => StartedPairIsFixed
<1> DEFINE Frozen == \A m \in Match : \A s \in Slot :
                        StatusOf(m) # "SCHEDULED" /\ <<m, s>> \notin handSet' =>
                            player'[m][s] = player[m][s]
<1>1. IInv /\ [Next]_vars => [Frozen]_vars
  <2> SUFFICES ASSUME IInv, Next PROVE Frozen
    OBVIOUS
  <2>1. ASSUME NEW m \in Match, RefereeStep(m) PROVE Frozen
    <3>1. CASE Undo(m)
      BY <3>1, UndoStep
    <3>2. handSet' = handSet
      BY <2>1, OtherStep DEF RefereeStep, Point, Yellow, Red, Settle, Disqualify,
                  Undo, refereeVars
    <3> QED
      BY <2>1, <3>1, <3>2, OtherStep, PointStep, YellowStep, RedStep,
         DisqualifyStep DEF RefereeStep, ByHand
  <2>2. ASSUME NEW m \in Match, AdminStep(m) PROVE Frozen
    <3>1. ASSUME NEW s \in Slot, NEW p \in EditPlayers, EditSlot(m, s, p)
          PROVE  Frozen
      BY <3>1 DEF EditSlot, IInv, TypeOK
    <3> QED
      BY <2>2, <3>1, OtherStep DEF AdminStep
  <2> QED
    BY <2>1, <2>2 DEF Next
<1> QED
  BY <1>1, Invariance, PTL DEF Spec, StartedPairIsFixed

----------------------------------------------------------------------------
(* Winners *)

(* Only a match that is over has a winner, and no snapshot of a point has  *)
(* one, so undo leaves none behind.                                        *)
NoWinnerYet(g) ==
    /\ g.score.status # "FINISHED" => g.winner = NoPlayer
    /\ \A i \in DOMAIN g.log :
          g.log[i].type = "POINT" => g.log[i].snapshot.winner = NoPlayer

OwnPair(m) == ~ByHand(m, 1) /\ ~ByHand(m, 2)

ResultStands(m) ==
    /\ NoWinnerYet(game[m])
    /\ disqualified[m] # NoPlayer => StatusOf(m) = "FINISHED"
    /\ StatusOf(m) = "FINISHED" /\ OwnPair(m) =>
          \E s \in Slot : game[m].winner = player[m][s]

ResultsStand == \A m \in Match : ResultStands(m)

(* A point, a card and its penalty points, and undo (pointTx, card, undo). *)
LEMMA AfterPointNoWinner ==
    ASSUME NEW m \in Match, NEW s \in Slot, NEW g \in GameType, NoWinnerYet(g),
           g.score.status # "FINISHED", AfterPoint(g, m, s) \in GameType
    PROVE  NoWinnerYet(AfterPoint(g, m, s))
<1> DEFINE r == ApplyPoint(g.score, bestOf[m], s)
           e == [type |-> "POINT", player |-> s, snapshot |-> Snapshot(g)]
           h == AfterPoint(g, m, s)
<1>1. e.type = "POINT" /\ e.snapshot.winner = NoPlayer
  BY DEF Snapshot, NoWinnerYet
<1>2. /\ h.score = [r EXCEPT !.winnerSlot = 0]
      /\ h.winner = IF r.status = "FINISHED" THEN player[m][r.winnerSlot] ELSE g.winner
      /\ h.log = Append(g.log, e)
  BY DEF AfterPoint, GameType
<1>3. h.score.status = "FINISHED" <=> r.status = "FINISHED"
  <2>1. r.status = "FINISHED" => h.score.status = "FINISHED"
    BY <1>2 DEF ApplyPoint, GameType, Score
  <2>2. h.score.status = "FINISHED" => r.status = "FINISHED"
    BY <1>2 DEF ApplyPoint, GameType, Score
  <2> QED BY <2>1, <2>2
<1> HIDE DEF r, e, h
<1>4. h.score.status # "FINISHED" => h.winner = NoPlayer
  BY <1>2, <1>3 DEF NoWinnerYet
<1>5. g.log \in Seq(EventType)
  BY DEF GameType
<1>6. \A i \in DOMAIN h.log : h.log[i].type = "POINT" => h.log[i].snapshot.winner = NoPlayer
  BY <1>1, <1>2, <1>5 DEF NoWinnerYet
<1> QED BY <1>4, <1>6 DEF NoWinnerYet, h

LEMMA AfterCardNoWinner ==
    ASSUME NEW g \in GameType, NoWinnerYet(g), NEW s \in Slot
    PROVE  NoWinnerYet(AfterCard(g, s))
<1> DEFINE e == [type |-> "CARD", player |-> s, snapshot |-> NoSnapshot]
           h == AfterCard(g, s)
<1>1. h.score = g.score /\ h.winner = g.winner /\ h.log = Append(g.log, e) /\ e.type # "POINT"
  BY DEF AfterCard, GameType
<1>2. g.log \in Seq(EventType)
  BY DEF GameType
<1> HIDE DEF e, h
<1>3. NoWinnerYet(h)
  BY <1>1, <1>2 DEF NoWinnerYet
<1> QED BY <1>3 DEF h

LEMMA AfterPenaltyNoWinner ==
    ASSUME TypeOK, NEW m \in Match, NEW s \in Slot, NEW n \in Nat,
           n > 0 => BothPlayers(m),
           NEW g \in GameType, Played(g), NoWinnerYet(g), g.score.status # "FINISHED"
    PROVE  NoWinnerYet(AfterPenalty(g, m, s, n))
<1> DEFINE one == AfterPoint(g, m, s)
<1>1. CASE n = 0
  BY <1>1 DEF AfterPenalty
<1>2. CASE n > 0
  <2>1. PenaltyPoint(g, m, s) = one
    BY DEF PenaltyPoint
  <2>2. one \in GameType /\ Played(one)
    BY <1>2, AfterPointPlayed
  <2>3. NoWinnerYet(one)
    BY <2>2, AfterPointNoWinner
  <2>4. AfterPenalty(g, m, s, n) \in {one, PenaltyPoint(one, m, s)}
    BY <1>2, <2>1 DEF AfterPenalty
  <2> HIDE DEF one
  <2>5. CASE one.score.status = "FINISHED"
    BY <2>3, <2>4, <2>5 DEF PenaltyPoint
  <2>6. CASE one.score.status # "FINISHED"
    <3>1. AfterPoint(one, m, s) \in GameType
      BY <1>2, <2>2, <2>6, AfterPointPlayed
    <3>2. NoWinnerYet(AfterPoint(one, m, s))
      BY <2>2, <2>3, <2>6, <3>1, AfterPointNoWinner
    <3> QED BY <2>3, <2>4, <2>6, <3>2 DEF PenaltyPoint
  <2> QED BY <2>5, <2>6
<1> QED BY <1>1, <1>2

LEMMA RestoredNoWinner ==
    ASSUME NEW g \in GameType, NoWinnerYet(g), g.log # <<>>,
           g.log[Len(g.log)].type = "POINT"
    PROVE  NoWinnerYet(Restored(g, g.log[Len(g.log)].snapshot))
<1> DEFINE n == Len(g.log)
           h == Restored(g, g.log[n].snapshot)
<1>1. g.log \in Seq(EventType) /\ n \in Nat \ {0} /\ n \in DOMAIN g.log
  BY DEF GameType
<1>2. h.winner = g.log[n].snapshot.winner /\ h.log = SubSeq(g.log, 1, n - 1)
  BY DEF Restored
<1>3. \A i \in DOMAIN h.log : i \in DOMAIN g.log /\ h.log[i] = g.log[i]
  BY <1>1, <1>2
<1>4. h.winner = NoPlayer
  BY <1>1, <1>2 DEF NoWinnerYet
<1> HIDE DEF h
<1>5. NoWinnerYet(h)
  BY <1>3, <1>4 DEF NoWinnerYet
<1> QED BY <1>5 DEF h

(* A match that does not end or reopen keeps its result: who plays it does *)
(* not change any more.                                                    *)
LEMMA OthersStand ==
    ASSUME NEW n \in Match, ResultStands(n),
           game'[n] = game[n], disqualified'[n] = disqualified[n],
           handSet \subseteq handSet',
           \A s \in Slot : StatusOf(n) # "SCHEDULED" /\ ~ByHand(n, s)' =>
                               player'[n][s] = player[n][s]
    PROVE  ResultStands(n)'
<1>1. StatusOf(n)' = StatusOf(n) /\ (OwnPair(n)' => OwnPair(n))
  BY DEF StatusOf, OwnPair, ByHand
<1>2. StatusOf(n) = "FINISHED" /\ OwnPair(n)' =>
          player'[n][1] = player[n][1] /\ player'[n][2] = player[n][2]
  BY <1>1 DEF OwnPair, Slot
<1> QED BY <1>1, <1>2 DEF ResultStands, Slot

(* A point or a card, and the end it may bring (pointTx, card).            *)
LEMMA SettleResult ==
    ASSUME IInv, NEW m \in Match, ResultStands(m), NEW g \in GameType, NoWinnerYet(g),
           StatusOf(m) # "FINISHED",
           g.score.status = "FINISHED" => g.winner \in {player[m][1], player[m][2]},
           Settle(m, g)
    PROVE  ResultStands(m)'
<1>1. /\ game'[m] = g /\ disqualified'[m] = NoPlayer /\ handSet' = handSet
      /\ \A s \in Slot : player'[m][s] = player[m][s]
  <2>1. \A s \in Slot : player'[m][s] = player[m][s]
    BY PropagatedSlots DEF Settle, IInv
  <2> QED BY <2>1 DEF Settle, IInv, TypeOK, ResultStands, refereeVars
<1>2. /\ StatusOf(m)' = g.score.status /\ (OwnPair(m)' <=> OwnPair(m))
  BY <1>1 DEF StatusOf, OwnPair, ByHand
<1>3. g.score.status = "FINISHED" => \E s \in Slot : g.winner = player'[m][s]
  BY <1>1 DEF Slot
<1> QED BY <1>1, <1>2, <1>3 DEF ResultStands

LEMMA DisqualifyResult ==
    ASSUME IInv, NEW m \in Match, ResultStands(m), NEW s \in Slot, Disqualify(m, s)
    PROVE  ResultStands(m)'
<1> DEFINE out == player[m][s]
           winner == player[m][Opp(s)]
           e == [type |-> "DISQUALIFY", player |-> s, snapshot |-> NoSnapshot]
           g == AfterDisqualify(game[m], s, winner)
<1>1. /\ StatusOf(m) # "FINISHED" /\ Opp(s) \in Slot /\ out # NoPlayer
      /\ player' = Propagated(m, winner, out) /\ UNCHANGED handSet
      /\ game'[m] = g /\ disqualified'[m] = out
  BY DEF Disqualify, BothPlayers, Opp, Slot, refereeVars, IInv, TypeOK
<1>2. \A t \in Slot : player'[m][t] = player[m][t]
  BY <1>1, PropagatedSlots DEF IInv
<1>3. game[m] \in GameType
  BY DEF IInv, TypeOK
<1>4. /\ g.score.status = "FINISHED" /\ g.winner = winner
      /\ g.log = Append(game[m].log, e) /\ e.type # "POINT"
  BY <1>3 DEF AfterDisqualify, GameType, Score
<1>5. game[m].log \in Seq(EventType) /\ NoWinnerYet(game[m])
  BY <1>3 DEF GameType, ResultStands
<1> HIDE DEF e, g
<1>6. NoWinnerYet(g)
  BY <1>4, <1>5 DEF NoWinnerYet
<1>7. StatusOf(m)' = "FINISHED"
  BY <1>1, <1>4 DEF StatusOf
<1>8. winner = player[m][1] \/ winner = player[m][2]
  BY <1>1 DEF Opp, Slot
<1> HIDE DEF winner
<1> QED BY <1>1, <1>2, <1>4, <1>6, <1>7, <1>8 DEF ResultStands, Slot

(* Undo leaves the match without a winner.                                 *)
LEMMA UndoResult ==
    ASSUME IInv, NEW m \in Match, ResultStands(m), Undo(m)
    PROVE  ResultStands(m)'
<1> DEFINE g == game[m]
           snap == g.log[Len(g.log)].snapshot
           h == Restored(g, snap)
<1>1. /\ g \in GameType /\ Played(g) /\ NoWinnerYet(g)
      /\ g.log # <<>> /\ g.log[Len(g.log)].type = "POINT"
      /\ snap = LastEvent(m).snapshot
  BY DEF Undo, LastEvent, IInv, TypeOK, ResultStands
<1>2. /\ h.score.status = snap.status /\ snap.status # "FINISHED"
  BY <1>1, RestoredPlayed
<1>3. NoWinnerYet(h)
  BY <1>1, RestoredNoWinner
<1>4. /\ game'[m] = h /\ disqualified[m] = NoPlayer /\ disqualified' = disqualified
      /\ handSet' = handSet
  BY <1>1 DEF Undo, IInv, TypeOK, refereeVars
<1> HIDE DEF h
<1>5. StatusOf(m)' # "FINISHED"
  BY <1>2, <1>4 DEF StatusOf
<1> QED BY <1>3, <1>4, <1>5 DEF ResultStands

(* Every step: the match it is about, and the others.                      *)
LEMMA RefereeResult ==
    ASSUME IInv, ResultsStand, NEW m \in Match, RefereeStep(m)
    PROVE  ResultsStand'
<1>1. ResultStands(m)
  BY DEF ResultsStand
<1>2. game[m] \in GameType /\ Played(game[m]) /\ NoWinnerYet(game[m]) /\ TypeOK
      /\ StatusOf(m) = game[m].score.status
  BY <1>1 DEF IInv, TypeOK, ResultStands, StatusOf
<1>3. ASSUME NEW s \in Slot, Point(m, s) PROVE ResultStands(m)'
  <2> DEFINE g == AfterPoint(game[m], m, s)
  <2>1. BothPlayers(m) /\ StatusOf(m) # "FINISHED" /\ Settle(m, g)
    BY <1>3 DEF Point
  <2>2. /\ g \in GameType
        /\ g.score.status = "FINISHED" => g.winner \in {player[m][1], player[m][2]}
    BY <1>2, <2>1, AfterPointPlayed
  <2>3. NoWinnerYet(g)
    BY <1>2, <2>1, <2>2, AfterPointNoWinner
  <2> HIDE DEF g
  <2> QED BY <1>1, <2>1, <2>2, <2>3, SettleResult
<1>4. ASSUME NEW s \in Slot, Yellow(m, s) PROVE ResultStands(m)'
  <2> DEFINE points == PriorCards(m, s)
             c == AfterCard(game[m], s)
             g == AfterPenalty(c, m, Opp(s), points)
  <2>1. /\ StatusOf(m) # "FINISHED" /\ Settle(m, g) /\ (points > 0 => BothPlayers(m))
        /\ Opp(s) \in Slot
    BY <1>4 DEF Yellow, Opp, Slot
  <2>2. points \in Nat
    BY <1>2, PriorCardsType
  <2>3. c \in GameType /\ Played(c) /\ c.score = game[m].score /\ NoWinnerYet(c)
    BY <1>2, AfterCardPlayed, AfterCardNoWinner
  <2> HIDE DEF c, points
  <2>4. /\ g \in GameType
        /\ g.score.status = "FINISHED" => g.winner \in {player[m][1], player[m][2]}
    BY <1>2, <2>1, <2>2, <2>3, AfterPenaltyPlayed
  <2>5. NoWinnerYet(g)
    BY <1>2, <2>1, <2>2, <2>3, AfterPenaltyNoWinner
  <2> HIDE DEF g
  <2> QED BY <1>1, <2>1, <2>4, <2>5, SettleResult
<1>5. ASSUME NEW s \in Slot, Red(m, s) PROVE ResultStands(m)'
  <2> DEFINE g == AfterCard(game[m], s)
  <2>1. StatusOf(m) # "FINISHED" /\ Settle(m, g)
    BY <1>5 DEF Red
  <2>2. g \in GameType /\ g.score = game[m].score /\ NoWinnerYet(g)
    BY <1>2, AfterCardPlayed, AfterCardNoWinner
  <2> HIDE DEF g
  <2> QED BY <1>1, <1>2, <2>1, <2>2, SettleResult
<1>6. CASE (\E u \in User : Verify(m, u) \/ VerifyWrong(m, u)) \/ \E s \in Slot : Timeout(m, s)
  <2>1. UNCHANGED <<game, player, disqualified, handSet>>
    BY <1>6 DEF Verify, VerifyWrong, Timeout, refereeVars
  <2> QED BY <2>1, OthersStand DEF ResultsStand
<1>7. CASE ~((\E u \in User : Verify(m, u) \/ VerifyWrong(m, u)) \/ \E s \in Slot : Timeout(m, s))
  <2>1. ResultStands(m)'
    BY <1>1, <1>3, <1>4, <1>5, <1>7, DisqualifyResult, UndoResult DEF RefereeStep
  <2>2. \A n \in Match, s \in Slot :
           StatusOf(n) # "SCHEDULED" /\ ~ByHand(n, s) => player'[n][s] = player[n][s]
    BY <1>7, PointStep, YellowStep, RedStep, DisqualifyStep, UndoStep DEF RefereeStep
  <2>3. handSet' = handSet /\ \A n \in Match \ {m} : /\ game'[n] = game[n]
                                                     /\ disqualified'[n] = disqualified[n]
    BY <1>7 DEF RefereeStep, Point, Yellow, Red, Disqualify, Undo, Settle, refereeVars,
                IInv, TypeOK
  <2>4. \A n \in Match \ {m} : ResultStands(n)'
    BY <2>2, <2>3, OthersStand DEF ResultsStand, ByHand
  <2> QED BY <2>1, <2>4 DEF ResultsStand
<1> QED BY <1>6, <1>7

LEMMA AdminResult ==
    ASSUME IInv, ResultsStand, NEW m \in Match, AdminStep(m)
    PROVE  ResultsStand'
<1>1. /\ UNCHANGED <<game, disqualified>> /\ handSet \subseteq handSet'
      /\ \A n \in Match, s \in Slot : <<n, s>> \notin handSet' => player'[n][s] = player[n][s]
  <2>1. CASE \E s \in Slot, p \in EditPlayers : EditSlot(m, s, p)
    BY <2>1 DEF EditSlot, IInv, TypeOK
  <2> QED BY <2>1 DEF AdminStep, RegenerateCode, EditRead, EditFormat
<1> QED BY <1>1, OthersStand DEF ResultsStand, ByHand

LEMMA ResultStep == IInv /\ ResultsStand /\ [Next]_vars => ResultsStand'
<1> SUFFICES ASSUME IInv, ResultsStand, [Next]_vars PROVE ResultsStand'
  OBVIOUS
<1>1. CASE UNCHANGED vars
  BY <1>1, OthersStand DEF ResultsStand, vars
<1> QED BY <1>1, RefereeResult, AdminResult DEF Next

LEMMA ResultInit == Init => ResultsStand
<1> SUFFICES ASSUME Init, NEW m \in Match PROVE ResultStands(m)
  BY DEF ResultsStand
<1>1. game[m] = NoGame /\ disqualified[m] = NoPlayer
  BY DEF Init
<1> QED BY <1>1 DEF ResultStands, NoWinnerYet, StatusOf, NoGame, InitialState

(* The inductive invariant of results: an open match and the snapshots of  *)
(* its points have no winner, a disqualification ends its match, and the   *)
(* winner of a finished one is of its pair (point, disqualify, undo,       *)
(* update).                                                                *)
THEOREM ResultsAlwaysStand == Spec => []ResultsStand
  BY ResultInit, ResultStep, Invariance, PTL DEF Spec

(* winnerId, the status and the slots move together: a match is over if    *)
(* and only if it has a winner, and that is one of its two players         *)
(* (pointTx, disqualify, undo).                                            *)
THEOREM WinnersPlayed == Spec => []WinnerIsOneOfThePair
<1>1. IInv /\ ResultsStand => WinnerIsOneOfThePair
  BY DEF IInv, Played, ResultsStand, ResultStands, NoWinnerYet, StatusOf,
         WinnerIsOneOfThePair, OwnPair
<1> QED BY <1>1, ResultsAlwaysStand, Invariance, PTL

----------------------------------------------------------------------------
(* The score is the replay of the log *)

(* Every set of numbers that is not empty has a least element.             *)
LEMMA LeastNumber ==
    ASSUME NEW T \in SUBSET Nat, T # {}
    PROVE  \E x \in T : \A y \in T : x <= y
<1> DEFINE R == OpToRel(<, Nat)
<1>1. IsWellFoundedOn(R, Nat)
  BY NatLessThanWellFounded
<1>2. \A x, y \in Nat : x < y => <<x, y>> \in R
  BY DEF OpToRel
<1> HIDE DEF R
<1>3. PICK x \in T : \A y \in T : ~(<<y, x>> \in R)
  BY <1>1, WFMin
<1>4. ASSUME NEW y \in T PROVE x <= y
  <2>1. ~(y < x)
    BY <1>2, <1>3
  <2>2. x \in Nat /\ y \in Nat
    OBVIOUS
  <2> QED BY <2>1, <2>2
<1> QED BY <1>4

(* The scores a log leads through, from nothing to what it replays to.     *)
NextScore(st, b, e) == IF e.type = "POINT" THEN ApplyPoint(st, b, e.player) ELSE st

Trace(log, b, tr) ==
    /\ tr \in [0..Len(log) -> Score]
    /\ tr[0] = InitialState
    /\ \A i \in 1..Len(log) : tr[i] = NextScore(tr[i - 1], b, log[i])

(* There is only one such trace, so the replay is its last score.          *)
LEMMA ReplayIsTrace ==
    ASSUME NEW m \in Match, game[m] \in GameType, NEW tr,
           Trace(game[m].log, bestOf[m], tr)
    PROVE  ReplayOf(m) = tr[Len(game[m].log)]
<1> DEFINE log == game[m].log
           n == Len(log)
           R(f) == [i \in 0..n |->
                       IF i = 0 THEN InitialState
                       ELSE IF log[i].type = "POINT"
                            THEN ApplyPoint(f[i - 1], bestOf[m], log[i].player)
                            ELSE f[i - 1]]
           at == CHOOSE f : f = R(f)
<1>1. ReplayOf(m) = at[n]
  BY DEF ReplayOf
<1>2. n \in Nat
  BY DEF GameType
<1>3. tr = R(tr)
  <2>1. tr = [i \in 0..n |-> tr[i]]
    BY DEF Trace
  <2>2. \A i \in 0..n : tr[i] = R(tr)[i]
    <3> TAKE i \in 0..n
    <3>1. CASE i = 0
      BY <3>1 DEF Trace
    <3>2. CASE i # 0
      <4>1. i \in 1..n
        BY <1>2, <3>2
      <4> QED BY <3>2, <4>1 DEF Trace, NextScore
    <3> QED BY <3>1, <3>2
  <2>3. R(tr) = [i \in 0..n |-> R(tr)[i]]
    OBVIOUS
  <2> HIDE DEF R
  <2> QED BY <2>1, <2>2, <2>3
<1>4. at = R(at)
  <2> HIDE DEF R
  <2> QED BY <1>3
<1>5. /\ at[0] = InitialState
      /\ \A i \in 1..n : at[i] = NextScore(at[i - 1], bestOf[m], log[i])
  <2>1. \A i \in 0..n : at[i] = R(at)[i]
    BY <1>4
  <2> HIDE DEF at
  <2>2. 0 \in 0..n /\ \A i \in 1..n : i \in 0..n /\ i # 0
    BY <1>2
  <2>3. at[0] = InitialState
    BY <2>1, <2>2
  <2>4. ASSUME NEW i \in 1..n PROVE at[i] = NextScore(at[i - 1], bestOf[m], log[i])
    BY <2>1, <2>2 DEF NextScore
  <2> QED BY <2>3, <2>4
<1> HIDE DEF at, R
<1>6. at[n] = tr[n]
  <2> SUFFICES ASSUME at[n] # tr[n] PROVE FALSE
    OBVIOUS
  <2> DEFINE T == {i \in 0..n : at[i] # tr[i]}
  <2>1. T \in SUBSET Nat /\ T # {}
    BY <1>2
  <2>2. PICK k \in T : \A j \in T : k <= j
    BY <2>1, LeastNumber
  <2>3. k \in 0..n /\ at[k] # tr[k]
    OBVIOUS
  <2>4. k # 0
    BY <1>5, <2>3 DEF Trace
  <2>5. k \in 1..n /\ k - 1 \in 0..n /\ ~(k <= k - 1)
    BY <1>2, <2>3, <2>4
  <2>6. at[k - 1] = tr[k - 1]
    BY <2>2, <2>5
  <2>7. at[k] = tr[k]
    BY <1>5, <2>5, <2>6 DEF Trace
  <2> QED BY <2>3, <2>7
<1> QED BY <1>1, <1>6

(* Scores that differ at most in status and winning slot.                  *)
Alike(x, y) == x.cur = y.cur /\ x.won = y.won /\ x.sets = y.sets

(* What a point leads to does not depend on those two.                     *)
LEMMA ApplyPointAlike ==
    ASSUME NEW x \in Score, NEW y \in Score, Alike(x, y), NEW b, NEW s \in Slot
    PROVE  /\ Alike(ApplyPoint(x, b, s), ApplyPoint(y, b, s))
           /\ ApplyPoint(x, b, s).status = ApplyPoint(y, b, s).status
<1> DEFINE cur == [x.cur EXCEPT ![s] = @ + 1]
<1>1. cur = [y.cur EXCEPT ![s] = @ + 1] /\ x.won = y.won /\ x.sets = y.sets
  BY DEF Alike
<1>2. CASE ~IsSetWon(cur)
  <2>1. /\ ApplyPoint(x, b, s) = [x EXCEPT !.status = "LIVE", !.cur = cur]
        /\ ApplyPoint(y, b, s) = [y EXCEPT !.status = "LIVE", !.cur = cur]
    BY <1>1, <1>2 DEF ApplyPoint
  <2> HIDE DEF cur
  <2> QED BY <1>1, <2>1 DEF Score, Alike
<1>3. CASE IsSetWon(cur)
  BY <1>1, <1>3 DEF ApplyPoint, Alike
<1> QED BY <1>2, <1>3

(* A point changes the sets by at most one more set.                       *)
LEMMA ApplyPointSets ==
    ASSUME NEW x \in Score, NEW b \in Nat \ {0}, NEW s \in Slot
    PROVE  \/ ApplyPoint(x, b, s).sets = x.sets
           \/ \E set \in SetScore : ApplyPoint(x, b, s).sets = Append(x.sets, set)
<1> DEFINE cur == [x.cur EXCEPT ![s] = @ + 1]
<1>1. cur \in SetScore
  BY DEF Score, SetScore, Slot
<1>2. CASE ~IsSetWon(cur)
  <2>1. ApplyPoint(x, b, s) = [x EXCEPT !.status = "LIVE", !.cur = cur]
    BY <1>2 DEF ApplyPoint
  <2> QED BY <2>1 DEF Score
<1>3. CASE IsSetWon(cur)
  <2>1. ApplyPoint(x, b, s).sets = Append(x.sets, cur)
    BY <1>3 DEF ApplyPoint
  <2> QED BY <1>1, <2>1
<1> QED BY <1>2, <1>3

(* A log that grows by an event, or loses its last, has the trace that     *)
(* grows or shrinks with it.                                               *)
LEMMA LongerTrace ==
    ASSUME NEW log \in Seq(EventType), NEW b \in Nat \ {0}, NEW tr, Trace(log, b, tr),
           NEW e \in EventType
    PROVE  /\ Trace(Append(log, e), b,
                    [i \in 0..(Len(log) + 1) |->
                        IF i = Len(log) + 1 THEN NextScore(tr[Len(log)], b, e) ELSE tr[i]])
           /\ tr[Len(log)] \in Score
<1> DEFINE n == Len(log)
           st == NextScore(tr[n], b, e)
           longer == [i \in 0..(n + 1) |-> IF i = n + 1 THEN st ELSE tr[i]]
<1>1. /\ n \in Nat /\ Len(Append(log, e)) = n + 1 /\ Append(log, e)[n + 1] = e
      /\ \A i \in 1..n : Append(log, e)[i] = log[i]
  OBVIOUS
<1>2. tr[n] \in Score /\ e.player \in Slot
  BY <1>1 DEF Trace, EventType
<1>3. st \in Score
  BY <1>2, ApplyPointType DEF NextScore
<1> HIDE DEF st
<1>4. longer \in [0..(n + 1) -> Score]
  BY <1>1, <1>3 DEF Trace
<1>5. longer[0] = InitialState
  BY <1>1 DEF Trace
<1>6. ASSUME NEW i \in 1..(n + 1)
      PROVE  longer[i] = NextScore(longer[i - 1], b, Append(log, e)[i])
  <2>1. CASE i = n + 1
    <3>1. longer[i] = st /\ longer[i - 1] = tr[n]
      BY <1>1, <2>1
    <3> QED BY <1>1, <2>1, <3>1 DEF st
  <2>2. CASE i # n + 1
    <3>1. i \in 1..n /\ longer[i] = tr[i] /\ longer[i - 1] = tr[i - 1]
      BY <1>1, <2>2
    <3> QED BY <1>1, <3>1 DEF Trace
  <2> QED BY <2>1, <2>2
<1> HIDE DEF longer
<1>7. Trace(Append(log, e), b, longer)
  BY <1>1, <1>4, <1>5, <1>6 DEF Trace
<1> QED BY <1>2, <1>7 DEF longer, st

(* A log without its last event.                                           *)
LEMMA ShorterLog ==
    ASSUME NEW log \in Seq(EventType), log # <<>>
    PROVE  /\ Len(log) \in Nat \ {0} /\ Len(SubSeq(log, 1, Len(log) - 1)) = Len(log) - 1
           /\ \A i \in 1..(Len(log) - 1) : SubSeq(log, 1, Len(log) - 1)[i] = log[i]
<1> DEFINE n == Len(log)
<1>1. n \in Nat \ {0}
  OBVIOUS
<1>2. n - 1 \in Nat /\ 1 \in Int /\ \A i \in 1..(n - 1) : i \in 1..n
  BY <1>1
<1>3. \A i \in 1..(n - 1) : log[i] \in EventType
  BY <1>1, <1>2
<1> HIDE DEF n
<1>4. /\ Len(SubSeq(log, 1, n - 1)) = IF 1 <= n - 1 THEN n - 1 - 1 + 1 ELSE 0
      /\ \A i \in 1..(n - 1 - 1 + 1) : SubSeq(log, 1, n - 1)[i] = log[1 + i - 1]
  BY <1>2, <1>3, SubSeqProperties
<1>5. \A i \in 1..(n - 1) : i \in 1..(n - 1 - 1 + 1) /\ 1 + i - 1 = i
  BY <1>2
<1>6. Len(SubSeq(log, 1, n - 1)) = n - 1
  BY <1>2, <1>4
<1>7. \A i \in 1..(n - 1) : SubSeq(log, 1, n - 1)[i] = log[i]
  BY <1>4, <1>5
<1> QED BY <1>1, <1>6, <1>7 DEF n

LEMMA ShorterTrace ==
    ASSUME NEW log \in Seq(EventType), log # <<>>, NEW b \in Nat \ {0}, NEW tr,
           Trace(log, b, tr)
    PROVE  Trace(SubSeq(log, 1, Len(log) - 1), b, [i \in 0..(Len(log) - 1) |-> tr[i]])
<1> DEFINE n == Len(log)
           short == SubSeq(log, 1, n - 1)
           tr2 == [i \in 0..(n - 1) |-> tr[i]]
<1>1. /\ n \in Nat \ {0} /\ Len(short) = n - 1
      /\ \A i \in 1..(n - 1) : short[i] = log[i]
  BY ShorterLog
<1>2. tr2 \in [0..(n - 1) -> Score] /\ tr2[0] = InitialState
  BY <1>1 DEF Trace
<1>3. \A i \in 1..(n - 1) : tr2[i] = tr[i] /\ tr2[i - 1] = tr[i - 1] /\ i \in 1..n
  BY <1>1
<1>4. \A i \in 1..(n - 1) : tr2[i] = NextScore(tr2[i - 1], b, short[i])
  BY <1>1, <1>3 DEF Trace
<1> HIDE DEF tr2, short
<1>5. Trace(short, b, tr2)
  BY <1>1, <1>2, <1>4 DEF Trace
<1> QED BY <1>5 DEF tr2, short

(* A snapshot shows the score before its point.                            *)
Shows(snap, st) ==
    /\ snap.cur = st.cur /\ snap.won = st.won /\ snap.status = st.status
    /\ snap.sets = Len(st.sets)

(* A game is what its log replays to, its snapshots too; a technical win   *)
(* alone ends it with another status.                                      *)
ReplaysBy(g, b, technical, tr) ==
    /\ Trace(g.log, b, tr)
    /\ Alike(g.score, tr[Len(g.log)])
    /\ ~technical => g.score.status = tr[Len(g.log)].status
    /\ \A i \in 1..Len(g.log) :
          g.log[i].type = "POINT" => Shows(g.log[i].snapshot, tr[i - 1])

Replayed(g, b, technical) == \E tr : ReplaysBy(g, b, technical, tr)

(* Any event that changes the score as its replay does.                    *)
LEMMA EventReplayed ==
    ASSUME NEW b \in Nat \ {0}, NEW g \in GameType, NEW h \in GameType, NEW tr,
           ReplaysBy(g, b, FALSE, tr), NEW e \in EventType, NEW technical \in BOOLEAN,
           h.log = Append(g.log, e),
           Alike(h.score, NextScore(tr[Len(g.log)], b, e)),
           ~technical => h.score.status = NextScore(tr[Len(g.log)], b, e).status,
           e.type = "POINT" => Shows(e.snapshot, tr[Len(g.log)])
    PROVE  Replayed(h, b, technical)
<1> DEFINE n == Len(g.log)
           st == NextScore(tr[n], b, e)
           longer == [i \in 0..(n + 1) |-> IF i = n + 1 THEN st ELSE tr[i]]
<1>1. g.log \in Seq(EventType) /\ Trace(g.log, b, tr)
  BY DEF GameType, ReplaysBy
<1>2. Trace(h.log, b, longer)
  BY <1>1, LongerTrace
<1>3. /\ n \in Nat /\ Len(h.log) = n + 1 /\ h.log[n + 1] = e
      /\ \A i \in 1..n : h.log[i] = g.log[i]
  BY <1>1
<1>4. longer[n + 1] = st /\ \A i \in 0..n : longer[i] = tr[i]
  BY <1>3
<1> HIDE DEF longer
<1>5. ASSUME NEW i \in 1..(n + 1), h.log[i].type = "POINT"
      PROVE  Shows(h.log[i].snapshot, longer[i - 1])
  <2>1. CASE i = n + 1
    <3>1. longer[i - 1] = tr[n] /\ h.log[i] = e
      BY <1>3, <1>4, <2>1
    <3> QED BY <1>5, <3>1
  <2>2. CASE i # n + 1
    <3>1. i \in 1..n /\ longer[i - 1] = tr[i - 1] /\ h.log[i] = g.log[i]
      BY <1>3, <1>4, <2>2
    <3> QED BY <1>5, <3>1 DEF ReplaysBy
  <2> QED BY <2>1, <2>2
<1>6. ReplaysBy(h, b, technical, longer)
  BY <1>2, <1>3, <1>4, <1>5 DEF ReplaysBy
<1> QED BY <1>6 DEF Replayed

(* A point (pointTx): the snapshot shows the score it is given in.         *)
LEMMA AfterPointReplayed ==
    ASSUME NEW m \in Match, NEW s \in Slot, bestOf[m] \in Nat \ {0},
           NEW g \in GameType, Replayed(g, bestOf[m], FALSE), AfterPoint(g, m, s) \in GameType
    PROVE  Replayed(AfterPoint(g, m, s), bestOf[m], FALSE)
<1> DEFINE b == bestOf[m]
           r == ApplyPoint(g.score, b, s)
           e == [type |-> "POINT", player |-> s, snapshot |-> Snapshot(g)]
           h == AfterPoint(g, m, s)
<1>1. PICK tr : ReplaysBy(g, b, FALSE, tr)
  BY DEF Replayed
<1> DEFINE last == tr[Len(g.log)]
<1>2. last \in Score /\ g.score \in Score
  <2>1. Len(g.log) \in 0..Len(g.log)
    BY DEF GameType
  <2> QED BY <1>1, <2>1 DEF ReplaysBy, Trace, GameType
<1>3. Alike(g.score, last) /\ g.score.status = last.status
  BY <1>1 DEF ReplaysBy
<1>4. e \in EventType /\ e.type = "POINT" /\ e.player = s
  BY SnapshotOfGame DEF EventType
<1>5. Shows(e.snapshot, last)
  BY <1>3 DEF Shows, Snapshot, Alike
<1>6. NextScore(last, b, e) = ApplyPoint(last, b, s)
  BY <1>4 DEF NextScore
<1>7. Alike(r, ApplyPoint(last, b, s)) /\ r.status = ApplyPoint(last, b, s).status
  BY <1>2, <1>3, ApplyPointAlike
<1>8. h.score = [r EXCEPT !.winnerSlot = 0] /\ h.log = Append(g.log, e)
  BY DEF AfterPoint, GameType
<1>9. r \in Score
  BY <1>2, ApplyPointType
<1> HIDE DEF r
<1>10. Alike(h.score, r) /\ h.score.status = r.status
  BY <1>8, <1>9 DEF Alike, Score
<1>11. Alike(h.score, ApplyPoint(last, b, s)) /\ h.score.status = ApplyPoint(last, b, s).status
  BY <1>7, <1>10 DEF Alike
<1>12. h \in GameType
  OBVIOUS
<1> HIDE DEF e, h, b
<1>13. Alike(h.score, NextScore(last, b, e)) /\ h.score.status = NextScore(last, b, e).status
  BY <1>6, <1>11
<1>14. b \in Nat \ {0} /\ FALSE \in BOOLEAN
  BY DEF b
<1>15. Replayed(h, b, FALSE)
  BY <1>1, <1>4, <1>5, <1>8, <1>12, <1>13, <1>14, EventReplayed
<1> QED BY <1>15 DEF h, b

(* A card and a disqualification leave the score to the replay (card,      *)
(* disqualify).                                                            *)
LEMMA OtherEventReplayed ==
    ASSUME NEW b \in Nat \ {0}, NEW g \in GameType, Replayed(g, b, FALSE),
           NEW h \in GameType, NEW e \in EventType, e.type # "POINT",
           h.log = Append(g.log, e), Alike(h.score, g.score), NEW technical \in BOOLEAN,
           ~technical => h.score.status = g.score.status
    PROVE  Replayed(h, b, technical)
<1>1. PICK tr : ReplaysBy(g, b, FALSE, tr)
  BY DEF Replayed
<1>2. NextScore(tr[Len(g.log)], b, e) = tr[Len(g.log)]
  BY DEF NextScore
<1>3. /\ Alike(h.score, tr[Len(g.log)])
      /\ ~technical => h.score.status = tr[Len(g.log)].status
  BY <1>1 DEF ReplaysBy, Alike
<1> QED BY <1>1, <1>2, <1>3, EventReplayed

LEMMA AfterPenaltyReplayed ==
    ASSUME TypeOK, NEW m \in Match, NEW s \in Slot, NEW n \in Nat,
           n > 0 => BothPlayers(m),
           NEW g \in GameType, Played(g), g.score.status # "FINISHED",
           Replayed(g, bestOf[m], FALSE)
    PROVE  Replayed(AfterPenalty(g, m, s, n), bestOf[m], FALSE)
<1> DEFINE one == AfterPoint(g, m, s)
<1>1. CASE n = 0
  <2>1. AfterPenalty(g, m, s, n) = g
    BY <1>1 DEF AfterPenalty
  <2> QED BY <2>1
<1>2. CASE n > 0
  <2>1. PenaltyPoint(g, m, s) = one
    BY DEF PenaltyPoint
  <2>2. one \in GameType /\ Played(one) /\ bestOf[m] \in Nat \ {0}
    BY <1>2, AfterPointPlayed DEF TypeOK
  <2>3. Replayed(one, bestOf[m], FALSE)
    BY <2>2, AfterPointReplayed
  <2>4. AfterPenalty(g, m, s, n) \in {one, PenaltyPoint(one, m, s)}
    BY <1>2, <2>1 DEF AfterPenalty
  <2> HIDE DEF one
  <2>5. CASE one.score.status = "FINISHED"
    BY <2>3, <2>4, <2>5 DEF PenaltyPoint
  <2>6. CASE one.score.status # "FINISHED"
    <3>1. AfterPoint(one, m, s) \in GameType
      BY <1>2, <2>2, <2>6, AfterPointPlayed
    <3>2. Replayed(AfterPoint(one, m, s), bestOf[m], FALSE)
      BY <2>2, <2>3, <3>1, AfterPointReplayed
    <3> QED BY <2>3, <2>4, <2>6, <3>2 DEF PenaltyPoint
  <2> QED BY <2>5, <2>6
<1>3. n = 0 \/ n > 0
  OBVIOUS
<1> QED BY <1>1, <1>2, <1>3

(* Undo goes back to the score of the trace before the last point: it      *)
(* deletes the set that point had closed and no other.                     *)
LEMMA RestoredReplayed ==
    ASSUME NEW b \in Nat \ {0}, NEW g \in GameType, NEW technical \in BOOLEAN,
           Replayed(g, b, technical), g.log # <<>>, g.log[Len(g.log)].type = "POINT"
    PROVE  Replayed(Restored(g, g.log[Len(g.log)].snapshot), b, FALSE)
<1> DEFINE n == Len(g.log)
           snap == g.log[n].snapshot
           h == Restored(g, snap)
<1>1. PICK tr : ReplaysBy(g, b, technical, tr)
  BY DEF Replayed
<1> DEFINE before == tr[n - 1]
           short == [i \in 0..(n - 1) |-> tr[i]]
<1>2. /\ g.log \in Seq(EventType) /\ n \in Nat \ {0} /\ n \in 1..n
      /\ g.log[n] \in EventType /\ g.log[n].player \in Slot
  <2>1. g.log \in Seq(EventType)
    BY DEF GameType
  <2>2. n \in Nat \ {0}
    BY <2>1
  <2>3. n \in 1..n
    BY <2>2
  <2>4. g.log[n] \in EventType
    BY <2>1, <2>3
  <2> QED BY <2>1, <2>2, <2>3, <2>4 DEF EventType
<1>3. Trace(g.log, b, tr) /\ Alike(g.score, tr[n]) /\ Shows(snap, before)
  BY <1>1, <1>2 DEF ReplaysBy
<1>4. before \in Score /\ tr[n] = ApplyPoint(before, b, g.log[n].player)
  <2>1. n - 1 \in 0..n /\ n \in 1..n
    BY <1>2
  <2>2. before \in Score /\ tr[n] = NextScore(before, b, g.log[n])
    BY <1>3, <2>1 DEF Trace
  <2> QED BY <2>2 DEF NextScore
<1>5. KeepKnown(g.score.sets, snap.sets) = before.sets
  <2>1. before.sets \in Seq(SetScore) /\ snap.sets = Len(before.sets)
    BY <1>3, <1>4 DEF Shows, Score
  <2>2. \/ g.score.sets = before.sets
        \/ \E set \in SetScore : g.score.sets = Append(before.sets, set)
    <3>1. g.score.sets = tr[n].sets
      BY <1>3 DEF Alike
    <3> HIDE DEF before, n
    <3>2. \/ tr[n].sets = before.sets
          \/ \E set \in SetScore : tr[n].sets = Append(before.sets, set)
      BY <1>2, <1>4, ApplyPointSets
    <3> QED BY <3>1, <3>2
  <2> HIDE DEF before, snap
  <2>3. CASE g.score.sets = before.sets
    BY <2>1, <2>3 DEF KeepKnown
  <2>4. CASE \E set \in SetScore : g.score.sets = Append(before.sets, set)
    <3>1. PICK set \in SetScore : g.score.sets = Append(before.sets, set)
      BY <2>4
    <3>2. Len(g.score.sets) = Len(before.sets) + 1
      BY <2>1, <3>1
    <3>3. SubSeq(g.score.sets, 1, Len(before.sets)) = before.sets
      BY <2>1, <3>1
    <3>4. snap.sets < Len(g.score.sets)
      <4>1. Len(before.sets) \in Nat
        BY <2>1
      <4> QED BY <2>1, <3>2, <4>1
    <3> QED BY <2>1, <3>3, <3>4 DEF KeepKnown
  <2> QED BY <2>2, <2>3, <2>4
<1>6. Trace(SubSeq(g.log, 1, n - 1), b, short)
  BY <1>2, <1>3, ShorterTrace
<1>7. /\ h.score.cur = before.cur /\ h.score.won = before.won
      /\ h.score.sets = before.sets /\ h.score.status = before.status
      /\ h.log = SubSeq(g.log, 1, n - 1)
  BY <1>3, <1>5 DEF Restored, Shows
<1>8. /\ Len(h.log) = n - 1 /\ short[n - 1] = before
      /\ \A i \in 1..(n - 1) : /\ h.log[i] = g.log[i] /\ short[i - 1] = tr[i - 1]
                               /\ i \in 1..n
  <2>1. n - 1 \in Nat /\ n - 1 <= n
    BY <1>2
  <2>2. Len(h.log) = n - 1 /\ \A i \in 1..(n - 1) : h.log[i] = g.log[i]
    <3>1. h.log = SubSeq(g.log, 1, n - 1) /\ g.log \in Seq(EventType)
      BY <1>2, <1>7
    <3> HIDE DEF h
    <3> QED BY <2>1, <3>1
  <2> QED BY <2>1, <2>2
<1> HIDE DEF h, short
<1>9. \A i \in 1..(n - 1) : h.log[i].type = "POINT" => Shows(h.log[i].snapshot, short[i - 1])
  BY <1>1, <1>8 DEF ReplaysBy
<1>10. ReplaysBy(h, b, FALSE, short)
  BY <1>6, <1>7, <1>8, <1>9 DEF ReplaysBy, Alike
<1> QED BY <1>10 DEF Replayed, h

(* The cards of a game are the CARD events of its log, and a snapshot      *)
(* counts those before its point.                                          *)
CardsIn(log, n) == {j \in 1..n : log[j].type = "CARD"}

CardsKnown(g) ==
    /\ Len(g.cards) = Cardinality(CardsIn(g.log, Len(g.log)))
    /\ \A i \in 1..Len(g.log) : g.log[i].type = "POINT" =>
          g.log[i].snapshot.cards = Cardinality(CardsIn(g.log, i))

LEMMA CardsInNext ==
    ASSUME NEW log, NEW n \in Nat
    PROVE  /\ IsFiniteSet(CardsIn(log, n)) /\ Cardinality(CardsIn(log, n)) \in Nat
           /\ Cardinality(CardsIn(log, n + 1)) =
                 Cardinality(CardsIn(log, n)) + IF log[n + 1].type = "CARD" THEN 1 ELSE 0
<1>1. IsFiniteSet(1..n)
  BY FS_Interval
<1>2. IsFiniteSet(CardsIn(log, n))
  <2>1. CardsIn(log, n) \subseteq 1..n
    BY DEF CardsIn
  <2> QED BY <1>1, <2>1, FS_Subset
<1>3. Cardinality(CardsIn(log, n)) \in Nat
  BY <1>2, FS_CardinalityType
<1>4. CASE log[n + 1].type = "CARD"
  <2>1. CardsIn(log, n + 1) = CardsIn(log, n) \cup {n + 1} /\ n + 1 \notin CardsIn(log, n)
    BY <1>4 DEF CardsIn
  <2>2. Cardinality(CardsIn(log, n) \cup {n + 1}) = Cardinality(CardsIn(log, n)) + 1
    BY <1>2, <2>1, FS_AddElement
  <2> QED BY <1>2, <1>3, <1>4, <2>1, <2>2
<1>5. CASE log[n + 1].type # "CARD"
  <2>1. CardsIn(log, n + 1) = CardsIn(log, n)
    BY <1>5 DEF CardsIn
  <2> QED BY <1>2, <1>3, <1>5, <2>1
<1> QED BY <1>4, <1>5

LEMMA SameCards ==
    ASSUME NEW log, NEW log2, NEW n \in Nat, \A j \in 1..n : log2[j] = log[j]
    PROVE  CardsIn(log2, n) = CardsIn(log, n)
  BY DEF CardsIn

(* One more event, with its card when it is one.                           *)
LEMMA EventKnown ==
    ASSUME NEW g \in GameType, CardsKnown(g), NEW h, NEW e \in EventType,
           h.log = Append(g.log, e),
           Len(h.cards) = Len(g.cards) + IF e.type = "CARD" THEN 1 ELSE 0,
           e.type = "POINT" => e.snapshot.cards = Len(g.cards)
    PROVE  CardsKnown(h)
<1> DEFINE n == Len(g.log)
<1>1. g.log \in Seq(EventType) /\ n \in Nat /\ Len(g.cards) \in Nat
  BY DEF GameType
<1>2. Len(h.log) = n + 1 /\ h.log[n + 1] = e /\ \A j \in 1..n : h.log[j] = g.log[j]
  BY <1>1
<1>3. \A i \in 0..n : CardsIn(h.log, i) = CardsIn(g.log, i)
  <2> TAKE i \in 0..n
  <2>1. i \in Nat /\ \A j \in 1..i : h.log[j] = g.log[j]
    BY <1>1, <1>2
  <2> QED BY <2>1, SameCards
<1>4. Cardinality(CardsIn(h.log, n)) = Len(g.cards)
  BY <1>1, <1>3 DEF CardsKnown
<1>5. Cardinality(CardsIn(h.log, n + 1)) = Len(h.cards)
  <2>1. Cardinality(CardsIn(h.log, n + 1)) =
           Cardinality(CardsIn(h.log, n)) + IF h.log[n + 1].type = "CARD" THEN 1 ELSE 0
    BY <1>1, CardsInNext
  <2> QED BY <1>2, <1>4, <2>1
<1> HIDE DEF n
<1>6. ASSUME NEW i \in 1..(n + 1), h.log[i].type = "POINT"
      PROVE  h.log[i].snapshot.cards = Cardinality(CardsIn(h.log, i))
  <2>1. CASE i = n + 1
    <3>1. e.type = "POINT" /\ h.log[i] = e
      BY <1>2, <1>6, <2>1
    <3>2. Len(h.cards) = Len(g.cards)
      BY <1>1, <3>1
    <3> QED BY <1>5, <2>1, <3>1, <3>2
  <2>2. CASE i # n + 1
    <3>1. i \in 1..n /\ i \in 0..n
      BY <1>1, <2>2
    <3>2. h.log[i] = g.log[i] /\ CardsIn(h.log, i) = CardsIn(g.log, i)
      BY <1>2, <1>3, <3>1
    <3> QED BY <1>6, <3>1, <3>2 DEF CardsKnown, n
  <2> QED BY <2>1, <2>2
<1> QED BY <1>2, <1>5, <1>6 DEF CardsKnown

(* A point and its snapshot, a card, the penalty points (pointTx, card).   *)
LEMMA AfterPointKnown ==
    ASSUME NEW m \in Match, NEW s \in Slot, NEW g \in GameType, CardsKnown(g)
    PROVE  CardsKnown(AfterPoint(g, m, s))
<1> DEFINE e == [type |-> "POINT", player |-> s, snapshot |-> Snapshot(g)]
           h == AfterPoint(g, m, s)
<1>1. e \in EventType /\ e.type = "POINT" /\ e.snapshot.cards = Len(g.cards)
  BY SnapshotOfGame DEF EventType, Snapshot
<1>2. h.log = Append(g.log, e) /\ h.cards = g.cards /\ Len(g.cards) \in Nat
  BY DEF AfterPoint, GameType
<1> HIDE DEF e, h
<1>3. Len(h.cards) = Len(g.cards) + IF e.type = "CARD" THEN 1 ELSE 0
  BY <1>1, <1>2
<1>4. CardsKnown(h)
  BY <1>1, <1>2, <1>3, EventKnown
<1> QED BY <1>4 DEF h

LEMMA AfterCardKnown ==
    ASSUME NEW g \in GameType, CardsKnown(g), NEW s \in Slot
    PROVE  CardsKnown(AfterCard(g, s))
<1> DEFINE e == [type |-> "CARD", player |-> s, snapshot |-> NoSnapshot]
           h == AfterCard(g, s)
<1>1. e \in EventType /\ e.type = "CARD"
  BY NoGameType DEF EventType
<1>2. h.log = Append(g.log, e) /\ h.cards = Append(g.cards, s) /\ g.cards \in Seq(Slot)
  BY DEF AfterCard, GameType
<1> HIDE DEF e, h
<1>3. Len(h.cards) = Len(g.cards) + IF e.type = "CARD" THEN 1 ELSE 0
  BY <1>1, <1>2
<1>4. CardsKnown(h)
  BY <1>1, <1>2, <1>3, EventKnown
<1> QED BY <1>4 DEF h

LEMMA AfterPenaltyKnown ==
    ASSUME TypeOK, NEW m \in Match, NEW s \in Slot, NEW n \in Nat,
           n > 0 => BothPlayers(m),
           NEW g \in GameType, Played(g), CardsKnown(g), g.score.status # "FINISHED"
    PROVE  CardsKnown(AfterPenalty(g, m, s, n))
<1> DEFINE one == AfterPoint(g, m, s)
<1>1. CASE n = 0
  <2>1. AfterPenalty(g, m, s, n) = g
    BY <1>1 DEF AfterPenalty
  <2> QED BY <2>1
<1>2. CASE n > 0
  <2>1. PenaltyPoint(g, m, s) = one
    BY DEF PenaltyPoint
  <2>2. one \in GameType /\ CardsKnown(one)
    BY <1>2, AfterPointPlayed, AfterPointKnown
  <2>3. AfterPenalty(g, m, s, n) \in {one, PenaltyPoint(one, m, s)}
    BY <1>2, <2>1 DEF AfterPenalty
  <2> HIDE DEF one
  <2>4. CardsKnown(PenaltyPoint(one, m, s))
    BY <2>2, AfterPointKnown DEF PenaltyPoint
  <2> QED BY <2>2, <2>3, <2>4
<1>3. n = 0 \/ n > 0
  OBVIOUS
<1> QED BY <1>1, <1>2, <1>3

(* Undo takes no card back: every card it could forget came after the      *)
(* point, and the point is the last event.                                 *)
LEMMA RestoredKnown ==
    ASSUME NEW g \in GameType, CardsKnown(g), g.log # <<>>,
           g.log[Len(g.log)].type = "POINT"
    PROVE  CardsKnown(Restored(g, g.log[Len(g.log)].snapshot))
<1> DEFINE n == Len(g.log)
           snap == g.log[n].snapshot
           h == Restored(g, snap)
<1>1. g.log \in Seq(EventType) /\ n \in Nat \ {0} /\ n \in 1..n /\ Len(g.cards) \in Nat
  BY DEF GameType
<1>2. snap.cards = Len(g.cards)
  BY <1>1 DEF CardsKnown
<1>3. h.cards = g.cards /\ h.log = SubSeq(g.log, 1, n - 1)
  BY <1>1, <1>2 DEF Restored, KeepKnown
<1>4. n - 1 \in Nat /\ n - 1 + 1 = n /\ \A i \in 1..(n - 1) : i \in 1..n /\ i \in Nat
  BY <1>1
<1>5. Len(h.log) = n - 1 /\ \A i \in 1..(n - 1) : h.log[i] = g.log[i]
  BY <1>1, <1>3, ShorterLog
<1> HIDE DEF h
<1>6. \A i \in 0..(n - 1) : CardsIn(h.log, i) = CardsIn(g.log, i)
  <2> TAKE i \in 0..(n - 1)
  <2>1. i \in Nat /\ \A j \in 1..i : h.log[j] = g.log[j]
    BY <1>4, <1>5
  <2> QED BY <2>1, SameCards
<1>7. Len(h.cards) = Cardinality(CardsIn(h.log, n - 1))
  <2>1. Cardinality(CardsIn(g.log, n)) = Cardinality(CardsIn(g.log, n - 1)) + 0
    BY <1>4, CardsInNext
  <2>2. Cardinality(CardsIn(g.log, n - 1)) \in Nat
    BY <1>4, CardsInNext
  <2>3. n - 1 \in 0..(n - 1)
    BY <1>4
  <2> QED BY <1>3, <1>6, <2>1, <2>2, <2>3 DEF CardsKnown
<1>8. ASSUME NEW i \in 1..(n - 1), h.log[i].type = "POINT"
      PROVE  h.log[i].snapshot.cards = Cardinality(CardsIn(h.log, i))
  <2>1. i \in 1..n /\ i \in 0..(n - 1) /\ h.log[i] = g.log[i]
    BY <1>4, <1>5
  <2> QED BY <1>6, <1>8, <2>1 DEF CardsKnown
<1>9. CardsKnown(h)
  BY <1>5, <1>7, <1>8 DEF CardsKnown
<1> QED BY <1>9 DEF h

(* What the log tells about its match: the score while the format stayed,  *)
(* and the cards.                                                          *)
LogTells(m) ==
    /\ m \notin raced => Replayed(game[m], bestOf[m], disqualified[m] # NoPlayer)
    /\ CardsKnown(game[m])

LogsTell == \A m \in Match : LogTells(m)

(* A match that nothing is written to; a new format is replayed alike as   *)
(* long as no point stands in the log (update).                            *)
LEMMA FormatReplayed ==
    ASSUME NEW g \in GameType, NEW b, NEW c, NEW technical, Replayed(g, b, technical),
           \A i \in 1..Len(g.log) : g.log[i].type # "POINT"
    PROVE  Replayed(g, c, technical)
<1>1. PICK tr : ReplaysBy(g, b, technical, tr)
  BY DEF Replayed
<1>2. Trace(g.log, c, tr)
  BY <1>1 DEF ReplaysBy, Trace, NextScore
<1> QED BY <1>1, <1>2 DEF ReplaysBy, Replayed

(* The match becomes g, and stays without a disqualification.              *)
LEMMA SettleTells ==
    ASSUME IInv, NEW m \in Match, NEW g, disqualified[m] = NoPlayer,
           m \notin raced => Replayed(g, bestOf[m], FALSE), CardsKnown(g),
           game'[m] = g, UNCHANGED <<disqualified, bestOf, raced>>
    PROVE  LogTells(m)'
<1>1. (disqualified'[m] # NoPlayer) = FALSE
  OBVIOUS
<1> QED BY <1>1 DEF LogTells

LEMMA DisqualifyTells ==
    ASSUME IInv, NEW m \in Match, LogTells(m), disqualified[m] = NoPlayer,
           NEW s \in Slot, Disqualify(m, s)
    PROVE  LogTells(m)'
<1> DEFINE e == [type |-> "DISQUALIFY", player |-> s, snapshot |-> NoSnapshot]
           g == AfterDisqualify(game[m], s, player[m][Opp(s)])
           technical == disqualified'[m] # NoPlayer
<1>1. /\ game[m] \in GameType /\ game'[m] = g /\ game' \in [Match -> GameType]
      /\ UNCHANGED <<bestOf, raced>> /\ technical = TRUE
  <2>1. game' \in [Match -> GameType]
    BY DisqualifyStep DEF IInv, TypeOK
  <2>2. disqualified'[m] = player[m][s] /\ player[m][s] # NoPlayer
    BY DEF Disqualify, BothPlayers, IInv, TypeOK
  <2>3. technical = TRUE
    BY <2>2
  <2> QED BY <2>1, <2>3 DEF Disqualify, refereeVars, IInv, TypeOK
<1>2. e \in EventType /\ e.type = "DISQUALIFY"
  BY NoGameType DEF EventType
<1>3. /\ g.log = Append(game[m].log, e) /\ Alike(g.score, game[m].score)
      /\ g.cards = game[m].cards /\ Len(g.cards) \in Nat
  <2>1. /\ g.log = Append(game[m].log, e) /\ g.cards = game[m].cards
        /\ g.score = [game[m].score EXCEPT !.status = "FINISHED"]
    BY <1>1 DEF AfterDisqualify, GameType
  <2>2. game[m].score \in Score /\ game[m].cards \in Seq(Slot)
    BY <1>1 DEF GameType
  <2> HIDE DEF g, e
  <2>3. Alike(g.score, game[m].score)
    BY <2>1, <2>2 DEF Score, Alike
  <2> QED BY <2>1, <2>2, <2>3
<1>4. g \in GameType
  BY <1>1
<1> HIDE DEF e, g, technical
<1>5. Len(g.cards) = Len(game[m].cards) + IF e.type = "CARD" THEN 1 ELSE 0
  BY <1>2, <1>3
<1>6. CardsKnown(g)
  BY <1>1, <1>2, <1>3, <1>5, EventKnown DEF LogTells
<1>7. ASSUME m \notin raced PROVE Replayed(g, bestOf[m], TRUE)
  <2>1. Replayed(game[m], bestOf[m], FALSE)
    <3>1. (disqualified[m] # NoPlayer) = FALSE
      OBVIOUS
    <3> QED BY <1>7, <3>1 DEF LogTells
  <2>2. bestOf[m] \in Nat \ {0} /\ TRUE \in BOOLEAN
    BY DEF IInv, TypeOK
  <2> QED BY <1>1, <1>2, <1>3, <1>4, <2>1, <2>2, OtherEventReplayed
<1> QED BY <1>1, <1>6, <1>7 DEF LogTells, technical

(* The steps that add to the log, and undo.                                *)
LEMMA ForwardTells ==
    ASSUME IInv, ResultsStand, LogsTell, NEW m \in Match, NEW s \in Slot,
           Point(m, s) \/ Yellow(m, s) \/ Red(m, s) \/ Disqualify(m, s)
    PROVE  LogTells(m)'
<1>1. StatusOf(m) # "FINISHED"
  BY DEF Point, Yellow, Red, Disqualify
<1>2. disqualified[m] = NoPlayer
  BY <1>1 DEF ResultsStand, ResultStands
<1>3. (disqualified[m] # NoPlayer) = FALSE
  BY <1>2
<1>4. /\ game[m] \in GameType /\ Played(game[m]) /\ TypeOK /\ CardsKnown(game[m])
      /\ game[m].score.status # "FINISHED" /\ bestOf[m] \in Nat \ {0}
      /\ m \notin raced => Replayed(game[m], bestOf[m], FALSE)
  BY <1>1, <1>3 DEF IInv, TypeOK, LogsTell, LogTells, StatusOf
<1>5. CASE Point(m, s)
  <2> DEFINE g == AfterPoint(game[m], m, s)
  <2>1. BothPlayers(m) /\ Settle(m, g)
    BY <1>5 DEF Point
  <2>2. g \in GameType
    BY <1>4, <2>1, AfterPointPlayed
  <2>3. CardsKnown(g) /\ (m \notin raced => Replayed(g, bestOf[m], FALSE))
    BY <1>4, <2>2, AfterPointKnown, AfterPointReplayed
  <2> HIDE DEF g
  <2>4. game'[m] = g /\ UNCHANGED <<disqualified, bestOf, raced>>
    BY <1>4, <2>1 DEF Settle, refereeVars, TypeOK
  <2> QED BY <1>2, <2>3, <2>4, SettleTells
<1>6. ASSUME NEW c, c = AfterCard(game[m], s)
      PROVE  /\ c \in GameType /\ Played(c) /\ c.score = game[m].score /\ CardsKnown(c)
             /\ m \notin raced => Replayed(c, bestOf[m], FALSE)
  <2> DEFINE e == [type |-> "CARD", player |-> s, snapshot |-> NoSnapshot]
  <2>1. c \in GameType /\ Played(c) /\ c.score = game[m].score /\ CardsKnown(c)
    BY <1>4, <1>6, AfterCardPlayed, AfterCardKnown
  <2>2. e \in EventType /\ e.type = "CARD"
    BY NoGameType DEF EventType
  <2>3. c.log = Append(game[m].log, e)
    BY <1>4, <1>6 DEF AfterCard, GameType
  <2> HIDE DEF e
  <2>4. Alike(c.score, game[m].score) /\ c.score.status = game[m].score.status
    BY <2>1 DEF Alike
  <2>5. e.type # "POINT" /\ FALSE \in BOOLEAN
    BY <2>2
  <2>6. m \notin raced => Replayed(c, bestOf[m], FALSE)
    BY <1>4, <2>1, <2>2, <2>3, <2>4, <2>5, OtherEventReplayed
  <2> QED BY <2>1, <2>6
<1>7. CASE Yellow(m, s)
  <2> DEFINE points == PriorCards(m, s)
             c == AfterCard(game[m], s)
             g == AfterPenalty(c, m, Opp(s), points)
  <2>1. Settle(m, g) /\ (points > 0 => BothPlayers(m)) /\ Opp(s) \in Slot
    BY <1>7 DEF Yellow, Opp, Slot
  <2>2. points \in Nat
    BY <1>4, PriorCardsType
  <2>3. /\ c \in GameType /\ Played(c) /\ c.score = game[m].score /\ CardsKnown(c)
        /\ m \notin raced => Replayed(c, bestOf[m], FALSE)
    BY <1>6
  <2> HIDE DEF c, points
  <2>4. CardsKnown(g)
    BY <1>4, <2>1, <2>2, <2>3, AfterPenaltyKnown
  <2>5. m \notin raced => Replayed(g, bestOf[m], FALSE)
    BY <1>4, <2>1, <2>2, <2>3, AfterPenaltyReplayed
  <2> HIDE DEF g
  <2>6. game'[m] = g /\ UNCHANGED <<disqualified, bestOf, raced>>
    BY <1>4, <2>1 DEF Settle, refereeVars, TypeOK
  <2> QED BY <1>2, <2>4, <2>5, <2>6, SettleTells
<1>8. CASE Red(m, s)
  <2> DEFINE c == AfterCard(game[m], s)
  <2>1. Settle(m, c)
    BY <1>8 DEF Red
  <2>2. CardsKnown(c) /\ (m \notin raced => Replayed(c, bestOf[m], FALSE))
    BY <1>6
  <2> HIDE DEF c
  <2>3. game'[m] = c /\ UNCHANGED <<disqualified, bestOf, raced>>
    BY <1>4, <2>1 DEF Settle, refereeVars, TypeOK
  <2> QED BY <1>2, <2>2, <2>3, SettleTells
<1>9. CASE Disqualify(m, s)
  BY <1>2, <1>9, DisqualifyTells DEF LogsTell
<1> QED BY <1>5, <1>7, <1>8, <1>9

LEMMA UndoTells ==
    ASSUME IInv, LogsTell, NEW m \in Match, Undo(m)
    PROVE  LogTells(m)'
<1> DEFINE g == game[m]
           h == Restored(g, g.log[Len(g.log)].snapshot)
<1>1. /\ g \in GameType /\ CardsKnown(g) /\ bestOf[m] \in Nat \ {0}
      /\ disqualified[m] = NoPlayer /\ FALSE \in BOOLEAN
      /\ g.log # <<>> /\ g.log[Len(g.log)].type = "POINT"
  BY DEF Undo, LastEvent, IInv, TypeOK, LogsTell, LogTells
<1>2. game'[m] = h /\ UNCHANGED <<disqualified, bestOf, raced>>
  BY DEF Undo, LastEvent, IInv, TypeOK, refereeVars
<1>3. (disqualified[m] # NoPlayer) = FALSE
  BY <1>1
<1>4. m \notin raced => Replayed(g, bestOf[m], FALSE)
  BY <1>3 DEF LogsTell, LogTells
<1>5. CardsKnown(h) /\ (m \notin raced => Replayed(h, bestOf[m], FALSE))
  BY <1>1, <1>4, RestoredKnown, RestoredReplayed
<1> HIDE DEF h
<1> QED BY <1>1, <1>2, <1>5, SettleTells

(* A format written before the start changes no replay: there is no point  *)
(* in the log of a match that has not started.                             *)
LEMMA EditFormatTells ==
    ASSUME IInv, LogsTell, NEW m \in Match, NEW b \in EditBestOf, EditFormat(m, b)
    PROVE  LogsTell'
<1>1. /\ UNCHANGED <<game, disqualified>> /\ raced \subseteq raced'
      /\ \A n \in Match \ {m} : bestOf'[n] = bestOf[n]
      /\ StatusOf(m) # "SCHEDULED" => m \in raced'
  BY DEF EditFormat, IInv, TypeOK
<1>2. ASSUME m \notin raced'
      PROVE  Replayed(game[m], bestOf'[m], disqualified[m] # NoPlayer)
  <2>1. game[m] \in GameType /\ Played(game[m]) /\ game[m].score.status = "SCHEDULED"
    BY <1>1, <1>2 DEF IInv, TypeOK, StatusOf
  <2>2. \A i \in 1..Len(game[m].log) : game[m].log[i].type # "POINT"
    <3>1. DOMAIN game[m].log = 1..Len(game[m].log)
      BY <2>1 DEF GameType
    <3> QED BY <2>1, <3>1 DEF Played
  <2>3. Replayed(game[m], bestOf[m], disqualified[m] # NoPlayer)
    BY <1>1, <1>2 DEF LogsTell, LogTells
  <2> QED BY <2>1, <2>2, <2>3, FormatReplayed
<1>3. LogTells(m)'
  BY <1>1, <1>2 DEF LogsTell, LogTells
<1>4. ASSUME NEW n \in Match \ {m} PROVE LogTells(n)'
  BY <1>1 DEF LogsTell, LogTells
<1> QED BY <1>3, <1>4 DEF LogsTell

LEMMA LogsStep == IInv /\ ResultsStand /\ LogsTell /\ [Next]_vars => LogsTell'
<1> SUFFICES ASSUME IInv, ResultsStand, LogsTell, [Next]_vars PROVE LogsTell'
  OBVIOUS
<1>1. ASSUME UNCHANGED <<game, bestOf, disqualified, raced>> PROVE LogsTell'
  BY <1>1 DEF LogsTell, LogTells
<1>2. ASSUME NEW m \in Match, NEW s \in Slot,
             Point(m, s) \/ Yellow(m, s) \/ Red(m, s) \/ Disqualify(m, s)
      PROVE  LogsTell'
  <2>1. LogTells(m)'
    BY <1>2, ForwardTells
  <2>2. UNCHANGED <<bestOf, raced>> /\ \A n \in Match \ {m} :
           game'[n] = game[n] /\ disqualified'[n] = disqualified[n]
    BY <1>2 DEF Point, Yellow, Red, Disqualify, Settle, refereeVars, IInv, TypeOK
  <2>3. \A n \in Match \ {m} : LogTells(n)'
    BY <2>2 DEF LogsTell, LogTells
  <2> QED BY <2>1, <2>3 DEF LogsTell
<1>3. ASSUME NEW m \in Match, Undo(m) PROVE LogsTell'
  <2>1. LogTells(m)'
    BY <1>3, UndoTells
  <2>2. UNCHANGED <<bestOf, raced, disqualified>>
        /\ \A n \in Match \ {m} : game'[n] = game[n]
    BY <1>3 DEF Undo, refereeVars, IInv, TypeOK
  <2>3. \A n \in Match \ {m} : LogTells(n)'
    BY <2>2 DEF LogsTell, LogTells
  <2> QED BY <2>1, <2>3 DEF LogsTell
<1>4. CASE UNCHANGED vars
  BY <1>1, <1>4 DEF vars
<1>5. ASSUME NEW m \in Match, RefereeStep(m) PROVE LogsTell'
  <2>1. CASE (\E u \in User : Verify(m, u) \/ VerifyWrong(m, u)) \/ \E s \in Slot : Timeout(m, s)
    BY <1>1, <2>1 DEF Verify, VerifyWrong, Timeout, refereeVars
  <2> QED BY <1>2, <1>3, <1>5, <2>1 DEF RefereeStep
<1>6. ASSUME NEW m \in Match, AdminStep(m) PROVE LogsTell'
  <2>1. CASE \E b \in EditBestOf : EditFormat(m, b)
    BY <2>1, EditFormatTells
  <2>2. CASE ~(\E b \in EditBestOf : EditFormat(m, b))
    BY <1>1, <1>6, <2>2 DEF AdminStep, RegenerateCode, EditRead, EditSlot
  <2> QED BY <2>1, <2>2
<1> QED BY <1>4, <1>5, <1>6 DEF Next

LEMMA LogsInit == Init => LogsTell
<1> SUFFICES ASSUME Init, NEW m \in Match PROVE LogTells(m)
  BY DEF LogsTell
<1>1. game[m] = NoGame /\ disqualified[m] = NoPlayer
  BY DEF Init
<1>2. NoGame.log = <<>> /\ NoGame.cards = <<>> /\ NoGame.score = InitialState
  BY DEF NoGame
<1>3. InitialState \in Score
  BY NoGameType DEF NoGame, GameType
<1> DEFINE tr == [i \in 0..0 |-> InitialState]
<1>4. Trace(<<>>, bestOf[m], tr)
  BY <1>3 DEF Trace
<1>5. tr[0] = InitialState
  OBVIOUS
<1> HIDE DEF tr
<1>6. ReplaysBy(NoGame, bestOf[m], disqualified[m] # NoPlayer, tr)
  BY <1>2, <1>4, <1>5 DEF ReplaysBy, Alike
<1>7. CardsKnown(NoGame)
  <2>1. CardsIn(<<>>, 0) = {}
    BY DEF CardsIn
  <2>2. Len(<<>>) = 0 /\ Cardinality({}) = 0
    BY FS_EmptySet
  <2>3. Len(NoGame.cards) = Cardinality(CardsIn(NoGame.log, Len(NoGame.log)))
    BY <1>2, <2>1, <2>2
  <2>4. 1..Len(NoGame.log) = {}
    BY <1>2, <2>2
  <2> QED BY <2>3, <2>4 DEF CardsKnown
<1> QED BY <1>1, <1>6, <1>7 DEF LogTells, Replayed

(* The stored score, sets and cards of a match are what the events left in  *)
(* its log replay to, for every bracket and any number of points, cards,   *)
(* undos and edits (pointTx, card, disqualify, undo, update).              *)
THEOREM ScoresAreReplays == Spec => []ScoreIsReplay
<1>1. IInv /\ LogsTell => ScoreIsReplay
  <2> SUFFICES ASSUME IInv, LogsTell, NEW m \in Match
               PROVE  LET replay == ReplayOf(m)  score == game[m].score IN
                      /\ m \notin raced => /\ score.cur = replay.cur
                                           /\ score.sets = replay.sets
                                           /\ score.won = replay.won
                                           /\ disqualified[m] = NoPlayer =>
                                                 score.status = replay.status
                      /\ Len(game[m].cards) = Cardinality(CardEvents(m))
    BY DEF ScoreIsReplay
  <2>1. game[m] \in GameType
    BY DEF IInv, TypeOK
  <2>2. CardEvents(m) = CardsIn(game[m].log, Len(game[m].log))
    <3>1. DOMAIN game[m].log = 1..Len(game[m].log)
      BY <2>1 DEF GameType
    <3> QED BY <3>1 DEF CardEvents, CardsIn
  <2>3. Len(game[m].cards) = Cardinality(CardEvents(m))
    BY <2>2 DEF LogsTell, LogTells, CardsKnown
  <2>4. ASSUME m \notin raced
        PROVE  /\ Alike(game[m].score, ReplayOf(m))
               /\ disqualified[m] = NoPlayer => game[m].score.status = ReplayOf(m).status
    <3>1. PICK tr : ReplaysBy(game[m], bestOf[m], disqualified[m] # NoPlayer, tr)
      BY <2>4 DEF LogsTell, LogTells, Replayed
    <3>2. ReplayOf(m) = tr[Len(game[m].log)]
      BY <2>1, <3>1, ReplayIsTrace DEF ReplaysBy
    <3> QED BY <3>1, <3>2 DEF ReplaysBy
  <2> QED BY <2>3, <2>4 DEF Alike
<1>2. Init => LogsTell
  BY LogsInit
<1>3. IInv /\ ResultsStand /\ LogsTell /\ [Next]_vars => LogsTell'
  BY LogsStep
<1> QED BY <1>1, <1>2, <1>3, Invariance, ResultsAlwaysStand, PTL DEF Spec

=============================================================================
