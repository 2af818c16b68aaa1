------------------------------ MODULE Matches ------------------------------
(***************************************************************************)
(* The matches of one bracket and everything a referee does to them        *)
(* (modules/matches/matches.service.ts).  Every referee operation is one   *)
(* database transaction that first takes the row lock of its match, so     *)
(* each is one action here; the administrator's edit reads the match and   *)
(* writes it later without a lock, so it is two.                           *)
(*                                                                         *)
(* A match feeds its winner, and a semifinal its loser too, into a slot of *)
(* a later match.  A referee's point can end a match; undo takes the last  *)
(* point back together with what its end had caused in the bracket.  The   *)
(* rating rows the end writes, and what undo writes to take them back, are *)
(* module PointsLedger.                                                    *)
(***************************************************************************)
EXTENDS ScoringEngine, FiniteSets

CONSTANTS
    Match, Player, User,
    NoPlayer, NoUser, NoMatch, NoDest,   \* the code's null, by column
    WinnerTo,     \* nextMatchId and nextMatchSlot: <<match, slot>> or NoDest
    LoserTo,      \* loserNextMatchId and loserNextMatchSlot, likewise
    Entry,        \* the players a match is created with
    StartBestOf,  \* bestOf a match is created with
    Managers,     \* users with the permission match.manage
    Assigned,     \* referee and assistant of a match, {} when unassigned
    OwnPlayer,    \* the player a user is, or NoPlayer
    EditPlayers, EditBestOf,  \* values the administrator may write
    MaxAttempts,  \* wrong codes until the code is locked (5)
    FreeCards,    \* offences that are penalised by points (3)
    MaxPoints,    \* bound: points of a slot in one set
    MaxCards,     \* bound: cards of a match
    MaxTimeouts,  \* bound: time-outs of a match
    Mistyping,    \* bound: the users that may enter a wrong code
    Editable      \* bound: the matches the administrator may edit

Dest == Match \X Slot
NoSlots == [s \in Slot |-> NoPlayer]

(* A bracket: no slot is fed twice, no match feeds itself. *)
ASSUME BracketAssumption ==
    /\ NoPlayer \notin Player /\ NoUser \notin User /\ NoMatch \notin Match
    /\ NoDest \notin Dest
    /\ WinnerTo \in [Match -> Dest \cup {NoDest}]
    /\ LoserTo \in [Match -> Dest \cup {NoDest}]
    /\ \A m, n \in Match :
          /\ m # n /\ WinnerTo[m] # NoDest => WinnerTo[m] # WinnerTo[n]
          /\ m # n /\ LoserTo[m] # NoDest => LoserTo[m] # LoserTo[n]
          /\ WinnerTo[m] # NoDest => WinnerTo[m] # LoserTo[n]
          /\ \A s \in Slot : <<m, s>> \notin {WinnerTo[m], LoserTo[m]}
    /\ Entry \in [Match -> [Slot -> Player \cup {NoPlayer}]]
    /\ \A m \in Match, d \in Dest :
          WinnerTo[m] = d \/ LoserTo[m] = d => Entry[d[1]][d[2]] = NoPlayer

ASSUME ParameterAssumption ==
    /\ StartBestOf \in [Match -> Nat \ {0}] /\ EditBestOf \subseteq Nat \ {0}
    /\ Managers \subseteq User /\ Assigned \in [Match -> SUBSET User]
    /\ OwnPlayer \in [User -> Player \cup {NoPlayer}]
    /\ EditPlayers \subseteq Player \cup {NoPlayer}
    /\ MaxAttempts \in Nat \ {0} /\ FreeCards \in 0..3
    /\ MaxPoints \in Nat /\ MaxCards \in Nat /\ MaxTimeouts \in Nat
    /\ Mistyping \subseteq User /\ Editable \subseteq Match

VARIABLES
    game,        \* [score, winner, cards, log]: what points and undo change
    player,      \* player1Id and player2Id
    bestOf,
    disqualified,\* disqualifiedPlayerId
    timeouts,    \* slots that have taken their time-out
    verifiedBy,  \* the user who entered the code (refereeVerifiedAt set)
    attempts,    \* wrong codes; the code is locked at MaxAttempts
    editing,     \* the match an edit has found SCHEDULED and not yet written
    handSet,     \* ghost: <<match, slot>> an administrator has written
    raced        \* ghost: matches whose bestOf was written after the start

vars == <<game, player, bestOf, disqualified, timeouts, verifiedBy, attempts,
          editing, handSet, raced>>
refereeVars == <<bestOf, verifiedBy, attempts, editing, handSet, raced>>

(* The PointSnapshot a POINT event carries: the columns, and the ids of    *)
(* the sets and cards that exist, here their number.                       *)
Snapshot(g) ==
    [cur |-> g.score.cur, won |-> g.score.won, status |-> g.score.status,
     winner |-> g.winner, sets |-> Len(g.score.sets), cards |-> Len(g.cards)]
NoGame == [score |-> InitialState, winner |-> NoPlayer, cards |-> <<>>,
           log |-> <<>>]
NoSnapshot == Snapshot(NoGame)

SnapshotType ==
    [cur : SetScore, won : SetScore, status : Status,
     winner : Player \cup {NoPlayer}, sets : Nat, cards : Nat]
EventType == [type : {"POINT", "CARD", "DISQUALIFY"}, player : Slot,
              snapshot : SnapshotType]
GameType == [score : Score, winner : Player \cup {NoPlayer},
             cards : Seq(Slot), log : Seq(EventType)]

TypeOK ==
    /\ game \in [Match -> GameType]
    /\ player \in [Match -> [Slot -> Player \cup {NoPlayer}]]
    /\ bestOf \in [Match -> Nat \ {0}]
    /\ disqualified \in [Match -> Player \cup {NoPlayer}]
    /\ timeouts \in [Match -> SUBSET Slot]
    /\ verifiedBy \in [Match -> User \cup {NoUser}]
    /\ attempts \in [Match -> 0..MaxAttempts]
    /\ editing \in Match \cup {NoMatch}
    /\ handSet \subseteq Dest
    /\ raced \subseteq Match

(* Matches as the draw creates them: the first round has its players, the  *)
(* later slots are empty.                                                  *)
Init ==
    /\ game = [m \in Match |-> NoGame]
    /\ player = Entry
    /\ bestOf = StartBestOf
    /\ disqualified = [m \in Match |-> NoPlayer]
    /\ timeouts = [m \in Match |-> {}]
    /\ verifiedBy = [m \in Match |-> NoUser]
    /\ attempts = [m \in Match |-> 0]
    /\ editing = NoMatch
    /\ handSet = {}
    /\ raced = {}

StatusOf(m) == game[m].score.status
BothPlayers(m) == \A s \in Slot : player[m][s] # NoPlayer

----------------------------------------------------------------------------
(* Access *)

(* assertVerified holds for somebody as soon as the code has been entered: *)
(* the user who entered it, the assigned referees, the managers.           *)
MayScore(m) == verifiedBy[m] # NoUser

(* Mutant: the lock of the code is not looked at. *)
MayEnterUnlocked(m, u) == Assigned[m] # {} => u \in Assigned[m] \cup Managers
(* The code is not locked, and an assigned match is closed to others. *)
MayEnter(m, u) ==
    /\ attempts[m] < MaxAttempts
    /\ Assigned[m] # {} => u \in Assigned[m] \cup Managers

(* verify with the right code; a player may not referee the own match.     *)
Verify(m, u) ==
    /\ MayEnter(m, u)
    /\ OwnPlayer[u] # NoPlayer => \A s \in Slot : player[m][s] # OwnPlayer[u]
    /\ verifiedBy' = [verifiedBy EXCEPT ![m] = u]
    /\ attempts' = [attempts EXCEPT ![m] = 0]
    /\ UNCHANGED <<game, player, bestOf, disqualified, timeouts, editing,
                   handSet, raced>>

(* verify with a wrong code: counted in the transaction, refused after it. *)
VerifyWrong(m, u) ==
    /\ u \in Mistyping
    /\ MayEnter(m, u)
    /\ attempts' = [attempts EXCEPT ![m] = @ + 1]
    /\ UNCHANGED <<game, player, bestOf, disqualified, timeouts, verifiedBy,
                   editing, handSet, raced>>

(* A new code: the counter restarts, the verified referee stays.           *)
RegenerateCode(m) ==
    /\ attempts' = [attempts EXCEPT ![m] = 0]
    /\ UNCHANGED <<game, player, bestOf, disqualified, timeouts, verifiedBy,
                   editing, handSet, raced>>

----------------------------------------------------------------------------
(* What the end of a match causes *)

(* propagateWinner and propagateLoser write the two later matches whatever *)
(* state those are in.                                                     *)
Propagated(m, winner, loser) ==
    [n \in Match |-> [s \in Slot |->
        IF WinnerTo[m] = <<n, s>> THEN winner
        ELSE IF LoserTo[m] = <<n, s>> THEN loser
        ELSE player[n][s]]]

(* Mutant: the loser's slot is forgotten. *)
UnpropagatedWinnerOnly(m) ==
    [n \in Match |-> [s \in Slot |->
        IF WinnerTo[m] = <<n, s>> /\ StatusOf(n) = "SCHEDULED" THEN NoPlayer
        ELSE player[n][s]]]
(* unpropagateWinner and unpropagateLoser empty the slots again, unless    *)
(* the later match has started.                                            *)
Unpropagated(m) ==
    [n \in Match |-> [s \in Slot |->
        IF <<n, s>> \in {WinnerTo[m], LoserTo[m]} /\ StatusOf(n) = "SCHEDULED"
        THEN NoPlayer
        ELSE player[n][s]]]

(* Mutant: only the winner's next match is looked at. *)
NextNotStartedWinnerOnly(m) ==
    \A n \in Match : \A s \in Slot :
        WinnerTo[m] = <<n, s>> => StatusOf(n) = "SCHEDULED"
(* assertNextNotStarted *)
NextNotStarted(m) ==
    \A n \in Match : \A s \in Slot :
        <<n, s>> \in {WinnerTo[m], LoserTo[m]} => StatusOf(n) = "SCHEDULED"

----------------------------------------------------------------------------
(* Points *)

(* pointTx on the match row: the score, a won set's row, the winner and    *)
(* the POINT event with the snapshot taken before.                         *)
AfterPoint(g, m, s) ==
    LET r == ApplyPoint(g.score, bestOf[m], s) IN
    [g EXCEPT !.score = [r EXCEPT !.winnerSlot = 0],
              !.winner = IF r.status = "FINISHED"
                         THEN player[m][r.winnerSlot] ELSE @,
              !.log = Append(@, [type |-> "POINT", player |-> s,
                                 snapshot |-> Snapshot(g)])]

Loser(m, winner) ==
    IF winner = player[m][1] THEN player[m][2] ELSE player[m][1]

(* The row becomes g; a match ended by a point is passed on.               *)
Settle(m, g) ==
    /\ \A s \in Slot : g.score.cur[s] <= MaxPoints
    /\ game' = [game EXCEPT ![m] = g]
    /\ IF g.score.status = "FINISHED"
       THEN player' = Propagated(m, g.winner, Loser(m, g.winner))
       ELSE UNCHANGED player
    /\ UNCHANGED <<disqualified, timeouts, refereeVars>>

Point(m, s) ==
    /\ MayScore(m)
    /\ StatusOf(m) # "FINISHED"
    /\ BothPlayers(m)
    /\ Settle(m, AfterPoint(game[m], m, s))

(* A YELLOW card is stored and logged, then the opponent gets as many      *)
(* points as the player had cards, as ordinary points, until the match     *)
(* ends; they fail the whole transaction if a slot is empty.  A RED card   *)
(* is only recorded, by decision of the chief referee.                     *)
AfterCard(g, s) ==
    [g EXCEPT !.cards = Append(@, s),
              !.log = Append(@, [type |-> "CARD", player |-> s,
                                 snapshot |-> NoSnapshot])]

PriorCards(m, s) ==
    Cardinality({i \in DOMAIN game[m].cards : game[m].cards[i] = s})

(* Mutant: a second penalty point is given to a match already finished.    *)
PenaltyPointPastTheEnd(g, m, s) == AfterPoint(g, m, s)
PenaltyPoint(g, m, s) ==
    IF g.score.status = "FINISHED" THEN g ELSE AfterPoint(g, m, s)

AfterPenalty(g, m, s, points) ==
    CASE points = 0 -> g
      [] points = 1 -> PenaltyPoint(g, m, s)
      [] OTHER -> PenaltyPoint(PenaltyPoint(g, m, s), m, s)

Yellow(m, s) ==
    LET points == PriorCards(m, s) IN
    /\ MayScore(m)
    /\ StatusOf(m) # "FINISHED"
    /\ points < FreeCards
    /\ Len(game[m].cards) < MaxCards
    /\ points > 0 => BothPlayers(m)
    /\ Settle(m, AfterPenalty(AfterCard(game[m], s), m, Opp(s), points))

Red(m, s) ==
    /\ MayScore(m)
    /\ StatusOf(m) # "FINISHED"
    /\ Len(game[m].cards) < MaxCards
    /\ Settle(m, AfterCard(game[m], s))

Timeout(m, s) ==
    /\ MayScore(m)
    /\ StatusOf(m) # "FINISHED"
    /\ s \notin timeouts[m]
    /\ Cardinality(timeouts[m]) < MaxTimeouts
    /\ timeouts' = [timeouts EXCEPT ![m] = @ \cup {s}]
    /\ UNCHANGED <<game, player, disqualified, refereeVars>>

AfterDisqualify(g, s, winner) ==
    [g EXCEPT !.score = [@ EXCEPT !.status = "FINISHED"], !.winner = winner,
              !.log = Append(@, [type |-> "DISQUALIFY", player |-> s,
                                 snapshot |-> NoSnapshot])]

(* The opponent wins at once; the disqualified player still goes where a   *)
(* loser goes.                                                             *)
Disqualify(m, s) ==
    LET out == player[m][s]  winner == player[m][Opp(s)] IN
    /\ MayScore(m)
    /\ StatusOf(m) # "FINISHED"
    /\ BothPlayers(m)
    /\ game' = [game EXCEPT ![m] = AfterDisqualify(@, s, winner)]
    /\ disqualified' = [disqualified EXCEPT ![m] = out]
    /\ player' = Propagated(m, winner, out)
    /\ UNCHANGED <<timeouts, refereeVars>>

----------------------------------------------------------------------------
(* Undo *)

(* Rows that are not in the snapshot are deleted; rows never come back.    *)
(* Mutant: the set that the undone point closed is left behind.            *)
KeepAll(rows, known) == rows
KeepKnown(rows, known) ==
    IF known < Len(rows) THEN SubSeq(rows, 1, known) ELSE rows

LastEvent(m) == game[m].log[Len(game[m].log)]

(* The match as the snapshot has it. *)
Restored(g, snap) ==
    [score |-> [status |-> snap.status, cur |-> snap.cur,
                sets |-> KeepKnown(g.score.sets, snap.sets),
                won |-> snap.won, winnerSlot |-> 0],
     winner |-> snap.winner,
     cards |-> KeepKnown(g.cards, snap.cards),
     log |-> SubSeq(g.log, 1, Len(g.log) - 1)]

(* The point that is taken back had ended the match. *)
EndedByLastPoint(m) ==
    /\ StatusOf(m) = "FINISHED"
    /\ LastEvent(m).snapshot.status # "FINISHED"
    /\ game[m].winner # NoPlayer

Undo(m) ==
    /\ MayScore(m)
    /\ disqualified[m] = NoPlayer
    /\ game[m].log # <<>>
    /\ LastEvent(m).type = "POINT"
    /\ IF EndedByLastPoint(m)
       THEN /\ NextNotStarted(m)
            /\ player' = Unpropagated(m)
       ELSE UNCHANGED player
    /\ game' = [game EXCEPT ![m] = Restored(game[m], LastEvent(m).snapshot)]
    /\ UNCHANGED <<disqualified, timeouts, refereeVars>>

----------------------------------------------------------------------------
(* The administrator's edit *)

EditRead(m) ==
    /\ m \in Editable
    /\ editing = NoMatch
    /\ StatusOf(m) = "SCHEDULED"
    /\ editing' = m
    /\ UNCHANGED <<game, player, bestOf, disqualified, timeouts, verifiedBy,
                   attempts, handSet, raced>>

EditSlot(m, s, p) ==
    /\ editing = m
    /\ editing' = NoMatch
    /\ player' = [player EXCEPT ![m][s] = p]
    /\ handSet' = handSet \cup {<<m, s>>}
    /\ UNCHANGED <<game, bestOf, disqualified, timeouts, verifiedBy, attempts,
                   raced>>

EditFormat(m, b) ==
    /\ editing = m
    /\ editing' = NoMatch
    /\ bestOf' = [bestOf EXCEPT ![m] = b]
    /\ raced' = IF StatusOf(m) = "SCHEDULED" THEN raced ELSE raced \cup {m}
    /\ UNCHANGED <<game, player, disqualified, timeouts, verifiedBy, attempts,
                   handSet>>

----------------------------------------------------------------------------
(* Referee operations, and everything. *)
RefereeStep(m) ==
    \/ \E u \in User : Verify(m, u) \/ VerifyWrong(m, u)
    \/ \E s \in Slot : \/ Point(m, s) \/ Yellow(m, s) \/ Red(m, s)
                       \/ Timeout(m, s) \/ Disqualify(m, s)
    \/ Undo(m)

AdminStep(m) ==
    \/ RegenerateCode(m)
    \/ EditRead(m)
    \/ \E s \in Slot, p \in EditPlayers : EditSlot(m, s, p)
    \/ \E b \in EditBestOf : EditFormat(m, b)

Next == \E m \in Match : RefereeStep(m) \/ AdminStep(m)

Spec == Init /\ [][Next]_vars

----------------------------------------------------------------------------
(* Properties *)

ByHand(m, s) == <<m, s>> \in handSet

(* Every slot of a later match that nobody has written by hand shows what  *)
(* its feeder says now: the winner (or the loser) of a finished match, and *)
(* nobody while the feeder is open, however often points were undone and   *)
(* given again (propagateWinner/Loser, unpropagateWinner/Loser).           *)
SlotFollowsFeeder ==
    \A m, n \in Match : \A s \in Slot :
        ~ByHand(n, s) =>
            /\ WinnerTo[m] = <<n, s>> =>
                  player[n][s] = IF StatusOf(m) = "FINISHED"
                                 THEN game[m].winner ELSE NoPlayer
            /\ LoserTo[m] = <<n, s>> =>
                  IF StatusOf(m) = "FINISHED"
                  THEN ~ByHand(m, 1) /\ ~ByHand(m, 2) =>
                          player[n][s] = Loser(m, game[m].winner)
                  ELSE player[n][s] = NoPlayer

(* A match that has started has a player in every slot nobody has written. *)
StartedIsPaired ==
    \A m \in Match : \A s \in Slot :
        StatusOf(m) # "SCHEDULED" /\ ~ByHand(m, s) => player[m][s] # NoPlayer

(* A finished match has a winner, a point was never taken in a finished    *)
(* match, a match with a point in its log has started, and so had it when  *)
(* any later point was taken.                                              *)
Played(g) ==
    /\ g.score.status = "FINISHED" => g.winner # NoPlayer
    /\ \A i \in DOMAIN g.log : g.log[i].type = "POINT" =>
          /\ g.log[i].snapshot.status # "FINISHED"
          /\ g.score.status # "SCHEDULED"
          /\ \A j \in DOMAIN g.log :
                i < j /\ g.log[j].type = "POINT" =>
                    g.log[j].snapshot.status # "SCHEDULED"

(* What the proofs carry from step to step: a slot keeps following its     *)
(* feeder because an undo can reach the results it must reach (Played) and *)
(* no feeder writes into a started match (StartedIsPaired).                *)
IInv ==
    /\ TypeOK
    /\ \A m \in Match : Played(game[m])
    /\ StartedIsPaired
    /\ SlotFollowsFeeder

(* Once a match has started no step of any referee, of this match or of a  *)
(* feeder, changes who plays it: undo refuses as soon as a later match has *)
(* its first point (assertNextNotStarted).                                 *)
StartedPairIsFixed ==
    [][\A m \in Match : \A s \in Slot :
          StatusOf(m) # "SCHEDULED" /\ <<m, s>> \notin handSet' =>
              player'[m][s] = player[m][s]]_vars

(* The score, played again from the POINT events that are still in the     *)
(* log.  No recursion is needed: the step that leads from the i-th score   *)
(* to the next one is applied by a function over the log's positions.      *)
ReplayOf(m) ==
    LET log == game[m].log
        at[i \in 0..Len(log)] ==
            IF i = 0 THEN InitialState
            ELSE IF log[i].type = "POINT"
                 THEN ApplyPoint(at[i - 1], bestOf[m], log[i].player)
                 ELSE at[i - 1]
    IN  at[Len(log)]

CardEvents(m) == {i \in DOMAIN game[m].log : game[m].log[i].type = "CARD"}

(* The stored score is exactly what the remaining events replay to, sets   *)
(* and winner included, and no card is lost: undo removed the last point   *)
(* with everything it had written and nothing else, penalty points too.    *)
ScoreIsReplay ==
    \A m \in Match :
        LET replay == ReplayOf(m)  score == game[m].score IN
        /\ m \notin raced => /\ score.cur = replay.cur
                             /\ score.sets = replay.sets
                             /\ score.won = replay.won
                             /\ disqualified[m] = NoPlayer =>
                                   score.status = replay.status
        /\ Len(game[m].cards) = Cardinality(CardEvents(m))

(* A match that has a winner is over, one of its two players won it, and   *)
(* an open match has none: winnerId, status and the slots move together.   *)
WinnerIsOneOfThePair ==
    \A m \in Match :
        /\ StatusOf(m) # "FINISHED" <=> game[m].winner = NoPlayer
        /\ (StatusOf(m) = "FINISHED" /\ ~ByHand(m, 1) /\ ~ByHand(m, 2)) =>
              \E s \in Slot : game[m].winner = player[m][s]

----------------------------------------------------------------------------
(* What the code's own words say, and it does not do *)

(* "Faqat boshlanmagan o'yinni tahrirlash mumkin": an edit lands only on a *)
(* match that has not started (update).                                    *)
EditOnlyBeforeStart ==
    [][\A m \in Match :
          StatusOf(m) # "SCHEDULED" =>
              /\ bestOf'[m] = bestOf[m]
              /\ \A s \in Slot : <<m, s>> \in handSet' => <<m, s>> \in handSet
      ]_vars

(* 4.6.1.1: a participant of a match is never the referee who entered its  *)
(* code (verify).                                                          *)
NoRefereeOfOwnMatch ==
    \A m \in Match : \A s \in Slot :
        verifiedBy[m] # NoUser /\ player[m][s] # NoPlayer =>
            OwnPlayer[verifiedBy[m]] # player[m][s]
=============================================================================
