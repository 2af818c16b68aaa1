------------------------------- MODULE Draws -------------------------------
(***************************************************************************)
(* How the bracket and the groups of one category come to be               *)
(* (modules/draws/draws.service.ts, groups.service.ts, category-lock.ts).  *)
(*                                                                         *)
(* Every request first reads the category and places the players, then     *)
(* saves what it has placed in one transaction that locks the row of the   *)
(* category.  What was read may be out of date by then: the transaction    *)
(* looks again at some of it.  Group matches are played and undone, and    *)
(* registrations change, at any time.                                      *)
(***************************************************************************)
EXTENDS Naturals, FiniteSets, Sequences, Players

CONSTANTS
    Request,      \* requests of the secretaries at work at the same time
    BracketLimit  \* up to so many players auto makes no groups (8)

ASSUME DrawsAssumption == BracketLimit \in Nat

VARIABLES
    confirmed,    \* players with a CONFIRMED registration
    stage,        \* status of the group stage, "none" before there is one
    group,        \* its players
    winner,       \* winner of each match of the groups, None while it is open
    draws,        \* the brackets, oldest first
    request

drawVars == <<confirmed, stage, group, winner, draws, request>>

(* Everybody plays everybody. *)
PairsOf(S) == {pair \in SUBSET S : Cardinality(pair) = 2}
Winners == [PairsOf(Player) -> Player \cup {None}]
NoWinner == [pair \in PairsOf(Player) |-> None]

Bracket == [from : {"registrations", "groups"}, players : SUBSET Player,
            winner : Winners, forced : BOOLEAN]
Work == [phase : {"idle", "generate", "create", "slots", "groups", "advance"},
         players : SUBSET Player, winner : Winners, forced : BOOLEAN]
NoWork == [phase |-> "idle", players |-> {}, winner |-> NoWinner, forced |-> FALSE]

DrawInit ==
    /\ confirmed \in SUBSET Player
    /\ stage = "none" /\ group = {} /\ winner = NoWinner
    /\ draws = <<>>
    /\ request = [r \in Request |-> NoWork]

Untouched == stage = "none" /\ draws = <<>>
GroupsAreOver == \A pair \in PairsOf(group) : winner[pair] # None

(* A request goes on with what it has read, or ends. *)
Goes(r, work) == request' = [request EXCEPT ![r] = work]
Holding(phase) == [NoWork EXCEPT !.phase = phase, !.players = confirmed]
Unchanged == UNCHANGED <<confirmed, stage, group, winner, draws>>

----------------------------------------------------------------------------
(* GroupsService.auto picks the format by the number of players. *)
AutoDraw(r) ==
    /\ request[r].phase = "idle"
    /\ Untouched
    /\ Cardinality(confirmed) >= 2
    /\ Goes(r, [NoWork EXCEPT !.phase =
                   IF Cardinality(confirmed) <= BracketLimit THEN "generate"
                   ELSE "create"])
    /\ Unchanged

(* DrawsService.generate up to the transaction. *)
Generate(r) ==
    /\ request[r].phase \in {"idle", "generate"}
    /\ Goes(r, IF Untouched /\ Cardinality(confirmed) >= 2 THEN Holding("slots")
               ELSE NoWork)
    /\ Unchanged

(* GroupsService.create up to the transaction: somebody must go through    *)
(* and somebody not, in one group at least.                                *)
Create(r) ==
    /\ request[r].phase \in {"idle", "create"}
    /\ Goes(r, IF Untouched /\ Cardinality(confirmed) >= 2 THEN Holding("groups")
               ELSE NoWork)
    /\ Unchanged

(* Mutant: what was read before the lock is enough. *)
SeenFree(d) == TRUE
(* The draws are counted again under the lock. *)
StillFree(d) == d = <<>>

(* The transaction of create; a category has one stage. *)
SaveGroups(r) ==
    /\ request[r].phase = "groups"
    /\ IF StillFree(draws) /\ stage = "none"
       THEN /\ stage' = "ACTIVE"
            /\ group' = request[r].players
       ELSE UNCHANGED <<stage, group>>
    /\ Goes(r, NoWork)
    /\ UNCHANGED <<confirmed, winner, draws>>

(* GroupsService.advance up to the transaction.  A tie that only the lot   *)
(* decides must have been accepted; a refusal changes nothing.             *)
Advance(r, forced) ==
    /\ request[r].phase = "idle"
    /\ stage = "ACTIVE"
    /\ GroupsAreOver \/ forced
    /\ Goes(r, [NoWork EXCEPT !.phase = "advance", !.players = group,
                            !.winner = winner, !.forced = forced])
    /\ Unchanged

(* Mutant: a request that fails does not take its change of status back.   *)
StatusKept(fromGroups, saved) == IF fromGroups THEN "ADVANCED" ELSE stage
(* ACTIVE -> ADVANCED commits or rolls back with the bracket. *)
StatusAfter(fromGroups, saved) ==
    IF fromGroups /\ saved THEN "ADVANCED" ELSE stage

(* persistSlotsInner: the bracket, its matches and the status of the stage.*)
SaveBracket(r) ==
    LET work == request[r]
        fromGroups == work.phase = "advance"
        saved == StillFree(draws) /\ (fromGroups => stage = "ACTIVE") IN
    /\ work.phase \in {"slots", "advance"}
    /\ draws' = IF ~saved THEN draws
                ELSE Append(draws,
                  [from |-> IF fromGroups THEN "groups" ELSE "registrations",
                   players |-> work.players, winner |-> work.winner,
                   forced |-> work.forced])
    /\ stage' = StatusAfter(fromGroups, saved)
    /\ Goes(r, NoWork)
    /\ UNCHANGED <<confirmed, group, winner>>

----------------------------------------------------------------------------
(* The matches of the stage. *)
Playable(pair) == stage # "none" /\ pair \subseteq group

(* A match of the groups ends, or its end is taken back: nothing follows   *)
(* from it, so nothing forbids it.                                         *)
FinishMatch(pair, p) ==
    /\ Playable(pair) /\ p \in pair
    /\ winner[pair] = None
    /\ winner' = [winner EXCEPT ![pair] = p]
    /\ UNCHANGED <<confirmed, stage, group, draws, request>>

UndoMatch(pair) ==
    /\ winner[pair] # None
    /\ winner' = [winner EXCEPT ![pair] = None]
    /\ UNCHANGED <<confirmed, stage, group, draws, request>>

(* setRegistrationStatus asks for no draw. *)
SetRegistrationStatus(p) ==
    /\ confirmed' = IF p \in confirmed THEN confirmed \ {p}
                    ELSE confirmed \cup {p}
    /\ UNCHANGED <<stage, group, winner, draws, request>>

DrawNext ==
    \/ \E r \in Request :
          \/ AutoDraw(r) \/ Generate(r) \/ Create(r)
          \/ SaveGroups(r) \/ SaveBracket(r)
          \/ \E forced \in BOOLEAN : Advance(r, forced)
    \/ \E pair \in PairsOf(Player) :
          UndoMatch(pair) \/ \E p \in Player : FinishMatch(pair, p)
    \/ \E p \in Player : SetRegistrationStatus(p)

DrawSpec == DrawInit /\ [][DrawNext]_drawVars

----------------------------------------------------------------------------
(* Properties *)

(* A category never has two brackets, however many requests draw, group    *)
(* and advance it at the same time (persistSlotsInner).                    *)
OneBracket == Len(draws) <= 1

(* The stage counts as advanced exactly when the bracket of the category   *)
(* was filled from its groups: no request that failed has moved it         *)
(* (persistSlotsInner).                                                    *)
AdvancedWithItsBracket ==
    stage = "ADVANCED" <=> \E i \in DOMAIN draws : draws[i].from = "groups"

(* Once there is a bracket no groups are made (GroupsService.create).      *)
NoGroupsAfterBracket == [][draws # <<>> /\ stage = "none" => stage' = "none"]_drawVars

----------------------------------------------------------------------------
(* What the code's own words say, and it does not do *)

(* "bir kategoriyada ikkita setka yoki setka + guruh paydo bo'lmaydi": a   *)
(* category has no bracket beside groups, but the one its groups filled.   *)
NoBracketBesideGroups ==
    stage # "none" => \A i \in DOMAIN draws : draws[i].from = "groups"

(* "Barcha guruh o'yinlari tugagan bo'lishi kerak (yoki `force`)": without *)
(* force a bracket is filled from the groups only when all their matches   *)
(* are over.                                                               *)
FilledFromFinishedGroups ==
    [][Len(draws') > Len(draws) =>
          LET new == draws'[Len(draws')] IN
          new.from = "groups" => new.forced \/ GroupsAreOver]_drawVars
=============================================================================
