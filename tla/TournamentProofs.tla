-------------------------- MODULE TournamentProofs --------------------------
(***************************************************************************)
(* The parts of a tournament beside its matches.                           *)
(*                                                                         *)
(* The draw: however many players and requests there are, a category has   *)
(* one bracket at most, and its groups count as advanced exactly when they *)
(* filled it.  The brackets are counted again under the lock, so one is    *)
(* only ever added to an empty list; and the status moves in the very      *)
(* transaction that adds it.                                               *)
(*                                                                         *)
(* The referees: however many matches, referees, runs in the background    *)
(* and requests of an administrator there are, nobody is assigned to his   *)
(* own match or to two at once, as long as what the choice was made by     *)
(* still holds; and a run leaves nobody out who is free.  First the engine *)
(* alone: it goes through the matches in their order, and each appointment *)
(* keeps what holds of the earlier ones.  Then the transactions around it: *)
(* the invariant says what a choice not written yet was checked for, and   *)
(* that nobody has become sure since of what it did not look at.           *)
(*                                                                         *)
(* The tables of a hall: while the matches are put on tables one by one,   *)
(* what was planned so far is shared, as each goes to the least loaded of  *)
(* its pool, and two pools are the same or have no table in common.        *)
(*                                                                         *)
(* The groups: a row gives each group one player at most, so after all but *)
(* the last row, the only one not full, the groups are equal.  In a round  *)
(* robin two players meet in the rounds that solve a linear equation, and  *)
(* it has one solution.                                                    *)
(*                                                                         *)
(* Results, lots and brackets, each looked at as it is: the comparison of  *)
(* fractions is an order, a match given up counts as the shortest win, a   *)
(* lot is announced when two different sets can go through, and the rounds *)
(* of a bracket halve, so each slot has one match that feeds it.           *)
(***************************************************************************)
EXTENDS Draws, Assignment, TablePlan, Dealing, GroupResult, Lots, Bracket,
        FiniteSetTheorems, WellFoundedInduction, TLAPS

(* The draw of a category. *)

(* Brackets are a list of brackets. *)
DrawsOK == draws \in Seq(Bracket)
RequestsOK == request \in [Request -> Work] /\ winner \in Winners
Stages == stage \in {"none", "ACTIVE", "ADVANCED"}
Confirmations == confirmed \subseteq Player /\ group \subseteq Player
DInv == /\ Confirmations /\ Stages /\ DrawsOK /\ RequestsOK
        /\ OneBracket /\ AdvancedWithItsBracket

LEMMA NoWinnerIsWinners == NoWinner \in Winners
BY DEF NoWinner, Winners

LEMMA IdleIsWork == NoWork \in Work
BY NoWinnerIsWinners DEF NoWork, Work

(* DrawInit establishes the invariant. *)
LEMMA InitDInv == DrawInit => DInv
BY NoWinnerIsWinners, IdleIsWork
   DEF DrawInit, DInv, Confirmations, Stages, DrawsOK, RequestsOK, OneBracket,
       AdvancedWithItsBracket

(* A request that only reads leaves the category as it was.                *)
LEMMA ReadersKeep ==
    ASSUME DInv, NEW r \in Request,
           \/ AutoDraw(r) \/ Generate(r) \/ Create(r)
           \/ \E forced \in BOOLEAN : Advance(r, forced)
    PROVE  DInv'
<1>1. request' \in [Request -> Work]
  <2>1. CASE AutoDraw(r)
    BY <2>1, NoWinnerIsWinners
       DEF AutoDraw, Goes, NoWork, Work, DInv, RequestsOK
  <2>2. CASE Generate(r)
    BY <2>2, NoWinnerIsWinners
       DEF Generate, Goes, Holding, NoWork, Work, DInv, RequestsOK, Confirmations
  <2>3. CASE Create(r)
    BY <2>3, NoWinnerIsWinners
       DEF Create, Goes, Holding, NoWork, Work, DInv, RequestsOK, Confirmations
  <2>4. ASSUME NEW forced \in BOOLEAN, Advance(r, forced)
        PROVE  request' \in [Request -> Work]
    BY <2>4 DEF Advance, Goes, NoWork, Work, DInv, RequestsOK, Confirmations
  <2> QED BY <2>1, <2>2, <2>3, <2>4
<1>2. Unchanged
  BY DEF AutoDraw, Generate, Create, Advance
<1> QED
  BY <1>1, <1>2 DEF Unchanged, DInv, Confirmations, Stages, DrawsOK,
     RequestsOK, OneBracket, AdvancedWithItsBracket

(* New groups are not advanced, and there is no bracket then. *)
LEMMA SaveGroupsKeeps ==
    ASSUME DInv, NEW r \in Request, SaveGroups(r)
    PROVE  DInv'
<1>1. request' \in [Request -> Work] /\ winner' = winner
  BY IdleIsWork DEF SaveGroups, Goes, DInv, RequestsOK
<1>2. Confirmations'
  BY DEF SaveGroups, DInv, Confirmations, RequestsOK, Work
<1>3. /\ draws' = draws
      /\ \/ stage' = stage
         \/ stage = "none" /\ stage' = "ACTIVE"
  BY DEF SaveGroups
<1> QED
  BY <1>1, <1>2, <1>3 DEF DInv, Stages, DrawsOK, RequestsOK, OneBracket,
     AdvancedWithItsBracket

(* A bracket is added to an empty list only, and the status moves with it. *)
LEMMA SaveBracketKeeps ==
    ASSUME DInv, NEW r \in Request, SaveBracket(r)
    PROVE  DInv'
<1> DEFINE work == request[r]
           fromGroups == work.phase = "advance"
           saved == StillFree(draws) /\ (fromGroups => stage = "ACTIVE")
           new == [from |-> IF fromGroups THEN "groups" ELSE "registrations",
                   players |-> work.players, winner |-> work.winner,
                   forced |-> work.forced]
<1>1. /\ request' \in [Request -> Work]
      /\ UNCHANGED <<confirmed, group, winner>>
  BY IdleIsWork DEF SaveBracket, Goes, DInv, RequestsOK
<1>2. /\ draws' = IF ~saved THEN draws ELSE Append(draws, new)
      /\ stage' = IF fromGroups /\ saved THEN "ADVANCED" ELSE stage
  BY DEF SaveBracket, StatusAfter
<1>3. new \in Bracket
  BY DEF DInv, RequestsOK, Work, Bracket
<1>4. CASE ~saved
  BY <1>1, <1>2, <1>4 DEF DInv, Confirmations, Stages, DrawsOK, RequestsOK,
     OneBracket, AdvancedWithItsBracket
<1>5. CASE saved
  <2>1. draws = <<>>
    BY <1>5 DEF StillFree
  <2>2. draws' = <<new>>
    BY <1>2, <1>5, <2>1
  <2>3. stage # "ADVANCED"
    BY <2>1 DEF DInv, AdvancedWithItsBracket
  <2>4. stage' = "ADVANCED" <=> new.from = "groups"
    BY <1>2, <1>5, <2>3
  <2>5. stage' \in {"none", "ACTIVE", "ADVANCED"}
    BY <1>2 DEF DInv, Stages
  <2>6. DrawsOK' /\ OneBracket'
    BY <2>2, <1>3 DEF DrawsOK, OneBracket
  <2>7. AdvancedWithItsBracket'
    <3>1. DOMAIN draws' = {1} /\ draws'[1] = new
      BY <2>2
    <3> QED BY <3>1, <2>4 DEF AdvancedWithItsBracket
  <2> QED
    BY <1>1, <2>5, <2>6, <2>7 DEF DInv, Confirmations, Stages, RequestsOK
<1> QED BY <1>4, <1>5

(* Matches and registrations leave brackets and status alone. *)
LEMMA PlayKeeps ==
    ASSUME DInv,
           \/ \E pair \in PairsOf(Player) :
                 UndoMatch(pair) \/ \E p \in Player : FinishMatch(pair, p)
           \/ \E p \in Player : SetRegistrationStatus(p)
    PROVE  DInv'
<1>1. winner' \in Winners
  BY DEF UndoMatch, FinishMatch, SetRegistrationStatus, DInv, RequestsOK, Winners
<1>2. Confirmations'
  BY DEF UndoMatch, FinishMatch, SetRegistrationStatus, DInv, Confirmations
<1>3. UNCHANGED <<stage, draws, request>>
  BY DEF UndoMatch, FinishMatch, SetRegistrationStatus
<1> QED
  BY <1>1, <1>2, <1>3 DEF DInv, Stages, DrawsOK, RequestsOK, OneBracket,
     AdvancedWithItsBracket

(* The invariant: one bracket at most, and the status goes with it.        *)
THEOREM DrawInvariance == DrawSpec => []DInv
<1>1. DrawInit => DInv
  BY InitDInv
<1>2. DInv /\ [DrawNext]_drawVars => DInv'
  <2> SUFFICES ASSUME DInv, [DrawNext]_drawVars PROVE DInv'
    OBVIOUS
  <2>1. CASE UNCHANGED drawVars
    BY <2>1 DEF drawVars, DInv, Confirmations, Stages, DrawsOK, RequestsOK,
       OneBracket, AdvancedWithItsBracket
  <2>2. CASE DrawNext
    BY <2>2, ReadersKeep, SaveGroupsKeeps, SaveBracketKeeps, PlayKeeps DEF DrawNext
  <2> QED BY <2>1, <2>2
<1> QED BY <1>1, <1>2, PTL DEF DrawSpec

(* However many requests draw, group and advance a category at once, it    *)
(* has one bracket at most (persistSlotsInner).                            *)
THEOREM OneBracketAtMost == DrawSpec => []OneBracket
<1>1. DInv => OneBracket
  BY DEF DInv
<1> QED BY <1>1, DrawInvariance, PTL

(* The groups count as advanced exactly when they filled the bracket       *)
(* (persistSlotsInner).                                                    *)
THEOREM AdvancedMeansFilled == DrawSpec => []AdvancedWithItsBracket
<1>1. DInv => AdvancedWithItsBracket
  BY DEF DInv
<1> QED BY <1>1, DrawInvariance, PTL

(* Once there is a bracket no groups are made (GroupsService.create).      *)
THEOREM GroupsComeFirst == DrawSpec => NoGroupsAfterBracket
<1>1. DInv /\ [DrawNext]_drawVars => (draws # <<>> /\ stage = "none" => stage' = "none")
  <2> SUFFICES ASSUME DInv, [DrawNext]_drawVars, draws # <<>>, stage = "none"
               PROVE  stage' = "none"
    OBVIOUS
  <2>1. ASSUME NEW r \in Request, SaveGroups(r) PROVE stage' = "none"
    BY <2>1 DEF SaveGroups, StillFree
  <2>2. ASSUME NEW r \in Request, SaveBracket(r) PROVE stage' = "none"
    BY <2>2 DEF SaveBracket, StatusAfter, StillFree
  <2>3. CASE UNCHANGED drawVars
    BY <2>3 DEF drawVars
  <2>4. CASE DrawNext
    BY <2>1, <2>2, <2>4 DEF DrawNext, AutoDraw, Generate, Create, Advance, Unchanged,
       UndoMatch, FinishMatch, SetRegistrationStatus
  <2> QED BY <2>3, <2>4
<1> QED
  <2>1. [](DInv) /\ [][DrawNext]_drawVars =>
            [][draws # <<>> /\ stage = "none" => stage' = "none"]_drawVars
    BY <1>1, PTL
  <2> QED BY <2>1, DrawInvariance, PTL DEF DrawSpec, NoGroupsAfterBracket

----------------------------------------------------------------------------
(* What the engine does to the matches of one tournament.                  *)

LEMMA LeastNumber ==
    ASSUME NEW T \in SUBSET Nat, T # {}
    PROVE  \E x \in T : \A y \in T : x <= y
<1> DEFINE R == OpToRel(<, Nat)
<1>1. IsWellFoundedOn(R, Nat)
  BY NatLessThanWellFounded
<1>2. \A x, y \in Nat : x < y => <<x, y>> \in R
  BY DEF OpToRel
<1> HIDE DEF R
<1>3. PICK x \in T : \A y \in T : ~(<<y, x>> \in R)
  BY <1>1, WFMin
<1>4. ASSUME NEW y \in T PROVE x <= y
  <2>1. ~(y < x)
    BY <1>2, <1>3
  <2>2. x \in Nat /\ y \in Nat
    OBVIOUS
  <2> QED BY <2>1, <2>2
<1> QED BY <1>4

(* Something of a set has the least measure. *)
LEMMA LeastBy ==
    ASSUME NEW S, S # {}, NEW f \in [S -> Nat]
    PROVE  \E x \in S : \A y \in S : f[x] <= f[y]
<1> DEFINE T == {f[x] : x \in S}
<1>1. T \in SUBSET Nat /\ T # {}
  OBVIOUS
<1> HIDE DEF T
<1>2. PICK v \in T : \A w \in T : v <= w
  BY <1>1, LeastNumber
<1> QED BY <1>2 DEF T

(* What holds at nothing, and one step on wherever it holds, holds up to n.*)
LEMMA StepByStep ==
    ASSUME NEW n \in Nat, NEW T \in SUBSET (0..n), 0 \in T, \A i \in 1..n : i - 1 \in T => i \in T
    PROVE  0..n \subseteq T
<1> SUFFICES ASSUME NEW j \in 0..n, j \notin T PROVE FALSE
  OBVIOUS
<1> DEFINE missed == {i \in 0..n : i \notin T}
<1>1. missed \in SUBSET Nat /\ missed # {}
  OBVIOUS
<1>2. PICK x \in missed : \A y \in missed : x <= y
  BY <1>1, LeastNumber
<1>3. x \in 1..n /\ x \notin T
  BY <1>2
<1>4. x - 1 \in 0..n /\ ~(x <= x - 1)
  BY <1>3
<1>5. x - 1 \in T
  BY <1>2, <1>4
<1> QED BY <1>3, <1>5

RowsOf(D) == [D -> Row]

(* In First a match without a time comes after all that have one. *)
Untimed(row) == IF row.at = NoTime THEN 1 ELSE 0
TimeOf(row) == IF row.at = NoTime THEN 0 ELSE row.at

LEMMA FirstBy ==
    ASSUME NEW m, NEW n, NEW rows,
           \/ Stage[m] < Stage[n]
           \/ /\ Stage[m] = Stage[n]
              /\ \/ Untimed(rows[m]) < Untimed(rows[n])
                 \/ /\ Untimed(rows[m]) = Untimed(rows[n])
                    /\ \/ TimeOf(rows[m]) < TimeOf(rows[n])
                       \/ TimeOf(rows[m]) = TimeOf(rows[n]) /\ m < n
    PROVE  First(m, n, rows)
<1> DEFINE time(k) == IF rows[k].at = NoTime THEN <<1, 0>> ELSE <<0, rows[k].at>>
           a == <<Stage[m], time(m)[1], time(m)[2], m>>
           b == <<Stage[n], time(n)[1], time(n)[2], n>>
<1>1. \A k : time(k)[1] = Untimed(rows[k]) /\ time(k)[2] = TimeOf(rows[k])
  BY DEF Untimed, TimeOf
<1>2. /\ a[1] = Stage[m] /\ a[2] = Untimed(rows[m]) /\ a[3] = TimeOf(rows[m]) /\ a[4] = m
      /\ b[1] = Stage[n] /\ b[2] = Untimed(rows[n]) /\ b[3] = TimeOf(rows[n]) /\ b[4] = n
  BY <1>1
<1>3. First(m, n, rows) <=> \E i \in 1..4 : a[i] < b[i] /\ \A j \in 1..i - 1 : a[j] = b[j]
  BY DEF First
<1> HIDE DEF a, b
<1>4. CASE Stage[m] < Stage[n]
  <2>1. a[1] < b[1] /\ \A j \in 1..1 - 1 : a[j] = b[j]
    BY <1>2, <1>4
  <2> QED BY <1>3, <2>1
<1>5. CASE Stage[m] = Stage[n] /\ Untimed(rows[m]) < Untimed(rows[n])
  <2>1. a[2] < b[2] /\ \A j \in 1..2 - 1 : a[j] = b[j]
    BY <1>2, <1>5
  <2> QED BY <1>3, <2>1
<1>6. CASE /\ Stage[m] = Stage[n] /\ Untimed(rows[m]) = Untimed(rows[n])
           /\ TimeOf(rows[m]) < TimeOf(rows[n])
  <2>1. a[3] < b[3] /\ \A j \in 1..3 - 1 : a[j] = b[j]
    BY <1>2, <1>6
  <2> QED BY <1>3, <2>1
<1>7. CASE /\ Stage[m] = Stage[n] /\ Untimed(rows[m]) = Untimed(rows[n])
           /\ TimeOf(rows[m]) = TimeOf(rows[n]) /\ m < n
  <2>1. a[4] < b[4] /\ \A j \in 1..4 - 1 : a[j] = b[j]
    BY <1>2, <1>7
  <2> QED BY <1>3, <2>1
<1> QED BY <1>4, <1>5, <1>6, <1>7

(* The order of the engine has a first match. *)
LEMMA ForemostIsThere ==
    ASSUME NEW D \in SUBSET Match, NEW rows \in RowsOf(D), NEW S \in SUBSET D, S # {}
    PROVE  Foremost(S, rows) \in S
<1>0. \A m \in S : /\ m \in Nat /\ Stage[m] \in Nat
                   /\ Untimed(rows[m]) \in Nat /\ TimeOf(rows[m]) \in Nat
  <2> TAKE m \in S
  <2>1. m \in Match /\ rows[m] \in Row
    BY DEF RowsOf
  <2>2. rows[m].at = NoTime \/ rows[m].at \in Nat
    BY <2>1, AssignmentAssumption DEF Row
  <2>3. Untimed(rows[m]) \in Nat /\ TimeOf(rows[m]) \in Nat
    BY <2>2 DEF Untimed, TimeOf
  <2> QED BY <2>1, <2>3, AssignmentAssumption
<1>1. PICK x1 \in S : \A n \in S : Stage[x1] <= Stage[n]
  <2> DEFINE f == [m \in S |-> Stage[m]]
  <2>1. f \in [S -> Nat]
    BY <1>0
  <2>2. PICK x \in S : \A n \in S : f[x] <= f[n]
    <3> HIDE DEF f
    <3> QED BY <2>1, LeastBy
  <2> QED BY <2>2
<1> DEFINE S1 == {m \in S : Stage[m] = Stage[x1]}
<1>2. PICK x2 \in S1 : \A n \in S1 : Untimed(rows[x2]) <= Untimed(rows[n])
  <2> DEFINE f == [m \in S1 |-> Untimed(rows[m])]
  <2>1. f \in [S1 -> Nat] /\ S1 # {}
    BY <1>0
  <2>2. PICK x \in S1 : \A n \in S1 : f[x] <= f[n]
    <3> HIDE DEF f, S1
    <3> QED BY <2>1, LeastBy
  <2> QED BY <2>2
<1> DEFINE S2 == {m \in S1 : Untimed(rows[m]) = Untimed(rows[x2])}
<1>3. PICK x3 \in S2 : \A n \in S2 : TimeOf(rows[x3]) <= TimeOf(rows[n])
  <2> DEFINE f == [m \in S2 |-> TimeOf(rows[m])]
  <2>1. f \in [S2 -> Nat] /\ S2 # {}
    BY <1>0
  <2>2. PICK x \in S2 : \A n \in S2 : f[x] <= f[n]
    <3> HIDE DEF f, S2
    <3> QED BY <2>1, LeastBy
  <2> QED BY <2>2
<1> DEFINE S3 == {m \in S2 : TimeOf(rows[m]) = TimeOf(rows[x3])}
<1>4. PICK x4 \in S3 : \A n \in S3 : x4 <= n
  <2>1. S3 \in SUBSET Nat /\ S3 # {}
    BY <1>0
  <2> HIDE DEF S3
  <2> QED BY <2>1, LeastNumber
<1>5. x4 \in S
  OBVIOUS
<1>6. ASSUME NEW n \in S \ {x4} PROVE First(x4, n, rows)
  <2>0. /\ x4 \in Nat /\ n \in Nat /\ Stage[x4] \in Nat /\ Stage[n] \in Nat
        /\ Untimed(rows[x4]) \in Nat /\ Untimed(rows[n]) \in Nat
        /\ TimeOf(rows[x4]) \in Nat /\ TimeOf(rows[n]) \in Nat
    BY <1>0, <1>5
  <2>1. Stage[x4] = Stage[x1] /\ Untimed(rows[x4]) = Untimed(rows[x2]) /\ TimeOf(rows[x4]) = TimeOf(rows[x3])
    OBVIOUS
  <2>2. \/ Stage[x4] < Stage[n]
        \/ n \in S1
    BY <1>1, <2>0, <2>1
  <2>3. n \in S1 => (\/ Untimed(rows[x4]) < Untimed(rows[n])
                     \/ n \in S2)
    BY <1>2, <2>0, <2>1
  <2>4. n \in S2 => (\/ TimeOf(rows[x4]) < TimeOf(rows[n])
                     \/ n \in S3)
    BY <1>3, <2>0, <2>1
  <2>5. n \in S3 => x4 < n
    BY <1>4, <2>0
  <2>6. /\ n \in S1 => Stage[n] = Stage[x4]
        /\ n \in S2 => n \in S1 /\ Untimed(rows[n]) = Untimed(rows[x4])
        /\ n \in S3 => n \in S2 /\ TimeOf(rows[n]) = TimeOf(rows[x4])
    BY <2>1
  <2> HIDE DEF S1, S2, S3
  <2> QED BY <2>2, <2>3, <2>4, <2>5, <2>6, FirstBy
<1> QED BY <1>5, <1>6 DEF Foremost

LEMMA RowsAreFinite ==
    ASSUME NEW D \in SUBSET Match
    PROVE  IsFiniteSet(D)
BY FS_Subset, AssignmentAssumption

LEMMA DemeritIsNat ==
    ASSUME NEW D \in SUBSET Match, NEW rows \in RowsOf(D), NEW m \in D, NEW r \in Referee
    PROVE  Demerit(r, m, rows) \in Nat
<1>1. Load(r, rows) \in Nat
  <2>1. DOMAIN rows = D
    BY DEF RowsOf
  <2> DEFINE A == {n \in DOMAIN rows : rows[n].referee = r}
             B == {n \in DOMAIN rows : rows[n].assistant = r}
  <2>2. A \in SUBSET Match /\ B \in SUBSET Match
    BY <2>1
  <2>3. Load(r, rows) = Cardinality(A) + Cardinality(B)
    BY DEF Load
  <2> HIDE DEF A, B
  <2>4. Cardinality(A) \in Nat
    BY <2>2, RowsAreFinite, FS_CardinalityType
  <2>5. Cardinality(B) \in Nat
    BY <2>2, RowsAreFinite, FS_CardinalityType
  <2> QED BY <2>3, <2>4, <2>5
<1>2. Rank[r] \in Int /\ Stage[m] \in Int
  BY AssignmentAssumption
<1> DEFINE lack == Rank[r] - Stage[m]
           far == IF Neighbours[r] \cap rows[m].pair # {} THEN 40 ELSE 0
           fit == IF lack > 0 THEN 30 * lack ELSE -2 * lack
<1>3. Demerit(r, m, rows) = 10 * Load(r, rows) + far + fit
  BY DEF Demerit
<1>4. lack \in Int
  BY <1>2
<1>5. far \in Nat
  OBVIOUS
<1> HIDE DEF lack, far
<1>6. fit \in Nat
  BY <1>4
<1> HIDE DEF fit
<1> QED BY <1>1, <1>3, <1>5, <1>6

(* Whoever is picked can take the match; nobody is picked only if nobody can. *)
LEMMA PickIsAble ==
    ASSUME NEW D \in SUBSET Match, NEW rows \in RowsOf(D), NEW m \in D,
           NEW referees \in SUBSET Referee, NEW exclude
    PROVE  LET able == Candidates(m, rows, referees, exclude)
               p == Pick(m, rows, referees, exclude) IN
           IF able = {} THEN p = Nobody ELSE p \in able
<1> DEFINE able == Candidates(m, rows, referees, exclude)
           before(r, s) == \/ Demerit(r, m, rows) < Demerit(s, m, rows)
                           \/ Demerit(r, m, rows) = Demerit(s, m, rows) /\ r <= s
           p == Pick(m, rows, referees, exclude)
<1>1. p = IF able = {} THEN Nobody ELSE CHOOSE r \in able : \A s \in able : before(r, s)
  BY DEF Pick
<1>2. able \in SUBSET Referee
  BY DEF Candidates
<1>3. able \in SUBSET Nat /\ \A r \in able : Demerit(r, m, rows) \in Nat
  BY <1>2, DemeritIsNat, AssignmentAssumption
<1> HIDE DEF able, p
<1>4. ASSUME able # {} PROVE \E r \in able : \A s \in able : before(r, s)
  <2> DEFINE f == [r \in able |-> Demerit(r, m, rows)]
  <2>1. f \in [able -> Nat]
    BY <1>3
  <2>2. PICK x \in able : \A s \in able : f[x] <= f[s]
    <3> HIDE DEF f
    <3> QED BY <1>4, <2>1, LeastBy
  <2> DEFINE best == {r \in able : Demerit(r, m, rows) = Demerit(x, m, rows)}
  <2>3. best \in SUBSET Nat /\ best # {}
    BY <1>3
  <2>4. PICK y \in best : \A s \in best : y <= s
    <3> HIDE DEF best
    <3> QED BY <2>3, LeastNumber
  <2>5. y \in able /\ Demerit(y, m, rows) = Demerit(x, m, rows)
    OBVIOUS
  <2>6. ASSUME NEW s \in able PROVE before(y, s)
    <3>1. Demerit(x, m, rows) <= Demerit(s, m, rows)
      BY <2>2
    <3>2. Demerit(s, m, rows) = Demerit(x, m, rows) => y <= s
      BY <2>4
    <3> QED BY <1>3, <2>5, <3>1, <3>2
  <2> QED BY <2>5, <2>6
<1>5. ASSUME able # {} PROVE p \in able
  <2> HIDE DEF before
  <2> QED BY <1>1, <1>4, <1>5
<1> QED BY <1>1, <1>5 DEF able, p

Proper(row) == row.assistant # Nobody => row.referee \notin {Nobody, row.assistant}

(* A match as it was, but for its referees. *)
SameMatch(a, b) == a.status = b.status /\ a.pair = b.pair /\ a.at = b.at

(* Who is asked looks at the other matches, and at who plays in this one. *)
LEMMA OthersDecide ==
    ASSUME NEW D \in SUBSET Match, NEW a \in RowsOf(D), NEW b \in RowsOf(D), NEW m \in D, NEW r,
           SameMatch(a[m], b[m]), \A n \in D : n # m => a[n] = b[n]
    PROVE  (TakesPart(r, a[m]) <=> TakesPart(r, b[m])) /\ (IsBusy(r, m, a) <=> IsBusy(r, m, b))
<1>1. DOMAIN a = D /\ DOMAIN b = D
  BY DEF RowsOf
<1>2. TakesPart(r, a[m]) <=> TakesPart(r, b[m])
  BY DEF TakesPart, SameMatch
<1>3. \A n \in D \ {m} : a[n] = b[n] /\ (Overlap(a[m], a[n]) <=> Overlap(b[m], b[n]))
  BY DEF Overlap, SameMatch
<1>4. IsBusy(r, m, a) <=> IsBusy(r, m, b)
  BY <1>1, <1>3 DEF IsBusy
<1> QED BY <1>2, <1>4

(* What one appointment makes of the matches. *)
Appointed(y, m, rows, referees) ==
    /\ y \in RowsOf(DOMAIN rows) /\ \A n \in DOMAIN rows : n # m => y[n] = rows[n]
    /\ SameMatch(y[m], rows[m]) /\ Proper(y[m])
    /\ \A r \in Persons(y[m]) : r \in referees /\ ~TakesPart(r, rows[m]) /\ ~IsBusy(r, m, rows)
    /\ y[m].referee = Nobody => \A r \in referees : TakesPart(r, rows[m]) \/ IsBusy(r, m, rows)

(* One appointment: those appointed can take the match, and nobody is      *)
(* appointed only if nobody can (pick).                                    *)
LEMMA AppointIsAble ==
    ASSUME NEW D \in SUBSET Match, NEW rows \in RowsOf(D), NEW m \in D,
           rows[m].referee = Nobody, rows[m].assistant = Nobody,
           NEW referees \in SUBSET Referee, NEW opts,
           NEW y, y = Appoint(rows, m, referees, opts)
    PROVE  Appointed(y, m, rows, referees)
<1> DEFINE main == Pick(m, rows, referees, Nobody)
           chosen == [rows EXCEPT ![m].referee = main]
           second == Pick(m, chosen, referees, main)
           both == [chosen EXCEPT ![m].assistant = second]
           Able(r) == r \in referees /\ ~TakesPart(r, rows[m]) /\ ~IsBusy(r, m, rows)
<1>1. y = IF main # Nobody /\ opts.needAssistant THEN both ELSE chosen
  BY DEF Appoint, OtherThan
<1>2. /\ main # Nobody => Able(main)
      /\ main = Nobody => \A r \in referees : TakesPart(r, rows[m]) \/ IsBusy(r, m, rows)
  <2> DEFINE able == Candidates(m, rows, referees, Nobody)
  <2>1. IF able = {} THEN main = Nobody ELSE main \in able
    BY PickIsAble
  <2>2. \A r : r \in able <=> r # Nobody /\ Able(r)
    BY DEF Candidates
  <2>3. Nobody \notin referees
    BY AssignmentAssumption DEF Nobody
  <2> HIDE DEF able, main, Able
  <2>4. ASSUME main # Nobody PROVE Able(main)
    BY <2>1, <2>2, <2>4
  <2>5. ASSUME main = Nobody, NEW r \in referees PROVE TakesPart(r, rows[m]) \/ IsBusy(r, m, rows)
    <3>1. r \notin able
      BY <2>1, <2>2, <2>5
    <3> QED BY <2>2, <2>3, <3>1 DEF Able
  <2> QED BY <2>4, <2>5
<1>3. main \in Referee \cup {Nobody}
  BY <1>2
<1> HIDE DEF main
<1>4. rows[m] \in Row /\ DOMAIN rows = D
  BY DEF RowsOf
<1>5. /\ [rows[m] EXCEPT !.referee = main] \in Row
      /\ [rows[m] EXCEPT !.referee = main].assistant = Nobody
      /\ [rows[m] EXCEPT !.referee = main].referee = main
      /\ SameMatch([rows[m] EXCEPT !.referee = main], rows[m])
  BY <1>3, <1>4 DEF Row, SameMatch
<1>6. /\ chosen \in RowsOf(D) /\ chosen[m] = [rows[m] EXCEPT !.referee = main]
      /\ \A n \in D : n # m => chosen[n] = rows[n]
  BY <1>4, <1>5 DEF RowsOf
<1> HIDE DEF chosen
<1>7. second # Nobody => second # main /\ Able(second)
  <2> DEFINE able == Candidates(m, chosen, referees, main)
  <2>0. chosen \in RowsOf(D)
    BY <1>6
  <2>1. IF able = {} THEN second = Nobody ELSE second \in able
    BY <2>0, PickIsAble
  <2>2. \A r : (TakesPart(r, chosen[m]) <=> TakesPart(r, rows[m]))
               /\ (IsBusy(r, m, chosen) <=> IsBusy(r, m, rows))
    BY <1>5, <1>6, OthersDecide
  <2>3. \A r \in able : r # main /\ Able(r)
    BY <2>2 DEF Candidates
  <2> HIDE DEF able, second, Able
  <2> QED BY <2>1, <2>3
<1>8. second \in Referee \cup {Nobody}
  BY <1>7
<1> HIDE DEF second
<1>9. chosen[m] \in Row /\ DOMAIN chosen = D
  BY <1>6 DEF RowsOf
<1>10. /\ [chosen[m] EXCEPT !.assistant = second] \in Row
       /\ [chosen[m] EXCEPT !.assistant = second].assistant = second
       /\ [chosen[m] EXCEPT !.assistant = second].referee = chosen[m].referee
       /\ SameMatch([chosen[m] EXCEPT !.assistant = second], chosen[m])
  BY <1>8, <1>9 DEF Row, SameMatch
<1>11. /\ both \in RowsOf(D) /\ both[m] = [chosen[m] EXCEPT !.assistant = second]
       /\ \A n \in D : n # m => both[n] = chosen[n]
  BY <1>6, <1>9, <1>10 DEF RowsOf
<1> HIDE DEF both
<1>12. CASE y = both /\ main # Nobody
  <2>1. /\ y[m].referee = main /\ y[m].assistant = second
        /\ SameMatch(y[m], rows[m])
    BY <1>5, <1>6, <1>10, <1>11, <1>12 DEF SameMatch
  <2>2. Persons(y[m]) = {main, second} \ {Nobody}
    <3> HIDE DEF Able
    <3> QED BY <2>1 DEF Persons
  <2>3. Proper(y[m])
    BY <1>7, <1>12, <2>1 DEF Proper
  <2>4. y \in RowsOf(D) /\ \A n \in D : n # m => y[n] = rows[n]
    BY <1>6, <1>11, <1>12
  <2> HIDE DEF Able
  <2>5. \A r \in Persons(y[m]) : Able(r)
    BY <1>2, <1>7, <2>2
  <2> QED BY <1>4, <1>12, <2>1, <2>3, <2>4, <2>5 DEF Able, Appointed
<1>13. CASE y = chosen
  <2>1. /\ y[m].referee = main /\ y[m].assistant = Nobody
        /\ SameMatch(y[m], rows[m])
    BY <1>5, <1>6, <1>13
  <2>2. Persons(y[m]) = {main} \ {Nobody}
    BY <2>1 DEF Persons
  <2>3. Proper(y[m])
    BY <2>1 DEF Proper
  <2>4. y \in RowsOf(D) /\ \A n \in D : n # m => y[n] = rows[n]
    BY <1>6, <1>13
  <2>5. \A r \in Persons(y[m]) : Able(r)
    <3> HIDE DEF Able
    <3> QED BY <1>2, <2>2
  <2> QED BY <1>2, <1>4, <2>1, <2>3, <2>4, <2>5 DEF Appointed
<1>14. (y = both /\ main # Nobody) \/ y = chosen
  BY <1>1
<1> QED BY <1>12, <1>13, <1>14

(* The matches the engine is free to assign start without referees.        *)
LEMMA ClearedRows ==
    ASSUME NEW D \in SUBSET Match, NEW rows \in RowsOf(D), NEW opts
    PROVE  /\ Cleared(rows, opts) \in RowsOf(D) /\ Todo(rows, opts) \in SUBSET D
           /\ \A n \in D : SameMatch(Cleared(rows, opts)[n], rows[n])
           /\ \A n \in D : Keep(rows[n], opts) => Cleared(rows, opts)[n] = rows[n]
           /\ \A n \in Todo(rows, opts) : ~Keep(rows[n], opts)
           /\ \A n \in D : ~Keep(rows[n], opts) => /\ Cleared(rows, opts)[n].referee = Nobody
                                                   /\ Cleared(rows, opts)[n].assistant = Nobody
<1> DEFINE c == Cleared(rows, opts)
           empty(n) == [rows[n] EXCEPT !.referee = Nobody, !.assistant = Nobody]
<1>1. DOMAIN rows = D /\ \A n \in D : rows[n] \in Row
  BY DEF RowsOf
<1>2. c = [n \in D |-> IF Keep(rows[n], opts) THEN rows[n] ELSE empty(n)]
  BY <1>1 DEF Cleared
<1>3. \A n \in D : /\ empty(n) \in Row /\ SameMatch(empty(n), rows[n])
                   /\ empty(n).referee = Nobody /\ empty(n).assistant = Nobody
  BY <1>1 DEF Row, SameMatch
<1> HIDE DEF c, empty
<1>4. c \in RowsOf(D)
  BY <1>1, <1>2, <1>3 DEF RowsOf
<1>5. \A n \in D : SameMatch(c[n], rows[n])
  BY <1>2, <1>3 DEF SameMatch
<1>6. Todo(rows, opts) \in SUBSET D /\ \A n \in Todo(rows, opts) : ~Keep(rows[n], opts)
  BY <1>1 DEF Todo
<1> QED BY <1>2, <1>3, <1>4, <1>5, <1>6 DEF c

(* What an appointed match may rely on. *)
Served(m, done, referees) ==
    /\ Proper(done[m])
    /\ \A r \in Persons(done[m]) : r \in referees /\ ~TakesPart(r, done[m])
    /\ \A n \in DOMAIN done \ {m} : Overlap(done[m], done[n]) =>
           Persons(done[m]) \cap Persons(done[n]) = {}
    /\ done[m].referee = Nobody => \A r \in referees : TakesPart(r, done[m]) \/ IsBusy(r, m, done)

(* The engine at work: what is left is as it was, the others are served.   *)
AtWork(x, rows, referees, opts) ==
    /\ x.left \subseteq Todo(rows, opts) /\ x.rows \in RowsOf(DOMAIN rows)
    /\ \A n \in DOMAIN rows : SameMatch(x.rows[n], rows[n])
    /\ \A n \in DOMAIN rows : n \notin Todo(rows, opts) \ x.left =>
           x.rows[n] = Cleared(rows, opts)[n]
    /\ \A m \in Todo(rows, opts) \ x.left : Served(m, x.rows, referees)

LEMMA OverlapIsMutual ==
    ASSUME NEW a, NEW b, Overlap(a, b)
    PROVE  Overlap(b, a)
BY DEF Overlap

(* One appointment more. *)
OneDone(x, z, rows, referees, opts) ==
    /\ AtWork(z, rows, referees, opts)
    /\ \E m \in x.left : z.left = x.left \ {m}

LEMMA AppointNextKeeps ==
    ASSUME NEW D \in SUBSET Match, NEW rows \in RowsOf(D), NEW referees \in SUBSET Referee,
           NEW opts, NEW x, AtWork(x, rows, referees, opts), x.left # {},
           NEW z, z = AppointNext(x, rows, referees, opts)
    PROVE  OneDone(x, z, rows, referees, opts)
<1> DEFINE m == Foremost(x.left, rows)
           y == Appoint(x.rows, m, referees, opts)
           todo == Todo(rows, opts)
<1>0. DOMAIN rows = D
  BY DEF RowsOf
<1>1. /\ x.left \subseteq todo /\ x.rows \in RowsOf(D) /\ todo \in SUBSET D
      /\ \A n \in D : SameMatch(x.rows[n], rows[n])
      /\ \A n \in D : n \notin todo \ x.left => x.rows[n] = Cleared(rows, opts)[n]
      /\ \A n \in todo \ x.left : Served(n, x.rows, referees)
  BY <1>0, ClearedRows DEF AtWork
<1>2. m \in x.left
  <2>1. x.left \in SUBSET D
    BY <1>1
  <2> QED BY <2>1, ForemostIsThere
<1>3. z.left = x.left \ {m} /\ z.rows = y
  BY DEF AppointNext, y, m
<1> HIDE DEF m, y, todo
<1>4. m \in D /\ m \in todo
  BY <1>1, <1>2
<1>5. x.rows[m].referee = Nobody /\ x.rows[m].assistant = Nobody
  BY <1>1, <1>2, <1>4, ClearedRows DEF todo
<1>6. /\ y \in RowsOf(D) /\ \A n \in D : n # m => y[n] = x.rows[n]
      /\ SameMatch(y[m], x.rows[m]) /\ Proper(y[m])
      /\ \A r \in Persons(y[m]) : /\ r \in referees
                                  /\ ~TakesPart(r, x.rows[m]) /\ ~IsBusy(r, m, x.rows)
      /\ y[m].referee = Nobody =>
            \A r \in referees : TakesPart(r, x.rows[m]) \/ IsBusy(r, m, x.rows)
  <2>1. x.rows \in RowsOf(D)
    BY <1>1
  <2>2. y = Appoint(x.rows, m, referees, opts)
    BY DEF y
  <2>3. Appointed(y, m, x.rows, referees)
    BY <1>4, <1>5, <2>1, <2>2, AppointIsAble
  <2>4. DOMAIN x.rows = D
    BY <2>1 DEF RowsOf
  <2> QED BY <2>3, <2>4 DEF Appointed
<1>7. DOMAIN y = D /\ DOMAIN x.rows = D
  BY <1>1, <1>6 DEF RowsOf
<1>8. \A r : (TakesPart(r, y[m]) <=> TakesPart(r, x.rows[m]))
             /\ (IsBusy(r, m, y) <=> IsBusy(r, m, x.rows))
  BY <1>1, <1>4, <1>6, OthersDecide
<1>9. \A n \in D : SameMatch(y[n], rows[n])
  BY <1>1, <1>4, <1>6 DEF SameMatch
<1>10. Persons(x.rows[m]) = {}
  BY <1>5 DEF Persons
<1>11. ASSUME NEW n \in D, n # m, Overlap(y[m], y[n]) PROVE Persons(y[m]) \cap Persons(y[n]) = {}
  <2> SUFFICES ASSUME NEW r \in Persons(y[m]), r \in Persons(y[n]) PROVE FALSE
    OBVIOUS
  <2>1. IsBusy(r, m, y)
    BY <1>7, <1>11 DEF IsBusy
  <2> QED BY <1>6, <1>8, <2>1
<1>12. Served(m, y, referees)
  BY <1>6, <1>7, <1>8, <1>11 DEF Served
<1>13. ASSUME NEW n \in todo \ x.left PROVE Served(n, y, referees)
  <2>1. n # m /\ n \in D /\ y[n] = x.rows[n] /\ Served(n, x.rows, referees)
    BY <1>1, <1>2, <1>6, <1>13
  <2>2. ASSUME NEW k \in D \ {n}, Overlap(y[n], y[k])
        PROVE  Persons(y[n]) \cap Persons(y[k]) = {}
    <3>1. CASE k = m
      BY <1>11, <2>1, <2>2, <3>1, OverlapIsMutual
    <3>2. CASE k # m
      <4>1. y[k] = x.rows[k]
        BY <1>6, <3>2
      <4> QED BY <1>7, <2>1, <2>2, <4>1 DEF Served
    <3> QED BY <3>1, <3>2
  <2>3. ASSUME NEW r, IsBusy(r, n, x.rows) PROVE IsBusy(r, n, y)
    <3>1. PICK k \in D \ {n} : r \in Persons(x.rows[k]) /\ Overlap(x.rows[n], x.rows[k])
      BY <1>7, <2>3 DEF IsBusy
    <3>2. k # m
      BY <1>10, <3>1
    <3>3. y[k] = x.rows[k]
      BY <1>6, <3>2
    <3> QED BY <1>7, <2>1, <3>1, <3>3 DEF IsBusy
  <2> QED BY <1>7, <2>1, <2>2, <2>3 DEF Served
<1>14. \A n \in D : n \notin todo \ z.left => y[n] = Cleared(rows, opts)[n]
  BY <1>1, <1>3, <1>4, <1>6
<1>15. \A n \in todo \ z.left : Served(n, y, referees)
  BY <1>3, <1>12, <1>13
<1>16. AtWork(z, rows, referees, opts)
  BY <1>0, <1>1, <1>3, <1>6, <1>9, <1>14, <1>15 DEF AtWork, todo
<1> QED BY <1>2, <1>3, <1>16 DEF m, OneDone

(* The engine appoints once for each match it has to do. *)
LEMMA AppointmentsRun ==
    ASSUME NEW D \in SUBSET Match, NEW rows \in RowsOf(D), NEW referees, NEW opts
    PROVE  LET f == Appointments(rows, referees, opts) IN
           /\ Cardinality(Todo(rows, opts)) \in Nat
           /\ f[0] = [left |-> Todo(rows, opts), rows |-> Cleared(rows, opts)]
           /\ \A i \in 1..Cardinality(Todo(rows, opts)) :
                 f[i] = AppointNext(f[i - 1], rows, referees, opts)
<1> DEFINE n == Cardinality(Todo(rows, opts))
           base == [left |-> Todo(rows, opts), rows |-> Cleared(rows, opts)]
           step(d) == AppointNext(d, rows, referees, opts)
           R(f) == [k \in 0..n |-> IF k = 0 THEN base ELSE step(f[k - 1])]
           after == CHOOSE f : f = R(f)
<1>1. n \in Nat
  <2>1. Todo(rows, opts) \in SUBSET Match
    BY ClearedRows
  <2> QED BY <2>1, RowsAreFinite, FS_CardinalityType
<1>2. Appointments(rows, referees, opts) = after
  BY DEF Appointments
<1> HIDE DEF n, base, step
<1> DEFINE Unrolls(k, f) == /\ f = [i \in 0..k |-> f[i]] /\ f[0] = base
                         /\ \A i \in 1..k : f[i] = step(f[i - 1])
           T == {k \in 0..n : \E f : Unrolls(k, f)}
<1>3. 0 \in T
  <2>1. Unrolls(0, [i \in 0..0 |-> base])
    OBVIOUS
  <2> HIDE DEF Unrolls
  <2> QED BY <1>1, <2>1
<1>4. ASSUME NEW k \in 1..n, k - 1 \in T PROVE k \in T
  <2>1. PICK f : Unrolls(k - 1, f)
    BY <1>4
  <2> DEFINE h == [i \in 0..k |-> IF i = k THEN step(f[k - 1]) ELSE f[i]]
  <2>2. h = [i \in 0..k |-> h[i]] /\ h[0] = base
    BY <2>1
  <2>3. ASSUME NEW i \in 1..k PROVE h[i] = step(h[i - 1])
    <3>1. CASE i = k
      <4>1. h[i] = step(f[k - 1]) /\ h[i - 1] = f[k - 1]
        BY <3>1
      <4> HIDE DEF h
      <4> QED BY <3>1, <4>1
    <3>2. CASE i # k
      <4>1. i \in 1..(k - 1) /\ h[i] = f[i] /\ h[i - 1] = f[i - 1]
        BY <3>2
      <4> HIDE DEF h
      <4> QED BY <2>1, <4>1
    <3> QED BY <3>1, <3>2
  <2> HIDE DEF h
  <2>4. Unrolls(k, h)
    BY <2>2, <2>3
  <2> HIDE DEF Unrolls
  <2> QED BY <2>4
<1>5. PICK f : Unrolls(n, f)
  <2>1. T \in SUBSET (0..n)
    OBVIOUS
  <2> HIDE DEF T
  <2>2. 0..n \subseteq T
    BY <1>1, <1>3, <1>4, <2>1, StepByStep
  <2>3. n \in T
    BY <1>1, <2>2
  <2> QED BY <2>3 DEF T
<1>6. f = R(f)
  <2>1. ASSUME NEW i \in 0..n PROVE f[i] = R(f)[i]
    <3>1. CASE i = 0
      BY <1>5, <3>1
    <3>2. CASE i # 0
      <4>1. i \in 1..n
        BY <1>1, <3>2
      <4> QED BY <1>5, <3>2, <4>1
    <3> QED BY <3>1, <3>2
  <2>2. f = [i \in 0..n |-> f[i]]
    BY <1>5
  <2>3. R(f) = [i \in 0..n |-> R(f)[i]]
    OBVIOUS
  <2> HIDE DEF R, Unrolls
  <2> QED BY <2>1, <2>2, <2>3
<1>7. after = R(after)
  <2> HIDE DEF R
  <2> QED BY <1>6
<1>8. /\ after[0] = base
      /\ \A i \in 1..n : after[i] = step(after[i - 1])
  <2>1. \A i \in 0..n : after[i] = R(after)[i]
    BY <1>7
  <2> HIDE DEF after
  <2>2. 0 \in 0..n /\ \A i \in 1..n : i \in 0..n /\ i # 0
    BY <1>1
  <2> QED BY <2>1, <2>2
<1> HIDE DEF after
<1> QED BY <1>1, <1>2, <1>8 DEF n, base, step

LEMMA OneLess ==
    ASSUME NEW S, IsFiniteSet(S), NEW m \in S
    PROVE  IsFiniteSet(S \ {m}) /\ Cardinality(S \ {m}) = Cardinality(S) - 1
BY FS_RemoveElement

(* What comes out: every match the engine was free to assign is served, and *)
(* the others are as they were (assignReferees).                            *)
LEMMA AssignServes ==
    ASSUME NEW D \in SUBSET Match, NEW rows \in RowsOf(D), NEW referees \in SUBSET Referee, NEW opts
    PROVE  LET done == Assign(rows, referees, opts) IN
           /\ done \in RowsOf(D) /\ \A n \in D : SameMatch(done[n], rows[n])
           /\ \A n \in D \ Todo(rows, opts) : done[n] = Cleared(rows, opts)[n]
           /\ \A m \in Todo(rows, opts) : Served(m, done, referees)
<1> DEFINE todo == Todo(rows, opts)
           n == Cardinality(todo)
           f == Appointments(rows, referees, opts)
           Good(k) == /\ AtWork(f[k], rows, referees, opts)
                      /\ IsFiniteSet(f[k].left) /\ Cardinality(f[k].left) = n - k
           T == {k \in 0..n : Good(k)}
<1>0. DOMAIN rows = D
  BY DEF RowsOf
<1>1. todo \in SUBSET D /\ IsFiniteSet(todo)
  <2>1. todo \in SUBSET D
    BY ClearedRows
  <2>2. todo \in SUBSET Match
    BY <2>1
  <2> HIDE DEF todo
  <2> QED BY <2>1, <2>2, RowsAreFinite
<1>2. /\ n \in Nat
      /\ f[0] = [left |-> todo, rows |-> Cleared(rows, opts)]
      /\ \A i \in 1..n : f[i] = AppointNext(f[i - 1], rows, referees, opts)
  BY AppointmentsRun
<1> HIDE DEF f, n, todo
<1>3. 0 \in T
  <2>1. f[0].left = todo /\ f[0].rows = Cleared(rows, opts)
    BY <1>2
  <2>2. AtWork(f[0], rows, referees, opts)
    BY <1>0, <2>1, ClearedRows DEF AtWork, todo
  <2>3. Cardinality(todo) = n - 0
    BY <1>2 DEF n
  <2> QED BY <1>1, <1>2, <2>1, <2>2, <2>3
<1>4. ASSUME NEW k \in 1..n, k - 1 \in T PROVE k \in T
  <2> DEFINE x == f[k - 1]  z == f[k]
  <2>1. /\ AtWork(x, rows, referees, opts)
        /\ IsFiniteSet(x.left) /\ Cardinality(x.left) = n - (k - 1)
    BY <1>4
  <2>2. z = AppointNext(x, rows, referees, opts)
    BY <1>2
  <2> HIDE DEF x, z
  <2>3. x.left # {}
    <3>1. Cardinality(x.left) # 0
      BY <1>2, <2>1
    <3> QED BY <3>1, FS_EmptySet
  <2>4. AtWork(z, rows, referees, opts) /\ \E m \in x.left : z.left = x.left \ {m}
    <3>1. AtWork(x, rows, referees, opts)
      BY <2>1
    <3>2. OneDone(x, z, rows, referees, opts)
      BY <2>2, <2>3, <3>1, AppointNextKeeps
    <3> QED BY <3>2 DEF OneDone
  <2>5. PICK m \in x.left : z.left = x.left \ {m}
    BY <2>4
  <2>6. IsFiniteSet(z.left) /\ Cardinality(z.left) = Cardinality(x.left) - 1
    BY <2>1, <2>5, OneLess
  <2>7. Cardinality(z.left) = n - k
    BY <1>2, <2>1, <2>6
  <2>8. Good(k)
    BY <2>4, <2>6, <2>7 DEF z
  <2> HIDE DEF Good
  <2> QED BY <2>8
<1>5. n \in T
  <2>1. T \in SUBSET (0..n)
    OBVIOUS
  <2> HIDE DEF T
  <2>2. 0..n \subseteq T
    BY <1>2, <1>3, <1>4, <2>1, StepByStep
  <2> QED BY <1>2, <2>2
<1>6. AtWork(f[n], rows, referees, opts) /\ f[n].left = {}
  <2>1. IsFiniteSet(f[n].left) /\ Cardinality(f[n].left) = 0
    BY <1>2, <1>5
  <2>2. f[n].left = {}
    BY <2>1, FS_EmptySet
  <2> QED BY <1>5, <2>2
<1>7. Assign(rows, referees, opts) = f[n].rows
  BY DEF Assign, f, n, todo
<1> QED BY <1>0, <1>6, <1>7 DEF AtWork, todo

----------------------------------------------------------------------------
(* Type correctness *)

LEMMA JobOfRun ==
    ASSUME NEW t \in Tournament, NEW task \in Run(t), task.step = "write"
    PROVE  /\ MatchesOf(t) \in SUBSET Match /\ task.seen \in RowsOf(MatchesOf(t))
           /\ task.pool \in SUBSET Referee /\ task.opts \in Options
BY DEF Run, MatchesOf, RowsOf

LEMMA ReadIsRun ==
    ASSUME match \in Rows, pool \subseteq Referee, NEW t \in Tournament, NEW opts \in Options
    PROVE  Read(t, opts) \in Run(t)
<1>1. Loaded(t) \in [MatchesOf(t) -> Row]
  BY DEF Loaded, MatchesOf, Rows
<1> QED BY <1>1 DEF Read, Run

LEMMA HoldsIsKnown == \A m, seen : Holds(m, seen) \in SUBSET {"pair", "time"}
BY DEF Holds

(* What a transaction of assignTournament makes of the rows: those found   *)
(* get the referees of the engine, and the others stay as they are.        *)
Found(task, rows) == {m \in Todo(task.seen, task.opts) : rows[m].referee # Nobody}
LeftOver(task, rows) == {m \in DOMAIN rows \ Found(task, rows) : ~Keep(task.seen[m], task.opts)}
Written(task, rows) ==
    /\ \A m \in Found(task, rows) :
          /\ SameMatch(match'[m], match[m])
          /\ match'[m].referee = rows[m].referee /\ match'[m].assistant = rows[m].assistant
          /\ sure'[m] \subseteq Holds(m, task.seen)
    /\ \A m \in Match \ Found(task, rows) : match'[m] = match[m] /\ sure'[m] \subseteq sure[m]
    /\ \A m \in Match : match[m].status = "FINISHED" => sure'[m] = {}
    /\ \A m \in LeftOver(task, rows) : "time" \notin sure'[m]

LEMMA WriteWrites ==
    ASSUME match \in Rows, sure \in [Match -> SUBSET {"pair", "time"}],
           NEW D \in SUBSET Match, NEW task, task.seen \in RowsOf(D),
           task.pool \in SUBSET Referee, Write(task)
    PROVE  /\ match' \in Rows /\ sure' \in [Match -> SUBSET {"pair", "time"}]
           /\ Written(task, Assign(task.seen, task.pool, task.opts))
<1> DEFINE rows == Assign(task.seen, task.pool, task.opts)
           found == Found(task, rows)
           leftOver == LeftOver(task, rows)
           filled(m) == [match[m] EXCEPT !.referee = rows[m].referee,
                                         !.assistant = rows[m].assistant]
<1>1. rows \in RowsOf(D) /\ Todo(task.seen, task.opts) \in SUBSET D
  <2>1. rows \in RowsOf(D)
    BY AssignServes
  <2>2. Todo(task.seen, task.opts) \in SUBSET D
    BY ClearedRows
  <2> HIDE DEF rows
  <2> QED BY <2>1, <2>2
<1>2. /\ match' = [m \in Match |-> IF m \in found THEN filled(m) ELSE match[m]]
      /\ sure' = [m \in Match |-> IF match[m].status = "FINISHED" THEN {}
                                  ELSE IF m \in found THEN Holds(m, task.seen)
                                  ELSE IF m \in leftOver THEN sure[m] \ {"time"}
                                  ELSE sure[m]]
  BY DEF Write, Found, LeftOver
<1> HIDE DEF rows
<1>3. found \in SUBSET D
  BY <1>1 DEF Found
<1>4. leftOver \in SUBSET Match /\ leftOver \cap found = {}
  BY <1>1 DEF LeftOver, RowsOf
<1>5. ASSUME NEW m \in found
      PROVE  /\ filled(m) \in Row /\ SameMatch(filled(m), match[m])
             /\ filled(m).referee = rows[m].referee /\ filled(m).assistant = rows[m].assistant
  <2>1. rows[m] \in Row /\ match[m] \in Row
    BY <1>1, <1>3 DEF RowsOf, Rows
  <2> QED BY <2>1 DEF Row, SameMatch
<1> HIDE DEF found, leftOver, filled
<1>6. match' \in Rows
  BY <1>2, <1>5 DEF Rows
<1>7. sure' \in [Match -> SUBSET {"pair", "time"}]
  <2>1. \A m \in Match : sure'[m] \in SUBSET {"pair", "time"}
    BY <1>2, HoldsIsKnown
  <2>2. sure' = [m \in Match |-> sure'[m]]
    BY <1>2
  <2> QED BY <2>1, <2>2
<1>8. Written(task, rows)
  <2>1. \A m \in found : match'[m] = filled(m) /\ sure'[m] \subseteq Holds(m, task.seen)
    BY <1>2, <1>3
  <2>2. \A m \in Match \ found : match'[m] = match[m] /\ sure'[m] \subseteq sure[m]
    BY <1>2
  <2>3. \A m \in Match : match[m].status = "FINISHED" => sure'[m] = {}
    BY <1>2
  <2>4. \A m \in leftOver : "time" \notin sure'[m]
    BY <1>2, <1>4
  <2>5. \A m \in found : /\ SameMatch(match'[m], match[m])
                         /\ match'[m].referee = rows[m].referee
                         /\ match'[m].assistant = rows[m].assistant
    BY <1>5, <2>1
  <2> QED BY <2>1, <2>2, <2>3, <2>4, <2>5 DEF Written, found, leftOver
<1> QED BY <1>6, <1>7, <1>8 DEF rows

(* Nothing else but the rows is written. *)
LEMMA WriteKeepsTypes ==
    ASSUME TypeOK, NEW t \in Tournament, NEW task \in Run(t), task.step = "write", Write(task)
    PROVE  match' \in Rows /\ sure' \in [Match -> SUBSET {"pair", "time"}]
<1>1. /\ MatchesOf(t) \in SUBSET Match /\ task.seen \in RowsOf(MatchesOf(t))
      /\ task.pool \in SUBSET Referee
  BY JobOfRun
<1>2. match \in Rows /\ sure \in [Match -> SUBSET {"pair", "time"}]
  BY DEF TypeOK
<1> QED BY <1>1, <1>2, WriteWrites

LEMMA RunsStayRuns ==
    ASSUME DOMAIN run = Tournament, \A t \in Tournament : run[t] \in Run(t),
           NEW t \in Tournament, NEW task \in Run(t)
    PROVE  LET r == [run EXCEPT ![t] = task] IN
           DOMAIN r = Tournament /\ \A k \in Tournament : r[k] \in Run(k)
OBVIOUS

LEMMA IdleIsRun ==
    \A t : {Idle, [step |-> "count"], [step |-> "load"]} \subseteq Run(t)
BY DEF Idle, Run

LEMMA InitTypes == Init => TypeOK
<1> SUFFICES ASSUME Init PROVE TypeOK
  OBVIOUS
<1>1. match \in Rows
  <2>1. \A m \in Match : [status |-> "SCHEDULED", pair |-> {}, at |-> Schedule[m],
                          referee |-> Nobody, assistant |-> Nobody] \in Row
    BY AssignmentAssumption DEF Row, Phase, NoTime
  <2> QED BY <2>1 DEF Init, Rows
<1>2. DOMAIN run = Tournament /\ \A t \in Tournament : run[t] \in Run(t)
  BY IdleIsRun DEF Init
<1>3. desk \in {Idle} /\ sure \in [Match -> SUBSET {"pair", "time"}]
  BY DEF Init
<1>4. calls \in [Tournament -> 0..MaxCalls] /\ incidents \in 0..MaxIncidents
  BY AssignmentAssumption DEF Init
<1> QED BY <1>1, <1>2, <1>3, <1>4 DEF Init, TypeOK

(* A step of the runs in the background. *)
LEMMA RunTypes ==
    ASSUME TypeOK, NEW t \in Tournament, Call(t) \/ RunStep(t) \/ FailRun(t)
    PROVE  TypeOK'
<1>1. /\ DOMAIN run = Tournament /\ \A k \in Tournament : run[k] \in Run(k)
      /\ calls \in [Tournament -> 0..MaxCalls] /\ lost \subseteq Tournament /\ unseen \subseteq Match
      /\ match \in Rows /\ pool \subseteq Referee
  BY DEF TypeOK
<1>2. CASE Call(t)
  <2>1. calls' \in [Tournament -> 0..MaxCalls]
    <3>1. calls[t] - 1 \in 0..MaxCalls
      BY <1>1, <1>2, AssignmentAssumption DEF Call
    <3> QED BY <1>1, <1>2, <3>1 DEF Call
  <2>2. DOMAIN run' = Tournament /\ \A k \in Tournament : run'[k] \in Run(k)
    BY <1>1, <1>2, RunsStayRuns, IdleIsRun DEF Call
  <2>3. lost' \subseteq Tournament
    BY <1>1, <1>2 DEF Call
  <2> QED BY <1>2, <2>1, <2>2, <2>3 DEF Call, TypeOK
<1>3. CASE Count(t)
  <2>1. DOMAIN run' = Tournament /\ \A k \in Tournament : run'[k] \in Run(k)
    BY <1>1, <1>3, RunsStayRuns, IdleIsRun DEF Count
  <2>2. lost' \subseteq Tournament /\ unseen' \subseteq Match
    BY <1>1, <1>3 DEF Count, Seen
  <2> QED BY <1>3, <2>1, <2>2 DEF Count, TypeOK
<1>4. CASE LoadRun(t)
  <2>1. Read(t, Default) \in Run(t)
    BY <1>1, ReadIsRun DEF Default, Options
  <2>2. DOMAIN run' = Tournament /\ \A k \in Tournament : run'[k] \in Run(k)
    BY <1>1, <1>4, <2>1, RunsStayRuns, IdleIsRun DEF LoadRun
  <2>3. lost' \subseteq Tournament /\ unseen' \subseteq Match
    BY <1>1, <1>4 DEF LoadRun, Seen
  <2> QED BY <1>4, <2>2, <2>3 DEF LoadRun, TypeOK
<1>5. CASE WriteRun(t)
  <2>1. PICK task : task = run[t]
    OBVIOUS
  <2>2. task \in Run(t) /\ task.step = "write" /\ Write(task)
    BY <1>1, <1>5, <2>1 DEF WriteRun
  <2>3. match' \in Rows /\ sure' \in [Match -> SUBSET {"pair", "time"}]
    BY <2>2, WriteKeepsTypes
  <2>4. DOMAIN run' = Tournament /\ \A k \in Tournament : run'[k] \in Run(k)
    BY <1>1, <1>5, RunsStayRuns, IdleIsRun DEF WriteRun
  <2> QED BY <1>5, <2>3, <2>4 DEF WriteRun, TypeOK
<1>6. CASE FailRun(t)
  <2>1. DOMAIN run' = Tournament /\ \A k \in Tournament : run'[k] \in Run(k)
    BY <1>1, <1>6, RunsStayRuns, IdleIsRun DEF FailRun
  <2>2. lost' \subseteq Tournament
    BY <1>1, <1>6 DEF FailRun
  <2> QED BY <1>6, <2>1, <2>2 DEF FailRun, TypeOK
<1> QED BY <1>2, <1>3, <1>4, <1>5, <1>6 DEF RunStep

(* What the administrator is at. *)
LEMMA DeskWork ==
    ASSUME TypeOK
    PROVE  /\ desk.step = "write" => \E t \in Tournament : desk \in Run(t)
           /\ desk.step = "manual" => desk \in Manual
<1>1. desk \in {Idle} \cup Manual \cup UNION {Run(t) : t \in Tournament}
  BY DEF TypeOK
<1>2. CASE desk = Idle
  BY <1>2 DEF Idle
<1>3. CASE desk \in Manual
  BY <1>3 DEF Manual
<1>4. CASE \E t \in Tournament : desk \in Run(t)
  BY <1>4 DEF Run
<1> QED BY <1>1, <1>2, <1>3, <1>4

LEMMA DeskTypes ==
    ASSUME TypeOK,
           \/ \E t \in Tournament, opts \in DeskOptions : AssignAll(t, opts)
           \/ \E m \in Match, r \in Referee \cup {Nobody}, a \in Referee \cup {Nobody} :
                 SetManual(m, r, a)
           \/ WriteAll \/ WriteManual
    PROVE  TypeOK'
<1>1. match \in Rows /\ pool \subseteq Referee /\ incidents \in 0..MaxIncidents
  BY DEF TypeOK
<1>2. ASSUME NEW t \in Tournament, NEW opts \in DeskOptions, AssignAll(t, opts) PROVE TypeOK'
  <2>1. Read(t, opts) \in Run(t)
    BY <1>1, ReadIsRun, AssignmentAssumption DEF Options
  <2>2. incidents' \in 0..MaxIncidents
    BY <1>1, <1>2, AssignmentAssumption DEF AssignAll, Incident
  <2>3. desk' \in UNION {Run(k) : k \in Tournament}
    BY <1>2, <2>1 DEF AssignAll
  <2> QED BY <1>2, <2>2, <2>3 DEF AssignAll, TypeOK
<1>3. ASSUME NEW m \in Match, NEW r \in Referee \cup {Nobody}, NEW a \in Referee \cup {Nobody},
             SetManual(m, r, a)
      PROVE  TypeOK'
  <2>1. desk' \in Manual
    BY <1>1, <1>3 DEF SetManual, Manual
  <2>2. incidents' \in 0..MaxIncidents
    BY <1>1, <1>3, AssignmentAssumption DEF SetManual, Incident
  <2> QED BY <1>3, <2>1, <2>2 DEF SetManual, TypeOK
<1>4. CASE WriteAll
  <2>1. PICK task : task = desk
    OBVIOUS
  <2>2. PICK t \in Tournament : task \in Run(t)
    BY <1>4, <2>1, DeskWork DEF WriteAll
  <2>3. task.step = "write" /\ Write(task)
    BY <1>4, <2>1 DEF WriteAll
  <2>4. match' \in Rows /\ sure' \in [Match -> SUBSET {"pair", "time"}]
    BY <2>2, <2>3, WriteKeepsTypes
  <2>5. desk' = Idle
    BY <1>4 DEF WriteAll
  <2> QED BY <1>4, <2>4, <2>5 DEF WriteAll, TypeOK
<1>5. CASE WriteManual
  <2>1. desk \in Manual
    BY <1>5, DeskWork DEF WriteManual
  <2>2. desk.m \in Match /\ {desk.referee, desk.assistant} \subseteq Referee \cup {Nobody}
    BY <2>1 DEF Manual
  <2> DEFINE m == desk.m
             row == [match[m] EXCEPT !.referee = desk.referee]
             both == [row EXCEPT !.assistant = desk.assistant]
  <2>3. match[m] \in Row
    BY <1>1, <2>2 DEF Rows
  <2>4. row \in Row
    BY <2>2, <2>3 DEF Row
  <2> HIDE DEF row
  <2>5. both \in Row
    BY <2>2, <2>4 DEF Row
  <2>6. match' = [match EXCEPT ![m] = both]
    <3>1. match' = [[match EXCEPT ![m].referee = desk.referee] EXCEPT ![m].assistant = desk.assistant]
      BY <1>5 DEF WriteManual
    <3>2. [match EXCEPT ![m].referee = desk.referee] = [match EXCEPT ![m] = row]
      BY DEF row
    <3> QED BY <1>1, <2>2, <3>1, <3>2 DEF Rows
  <2> HIDE DEF both
  <2>7. match' \in Rows
    BY <1>1, <2>2, <2>5, <2>6 DEF Rows
  <2>8. sure' \in [Match -> SUBSET {"pair", "time"}]
    <3>1. sure \in [Match -> SUBSET {"pair", "time"}]
      BY DEF TypeOK
    <3>2. Holds(m, desk.seen) \in SUBSET {"pair", "time"}
      BY HoldsIsKnown
    <3> QED BY <1>5, <2>2, <3>1, <3>2 DEF WriteManual
  <2>9. desk' = Idle
    BY <1>5 DEF WriteManual
  <2> QED BY <1>5, <2>7, <2>8, <2>9 DEF WriteManual, TypeOK
<1> QED BY <1>2, <1>3, <1>4, <1>5

(* A match gets or loses its players, begins, ends, is reopened or moved.  *)
Play(m) ==
    \/ \E p \in Pairs[m] : PairKnown(m, p)
    \/ PairGone(m) \/ Begin(m) \/ End(m) \/ Reopen(m)
    \/ \E when \in Times : Reschedule(m, when)

(* Play changes one row, and nobody's appointment. *)
LEMMA PlayChanges ==
    ASSUME TypeOK, NEW m \in Match, Play(m)
    PROVE  /\ match' \in Rows /\ \A n \in Match : n # m => match'[n] = match[n]
           /\ match'[m].referee = match[m].referee /\ match'[m].assistant = match[m].assistant
<1>1. match \in Rows /\ match[m] \in Row /\ DOMAIN match = Match
  BY DEF TypeOK, Rows
<1>2. ASSUME NEW row \in Row, match' = [match EXCEPT ![m] = row],
             row.referee = match[m].referee, row.assistant = match[m].assistant
      PROVE  /\ match' \in Rows /\ \A n \in Match : n # m => match'[n] = match[n]
             /\ match'[m].referee = match[m].referee /\ match'[m].assistant = match[m].assistant
  BY <1>1, <1>2 DEF Rows
<1>3. ASSUME NEW p \in Pairs[m] \cup {{}}, match' = [match EXCEPT ![m].pair = p]
      PROVE  \E row \in Row : /\ match' = [match EXCEPT ![m] = row]
                              /\ row.referee = match[m].referee
                              /\ row.assistant = match[m].assistant
  <2> DEFINE row == [match[m] EXCEPT !.pair = p]
  <2>1. p \in {{}} \cup UNION {Pairs[k] : k \in Match}
    OBVIOUS
  <2>2. /\ row \in Row
        /\ row.referee = match[m].referee /\ row.assistant = match[m].assistant
    BY <1>1, <2>1 DEF Row
  <2>3. match' = [match EXCEPT ![m] = row]
    BY <1>3
  <2> HIDE DEF row
  <2> QED BY <2>2, <2>3
<1>4. ASSUME NEW status \in Phase, match' = [match EXCEPT ![m].status = status]
      PROVE  \E row \in Row : /\ match' = [match EXCEPT ![m] = row]
                              /\ row.referee = match[m].referee
                              /\ row.assistant = match[m].assistant
  <2> DEFINE row == [match[m] EXCEPT !.status = status]
  <2>2. /\ row \in Row
        /\ row.referee = match[m].referee /\ row.assistant = match[m].assistant
    BY <1>1 DEF Row
  <2>3. match' = [match EXCEPT ![m] = row]
    BY <1>4
  <2> HIDE DEF row
  <2> QED BY <2>2, <2>3
<1>5. ASSUME NEW when \in Times, match' = [match EXCEPT ![m].at = when]
      PROVE  \E row \in Row : /\ match' = [match EXCEPT ![m] = row]
                              /\ row.referee = match[m].referee
                              /\ row.assistant = match[m].assistant
  <2> DEFINE row == [match[m] EXCEPT !.at = when]
  <2>2. /\ row \in Row
        /\ row.referee = match[m].referee /\ row.assistant = match[m].assistant
    BY <1>1 DEF Row
  <2>3. match' = [match EXCEPT ![m] = row]
    BY <1>5
  <2> HIDE DEF row
  <2> QED BY <2>2, <2>3
<1>6. \E row \in Row : /\ match' = [match EXCEPT ![m] = row]
                       /\ row.referee = match[m].referee
                       /\ row.assistant = match[m].assistant
  <2>1. \/ \E p \in Pairs[m] \cup {{}} : match' = [match EXCEPT ![m].pair = p]
        \/ \E status \in Phase : match' = [match EXCEPT ![m].status = status]
        \/ \E when \in Times : match' = [match EXCEPT ![m].at = when]
    BY DEF Play, PairKnown, PairGone, Begin, End, Reopen, Reschedule, Phase
  <2> QED BY <1>3, <1>4, <1>5, <2>1
<1> QED BY <1>2, <1>6

LEMMA PlayTypes ==
    ASSUME TypeOK, NEW m \in Match, Play(m)
    PROVE  TypeOK'
<1>1. /\ sure \in [Match -> SUBSET {"pair", "time"}] /\ unseen \subseteq Match
      /\ calls \in [Tournament -> 0..MaxCalls] /\ incidents \in 0..MaxIncidents
  BY DEF TypeOK
<1>2. match' \in Rows
  BY PlayChanges
<1>3. sure' \in [Match -> SUBSET {"pair", "time"}] /\ unseen' \subseteq Match
  BY <1>1 DEF Play, PairKnown, PairGone, Begin, End, Reopen, Reschedule
<1>4. incidents' \in 0..MaxIncidents
  BY <1>1, AssignmentAssumption
     DEF Play, PairKnown, PairGone, Begin, End, Reopen, Reschedule, Incident
<1>5. calls' \in [Tournament -> 0..MaxCalls]
  <2>1. Of[m] \in Tournament
    BY AssignmentAssumption
  <2>2. Called(Of[m]) => calls' \in [Tournament -> 0..MaxCalls]
    BY <1>1, <2>1, AssignmentAssumption DEF Called
  <2> QED BY <1>1, <2>2 DEF Play, PairKnown, PairGone, Begin, End, Reopen, Reschedule
<1>6. UNCHANGED <<pool, run, desk, lost>>
  BY DEF Play, PairKnown, PairGone, Begin, End, Reopen, Reschedule
<1> QED BY <1>2, <1>3, <1>4, <1>5, <1>6 DEF TypeOK

LEMMA PoolTypes ==
    ASSUME TypeOK, NEW r \in Referee, PoolChanges(r)
    PROVE  TypeOK'
<1>1. pool' \subseteq Referee /\ incidents' \in 0..MaxIncidents
  BY AssignmentAssumption DEF PoolChanges, Incident, TypeOK
<1> QED BY <1>1 DEF PoolChanges, TypeOK

(* Rows, runs and requests stay what they are. *)
THEOREM AssignmentTypes == Spec => []TypeOK
<1>1. TypeOK /\ [Next]_vars => TypeOK'
  <2> SUFFICES ASSUME TypeOK, [Next]_vars PROVE TypeOK'
    OBVIOUS
  <2>1. CASE UNCHANGED vars
    BY <2>1 DEF vars, TypeOK
  <2>2. CASE \E t \in Tournament : Call(t) \/ RunStep(t) \/ FailRun(t)
    BY <2>2, RunTypes
  <2>3. CASE \/ \E t \in Tournament, opts \in DeskOptions : AssignAll(t, opts)
             \/ \E m \in Match, r \in Referee \cup {Nobody}, a \in Referee \cup {Nobody} :
                   SetManual(m, r, a)
             \/ WriteAll \/ WriteManual
    BY <2>3, DeskTypes
  <2>4. CASE \E m \in Match : Play(m)
    BY <2>4, PlayTypes
  <2>5. CASE \E r \in Referee : PoolChanges(r)
    BY <2>5, PoolTypes
  <2> QED BY <2>1, <2>2, <2>3, <2>4, <2>5 DEF Next, Play
<1> QED BY <1>1, InitTypes, PTL DEF Spec

----------------------------------------------------------------------------
(* Nobody judges himself, and nobody is in two places.  The invariant also  *)
(* says what a choice that is not written yet relies on.                    *)

FinishedIsUnsure == \A m \in Match : match[m].status = "FINISHED" => sure[m] = {}
SeenIsProper(task) == \A n \in DOMAIN task.seen : Proper(task.seen[n])
MatchesAreProper == \A m \in Match : Proper(match[m])
JobsAreProper ==
    /\ \A t \in Tournament : run[t].step = "write" => run[t].opts = Default /\ SeenIsProper(run[t])
    /\ desk.step \in {"write", "manual"} => SeenIsProper(desk)
TimesHold == \A m, n \in Match : Clash(m, n) => "time" \notin sure[m] \cap sure[n]

(* What setManual has checked; of a match that was over and had a referee, *)
(* which it does not look at, nobody has been sure since.                  *)
Chosen(task) == {task.referee, task.assistant} \ {Nobody}
Checked(task) ==
    /\ task.assistant # Nobody => task.referee \notin {Nobody, task.assistant}
    /\ \A id \in Chosen(task) : ~TakesPart(id, task.seen[task.m])
    /\ \A n \in Match \ {task.m} :
           Overlap(task.seen[task.m], task.seen[n]) /\ task.seen[n].status # "FINISHED"
           => Persons(task.seen[n]) \cap Chosen(task) = {}
OverStays(task) ==
    \A n \in Match : task.seen[n].status = "FINISHED" /\ Persons(task.seen[n]) # {} =>
        Persons(match[n]) # {} /\ "time" \notin sure[n]
ManualHolds == desk.step = "manual" => Checked(desk) /\ OverStays(desk)

RowsHold == FinishedIsUnsure /\ MatchesAreProper /\ NobodyJudgesHimself /\ TimesHold
AInv == TypeOK /\ RowsHold /\ JobsAreProper /\ ManualHolds

LEMMA SameMatchOverlaps ==
    ASSUME NEW a, NEW b, NEW c, NEW d, SameMatch(a, b), SameMatch(c, d)
    PROVE  Overlap(a, c) <=> Overlap(b, d)
BY DEF SameMatch, Overlap

LEMMA TimesSeen ==
    ASSUME NEW m, NEW seen, "time" \in Holds(m, seen)
    PROVE  \A n \in DOMAIN seen : match[n].at = seen[n].at /\ Persons(match[n]) = Persons(seen[n])
BY DEF Holds

LEMMA PairSeen ==
    ASSUME NEW m, NEW seen, "pair" \in Holds(m, seen)
    PROVE  match[m].pair = seen[m].pair
BY DEF Holds

LEMMA WriteKeepsRows ==
    ASSUME TypeOK, RowsHold, NEW t \in Tournament, NEW task \in Run(t),
           task.step = "write", Write(task)
    PROVE  RowsHold'
<1> DEFINE D == MatchesOf(t)
           rows == Assign(task.seen, task.pool, task.opts)
           todo == Todo(task.seen, task.opts)
           found == Found(task, rows)
           seen == task.seen
<1>1. /\ D \in SUBSET Match /\ seen \in RowsOf(D)
      /\ task.pool \in SUBSET Referee /\ task.opts \in Options
  BY JobOfRun
<1>2. match \in Rows /\ sure \in [Match -> SUBSET {"pair", "time"}]
  BY DEF TypeOK
<1>3. match' \in Rows /\ Written(task, rows)
  BY <1>1, <1>2, WriteWrites
<1>4. /\ rows \in RowsOf(D) /\ \A n \in D : SameMatch(rows[n], seen[n])
      /\ \A n \in D \ todo : rows[n] = Cleared(seen, task.opts)[n]
      /\ \A m \in todo : Served(m, rows, task.pool)
  BY <1>1, AssignServes
<1>5. /\ todo \in SUBSET D
      /\ \A n \in D : Keep(seen[n], task.opts) => Cleared(seen, task.opts)[n] = seen[n]
  BY <1>1, ClearedRows
<1>6. found \in SUBSET todo
  BY DEF Found
<1>7. \A n \in D : Keep(seen[n], task.opts) => n \notin todo
  BY DEF Todo
<1>8. DOMAIN rows = D /\ DOMAIN seen = D
  BY <1>1, <1>4 DEF RowsOf
<1> HIDE DEF rows
<1>9. /\ \A m \in found : /\ SameMatch(match'[m], match[m])
                          /\ match'[m].referee = rows[m].referee
                          /\ match'[m].assistant = rows[m].assistant
                          /\ sure'[m] \subseteq Holds(m, seen)
      /\ \A m \in Match \ found : match'[m] = match[m] /\ sure'[m] \subseteq sure[m]
      /\ \A m \in Match : match[m].status = "FINISHED" => sure'[m] = {}
      /\ \A m \in D \ found : ~Keep(seen[m], task.opts) => "time" \notin sure'[m]
  BY <1>3, <1>8 DEF Written, LeftOver
<1> HIDE DEF found, todo, D, seen
<1>10. \A m \in Match : SameMatch(match'[m], match[m])
  BY <1>9 DEF SameMatch
<1>11. \A m \in found : Persons(match'[m]) = Persons(rows[m])
  BY <1>9 DEF Persons
<1>12. FinishedIsUnsure'
  BY <1>9, <1>10 DEF FinishedIsUnsure, SameMatch
<1>13. MatchesAreProper'
  <2>1. ASSUME NEW m \in Match PROVE Proper(match'[m])
    <3>1. CASE m \in found
      BY <1>4, <1>6, <1>9, <3>1 DEF Served, Proper
    <3>2. CASE m \notin found
      BY <1>9, <3>2 DEF RowsHold, MatchesAreProper
    <3> QED BY <3>1, <3>2
  <2> QED BY <2>1 DEF MatchesAreProper
<1>14. NobodyJudgesHimself'
  <2>1. ASSUME NEW m \in Match, "pair" \in sure'[m], NEW r \in Persons(match'[m])
        PROVE  ~TakesPart(r, match'[m])
    <3>1. CASE m \in found
      <4>1. match[m].pair = seen[m].pair
        BY <1>9, <2>1, <3>1, PairSeen
      <4>2. match'[m].pair = rows[m].pair
        BY <1>4, <1>5, <1>6, <1>9, <3>1, <4>1 DEF SameMatch
      <4>3. ~TakesPart(r, rows[m])
        BY <1>4, <1>6, <1>11, <2>1, <3>1 DEF Served
      <4> QED BY <4>2, <4>3 DEF TakesPart
    <3>2. CASE m \notin found
      BY <1>9, <2>1, <3>2 DEF RowsHold, NobodyJudgesHimself
    <3> QED BY <3>1, <3>2
  <2> QED BY <2>1 DEF NobodyJudgesHimself
<1>15. ASSUME NEW m \in found, NEW n \in Match, n # m, Of[m] = Of[n],
              "time" \in sure'[m], "time" \in sure'[n], Overlap(match'[m], match'[n])
       PROVE  Persons(match'[m]) \cap Persons(match'[n]) = {}
  <2>1. m \in D /\ n \in D
    BY <1>5, <1>6, <1>15 DEF D, MatchesOf
  <2>2. \A k \in D : match[k].at = seen[k].at /\ Persons(match[k]) = Persons(seen[k])
    BY <1>8, <1>9, <1>15, TimesSeen
  <2>3. match'[m].at = rows[m].at /\ match'[n].at = rows[n].at
    BY <1>4, <1>10, <1>15, <2>1, <2>2, <1>1 DEF SameMatch
  <2>4. Overlap(rows[m], rows[n])
    BY <1>15, <2>3 DEF Overlap
  <2>5. Persons(rows[m]) \cap Persons(rows[n]) = {}
    BY <1>4, <1>6, <1>8, <1>15, <2>1, <2>4 DEF Served
  <2>6. Persons(match'[n]) = Persons(rows[n])
    <3>1. CASE n \in found
      BY <1>11, <3>1
    <3>2. CASE n \notin found
      <4>1. Keep(seen[n], task.opts)
        BY <1>9, <1>15, <2>1, <3>2
      <4>2. rows[n] = seen[n]
        BY <1>4, <1>5, <1>7, <2>1, <4>1
      <4> QED BY <1>9, <2>1, <2>2, <3>2, <4>2
    <3> QED BY <3>1, <3>2
  <2> QED BY <1>11, <2>5, <2>6
<1>16. TimesHold'
  <2>1. ASSUME NEW m \in Match, NEW n \in Match, Clash(m, n)', "time" \in sure'[m], "time" \in sure'[n]
        PROVE  FALSE
    <3>1. /\ m # n /\ Of[m] = Of[n] /\ "FINISHED" \notin {match'[m].status, match'[n].status}
          /\ Overlap(match'[m], match'[n]) /\ Persons(match'[m]) \cap Persons(match'[n]) # {}
      BY <2>1 DEF Clash
    <3>2. CASE m \in found
      BY <1>15, <2>1, <3>1, <3>2
    <3>3. CASE n \in found
      <4>1. Overlap(match'[n], match'[m])
        BY <3>1, OverlapIsMutual
      <4>2. Persons(match'[n]) \cap Persons(match'[m]) = {}
        BY <1>15, <2>1, <3>1, <3>3, <4>1
      <4> QED BY <3>1, <4>2
    <3>4. CASE m \notin found /\ n \notin found
      <4>1. match'[m] = match[m] /\ match'[n] = match[n] /\ "time" \in sure[m] \cap sure[n]
        BY <1>9, <2>1, <3>4
      <4>2. Clash(m, n)
        BY <3>1, <4>1 DEF Clash
      <4> QED BY <4>1, <4>2 DEF RowsHold, TimesHold
    <3> QED BY <3>2, <3>3, <3>4
  <2> QED BY <2>1 DEF TimesHold
<1> QED BY <1>12, <1>13, <1>14, <1>16 DEF RowsHold

(* A run in the background fills empty places only: of a match that has    *)
(* referees it makes nobody sure.                                          *)
LEMMA RunOnlyFills ==
    ASSUME TypeOK, NEW t \in Tournament, NEW task \in Run(t), task.step = "write",
           task.opts = Default, SeenIsProper(task), Write(task),
           NEW n \in Match, Persons(match[n]) # {}, "time" \notin sure[n]
    PROVE  Persons(match'[n]) # {} /\ "time" \notin sure'[n]
<1> DEFINE rows == Assign(task.seen, task.pool, task.opts)
           found == Found(task, rows)
<1>1. /\ MatchesOf(t) \in SUBSET Match /\ task.seen \in RowsOf(MatchesOf(t))
      /\ task.pool \in SUBSET Referee
  BY JobOfRun
<1>2. match \in Rows /\ sure \in [Match -> SUBSET {"pair", "time"}]
  BY DEF TypeOK
<1>3. Written(task, rows)
  BY <1>1, <1>2, WriteWrites
<1> HIDE DEF rows
<1>4. CASE n \in found
  <2>1. /\ n \in Todo(task.seen, task.opts) /\ rows[n].referee # Nobody
        /\ match'[n].referee = rows[n].referee /\ sure'[n] \subseteq Holds(n, task.seen)
    BY <1>3, <1>4 DEF Written, Found
  <2>2. n \in DOMAIN task.seen /\ ~Keep(task.seen[n], task.opts)
    BY <2>1 DEF Todo
  <2>3. task.seen[n].referee = Nobody /\ task.seen[n].assistant = Nobody
    BY <2>2 DEF Keep, Default, SeenIsProper, Proper
  <2>4. Persons(task.seen[n]) = {}
    BY <2>3 DEF Persons
  <2>5. "time" \notin Holds(n, task.seen)
    BY <2>2, <2>4, TimesSeen
  <2> QED BY <2>1, <2>5 DEF Persons
<1>5. CASE n \notin found
  BY <1>3, <1>5 DEF Written
<1> QED BY <1>4, <1>5

(* The administrator's choice keeps what it was checked for. *)
LEMMA ManualKeepsRows ==
    ASSUME AInv, WriteManual
    PROVE  RowsHold'
<1> DEFINE m == desk.m  seen == desk.seen
<1>1. /\ desk \in Manual /\ m \in Match /\ seen \in Rows /\ Checked(desk) /\ OverStays(desk)
  BY DeskWork DEF AInv, ManualHolds, WriteManual, Manual
<1>2. /\ match \in Rows /\ DOMAIN match = Match /\ match[m] \in Row
      /\ DOMAIN sure = Match /\ DOMAIN seen = Match
  BY <1>1 DEF AInv, TypeOK, Rows
<1>3. /\ \A n \in Match : n # m => match'[n] = match[n] /\ sure'[n] = sure[n]
      /\ SameMatch(match'[m], match[m])
      /\ match'[m].referee = desk.referee /\ match'[m].assistant = desk.assistant
      /\ sure'[m] = IF desk.referee = Nobody \/ match[m].status = "FINISHED"
                    THEN {} ELSE Holds(m, seen)
  <2>1. /\ match' = [match EXCEPT ![m].referee = desk.referee, ![m].assistant = desk.assistant]
        /\ sure' = [sure EXCEPT ![m] = IF desk.referee = Nobody \/ match[m].status = "FINISHED"
                                       THEN {} ELSE Holds(m, seen)]
    BY DEF WriteManual
  <2> HIDE DEF m, seen
  <2>2. match'[m] = [match[m] EXCEPT !.referee = desk.referee, !.assistant = desk.assistant]
    BY <1>1, <1>2, <2>1
  <2>3. \A n \in Match : n # m => match'[n] = match[n] /\ sure'[n] = sure[n]
    BY <1>1, <1>2, <2>1
  <2>4. /\ SameMatch(match'[m], match[m])
        /\ match'[m].referee = desk.referee /\ match'[m].assistant = desk.assistant
    BY <1>2, <2>2 DEF Row, SameMatch
  <2>5. sure'[m] = IF desk.referee = Nobody \/ match[m].status = "FINISHED"
                   THEN {} ELSE Holds(m, seen)
    BY <1>1, <1>2, <2>1
  <2> QED BY <2>3, <2>4, <2>5
<1>4. Persons(match'[m]) = Chosen(desk) /\ sure'[m] \subseteq Holds(m, seen)
  BY <1>3 DEF Persons, Chosen
<1> HIDE DEF m, seen
<1>5. \A n \in Match : SameMatch(match'[n], match[n])
  BY <1>3 DEF SameMatch
<1>6. FinishedIsUnsure'
  BY <1>3, <1>5 DEF AInv, RowsHold, FinishedIsUnsure, SameMatch
<1>7. MatchesAreProper'
  <2>1. ASSUME NEW n \in Match PROVE Proper(match'[n])
    BY <1>1, <1>3 DEF AInv, RowsHold, MatchesAreProper, Checked, Proper
  <2> QED BY <2>1 DEF MatchesAreProper
<1>8. NobodyJudgesHimself'
  <2>1. ASSUME NEW n \in Match, "pair" \in sure'[n], NEW r \in Persons(match'[n])
        PROVE  ~TakesPart(r, match'[n])
    <3>1. CASE n = m
      <4>1. match'[m].pair = seen[m].pair
        BY <1>3, <1>4, <2>1, <3>1, PairSeen DEF SameMatch
      <4>2. ~TakesPart(r, seen[m])
        BY <1>1, <1>4, <2>1, <3>1 DEF Checked, m, seen
      <4> QED BY <3>1, <4>1, <4>2 DEF TakesPart
    <3>2. CASE n # m
      BY <1>3, <2>1, <3>2 DEF AInv, RowsHold, NobodyJudgesHimself
    <3> QED BY <3>1, <3>2
  <2> QED BY <2>1 DEF NobodyJudgesHimself
<1>9. ASSUME NEW n \in Match, n # m, "time" \in sure'[m], "time" \in sure'[n],
             Overlap(match'[m], match'[n])
      PROVE  Persons(match'[m]) \cap Persons(match'[n]) = {}
  <2>1. \A k \in Match : match[k].at = seen[k].at /\ Persons(match[k]) = Persons(seen[k])
    BY <1>2, <1>4, <1>9, TimesSeen
  <2>2. Overlap(seen[m], seen[n])
    BY <1>1, <1>5, <1>9, <2>1 DEF SameMatch, Overlap
  <2>3. match'[n] = match[n] /\ "time" \in sure[n] /\ Persons(match[n]) = Persons(seen[n])
    BY <1>3, <1>9, <2>1
  <2>4. CASE seen[n].status # "FINISHED"
    <3>1. Persons(seen[n]) \cap Chosen(desk) = {}
      BY <1>1, <1>9, <2>2, <2>4 DEF Checked, m, seen
    <3> QED BY <1>4, <2>3, <3>1
  <2>5. CASE seen[n].status = "FINISHED"
    <3>1. Persons(seen[n]) = {}
      BY <1>1, <2>3, <2>5 DEF OverStays, seen
    <3> QED BY <2>3, <3>1
  <2> QED BY <2>4, <2>5
<1>10. TimesHold'
  <2>1. ASSUME NEW k \in Match, NEW n \in Match, Clash(k, n)', "time" \in sure'[k], "time" \in sure'[n]
        PROVE  FALSE
    <3>1. /\ k # n /\ Of[k] = Of[n] /\ "FINISHED" \notin {match'[k].status, match'[n].status}
          /\ Overlap(match'[k], match'[n]) /\ Persons(match'[k]) \cap Persons(match'[n]) # {}
      BY <2>1 DEF Clash
    <3>2. CASE k = m
      BY <1>9, <2>1, <3>1, <3>2
    <3>3. CASE n = m
      <4>1. Overlap(match'[n], match'[k])
        BY <3>1, OverlapIsMutual
      <4>2. Persons(match'[n]) \cap Persons(match'[k]) = {}
        BY <1>9, <2>1, <3>1, <3>3, <4>1
      <4> QED BY <3>1, <4>2
    <3>4. CASE k # m /\ n # m
      <4>1. match'[k] = match[k] /\ match'[n] = match[n] /\ "time" \in sure[k] \cap sure[n]
        BY <1>3, <2>1, <3>4
      <4>2. Clash(k, n)
        BY <3>1, <4>1 DEF Clash
      <4> QED BY <4>1, <4>2 DEF AInv, RowsHold, TimesHold
    <3> QED BY <3>2, <3>3, <3>4
  <2> QED BY <2>1 DEF TimesHold
<1> QED BY <1>6, <1>7, <1>8, <1>10 DEF RowsHold

(* Play keeps the promises: whoever moves a match, or ends it, is unsure.  *)
LEMMA PlayKeepsRows ==
    ASSUME AInv, NEW m \in Match, Play(m)
    PROVE  /\ RowsHold'
           /\ \A n \in Match : Persons(match'[n]) = Persons(match[n]) /\ sure'[n] \subseteq sure[n]
<1>1. /\ match' \in Rows /\ \A n \in Match : n # m => match'[n] = match[n]
      /\ match'[m].referee = match[m].referee /\ match'[m].assistant = match[m].assistant
  BY PlayChanges DEF AInv
<1>2. match[m] \in Row /\ DOMAIN match = Match /\ DOMAIN sure = Match /\ sure[m] \in SUBSET {"pair", "time"}
  BY DEF AInv, TypeOK, Rows
<1>3. \A n \in Match : Persons(match'[n]) = Persons(match[n])
  BY <1>1 DEF Persons
<1>4. /\ \A n \in Match : n # m => sure'[n] = sure[n]
      /\ sure'[m] \subseteq sure[m]
  BY <1>2 DEF Play, PairKnown, PairGone, Begin, End, Reopen, Reschedule
<1>5. \/ match'[m].pair = match[m].pair
      \/ "pair" \notin sure'[m]
      \/ match'[m].pair = {}
  BY <1>2 DEF Play, PairKnown, PairGone, Begin, End, Reopen, Reschedule, Row
<1>6. \/ match'[m].at = match[m].at
      \/ "time" \notin sure'[m]
  BY <1>2 DEF Play, PairKnown, PairGone, Begin, End, Reopen, Reschedule, Row
<1>7. \/ match'[m].status = match[m].status
      \/ sure'[m] = {}
      \/ match'[m].status # "FINISHED" /\ match[m].status # "FINISHED"
  <2>1. match[m].status = "FINISHED" => sure[m] = {}
    BY DEF AInv, RowsHold, FinishedIsUnsure
  <2> QED
    BY <1>2, <2>1 DEF Play, PairKnown, PairGone, Begin, End, Reopen, Reschedule, Row
<1>8. FinishedIsUnsure'
  <2>1. ASSUME NEW n \in Match, match'[n].status = "FINISHED" PROVE sure'[n] = {}
    <3>1. CASE n = m
      BY <1>4, <1>7, <2>1, <3>1 DEF AInv, RowsHold, FinishedIsUnsure
    <3>2. CASE n # m
      BY <1>1, <1>4, <2>1, <3>2 DEF AInv, RowsHold, FinishedIsUnsure
    <3> QED BY <3>1, <3>2
  <2> QED BY <2>1 DEF FinishedIsUnsure
<1>9. MatchesAreProper'
  <2>1. ASSUME NEW n \in Match PROVE Proper(match'[n])
    BY <1>1 DEF AInv, RowsHold, MatchesAreProper, Proper
  <2> QED BY <2>1 DEF MatchesAreProper
<1>10. NobodyJudgesHimself'
  <2>1. ASSUME NEW n \in Match, "pair" \in sure'[n], NEW r \in Persons(match'[n])
        PROVE  ~TakesPart(r, match'[n])
    <3>1. ~TakesPart(r, match[n])
      BY <1>3, <1>4, <2>1 DEF AInv, RowsHold, NobodyJudgesHimself
    <3>2. match'[n].pair = match[n].pair \/ match'[n].pair = {}
      BY <1>1, <1>5, <2>1
    <3> QED BY <3>1, <3>2 DEF TakesPart
  <2> QED BY <2>1 DEF NobodyJudgesHimself
<1>11. TimesHold'
  <2>1. ASSUME NEW k \in Match, NEW n \in Match, Clash(k, n)', "time" \in sure'[k], "time" \in sure'[n]
        PROVE  FALSE
    <3>1. /\ k # n /\ Of[k] = Of[n] /\ "FINISHED" \notin {match'[k].status, match'[n].status}
          /\ Overlap(match'[k], match'[n]) /\ Persons(match'[k]) \cap Persons(match'[n]) # {}
      BY <2>1 DEF Clash
    <3>2. \A j \in {k, n} : match'[j].at = match[j].at /\ match[j].status # "FINISHED"
      BY <1>1, <1>6, <1>7, <2>1, <3>1
    <3>3. Overlap(match[k], match[n])
      BY <3>1, <3>2 DEF Overlap
    <3>4. Clash(k, n)
      BY <1>3, <3>1, <3>2, <3>3 DEF Clash
    <3>5. "time" \in sure[k] \cap sure[n]
      BY <1>4, <2>1
    <3> QED BY <3>4, <3>5 DEF AInv, RowsHold, TimesHold
  <2> QED BY <2>1 DEF TimesHold
<1> QED BY <1>3, <1>4, <1>8, <1>9, <1>10, <1>11 DEF RowsHold

LEMMA SameRowsHold ==
    ASSUME RowsHold, UNCHANGED <<match, sure>>
    PROVE  RowsHold'
BY DEF RowsHold, FinishedIsUnsure, MatchesAreProper, NobodyJudgesHimself, TimesHold, Clash

LEMMA SameManualHolds ==
    ASSUME ManualHolds, UNCHANGED desk,
           \A n \in Match : Persons(match[n]) # {} /\ "time" \notin sure[n]
              => Persons(match'[n]) # {} /\ "time" \notin sure'[n]
    PROVE  ManualHolds'
<1> SUFFICES ASSUME desk.step = "manual" PROVE Checked(desk') /\ OverStays(desk)'
  BY DEF ManualHolds
<1>1. Checked(desk) /\ OverStays(desk)
  BY DEF ManualHolds
<1>2. Checked(desk')
  BY <1>1
<1>3. OverStays(desk)'
  BY <1>1 DEF OverStays
<1> QED BY <1>2, <1>3

LEMMA LoadedIsProper ==
    ASSUME MatchesAreProper, NEW t \in Tournament, NEW opts
    PROVE  SeenIsProper(Read(t, opts))
BY DEF MatchesAreProper, SeenIsProper, Read, Loaded, MatchesOf

LEMMA RunKeeps ==
    ASSUME AInv, NEW t \in Tournament, Call(t) \/ RunStep(t) \/ FailRun(t)
    PROVE  RowsHold' /\ JobsAreProper' /\ ManualHolds'
<1>0. DOMAIN run = Tournament /\ run[t] \in Run(t) /\ UNCHANGED desk
  BY DEF AInv, TypeOK, Call, RunStep, Count, LoadRun, WriteRun, FailRun
<1>1. /\ \A k \in Tournament : run'[k].step = "write" => run'[k].opts = Default /\ SeenIsProper(run'[k])
  <2>1. CASE LoadRun(t)
    <3>1. SeenIsProper(Read(t, Default))
      BY LoadedIsProper DEF AInv, RowsHold
    <3>2. run' = [run EXCEPT ![t] = IF pool = {} THEN Idle ELSE Read(t, Default)]
      BY <2>1 DEF LoadRun
    <3>3. /\ \A k \in Tournament : k # t => run'[k] = run[k]
          /\ run'[t] = Idle \/ run'[t] = Read(t, Default)
      BY <1>0, <3>2
    <3>4. Idle.step = "idle" /\ Read(t, Default).opts = Default
      BY DEF Idle, Read
    <3> QED BY <3>1, <3>3, <3>4 DEF AInv, JobsAreProper
  <2>2. CASE ~LoadRun(t)
    <3>1. /\ \A k \in Tournament : k # t => run'[k] = run[k]
          /\ run'[t] = run[t] \/ run'[t].step # "write"
      BY <1>0, <2>2 DEF Call, RunStep, Count, WriteRun, FailRun, Idle
    <3> QED BY <3>1 DEF AInv, JobsAreProper
  <2> QED BY <2>1, <2>2
<1>2. JobsAreProper'
  <2>1. desk.step \in {"write", "manual"} => SeenIsProper(desk)
    BY DEF AInv, JobsAreProper
  <2> QED BY <1>0, <1>1, <2>1 DEF JobsAreProper, SeenIsProper
<1>3. CASE WriteRun(t)
  <2>1. PICK task : task = run[t]
    OBVIOUS
  <2>2. task \in Run(t) /\ task.step = "write" /\ Write(task)
    BY <1>0, <1>3, <2>1 DEF WriteRun
  <2>3. task.opts = Default /\ SeenIsProper(task)
    BY <2>1, <2>2 DEF AInv, JobsAreProper
  <2>4. TypeOK /\ RowsHold /\ ManualHolds
    BY DEF AInv
  <2>5. RowsHold'
    BY <2>2, <2>4, WriteKeepsRows
  <2>6. \A n \in Match : Persons(match[n]) # {} /\ "time" \notin sure[n]
              => Persons(match'[n]) # {} /\ "time" \notin sure'[n]
    BY <2>2, <2>3, <2>4, RunOnlyFills
  <2> QED BY <1>0, <1>2, <2>4, <2>5, <2>6, SameManualHolds
<1>4. CASE ~WriteRun(t)
  <2>1. UNCHANGED <<match, sure>>
    BY <1>4 DEF Call, RunStep, Count, LoadRun, FailRun
  <2>2. RowsHold'
    BY <2>1, SameRowsHold DEF AInv
  <2>3. ManualHolds'
    BY <1>0, <2>1, SameManualHolds DEF AInv
  <2> QED BY <1>2, <2>2, <2>3
<1> QED BY <1>3, <1>4

LEMMA DeskKeeps ==
    ASSUME AInv,
           \/ \E t \in Tournament, opts \in DeskOptions : AssignAll(t, opts)
           \/ \E m \in Match, r \in Referee \cup {Nobody}, a \in Referee \cup {Nobody} :
                 SetManual(m, r, a)
           \/ WriteAll \/ WriteManual
    PROVE  RowsHold' /\ JobsAreProper' /\ ManualHolds'
<1>0. UNCHANGED run
  BY DEF AssignAll, SetManual, WriteAll, WriteManual
<1>1. ASSUME desk'.step \in {"write", "manual"} => SeenIsProper(desk')
      PROVE  JobsAreProper'
  <2>1. \A t \in Tournament : run[t].step = "write" => run[t].opts = Default /\ SeenIsProper(run[t])
    BY DEF AInv, JobsAreProper
  <2> QED BY <1>0, <1>1, <2>1 DEF JobsAreProper, SeenIsProper
<1>2. ASSUME NEW t \in Tournament, NEW opts \in DeskOptions, AssignAll(t, opts)
      PROVE  RowsHold' /\ JobsAreProper' /\ ManualHolds'
  <2>1. desk' = Read(t, opts) /\ UNCHANGED <<match, sure>>
    BY <1>2 DEF AssignAll
  <2>2. SeenIsProper(Read(t, opts))
    BY LoadedIsProper DEF AInv, RowsHold
  <2>3. SeenIsProper(desk')
    BY <2>1, <2>2
  <2>4. desk'.step = "write"
    BY <2>1 DEF Read
  <2>5. RowsHold'
    BY <2>1, SameRowsHold DEF AInv
  <2> QED BY <1>1, <2>3, <2>4, <2>5 DEF ManualHolds
<1>3. ASSUME NEW m \in Match, NEW r \in Referee \cup {Nobody}, NEW a \in Referee \cup {Nobody},
             SetManual(m, r, a)
      PROVE  RowsHold' /\ JobsAreProper' /\ ManualHolds'
  <2>1. PICK task : task = [step |-> "manual", seen |-> match, m |-> m, referee |-> r, assistant |-> a]
    OBVIOUS
  <2>2. desk' = task /\ UNCHANGED <<match, sure>>
    BY <1>3, <2>1 DEF SetManual
  <2>3. /\ task.step = "manual" /\ task.seen = match /\ task.m = m
        /\ task.referee = r /\ task.assistant = a
    BY <2>1
  <2>4. SeenIsProper(task)
    BY <2>3 DEF SeenIsProper, AInv, RowsHold, MatchesAreProper, TypeOK, Rows
  <2>5. Checked(task)
    <3>1. Chosen(task) = {r, a} \ {Nobody}
      BY <2>3 DEF Chosen
    <3> QED BY <1>3, <2>3, <3>1 DEF Checked, SetManual
  <2>6. OverStays(task)
    BY <2>3 DEF OverStays, AInv, RowsHold, FinishedIsUnsure
  <2>7. OverStays(task)'
    BY <2>2, <2>6 DEF OverStays
  <2>8. ManualHolds'
    BY <2>2, <2>5, <2>7 DEF ManualHolds
  <2>9. RowsHold'
    BY <2>2, SameRowsHold DEF AInv
  <2>10. SeenIsProper(desk')
    BY <2>2, <2>4
  <2> QED BY <1>1, <2>8, <2>9, <2>10
<1>4. ASSUME desk' = Idle PROVE JobsAreProper' /\ ManualHolds'
  <2>1. desk'.step = "idle"
    BY <1>4 DEF Idle
  <2> QED BY <1>1, <2>1 DEF ManualHolds
<1>5. CASE WriteAll
  <2>1. PICK task : task = desk
    OBVIOUS
  <2>2. PICK t \in Tournament : task \in Run(t)
    BY <1>5, <2>1, DeskWork DEF WriteAll, AInv
  <2>3. task.step = "write" /\ Write(task)
    BY <1>5, <2>1 DEF WriteAll
  <2>4. RowsHold'
    BY <2>2, <2>3, WriteKeepsRows DEF AInv
  <2> QED BY <1>4, <1>5, <2>4 DEF WriteAll
<1>6. CASE WriteManual
  <2>1. desk' = Idle
    BY <1>6 DEF WriteManual
  <2> QED BY <1>4, <1>6, <2>1, ManualKeepsRows
<1> QED BY <1>2, <1>3, <1>5, <1>6

LEMMA PlayKeepsPromises ==
    ASSUME AInv, NEW m \in Match, Play(m)
    PROVE  RowsHold' /\ JobsAreProper' /\ ManualHolds'
<1>1. /\ RowsHold'
      /\ \A n \in Match : Persons(match'[n]) = Persons(match[n]) /\ sure'[n] \subseteq sure[n]
  BY PlayKeepsRows
<1>2. UNCHANGED <<run, desk>>
  BY DEF Play, PairKnown, PairGone, Begin, End, Reopen, Reschedule
<1>3. JobsAreProper'
  BY <1>2 DEF AInv, JobsAreProper, SeenIsProper
<1>4. \A n \in Match : Persons(match[n]) # {} /\ "time" \notin sure[n]
              => Persons(match'[n]) # {} /\ "time" \notin sure'[n]
  BY <1>1
<1>5. ManualHolds'
  BY <1>2, <1>4, SameManualHolds DEF AInv
<1> QED BY <1>1, <1>3, <1>5

LEMMA StillKeeps ==
    ASSUME AInv, UNCHANGED <<match, sure, run, desk>>
    PROVE  RowsHold' /\ JobsAreProper' /\ ManualHolds'
<1>1. RowsHold' /\ ManualHolds'
  BY SameRowsHold, SameManualHolds DEF AInv
<1>2. JobsAreProper'
  BY DEF AInv, JobsAreProper, SeenIsProper
<1> QED BY <1>1, <1>2

LEMMA InitPromises == Init => RowsHold /\ JobsAreProper /\ ManualHolds
<1> SUFFICES ASSUME Init PROVE RowsHold /\ JobsAreProper /\ ManualHolds
  OBVIOUS
<1>1. /\ \A m \in Match : match[m].status = "SCHEDULED" /\ match[m].assistant = Nobody /\ sure[m] = {}
      /\ desk.step = "idle" /\ \A t \in Tournament : run[t].step = "idle"
  BY DEF Init, Idle
<1>2. RowsHold
  BY <1>1 DEF RowsHold, FinishedIsUnsure, MatchesAreProper, Proper, NobodyJudgesHimself, TimesHold
<1> QED BY <1>1, <1>2 DEF JobsAreProper, ManualHolds

(* What a choice was made by still holds, or nobody is sure of it; and what *)
(* is chosen and not written yet will do no harm.                           *)
THEOREM PromisesHold == Spec => []AInv
<1>1. Init => AInv
  BY InitTypes, InitPromises DEF AInv
<1>2. AInv /\ TypeOK' /\ [Next]_vars => AInv'
  <2> SUFFICES ASSUME AInv, TypeOK', [Next]_vars PROVE AInv'
    OBVIOUS
  <2>0. SUFFICES RowsHold' /\ JobsAreProper' /\ ManualHolds'
    BY DEF AInv
  <2>1. CASE UNCHANGED vars
    BY <2>1, StillKeeps DEF vars
  <2>2. CASE \E t \in Tournament : Call(t) \/ RunStep(t) \/ FailRun(t)
    BY <2>2, RunKeeps
  <2>3. CASE \/ \E t \in Tournament, opts \in DeskOptions : AssignAll(t, opts)
             \/ \E m \in Match, r \in Referee \cup {Nobody}, a \in Referee \cup {Nobody} :
                   SetManual(m, r, a)
             \/ WriteAll \/ WriteManual
    BY <2>3, DeskKeeps
  <2>4. CASE \E m \in Match : Play(m)
    BY <2>4, PlayKeepsPromises
  <2>5. CASE \E r \in Referee : PoolChanges(r)
    BY <2>5, StillKeeps DEF PoolChanges
  <2> QED BY <2>1, <2>2, <2>3, <2>4, <2>5 DEF Next, Play
<1> QED BY <1>1, <1>2, AssignmentTypes, PTL DEF Spec

(* Nobody is assigned to his own match, however many runs and requests of  *)
(* an administrator choose and write at the same time, unless its players  *)
(* changed after the choice (pick, setManual).                             *)
THEOREM RefereesAreImpartial == Spec => []NobodyJudgesHimself
<1>1. AInv => NobodyJudgesHimself
  BY DEF AInv, RowsHold
<1> QED BY <1>1, PromisesHold, PTL

(* Nobody is in two matches of a tournament at once, unless one of them was *)
(* moved, reopened or left over, or its assignment overtaken; and nobody is *)
(* assistant to himself or to nobody (isBusy, setManual).                   *)
THEOREM RefereesAreInOnePlace == Spec => []NobodyInTwoPlaces
<1>1. AInv => NobodyInTwoPlaces
  BY DEF AInv, RowsHold, MatchesAreProper, Proper, TimesHold, NobodyInTwoPlaces
<1> QED BY <1>1, PromisesHold, PTL

(* After a run that nobody has disturbed a match is without a referee only *)
(* if everybody plays in it or is busy elsewhere (assignReferees).         *)
THEOREM WhoeverIsFreeIsAppointed == Spec => NobodyFreeIsLeftOut
<1> DEFINE LeftOut(t) ==
              \A m \in Waiting(t) : match'[m].referee = Nobody =>
                  \A r \in run[t].pool :
                      TakesPart(r, match[m]) \/ IsBusy(r, m, [n \in MatchesOf(t) |-> match'[n]])
           NobodyFree == \A t \in Tournament : WriteRun(t) /\ Loaded(t) = run[t].seen => LeftOut(t)
<1>1. AInv /\ [Next]_vars => NobodyFree
  <2> SUFFICES ASSUME AInv, NEW t \in Tournament, WriteRun(t), Loaded(t) = run[t].seen,
                      NEW m \in Waiting(t), match'[m].referee = Nobody, NEW r \in run[t].pool,
                      ~TakesPart(r, match[m])
               PROVE  IsBusy(r, m, [n \in MatchesOf(t) |-> match'[n]])
    OBVIOUS
  <2>1. PICK task : task = run[t]
    OBVIOUS
  <2>2. task \in Run(t) /\ task.step = "write" /\ Write(task)
    BY <2>1 DEF AInv, TypeOK, WriteRun
  <2>3. task.opts = Default
    BY <2>1, <2>2 DEF AInv, JobsAreProper
  <2> DEFINE D == MatchesOf(t)
             seen == task.seen
             rows == Assign(seen, task.pool, task.opts)
             after == [n \in D |-> match'[n]]
  <2>4. D \in SUBSET Match /\ seen \in RowsOf(D) /\ task.pool \in SUBSET Referee
    BY <2>2, JobOfRun
  <2>5. /\ rows \in RowsOf(D) /\ \A n \in D : SameMatch(rows[n], seen[n])
        /\ \A n \in D \ Todo(seen, task.opts) : rows[n] = Cleared(seen, task.opts)[n]
        /\ \A n \in Todo(seen, task.opts) : Served(n, rows, task.pool)
    BY <2>4, AssignServes
  <2>6. Written(task, rows)
    BY <2>2, <2>4, WriteWrites DEF AInv, TypeOK
  <2>7. \A n \in D : seen[n] = match[n]
    BY <2>1 DEF Loaded
  <2> HIDE DEF rows, seen
  <2>8. m \in D /\ m \in Todo(seen, task.opts)
    <3>1. m \in D /\ match[m].status = "SCHEDULED" /\ match[m].referee = Nobody /\ match[m].pair # {}
      BY DEF Waiting
    <3>2. m \in DOMAIN seen /\ seen[m] = match[m]
      BY <2>4, <2>7, <3>1 DEF RowsOf
    <3> QED BY <3>1, <3>2 DEF Todo, Keep, Locked
  <2>9. m \notin Found(task, rows)
    BY <2>6 DEF Written, Found
  <2>10. rows[m].referee = Nobody
    BY <2>8, <2>9 DEF Found, seen
  <2>11. IsBusy(r, m, rows)
    <3>1. ~TakesPart(r, rows[m])
      BY <2>5, <2>7, <2>8 DEF SameMatch, TakesPart
    <3> QED BY <2>1, <2>5, <2>8, <2>10, <3>1 DEF Served
  <2>12. PICK n \in D \ {m} : r \in Persons(rows[n]) /\ Overlap(rows[m], rows[n])
    BY <2>5, <2>11 DEF IsBusy, RowsOf
  <2>13. \A k \in D : SameMatch(match'[k], rows[k])
    BY <2>4, <2>5, <2>6, <2>7 DEF Written, SameMatch
  <2>14. Overlap(match'[m], match'[n])
    BY <2>8, <2>12, <2>13, SameMatchOverlaps
  <2>15. r \in Persons(match'[n])
    <3>1. CASE n \in Found(task, rows)
      BY <2>6, <2>12, <3>1 DEF Written, Persons
    <3>2. CASE n \notin Found(task, rows)
      <4>1. match'[n] = match[n] /\ match[n] = seen[n]
        BY <2>4, <2>6, <2>7, <2>12, <3>2 DEF Written
      <4>2. n \notin Todo(seen, task.opts)
        <5>1. SUFFICES ASSUME n \in Todo(seen, task.opts) PROVE FALSE
          OBVIOUS
        <5>2. rows[n].referee = Nobody
          BY <3>2, <5>1 DEF Found, seen
        <5>3. rows[n].assistant = Nobody
          BY <2>5, <5>1, <5>2 DEF Served, Proper
        <5> QED BY <2>12, <5>2, <5>3 DEF Persons
      <4>3. rows[n] = Cleared(seen, task.opts)[n]
        BY <2>5, <2>12, <4>2
      <4>4. Keep(seen[n], task.opts)
        <5>1. ~Keep(seen[n], task.opts) => Persons(Cleared(seen, task.opts)[n]) = {}
          BY <2>4, <2>12, ClearedRows DEF Persons
        <5> QED BY <2>12, <4>3, <5>1
      <4>5. rows[n] = seen[n]
        BY <2>4, <2>12, <4>3, <4>4, ClearedRows
      <4> QED BY <2>12, <4>1, <4>5
    <3> QED BY <3>1, <3>2
  <2>16. DOMAIN after = D /\ after[m] = match'[m] /\ after[n] = match'[n]
    BY <2>8, <2>12
  <2> HIDE DEF after
  <2>17. IsBusy(r, m, after)
    BY <2>12, <2>14, <2>15, <2>16 DEF IsBusy
  <2> QED BY <2>17 DEF after
<1>2. [][NobodyFree]_vars <=> NobodyFreeIsLeftOut
  BY DEF NobodyFreeIsLeftOut
<1> HIDE DEF NobodyFree
<1>3. []AInv /\ [][Next]_vars => [][NobodyFree]_vars
  BY <1>1, PTL
<1> QED BY <1>2, <1>3, PromisesHold, PTL DEF Spec

----------------------------------------------------------------------------
(* The tables of a hall *)

LEMMA MatchesAreFinite ==
    ASSUME NEW matches \in Seq(HallMatch), NEW S \in SUBSET DOMAIN matches
    PROVE  IsFiniteSet(S) /\ Cardinality(S) \in Nat
<1>1. Len(matches) \in Nat /\ DOMAIN matches = 1..Len(matches)
  OBVIOUS
<1>2. IsFiniteSet(1..Len(matches))
  BY <1>1, FS_Interval
<1>3. IsFiniteSet(S)
  BY <1>1, <1>2, FS_Subset
<1> QED BY <1>3, FS_CardinalityType

(* Two pools are the same or have no table in common. *)
LEMMA PoolsAreApart ==
    ASSUME NEW matches, NEW main \in SUBSET Tables, NEW i, NEW j
    PROVE  /\ PoolOf(matches, main, i) \in SUBSET Tables /\ PoolOf(matches, main, i) # {}
           /\ \/ PoolOf(matches, main, i) = PoolOf(matches, main, j)
              \/ PoolOf(matches, main, i) \cap PoolOf(matches, main, j) = {}
<1>1. 1 \in Tables
  BY TableAssumption DEF Tables
<1>2. /\ MainPool(main) \in SUBSET Tables /\ MainPool(main) # {}
      /\ RestPool(main) \in SUBSET Tables /\ RestPool(main) # {}
  BY <1>1 DEF MainPool, RestPool
<1>3. MainPool(main) = RestPool(main) \/ MainPool(main) \cap RestPool(main) = {}
  BY DEF MainPool, RestPool
<1> QED BY <1>2, <1>3 DEF PoolOf

LEMMA NextIsLeft ==
    ASSUME NEW matches \in Seq(HallMatch), NEW left \in SUBSET Pending(matches), left # {}
    PROVE  NextToPlan(matches, left) \in left
<1> DEFINE keys == {i \in left : matches[i].key}
           these == IF keys = {} THEN left ELSE keys
<1>1. these \in SUBSET left /\ these # {}
  OBVIOUS
<1>2. left \in SUBSET Nat
  BY DEF Pending
<1> HIDE DEF these
<1>3. \E i \in these : \A j \in these : i <= j
  BY <1>1, <1>2, LeastNumber
<1>4. (CHOOSE i \in these : \A j \in these : i <= j) \in these
  BY <1>3
<1> QED BY <1>1, <1>4 DEF NextToPlan, these

LEMMA LeastLoadedIs ==
    ASSUME NEW choice \in SUBSET Tables, choice # {}, NEW load \in [Tables -> Nat]
    PROVE  /\ LeastLoaded(choice, load) \in choice
           /\ \A u \in choice : load[LeastLoaded(choice, load)] <= load[u]
<1> DEFINE f == [t \in choice |-> load[t]]
<1>1. f \in [choice -> Nat]
  OBVIOUS
<1>2. PICK x \in choice : \A u \in choice : f[x] <= f[u]
  <2> HIDE DEF f
  <2> QED BY <1>1, LeastBy
<1> DEFINE same == {t \in choice : load[t] = load[x]}
<1>3. same \in SUBSET Nat /\ same # {}
  <2>1. Tables \in SUBSET Nat
    BY TableAssumption DEF Tables
  <2>2. x \in same /\ same \in SUBSET Tables
    OBVIOUS
  <2> HIDE DEF same
  <2> QED BY <2>1, <2>2
<1>4. PICK y \in same : \A u \in same : y <= u
  <2> HIDE DEF same
  <2> QED BY <1>3, LeastNumber
<1>5. \A u \in choice : load[y] < load[u] \/ (load[y] = load[u] /\ y <= u)
  BY <1>1, <1>2, <1>4
<1>6. y \in choice
  OBVIOUS
<1>7. /\ LeastLoaded(choice, load) \in choice
      /\ \A u \in choice : \/ load[LeastLoaded(choice, load)] < load[u]
                         \/ load[LeastLoaded(choice, load)] = load[u]
  BY <1>5, <1>6 DEF LeastLoaded
<1> QED BY <1>7

(* What has been planned, and that its tables share what they can get. *)
Shared(matches, main, plan) ==
    \A i \in DOMAIN plan :
        /\ plan[i] \in PoolOf(matches, main, i)
        /\ \A t \in PoolOf(matches, main, i) :
              TableLoad(matches, plan, plan[i]) <= TableLoad(matches, plan, t) + 1
Planning(x, matches, main) ==
    /\ x.left \in SUBSET Pending(matches)
    /\ x.plan \in [Pending(matches) \ x.left -> Tables]
    /\ Shared(matches, main, x.plan)

LEMMA LoadIsNat ==
    ASSUME NEW matches \in Seq(HallMatch), NEW plan, DOMAIN plan \in SUBSET DOMAIN matches, NEW t
    PROVE  TableLoad(matches, plan, t) \in Nat
<1>1. /\ {i \in DOMAIN matches : matches[i].table = t} \in SUBSET DOMAIN matches
      /\ {i \in DOMAIN plan : plan[i] = t} \in SUBSET DOMAIN matches
  OBVIOUS
<1>2. /\ Cardinality({i \in DOMAIN matches : matches[i].table = t}) \in Nat
      /\ Cardinality({i \in DOMAIN plan : plan[i] = t}) \in Nat
  BY <1>1, MatchesAreFinite
<1> QED BY <1>2 DEF TableLoad

(* One more match at a table is one more there, and nothing elsewhere.     *)
LEMMA OneMoreThere ==
    ASSUME NEW matches \in Seq(HallMatch), NEW plan, DOMAIN plan \in SUBSET DOMAIN matches,
           NEW i \in DOMAIN matches \ DOMAIN plan, NEW table, NEW t
    PROVE  TableLoad(matches, Entered(plan, i, table), t) =
               IF t = table THEN TableLoad(matches, plan, t) + 1 ELSE TableLoad(matches, plan, t)
<1> DEFINE more == Entered(plan, i, table)
           had == Cardinality({j \in DOMAIN matches : matches[j].table = t})
           old == {j \in DOMAIN plan : plan[j] = t}
           new == {j \in DOMAIN more : more[j] = t}
<1>1. had \in Nat /\ IsFiniteSet(old) /\ Cardinality(old) \in Nat
  <2>1. /\ {j \in DOMAIN matches : matches[j].table = t} \in SUBSET DOMAIN matches
        /\ old \in SUBSET DOMAIN matches
    OBVIOUS
  <2> QED BY <2>1, MatchesAreFinite
<1>2. CASE t = table
  <2>1. new = old \cup {i} /\ i \notin old
    BY <1>2 DEF Entered
  <2> HIDE DEF old, new
  <2>2. Cardinality(new) = Cardinality(old) + 1
    BY <1>1, <2>1, FS_AddElement
  <2> HIDE DEF had
  <2> QED BY <1>1, <1>2, <2>2 DEF TableLoad, had, old, new
<1>3. CASE t # table
  <2>1. new = old
    BY <1>3 DEF Entered
  <2> QED BY <1>3, <2>1 DEF TableLoad
<1> QED BY <1>2, <1>3

OnePut(x, z, matches, main) ==
    Planning(z, matches, main) /\ \E i \in x.left : z.left = x.left \ {i}

LEMMA PutKeeps ==
    ASSUME NEW matches \in Seq(HallMatch), NEW main \in SUBSET Tables,
           NEW x, Planning(x, matches, main), x.left # {},
           NEW z, z = PutNext(x, matches, main)
    PROVE  OnePut(x, z, matches, main)
<1> DEFINE i == NextToPlan(matches, x.left)
           choice == PoolOf(matches, main, i)
           load == [t \in Tables |-> TableLoad(matches, x.plan, t)]
           table == LeastLoaded(choice, load)
<1>1. i \in x.left /\ i \in Pending(matches) /\ i \notin DOMAIN x.plan
  BY NextIsLeft DEF Planning
<1>2. z = [left |-> x.left \ {i}, plan |-> Entered(x.plan, i, table)]
  BY DEF PutNext
<1>3. /\ DOMAIN x.plan = Pending(matches) \ x.left /\ x.left \in SUBSET Pending(matches)
      /\ DOMAIN x.plan \in SUBSET DOMAIN matches /\ i \in DOMAIN matches
  BY <1>1 DEF Planning, Pending
<1>4. load \in [Tables -> Nat]
  <2> SUFFICES ASSUME NEW t \in Tables PROVE TableLoad(matches, x.plan, t) \in Nat
    OBVIOUS
  <2> QED BY <1>3, LoadIsNat
<1>5. choice \in SUBSET Tables /\ choice # {}
  BY PoolsAreApart
<1>6. /\ table \in choice /\ table \in Tables
      /\ \A u \in choice : load[table] <= load[u]
  <2> HIDE DEF choice, load
  <2> QED BY <1>4, <1>5, LeastLoadedIs
<1> HIDE DEF i, table
<1>7. z.left = x.left \ {i} /\ z.plan \in [Pending(matches) \ z.left -> Tables]
  BY <1>1, <1>2, <1>3, <1>6 DEF Planning, Entered
<1>8. /\ DOMAIN z.plan = DOMAIN x.plan \cup {i} /\ z.plan[i] = table
      /\ \A j \in DOMAIN x.plan : z.plan[j] = x.plan[j]
  BY <1>1, <1>2 DEF Entered
<1> DEFINE was(t) == TableLoad(matches, x.plan, t)
           is(t) == TableLoad(matches, z.plan, t)
<1>9. \A t : is(t) = IF t = table THEN was(t) + 1 ELSE was(t)
  <2> TAKE t
  <2>1. z.plan = Entered(x.plan, i, table)
    BY <1>2
  <2>2. i \in DOMAIN matches \ DOMAIN x.plan
    BY <1>1, <1>3
  <2> QED BY <1>3, <2>1, <2>2, OneMoreThere
<1>10. \A t : was(t) \in Nat
  BY <1>3, LoadIsNat
<1>11. \A u \in choice : was(table) <= was(u)
  BY <1>5, <1>6
<1> HIDE DEF was, is
<1>12. \A j \in DOMAIN x.plan :
          /\ x.plan[j] \in PoolOf(matches, main, j)
          /\ \A t \in PoolOf(matches, main, j) : was(x.plan[j]) <= was(t) + 1
  BY DEF Planning, Shared, was
<1>13. ASSUME NEW j \in DOMAIN z.plan
       PROVE  /\ z.plan[j] \in PoolOf(matches, main, j)
              /\ \A t \in PoolOf(matches, main, j) : is(z.plan[j]) <= is(t) + 1
  <2>1. CASE j = i
    <3>1. \A t \in choice : is(table) <= is(t) + 1
      BY <1>9, <1>10, <1>11
    <3> QED BY <1>6, <1>8, <2>1, <3>1
  <2>2. CASE j # i
    <3>1. j \in DOMAIN x.plan /\ z.plan[j] = x.plan[j]
      BY <1>8, <2>2
    <3>2. CASE x.plan[j] = table
      <4>1. PoolOf(matches, main, j) = choice
        BY <1>6, <1>12, <3>1, <3>2, PoolsAreApart
      <4>2. \A t \in choice : is(table) <= is(t) + 1
        BY <1>9, <1>10, <1>11
      <4> QED BY <1>6, <3>1, <3>2, <4>1, <4>2
    <3>3. CASE x.plan[j] # table
      <4>1. \A t \in PoolOf(matches, main, j) : was(x.plan[j]) <= was(t) + 1
        BY <1>12, <3>1
      <4>2. is(x.plan[j]) = was(x.plan[j])
        BY <1>9, <3>3
      <4>3. \A t : is(t) = was(t) \/ is(t) = was(t) + 1
        BY <1>9
      <4>4. \A t \in PoolOf(matches, main, j) : is(x.plan[j]) <= is(t) + 1
        BY <1>10, <4>1, <4>2, <4>3
      <4> QED BY <1>12, <3>1, <4>4
    <3> QED BY <3>2, <3>3
  <2> QED BY <2>1, <2>2
<1>14. Shared(matches, main, z.plan)
  BY <1>13 DEF Shared, is
<1>15. Planning(z, matches, main)
  BY <1>3, <1>7, <1>14 DEF Planning
<1> QED BY <1>1, <1>7, <1>15 DEF OnePut

LEMMA PutsRun ==
    ASSUME NEW matches \in Seq(HallMatch), NEW main
    PROVE  LET f == Puts(matches, main) IN
           /\ Cardinality(Pending(matches)) \in Nat /\ IsFiniteSet(Pending(matches))
           /\ f[0] = [left |-> Pending(matches), plan |-> <<>>]
           /\ \A i \in 1..Cardinality(Pending(matches)) :
                 f[i] = PutNext(f[i - 1], matches, main)
<1> DEFINE n == Cardinality(Pending(matches))
           base == [left |-> Pending(matches), plan |-> <<>>]
           step(d) == PutNext(d, matches, main)
           R(f) == [k \in 0..n |-> IF k = 0 THEN base ELSE step(f[k - 1])]
           after == CHOOSE f : f = R(f)
<1>1. n \in Nat /\ IsFiniteSet(Pending(matches))
  BY MatchesAreFinite DEF Pending
<1>2. Puts(matches, main) = after
  BY DEF Puts
<1> HIDE DEF n, base, step
<1> DEFINE Unrolls(k, f) == /\ f = [i \in 0..k |-> f[i]] /\ f[0] = base
                         /\ \A i \in 1..k : f[i] = step(f[i - 1])
           T == {k \in 0..n : \E f : Unrolls(k, f)}
<1>3. 0 \in T
  <2>1. Unrolls(0, [i \in 0..0 |-> base])
    OBVIOUS
  <2> HIDE DEF Unrolls
  <2> QED BY <1>1, <2>1
<1>4. ASSUME NEW k \in 1..n, k - 1 \in T PROVE k \in T
  <2>1. PICK f : Unrolls(k - 1, f)
    BY <1>4
  <2> DEFINE h == [i \in 0..k |-> IF i = k THEN step(f[k - 1]) ELSE f[i]]
  <2>2. h = [i \in 0..k |-> h[i]] /\ h[0] = base
    BY <2>1
  <2>3. ASSUME NEW i \in 1..k PROVE h[i] = step(h[i - 1])
    <3>1. CASE i = k
      <4>1. h[i] = step(f[k - 1]) /\ h[i - 1] = f[k - 1]
        BY <3>1
      <4> HIDE DEF h
      <4> QED BY <3>1, <4>1
    <3>2. CASE i # k
      <4>1. i \in 1..(k - 1) /\ h[i] = f[i] /\ h[i - 1] = f[i - 1]
        BY <3>2
      <4> HIDE DEF h
      <4> QED BY <2>1, <4>1
    <3> QED BY <3>1, <3>2
  <2> HIDE DEF h
  <2>4. Unrolls(k, h)
    BY <2>2, <2>3
  <2> HIDE DEF Unrolls
  <2> QED BY <2>4
<1>5. PICK f : Unrolls(n, f)
  <2>1. T \in SUBSET (0..n)
    OBVIOUS
  <2> HIDE DEF T
  <2>2. 0..n \subseteq T
    BY <1>1, <1>3, <1>4, <2>1, StepByStep
  <2>3. n \in T
    BY <1>1, <2>2
  <2> QED BY <2>3 DEF T
<1>6. f = R(f)
  <2>1. ASSUME NEW i \in 0..n PROVE f[i] = R(f)[i]
    <3>1. CASE i = 0
      BY <1>5, <3>1
    <3>2. CASE i # 0
      <4>1. i \in 1..n
        BY <1>1, <3>2
      <4> QED BY <1>5, <3>2, <4>1
    <3> QED BY <3>1, <3>2
  <2>2. f = [i \in 0..n |-> f[i]]
    BY <1>5
  <2>3. R(f) = [i \in 0..n |-> R(f)[i]]
    OBVIOUS
  <2> HIDE DEF R, Unrolls
  <2> QED BY <2>1, <2>2, <2>3
<1>7. after = R(after)
  <2> HIDE DEF R
  <2> QED BY <1>6
<1>8. /\ after[0] = base
      /\ \A i \in 1..n : after[i] = step(after[i - 1])
  <2>1. \A i \in 0..n : after[i] = R(after)[i]
    BY <1>7
  <2> HIDE DEF after
  <2>2. 0 \in 0..n /\ \A i \in 1..n : i \in 0..n /\ i # 0
    BY <1>1
  <2> QED BY <2>1, <2>2
<1> HIDE DEF after
<1> QED BY <1>1, <1>2, <1>8 DEF n, base, step


(* All that had no table are planned, and the tables share them. *)
LEMMA AllArePlanned ==
    ASSUME NEW matches \in Seq(HallMatch), NEW main \in SUBSET Tables
    PROVE  /\ PlanTables(matches, main) \in [Pending(matches) -> Tables]
           /\ Shared(matches, main, PlanTables(matches, main))
<1> DEFINE n == Cardinality(Pending(matches))
           f == Puts(matches, main)
           Good(k) == /\ Planning(f[k], matches, main)
                      /\ IsFiniteSet(f[k].left) /\ Cardinality(f[k].left) = n - k
           T == {k \in 0..n : Good(k)}
<1>1. /\ n \in Nat /\ IsFiniteSet(Pending(matches))
      /\ f[0] = [left |-> Pending(matches), plan |-> <<>>]
      /\ \A i \in 1..n : f[i] = PutNext(f[i - 1], matches, main)
  BY PutsRun
<1>2. 0 \in T
  <2>1. f[0].left = Pending(matches) /\ f[0].plan = <<>>
    BY <1>1
  <2> HIDE DEF f
  <2>2. Planning(f[0], matches, main)
    BY <2>1 DEF Planning, Shared
  <2>3. Cardinality(f[0].left) = n - 0
    BY <1>1, <2>1
  <2> HIDE DEF n
  <2> QED BY <1>1, <2>1, <2>2, <2>3
<1> HIDE DEF f, n
<1>3. ASSUME NEW k \in 1..n, k - 1 \in T PROVE k \in T
  <2> DEFINE x == f[k - 1]  z == f[k]
  <2>1. /\ Planning(x, matches, main)
        /\ IsFiniteSet(x.left) /\ Cardinality(x.left) = n - (k - 1)
    BY <1>3
  <2>2. z = PutNext(x, matches, main)
    BY <1>1
  <2> HIDE DEF x, z
  <2>3. x.left # {}
    <3>1. Cardinality(x.left) # 0
      BY <1>1, <2>1
    <3> QED BY <3>1, FS_EmptySet
  <2>4. OnePut(x, z, matches, main)
    <3>1. Planning(x, matches, main)
      BY <2>1
    <3> QED BY <2>2, <2>3, <3>1, PutKeeps
  <2>5. PICK i \in x.left : z.left = x.left \ {i}
    BY <2>4 DEF OnePut
  <2>6. IsFiniteSet(z.left) /\ Cardinality(z.left) = Cardinality(x.left) - 1
    BY <2>1, <2>5, OneLess
  <2>7. Cardinality(z.left) = n - k
    BY <1>1, <2>1, <2>6
  <2>8. Good(k)
    BY <2>4, <2>6, <2>7 DEF z, OnePut
  <2> HIDE DEF Good
  <2> QED BY <2>8
<1>4. n \in T
  <2>1. T \in SUBSET (0..n)
    OBVIOUS
  <2> HIDE DEF T
  <2>2. 0..n \subseteq T
    BY <1>1, <1>2, <1>3, <2>1, StepByStep
  <2> QED BY <1>1, <2>2
<1>5. Planning(f[n], matches, main) /\ f[n].left = {}
  <2>1. IsFiniteSet(f[n].left) /\ Cardinality(f[n].left) = 0
    BY <1>1, <1>4
  <2>2. f[n].left = {}
    BY <2>1, FS_EmptySet
  <2> QED BY <1>4, <2>2
<1>6. PlanTables(matches, main) = f[n].plan
  BY DEF PlanTables, f, n
<1> QED BY <1>5, <1>6 DEF Planning

(* Of two regular matches on the two kinds of tables, the better one has   *)
(* no more ahead of it than the other, and so is among the best as well.   *)
LEMMA BetterIsOnMain ==
    ASSUME NEW matches \in Seq(HallMatch), NEW main \in SUBSET Tables,
           NEW i \in Regular(matches), NEW j \in Top(matches, main),
           matches[i].rating > matches[j].rating
    PROVE  i \in Top(matches, main)
<1>1. /\ Regular(matches) \in SUBSET DOMAIN matches /\ j \in Regular(matches)
      /\ matches[j].rating > 0 /\ Cardinality(Ahead(matches, j)) < Quota(matches, main)
  BY DEF Top, Regular, Pending
<1>2. \A k \in DOMAIN matches : matches[k].rating \in Nat
  <2> TAKE k \in DOMAIN matches
  <2>1. matches[k] \in HallMatch
    OBVIOUS
  <2>2. matches[k].rating \in Ratings
    BY <2>1 DEF HallMatch
  <2> QED BY <2>2, TableAssumption
<1>3. Ahead(matches, i) \subseteq Ahead(matches, j)
  <2> SUFFICES ASSUME NEW k \in Ahead(matches, i) PROVE k \in Ahead(matches, j)
    OBVIOUS
  <2>1. k \in Regular(matches) /\ matches[k].rating >= matches[i].rating
    <3>1. k \in Regular(matches) /\ matches[k].rating \in Nat /\ matches[i].rating \in Nat
      BY <1>1, <1>2 DEF Ahead
    <3> QED BY <3>1 DEF Ahead
  <2>2. matches[k].rating > matches[j].rating
    BY <1>1, <1>2, <2>1
  <2> QED BY <2>1, <2>2 DEF Ahead
<1>4. /\ IsFiniteSet(Ahead(matches, j)) /\ Ahead(matches, j) \in SUBSET DOMAIN matches
      /\ Cardinality(Ahead(matches, j)) \in Nat /\ Cardinality(Ahead(matches, i)) \in Nat
  <2>1. Ahead(matches, i) \in SUBSET DOMAIN matches /\ Ahead(matches, j) \in SUBSET DOMAIN matches
    BY <1>1 DEF Ahead
  <2> QED BY <2>1, MatchesAreFinite
<1>5. Cardinality(Ahead(matches, i)) <= Cardinality(Ahead(matches, j))
  BY <1>3, <1>4, FS_Subset
<1>6. Quota(matches, main) \in Int
  <2>1. Cardinality(Regular(matches)) \in Nat
    BY <1>1, MatchesAreFinite
  <2>2. Cardinality(main) \in Nat
    <3>1. TableCount \in Nat
      BY TableAssumption
    <3>2. IsFiniteSet(1..TableCount)
      BY <3>1, FS_Interval
    <3>3. IsFiniteSet(main)
      BY <3>2, FS_Subset DEF Tables
    <3> QED BY <3>3, FS_CardinalityType
  <2> DEFINE both == Cardinality(Regular(matches)) * Cardinality(main)
  <2>3. both \in Nat
    BY <2>1, <2>2
  <2> HIDE DEF both
  <2>4. both \div TableCount \in Int
    BY <2>3, TableAssumption
  <2> QED BY <2>4 DEF Quota, both
<1> QED BY <1>1, <1>2, <1>4, <1>5, <1>6 DEF Top

HallOK == hall \in [main : SUBSET Tables, matches : Seq(HallMatch)]

LEMMA ListsGrow == HallSpec => []HallOK
<1>1. EmptyHall => HallOK
  <2>1. <<>> \in Seq(HallMatch)
    OBVIOUS
  <2> QED BY <2>1 DEF EmptyHall, HallOK
<1>2. HallOK /\ [\E m \in HallMatch : OneMatchMore(m)]_hall => HallOK'
  BY DEF OneMatchMore, HallOK
<1> QED BY <1>1, <1>2, PTL DEF HallSpec

LEMMA RankIsShared == HallOK => TablesAreSharedByRank
<1> SUFFICES ASSUME HallOK PROVE TablesAreSharedByRank
  OBVIOUS
<1> DEFINE matches == hall.matches  main == hall.main  plan == PlanTables(matches, main)
<1>1. matches \in Seq(HallMatch) /\ main \in SUBSET Tables
  BY DEF HallOK
<1> HIDE DEF matches, main
<1>2. plan \in [Pending(matches) -> Tables] /\ Shared(matches, main, plan)
  BY <1>1, AllArePlanned
<1> HIDE DEF plan
<1>3. Pending(matches) \in SUBSET DOMAIN matches /\ DOMAIN plan = Pending(matches)
  BY <1>2 DEF Pending
<1>4. \A t : TableLoad(matches, plan, t) \in Nat
  BY <1>1, <1>3, LoadIsNat
<1>5. TablesShareTheLoad
  <2> DEFINE load == [t \in Tables |-> Cardinality({i \in DOMAIN matches : matches[i].table = t})
                                    + Cardinality({i \in DOMAIN plan : plan[i] = t})]
  <2>1. \A t \in Tables : load[t] = TableLoad(matches, plan, t)
    BY DEF TableLoad
  <2> HIDE DEF load
  <2>2. ASSUME NEW i \in DOMAIN plan, NEW t \in Tables,
               main \in {{}, Tables} \/ (t \in main <=> plan[i] \in main)
        PROVE  load[plan[i]] <= load[t] + 1
    <3>1. plan[i] \in Tables /\ plan[i] \in PoolOf(matches, main, i)
      BY <1>2 DEF Shared
    <3>2. t \in PoolOf(matches, main, i)
      BY <1>1, <2>2, <3>1 DEF PoolOf, MainPool, RestPool
    <3> QED BY <1>2, <2>1, <3>1, <3>2 DEF Shared
  <2> QED BY <2>2 DEF TablesShareTheLoad, load, plan, matches, main
<1>6. BestAreOnMainTables
  <2>1. ASSUME main \notin {{}, Tables}, NEW i \in DOMAIN plan, NEW j \in DOMAIN plan,
               plan[i] \notin main, plan[j] \in main
        PROVE  ~matches[i].key /\ (~matches[j].key => matches[i].rating <= matches[j].rating)
    <3>1. plan[i] \in PoolOf(matches, main, i) /\ plan[j] \in PoolOf(matches, main, j)
      BY <1>2 DEF Shared
    <3>2. MainPool(main) = main /\ RestPool(main) = Tables \ main
      BY <1>1, <2>1 DEF MainPool, RestPool
    <3>3. ~matches[i].key /\ i \notin Top(matches, main)
      BY <2>1, <3>1, <3>2 DEF PoolOf
    <3>4. matches[j].key \/ j \in Top(matches, main)
      BY <2>1, <3>1, <3>2 DEF PoolOf
    <3>5. i \in Regular(matches)
      BY <1>3, <3>3 DEF Regular
    <3>6. ASSUME j \in Top(matches, main) PROVE ~(matches[i].rating > matches[j].rating)
      BY <1>1, <3>3, <3>5, <3>6, BetterIsOnMain
    <3>7. matches[i].rating \in Nat /\ matches[j].rating \in Nat
      <4>1. matches[i] \in HallMatch /\ matches[j] \in HallMatch
        BY <1>1, <1>3
      <4> QED BY <4>1, TableAssumption DEF HallMatch
    <3> QED BY <3>3, <3>4, <3>6, <3>7
  <2> QED BY <2>1 DEF BestAreOnMainTables, plan, matches, main
<1> QED BY <1>3, <1>5, <1>6 DEF TablesAreSharedByRank, plan, matches, main

(* However many tables, main tables and matches there are, whatever their  *)
(* points: each match that had no table gets one, the tables of a pool     *)
(* share them, and the best matches are on the main tables (planTables).   *)
THEOREM TablesShareByRank == HallSpec => []TablesAreSharedByRank
BY ListsGrow, RankIsShared, PTL

----------------------------------------------------------------------------
(* A row of the snake *)

(* A row that can be dealt: the groups, the players and the turns of it.   *)
RowToDeal == /\ job.groups \in Nat \ {0} /\ job.n \in Nat
             /\ Dealt \in Nat /\ Dealt < job.n
             /\ at \in [1..Dealt -> 1..job.groups]
(* Each turn of a row has a group of its own.                              *)
Turns(order) == /\ order \in [1..RowLength -> 1..job.groups]
                /\ \A i, j \in 1..RowLength : order[i] = order[j] => i = j
InTurns(order) == {order[i] : i \in DOMAIN order}

LEMMA LengthIs ==
    ASSUME RowToDeal
    PROVE  /\ RowLength \in 1..job.groups /\ Dealt + RowLength <= job.n
           /\ RowLength = job.groups \/ Dealt + RowLength = job.n
BY DEF RowLength, RowToDeal

LEMMA OrderIs ==
    ASSUME RowToDeal, NEW order \in RowOrders
    PROVE  Turns(order)
<1> DEFINE G == job.groups  L == RowLength
<1>1. G \in Nat /\ L \in 1..G
  BY LengthIs DEF RowToDeal
<1> DEFINE down == (Dealt \div G) % 2 = 1
<1>2. RowOrder = [i \in 1..L |-> IF down THEN G + 1 - i ELSE i]
  BY DEF RowOrder
<1> HIDE DEF G, L, down
<1>3. /\ RowOrder \in [1..L -> 1..G]
      /\ \A i, j \in 1..L : RowOrder[i] = RowOrder[j] => i = j
  BY <1>1, <1>2
<1>4. CASE order = RowOrder
  BY <1>3, <1>4 DEF Turns, L, G
<1>5. ASSUME NEW s \in Shuffles, order = [i \in 1..L |-> RowOrder[s[i]]] PROVE Turns(order)
  <2>1. s \in [1..L -> 1..L] /\ \A i, j \in 1..L : s[i] = s[j] => i = j
    BY DEF Shuffles, L
  <2>2. order \in [1..L -> 1..G] /\ \A i, j \in 1..L : order[i] = order[j] => i = j
    BY <1>3, <1>5, <2>1
  <2> QED BY <2>2 DEF Turns, L, G
<1>6. order = RowOrder \/ \E s \in Shuffles : order = [i \in 1..L |-> RowOrder[s[i]]]
  BY DEF RowOrders, L
<1> QED BY <1>4, <1>5, <1>6

(* As many groups have their turn as there are players in the row.         *)
LEMMA TurnsAreMany ==
    ASSUME RowToDeal, NEW order, Turns(order)
    PROVE  /\ IsFiniteSet(InTurns(order)) /\ Cardinality(InTurns(order)) = RowLength
           /\ InTurns(order) \subseteq 1..job.groups
           /\ RowLength = job.groups => InTurns(order) = 1..job.groups
<1> DEFINE L == RowLength  G == job.groups
<1>1. L \in 1..G /\ G \in Nat /\ DOMAIN order = 1..L
  BY LengthIs DEF RowToDeal, Turns
<1> HIDE DEF L, G
<1>2. IsFiniteSet(1..L) /\ Cardinality(1..L) = L /\ IsFiniteSet(1..G) /\ Cardinality(1..G) = G
  <2>1. 1 \in Int /\ L \in Int /\ G \in Int /\ ~(1 > L) /\ ~(1 > G)
    BY <1>1
  <2>2. IsFiniteSet(1..L) /\ Cardinality(1..L) = (L - 1) + 1
    BY <2>1, FS_Interval
  <2>3. IsFiniteSet(1..G) /\ Cardinality(1..G) = (G - 1) + 1
    BY <2>1, FS_Interval
  <2> QED BY <2>1, <2>2, <2>3
<1>3. order \in Surjection(1..L, InTurns(order)) /\ order \in Injection(1..L, InTurns(order))
  BY <1>1 DEF Surjection, Injection, IsInjective, InTurns, Turns, L
<1>4. IsFiniteSet(InTurns(order)) /\ Cardinality(InTurns(order)) = L
  BY <1>2, <1>3, FS_Surjection
<1>5. InTurns(order) \in SUBSET (1..G)
  BY DEF InTurns, Turns, L, G
<1>6. L = G => InTurns(order) = 1..G
  BY <1>2, <1>4, <1>5, FS_Subset
<1> QED BY <1>4, <1>5, <1>6 DEF L, G

(* A player gets a group that has not had its player of the row.           *)
LEMMA GroupIsLeft ==
    ASSUME RowToDeal, NEW order, Turns(order), NEW d, LeftInRow(d, order) # {}, NEW p, NEW i
    PROVE  GroupFor(d, order, p, i) \in LeftInRow(d, order)
<1> DEFINE left == LeftInRow(d, order)
           turn == InTurn(left, order, i)
           others == {h \in left : ~HasOrg(d, h, job.org[p])}
<1>1. left \in SUBSET (1..job.groups) /\ DOMAIN order = 1..RowLength
      /\ \A g \in left : \E j \in 1..RowLength : g = order[j]
  BY DEF LeftInRow, Turns
<1>2. RowLength \in Nat /\ job.groups \in Nat
  BY LengthIs DEF RowToDeal
<1> HIDE DEF left
<1>3. turn \in left
  <2> DEFINE open == {j \in DOMAIN order : order[j] \in left}
  <2>1. open \in SUBSET Nat /\ open # {}
    BY <1>1, <1>2 DEF left
  <2>2. PICK j \in open : \A k \in open : j <= k
    <3> HIDE DEF open
    <3> QED BY <2>1, LeastNumber
  <2>3. order[j] \in left /\ \A k \in 1..(j - 1) : order[k] \notin left
    BY <1>1, <1>2, <2>2
  <2>4. order[CHOOSE m \in DOMAIN order : /\ order[m] \in left
                                          /\ \A k \in 1..(m - 1) : order[k] \notin left] \in left
    BY <2>3
  <2> QED BY <2>4 DEF InTurn
<1>4. ASSUME others # {} PROVE Nearest(others, turn) \in left
  <2> DEFINE f == [h \in others |-> Gap(h, turn)]
  <2>1. others \in SUBSET Nat /\ turn \in Nat /\ others \in SUBSET left
    <3>1. \A h \in left : h \in Nat
      BY <1>1, <1>2
    <3> HIDE DEF turn
    <3> QED BY <1>3, <3>1
  <2> HIDE DEF turn, others
  <2>2. f \in [others -> Nat]
    BY <2>1 DEF Gap
  <2>3. PICK x \in others : \A h \in others : f[x] <= f[h]
    <3> HIDE DEF f
    <3> QED BY <1>4, <2>2, LeastBy
  <2> DEFINE near == {h \in others : Gap(h, turn) = Gap(x, turn)}
             f2 == [h \in near |-> job.groups - h]
  <2>4. near # {} /\ f2 \in [near -> Nat]
    <3>1. \A h \in near : h \in 1..job.groups
      BY <1>1, <2>1
    <3>2. x \in near
      OBVIOUS
    <3> QED BY <1>2, <3>1, <3>2
  <2>5. PICK y \in near : \A h \in near : f2[y] <= f2[h]
    <3> HIDE DEF f2, near
    <3> QED BY <2>4, LeastBy
  <2>6. ASSUME NEW h \in others
        PROVE  Gap(y, turn) < Gap(h, turn) \/ (Gap(y, turn) = Gap(h, turn) /\ y >= h)
    <3>1. Gap(y, turn) = Gap(x, turn) /\ Gap(x, turn) \in Nat /\ Gap(h, turn) \in Nat
      BY <2>2
    <3>2. Gap(x, turn) <= Gap(h, turn)
      BY <2>3
    <3>3. h \in near => job.groups - y <= job.groups - h
      BY <2>5
    <3>4. y \in Nat /\ h \in Nat
      BY <2>1
    <3> QED BY <1>2, <3>1, <3>2, <3>3, <3>4
  <2>7. y \in others
    OBVIOUS
  <2>8. (CHOOSE h \in others : \A k \in others :
            Gap(h, turn) < Gap(k, turn) \/ (Gap(h, turn) = Gap(k, turn) /\ h >= k)) \in others
    BY <2>6, <2>7
  <2> QED BY <2>1, <2>8 DEF Nearest
<1>5. /\ GroupFor(d, order, p, i) \in {turn, Nearest(others, turn)}
      /\ GroupFor(d, order, p, i) # turn =>
            others # {} /\ GroupFor(d, order, p, i) = Nearest(others, turn)
  BY DEF GroupFor, left
<1> HIDE DEF turn, others
<1> QED BY <1>3, <1>4, <1>5 DEF left

(* After i players of the row: those before it are where they were, and no *)
(* two of the row are in one group.                                        *)
Along(d, order, i) ==
    /\ d \in [1..(Dealt + i) -> 1..job.groups]
    /\ \A p \in 1..Dealt : d[p] = at[p]
    /\ \A p, q \in (Dealt + 1)..(Dealt + i) : d[p] = d[q] => p = q
    /\ IsFiniteSet(LeftInRow(d, order))
    /\ Cardinality(LeftInRow(d, order)) = RowLength - i

LEMMA OneMoreDealt ==
    ASSUME RowToDeal, NEW order, Turns(order), NEW i \in 1..RowLength,
           NEW d, Along(d, order, i - 1),
           NEW e, e = DealtTo(d, order, i)
    PROVE  Along(e, order, i)
<1> DEFINE k == Dealt  L == RowLength  G == job.groups
           g == GroupFor(d, order, Dealt + i, i)
           left == LeftInRow(d, order)
<1>1. k \in Nat /\ L \in Nat /\ i \in 1..L /\ G \in Nat
  BY LengthIs DEF RowToDeal
<1>2. /\ IsFiniteSet(left) /\ Cardinality(left) = L - (i - 1)
      /\ d \in [1..(k + (i - 1)) -> 1..G]
  BY DEF Along
<1>3. left # {}
  <2> HIDE DEF left, L
  <2>1. Cardinality(left) # 0
    BY <1>1, <1>2
  <2> QED BY <2>1, FS_EmptySet
<1>4. g \in left
  BY <1>3, GroupIsLeft
<1>5. /\ left \in SUBSET (1..G)
      /\ \A q \in DOMAIN d \cap InRow : d[q] \notin left
  BY DEF LeftInRow, Turns
<1>6. e = [q \in DOMAIN d \cup {k + i} |-> IF q = k + i THEN g ELSE d[q]]
  BY DEF DealtTo, Also
<1>7. InRow = (k + 1)..(k + L)
  BY DEF InRow
<1> HIDE DEF g, k, L, G
<1>8. DOMAIN d = 1..(k + (i - 1)) /\ 1..(k + (i - 1)) \cup {k + i} = 1..(k + i)
  BY <1>1, <1>2
<1>9. /\ e \in [1..(k + i) -> 1..G] /\ e[k + i] = g
      /\ \A q \in 1..(k + (i - 1)) : e[q] = d[q]
  BY <1>1, <1>2, <1>4, <1>5, <1>6, <1>8
<1>10. \A p \in 1..k : e[p] = at[p]
  BY <1>1, <1>9 DEF Along, k
<1>11. \A p, q \in (k + 1)..(k + i) : e[p] = e[q] => p = q
  <2>1. \A p, q \in (k + 1)..(k + (i - 1)) : d[p] = d[q] => p = q
    BY DEF Along, k
  <2>2. \A p \in (k + 1)..(k + (i - 1)) : e[p] = d[p] /\ d[p] # g
    <3> TAKE p \in (k + 1)..(k + (i - 1))
    <3>1. p \in 1..(k + (i - 1)) /\ p \in (k + 1)..(k + L)
      BY <1>1
    <3> QED BY <1>4, <1>5, <1>7, <1>8, <1>9, <3>1
  <2>3. \A p \in (k + 1)..(k + i) : p = k + i \/ p \in (k + 1)..(k + (i - 1))
    BY <1>1
  <2> QED BY <1>9, <2>1, <2>2, <2>3
<1>12. LeftInRow(e, order) = left \ {g}
  <2>1. {e[q] : q \in DOMAIN e \cap InRow} = {d[q] : q \in DOMAIN d \cap InRow} \cup {g}
    <3>1. DOMAIN e \cap InRow = (DOMAIN d \cap InRow) \cup {k + i}
      BY <1>1, <1>7, <1>8, <1>9
    <3>2. \A q \in DOMAIN d \cap InRow : e[q] = d[q]
      BY <1>8, <1>9
    <3> QED BY <1>9, <3>1, <3>2
  <2> QED BY <2>1 DEF LeftInRow
<1> HIDE DEF left
<1>13. IsFiniteSet(left \ {g}) /\ Cardinality(left \ {g}) = L - i
  <2>1. IsFiniteSet(left \ {g}) /\ Cardinality(left \ {g}) = Cardinality(left) - 1
    BY <1>2, <1>4, OneLess
  <2> QED BY <1>1, <1>2, <2>1
<1> QED BY <1>9, <1>10, <1>11, <1>12, <1>13 DEF Along, k, L, G

LEMMA AlongRuns ==
    ASSUME RowLength \in Nat, NEW order
    PROVE  LET f == AlongRow(order) IN
           f[0] = at /\ \A i \in 1..RowLength : f[i] = DealtTo(f[i - 1], order, i)
<1> DEFINE n == RowLength
           step(d, i) == DealtTo(d, order, i)
           R(f) == [i \in 0..n |-> IF i = 0 THEN at ELSE step(f[i - 1], i)]
           after == CHOOSE f : f = R(f)
<1>1. n \in Nat
  OBVIOUS
<1>2. AlongRow(order) = after
  BY DEF AlongRow
<1> HIDE DEF n, step
<1> DEFINE Unrolls(k, f) == /\ f = [i \in 0..k |-> f[i]] /\ f[0] = at
                         /\ \A i \in 1..k : f[i] = step(f[i - 1], i)
           T == {k \in 0..n : \E f : Unrolls(k, f)}
<1>3. 0 \in T
  <2>1. Unrolls(0, [i \in 0..0 |-> at])
    OBVIOUS
  <2> HIDE DEF Unrolls
  <2> QED BY <1>1, <2>1
<1>4. ASSUME NEW k \in 1..n, k - 1 \in T PROVE k \in T
  <2>1. PICK f : Unrolls(k - 1, f)
    BY <1>4
  <2> DEFINE h == [i \in 0..k |-> IF i = k THEN step(f[k - 1], k) ELSE f[i]]
  <2>2. h = [i \in 0..k |-> h[i]] /\ h[0] = at
    BY <2>1
  <2>3. ASSUME NEW i \in 1..k PROVE h[i] = step(h[i - 1], i)
    <3>1. CASE i = k
      <4>1. h[i] = step(f[k - 1], k) /\ h[i - 1] = f[k - 1]
        BY <3>1
      <4> HIDE DEF h
      <4> QED BY <3>1, <4>1
    <3>2. CASE i # k
      <4>1. i \in 1..(k - 1) /\ h[i] = f[i] /\ h[i - 1] = f[i - 1]
        BY <3>2
      <4> HIDE DEF h
      <4> QED BY <2>1, <4>1
    <3> QED BY <3>1, <3>2
  <2> HIDE DEF h
  <2>4. Unrolls(k, h)
    BY <2>2, <2>3
  <2> HIDE DEF Unrolls
  <2> QED BY <2>4
<1>5. PICK f : Unrolls(n, f)
  <2>1. T \in SUBSET (0..n)
    OBVIOUS
  <2> HIDE DEF T
  <2>2. 0..n \subseteq T
    BY <1>1, <1>3, <1>4, <2>1, StepByStep
  <2>3. n \in T
    BY <1>1, <2>2
  <2> QED BY <2>3 DEF T
<1>6. f = R(f)
  <2>1. ASSUME NEW i \in 0..n PROVE f[i] = R(f)[i]
    <3>1. CASE i = 0
      BY <1>5, <3>1
    <3>2. CASE i # 0
      <4>1. i \in 1..n
        BY <1>1, <3>2
      <4> QED BY <1>5, <3>2, <4>1
    <3> QED BY <3>1, <3>2
  <2>2. f = [i \in 0..n |-> f[i]]
    BY <1>5
  <2>3. R(f) = [i \in 0..n |-> R(f)[i]]
    OBVIOUS
  <2> HIDE DEF R, Unrolls
  <2> QED BY <2>1, <2>2, <2>3
<1>7. after = R(after)
  <2> HIDE DEF R
  <2> QED BY <1>6
<1>8. /\ after[0] = at
      /\ \A i \in 1..n : after[i] = step(after[i - 1], i)
  <2>1. \A i \in 0..n : after[i] = R(after)[i]
    BY <1>7
  <2> HIDE DEF after
  <2>2. 0 \in 0..n /\ \A i \in 1..n : i \in 0..n /\ i # 0
    BY <1>1
  <2> QED BY <2>1, <2>2
<1> HIDE DEF after
<1> QED BY <1>1, <1>2, <1>8 DEF n, step

(* The row is dealt: its players have groups of their own, and each group  *)
(* one of them if the row is full.                                         *)
RowIs(e) ==
    /\ e \in [1..(Dealt + RowLength) -> 1..job.groups]
    /\ \A p \in 1..Dealt : e[p] = at[p]
    /\ \A p, q \in (Dealt + 1)..(Dealt + RowLength) : e[p] = e[q] => p = q
    /\ RowLength = job.groups =>
          \A g \in 1..job.groups : \E p \in (Dealt + 1)..(Dealt + RowLength) : e[p] = g

LEMMA RowIsDealt ==
    ASSUME RowToDeal, NEW order \in RowOrders
    PROVE  RowIs(AlongRow(order)[RowLength])
<1> DEFINE L == RowLength
           f == AlongRow(order)
           T == {i \in 0..L : Along(f[i], order, i)}
<1>1. Turns(order) /\ L \in Nat /\ Dealt \in Nat
  BY OrderIs, LengthIs DEF RowToDeal
<1>2. f[0] = at /\ \A i \in 1..L : f[i] = DealtTo(f[i - 1], order, i)
  BY <1>1, AlongRuns
<1> HIDE DEF f
<1>3. 0 \in T
  <2>1. at \in [1..Dealt -> 1..job.groups] /\ Dealt + 0 = Dealt
    BY <1>1 DEF RowToDeal
  <2>2. DOMAIN at \cap InRow = {}
    <3>1. \A q \in 1..Dealt : ~(q \in (Dealt + 1)..(Dealt + RowLength))
      BY <1>1
    <3> QED BY <2>1, <3>1 DEF InRow
  <2>3. LeftInRow(at, order) = InTurns(order)
    BY <2>2 DEF LeftInRow, InTurns
  <2>4. (Dealt + 1)..(Dealt + 0) = {} /\ RowLength - 0 = RowLength
    BY <1>1
  <2>5. Along(at, order, 0)
    BY <1>1, <2>1, <2>3, <2>4, TurnsAreMany DEF Along
  <2> QED BY <1>1, <1>2, <2>5
<1>4. ASSUME NEW i \in 1..L, i - 1 \in T PROVE i \in T
  <2>1. Along(f[i - 1], order, i - 1) /\ f[i] = DealtTo(f[i - 1], order, i)
    BY <1>2, <1>4
  <2>2. Along(f[i], order, i)
    BY <1>1, <2>1, OneMoreDealt
  <2> QED BY <1>1, <2>2
<1>5. L \in T
  <2>1. T \in SUBSET (0..L)
    OBVIOUS
  <2> HIDE DEF T, L
  <2>2. 0..L \subseteq T
    BY <1>1, <1>3, <1>4, <2>1, StepByStep
  <2> QED BY <1>1, <2>2
<1> DEFINE e == f[L]
<1>6. Along(e, order, L)
  BY <1>5
<1> HIDE DEF e
<1>7. LeftInRow(e, order) = {}
  <2>1. IsFiniteSet(LeftInRow(e, order)) /\ Cardinality(LeftInRow(e, order)) = 0
    BY <1>1, <1>6 DEF Along
  <2> QED BY <2>1, FS_EmptySet
<1>8. ASSUME L = job.groups, NEW g \in 1..job.groups
      PROVE  \E p \in (Dealt + 1)..(Dealt + L) : e[p] = g
  <2>1. g \in InTurns(order)
    BY <1>1, <1>8, TurnsAreMany
  <2>2. g \in {e[q] : q \in DOMAIN e \cap InRow}
    BY <1>7, <2>1 DEF LeftInRow, InTurns
  <2> QED BY <2>2 DEF InRow
<1> QED BY <1>6, <1>8 DEF RowIs, Along, e, f, L

----------------------------------------------------------------------------
(* The groups, row by row *)

(* After so many full rows, and the players of one that is not.            *)
AfterRows(rows, rest) ==
    LET G == job.groups IN
    /\ Dealt = rows * G + rest
    /\ \A g \in 1..G, row \in 0..(rows - 1) : \E p \in 1..G : at[row * G + p] = g
    /\ \A g \in 1..G : GroupSize(g) = rows \/ (rest # 0 /\ GroupSize(g) = rows + 1)
SnakeInv ==
    job.kind = "snake" =>
        /\ job.groups \in Nat \ {0} /\ job.n \in Nat
        /\ Dealt \in 0..job.n /\ at \in [1..Dealt -> 1..job.groups]
        /\ \E rows \in Nat, rest \in 0..(job.groups - 1) :
              AfterRows(rows, rest) /\ (rest # 0 => Dealt = job.n)
JobInv == job \in SnakeJob \cup RoundsJob

LEMMA Quotient ==
    ASSUME NEW G \in Nat \ {0}, NEW rows \in Nat, NEW rest \in 0..(G - 1)
    PROVE  (rows * G + rest) \div G = rows
OBVIOUS

LEMMA EvenSoFar == SnakeInv => GroupsAreEven
<1> SUFFICES ASSUME SnakeInv, job.kind = "snake" PROVE GroupsAreEven
  BY DEF GroupsAreEven
<1> DEFINE G == job.groups
<1>1. PICK rows \in Nat, rest \in 0..(G - 1) : AfterRows(rows, rest)
  BY DEF SnakeInv
<1>2. G \in Nat \ {0}
  BY DEF SnakeInv
<1> HIDE DEF G
<1>3. Dealt \div G = rows
  BY <1>1, <1>2, Quotient DEF AfterRows, G
<1>4. \A g \in 1..G : GroupSize(g) \in {rows, rows + 1}
  BY <1>1 DEF AfterRows, G
<1>5. \A g, h \in 1..G : GroupSize(g) <= GroupSize(h) + 1
  BY <1>4
<1> QED BY <1>1, <1>3, <1>5 DEF GroupsAreEven, AfterRows, G

LEMMA InitSnake ==
    ASSUME job \in SnakeJob \cup RoundsJob, at = <<>>
    PROVE  JobInv /\ SnakeInv
<1>1. JobInv
  BY DEF JobInv
<1>2. ASSUME job.kind = "snake" PROVE job.groups \in Nat \ {0} /\ job.n \in Nat
  BY <1>2 DEF SnakeJob, RoundsJob
<1>3. Dealt = 0 /\ at \in [1..0 -> 1..job.groups] /\ \A g \in 1..job.groups : GroupSize(g) = 0
  <2>1. DOMAIN at = {} /\ 1..0 = {} /\ at = [x \in {} |-> 0]
    OBVIOUS
  <2>2. at \in [1..0 -> 1..job.groups]
    BY <2>1
  <2>3. \A g : {p \in DOMAIN at : at[p] = g} = {}
    BY <2>1
  <2> QED BY <2>1, <2>2, <2>3, FS_EmptySet DEF Dealt, GroupSize
<1>4. ASSUME job.kind = "snake" PROVE AfterRows(0, 0) /\ 0 \in 0..(job.groups - 1)
  <2>1. 0 * job.groups = 0 /\ 0 .. (0 - 1) = {}
    BY <1>2, <1>4
  <2> QED BY <1>2, <1>3, <1>4, <2>1 DEF AfterRows
<1>5. SnakeInv
  BY <1>2, <1>3, <1>4 DEF SnakeInv
<1> QED BY <1>1, <1>5

(* A group has one player of a row at most, and one of a full one.         *)
Longer(k, L, d, e) ==
    /\ DOMAIN d = 1..k /\ DOMAIN e = 1..(k + L) /\ k \in Nat /\ L \in Nat
    /\ \A p \in 1..k : e[p] = d[p]
    /\ \A p, q \in (k + 1)..(k + L) : e[p] = e[q] => p = q
In(d, g) == {p \in DOMAIN d : d[p] = g}
LEMMA OneMoreOrNot ==
    ASSUME NEW k, NEW L, NEW d, NEW e, NEW g, Longer(k, L, d, e)
    PROVE  /\ Cardinality(In(e, g)) \in {Cardinality(In(d, g)), Cardinality(In(d, g)) + 1}
           /\ (\E p \in (k + 1)..(k + L) : e[p] = g) =>
                 Cardinality(In(e, g)) = Cardinality(In(d, g)) + 1
<1> USE DEF Longer, In
<1> DEFINE old == {p \in DOMAIN d : d[p] = g}
           new == {p \in DOMAIN e : e[p] = g}
<1>1. IsFiniteSet(old)
  <2>1. IsFiniteSet(1..k) /\ old \in SUBSET (1..k)
    BY FS_Interval
  <2> HIDE DEF old
  <2> QED BY <2>1, FS_Subset
<1>2. CASE \E p \in (k + 1)..(k + L) : e[p] = g
  <2>1. PICK p \in (k + 1)..(k + L) : e[p] = g
    BY <1>2
  <2>2. \A q \in 1..(k + L) : q \in 1..k \/ q \in (k + 1)..(k + L)
    OBVIOUS
  <2>3. \A q \in 1..k : q \in 1..(k + L) /\ q # p
    OBVIOUS
  <2>4. p \in 1..(k + L)
    OBVIOUS
  <2>5. new = old \cup {p} /\ p \notin old
    BY <2>1, <2>2, <2>3, <2>4
  <2> HIDE DEF old, new
  <2>6. Cardinality(new) = Cardinality(old) + 1
    BY <1>1, <2>5, FS_AddElement
  <2> QED BY <2>6 DEF old, new
<1>3. CASE ~ \E p \in (k + 1)..(k + L) : e[p] = g
  <2>1. \A q \in 1..(k + L) : q \in 1..k \/ q \in (k + 1)..(k + L)
    OBVIOUS
  <2>2. \A q \in 1..k : q \in 1..(k + L)
    OBVIOUS
  <2>3. new = old
    BY <1>3, <2>1, <2>2
  <2> QED BY <1>3, <2>3
<1> QED BY <1>2, <1>3

(* What a further row leaves: a full row makes every group one larger, and *)
(* what is less than a row is the last.                                    *)
LEMMA RowsBefore ==
    ASSUME NEW G \in Nat \ {0}, NEW rows \in Nat, NEW row \in 0..(rows - 1), NEW p \in 1..G
    PROVE  row * G + p \in 1..(rows * G)
<1>1. row * G + G <= rows * G
  <2>1. PICK j \in Nat : rows = row + 1 + j
    <3>1. rows - row - 1 \in Nat /\ rows = row + 1 + (rows - row - 1)
      OBVIOUS
    <3> QED BY <3>1
  <2>2. (row + 1 + j) * G = row * G + G + j * G /\ j * G \in Nat /\ row * G \in Nat
    OBVIOUS
  <2> QED BY <2>1, <2>2
<1>2. row * G \in Nat /\ rows * G \in Nat
  OBVIOUS
<1> QED BY <1>1, <1>2

LEMMA DealKeeps ==
    ASSUME JobInv, SnakeInv, [DealRow]_pvars
    PROVE  JobInv' /\ SnakeInv'
<1>1. CASE UNCHANGED pvars
  <2>1. job' = job /\ at' = at
    BY <1>1 DEF pvars
  <2>2. JobInv'
    BY <2>1 DEF JobInv, SnakeJob, RoundsJob, Org
  <2>3. Dealt' = Dealt /\ \A g : GroupSize(g)' = GroupSize(g)
    BY <2>1 DEF Dealt, GroupSize
  <2>4. ASSUME job.kind = "snake" PROVE SnakeInv'
    <3>1. PICK rows \in Nat, rest \in 0..(job.groups - 1) :
             AfterRows(rows, rest) /\ (rest # 0 => Dealt = job.n)
      BY <2>4 DEF SnakeInv
    <3>2. AfterRows(rows, rest)'
      BY <2>1, <2>3, <3>1 DEF AfterRows
    <3> QED BY <2>1, <2>3, <2>4, <3>1, <3>2 DEF SnakeInv
  <2> QED BY <2>1, <2>2, <2>4 DEF SnakeInv
<1>2. CASE DealRow
  <2> DEFINE G == job.groups  L == RowLength  k == Dealt
  <2>1. /\ job.kind = "snake" /\ Dealt < job.n /\ job' = job
        /\ \E order \in RowOrders : at' = AlongRow(order)[RowLength]
    BY <1>2 DEF DealRow
  <2>2. JobInv'
    BY <2>1 DEF JobInv, SnakeJob, RoundsJob, Org
  <2>3. PICK rows \in Nat, rest \in 0..(G - 1) : AfterRows(rows, rest) /\ (rest # 0 => k = job.n)
    BY <2>1 DEF SnakeInv
  <2>4. /\ G \in Nat \ {0} /\ job.n \in Nat /\ k \in 0..job.n /\ at \in [1..k -> 1..G]
        /\ rest = 0
    BY <2>1, <2>3 DEF SnakeInv
  <2>5. RowToDeal
    BY <2>1, <2>4 DEF RowToDeal
  <2>6. /\ L \in 1..G /\ k + L <= job.n
        /\ L = G \/ k + L = job.n
    BY <2>5, LengthIs
  <2>7. RowIs(at')
    BY <2>1, <2>5, RowIsDealt
  <2> DEFINE e == at'
  <2>8. /\ e \in [1..(k + L) -> 1..G]
        /\ \A p \in 1..k : e[p] = at[p]
        /\ \A p, q \in (k + 1)..(k + L) : e[p] = e[q] => p = q
        /\ L = G => \A g \in 1..G : \E p \in (k + 1)..(k + L) : e[p] = g
    BY <2>7 DEF RowIs
  <2>9. /\ k = rows * G
        /\ \A g \in 1..G, row \in 0..(rows - 1) : \E p \in 1..G : at[row * G + p] = g
        /\ \A g \in 1..G : GroupSize(g) = rows
    BY <2>3, <2>4 DEF AfterRows
  <2>10. k' = k + L /\ G' = G
    <3>1. DOMAIN at' = 1..(k + L)
      BY <2>8
    <3>2. k' = Cardinality(DOMAIN at')
      BY DEF Dealt
    <3> HIDE DEF k, L
    <3>3. 1 \in Int /\ k + L \in Int /\ ~(1 > k + L) /\ k \in Int /\ L \in Int
      BY <2>4, <2>6
    <3>4. Cardinality(1..(k + L)) = (k + L - 1) + 1
      BY <3>3, FS_Interval
    <3> QED BY <2>1, <3>1, <3>2, <3>3, <3>4
  <2>11. ASSUME NEW g \in 1..G
         PROVE  /\ GroupSize(g)' \in {rows, rows + 1}
                /\ L = G => GroupSize(g)' = rows + 1
    <3>1. DOMAIN at = 1..k /\ DOMAIN e = 1..(k + L) /\ k \in Nat /\ L \in Nat
      BY <2>4, <2>6, <2>8
    <3>2. rows = Cardinality({p \in DOMAIN at : at[p] = g})
      BY <2>9 DEF GroupSize
    <3>3. GroupSize(g)' = Cardinality({p \in DOMAIN e : e[p] = g})
      BY DEF GroupSize
    <3>4. L = G => \E p \in (k + 1)..(k + L) : e[p] = g
      BY <2>8
    <3>5. Longer(k, L, at, e)
      BY <2>8, <3>1 DEF Longer
    <3>6. rows = Cardinality(In(at, g)) /\ GroupSize(g)' = Cardinality(In(e, g))
      BY <3>2, <3>3 DEF In
    <3> HIDE DEF k, L, G, e
    <3> QED BY <3>4, <3>5, <3>6, OneMoreOrNot
  <2> HIDE DEF k, L, G
  <2>12. \A g \in 1..G, row \in 0..(rows - 1) : \E p \in 1..G : e[row * G + p] = g
    <3> TAKE g \in 1..G, row \in 0..(rows - 1)
    <3>1. PICK p \in 1..G : at[row * G + p] = g
      BY <2>9
    <3>2. row * G + p \in 1..k
      BY <2>4, <2>9, RowsBefore
    <3> QED BY <2>8, <3>1, <3>2
  <2>13. CASE L = G
    <3>1. k' = (rows + 1) * G + 0
      <4>1. (rows + 1) * G = rows * G + G
        BY <2>4
      <4> QED BY <2>4, <2>9, <2>10, <2>13, <4>1
    <3>2. ASSUME NEW g \in 1..G, NEW row \in 0..((rows + 1) - 1)
          PROVE  \E p \in 1..G : e[row * G + p] = g
      <4>1. CASE row \in 0..(rows - 1)
        BY <2>12, <4>1
      <4>2. CASE row = rows
        <5>1. PICK q \in (k + 1)..(k + L) : e[q] = g
          BY <2>8, <2>13
        <5>2. q - k \in 1..G /\ k + (q - k) = q
          BY <2>4, <2>13
        <5> QED BY <2>9, <4>2, <5>1, <5>2
      <4>3. row \in 0..(rows - 1) \/ row = rows
        OBVIOUS
      <4> QED BY <4>1, <4>2, <4>3
    <3>3. AfterRows(rows + 1, 0)'
      <4>1. \A g \in 1..G : GroupSize(g)' = rows + 1
        BY <2>11, <2>13
      <4> QED BY <2>1, <2>10, <3>1, <3>2, <4>1 DEF AfterRows, G, k
    <3>4. SnakeInv'
      <4>1. rows + 1 \in Nat /\ 0 \in 0..(job.groups - 1)
        BY <2>4 DEF G
      <4>2. Dealt' \in 0..job.n /\ at' \in [1..Dealt' -> 1..job.groups]
        BY <2>4, <2>6, <2>8, <2>10 DEF G, k
      <4>3. job.groups \in Nat \ {0} /\ job.n \in Nat
        BY <2>4 DEF G
      <4> QED BY <2>1, <3>3, <4>1, <4>2, <4>3 DEF SnakeInv
    <3> QED BY <2>2, <3>4
  <2>14. CASE L # G
    <3>1. PICK rest2 \in 1..(G - 1) : rest2 = L
      BY <2>4, <2>6, <2>14
    <3>2. k' = job.n /\ k' = rows * G + rest2
      BY <2>6, <2>9, <2>10, <2>14, <3>1
    <3>3. AfterRows(rows, rest2)'
      BY <2>1, <2>10, <2>11, <2>12, <3>1, <3>2 DEF AfterRows, G, k
    <3>4. SnakeInv'
      <4>1. rows \in Nat /\ rest2 \in 0..(job.groups - 1)
        BY <2>4, <3>1 DEF G
      <4>2. Dealt' \in 0..job.n /\ at' \in [1..Dealt' -> 1..job.groups]
        BY <2>4, <2>6, <2>8, <2>10 DEF G, k
      <4>3. job.groups \in Nat \ {0} /\ job.n \in Nat
        BY <2>4 DEF G
      <4>4. Dealt' = job.n
        BY <3>2 DEF k
      <4> QED BY <2>1, <3>3, <4>1, <4>2, <4>3, <4>4 DEF SnakeInv
    <3> QED BY <2>2, <3>4
  <2> QED BY <2>13, <2>14
<1> QED BY <1>1, <1>2

(* The rounds of a group *)

(* Who is where in a round, without a remainder: E turn, and one stays.    *)
SeatOf(E, r, i) == IF i = 1 THEN 1 ELSE IF i > r THEN i - r + 1 ELSE i - r + 1 + E

LEMMA Remainder ==
    ASSUME NEW E \in Nat \ {0}, NEW a \in Int, NEW b \in 0..(E - 1), a = b \/ a + E = b
    PROVE  a % E = b
OBVIOUS

LEMMA SeatIs ==
    ASSUME NEW n \in Nat, n >= 2
    PROVE  \E h \in Nat \ {0} :
              /\ Even(n) = 2 * h /\ n \in {2 * h, 2 * h - 1}
              /\ \A r \in 1..(2 * h - 1), i \in 1..(2 * h) :
                    Seat(n, r, i) = SeatOf(2 * h - 1, r, i)
<1>1. PICK h \in Nat \ {0} : Even(n) = 2 * h /\ n \in {2 * h, 2 * h - 1}
  <2>1. CASE n % 2 = 0
    <3>1. n = 2 * (n \div 2) /\ n \div 2 \in Nat \ {0}
      BY <2>1
    <3> QED BY <2>1, <3>1 DEF Even
  <2>2. CASE n % 2 # 0
    <3>1. n + 1 = 2 * ((n + 1) \div 2) /\ (n + 1) \div 2 \in Nat \ {0}
      BY <2>2
    <3> QED BY <2>2, <3>1 DEF Even
  <2> QED BY <2>1, <2>2
<1>2. ASSUME NEW r \in 1..(2 * h - 1), NEW i \in 1..(2 * h)
      PROVE  Seat(n, r, i) = SeatOf(2 * h - 1, r, i)
  <2> DEFINE E == 2 * h - 1  a == i - 2 - (r - 1)
  <2>1. CASE i = 1
    BY <2>1 DEF Seat, SeatOf
  <2>2. CASE i # 1
    <3>1. E \in Nat \ {0} /\ a \in Int /\ r \in Nat /\ i \in Nat
      OBVIOUS
    <3>2. Seat(n, r, i) = (a % E) + 2
      BY <1>1, <2>2 DEF Seat
    <3>3. CASE i > r
      <4>1. a \in 0..(E - 1) /\ SeatOf(E, r, i) = a + 2
        BY <2>2, <3>1, <3>3 DEF SeatOf
      <4>2. a % E = a
        <5> HIDE DEF a, E
        <5> QED BY <3>1, <4>1, Remainder
      <4> QED BY <3>2, <4>1, <4>2
    <3>4. CASE ~(i > r)
      <4>1. a + E \in 0..(E - 1) /\ SeatOf(E, r, i) = a + E + 2
        BY <2>2, <3>1, <3>4 DEF SeatOf
      <4>2. a % E = a + E
        <5> HIDE DEF a, E
        <5> QED BY <3>1, <4>1, Remainder
      <4> QED BY <3>2, <4>1, <4>2
    <3> QED BY <3>3, <3>4
  <2> QED BY <2>1, <2>2
<1> QED BY <1>1, <1>2

(* The match of seat i in a round, of 2 * h seats. *)
Across(h, r, i) == {SeatOf(2 * h - 1, r, i), SeatOf(2 * h - 1, r, 2 * h + 1 - i)}
Round(n, h, r) == {pair \in {Across(h, r, i) : i \in 1..h} : pair \subseteq 1..n}

LEMMA RoundsAre ==
    ASSUME NEW n \in Nat, n >= 2
    PROVE  \E h \in Nat \ {0} :
              /\ n \in {2 * h, 2 * h - 1}
              /\ RoundRobin(n) = [r \in 1..(2 * h - 1) |-> Round(n, h, r)]
<1>1. PICK h \in Nat \ {0} : /\ Even(n) = 2 * h /\ n \in {2 * h, 2 * h - 1}
                             /\ \A r \in 1..(2 * h - 1), i \in 1..(2 * h) :
                                   Seat(n, r, i) = SeatOf(2 * h - 1, r, i)
  BY SeatIs
<1>2. Even(n) \div 2 = h /\ Even(n) - 1 = 2 * h - 1 /\ Even(n) + 1 = 2 * h + 1
  BY <1>1
<1>3. \A r \in 1..(2 * h - 1), i \in 1..h :
          {Seat(n, r, i), Seat(n, r, Even(n) + 1 - i)} = Across(h, r, i)
  <2> TAKE r \in 1..(2 * h - 1), i \in 1..h
  <2>1. i \in 1..(2 * h) /\ 2 * h + 1 - i \in 1..(2 * h)
    OBVIOUS
  <2> QED BY <1>1, <1>2, <2>1 DEF Across
<1>4. RoundRobin(n) =
        [r \in 1..(2 * h - 1) |->
            {pair \in {{Seat(n, r, i), Seat(n, r, Even(n) + 1 - i)} : i \in 1..h} :
                pair \subseteq 1..n}]
  BY <1>2 DEF RoundRobin
<1>5. \A r \in 1..(2 * h - 1) :
        {{Seat(n, r, i), Seat(n, r, Even(n) + 1 - i)} : i \in 1..h} = {Across(h, r, i) : i \in 1..h}
  BY <1>3
<1>6. RoundRobin(n) = [r \in 1..(2 * h - 1) |-> Round(n, h, r)]
  BY <1>4, <1>5 DEF Round
<1> QED BY <1>1, <1>6

(* Nobody has two seats in a round, and nobody is without a seat.          *)
LEMMA SeatsApart ==
    ASSUME NEW h \in Nat \ {0}, NEW r \in 1..(2 * h - 1),
           NEW i \in 1..(2 * h), NEW j \in 1..(2 * h),
           SeatOf(2 * h - 1, r, i) = SeatOf(2 * h - 1, r, j)
    PROVE  i = j
BY DEF SeatOf

LEMMA AcrossApart ==
    ASSUME NEW h \in Nat \ {0}, NEW r \in 1..(2 * h - 1), NEW i \in 1..h, NEW j \in 1..h, i # j
    PROVE  Across(h, r, i) \cap Across(h, r, j) = {}
<1>1. \A k \in 1..h : k \in 1..(2 * h) /\ 2 * h + 1 - k \in 1..(2 * h)
  OBVIOUS
<1>2. i # 2 * h + 1 - j /\ 2 * h + 1 - i # j /\ 2 * h + 1 - i # 2 * h + 1 - j
  OBVIOUS
<1> QED BY <1>1, <1>2, SeatsApart DEF Across

(* In which rounds two players meet: a linear equation for the round.      *)
LEMMA MeetWhen ==
    ASSUME NEW h \in Nat \ {0}, NEW r \in 1..(2 * h - 1),
           NEW x \in 1..(2 * h), NEW y \in 1..(2 * h), x < y
    PROVE  (\E i \in 1..h : {x, y} = Across(h, r, i)) <=>
              IF x = 1 THEN r = 2 * h + 1 - y
              ELSE \E t \in {1, 2, 3} : x + y + 2 * r = 4 + t * (2 * h - 1)
<1> DEFINE E == 2 * h - 1
<1>1. ASSUME NEW i \in 1..h, {x, y} = Across(h, r, i)
      PROVE  IF x = 1 THEN r = 2 * h + 1 - y ELSE \E t \in {1, 2, 3} : x + y + 2 * r = 4 + t * E
  <2> DEFINE a == SeatOf(E, r, i)  b == SeatOf(E, r, 2 * h + 1 - i)
  <2>1. \/ x = a /\ y = b
        \/ x = b /\ y = a
    BY <1>1 DEF Across
  <2>2. CASE i = 1
    <3>1. a = 1 /\ b = 2 * h - r + 1
      BY <2>2 DEF SeatOf
    <3> HIDE DEF a, b
    <3> QED BY <2>1, <3>1
  <2>3. CASE i # 1
    <3>1. /\ a = IF i > r THEN i - r + 1 ELSE i - r + 1 + E
          /\ b = IF 2 * h + 1 - i > r THEN 2 * h + 2 - i - r ELSE 2 * h + 2 - i - r + E
      BY <2>3 DEF SeatOf
    <3> HIDE DEF a, b
    <3>2. a + b + 2 * r \in {4 + E, 4 + 2 * E, 4 + 3 * E}
      BY <3>1
    <3>3. a # 1 /\ b # 1
      BY <2>3, <3>1
    <3>4. x + y + 2 * r \in {4 + E, 4 + 2 * E, 4 + 3 * E}
      BY <2>1, <3>1, <3>2
    <3>5. 4 + E = 4 + 1 * E
      OBVIOUS
    <3> HIDE DEF E
    <3> QED BY <2>1, <3>3, <3>4, <3>5
  <2> QED BY <2>2, <2>3
<1>2. ASSUME x = 1, r = 2 * h + 1 - y PROVE \E i \in 1..h : {x, y} = Across(h, r, i)
  <2>1. SeatOf(E, r, 1) = x /\ SeatOf(E, r, 2 * h + 1 - 1) = y
    BY <1>2 DEF SeatOf
  <2>2. {x, y} = Across(h, r, 1)
    BY <2>1 DEF Across
  <2> QED BY <2>2
<1>3. ASSUME x # 1, NEW t \in {1, 2, 3}, x + y + 2 * r = 4 + t * E
      PROVE  \E i \in 1..h : {x, y} = Across(h, r, i)
  <2> DEFINE i == IF x + r - 1 > 2 * h THEN x + r - 1 - E ELSE x + r - 1
             j == 2 * h + 1 - i
  <2>1. i \in 2..(2 * h) /\ SeatOf(E, r, i) = x
    BY <1>3 DEF SeatOf
  <2>2. x + y + 2 * r = 4 + E \/ x + y + 2 * r = 4 + 2 * E \/ x + y + 2 * r = 4 + 3 * E
    BY <1>3
  <2>3. j \in 2..(2 * h) /\ SeatOf(E, r, j) = y
    BY <1>3, <2>2 DEF SeatOf
  <2> HIDE DEF i
  <2>4. CASE i <= h
    <3>1. i \in 1..h
      BY <2>1, <2>4
    <3>2. {x, y} = Across(h, r, i)
      BY <2>1, <2>3 DEF Across
    <3> QED BY <3>1, <3>2
  <2>5. CASE ~(i <= h)
    <3>1. j \in 1..h /\ 2 * h + 1 - j = i
      BY <2>1, <2>5
    <3>2. {x, y} = Across(h, r, j)
      BY <2>1, <2>3, <3>1 DEF Across
    <3> QED BY <3>1, <3>2
  <2> QED BY <2>4, <2>5
<1> QED BY <1>1, <1>2, <1>3

(* Two players meet in one round and no other. *)
LEMMA OneMeeting ==
    ASSUME NEW h \in Nat \ {0}, NEW x \in 1..(2 * h), NEW y \in 1..(2 * h), x < y
    PROVE  \E r \in 1..(2 * h - 1) : \A q \in 1..(2 * h - 1) :
              (\E i \in 1..h : {x, y} = Across(h, q, i)) <=> q = r
<1> DEFINE E == 2 * h - 1
           Meet(r) == IF x = 1 THEN r = 2 * h + 1 - y
                      ELSE \E t \in {1, 2, 3} : x + y + 2 * r = 4 + t * E
<1>1. \E r \in 1..(2 * h - 1) : Meet(r)
  <2>1. CASE x = 1
    <3>1. 2 * h + 1 - y \in 1..(2 * h - 1)
      BY <2>1
    <3> QED BY <2>1, <3>1
  <2>2. CASE x # 1
    <3> DEFINE c == x + y - 4
    <3>1. PICK k \in Nat : c = 2 * k \/ c = 2 * k + 1
      <4>1. c \in Nat /\ c \div 2 \in Nat /\ (c = 2 * (c \div 2) \/ c = 2 * (c \div 2) + 1)
        BY <2>2
      <4> QED BY <4>1
    <3>2. CASE c = 2 * k + 1
      <4>1. CASE c <= E
        <5>1. h - 1 - k \in 0..(2 * h - 1) /\ x + y + 2 * (h - 1 - k) = 4 + 1 * E
          BY <2>2, <3>2, <4>1
        <5>2. CASE h - 1 - k > 0
          <6>1. h - 1 - k \in 1..(2 * h - 1)
            BY <5>1, <5>2
          <6> QED BY <2>2, <5>1, <6>1
        <5>3. CASE ~(h - 1 - k > 0)
          <6>1. x + y + 2 * (h - 1 - k + E) = 4 + 3 * E /\ h - 1 - k + E \in 1..(2 * h - 1)
            BY <5>1, <5>3
          <6> QED BY <2>2, <6>1
        <5> QED BY <5>2, <5>3
      <4>2. CASE ~(c <= E)
        <5>1. 3 * h - 2 - k \in 1..(2 * h - 1) /\ x + y + 2 * (3 * h - 2 - k) = 4 + 3 * E
          BY <2>2, <3>2, <4>2
        <5> QED BY <2>2, <5>1
      <4> QED BY <4>1, <4>2
    <3>3. CASE c = 2 * k
      <4>1. 2 * h - 1 - k \in 1..(2 * h - 1) /\ x + y + 2 * (2 * h - 1 - k) = 4 + 2 * E
        BY <2>2, <3>3
      <4> QED BY <2>2, <4>1
    <3> QED BY <3>1, <3>2, <3>3
  <2> QED BY <2>1, <2>2
<1>2. ASSUME NEW r \in 1..(2 * h - 1), NEW q \in 1..(2 * h - 1), Meet(r), Meet(q) PROVE q = r
  <2>1. CASE x = 1
    BY <1>2, <2>1
  <2>2. CASE x # 1
    <3>1. /\ x + y + 2 * r = 4 + E \/ x + y + 2 * r = 4 + 2 * E \/ x + y + 2 * r = 4 + 3 * E
          /\ x + y + 2 * q = 4 + E \/ x + y + 2 * q = 4 + 2 * E \/ x + y + 2 * q = 4 + 3 * E
      BY <1>2, <2>2
    <3> QED BY <3>1
  <2> QED BY <2>1, <2>2
<1>3. \A r \in 1..(2 * h - 1) : (\E i \in 1..h : {x, y} = Across(h, r, i)) <=> Meet(r)
  BY MeetWhen
<1> HIDE DEF Meet
<1> QED BY <1>1, <1>2, <1>3

LEMMA PairsMeet == ASSUME job.kind = "rounds" => job.n \in Nat PROVE EveryPairMeetsOnce
<1> SUFFICES ASSUME job.kind = "rounds", job.n >= 2 PROVE EveryPairMeetsOnce
  BY DEF EveryPairMeetsOnce
<1> DEFINE n == job.n
<1>1. n \in Nat /\ n >= 2
  OBVIOUS
<1> HIDE DEF n
<1>2. PICK h \in Nat \ {0} : /\ n \in {2 * h, 2 * h - 1}
                             /\ RoundRobin(n) = [r \in 1..(2 * h - 1) |-> Round(n, h, r)]
  BY <1>1, RoundsAre
<1>3. ASSUME NEW x \in 1..n, NEW y \in 1..n, x < y
      PROVE  Cardinality({r \in DOMAIN RoundRobin(n) : {x, y} \in RoundRobin(n)[r]}) = 1
  <2>1. x \in 1..(2 * h) /\ y \in 1..(2 * h)
    BY <1>2
  <2>2. PICK r \in 1..(2 * h - 1) : \A q \in 1..(2 * h - 1) :
            (\E i \in 1..h : {x, y} = Across(h, q, i)) <=> q = r
    BY <1>3, <2>1, OneMeeting
  <2>3. \A q \in 1..(2 * h - 1) :
            {x, y} \in RoundRobin(n)[q] <=> \E i \in 1..h : {x, y} = Across(h, q, i)
    <3> TAKE q \in 1..(2 * h - 1)
    <3>1. RoundRobin(n)[q] = Round(n, h, q) /\ {x, y} \subseteq 1..n
      BY <1>2
    <3>2. {x, y} \in Round(n, h, q) <=> \E i \in 1..h : {x, y} = Across(h, q, i)
      BY <3>1 DEF Round
    <3> QED BY <3>1, <3>2
  <2>4. {q \in DOMAIN RoundRobin(n) : {x, y} \in RoundRobin(n)[q]} = {r}
    BY <1>2, <2>2, <2>3
  <2> QED BY <2>4, FS_Singleton
<1>4. ASSUME NEW x \in 1..n, NEW y \in 1..n, x # y
      PROVE  Cardinality({r \in DOMAIN RoundRobin(n) : {x, y} \in RoundRobin(n)[r]}) = 1
  <2>1. CASE x < y
    BY <1>3, <2>1
  <2>2. CASE y < x
    <3>1. {x, y} = {y, x}
      OBVIOUS
    <3>2. Cardinality({r \in DOMAIN RoundRobin(n) : {y, x} \in RoundRobin(n)[r]}) = 1
      BY <1>3, <2>2
    <3> QED BY <3>1, <3>2
  <2> QED BY <1>4, <2>1, <2>2
<1>5. ASSUME NEW r \in DOMAIN RoundRobin(n), NEW c \in RoundRobin(n)[r],
             NEW d \in RoundRobin(n)[r], c # d
      PROVE  c \cap d = {}
  <2>1. r \in 1..(2 * h - 1) /\ c \in Round(n, h, r) /\ d \in Round(n, h, r)
    BY <1>2, <1>5
  <2>2. PICK i \in 1..h, j \in 1..h : c = Across(h, r, i) /\ d = Across(h, r, j)
    BY <2>1 DEF Round
  <2> QED BY <1>5, <2>1, <2>2, AcrossApart
<1> QED BY <1>4, <1>5 DEF EveryPairMeetsOnce, n

LEMMA MadeEven == JobInv /\ SnakeInv => GroupsAreMadeEven
<1> SUFFICES ASSUME JobInv, SnakeInv PROVE GroupsAreMadeEven
  OBVIOUS
<1>1. job.kind = "rounds" => job.n \in Nat
  BY DEF JobInv, SnakeJob, RoundsJob
<1>2. EveryPairMeetsOnce
  BY <1>1, PairsMeet
<1> QED BY <1>2, EvenSoFar DEF GroupsAreMadeEven

(* However many players and groups there are, whatever their regions and   *)
(* the lots: after every row the groups differ by one player at most and   *)
(* each full row gave every group one of its players (snakeDraw); and in a *)
(* group of any number of players each pair meets in exactly one round, in *)
(* which nobody plays twice (roundRobinRounds).                            *)
THEOREM GroupsAreEvenAndMeet == GroupSpec => []GroupsAreMadeEven
<1>1. job \in SnakeJob \cup RoundsJob /\ at = <<>> => JobInv /\ SnakeInv
  BY InitSnake
<1>2. JobInv /\ SnakeInv /\ [DealRow]_pvars => (JobInv /\ SnakeInv)'
  BY DealKeeps
<1> QED BY <1>1, <1>2, MadeEven, PTL DEF GroupSpec

----------------------------------------------------------------------------
(* What the result of a group match counts. *)

(* Cross products of fractions compare as the fractions do. *)
LEMMA ProductsAreOrdered ==
    ASSUME NEW a \in Nat, NEW b \in Nat \ {0}, NEW c \in Nat, NEW d \in Nat \ {0},
           NEW e \in Nat, NEW f \in Nat \ {0}, a * d >= c * b, c * f >= e * d
    PROVE  a * f >= e * b
<1>1. (a * d) * f >= (c * b) * f
  OBVIOUS
<1>2. (c * f) * b >= (e * d) * b
  OBVIOUS
<1>3. (c * b) * f = (c * f) * b /\ (a * d) * f = (a * f) * d /\ (e * d) * b = (e * b) * d
  OBVIOUS
<1> DEFINE x == a * f  y == e * b
<1>4. x * d >= y * d /\ x \in Nat /\ y \in Nat
  BY <1>1, <1>2, <1>3
<1> HIDE DEF x, y
<1>5. x >= y
  <2>1. CASE y >= x + 1
    <3>1. y * d >= (x + 1) * d /\ (x + 1) * d = x * d + d
      BY <1>4, <2>1
    <3>2. x * d \in Nat /\ y * d \in Nat
      BY <1>4
    <3> QED BY <1>4, <3>1, <3>2
  <2>2. CASE ~(y >= x + 1)
    BY <1>4, <2>2
  <2> QED BY <2>1, <2>2
<1> QED BY <1>5 DEF x, y

(* The comparison of standings is an order of all fractions, also of those *)
(* without a denominator and of 0 : 0 (cmpFrac).                           *)
THEOREM FractionsAreInOrder ==
    \A x, y, z \in Nat \X Nat : AreOrdered(x, y, z)
<1> TAKE x, y, z \in Nat \X Nat
<1> DEFINE a == x[1]  b == x[2]  c == y[1]  d == y[2]  e == z[1]  f == z[2]
<1>1. /\ a \in Nat /\ b \in Nat /\ c \in Nat /\ d \in Nat /\ e \in Nat /\ f \in Nat
  OBVIOUS
<1>2. /\ a * d \in Nat /\ c * b \in Nat /\ c * f \in Nat
      /\ e * d \in Nat /\ a * f \in Nat /\ e * b \in Nat
  BY <1>1
<1>3. CmpFrac(x, y) > 0 <=> CmpFrac(y, x) < 0
  BY <1>1, <1>2 DEF CmpFrac
<1>4. ASSUME CmpFrac(x, y) >= 0, CmpFrac(y, z) >= 0 PROVE CmpFrac(x, z) >= 0
  <2>1. CASE b # 0 /\ d # 0 /\ f # 0
    <3>1. a * d >= c * b /\ c * f >= e * d
      BY <1>2, <1>4, <2>1 DEF CmpFrac
    <3> HIDE DEF a, b, c, d, e, f
    <3>2. a * f >= e * b
      BY <1>1, <2>1, <3>1, ProductsAreOrdered
    <3> QED BY <1>2, <2>1, <3>2 DEF CmpFrac, a, b, e, f
  <2>2. CASE b = 0
    <3>1. d # 0 => a > 0
      BY <1>1, <1>4, <2>2 DEF CmpFrac
    <3>2. d = 0 => a >= c
      BY <1>1, <1>4, <2>2 DEF CmpFrac
    <3>3. d = 0 /\ f = 0 => c >= e
      BY <1>1, <1>4 DEF CmpFrac
    <3>4. d = 0 /\ f # 0 => c > 0
      BY <1>1, <1>4 DEF CmpFrac
    <3>5. d # 0 /\ f = 0 => e = 0
      BY <1>1, <1>4 DEF CmpFrac
    <3> QED BY <1>1, <2>2, <3>1, <3>2, <3>3, <3>4, <3>5 DEF CmpFrac
  <2>3. CASE b # 0 /\ d = 0
    <3>1. c = 0
      BY <1>1, <1>4, <2>3 DEF CmpFrac
    <3>2. f = 0 /\ e = 0
      BY <1>1, <1>4, <2>3, <3>1 DEF CmpFrac
    <3> QED BY <1>1, <2>3, <3>2 DEF CmpFrac
  <2>4. CASE b # 0 /\ d # 0 /\ f = 0
    <3>1. e = 0
      BY <1>1, <1>4, <2>4 DEF CmpFrac
    <3> QED BY <1>1, <2>4, <3>1 DEF CmpFrac
  <2> QED BY <2>1, <2>2, <2>3, <2>4
<1> QED BY <1>3, <1>4 DEF AreOrdered

LEMMA RallyIsNat ==
    ASSUME NEW m, m.sets \in Seq(Nat \X Nat), NEW s \in {1, 2}
    PROVE  RallyOf(m, s) \in Nat
<1> DEFINE n == Len(m.sets)
           add(i) == m.sets[i][s]
           R(f) == [i \in 0..n |-> IF i = 0 THEN 0 ELSE f[i - 1] + add(i)]
           rally == CHOOSE f : f = R(f)
<1>1. n \in Nat /\ \A i \in 1..n : add(i) \in Nat
  OBVIOUS
<1>2. RallyOf(m, s) = rally[n]
  BY DEF RallyOf
<1> HIDE DEF n, add
<1> DEFINE Unrolls(k, f) == /\ f \in [0..k -> Nat] /\ f[0] = 0
                            /\ \A i \in 1..k : f[i] = f[i - 1] + add(i)
           T == {k \in 0..n : \E f : Unrolls(k, f)}
<1>3. 0 \in T
  <2>1. Unrolls(0, [i \in 0..0 |-> 0])
    OBVIOUS
  <2> HIDE DEF Unrolls
  <2> QED BY <1>1, <2>1
<1>4. ASSUME NEW k \in 1..n, k - 1 \in T PROVE k \in T
  <2>1. PICK f : Unrolls(k - 1, f)
    BY <1>4
  <2> DEFINE h == [i \in 0..k |-> IF i = k THEN f[k - 1] + add(k) ELSE f[i]]
  <2>2. h \in [0..k -> Nat] /\ h[0] = 0
    <3>1. k - 1 \in 0..(k - 1) /\ add(k) \in Nat
      BY <1>1
    <3> QED BY <2>1, <3>1
  <2>3. ASSUME NEW i \in 1..k PROVE h[i] = h[i - 1] + add(i)
    <3>1. CASE i = k
      <4>1. h[i] = f[k - 1] + add(k) /\ h[i - 1] = f[k - 1]
        BY <3>1
      <4> HIDE DEF h
      <4> QED BY <3>1, <4>1
    <3>2. CASE i # k
      <4>1. i \in 1..(k - 1) /\ h[i] = f[i] /\ h[i - 1] = f[i - 1]
        BY <3>2
      <4> HIDE DEF h
      <4> QED BY <2>1, <4>1
    <3> QED BY <3>1, <3>2
  <2> HIDE DEF h
  <2>4. Unrolls(k, h)
    BY <2>2, <2>3
  <2> HIDE DEF Unrolls
  <2> QED BY <2>4
<1>5. PICK f : Unrolls(n, f)
  <2>1. T \in SUBSET (0..n)
    OBVIOUS
  <2> HIDE DEF T
  <2>2. 0..n \subseteq T
    BY <1>1, <1>3, <1>4, <2>1, StepByStep
  <2>3. n \in T
    BY <1>1, <2>2
  <2> QED BY <2>3 DEF T
<1>6. f = R(f)
  <2>1. ASSUME NEW i \in 0..n PROVE f[i] = R(f)[i]
    <3>1. i # 0 => i \in 1..n
      BY <1>1
    <3> QED BY <1>5, <3>1
  <2>2. f = [i \in 0..n |-> f[i]] /\ R(f) = [i \in 0..n |-> R(f)[i]]
    BY <1>5
  <2> HIDE DEF R, Unrolls
  <2> QED BY <2>1, <2>2
<1>7. rally = R(rally)
  <2> HIDE DEF R
  <2> QED BY <1>6
<1>8. rally[0] = 0 /\ \A i \in 1..n : rally[i] = rally[i - 1] + add(i)
  <2>1. \A i \in 0..n : rally[i] = R(rally)[i]
    BY <1>7
  <2> HIDE DEF rally
  <2>2. 0 \in 0..n /\ \A i \in 1..n : i \in 0..n /\ i # 0
    BY <1>1
  <2> QED BY <2>1, <2>2
<1> HIDE DEF rally
<1> DEFINE N == {k \in 0..n : rally[k] \in Nat}
<1>9. 0 \in N /\ N \in SUBSET (0..n) /\ \A k \in 1..n : k - 1 \in N => k \in N
  BY <1>1, <1>8
<1>10. n \in N
  <2> HIDE DEF N
  <2>1. 0..n \subseteq N
    BY <1>1, <1>9, StepByStep
  <2> QED BY <1>1, <2>1
<1> QED BY <1>2, <1>10

(* The larger of two numbers, and the first legal score from an unfinished *)
(* one if the loser makes no more points.                                  *)
LEMMA LargerOf ==
    ASSUME NEW a \in Nat, NEW b \in Int
    PROVE  Max({a, b}) = IF a >= b THEN a ELSE b
<1>1. CASE a >= b
  <2>1. \A x \in {a, b} : (\A y \in {a, b} : x >= y) <=> x = a
    BY <1>1
  <2> QED BY <1>1, <2>1 DEF Max
<1>2. CASE ~(a >= b)
  <2>1. \A x \in {a, b} : (\A y \in {a, b} : x >= y) <=> x = b
    BY <1>2
  <2> QED BY <1>2, <2>1 DEF Max
<1> QED BY <1>1, <1>2

LEMMA FirstLegal ==
    ASSUME NEW made \in Nat, NEW conceded \in Nat,
           made < SetPoints \/ made - conceded < 2, conceded < SetPoints \/ conceded - made < 2
    PROVE  LET legal == {x \in made..(conceded + SetPoints + 2) : Legal(x, conceded)} IN
           Min(legal) = Max({SetPoints, conceded + 2})
<1> DEFINE legal == {x \in made..(conceded + SetPoints + 2) : Legal(x, conceded)}
           first == IF SetPoints >= conceded + 2 THEN SetPoints ELSE conceded + 2
<1>1. SetPoints \in Nat \ {0, 1}
  BY SetPointsAssumption
<1>2. first \in legal /\ \A x \in legal : first <= x
  BY <1>1 DEF Legal
<1>3. Max({SetPoints, conceded + 2}) = first
  BY <1>1, LargerOf
<1>4. \A x \in legal : x \in Int
  BY <1>1
<1>5. first \in Int
  BY <1>1
<1> HIDE DEF legal, first
<1>6. \A x \in legal : (\A y \in legal : x <= y) <=> x = first
  BY <1>2, <1>4, <1>5
<1>7. Min(legal) = first
  BY <1>2, <1>6 DEF Min
<1> QED BY <1>3, <1>7 DEF legal

LEMMA WonIsNat ==
    ASSUME NEW m, GivenUp(m)
    PROVE  /\ SetsWon(m, 1) \in Nat /\ SetsWon(m, 2) \in Nat
           /\ FromSets(m).s = <<SetsWon(m, 1), SetsWon(m, 2)>>
<1> DEFINE D == DOMAIN m.sets
           A == {i \in D : m.sets[i][1] > m.sets[i][2]}
           B == {i \in D : m.sets[i][2] > m.sets[i][1]}
           C == {i \in D : m.sets[i][1] <= m.sets[i][2]}
<1>1. D = 1..Len(m.sets) /\ Len(m.sets) \in Nat
  BY DEF GivenUp
<1>2. \A i \in D : m.sets[i][1] \in Nat /\ m.sets[i][2] \in Nat /\ m.sets[i][1] # m.sets[i][2]
  BY DEF GivenUp, FullSet
<1>3. B = C
  BY <1>2
<1>4. Cardinality(A) \in Nat /\ Cardinality(B) \in Nat
  <2>1. A \in SUBSET D /\ B \in SUBSET D
    OBVIOUS
  <2> HIDE DEF A, B
  <2>2. IsFiniteSet(D)
    BY <1>1, FS_Interval
  <2>3. IsFiniteSet(A) /\ IsFiniteSet(B)
    BY <2>1, <2>2, FS_Subset
  <2> QED BY <2>3, FS_CardinalityType
<1>5. SetsWon(m, 1) = Cardinality(A) /\ SetsWon(m, 2) = Cardinality(B)
  BY DEF SetsWon
<1>6. FromSets(m).s = <<Cardinality(A), Cardinality(C)>>
  BY DEF FromSets, SetsOf
<1> QED BY <1>3, <1>4, <1>5, <1>6

LEMMA NeedIsInt == ASSUME NEW m, GivenUp(m) PROVE Need(m) \in Int
BY DEF GivenUp, Need

(* A match given up at any score, in a set of any length and a match of    *)
(* any number of sets, counts as the shortest legal match that its winner  *)
(* could still have won; the loser keeps what he made (normalize).         *)
THEOREM GivenUpCountsAsShortestWin ==
    ASSUME NEW m, GivenUp(m) PROVE CountsAsShortestWin(m)
<1> DEFINE full == FromSets(m)
           norm == Normalized(m)
<1>1. PICK w \in {1, 2}, l \in {1, 2} : w = (IF m.aWon THEN 1 ELSE 2) /\ l = 3 - w /\ l # w
  OBVIOUS
<1>2. /\ m.partial \in Nat \X Nat /\ m.sets \in Seq(Nat \X Nat)
      /\ SetPoints \in Nat \ {0, 1}
  BY SetPointsAssumption DEF GivenUp
<1>3. PICK made \in Nat, conceded \in Nat : made = m.partial[w] /\ conceded = m.partial[l]
  BY <1>2
<1>4. PICK begun \in {0, 1} : /\ begun = (IF m.partial = <<0, 0>> THEN 0 ELSE 1)
                              /\ begun = 0 => conceded = 0
  BY <1>3
<1>5. PICK first \in Nat : /\ first = Max({SetPoints, conceded + 2})
                           /\ first = IF SetPoints >= conceded + 2 THEN SetPoints ELSE conceded + 2
  <2>1. SetPoints \in Nat /\ conceded + 2 \in Int
    BY <1>2
  <2>2. Max({SetPoints, conceded + 2}) =
           IF SetPoints >= conceded + 2 THEN SetPoints ELSE conceded + 2
    BY <2>1, LargerOf
  <2> QED BY <1>2, <2>2
<1>6. /\ full.s = <<SetsWon(m, 1), SetsWon(m, 2)>>
      /\ full.r = <<RallyOf(m, 1), RallyOf(m, 2)>>
      /\ SetsWon(m, 1) \in Nat /\ SetsWon(m, 2) \in Nat
      /\ RallyOf(m, 1) \in Nat /\ RallyOf(m, 2) \in Nat
  BY <1>2, WonIsNat, RallyIsNat DEF FromSets
<1>7. PICK rw \in Nat, rl \in Nat, sw \in Nat, sl \in Nat :
         /\ rw = RallyOf(m, w) /\ rl = RallyOf(m, l) /\ sw = SetsWon(m, w) /\ sl = SetsWon(m, l)
         /\ full.s[w] = sw /\ full.s[l] = sl /\ full.r[w] = rw /\ full.r[l] = rl
  BY <1>1, <1>6
<1>8. PICK toWin \in Nat \ {0} : toWin = Need(m) - sw /\ sw + toWin = Need(m)
  <2>1. Need(m) \in Int /\ sw < Need(m)
    BY <1>1, <1>7 DEF GivenUp, Need
  <2> QED BY <2>1
<1>9. Min({x \in made..(conceded + SetPoints + 2) : Legal(x, conceded)}) = first
  <2>1. (made < SetPoints \/ made - conceded < 2) /\ (conceded < SetPoints \/ conceded - made < 2)
    BY <1>1, <1>3 DEF GivenUp, Unfinished
  <2> QED BY <1>5, <2>1, FirstLegal
<1>10. norm = Awarded(m, w, full)
  BY <1>1 DEF Normalized, GivenUp, Forfeit
<1>11. Max({0, Need(m) - full.s[w] - begun}) = toWin - begun
  <2>1. Need(m) - full.s[w] - begun = toWin - begun /\ toWin - begun \in Nat
    BY <1>4, <1>7, <1>8, NeedIsInt
  <2> QED BY <2>1, LargerOf
<1>12. /\ norm.p = [x \in 1..2 |-> IF x = w THEN 2 ELSE 0]
       /\ norm.s = [full.s EXCEPT ![w] = @ + begun + (toWin - begun)]
       /\ norm.r = [full.r EXCEPT ![w] = @ + begun * first + SetPoints * (toWin - begun),
                                  ![l] = @ + conceded]
  BY <1>1, <1>3, <1>4, <1>5, <1>10, <1>11 DEF Awarded
<1>13. DOMAIN full.s = {1, 2} /\ DOMAIN full.r = {1, 2}
  BY <1>6
<1> HIDE DEF norm, full
<1>14. norm.p[w] = 2 /\ norm.p[l] = 0
  BY <1>1, <1>12
<1>15. norm.s[w] = Need(m) /\ norm.s[l] = sl
  <2>1. norm.s[w] = sw + begun + (toWin - begun) /\ norm.s[l] = sl
    BY <1>1, <1>7, <1>12, <1>13
  <2>2. sw + begun + (toWin - begun) = sw + toWin
    BY <1>4, <1>7, <1>8
  <2> QED BY <1>8, <2>1, <2>2
<1>16. norm.r[w] = rw + begun * first + SetPoints * (toWin - begun) /\ norm.r[l] = rl + conceded
  BY <1>1, <1>7, <1>12, <1>13
<1>17. norm.r[w] = rw + first + (toWin - 1) * SetPoints
  <2>1. CASE begun = 1
    <3>1. SetPoints * (toWin - 1) = (toWin - 1) * SetPoints /\ 1 * first = first
      BY <1>2, <1>5, <1>8
    <3> QED BY <1>16, <2>1, <3>1
  <2>2. CASE begun = 0
    <3>1. first = SetPoints /\ 0 * first = 0 /\ toWin - 0 = toWin
      <4>1. first = IF SetPoints >= conceded + 2 THEN SetPoints ELSE conceded + 2
        BY <1>5
      <4>2. conceded = 0 /\ SetPoints \in Nat \ {0, 1}
        BY <1>2, <1>4, <2>2
      <4> QED BY <4>1, <4>2
    <3>2. SetPoints * toWin = SetPoints + (toWin - 1) * SetPoints
      BY <1>2, <1>8
    <3>3. (toWin - 1) * SetPoints \in Int /\ SetPoints * toWin \in Int
      BY <1>2, <1>8
    <3>4. norm.r[w] = rw + 0 + SetPoints * toWin
      BY <1>16, <2>2, <3>1
    <3>5. rw + 0 + SetPoints * toWin = rw + SetPoints + (toWin - 1) * SetPoints
      BY <1>2, <1>7, <3>2, <3>3
    <3> QED BY <3>1, <3>4, <3>5
  <2> QED BY <2>1, <2>2
<1>18. norm = Normalized(m)
  BY DEF norm
<1> HIDE DEF norm
<1>19. /\ Normalized(m).p[w] = 2 /\ Normalized(m).p[l] = 0
       /\ Normalized(m).s[w] = Need(m) /\ Normalized(m).s[l] = SetsWon(m, l)
       /\ Normalized(m).r[w] =
              RallyOf(m, w)
              + Min({x \in m.partial[w]..(m.partial[l] + SetPoints + 2) : Legal(x, m.partial[l])})
              + ((Need(m) - SetsWon(m, w)) - 1) * SetPoints
       /\ Normalized(m).r[l] = RallyOf(m, l) + m.partial[l]
  BY <1>3, <1>7, <1>8, <1>9, <1>14, <1>15, <1>16, <1>17, <1>18
<1> QED BY <1>1, <1>19 DEF CountsAsShortestWin

----------------------------------------------------------------------------
(* The lots of a group. *)

(* A finite set has subsets of every smaller size. *)
LEMMA SubsetOfSize ==
    ASSUME NEW S, IsFiniteSet(S), NEW k \in Nat, k <= Cardinality(S)
    PROVE  \E A \in SUBSET S : Cardinality(A) = k
<1> DEFINE T == {i \in 0..k : \E A \in SUBSET S : Cardinality(A) = i}
<1>1. 0 \in T
  <2>1. {} \in SUBSET S /\ Cardinality({}) = 0
    BY FS_EmptySet
  <2> QED BY <2>1
<1>2. ASSUME NEW i \in 1..k, i - 1 \in T PROVE i \in T
  <2>1. PICK A \in SUBSET S : Cardinality(A) = i - 1
    BY <1>2
  <2>2. IsFiniteSet(A) /\ Cardinality(S) \in Nat
    BY FS_Subset, FS_CardinalityType
  <2>3. PICK x \in S : x \notin A
    <3>1. A # S
      BY <2>1, <2>2
    <3> QED BY <3>1
  <2>4. A \cup {x} \in SUBSET S /\ Cardinality(A \cup {x}) = i
    <3>1. Cardinality(A \cup {x}) = Cardinality(A) + 1
      BY <2>2, <2>3, FS_AddElement
    <3> QED BY <2>1, <3>1
  <2> QED BY <2>4
<1>3. T \in SUBSET (0..k)
  OBVIOUS
<1> HIDE DEF T
<1>4. k \in T
  <2>1. 0..k \subseteq T
    BY <1>1, <1>2, <1>3, StepByStep
  <2> QED BY <2>1
<1> QED BY <1>4 DEF T

(* Each class takes the places that follow those of the classes before.    *)
LEMMA ClassesFollow ==
    ASSUME NEW table, IsTable(table)
    PROVE  /\ \A i \in 1..(Len(table) + 1) :
                 /\ IsFiniteSet(Earlier(table, i)) /\ Before(table, i) \in Nat
                 /\ Earlier(table, i) \subseteq Ranked(table)
           /\ Before(table, 1) = 0
           /\ \A i \in 1..Len(table) :
                 /\ Cardinality(table[i]) \in Nat \ {0}
                 /\ Earlier(table, i + 1) = Earlier(table, i) \cup table[i]
                 /\ Earlier(table, i) \cap table[i] = {}
                 /\ Before(table, i + 1) = Before(table, i) + Cardinality(table[i])
<1> DEFINE n == Len(table)
<1>1. n \in Nat /\ DOMAIN table = 1..n
  BY DEF IsTable
<1>2. Earlier(table, 1) = {}
  BY DEF Earlier
<1>3. ASSUME NEW i \in 1..n
      PROVE  /\ Earlier(table, i + 1) = Earlier(table, i) \cup table[i]
             /\ Earlier(table, i) \cap table[i] = {}
  <2>1. 1..((i + 1) - 1) = 1..(i - 1) \cup {i}
    BY <1>1
  <2>2. \A j \in 1..(i - 1) : j \in 1..n /\ j # i
    BY <1>1
  <2>3. \A j \in 1..(i - 1) : table[j] \cap table[i] = {}
    BY <1>1, <2>2 DEF IsTable
  <2> QED BY <2>1, <2>3 DEF Earlier
<1>4. \A i \in 1..n : IsFiniteSet(table[i]) /\ Cardinality(table[i]) \in Nat \ {0}
  <2> SUFFICES ASSUME NEW i \in 1..n
               PROVE  IsFiniteSet(table[i]) /\ Cardinality(table[i]) \in Nat \ {0}
    OBVIOUS
  <2>1. IsFiniteSet(table[i]) /\ table[i] # {}
    BY <1>1 DEF IsTable
  <2> QED BY <2>1, FS_EmptySet, FS_CardinalityType
<1> DEFINE T == {i \in 0..n : IsFiniteSet(Earlier(table, i + 1))}
<1>5. 0..n \subseteq T
  <2>1. 0 \in T
    BY <1>1, <1>2, FS_EmptySet
  <2>2. ASSUME NEW i \in 1..n, i - 1 \in T PROVE i \in T
    <3>1. IsFiniteSet(Earlier(table, i))
      BY <2>2
    <3>2. IsFiniteSet(Earlier(table, i) \cup table[i])
      BY <1>4, <3>1, FS_Union
    <3>3. IsFiniteSet(Earlier(table, i + 1))
      BY <1>3, <3>2
    <3> HIDE DEF n
    <3> QED BY <1>1, <3>3
  <2>3. T \in SUBSET (0..n)
    OBVIOUS
  <2> HIDE DEF T
  <2> QED BY <1>1, <2>1, <2>2, <2>3, StepByStep
<1>6. ASSUME NEW i \in 1..(n + 1) PROVE IsFiniteSet(Earlier(table, i)) /\ Before(table, i) \in Nat
  <2>1. i - 1 \in 0..n /\ (i - 1) + 1 = i
    BY <1>1
  <2>2. IsFiniteSet(Earlier(table, i))
    BY <1>5, <2>1
  <2> QED BY <2>2, FS_CardinalityType DEF Before
<1>7. ASSUME NEW i \in 1..(n + 1) PROVE Earlier(table, i) \subseteq Ranked(table)
  <2>1. \A j \in 1..(i - 1) : j \in 1..((n + 1) - 1)
    BY <1>1
  <2> QED BY <2>1 DEF Earlier, Ranked
<1>8. Before(table, 1) = 0
  BY <1>2, FS_EmptySet DEF Before
<1>9. ASSUME NEW i \in 1..n PROVE Before(table, i + 1) = Before(table, i) + Cardinality(table[i])
  <2>1. IsFiniteSet(Earlier(table, i)) /\ Before(table, i) \in Nat
    BY <1>1, <1>6
  <2>2. Cardinality(Earlier(table, i) \cup table[i]) =
            Cardinality(Earlier(table, i)) + Cardinality(table[i])
                - Cardinality(Earlier(table, i) \cap table[i])
    BY <1>4, <2>1, FS_Union
  <2>3. Cardinality(Earlier(table, i) \cap table[i]) = 0
    BY <1>3, FS_EmptySet
  <2>4. Cardinality(table[i]) \in Nat /\ Cardinality(Earlier(table, i)) \in Nat
    BY <1>4, <2>1 DEF Before
  <2>5. Earlier(table, i + 1) = Earlier(table, i) \cup table[i]
    BY <1>3
  <2> DEFINE a == Cardinality(Earlier(table, i))
             b == Cardinality(table[i])
             c == Cardinality(Earlier(table, i) \cap table[i])
             d == Cardinality(Earlier(table, i) \cup table[i])
  <2>6. d = a + b - c /\ c = 0 /\ a \in Nat /\ b \in Nat
    BY <2>2, <2>3, <2>4
  <2>7. Before(table, i + 1) = d /\ Before(table, i) = a
    BY <2>5 DEF Before
  <2> HIDE DEF a, b, c, d
  <2>8. Before(table, i + 1) = Before(table, i) + b
    BY <2>6, <2>7
  <2> QED BY <2>8 DEF b
<1> HIDE DEF n
<1> QED BY <1>3, <1>4, <1>6, <1>7, <1>8, <1>9 DEF n

(* Of a class with more players than places left, the lots can take either *)
(* of two.                                                                 *)
LEMMA LotsCanDiffer ==
    ASSUME NEW table, IsTable(table), NEW advancing \in Nat,
           LotStraddlesBoundary(table, advancing)
    PROVE  LotsDecide(table, advancing)
<1>1. PICK i \in 1..Len(table) : /\ Before(table, i) + 1 <= advancing
                                 /\ Before(table, i) + Cardinality(table[i]) > advancing
  BY DEF LotStraddlesBoundary, IsTable
<1>2. DOMAIN table = 1..Len(table) /\ Len(table) \in Nat
  BY DEF IsTable
<1>3. i \in 1..(Len(table) + 1) /\ i + 1 \in 1..(Len(table) + 1)
  BY <1>2
<1> DEFINE all == Earlier(table, i)
           class == table[i]
<1>4. /\ IsFiniteSet(all) /\ Cardinality(all) = Before(table, i) /\ Before(table, i) \in Nat
      /\ IsFiniteSet(class) /\ Cardinality(class) \in Nat
      /\ all \cap class = {} /\ all \cup class \subseteq Ranked(table)
  BY <1>2, <1>3, ClassesFollow DEF Before, IsTable
<1> DEFINE k == advancing - Cardinality(all)
<1>5. k \in Nat \ {0} /\ k < Cardinality(class) /\ Cardinality(all) + k = advancing
  BY <1>1, <1>4
<1> HIDE DEF all, class, k
<1>6. PICK A \in SUBSET class : Cardinality(A) = k
  BY <1>4, <1>5, SubsetOfSize
<1>7. IsFiniteSet(A) /\ A # {} /\ A # class
  BY <1>4, <1>5, <1>6, FS_Subset, FS_EmptySet
<1>8. PICK x \in A, y \in class : y \notin A
  BY <1>7
<1> DEFINE B == (A \ {x}) \cup {y}
<1>9. B \in SUBSET class /\ B # A /\ Cardinality(B) = k /\ IsFiniteSet(B)
  <2>1. IsFiniteSet(A \ {x}) /\ Cardinality(A \ {x}) = k - 1
    BY <1>6, <1>7, <1>8, FS_RemoveElement
  <2>2. y \notin A \ {x}
    BY <1>8
  <2>3. IsFiniteSet(B) /\ Cardinality(B) = (k - 1) + 1
    BY <2>1, <2>2, FS_AddElement
  <2> QED BY <1>5, <1>8, <2>3
<1>10. ASSUME NEW C \in SUBSET class, IsFiniteSet(C), Cardinality(C) = k
       PROVE  all \cup C \in SUBSET Ranked(table) /\ CanGoThrough(table, advancing, all \cup C)
  <2>1. Cardinality(all \cup C) = advancing
    <3>1. Cardinality(all \cap C) = 0
      <4>1. all \cap C = {}
        BY <1>4
      <4> QED BY <4>1, FS_EmptySet
    <3>2. Cardinality(all \cup C) = Cardinality(all) + Cardinality(C) - Cardinality(all \cap C)
      BY <1>4, <1>10, FS_Union
    <3> QED BY <1>4, <1>5, <1>10, <3>1, <3>2
  <2>2. ASSUME NEW h \in DOMAIN table, NEW j \in DOMAIN table, h < j,
               (all \cup C) \cap table[j] # {}
        PROVE  table[h] \subseteq all \cup C
    <3>1. j <= i
      <4>1. CASE C \cap table[j] # {}
        <5>1. table[j] \cap table[i] # {}
          BY <4>1 DEF class
        <5> QED BY <1>2, <5>1 DEF IsTable
      <4>2. CASE all \cap table[j] # {}
        <5>1. PICK g \in 1..(i - 1) : table[g] \cap table[j] # {}
          BY <4>2 DEF all, Earlier
        <5>2. g \in 1..Len(table) /\ g <= i
          BY <1>2
        <5>3. g = j
          BY <1>2, <5>1, <5>2 DEF IsTable
        <5> QED BY <5>2, <5>3
      <4> QED BY <2>2, <4>1, <4>2
    <3>2. h \in 1..(i - 1)
      BY <1>2, <2>2, <3>1
    <3> QED BY <3>2 DEF all, Earlier
  <2>3. all \cup C \in SUBSET Ranked(table)
    BY <1>4
  <2>4. Cardinality(all \cup C) <= advancing /\ ~(Cardinality(all \cup C) < advancing)
    BY <2>1
  <2> HIDE DEF all
  <2> QED BY <2>2, <2>3, <2>4 DEF CanGoThrough
<1>11. all \cup A # all \cup B
  BY <1>4, <1>6, <1>8, <1>9
<1> HIDE DEF B
<1> QED BY <1>6, <1>7, <1>9, <1>10, <1>11 DEF LotsDecide

(* If the boundary is between two classes, those before it go through.     *)
LEMMA NoneBeyondTheBoundary ==
    ASSUME NEW table, IsTable(table), NEW k \in 1..(Len(table) + 1),
           NEW S \in SUBSET Ranked(table), CanGoThrough(table, Before(table, k), S)
    PROVE  S = Earlier(table, k)
<1> DEFINE all == Earlier(table, k)
<1>1. DOMAIN table = 1..Len(table) /\ Len(table) \in Nat
  BY DEF IsTable
<1>2. /\ IsFiniteSet(all) /\ Cardinality(all) = Before(table, k) /\ Cardinality(all) \in Nat
      /\ all \subseteq Ranked(table) /\ IsFiniteSet(Ranked(table))
  <2>1. Len(table) + 1 \in 1..(Len(table) + 1)
    BY <1>1
  <2> QED BY <2>1, ClassesFollow DEF Before, Ranked
<1>3. IsFiniteSet(S) /\ Cardinality(S) \in Nat /\ Cardinality(S) <= Cardinality(all)
  BY <1>2, FS_Subset, FS_CardinalityType DEF CanGoThrough
<1>4. CASE all \subseteq S
  <2>1. Cardinality(all) <= Cardinality(S)
    BY <1>3, <1>4, FS_Subset
  <2>2. Cardinality(S) = Cardinality(all)
    BY <1>2, <1>3, <2>1
  <2> QED BY <1>3, <1>4, <2>2, FS_Subset
<1>5. CASE ~(all \subseteq S)
  <2>1. S \subseteq all
    <3>1. ASSUME NEW x \in S, x \notin all PROVE FALSE
      <4>1. PICK j \in 1..Len(table) : x \in table[j]
        <5>1. (Len(table) + 1) - 1 = Len(table)
          BY <1>1
        <5> QED BY <5>1 DEF Ranked, Earlier
      <4>2. ~(j \in 1..(k - 1))
        BY <3>1, <4>1 DEF Earlier
      <4>3. ASSUME NEW i \in 1..(k - 1) PROVE table[i] \subseteq S
        <5>1. i < j /\ i \in DOMAIN table
          BY <1>1, <4>2
        <5>2. S \cap table[j] # {}
          BY <4>1
        <5> QED BY <1>1, <5>1, <5>2 DEF CanGoThrough
      <4> QED BY <1>5, <4>3 DEF Earlier
    <3> QED BY <3>1
  <2>2. Cardinality(S) # Cardinality(all)
    BY <1>2, <1>5, <2>1, FS_Subset
  <2>3. Cardinality(S) < Before(table, k)
    BY <1>2, <1>3, <2>2
  <2>4. S = Ranked(table)
    BY <2>3 DEF CanGoThrough
  <2> QED BY <1>2, <1>5, <2>4
<1> QED BY <1>4, <1>5

(* Whatever the table of a group, whose classes may be of any number and   *)
(* size, and whatever the number of places to go through: a lot is         *)
(* announced exactly when it decides who does (lotStraddlesBoundary).      *)
THEOREM LotsAreAnnounced ==
    ASSUME NEW table, IsTable(table), NEW advancing \in Nat
    PROVE  WarnsWhenLotsDecide(table, advancing)
<1> DEFINE n == Len(table)
<1>1. n \in Nat /\ DOMAIN table = 1..n
  BY DEF IsTable
<1>2. ASSUME LotsDecide(table, advancing), ~LotStraddlesBoundary(table, advancing) PROVE FALSE
  <2>1. PICK S \in SUBSET Ranked(table), T \in SUBSET Ranked(table) :
            /\ CanGoThrough(table, advancing, S) /\ CanGoThrough(table, advancing, T)
            /\ S # T
    BY <1>2 DEF LotsDecide
  <2> DEFINE beyond == {i \in 1..(n + 1) : Before(table, i) > advancing}
  <2>2. CASE beyond = {}
    <3>1. n + 1 \in 1..(n + 1) /\ ~(Before(table, n + 1) > advancing)
      BY <1>1, <2>2
    <3>2. /\ IsFiniteSet(Ranked(table)) /\ Cardinality(Ranked(table)) = Before(table, n + 1)
          /\ Before(table, n + 1) \in Nat
      BY <3>1, ClassesFollow DEF Ranked, Before
    <3>3. ASSUME NEW A \in SUBSET Ranked(table), CanGoThrough(table, advancing, A)
          PROVE  A = Ranked(table)
      <4>1. /\ Cardinality(A) <= Cardinality(Ranked(table)) /\ Cardinality(A) \in Nat
            /\ Cardinality(Ranked(table)) = Cardinality(A) => Ranked(table) = A
        BY <3>2, FS_Subset, FS_CardinalityType
      <4>2. CASE Cardinality(A) < advancing
        BY <3>3, <4>2 DEF CanGoThrough
      <4>3. CASE ~(Cardinality(A) < advancing)
        BY <3>1, <3>2, <4>1, <4>3
      <4> QED BY <4>2, <4>3
    <3> QED BY <2>1, <3>3
  <2>3. CASE beyond # {}
    <3>1. PICK k \in beyond : \A i \in beyond : k <= i
      <4>1. beyond \in SUBSET Nat
        OBVIOUS
      <4> HIDE DEF beyond
      <4> QED BY <2>3, <4>1, LeastNumber
    <3>2. Before(table, 1) = 0 /\ k # 1
      <4>1. Before(table, 1) = 0
        BY ClassesFollow
      <4> QED BY <4>1
    <3>3. PICK i \in 1..n : k = i + 1
      <4>1. k - 1 \in 1..n /\ k = (k - 1) + 1
        BY <1>1, <3>2
      <4> QED BY <4>1
    <3>4. /\ Before(table, i) \in Nat /\ Cardinality(table[i]) \in Nat \ {0}
          /\ Before(table, i) + Cardinality(table[i]) > advancing
          /\ i \in 1..(n + 1)
      <4>1. i \in 1..(n + 1)
        BY <1>1
      <4>2. Before(table, i + 1) > advancing
        BY <3>3
      <4> QED BY <4>1, <4>2, ClassesFollow
    <3>5. Before(table, i) <= advancing
      <4>1. ~(k <= i)
        BY <3>3
      <4>2. i \notin beyond
        BY <3>1, <4>1
      <4> QED BY <3>4, <4>2
    <3>6. CASE Before(table, i) = advancing
      <4>1. S = Earlier(table, i) /\ T = Earlier(table, i)
        BY <2>1, <3>4, <3>6, NoneBeyondTheBoundary
      <4> QED BY <2>1, <4>1
    <3>7. CASE Before(table, i) # advancing
      <4>1. Before(table, i) + 1 <= advancing /\ Cardinality(table[i]) > 1
        BY <3>4, <3>5, <3>7
      <4> QED BY <1>1, <1>2, <3>4, <4>1 DEF LotStraddlesBoundary
    <3> QED BY <3>6, <3>7
  <2> QED BY <2>2, <2>3
<1> QED BY <1>2, LotsCanDiffer DEF WarnsWhenLotsDecide

----------------------------------------------------------------------------
(* The matches of a bracket. *)

(* Each round has twice the matches of the next. *)
LEMMA RoundsHalve ==
    ASSUME NEW rounds \in Nat \ {0}
    PROVE  /\ \A k \in 1..rounds : MatchesIn(rounds, k) \in Nat \ {0}
           /\ \A k \in 1..(rounds - 1) : MatchesIn(rounds, k) = 2 * MatchesIn(rounds, k + 1)
           /\ \A k \in 1..rounds : MatchesIn(rounds, k) <= MatchesIn(rounds, 1)
<1> DEFINE n == rounds - 1
           R(f) == [k \in 0..n |-> IF k = 0 THEN 1 ELSE 2 * f[k - 1]]
           power == CHOOSE f : f = R(f)
<1>1. n \in Nat
  OBVIOUS
<1>2. \A k \in 1..rounds : MatchesIn(rounds, k) = power[rounds - k]
  BY DEF MatchesIn
<1>0. \A k \in 1..rounds : rounds - k \in 0..n
  BY <1>1
<1> HIDE DEF n
<1> DEFINE Unrolls(k, f) == /\ f \in [0..k -> Nat] /\ f[0] = 1
                            /\ \A i \in 1..k : f[i] = 2 * f[i - 1]
           T == {k \in 0..n : \E f : Unrolls(k, f)}
<1>3. 0 \in T
  <2>1. Unrolls(0, [i \in 0..0 |-> 1])
    OBVIOUS
  <2> HIDE DEF Unrolls
  <2> QED BY <1>1, <2>1
<1>4. ASSUME NEW k \in 1..n, k - 1 \in T PROVE k \in T
  <2>1. PICK f : Unrolls(k - 1, f)
    BY <1>4
  <2> DEFINE g == [i \in 0..k |-> IF i = k THEN 2 * f[k - 1] ELSE f[i]]
  <2>2. g \in [0..k -> Nat] /\ g[0] = 1
    <3>1. k - 1 \in 0..(k - 1) /\ k \in Nat \ {0}
      BY <1>1
    <3> QED BY <2>1, <3>1
  <2>3. ASSUME NEW i \in 1..k PROVE g[i] = 2 * g[i - 1]
    <3>1. CASE i = k
      <4>1. g[i] = 2 * f[k - 1] /\ g[i - 1] = f[k - 1]
        BY <1>1, <3>1
      <4> HIDE DEF g
      <4> QED BY <3>1, <4>1
    <3>2. CASE i # k
      <4>1. i \in 1..(k - 1) /\ g[i] = f[i] /\ g[i - 1] = f[i - 1]
        BY <1>1, <3>2
      <4> HIDE DEF g
      <4> QED BY <2>1, <4>1
    <3> QED BY <3>1, <3>2
  <2> HIDE DEF g
  <2>4. Unrolls(k, g)
    BY <2>2, <2>3
  <2> HIDE DEF Unrolls
  <2> QED BY <2>4
<1>5. PICK f : Unrolls(n, f)
  <2>1. T \in SUBSET (0..n)
    OBVIOUS
  <2> HIDE DEF T
  <2>2. 0..n \subseteq T
    BY <1>1, <1>3, <1>4, <2>1, StepByStep
  <2>3. n \in T
    BY <1>1, <2>2
  <2> QED BY <2>3 DEF T
<1>6. f = R(f)
  <2>1. ASSUME NEW i \in 0..n PROVE f[i] = R(f)[i]
    <3>1. i # 0 => i \in 1..n
      BY <1>1
    <3> QED BY <1>5, <3>1
  <2>2. f = [i \in 0..n |-> f[i]] /\ R(f) = [i \in 0..n |-> R(f)[i]]
    BY <1>5
  <2> HIDE DEF R, Unrolls
  <2> QED BY <2>1, <2>2
<1>7. power = R(power)
  <2> HIDE DEF R
  <2> QED BY <1>6
<1>8. power[0] = 1 /\ \A k \in 1..n : power[k] = 2 * power[k - 1]
  <2>1. \A k \in 0..n : power[k] = R(power)[k]
    BY <1>7
  <2> HIDE DEF power
  <2>2. 0 \in 0..n /\ \A k \in 1..n : k \in 0..n /\ k # 0
    BY <1>1
  <2> QED BY <2>1, <2>2
<1> HIDE DEF power
<1> DEFINE P == {k \in 0..n : power[k] \in Nat \ {0}}
<1>9. \A k \in 0..n : power[k] \in Nat \ {0}
  <2>1. 0 \in P /\ P \in SUBSET (0..n) /\ \A k \in 1..n : k - 1 \in P => k \in P
    BY <1>1, <1>8
  <2> HIDE DEF P
  <2>2. 0..n \subseteq P
    BY <1>1, <2>1, StepByStep
  <2> QED BY <2>2 DEF P
<1> DEFINE Q == {k \in 0..n : \A j \in 0..k : power[j] <= power[k]}
<1>10. \A k \in 0..n : \A j \in 0..k : power[j] <= power[k]
  <2>1. 0 \in Q
    BY <1>1, <1>8
  <2>2. ASSUME NEW k \in 1..n, k - 1 \in Q PROVE k \in Q
    <3>1. /\ k \in 0..n /\ k - 1 \in 0..n /\ power[k] = 2 * power[k - 1]
          /\ power[k - 1] \in Nat /\ power[k] \in Nat
      BY <1>1, <1>8, <1>9
    <3>2. ASSUME NEW j \in 0..k PROVE power[j] <= power[k]
      <4>1. CASE j = k
        BY <3>1, <4>1
      <4>2. CASE j # k
        <5>1. j \in 0..(k - 1) /\ j \in 0..n
          BY <1>1, <4>2
        <5>2. power[j] <= power[k - 1] /\ power[j] \in Nat
          BY <1>9, <2>2, <5>1
        <5> QED BY <3>1, <5>2
      <4> QED BY <4>1, <4>2
    <3> QED BY <3>1, <3>2
  <2>3. Q \in SUBSET (0..n)
    OBVIOUS
  <2> HIDE DEF Q
  <2>4. 0..n \subseteq Q
    BY <1>1, <2>1, <2>2, <2>3, StepByStep
  <2> QED BY <2>4 DEF Q
<1>11. ASSUME NEW k \in 1..(rounds - 1) PROVE MatchesIn(rounds, k) = 2 * MatchesIn(rounds, k + 1)
  <2>1. rounds - k \in 1..n /\ rounds - (k + 1) = (rounds - k) - 1
    BY DEF n
  <2>2. k \in 1..rounds /\ k + 1 \in 1..rounds
    OBVIOUS
  <2> QED BY <1>2, <1>8, <2>1, <2>2
<1>12. ASSUME NEW k \in 1..rounds PROVE MatchesIn(rounds, k) <= MatchesIn(rounds, 1)
  <2>1. rounds - k \in 0..n /\ rounds - 1 = n /\ n \in 0..n /\ 1 \in 1..rounds
    BY DEF n
  <2> QED BY <1>2, <1>10, <2>1
<1>13. \A k \in 1..rounds : MatchesIn(rounds, k) \in Nat \ {0}
  BY <1>0, <1>2, <1>9
<1> QED BY <1>11, <1>12, <1>13

(* In a bracket of any number of rounds, whoever stands where: no slot is  *)
(* fed twice and none after the first round waits for nobody, and a player *)
(* without an opponent stands in the slot his match feeds (planMatches).   *)
THEOREM EverySlotHasItsFeeder ==
    ASSUME NEW rounds \in Nat \ {0}, NEW places PROVE EverySlotIsFedOnce(rounds, places)
<1> DEFINE ids == MatchIds(rounds)
           Held(k) == MatchesIn(rounds, k)
<1>1. /\ \A k \in 1..rounds : Held(k) \in Nat \ {0} /\ Held(k) <= Held(1)
      /\ \A k \in 1..(rounds - 1) : Held(k) = 2 * Held(k + 1)
  BY RoundsHalve
<1>2. \A m : m \in ids <=> \E k \in 1..rounds : \E p \in 1..Held(k) : m = <<k, p>>
  <2>1. 1 \in 1..rounds
    OBVIOUS
  <2>2. ids = {m \in (1..rounds) \X (1..Held(1)) : m[2] <= Held(m[1])}
    BY DEF MatchIds
  <2> HIDE DEF ids, Held
  <2>3. ASSUME NEW k \in 1..rounds, NEW p \in 1..Held(k) PROVE p \in 1..Held(1) /\ p <= Held(k)
    BY <1>1, <2>1
  <2>4. ASSUME NEW k \in 1..rounds, NEW p \in 1..Held(1), p <= Held(k) PROVE p \in 1..Held(k)
    BY <1>1, <2>1, <2>4
  <2> QED BY <2>2, <2>3, <2>4
<1> HIDE DEF Held, ids
<1>3. ASSUME NEW m \in ids, NEW slot \in {1, 2}, m[1] > 1
      PROVE  \E f \in ids : {g \in ids : Feeds(rounds, g) = <<m, slot>>} = {f}
  <2>0. PICK k \in 2..rounds : \E p \in 1..Held(k) : m = <<k, p>>
    BY <1>2, <1>3
  <2>1. PICK p \in 1..Held(k) : m = <<k, p>>
    BY <2>0
  <2> DEFINE q == 2 * p - 2 + slot
             f == <<k - 1, q>>
  <2>2. /\ k - 1 \in 1..(rounds - 1) /\ k - 1 \in 1..rounds
        /\ Held(k - 1) = 2 * Held(k) /\ Held(k) \in Nat
    <3>1. k - 1 \in 1..(rounds - 1) /\ (k - 1) + 1 = k /\ k \in 1..rounds /\ k - 1 \in 1..rounds
      OBVIOUS
    <3> QED BY <1>1, <3>1
  <2>3. q \in 1..Held(k - 1)
    BY <2>2
  <2>4. f \in ids
    BY <1>2, <2>2, <2>3
  <2>5. (q + 1) \div 2 = p /\ (IF q % 2 = 1 THEN 1 ELSE 2) = slot
    <3>1. p \in Nat
      BY <2>2
    <3> QED BY <3>1
  <2>6. Feeds(rounds, f) = <<m, slot>>
    <3>1. f[1] = k - 1 /\ f[2] = q /\ k - 1 # rounds /\ (k - 1) + 1 = k
      BY <2>2
    <3> HIDE DEF q
    <3> QED BY <2>1, <2>5, <3>1 DEF Feeds
  <2>7. ASSUME NEW g \in ids, Feeds(rounds, g) = <<m, slot>> PROVE g = f
    <3>0. PICK j \in 1..rounds : \E r \in 1..Held(j) : g = <<j, r>>
      BY <1>2
    <3>1. PICK r \in 1..Held(j) : g = <<j, r>>
      BY <3>0
    <3>2. /\ j # rounds
          /\ <<<<j + 1, (r + 1) \div 2>>, IF r % 2 = 1 THEN 1 ELSE 2>> = <<<<k, p>>, slot>>
      <4>1. Feeds(rounds, g) =
              IF j = rounds THEN <<>>
              ELSE <<<<j + 1, (r + 1) \div 2>>, IF r % 2 = 1 THEN 1 ELSE 2>>
        BY <3>1 DEF Feeds
      <4>2. <<m, slot>> # <<>>
        OBVIOUS
      <4> QED BY <2>1, <2>7, <4>1, <4>2
    <3>3. j + 1 = k /\ (r + 1) \div 2 = p /\ (IF r % 2 = 1 THEN 1 ELSE 2) = slot
      BY <3>2
    <3>4. r \in Nat /\ j \in Nat /\ k \in Nat /\ p \in Nat
      BY <1>1, <2>2
    <3>5. j = k - 1 /\ r = q
      BY <3>3, <3>4
    <3> QED BY <3>1, <3>5
  <2> HIDE DEF f
  <2> QED BY <2>4, <2>6, <2>7
<1>4. ASSUME NEW m \in ids, m[1] < rounds, NEW to, to = Feeds(rounds, m)
      PROVE  /\ to[1] \in ids /\ to[2] \in {1, 2} /\ to[1][1] = m[1] + 1
             /\ PlayerOf(places, to[1], to[2]) = Walkover(places, m)
  <2>0. PICK k \in 1..(rounds - 1) : \E p \in 1..Held(k) : m = <<k, p>>
    BY <1>2, <1>4
  <2>1. PICK p \in 1..Held(k) : m = <<k, p>>
    BY <2>0
  <2>2. /\ Held(k) = 2 * Held(k + 1) /\ Held(k + 1) \in Nat \ {0}
        /\ k + 1 \in 1..rounds /\ p \in Nat
    <3>1. k + 1 \in 1..rounds /\ k \in 1..rounds
      OBVIOUS
    <3> QED BY <1>1, <3>1
  <2> DEFINE h == (p + 1) \div 2  s == IF p % 2 = 1 THEN 1 ELSE 2
  <2>3. to = <<<<k + 1, h>>, s>>
    BY <1>4, <2>1 DEF Feeds
  <2>4. h \in 1..Held(k + 1) /\ s \in {1, 2} /\ 2 * h - 2 + s = p
    BY <2>2
  <2>5. <<k + 1, h>> \in ids
    BY <1>2, <2>2, <2>4
  <2> HIDE DEF h, s
  <2>6. PlayerOf(places, <<k + 1, h>>, s) = Walkover(places, m)
    <3>1. CASE k = 1
      <4>1. PlayerOf(places, <<k + 1, h>>, s) = Walkover(places, <<1, 2 * h - 2 + s>>)
        BY <3>1 DEF PlayerOf
      <4> QED BY <2>1, <2>4, <3>1, <4>1
    <3>2. CASE k # 1
      <4>1. k + 1 # 1 /\ k + 1 # 2
        BY <3>2
      <4> QED BY <2>1, <3>2, <4>1 DEF PlayerOf, Walkover
    <3> QED BY <3>1, <3>2
  <2> QED BY <2>1, <2>3, <2>4, <2>5, <2>6
<1> QED BY <1>3, <1>4 DEF EverySlotIsFedOnce, ids
=============================================================================
