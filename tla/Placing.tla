------------------------------- MODULE Placing -------------------------------
(***************************************************************************)
(* Who stands where: the draw by the rules (draw.engine.ts), and the       *)
(* placing of those who come out of the groups (groups.engine.ts:          *)
(* placeQualifiers). Places are 0..size-1. Every lot the code throws is a  *)
(* choice of an action, so the behaviours are all that can come out. `at`  *)
(* is where those placed so far stand.                                     *)
(***************************************************************************)
EXTENDS Dealing, Bracket, Sequences, SequencesExt, FiniteSetsExt

CONSTANT MaxLots       \* bound: fields of more players are looked at, not drawn

DrawSize(count) == Min({s \in {2 ^ k : k \in 1..7} : s >= count})
MeetingRound(i, j) == Min({r \in 0..7 : i \div 2 ^ r = j \div 2 ^ r})

(* The classical order: which seed position i + 1 holds, for 2^k places.   *)
SeedOrder[k \in 0..7] ==
    IF k = 0 THEN <<1>>
    ELSE [i \in 1..(2 ^ k) |->
            IF i % 2 = 1 THEN SeedOrder[k - 1][(i + 1) \div 2]
            ELSE 2 ^ k + 1 - SeedOrder[k - 1][i \div 2]]
OrderOf(size) == SeedOrder[CHOOSE k \in 0..7 : 2 ^ k = size]

(* The place of part k, from 0: the lower one of the odd parts, the upper  *)
(* one of the even parts; flipped for those who come third.                *)
PartPos(size, parts, k, flip) ==
    IF (k % 2 = 0) # flip THEN ((k + 1) * size) \div parts - 1
                          ELSE (k * size) \div parts
GroupPositions(size, parts, flip) ==
    {PartPos(size, parts, k, flip) : k \in 0..(parts - 1)}

(* Mutant: each group is spread over twice as many parts.                  *)
SEED_GROUPS_FINER == <<[lo |-> 3, hi |-> 4, parts |-> 4], [lo |-> 5, hi |-> 8, parts |-> 8],
                       [lo |-> 9, hi |-> 16, parts |-> 16], [lo |-> 17, hi |-> 32, parts |-> 32]>>

(* Seeds and winners are placed by these groups: the parts they stand in.  *)
SEED_GROUPS == <<[lo |-> 3, hi |-> 4, parts |-> 2], [lo |-> 5, hi |-> 8, parts |-> 4],
                 [lo |-> 9, hi |-> 16, parts |-> 8], [lo |-> 17, hi |-> 32, parts |-> 16]>>
SeedGroup(r) == SEED_GROUPS[CHOOSE g \in 1..4 : r \in SEED_GROUPS[g].lo..SEED_GROUPS[g].hi]

(* Where number r of the order may stand: the top, the foot, or by lot a   *)
(* place of its group.                                                     *)
PlacesOf(r, size) ==
    CASE r = 1 -> {0}
      [] r = 2 -> {size - 1}
      [] OTHER -> GroupPositions(size, SeedGroup(r).parts, FALSE)

BYE_ORDER == <<<<1, 0>>, <<1, 2, 3, 0>>, <<1, 6, 5, 2, 3, 4, 7, 0>>,
               <<1, 14, 9, 6, 5, 10, 13, 2, 3, 12, 11, 4, 7, 8, 15, 0>>>>
Beside(p) == IF p % 2 = 0 THEN p + 1 ELSE p - 1
(* The r-th bye by the book: beside the place the book names.              *)
ByeNumber(size, r) ==
    CASE r = 1 -> 1
      [] r = 2 -> Beside(size - 1)
      [] OTHER ->
            LET g == CHOOSE g \in 1..4 : SEED_GROUPS[g] = SeedGroup(r)
            IN  Beside(PartPos(size, SeedGroup(r).parts,
                               BYE_ORDER[g][r - SeedGroup(r).lo + 1], FALSE))

ByePositions(size, count) ==
    LET book == {ByeNumber(size, r) : r \in 1..Min({count, 32})}
        more == {i \in 0..(size - 1) : i \notin book /\ OrderOf(size)[i + 1] > size - count}
    IN  book \cup {i \in more : Cardinality({j \in more : j < i}) < count - 32}

(* ---------------- The draw by the rules (drawByRules) ----------------   *)

(* Players are 1..n from the strongest down; job.org gives their regions.  *)
Size == DrawSize(job.n)
Byes == ByePositions(Size, Size - job.n)
DefaultSeedCount == Min({job.n, 32, Max({2, Size \div 4})})
(* Mutant: the seeds are not extended to those who have byes.              *)
SeedCountPlain == DefaultSeedCount
SeedCount ==
    IF Size - job.n > DefaultSeedCount
    THEN Min({job.n, Min({s \in {2, 4, 8, 16, 32} : s >= Size - job.n \/ s = 32})})
    ELSE DefaultSeedCount

Taken == {at[x] : x \in DOMAIN at}
(* Mutant: the others are drawn in the order of their strength.            *)
NextByStrength ==
    CHOOSE p \in 1..job.n \ DOMAIN at : \A q \in 1..job.n \ DOMAIN at : p <= q
(* The others are drawn from the largest organisation down.                *)
NextToDraw ==
    LET left == 1..job.n \ DOMAIN at
    IN  CHOOSE p \in left : \A q \in left :
            \/ OrgSize(job.org[p]) > OrgSize(job.org[q])
            \/ OrgSize(job.org[p]) = OrgSize(job.org[q]) /\ p <= q

(* How late p would first meet somebody of her organisation at place i.    *)
LateFor(p, i) ==
    LET mates == {q \in DOMAIN at : job.org[p] # NoOrg /\ job.org[q] = job.org[p]}
    IN  IF mates = {} THEN 0 ELSE Min({MeetingRound(i, at[q]) : q \in mates})
FreePlaces == (0..(Size - 1)) \ (Taken \cup Byes)

SeedsPlaced == 1..SeedCount \subseteq DOMAIN at
Put(who, pos) == at' = Also(at, who, pos)

PlaceSeed ==
    /\ job.kind = "draw" /\ ~SeedsPlaced
    /\ job.n <= MaxLots
    /\ LET r == Cardinality(DOMAIN at) + 1
       IN  \E pos \in PlacesOf(r, Size) \ Taken : Put(r, pos)
    /\ UNCHANGED job

(* The classical order of all players (placePlayers).                      *)
PlacePlayers == [p \in 1..job.n |->
                    (CHOOSE i \in 1..Size : OrderOf(Size)[i] = p) - 1]

DrawOther ==
    /\ job.kind = "draw" /\ SeedsPlaced
    /\ DOMAIN at # 1..job.n
    /\ LET p == NextToDraw
           best == Max({LateFor(p, i) : i \in FreePlaces})
       IN  IF Taken \cap Byes # {} THEN at' = PlacePlayers
           ELSE \E pos \in FreePlaces : LateFor(p, pos) = best /\ Put(p, pos)
    /\ UNCHANGED job

(* ---------------- From the groups (placeQualifiers) ----------------     *)

(* A qualifier is <<group, place>>; job.groups groups send job.advancing.  *)
Qualifiers == (1..job.groups) \X (1..job.advancing)
QSize == DrawSize(Cardinality(Qualifiers))
QByes == ByePositions(QSize, QSize - Cardinality(Qualifiers))
WinnersPlaced == \A g \in 1..job.groups : <<g, 1>> \in DOMAIN at

HalfOf(p) == p \div (QSize \div 2)
(* The code divides by size / 4, which is a half when size is 2.           *)
Quarter(p) == (4 * p) \div QSize

Parts(place) ==
    LET G == Min({s \in {2, 4, 8, 16, 32} : s >= job.groups})
    IN  Min({QSize, IF place = 4 THEN Max({8, 2 * G}) ELSE Max({4, G})})
Candidates(place) == GroupPositions(QSize, Parts(place), place = 3)

If(c, v) == IF c THEN v ELSE 0
(* Mutant: the other half weighs less than a marked place.                 *)
WorthOfMarks(q, p) ==
    LET mates == {at[x] : x \in {x \in DOMAIN at : x[1] = q[1]}} IN
    If(p \in Candidates(q[2]), 500) + 10 * Min({MeetingRound(p, m) : m \in mates})
Worth(q, p) ==
    LET mates == {at[x] : x \in {x \in DOMAIN at : x[1] = q[1]}}
        w == at[<<q[1], 1>>]
    IN  If(q[2] = 2 /\ HalfOf(p) # HalfOf(w), 1000)
      + If(q[2] >= 3 /\ HalfOf(p) = HalfOf(w), 200)
      + If(q[2] >= 3 /\ \A m \in mates : Quarter(m) # Quarter(p), 100)
      + If(p \in Candidates(q[2]), 500)
      + 10 * Min({MeetingRound(p, m) : m \in mates})

PlaceWinner ==
    /\ job.kind = "qualify" /\ ~WinnersPlaced
    /\ LET g == Cardinality(DOMAIN at) + 1
       IN  \E pos \in PlacesOf(g, QSize) \ Taken : Put(<<g, 1>>, pos)
    /\ UNCHANGED job

(* Mutant: byes are open to those who come after the winners.              *)
OpenToAll == (0..(QSize - 1)) \ Taken
Open == (0..(QSize - 1)) \ (Taken \cup QByes)

(* Places 2, 3, 4 and on one after the other, the groups of a place by lot.*)
PlaceFollower ==
    /\ job.kind = "qualify" /\ WinnersPlaced
    /\ \E q \in Qualifiers \ DOMAIN at, p \in Open :
          /\ \A x \in Qualifiers \ DOMAIN at : q[2] <= x[2]
          /\ q[2] <= 4 => \A i \in Open : Worth(q, i) <= Worth(q, p)
          /\ Put(q, p)
    /\ UNCHANGED job

Next == PlaceSeed \/ DrawOther \/ PlaceWinner \/ PlaceFollower \/ DealRow

(* ---------------- Who stands in the bracket (planMatches) ---------------*)

Placed == \/ job.kind = "draw" /\ DOMAIN at = 1..job.n
          \/ job.kind = "qualify" /\ DOMAIN at = Qualifiers
BracketSize == IF job.kind = "draw" THEN Size ELSE QSize
StandsAt(i) == IF i \in Taken THEN CHOOSE x \in DOMAIN at : at[x] = i ELSE NoOne
Rounds == CHOOSE r \in 1..7 : 2 ^ r = BracketSize
=============================================================================
