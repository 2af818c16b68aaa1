----------------------------- MODULE GroupResult -----------------------------
(***************************************************************************)
(* What the result of a group match counts (groups.engine.ts: normalize),  *)
(* and the fractions by which the tied are compared (cmpFrac).             *)
(***************************************************************************)
EXTENDS Integers, Sequences, FiniteSets, FiniteSetsExt

CONSTANT SetPoints   \* points of a set given to the winner of a walkover

ASSUME SetPointsAssumption == SetPoints \in Nat \ {0, 1}

(* A result is [a, b, kind, aWon, sets, partial, bestOf]: two players, one *)
(* of NONE, PLAYED, FORFEIT, the full sets and the unfinished one.         *)
SetsOf(m, Won(_)) == Cardinality({i \in DOMAIN m.sets : Won(m.sets[i])})
RallyOf(m, s) ==
    LET rally[i \in 0..Len(m.sets)] == IF i = 0 THEN 0 ELSE rally[i - 1] + m.sets[i][s]
    IN  rally[Len(m.sets)]

(* Points, sets and rally points of one match: p by match points of a and  *)
(* of b, s and r likewise.                                                 *)
Zero == [p |-> <<0, 0>>, s |-> <<0, 0>>, r |-> <<0, 0>>]
(* Mutant: the sets are written to the other player.                       *)
FromSetsOther(m) == [p |-> <<IF m.aWon THEN 2 ELSE 1, IF m.aWon THEN 1 ELSE 2>>,
                     s |-> <<SetsOf(m, LAMBDA x : x[1] <= x[2]), SetsOf(m, LAMBDA x : x[1] > x[2])>>,
                     r |-> <<RallyOf(m, 1), RallyOf(m, 2)>>]
FromSets(m) == [p |-> <<IF m.aWon THEN 2 ELSE 1, IF m.aWon THEN 1 ELSE 2>>,
                s |-> <<SetsOf(m, LAMBDA x : x[1] > x[2]), SetsOf(m, LAMBDA x : x[1] <= x[2])>>,
                r |-> <<RallyOf(m, 1), RallyOf(m, 2)>>]
Need(m) == (m.bestOf + 1) \div 2
(* Mutant: the loser keeps the points of the set begun, the winner as well.*)
ForfeitAsItStands(m) ==
    LET w == IF m.aWon THEN 1 ELSE 2
        full == FromSets(m)
        left == Need(m) - full.s[w]
    IN  [p |-> [x \in 1..2 |-> IF x = w THEN 2 ELSE 0],
         s |-> [full.s EXCEPT ![w] = @ + left],
         r |-> [full.r EXCEPT ![w] = @ + m.partial[w] + left * SetPoints,
                              ![3 - w] = @ + m.partial[3 - w]]]
(* A player who did not come or did not finish keeps the points made; the  *)
(* winner w gets what is missing of the set begun and every other set to   *)
(* nil, beside the full sets.                                              *)
Awarded(m, w, full) ==
    LET begun == IF m.partial = <<0, 0>> THEN 0 ELSE 1
        lost == m.partial[3 - w]
        left == Max({0, Need(m) - full.s[w] - begun})
    IN  [p |-> [x \in 1..2 |-> IF x = w THEN 2 ELSE 0],
         s |-> [full.s EXCEPT ![w] = @ + begun + left],
         r |-> [full.r EXCEPT ![w] = @ + begun * Max({SetPoints, lost + 2}) + SetPoints * left,
                              ![3 - w] = @ + lost]]
Forfeit(m) == Awarded(m, IF m.aWon THEN 1 ELSE 2, FromSets(m))
Normalized(m) ==
    CASE m.kind = "NONE" -> Zero
      [] m.kind = "PLAYED" -> FromSets(m)
      [] OTHER -> Forfeit(m)

(* Mutant: fractions are compared by their products alone.                 *)
CmpProducts(x, y) == x[1] * y[2] - y[1] * x[2]
(* Whether fraction x is better (> 0), worse or the same as y; a zero      *)
(* denominator is infinite.                                                *)
CmpFrac(x, y) ==
    CASE x[2] = 0 /\ y[2] = 0 -> x[1] - y[1]
      [] x[2] = 0 /\ y[2] # 0 -> IF x[1] > 0 THEN 1 ELSE -1
      [] x[2] # 0 /\ y[2] = 0 -> IF y[1] > 0 THEN -1 ELSE 1
      [] OTHER -> x[1] * y[2] - y[1] * x[2]

----------------------------------------------------------------------------
(* Sets that may be full, and a set that is not over.                      *)
FullSet(x) == x[1] # x[2]
Unfinished(pt) == \A s \in {1, 2} : pt[s] < SetPoints \/ pt[s] - pt[3 - s] < 2
SetsWon(m, s) == Cardinality({i \in DOMAIN m.sets : m.sets[i][s] > m.sets[i][3 - s]})
(* A match that one player did not come to, or did not finish.             *)
GivenUp(m) ==
    /\ m.kind = "FORFEIT" /\ m.aWon \in BOOLEAN /\ m.bestOf \in Nat
    /\ m.sets \in Seq(Nat \X Nat) /\ \A i \in DOMAIN m.sets : FullSet(m.sets[i])
    /\ \A s \in {1, 2} : SetsWon(m, s) < Need(m)
    /\ m.partial \in Nat \X Nat /\ Unfinished(m.partial)

(* It counts as the shortest legal match its winner could still have won   *)
(* without another point to the loser (normalize).                         *)
Legal(w, l) == w >= SetPoints /\ w - l >= 2 /\ (w > SetPoints => w - l = 2)
CountsAsShortestWin(m) ==
    LET w == IF m.aWon THEN 1 ELSE 2
        l == 3 - w
        norm == Normalized(m)
        toWin == Need(m) - SetsWon(m, w)
        first == Min({x \in m.partial[w]..(m.partial[l] + SetPoints + 2) :
                         Legal(x, m.partial[l])})
    IN  /\ norm.p[w] = 2 /\ norm.p[l] = 0
        /\ norm.s[w] = Need(m) /\ norm.s[l] = SetsWon(m, l)
        /\ norm.r[w] = RallyOf(m, w) + first + (toWin - 1) * SetPoints
        /\ norm.r[l] = RallyOf(m, l) + m.partial[l]

(* Fractions are ordered whatever their denominators: none is both better  *)
(* and worse, and the order is transitive, ties included; what sorting and *)
(* splitting into classes depend on (cmpFrac).                             *)
AreOrdered(x, y, z) ==
    /\ CmpFrac(x, y) > 0 <=> CmpFrac(y, x) < 0
    /\ CmpFrac(x, y) >= 0 /\ CmpFrac(y, z) >= 0 => CmpFrac(x, z) >= 0
=============================================================================
