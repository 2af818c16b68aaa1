----------------------- MODULE ScoreboardBridgeProofs -----------------------
(***************************************************************************)
(* From the score engine to the scoreboard and back.  In this order: the   *)
(* plan of a replay, whose points lead to the sets that were sent; a match *)
(* through the engine, which keeps the rules; the results a site takes,    *)
(* which are the whole matches and no others; and what holds of the bridge *)
(* between a court and the site, for any matches, results, number of calls *)
(* at work, failures and restarts.                                         *)
(***************************************************************************)
EXTENDS ScoreboardBridge, SentResult, FiniteSetTheorems, SequenceTheorems,
        WellFoundedInduction, TLAPS

----------------------------------------------------------------------------
(* The plan of a replay: its points lead from nothing to the sets sent.    *)

LEMMA LeastNumber ==
    ASSUME NEW T \in SUBSET Nat, T # {}
    PROVE  \E x \in T : \A y \in T : x <= y
<1> DEFINE R == OpToRel(<, Nat)
<1>1. IsWellFoundedOn(R, Nat)
  BY NatLessThanWellFounded
<1>2. \A x, y \in Nat : x < y => <<x, y>> \in R
  BY DEF OpToRel
<1> HIDE DEF R
<1>3. PICK x \in T : \A y \in T : ~(<<y, x>> \in R)
  BY <1>1, WFMin
<1>4. ASSUME NEW y \in T PROVE x <= y
  <2>1. ~(y < x)
    BY <1>2, <1>3
  <2>2. x \in Nat /\ y \in Nat
    OBVIOUS
  <2> QED BY <2>1, <2>2
<1> QED BY <1>4

(* What holds at nothing, and one step on wherever it holds, holds up to n.*)
LEMMA StepByStep ==
    ASSUME NEW n \in Nat, NEW T \in SUBSET (0..n), 0 \in T, \A i \in 1..n : i - 1 \in T => i \in T
    PROVE  0..n \subseteq T
<1> SUFFICES ASSUME NEW j \in 0..n, j \notin T PROVE FALSE
  OBVIOUS
<1> DEFINE missed == {i \in 0..n : i \notin T}
<1>1. missed \in SUBSET Nat /\ missed # {}
  OBVIOUS
<1>2. PICK x \in missed : \A y \in missed : x <= y
  BY <1>1, LeastNumber
<1>3. x \in 1..n /\ x \notin T
  BY <1>2
<1>4. x - 1 \in 0..n /\ ~(x <= x - 1)
  BY <1>3
<1>5. x - 1 \in T
  BY <1>2, <1>4
<1> QED BY <1>3, <1>5

(* What has been played, and a recursion over it has a solution.           *)
Played == [ok : BOOLEAN, st : Score, all : Seq(Slot)]

Steps(n) == [1..n -> [Played -> Played]]
Solves(base, n, g, f) ==
    f \in [0..n -> Played] /\ f[0] = base /\ \A i \in 1..n : f[i] = g[i][f[i - 1]]

LEMMA Unfolds ==
    ASSUME NEW base \in Played, NEW n \in Nat, NEW g \in Steps(n)
    PROVE  \E f : Solves(base, n, g, f)
<1> DEFINE T == {k \in 0..n : \E f : Solves(base, k, g, f)}
<1>1. 0 \in T
  <2>1. Solves(base, 0, g, [i \in 0..0 |-> base])
    BY DEF Solves
  <2> QED BY <2>1
<1>2. ASSUME NEW k \in 1..n, k - 1 \in T PROVE k \in T
  <2>1. PICK f : Solves(base, k - 1, g, f)
    BY <1>2
  <2> DEFINE h == [i \in 0..k |-> IF i = k THEN g[k][f[k - 1]] ELSE f[i]]
  <2>2. f[k - 1] \in Played /\ g[k][f[k - 1]] \in Played
    BY <2>1 DEF Solves, Steps
  <2>3. h \in [0..k -> Played] /\ h[0] = base
    BY <2>1, <2>2 DEF Solves
  <2>4. ASSUME NEW i \in 1..k PROVE h[i] = g[i][h[i - 1]]
    <3>1. CASE i = k
      <4>1. h[i] = g[k][f[k - 1]] /\ h[i - 1] = f[k - 1]
        BY <3>1
      <4> HIDE DEF h
      <4> QED BY <3>1, <4>1
    <3>2. CASE i # k
      <4>1. i \in 1..(k - 1) /\ h[i] = f[i] /\ h[i - 1] = f[i - 1]
        BY <3>2
      <4> HIDE DEF h
      <4> QED BY <2>1, <4>1 DEF Solves
    <3> QED BY <3>1, <3>2
  <2> HIDE DEF h
  <2>5. Solves(base, k, g, h)
    BY <2>3, <2>4 DEF Solves
  <2> QED BY <2>5
<1>3. n \in T
  <2>1. T \in SUBSET (0..n)
    OBVIOUS
  <2> HIDE DEF T
  <2>2. 0..n \subseteq T
    BY <1>1, <1>2, <2>1, StepByStep
  <2> QED BY <2>2
<1> QED BY <1>3

(* A point makes one more set, or one more point of the running one.       *)
PointIn(st, s) == [st.cur EXCEPT ![s] = @ + 1]

LEMMA PointMakes ==
    ASSUME NEW st \in Score, NEW b \in Nat \ {0}, NEW s \in Slot
    PROVE  LET cur == PointIn(st, s) IN
           /\ cur \in SetScore /\ ApplyPoint(st, b, s) \in Score
           /\ IF IsSetWon(cur)
              THEN /\ ApplyPoint(st, b, s).sets = Append(st.sets, cur)
                   /\ ApplyPoint(st, b, s).cur = NoPoints
              ELSE /\ ApplyPoint(st, b, s).sets = st.sets
                   /\ ApplyPoint(st, b, s).cur = cur
<1> DEFINE cur == PointIn(st, s)
           won == [st.won EXCEPT ![Leader(cur)] = @ + 1]
<1>1. cur \in SetScore
  BY DEF PointIn, Score, SetScore, Slot
<1>2. Leader(cur) \in Slot /\ Leader(won) \in Slot
  BY DEF Leader, Slot
<1>3. won \in SetScore
  BY <1>2 DEF Score, SetScore, Slot
<1>4. Append(st.sets, cur) \in Seq(SetScore)
  BY <1>1 DEF Score
<1>5. CASE ~IsSetWon(cur)
  <2>1. ApplyPoint(st, b, s) = [st EXCEPT !.status = "LIVE", !.cur = cur]
    BY <1>5 DEF ApplyPoint, PointIn
  <2> QED
    BY <2>1, <1>1, <1>5 DEF Score, Status
<1>6. CASE IsSetWon(cur)
  <2> DEFINE decided == \E x \in Slot : won[x] >= SetsToWin(b)
  <2>1. ApplyPoint(st, b, s) =
          [status |-> IF decided THEN "FINISHED" ELSE "LIVE",
           cur |-> NextSet(cur), sets |-> Append(st.sets, cur), won |-> won,
           winnerSlot |-> IF decided THEN Leader(won) ELSE 0]
    BY <1>6 DEF ApplyPoint, PointIn
  <2>2. NextSet(cur) = NoPoints /\ NoPoints \in SetScore
    BY DEF NextSet, NoPoints, SetScore
  <2> HIDE DEF decided, won
  <2> QED
    BY <2>1, <2>2, <1>1, <1>2, <1>3, <1>4, <1>6 DEF Score, Status
<1> QED
  BY <1>5, <1>6

(* The score of a set after the first i points of its order.               *)
Count(set, i) ==
    LET lo == set[Opp(Leader(set))] IN
    [s \in Slot |->
        IF i > 2 * lo THEN IF s = Leader(set) THEN i - lo ELSE lo
        ELSE IF s = 1 THEN (i + 1) \div 2 ELSE i \div 2]

LEMMA OrderOfSet ==
    ASSUME NEW set \in SetScore
    PROVE  /\ SetOrder(set) \in Seq(Slot) /\ Len(SetOrder(set)) = set[1] + set[2]
           /\ Count(set, 0) = NoPoints /\ Count(set, set[1] + set[2]) = set
           /\ \A i \in 1..(set[1] + set[2]) :
                 Count(set, i) = [Count(set, i - 1) EXCEPT ![SetOrder(set)[i]] = @ + 1]
<1> DEFINE w == Leader(set)  l == Opp(Leader(set))  lo == set[l]  n == set[1] + set[2]
<1>1. /\ set[1] \in Nat /\ set[2] \in Nat /\ DOMAIN set = {1, 2}
      /\ set = [s \in {1, 2} |-> set[s]]
  BY DEF SetScore, Slot
<1>2. \/ w = 1 /\ l = 2 /\ set[2] < set[1]
      \/ w = 2 /\ l = 1 /\ set[1] <= set[2]
  BY <1>1 DEF Leader, Opp
<1>3. n \in Nat /\ lo \in Nat /\ 2 * lo <= n /\ n - lo = set[w]
  BY <1>1, <1>2
<1> HIDE DEF lo, n, w, l
<1>4. SetOrder(set) = [i \in 1..n |-> IF i > 2 * lo THEN w ELSE IF i % 2 = 1 THEN 1 ELSE 2]
  BY DEF SetOrder, lo, n, w, l
<1>5. w \in Slot
  BY <1>2 DEF Slot
<1>6. SetOrder(set) \in [1..n -> Slot]
  BY <1>4, <1>5 DEF Slot
<1>7. SetOrder(set) \in Seq(Slot) /\ Len(SetOrder(set)) = n
  BY <1>3, <1>4, <1>6
<1>8. \A i : Count(set, i) = [s \in {1, 2} |->
                                 IF i > 2 * lo THEN IF s = w THEN i - lo ELSE lo
                                 ELSE IF s = 1 THEN (i + 1) \div 2 ELSE i \div 2]
  BY DEF Count, lo, w, l, Slot
<1>9. Count(set, 0) = NoPoints
  BY <1>3, <1>8 DEF NoPoints, Slot
<1>10. Count(set, n) = set
  <2>1. CASE n > 2 * lo
    <3>1. Count(set, n) = [s \in {1, 2} |-> IF s = w THEN n - lo ELSE lo]
      BY <1>8, <2>1
    <3>2. \A s \in {1, 2} : set[s] = IF s = w THEN n - lo ELSE lo
      BY <1>2, <1>3 DEF lo
    <3> QED BY <1>1, <3>1, <3>2
  <2>2. CASE ~(n > 2 * lo)
    <3>1. n = 2 * lo /\ set[1] = lo /\ set[2] = lo
      <4>1. n = 2 * lo /\ set[w] = lo
        BY <1>1, <1>2, <1>3, <2>2
      <4>2. set[l] = lo
        BY DEF lo
      <4> QED BY <1>2, <4>1, <4>2
    <3>2. (n + 1) \div 2 = lo /\ n \div 2 = lo
      BY <1>3, <3>1
    <3>3. Count(set, n) = [s \in {1, 2} |-> lo]
      BY <1>8, <2>2, <3>2
    <3>4. \A s \in {1, 2} : set[s] = lo
      BY <3>1
    <3> QED BY <1>1, <3>3, <3>4
  <2> QED BY <2>1, <2>2
<1>11. ASSUME NEW i \in 1..n
       PROVE  Count(set, i) = [Count(set, i - 1) EXCEPT ![SetOrder(set)[i]] = @ + 1]
  <2>1. i \in Nat /\ i - 1 \in Nat
    BY <1>3
  <2>2. DOMAIN Count(set, i - 1) = {1, 2} /\ SetOrder(set)[i] \in {1, 2}
    BY <1>6, <1>8 DEF Slot
  <2>3. CASE i > 2 * lo
    <3>1. SetOrder(set)[i] = w
      BY <1>4, <2>3
    <3>2. Count(set, i) = [s \in {1, 2} |-> IF s = w THEN i - lo ELSE lo]
      BY <1>8, <2>3
    <3>3. Count(set, i - 1) = [s \in {1, 2} |-> IF s = w THEN i - 1 - lo ELSE lo]
      <4>1. CASE i - 1 > 2 * lo
        BY <1>8, <4>1
      <4>2. CASE ~(i - 1 > 2 * lo)
        <5>1. i - 1 = 2 * lo
          BY <1>3, <2>1, <2>3, <4>2
        <5>2. (i - 1 + 1) \div 2 = lo /\ (i - 1) \div 2 = lo /\ i - 1 - lo = lo
          BY <1>3, <2>1, <5>1
        <5>3. Count(set, i - 1) = [s \in {1, 2} |-> lo]
          BY <1>8, <4>2, <5>2
        <5> QED BY <5>2, <5>3
      <4> QED BY <4>1, <4>2
    <3>4. i - 1 - lo + 1 = i - lo
      BY <1>3, <2>1
    <3> QED BY <1>2, <3>1, <3>2, <3>3, <3>4
  <2>4. CASE ~(i > 2 * lo)
    <3>1. /\ Count(set, i) = [s \in {1, 2} |-> IF s = 1 THEN (i + 1) \div 2 ELSE i \div 2]
          /\ SetOrder(set)[i] = IF i % 2 = 1 THEN 1 ELSE 2
      BY <1>4, <1>8, <2>4
    <3>2. ~(i - 1 > 2 * lo) /\ i - 1 + 1 = i
      BY <1>3, <2>1, <2>4
    <3>3. Count(set, i - 1) = [s \in {1, 2} |-> IF s = 1 THEN i \div 2 ELSE (i - 1) \div 2]
      BY <1>8, <3>2
    <3>4. CASE i % 2 = 1
      <4>1. (i + 1) \div 2 = i \div 2 + 1 /\ i \div 2 = (i - 1) \div 2
        BY <2>1, <3>4
      <4> QED BY <3>1, <3>3, <3>4, <4>1
    <3>5. CASE i % 2 # 1
      <4>1. (i + 1) \div 2 = i \div 2 /\ i \div 2 = (i - 1) \div 2 + 1
        BY <2>1, <3>5
      <4> QED BY <3>1, <3>3, <3>5, <4>1
    <3> QED BY <3>4, <3>5
  <2> QED BY <2>3, <2>4
<1> QED BY <1>7, <1>9, <1>10, <1>11 DEF n

(* Points that lead from nothing through scores, none after the end.       *)
Leads(order, b, tr) ==
    /\ tr \in [0..Len(order) -> Score] /\ tr[0] = InitialState
    /\ \A i \in 1..Len(order) : /\ tr[i - 1].status # "FINISHED"
                                /\ tr[i] = ApplyPoint(tr[i - 1], b, order[i])

Reached(p, b) == \E tr : Leads(p.all, b, tr) /\ tr[Len(p.all)] = p.st
(* These sets have been played, and nothing more. *)
HasPlayed(p, b, sets) ==
    /\ p \in Played
    /\ p.ok => p.st.sets = sets /\ p.st.cur = NoPoints /\ Reached(p, b)

LEMMA OnePointMore ==
    ASSUME NEW order \in Seq(Slot), NEW b \in Nat \ {0}, NEW tr, Leads(order, b, tr),
           tr[Len(order)].status # "FINISHED", NEW s \in Slot
    PROVE  \E longer : /\ Leads(Append(order, s), b, longer)
                       /\ longer[Len(Append(order, s))] = ApplyPoint(tr[Len(order)], b, s)
<1> DEFINE n == Len(order)
           st == ApplyPoint(tr[n], b, s)
           longer == [i \in 0..(n + 1) |-> IF i = n + 1 THEN st ELSE tr[i]]
<1>1. /\ n \in Nat /\ Len(Append(order, s)) = n + 1 /\ Append(order, s)[n + 1] = s
      /\ \A i \in 1..n : Append(order, s)[i] = order[i]
  OBVIOUS
<1>2. tr[n] \in Score
  BY <1>1 DEF Leads
<1>3. st \in Score
  BY <1>2, PointMakes
<1> HIDE DEF st
<1>4. longer \in [0..(n + 1) -> Score]
  BY <1>1, <1>3 DEF Leads
<1>5. longer[0] = InitialState /\ longer[n + 1] = st
  BY <1>1 DEF Leads
<1>6. ASSUME NEW i \in 1..(n + 1)
      PROVE  /\ longer[i - 1].status # "FINISHED"
             /\ longer[i] = ApplyPoint(longer[i - 1], b, Append(order, s)[i])
  <2>1. CASE i = n + 1
    <3>1. longer[i] = st /\ longer[i - 1] = tr[n]
      BY <1>1, <2>1
    <3> QED BY <1>1, <2>1, <3>1 DEF st
  <2>2. CASE i # n + 1
    <3>1. i \in 1..n /\ longer[i] = tr[i] /\ longer[i - 1] = tr[i - 1]
      BY <1>1, <2>2
    <3> QED BY <1>1, <3>1 DEF Leads
  <2> QED BY <2>1, <2>2
<1> HIDE DEF longer
<1>7. Leads(Append(order, s), b, longer)
  BY <1>1, <1>4, <1>5, <1>6 DEF Leads
<1> QED BY <1>1, <1>5, <1>7 DEF st

(* The i-th point of a set of n. *)
PointOf(p, b, s, i, n) == TakePoint(p, b, s, i = n)

LEMMA PointTaken ==
    ASSUME NEW p \in Played, NEW b \in Nat \ {0}, NEW s \in Slot, NEW i \in Nat, NEW n \in Nat
    PROVE  LET q == PointOf(p, b, s, i, n) IN
           /\ q \in Played
           /\ q.ok => /\ p.ok /\ q.st = ApplyPoint(p.st, b, s)
                      /\ i = n <=> Len(q.st.sets) > Len(p.st.sets)
                      /\ Reached(p, b) => Reached(q, b)
<1> DEFINE next == ApplyPoint(p.st, b, s)
           q == PointOf(p, b, s, i, n)
<1>1. p.st \in Score /\ p.all \in Seq(Slot) /\ p.ok \in BOOLEAN
  BY DEF Played
<1>2. next \in Score
  BY <1>1, PointMakes
<1>3. CASE ~p.ok \/ p.st.status = "FINISHED"
  <2>1. q = [p EXCEPT !.ok = FALSE]
    BY <1>3 DEF TakePoint, PointOf
  <2> QED BY <2>1 DEF Played
<1>4. CASE p.ok /\ p.st.status # "FINISHED"
  <2> DEFINE ends == EndsAtLast(Len(next.sets) > Len(p.st.sets), i = n)
  <2>1. q = [ok |-> ends, st |-> next, all |-> Append(p.all, s)]
    BY <1>4 DEF TakePoint, PointOf
  <2>2. ends \in BOOLEAN /\ (ends => (i = n <=> Len(next.sets) > Len(p.st.sets)))
    BY DEF EndsAtLast
  <2>3. Append(p.all, s) \in Seq(Slot)
    BY <1>1
  <2> HIDE DEF next, ends
  <2>4. q \in Played /\ q.st = next /\ q.ok = ends /\ q.all = Append(p.all, s)
    BY <1>2, <2>1, <2>2, <2>3 DEF Played
  <2>5. ASSUME Reached(p, b) PROVE Reached(q, b)
    <3>1. PICK tr : Leads(p.all, b, tr) /\ tr[Len(p.all)] = p.st
      BY <2>5 DEF Reached
    <3>2. \E longer : /\ Leads(Append(p.all, s), b, longer)
                      /\ longer[Len(Append(p.all, s))] = next
      BY <1>1, <1>4, <3>1, OnePointMore DEF next
    <3> QED BY <2>4, <3>2 DEF Reached
  <2> QED BY <1>4, <2>2, <2>4, <2>5 DEF next
<1> QED BY <1>1, <1>3, <1>4

(* The points of a set, one after the other, and what they end in.         *)
Course(p, b, set, f) ==
    LET order == SetOrder(set)  n == Len(order) IN
    /\ f \in [0..n -> Played]
    /\ f[0] = [p EXCEPT !.ok = @ /\ order # <<>>]
    /\ \A i \in 1..n : f[i] = PointOf(f[i - 1], b, order[i], i, n)
    /\ f[n] = PlaySet(p, b, set)

LEMMA SetUnfolds ==
    ASSUME NEW p \in Played, NEW b \in Nat \ {0}, NEW set \in SetScore
    PROVE  \E f : Course(p, b, set, f)
<1> DEFINE order == SetOrder(set)
           n == Len(order)
           base == [p EXCEPT !.ok = @ /\ order # <<>>]
           R(f) == [i \in 0..n |-> IF i = 0 THEN base
                                   ELSE TakePoint(f[i - 1], b, order[i], i = n)]
           after == CHOOSE f : f = R(f)
           g == [i \in 1..n |-> [x \in Played |-> TakePoint(x, b, order[i], i = n)]]
<1>1. PlaySet(p, b, set) = after[n]
  BY DEF PlaySet
<1>2. /\ order \in Seq(Slot) /\ n \in Nat /\ n = set[1] + set[2]
      /\ \A i \in 1..n : order[i] \in Slot
  BY OrderOfSet
<1>3. base \in Played /\ base.st = p.st /\ base.all = p.all /\ (base.ok => p.ok /\ n > 0)
  <2>1. order # <<>> => n > 0
    BY <1>2
  <2> HIDE DEF order
  <2> QED BY <2>1 DEF Played
<1> HIDE DEF order, base
<1>4. g \in Steps(n)
  <2> SUFFICES ASSUME NEW i \in 1..n, NEW x \in Played
               PROVE  PointOf(x, b, order[i], i, n) \in Played
    BY DEF Steps, PointOf
  <2>1. order[i] \in Slot /\ i \in Nat
    BY <1>2
  <2> QED BY <1>2, <2>1, PointTaken
<1> HIDE DEF n
<1>5. PICK f : Solves(base, n, g, f)
  <2> HIDE DEF g
  <2> QED BY <1>2, <1>3, <1>4, Unfolds
<1>6. f = R(f)
  <2>1. \A i \in 1..n : f[i] = TakePoint(f[i - 1], b, order[i], i = n)
    <3> TAKE i \in 1..n
    <3>1. i - 1 \in 0..n
      BY <1>2
    <3>2. f[i - 1] \in Played
      BY <1>5, <3>1 DEF Solves
    <3> QED BY <1>5, <3>2 DEF Solves
  <2>2. f = [i \in 0..n |-> f[i]]
    BY <1>5 DEF Solves
  <2>3. ASSUME NEW i \in 0..n PROVE f[i] = R(f)[i]
    <3>1. CASE i = 0
      BY <1>5, <3>1 DEF Solves
    <3>2. CASE i # 0
      <4>1. i \in 1..n
        BY <1>2, <3>2
      <4> QED BY <2>1, <3>2, <4>1
    <3> QED BY <3>1, <3>2
  <2>4. R(f) = [i \in 0..n |-> R(f)[i]]
    OBVIOUS
  <2> HIDE DEF R
  <2> QED BY <2>2, <2>3, <2>4
<1>7. after = R(after)
  <2> HIDE DEF R
  <2> QED BY <1>6
<1>8. /\ after[0] = base
      /\ \A i \in 1..n : after[i] = TakePoint(after[i - 1], b, order[i], i = n)
  <2>1. \A i \in 0..n : after[i] = R(after)[i]
    BY <1>7
  <2> HIDE DEF after
  <2>2. 0 \in 0..n /\ \A i \in 1..n : i \in 0..n /\ i # 0
    BY <1>2
  <2> QED BY <2>1, <2>2
<1>9. after = [i \in 0..n |-> after[i]]
  <2>1. R(after) = [i \in 0..n |-> R(after)[i]]
    OBVIOUS
  <2> HIDE DEF R, after
  <2> QED BY <1>7, <2>1
<1> HIDE DEF after, R, g
<1> DEFINE T == {i \in 0..n : after[i] \in Played}
<1>10. ASSUME NEW i \in 1..n, i - 1 \in T PROVE i \in T
  <2>1. after[i] = PointOf(after[i - 1], b, order[i], i, n) /\ i \in Nat /\ i \in 0..n
    BY <1>2, <1>8 DEF PointOf
  <2>2. after[i] \in Played
    BY <1>2, <1>10, <2>1, PointTaken
  <2> QED BY <2>1, <2>2
<1>11. 0..n \subseteq T
  <2>1. T \in SUBSET (0..n) /\ 0 \in T
    BY <1>2, <1>3, <1>8
  <2> HIDE DEF T
  <2> QED BY <1>2, <1>10, <2>1, StepByStep
<1>12. after \in [0..n -> Played]
  BY <1>9, <1>11
<1> QED BY <1>1, <1>8, <1>12 DEF Course, PointOf, order, base, n

LEMMA SetIsPlayed ==
    ASSUME NEW p \in Played, NEW b \in Nat \ {0}, NEW done \in Seq(SetScore),
           NEW set \in SetScore
    PROVE  /\ PlaySet(p, b, set) \in Played
           /\ HasPlayed(p, b, done) => HasPlayed(PlaySet(p, b, set), b, Append(done, set))
<1> DEFINE order == SetOrder(set)
           n == Len(order)
           base == [p EXCEPT !.ok = @ /\ order # <<>>]
<1>1. PICK after : Course(p, b, set, after)
  BY SetUnfolds
<1>2. PlaySet(p, b, set) = after[n]
  BY <1>1 DEF Course
<1>3. /\ order \in Seq(Slot) /\ n \in Nat /\ n = set[1] + set[2]
      /\ \A i \in 1..n : order[i] \in Slot
  BY OrderOfSet
<1>4. base \in Played /\ base.st = p.st /\ base.all = p.all /\ (base.ok => p.ok /\ n > 0)
  <2>1. order # <<>> => n > 0
    BY <1>3
  <2> HIDE DEF order
  <2> QED BY <2>1 DEF Played
<1>5. /\ after[0] = base
      /\ \A i \in 1..n : after[i] = PointOf(after[i - 1], b, order[i], i, n)
  BY <1>1 DEF Course
<1> HIDE DEF order, base, n
<1> DEFINE Upto(i) ==
              /\ after[i] \in Played
              /\ HasPlayed(p, b, done) /\ after[i].ok =>
                    /\ n > 0 /\ Reached(after[i], b)
                    /\ IF i = n
                       THEN after[i].st.sets = Append(done, set) /\ after[i].st.cur = NoPoints
                       ELSE after[i].st.sets = done /\ after[i].st.cur = Count(set, i)
           T == {i \in 0..n : Upto(i)}
<1>6. 0 \in T
  <2>1. Upto(0)
    BY <1>3, <1>4, <1>5, OrderOfSet DEF HasPlayed, Reached
  <2> QED BY <1>3, <2>1
<1>7. ASSUME NEW i \in 1..n, i - 1 \in T PROVE i \in T
  <2> DEFINE before == after[i - 1]  q == after[i]
             cur == PointIn(before.st, order[i])
  <2>1. Upto(i - 1)
    BY <1>7
  <2>2. /\ order[i] \in Slot /\ i \in 0..n /\ i - 1 # n /\ i \in Nat
        /\ q = PointOf(before, b, order[i], i, n)
    BY <1>3, <1>5
  <2> HIDE DEF before, q
  <2>3. before \in Played
    BY <2>1 DEF before
  <2>4. /\ q \in Played
        /\ q.ok => /\ before.ok /\ q.st = ApplyPoint(before.st, b, order[i])
                   /\ i = n <=> Len(q.st.sets) > Len(before.st.sets)
                   /\ Reached(before, b) => Reached(q, b)
    <3>1. n \in Nat
      BY <1>3
    <3> QED BY <2>2, <2>3, <3>1, PointTaken
  <2>5. ASSUME q.ok, HasPlayed(p, b, done)
        PROVE  /\ n > 0 /\ Reached(q, b)
               /\ IF i = n THEN q.st.sets = Append(done, set) /\ q.st.cur = NoPoints
                  ELSE q.st.sets = done /\ q.st.cur = Count(set, i)
    <3>1. /\ before.ok /\ n > 0 /\ Reached(before, b)
          /\ before.st.sets = done /\ before.st.cur = Count(set, i - 1)
      BY <2>1, <2>2, <2>4, <2>5 DEF before
    <3>2. cur = Count(set, i)
      <4>1. i \in 1..(set[1] + set[2])
        BY <1>3
      <4>2. Count(set, i) = [Count(set, i - 1) EXCEPT ![order[i]] = @ + 1]
        BY <4>1, OrderOfSet DEF order
      <4>3. cur = [before.st.cur EXCEPT ![order[i]] = @ + 1]
        BY DEF PointIn
      <4> QED BY <3>1, <4>2, <4>3
    <3>3. before.st \in Score /\ cur = PointIn(before.st, order[i])
      BY <2>3 DEF Played
    <3> HIDE DEF cur
    <3>4. IF IsSetWon(cur) THEN q.st.sets = Append(done, cur) /\ q.st.cur = NoPoints
          ELSE q.st.sets = done /\ q.st.cur = cur
      <4>1. LET c == PointIn(before.st, order[i])
                q1 == ApplyPoint(before.st, b, order[i])
            IN  IF IsSetWon(c) THEN q1.sets = Append(before.st.sets, c) /\ q1.cur = NoPoints
                ELSE q1.sets = before.st.sets /\ q1.cur = c
        <5>1. order[i] \in Slot /\ before.st \in Score
          BY <2>2, <3>3
        <5> QED BY <5>1, PointMakes
      <4> QED BY <2>4, <2>5, <3>1, <3>3, <4>1
    <3>5. Len(Append(done, cur)) = Len(done) + 1 /\ Len(done) \in Nat
      BY <2>2, <3>3, PointMakes
    <3>6. CASE IsSetWon(cur)
      <4>1. i = n
        BY <2>4, <2>5, <3>1, <3>4, <3>5, <3>6
      <4>2. cur = set
        BY <1>3, <3>2, <4>1, OrderOfSet
      <4> QED BY <2>4, <2>5, <3>1, <3>4, <3>6, <4>1, <4>2
    <3>7. CASE ~IsSetWon(cur)
      <4>1. i # n
        BY <2>4, <2>5, <3>1, <3>4, <3>5, <3>7
      <4> QED BY <2>4, <2>5, <3>1, <3>2, <3>4, <3>7, <4>1
    <3> QED BY <3>6, <3>7
  <2>6. Upto(i)
    BY <2>4, <2>5 DEF q
  <2> QED BY <2>2, <2>6
<1>8. n \in T
  <2>1. T \in SUBSET (0..n)
    OBVIOUS
  <2> HIDE DEF T
  <2>2. 0..n \subseteq T
    BY <1>3, <1>6, <1>7, <2>1, StepByStep
  <2> QED BY <1>3, <2>2
<1> QED BY <1>2, <1>8 DEF HasPlayed

(* The sets of a plan, one after the other, and what the plan is then.     *)
Recorded(sets) == \A i \in DOMAIN sets, s \in Slot : sets[i][s] <= MaxSetScore
Stages(sets, b, f) ==
    LET n == Len(sets)  plan == PlanReplay(sets, b) IN
    /\ f \in [0..n -> Played]
    /\ f[0] = [ok |-> sets # <<>>, st |-> InitialState, all |-> <<>>]
    /\ \A i \in 1..n : f[i] = PlaySet(f[i - 1], b, sets[i])
    /\ plan.ok <=> Recorded(sets) /\ f[n].ok /\ f[n].st.status = "FINISHED"
    /\ plan.order = f[n].all

LEMMA PlanUnfolds ==
    ASSUME NEW b \in Nat \ {0}, NEW sets \in Seq(SetScore)
    PROVE  \E f : Stages(sets, b, f)
<1> DEFINE n == Len(sets)
           base == [ok |-> sets # <<>>, st |-> InitialState, all |-> <<>>]
           R(f) == [i \in 0..n |-> IF i = 0 THEN base ELSE PlaySet(f[i - 1], b, sets[i])]
           played == CHOOSE f : f = R(f)
           g == [i \in 1..n |-> [x \in Played |-> PlaySet(x, b, sets[i])]]
<1>1. /\ PlanReplay(sets, b).order = played[n].all
      /\ PlanReplay(sets, b).ok <=>
            Recorded(sets) /\ played[n].ok /\ played[n].st.status = "FINISHED"
  BY DEF PlanReplay, Recorded
<1>2. n \in Nat /\ \A i \in 1..n : sets[i] \in SetScore
  OBVIOUS
<1>3. InitialState \in Score /\ InitialState.sets = <<>> /\ InitialState.cur = NoPoints
  BY DEF InitialState, Score, NoPoints, SetScore, Status
<1>4. base \in Played /\ base.st = InitialState /\ base.all = <<>>
  BY <1>3 DEF Played
<1> HIDE DEF base
<1>5. g \in Steps(n)
  <2> SUFFICES ASSUME NEW i \in 1..n, NEW x \in Played PROVE PlaySet(x, b, sets[i]) \in Played
    BY DEF Steps
  <2>1. <<>> \in Seq(SetScore)
    OBVIOUS
  <2> QED BY <1>2, <2>1, SetIsPlayed
<1>6. PICK f : Solves(base, n, g, f)
  <2> HIDE DEF g, n
  <2> QED BY <1>2, <1>4, <1>5, Unfolds
<1>7. f = R(f)
  <2>1. \A i \in 1..n : f[i] = PlaySet(f[i - 1], b, sets[i])
    <3> TAKE i \in 1..n
    <3>1. i - 1 \in 0..n
      BY <1>2
    <3>2. f[i - 1] \in Played
      BY <1>6, <3>1 DEF Solves
    <3> QED BY <1>6, <3>2 DEF Solves
  <2>2. f = [i \in 0..n |-> f[i]]
    BY <1>6 DEF Solves
  <2>3. ASSUME NEW i \in 0..n PROVE f[i] = R(f)[i]
    <3>1. CASE i = 0
      BY <1>6, <3>1 DEF Solves
    <3>2. CASE i # 0
      <4>1. i \in 1..n
        BY <1>2, <3>2
      <4> QED BY <2>1, <3>2, <4>1
    <3> QED BY <3>1, <3>2
  <2>4. R(f) = [i \in 0..n |-> R(f)[i]]
    OBVIOUS
  <2> HIDE DEF R
  <2> QED BY <2>2, <2>3, <2>4
<1>8. played = R(played)
  <2> HIDE DEF R
  <2> QED BY <1>7
<1>9. /\ played[0] = base
      /\ \A i \in 1..n : played[i] = PlaySet(played[i - 1], b, sets[i])
  <2>1. \A i \in 0..n : played[i] = R(played)[i]
    BY <1>8
  <2> HIDE DEF played
  <2>2. 0 \in 0..n /\ \A i \in 1..n : i \in 0..n /\ i # 0
    BY <1>2
  <2> QED BY <2>1, <2>2
<1>10. played = [i \in 0..n |-> played[i]]
  <2>1. R(played) = [i \in 0..n |-> R(played)[i]]
    OBVIOUS
  <2> HIDE DEF R, played
  <2> QED BY <1>8, <2>1
<1> HIDE DEF played, R, g
<1> DEFINE T == {i \in 0..n : played[i] \in Played}
<1>11. ASSUME NEW i \in 1..n, i - 1 \in T PROVE i \in T
  <2>1. played[i] = PlaySet(played[i - 1], b, sets[i]) /\ i \in 0..n
    BY <1>2, <1>9
  <2>2. <<>> \in Seq(SetScore)
    OBVIOUS
  <2>3. played[i] \in Played
    BY <1>2, <1>11, <2>1, <2>2, SetIsPlayed
  <2> QED BY <2>1, <2>3
<1>12. 0..n \subseteq T
  <2>1. T \in SUBSET (0..n) /\ 0 \in T
    BY <1>2, <1>4, <1>9
  <2> HIDE DEF T, n
  <2> QED BY <1>2, <1>11, <2>1, StepByStep
<1>13. played \in [0..n -> Played]
  BY <1>10, <1>12
<1>14. Stages(sets, b, played)
  BY <1>1, <1>9, <1>13 DEF Stages, n, base
<1> QED BY <1>14

(* A plan that is ok leads, with its last point and no sooner, to the end  *)
(* of the match and to the sets it was made of (planReplay).               *)
THEOREM PlanIsSound ==
    ASSUME NEW b \in Nat \ {0}, NEW sets \in Seq(SetScore), PlanReplay(sets, b).ok
    PROVE  LET order == PlanReplay(sets, b).order IN
           /\ order \in Seq(Slot)
           /\ \E tr : /\ Leads(order, b, tr) /\ tr[Len(order)].status = "FINISHED"
                      /\ tr[Len(order)].sets = sets
<1> DEFINE n == Len(sets)
           base == [ok |-> sets # <<>>, st |-> InitialState, all |-> <<>>]
<1>1. PICK played : Stages(sets, b, played)
  BY PlanUnfolds
<1>2. /\ PlanReplay(sets, b).order = played[n].all
      /\ played[n].ok /\ played[n].st.status = "FINISHED"
  BY <1>1 DEF Stages
<1>3. n \in Nat /\ \A i \in 1..n : sets[i] \in SetScore
  OBVIOUS
<1>4. InitialState \in Score /\ InitialState.sets = <<>> /\ InitialState.cur = NoPoints
  BY DEF InitialState, Score, NoPoints, SetScore, Status
<1>5. base \in Played /\ base.st = InitialState /\ base.all = <<>>
  BY <1>4 DEF Played
<1>6. /\ played[0] = base
      /\ \A i \in 1..n : played[i] = PlaySet(played[i - 1], b, sets[i])
  BY <1>1 DEF Stages
<1> HIDE DEF base
<1> DEFINE Upto(i) == played[i] \in Played /\ HasPlayed(played[i], b, SubSeq(sets, 1, i))
           T == {i \in 0..n : Upto(i)}
<1>7. 0 \in T
  <2>1. SubSeq(sets, 1, 0) = <<>>
    BY <1>3
  <2>2. Reached(base, b)
    <3>1. Leads(<<>>, b, [i \in 0..0 |-> InitialState])
      BY <1>4 DEF Leads
    <3>2. Len(<<>>) = 0 /\ [i \in 0..0 |-> InitialState][0] = InitialState
      OBVIOUS
    <3> QED BY <1>5, <3>1, <3>2 DEF Reached
  <2>3. Upto(0)
    BY <1>4, <1>5, <1>6, <2>1, <2>2 DEF HasPlayed
  <2> QED BY <1>3, <2>3
<1>8. ASSUME NEW i \in 1..n, i - 1 \in T PROVE i \in T
  <2>1. Upto(i - 1) /\ i \in 0..n /\ played[i] = PlaySet(played[i - 1], b, sets[i])
    BY <1>3, <1>6, <1>8
  <2>2. /\ SubSeq(sets, 1, i - 1) \in Seq(SetScore)
        /\ SubSeq(sets, 1, i) = Append(SubSeq(sets, 1, i - 1), sets[i])
    OBVIOUS
  <2>3. Upto(i)
    BY <1>3, <2>1, <2>2, SetIsPlayed
  <2> QED BY <2>1, <2>3
<1>9. n \in T
  <2>1. T \in SUBSET (0..n)
    OBVIOUS
  <2> HIDE DEF T, n
  <2>2. 0..n \subseteq T
    BY <1>3, <1>7, <1>8, <2>1, StepByStep
  <2> QED BY <1>3, <2>2
<1>10. SubSeq(sets, 1, n) = sets
  OBVIOUS
<1>11. played[n] \in Played /\ HasPlayed(played[n], b, sets)
  BY <1>9, <1>10
<1>12. played[n].st.sets = sets /\ Reached(played[n], b) /\ played[n].all \in Seq(Slot)
  BY <1>2, <1>11 DEF HasPlayed, Played
<1> QED BY <1>2, <1>12 DEF Reached

----------------------------------------------------------------------------
(* The rules, as the engine keeps them in one point                        *)

(* A majority of the sets is as many as the engine waits for (setsToWin).  *)
LEMMA MajorityIsNeeded ==
    /\ SetsToWin(BestOf) \in Nat \ {0} /\ 2 * SetsToWin(BestOf) = BestOf + 1
    /\ \A n \in Nat : 2 * n > BestOf <=> n >= SetsToWin(BestOf)
<1>1. BestOf \in Nat /\ BestOf % 2 = 1
  BY MatchAssumption
<1>2. 2 * ((BestOf + 1) \div 2) = BestOf + 1 /\ (BestOf + 1) \div 2 \in Nat
  BY <1>1
<1> QED BY <1>1, <1>2 DEF SetsToWin

(* Who has taken how many sets, and one set more (Cardinality).            *)
Taken(sets, s) == {i \in 1..Len(sets) : sets[i][s] > sets[i][Opp(s)]}

LEMMA TakenIsFinite ==
    ASSUME NEW sets \in Seq(SetScore), NEW s \in Slot
    PROVE  /\ IsFiniteSet(Taken(sets, s)) /\ SetsTaken(sets, s) \in Nat
           /\ SetsTaken(sets, s) = Cardinality(Taken(sets, s))
<1>1. Len(sets) \in Nat /\ DOMAIN sets = 1..Len(sets)
  OBVIOUS
<1>2. IsFiniteSet(1..Len(sets))
  BY <1>1, FS_Interval
<1>3. IsFiniteSet(Taken(sets, s))
  BY <1>2, FS_Subset DEF Taken
<1>4. SetsTaken(sets, s) = Cardinality(Taken(sets, s))
  BY <1>1 DEF SetsTaken, Taken
<1> QED BY <1>3, <1>4, FS_CardinalityType

LEMMA OneMoreTaken ==
    ASSUME NEW sets \in Seq(SetScore), NEW set \in SetScore, NEW s \in Slot, set[1] # set[2]
    PROVE  SetsTaken(Append(sets, set), s) =
             IF s = Leader(set) THEN SetsTaken(sets, s) + 1 ELSE SetsTaken(sets, s)
<1> DEFINE n == Len(sets)  longer == Append(sets, set)
<1>1. /\ n \in Nat /\ longer \in Seq(SetScore) /\ Len(longer) = n + 1
      /\ longer[n + 1] = set /\ \A i \in 1..n : longer[i] = sets[i]
  OBVIOUS
<1>2. set[1] \in Nat /\ set[2] \in Nat
  BY DEF SetScore, Slot
<1>3. s = Leader(set) <=> set[s] > set[Opp(s)]
  BY <1>2 DEF Leader, Opp, Slot
<1> HIDE DEF longer, n
<1>4. CASE s = Leader(set)
  <2>1. Taken(longer, s) = Taken(sets, s) \cup {n + 1}
    BY <1>1, <1>3, <1>4 DEF Taken, n
  <2>2. n + 1 \notin Taken(sets, s)
    BY <1>1 DEF Taken, n
  <2>3. IsFiniteSet(Taken(sets, s)) /\ SetsTaken(sets, s) = Cardinality(Taken(sets, s))
    BY TakenIsFinite
  <2>4. Cardinality(Taken(longer, s)) = Cardinality(Taken(sets, s)) + 1
    BY <2>1, <2>2, <2>3, FS_AddElement
  <2>5. SetsTaken(longer, s) = Cardinality(Taken(longer, s))
    BY <1>1, TakenIsFinite
  <2> QED BY <1>4, <2>3, <2>4, <2>5 DEF longer
<1>5. CASE s # Leader(set)
  <2>1. Taken(longer, s) = Taken(sets, s)
    BY <1>1, <1>3, <1>5 DEF Taken, n
  <2> QED BY <1>1, <1>5, <2>1, TakenIsFinite DEF longer
<1> QED BY <1>4, <1>5

(* What the engine makes of a point, in full (applyPoint).                 *)
Made(x, c, y) ==
    /\ c \in SetScore /\ y \in Score
    /\ ~IsSetWon(c) => /\ y.status = "LIVE" /\ y.cur = c /\ y.sets = x.sets
                       /\ y.won = x.won
    /\ IsSetWon(c) =>
          /\ y.cur = NoPoints /\ y.sets = Append(x.sets, c)
          /\ y.won = [x.won EXCEPT ![Leader(c)] = @ + 1]
          /\ y.status = "FINISHED" <=> \E t \in Slot : y.won[t] >= SetsToWin(BestOf)
          /\ y.status = "FINISHED" => y.winnerSlot = Leader(y.won)

LEMMA PointIsMade ==
    ASSUME NEW x \in Score, NEW s \in Slot
    PROVE  Made(x, PointIn(x, s), ApplyPoint(x, BestOf, s))
<1> DEFINE c == PointIn(x, s)
           won == [x.won EXCEPT ![Leader(c)] = @ + 1]
           y == ApplyPoint(x, BestOf, s)
<1>1. c \in SetScore /\ y \in Score
  BY MatchAssumption, PointMakes
<1>2. CASE ~IsSetWon(c)
  <2>1. y = [x EXCEPT !.status = "LIVE", !.cur = c]
    BY <1>2 DEF ApplyPoint, PointIn
  <2> HIDE DEF c, y
  <2>2. y.status = "LIVE" /\ y.cur = c /\ y.sets = x.sets /\ y.won = x.won
    BY <2>1 DEF Score
  <2>3. Made(x, c, y)
    BY <1>1, <1>2, <2>2 DEF Made
  <2> QED BY <2>3 DEF c, y
<1>3. CASE IsSetWon(c)
  <2> DEFINE decided == \E t \in Slot : won[t] >= SetsToWin(BestOf)
  <2>1. y = [status |-> IF decided THEN "FINISHED" ELSE "LIVE",
             cur |-> NextSet(c), sets |-> Append(x.sets, c), won |-> won,
             winnerSlot |-> IF decided THEN Leader(won) ELSE 0]
    BY <1>3 DEF ApplyPoint, PointIn
  <2>2. y.won = won
    BY <2>1
  <2> HIDE DEF c, won, y
  <2>3. y.status = IF decided THEN "FINISHED" ELSE "LIVE"
    BY <2>1
  <2>4. y.status = "FINISHED" <=> decided
    BY <2>3
  <2>5. /\ y.cur = NoPoints /\ y.sets = Append(x.sets, c)
        /\ decided => y.winnerSlot = Leader(won)
    BY <2>1 DEF NextSet
  <2>6. won = [x.won EXCEPT ![Leader(c)] = @ + 1]
    BY DEF won
  <2> QED BY <1>1, <1>3, <2>2, <2>4, <2>5, <2>6 DEF Made, y, c
<1> QED BY <1>2, <1>3

(* A set that no point has decided yet is decided by the next one exactly  *)
(* if it gives its player game point and lead, and then by a legal score.  *)
LEMMA PointDecides ==
    ASSUME NEW x \in Score, ~IsSetWon(x.cur), NEW s \in Slot, NEW c, c = PointIn(x, s)
    PROVE  /\ c[s] = x.cur[s] + 1 /\ c[Opp(s)] = x.cur[Opp(s)]
           /\ IsSetWon(c) <=> OnePointFromSet(x.cur, s)
           /\ IsSetWon(c) => LegalSet(c) /\ Leader(c) = s /\ c[1] # c[2]
<1>1. /\ x.cur \in SetScore /\ x.cur[1] \in Nat /\ x.cur[2] \in Nat
      /\ DOMAIN x.cur = {1, 2}
  BY DEF Score, SetScore, Slot
<1>2. c[s] = x.cur[s] + 1 /\ c[Opp(s)] = x.cur[Opp(s)]
  BY <1>1 DEF PointIn, Opp, Slot
<1>3. GamePoint \in Nat \ {0} /\ WinBy \in Nat \ {0}
  BY ScoringAssumption
<1> DEFINE a == x.cur[s]  b == x.cur[Opp(s)]
<1>4. a \in Nat /\ b \in Nat
  BY <1>1 DEF Opp, Slot
<1> DEFINE over(p, q) == (p >= GamePoint \/ q >= GamePoint) /\ (p - q >= WinBy \/ q - p >= WinBy)
<1>5. ~over(a, b) /\ (IsSetWon(c) <=> over(a + 1, b))
  <2>1. CASE s = 1
    <3>1. a = x.cur[1] /\ b = x.cur[2] /\ c[1] = a + 1 /\ c[2] = b
      BY <1>2, <2>1 DEF Opp
    <3> QED BY <3>1 DEF IsSetWon
  <2>2. CASE s = 2
    <3>1. a = x.cur[2] /\ b = x.cur[1] /\ c[2] = a + 1 /\ c[1] = b
      BY <1>2, <2>2 DEF Opp
    <3> QED BY <3>1 DEF IsSetWon
  <2> QED BY <2>1, <2>2 DEF Slot
<1>6. c[s] = a + 1 /\ c[Opp(s)] = b
  BY <1>2
<1>7. OnePointFromSet(x.cur, s) <=> a >= GamePoint - 1 /\ a - b >= WinBy - 1
  BY DEF OnePointFromSet
<1>8. Opp(s) \in Slot /\ Opp(Opp(s)) = s /\ Opp(s) # s
  BY DEF Opp, Slot
<1> HIDE DEF a, b
<1>9. IsSetWon(c) <=> a + 1 >= GamePoint /\ a + 1 - b >= WinBy
  BY <1>3, <1>4, <1>5
<1>10. ASSUME IsSetWon(c) PROVE LegalSet(c) /\ Leader(c) = s /\ c[1] # c[2]
  <2>1. c[s] = a + 1 /\ c[Opp(s)] = b /\ a + 1 >= GamePoint /\ a + 1 - b >= WinBy /\ a + 1 > b
    BY <1>3, <1>4, <1>6, <1>9, <1>10
  <2>2. Leader(c) = s /\ c[1] # c[2]
    BY <1>4, <2>1 DEF Leader, Opp, Slot
  <2>3. a + 1 > GamePoint => a + 1 - b = WinBy
    BY <1>3, <1>4, <1>5, <2>1
  <2>4. LegalSet(c) <=> /\ c[s] >= GamePoint /\ c[s] - c[Opp(s)] >= WinBy
                        /\ c[s] > GamePoint => c[s] - c[Opp(s)] = WinBy
    BY <2>2 DEF LegalSet
  <2> QED BY <1>3, <1>4, <2>1, <2>2, <2>3, <2>4
<1> QED BY <1>2, <1>3, <1>4, <1>7, <1>9, <1>10

(* A score that points have made, and one that is still in play.           *)
Sheet(x) ==
    /\ x \in Score
    /\ \A s \in Slot : x.won[s] = SetsTaken(x.sets, s)
    /\ \A i \in DOMAIN x.sets : LegalSet(x.sets[i])
    /\ Len(x.sets) = x.won[1] + x.won[2]
Open(x) == ~IsSetWon(x.cur) /\ \A s \in Slot : x.won[s] < SetsToWin(BestOf)
(* The set just finished has given its player the majority. *)
Ended(x, s) ==
    /\ x.won[s] = SetsToWin(BestOf) /\ x.won[Opp(s)] < SetsToWin(BestOf)
    /\ x.winnerSlot = s
Kept(x) == Sheet(x) /\ (x.status # "FINISHED" => Open(x))

LEMMA NothingIsWon == ~IsSetWon(NoPoints)
BY ScoringAssumption DEF IsSetWon, NoPoints, Slot

LEMMA InitialIsKept == Kept(InitialState)
<1>1. InitialState \in Score /\ InitialState.sets = <<>> /\ InitialState.cur = NoPoints
  BY DEF InitialState, Score, NoPoints, SetScore, Status
<1>2. \A s \in Slot : InitialState.won[s] = 0
  BY DEF InitialState, NoPoints
<1>3. ASSUME NEW s \in Slot PROVE SetsTaken(<<>>, s) = 0
  <2>1. Taken(<<>>, s) = {} /\ <<>> \in Seq(SetScore)
    BY DEF Taken
  <2> QED BY <2>1, TakenIsFinite, FS_EmptySet
<1>4. Len(<<>>) = 0 /\ DOMAIN <<>> = {}
  OBVIOUS
<1>5. 1 \in Slot /\ 2 \in Slot
  BY DEF Slot
<1> QED BY <1>1, <1>2, <1>3, <1>4, <1>5, NothingIsWon, MajorityIsNeeded DEF Kept, Sheet, Open

(* A point keeps the score, and ends the match exactly when it takes the   *)
(* set that its player's majority lacked.                                  *)
LEMMA PointKeeps ==
    ASSUME NEW x \in Score, Sheet(x), Open(x), NEW s \in Slot,
           NEW y, y = ApplyPoint(x, BestOf, s)
    PROVE  /\ Kept(y)
           /\ y.status = "FINISHED" => Ended(y, s) /\ y.sets # <<>>
           /\ y.status = "FINISHED" <=> y.won[s] >= SetsToWin(BestOf)
<1> DEFINE c == PointIn(x, s)  need == SetsToWin(BestOf)
<1>1. Made(x, c, y)
  BY PointIsMade
<1>2. IsSetWon(c) => LegalSet(c) /\ Leader(c) = s /\ c[1] # c[2]
  BY PointDecides DEF Open
<1>3. /\ need \in Nat /\ x.won \in SetScore /\ x.sets \in Seq(SetScore)
      /\ c \in SetScore /\ y \in Score
  BY <1>1, MajorityIsNeeded DEF Made, Score
<1> HIDE DEF c, need
<1>4. \A t \in Slot : x.won[t] \in Nat /\ x.won[t] < need
  BY <1>3 DEF Open, SetScore, need
<1>5. CASE ~IsSetWon(c)
  <2>1. y.status = "LIVE" /\ y.cur = c /\ y.sets = x.sets /\ y.won = x.won
    BY <1>1, <1>5 DEF Made
  <2> QED BY <1>3, <1>4, <1>5, <2>1 DEF Kept, Sheet, Open, need
<1>6. CASE IsSetWon(c)
  <2>1. /\ y.cur = NoPoints /\ y.sets = Append(x.sets, c)
        /\ y.won = [x.won EXCEPT ![s] = @ + 1]
        /\ y.status = "FINISHED" <=> \E t \in Slot : y.won[t] >= need
        /\ y.status = "FINISHED" => y.winnerSlot = Leader(y.won)
    BY <1>1, <1>2, <1>6 DEF Made, need
  <2>2. /\ y.won[s] = x.won[s] + 1 /\ y.won[Opp(s)] = x.won[Opp(s)]
        /\ \A t \in Slot : y.won[t] = IF t = s THEN x.won[t] + 1 ELSE x.won[t]
    BY <1>3, <2>1 DEF SetScore, Slot, Opp
  <2>3. Len(y.sets) = Len(x.sets) + 1 /\ Len(x.sets) \in Nat /\ y.sets # <<>>
    BY <1>3, <2>1
  <2>4. \A t \in Slot : y.won[t] = SetsTaken(y.sets, t)
    BY <1>2, <1>3, <1>6, <2>1, <2>2, OneMoreTaken DEF Sheet
  <2>5. ASSUME NEW i \in DOMAIN y.sets PROVE LegalSet(y.sets[i])
    <3>1. \/ i \in DOMAIN x.sets /\ y.sets[i] = x.sets[i]
          \/ y.sets[i] = c
      BY <1>3, <2>1
    <3> QED BY <1>2, <1>6, <3>1 DEF Sheet
  <2>6. Len(y.sets) = y.won[1] + y.won[2]
    <3>1. Len(x.sets) = x.won[1] + x.won[2] /\ x.won[1] \in Nat /\ x.won[2] \in Nat
      BY <1>4 DEF Sheet, Slot
    <3>2. \/ y.won[1] = x.won[1] + 1 /\ y.won[2] = x.won[2]
          \/ y.won[1] = x.won[1] /\ y.won[2] = x.won[2] + 1
      BY <2>2 DEF Slot
    <3> QED BY <2>3, <3>1, <3>2
  <2>7. Sheet(y)
    BY <1>3, <2>4, <2>5, <2>6 DEF Sheet
  <2>8. y.status = "FINISHED" <=> y.won[s] >= need
    BY <1>3, <1>4, <2>1, <2>2
  <2>9. y.status # "FINISHED" => Open(y)
    <3>1. \A t \in Slot : y.won[t] \in Nat /\ (~(y.won[t] >= need) => y.won[t] < need)
      BY <1>3, <1>4, <2>2
    <3> QED BY <2>1, <3>1, NothingIsWon DEF Open, need
  <2>10. y.status = "FINISHED" => y.won[s] = need
           /\ y.won[Opp(s)] < need /\ y.won[s] \in Nat /\ y.won[Opp(s)] \in Nat
    <3>1. Opp(s) \in Slot
      BY DEF Opp, Slot
    <3> QED BY <1>3, <1>4, <2>2, <2>8, <3>1
  <2>11. ASSUME y.status = "FINISHED" PROVE y.winnerSlot = s
    <3>1. CASE s = 1
      BY <1>3, <2>1, <2>10, <2>11, <3>1 DEF Leader, Opp
    <3>2. CASE s = 2
      BY <1>3, <2>1, <2>10, <2>11, <3>2 DEF Leader, Opp
    <3> QED BY <3>1, <3>2 DEF Slot
  <2> QED BY <2>3, <2>7, <2>8, <2>9, <2>10, <2>11 DEF Kept, Ended, need
<1> QED BY <1>5, <1>6

----------------------------------------------------------------------------
(* A match through the engine                                              *)

(* What a point makes of an open score: the fields of the score after it.  *)
After(x, s, y) ==
    /\ x.status # "FINISHED" /\ x.cur \in SetScore /\ x.won \in SetScore
    /\ Len(x.sets) \in Nat /\ Len(y.sets) \in Nat
    /\ OnePointFromSet(x.cur, s) =>
          /\ y.cur = NoPoints /\ Len(y.sets) = Len(x.sets) + 1
          /\ y.status = "FINISHED" <=> x.won[s] = SetsToWin(BestOf) - 1
    /\ ~OnePointFromSet(x.cur, s) =>
          /\ y.status = "LIVE" /\ y.sets = x.sets /\ y.won = x.won
          /\ y.cur \in SetScore /\ ~IsSetWon(y.cur)
          /\ y.cur[s] = x.cur[s] + 1 /\ y.cur[Opp(s)] = x.cur[Opp(s)]

LEMMA PointShows ==
    ASSUME NEW x, Kept(x), x.status # "FINISHED", NEW s \in Slot,
           NEW y, y = ApplyPoint(x, BestOf, s)
    PROVE  After(x, s, y)
<1> DEFINE c == PointIn(x, s)  need == SetsToWin(BestOf)
<1>1. x \in Score /\ Sheet(x) /\ Open(x)
  BY DEF Kept, Sheet
<1>2. Made(x, c, y)
  BY <1>1, PointIsMade
<1>3. /\ c[s] = x.cur[s] + 1 /\ c[Opp(s)] = x.cur[Opp(s)]
      /\ IsSetWon(c) <=> OnePointFromSet(x.cur, s)
      /\ IsSetWon(c) => Leader(c) = s
  BY <1>1, PointDecides DEF Open
<1>4. /\ x.cur \in SetScore /\ x.won \in SetScore /\ x.sets \in Seq(SetScore)
      /\ c \in SetScore /\ y.sets \in Seq(SetScore)
  BY <1>1, <1>2 DEF Score, Made
<1>5. /\ need \in Nat /\ x.won[s] \in Nat /\ x.won[s] < need
      /\ y.status = "FINISHED" <=> y.won[s] >= need
  BY <1>1, <1>4, PointKeeps, MajorityIsNeeded DEF Open, SetScore
<1> HIDE DEF c, need
<1>6. CASE IsSetWon(c)
  <2>1. y.cur = NoPoints /\ y.sets = Append(x.sets, c) /\ y.won = [x.won EXCEPT ![s] = @ + 1]
    BY <1>2, <1>3, <1>6 DEF Made
  <2>2. y.won[s] = x.won[s] + 1
    BY <1>4, <2>1 DEF SetScore
  <2>3. y.status = "FINISHED" <=> x.won[s] = need - 1
    BY <1>5, <2>2
  <2>4. Len(y.sets) = Len(x.sets) + 1 /\ Len(x.sets) \in Nat
    BY <1>4, <2>1
  <2> QED BY <1>3, <1>4, <1>6, <2>1, <2>3, <2>4 DEF After, need
<1>7. CASE ~IsSetWon(c)
  <2>1. y.status = "LIVE" /\ y.cur = c /\ y.sets = x.sets /\ y.won = x.won
    BY <1>2, <1>7 DEF Made
  <2>2. Len(x.sets) \in Nat /\ Len(y.sets) \in Nat
    BY <1>4
  <2> QED BY <1>3, <1>4, <1>7, <2>1, <2>2 DEF After
<1> QED BY <1>6, <1>7

(* How often the service has changed in a set (serverSlot).                *)
Total(cur) == cur[1] + cur[2]
Blocks(cur) ==
    IF Deuce(cur) THEN (GamePoint - 1) + (Total(cur) - 2 * (GamePoint - 1))
    ELSE Total(cur) \div 2

(* The umpire after all points but those of a match that is over.          *)
ServiceHolds ==
    /\ umpire \in [opener : Slot, server : Slot, taken : {0, 1}]
    /\ score.status # "FINISHED" =>
          /\ umpire.server = IF Blocks(score.cur) % 2 = 0 THEN umpire.opener
                             ELSE Opp(umpire.opener)
          /\ umpire.taken = IF Deuce(score.cur) THEN 0 ELSE Total(score.cur) % 2

MatchInv == Kept(score) /\ ServiceHolds

(* A deuce begins after an even number of points and never ends but with   *)
(* the set, as long as the lead is two at most.                            *)
LEMMA DeuceBegins ==
    ASSUME WinBy <= 2, NEW p \in SetScore, NEW q \in SetScore, NEW s \in Slot,
           ~IsSetWon(p), q[s] = p[s] + 1, q[Opp(s)] = p[Opp(s)]
    PROVE  /\ Total(p) \in Nat /\ Total(q) = Total(p) + 1
           /\ Deuce(p) => Deuce(q)
           /\ Deuce(q) /\ ~Deuce(p) => Total(q) = 2 * (GamePoint - 1)
<1>1. GamePoint \in Nat \ {0} /\ WinBy \in {1, 2}
  BY ScoringAssumption
<1>2. /\ p[1] \in Nat /\ p[2] \in Nat /\ q[1] \in Nat /\ q[2] \in Nat
      /\ \/ q[1] = p[1] + 1 /\ q[2] = p[2]
         \/ q[2] = p[2] + 1 /\ q[1] = p[1]
  BY DEF SetScore, Slot, Opp
<1>3. /\ Deuce(p) <=> p[1] >= GamePoint - 1 /\ p[2] >= GamePoint - 1
      /\ Deuce(q) <=> q[1] >= GamePoint - 1 /\ q[2] >= GamePoint - 1
  BY DEF Deuce, Slot
<1>4. ~/\ p[1] >= GamePoint \/ p[2] >= GamePoint
       /\ p[1] - p[2] >= WinBy \/ p[2] - p[1] >= WinBy
  BY DEF IsSetWon
<1> QED BY <1>1, <1>2, <1>3, <1>4 DEF Total

(* So the service changes once more whenever the umpire hands it over.     *)
LEMMA ServiceChanges ==
    ASSUME WinBy <= 2, NEW p \in SetScore, NEW q \in SetScore, NEW s \in Slot,
           ~IsSetWon(p), q[s] = p[s] + 1, q[Opp(s)] = p[Opp(s)]
    PROVE  /\ Blocks(p) \in Int
           /\ Blocks(q) = IF Deuce(p) \/ Total(p) % 2 = 1 THEN Blocks(p) + 1 ELSE Blocks(p)
           /\ Deuce(q) \/ (~Deuce(p) /\ Total(q) % 2 = 1 - (Total(p) % 2))
           /\ Deuce(q) => Deuce(p) \/ Total(p) % 2 = 1
<1>1. GamePoint \in Nat \ {0}
  BY ScoringAssumption
<1> DEFINE t == Total(p)  g == GamePoint - 1
<1>2. /\ t \in Nat /\ g \in Nat /\ Total(q) = t + 1
      /\ Deuce(p) => Deuce(q)
      /\ Deuce(q) /\ ~Deuce(p) => t + 1 = 2 * g
  BY <1>1, DeuceBegins
<1>3. /\ Blocks(p) = IF Deuce(p) THEN g + (t - 2 * g) ELSE t \div 2
      /\ Blocks(q) = IF Deuce(q) THEN g + ((t + 1) - 2 * g) ELSE (t + 1) \div 2
  BY <1>2 DEF Blocks
<1> HIDE DEF t, g
<1>4. (t + 1) % 2 = 1 - (t % 2) /\ t % 2 \in {0, 1} /\ t \div 2 \in Nat
  BY <1>2
<1>5. (t + 1) \div 2 = IF t % 2 = 1 THEN t \div 2 + 1 ELSE t \div 2
  BY <1>2
<1>6. CASE Deuce(p)
  BY <1>2, <1>3, <1>4, <1>6 DEF t
<1>7. CASE ~Deuce(p) /\ ~Deuce(q)
  BY <1>2, <1>3, <1>4, <1>5, <1>7 DEF t
<1>8. CASE ~Deuce(p) /\ Deuce(q)
  <2>1. t % 2 = 1 /\ t \div 2 = g - 1
    BY <1>2, <1>8
  <2> QED BY <1>2, <1>3, <1>4, <1>8, <2>1 DEF t
<1> QED BY <1>6, <1>7, <1>8

LEMMA NoBlocksYet == Blocks(NoPoints) = 0 /\ ~(Total(NoPoints) % 2 = 1)
<1>1. GamePoint \in Nat \ {0}
  BY ScoringAssumption
<1>2. NoPoints[1] = 0 /\ NoPoints[2] = 0 /\ Total(NoPoints) = 0
  BY DEF NoPoints, Slot, Total
<1>3. Deuce(NoPoints) <=> GamePoint = 1
  BY <1>1, <1>2 DEF Deuce, Slot
<1> QED BY <1>1, <1>2, <1>3 DEF Blocks

(* The umpire hands the service on as the formula says (serverSlot).       *)
LEMMA PointIsServed ==
    ASSUME WinBy <= 2, MatchInv, NEW s \in Slot, Point(s)
    PROVE  ServiceHolds'
<1>1. /\ After(score, s, score') /\ Kept(score) /\ score.status # "FINISHED"
      /\ umpire' = UmpireAfter(score')
  BY PointShows DEF MatchInv, Point
<1> DEFINE p == score.cur  q == score'.cur  u == umpire
<1>2. /\ u \in [opener : Slot, server : Slot, taken : {0, 1}] /\ p \in SetScore
      /\ ~IsSetWon(p)
      /\ u.server = IF Blocks(p) % 2 = 0 THEN u.opener ELSE Opp(u.opener)
      /\ u.taken = IF Deuce(p) THEN 0 ELSE Total(p) % 2
  BY <1>1 DEF MatchInv, ServiceHolds, Kept, Open, After
<1>3. \A x \in Slot : Opp(x) \in Slot /\ Opp(Opp(x)) = x
  BY DEF Opp, Slot
<1>4. CASE OnePointFromSet(p, s)
  <2>1. q = NoPoints /\ Len(score'.sets) > Len(score.sets)
    BY <1>1, <1>4 DEF After
  <2>2. umpire' = [opener |-> Opp(u.opener), server |-> Opp(u.opener), taken |-> 0]
    BY <1>1, <2>1 DEF UmpireAfter
  <2>3. Blocks(q) % 2 = 0 /\ Total(q) % 2 = 0
    BY <2>1, NoBlocksYet DEF Total, NoPoints, Slot
  <2> QED BY <1>2, <1>3, <2>2, <2>3 DEF ServiceHolds
<1>5. CASE ~OnePointFromSet(p, s)
  <2>1. /\ ~(Len(score'.sets) > Len(score.sets)) /\ q \in SetScore
        /\ q[s] = p[s] + 1 /\ q[Opp(s)] = p[Opp(s)]
    BY <1>1, <1>5 DEF After
  <2> DEFINE over == u.taken = 1 \/ Deuce(p)
  <2>2. umpire' = IF over THEN [u EXCEPT !.server = Opp(@), !.taken = 0]
                  ELSE [u EXCEPT !.taken = 1]
    BY <1>1, <2>1 DEF UmpireAfter, Deuce, Slot
  <2>3. /\ Blocks(p) \in Int /\ Total(p) \in Nat
        /\ Blocks(q) = IF Deuce(p) \/ Total(p) % 2 = 1 THEN Blocks(p) + 1 ELSE Blocks(p)
        /\ Deuce(q) \/ (~Deuce(p) /\ Total(q) % 2 = 1 - (Total(p) % 2))
        /\ Deuce(q) => Deuce(p) \/ Total(p) % 2 = 1
    BY <1>2, <2>1, ServiceChanges, DeuceBegins
  <2>4. over <=> Deuce(p) \/ Total(p) % 2 = 1
    BY <1>2
  <2> HIDE DEF over, p, q, u
  <2>5. CASE over
    <3>1. /\ umpire' = [u EXCEPT !.server = Opp(@), !.taken = 0]
          /\ Blocks(q) = Blocks(p) + 1
      BY <2>2, <2>3, <2>4, <2>5
    <3>2. (Blocks(p) + 1) % 2 = 0 <=> Blocks(p) % 2 # 0
      BY <2>3
    <3>3. /\ umpire' \in [opener : Slot, server : Slot, taken : {0, 1}]
          /\ umpire'.opener = u.opener /\ umpire'.server = Opp(u.server) /\ umpire'.taken = 0
      BY <1>2, <1>3, <3>1
    <3>4. umpire'.server = IF Blocks(q) % 2 = 0 THEN u.opener ELSE Opp(u.opener)
      BY <1>2, <1>3, <3>1, <3>2, <3>3
    <3>5. 0 = IF Deuce(q) THEN 0 ELSE Total(q) % 2
      BY <2>3, <2>4, <2>5
    <3> QED BY <3>3, <3>4, <3>5 DEF ServiceHolds, q
  <2>6. CASE ~over
    <3>1. /\ umpire' = [u EXCEPT !.taken = 1]
          /\ Blocks(q) = Blocks(p) /\ ~Deuce(q) /\ ~Deuce(p) /\ Total(q) % 2 = 1 - (Total(p) % 2)
      BY <2>2, <2>3, <2>4, <2>6
    <3>2. Total(q) % 2 = 1
      BY <2>3, <2>4, <2>6, <3>1
    <3>3. /\ umpire' \in [opener : Slot, server : Slot, taken : {0, 1}]
          /\ umpire'.opener = u.opener /\ umpire'.server = u.server /\ umpire'.taken = 1
      BY <1>2, <3>1
    <3> QED BY <1>2, <3>1, <3>2, <3>3 DEF ServiceHolds, q
  <2> QED BY <2>5, <2>6
<1> QED BY <1>4, <1>5

LEMMA MatchBegins == MatchInit => MatchInv
<1> SUFFICES ASSUME MatchInit PROVE MatchInv
  OBVIOUS
<1>1. score = InitialState /\ score.cur = NoPoints
  BY DEF MatchInit, InitialState
<1>2. PICK s \in Slot : umpire = [opener |-> s, server |-> s, taken |-> 0]
  BY DEF MatchInit
<1>3. Blocks(score.cur) % 2 = 0 /\ Total(score.cur) % 2 = 0
  BY <1>1, NoBlocksYet DEF Total, NoPoints, Slot
<1>4. ServiceHolds
  BY <1>2, <1>3 DEF ServiceHolds
<1> QED BY <1>1, <1>4, InitialIsKept DEF MatchInv

LEMMA MatchGoesOn ==
    ASSUME WinBy <= 2, MatchInv, [MatchNext]_matchVars
    PROVE  MatchInv'
<1>1. CASE UNCHANGED matchVars
  BY <1>1 DEF matchVars, MatchInv, ServiceHolds
<1>2. ASSUME NEW s \in Slot, Point(s) PROVE MatchInv'
  <2>1. Kept(score')
    BY <1>2, PointKeeps DEF MatchInv, Kept, Sheet, Point
  <2> QED BY <1>2, <2>1, PointIsServed DEF MatchInv
<1>3. ASSUME NEW s \in Slot, Disqualify(s) PROVE MatchInv'
  <2>1. /\ score' = [score EXCEPT !.status = "FINISHED", !.winnerSlot = Opp(s)]
        /\ score \in Score /\ umpire' = umpire /\ Opp(s) \in Slot
    BY <1>3 DEF Disqualify, ApplyDisqualification, MatchInv, Kept, Sheet, Opp, Slot
  <2>2. /\ score'.status = "FINISHED" /\ score'.sets = score.sets /\ score'.won = score.won
        /\ score' \in Score
    BY <2>1 DEF Score, Status
  <2>3. Sheet(score')
    BY <2>2 DEF MatchInv, Kept, Sheet
  <2> QED BY <2>1, <2>2, <2>3 DEF MatchInv, Kept, ServiceHolds
<1> QED BY <1>1, <1>2, <1>3 DEF MatchNext

(* A score is kept as it should be at every moment of a match: the umpire  *)
(* and the counters, from which all that the displays show follows.        *)
LEMMA ServiceIsShown == MatchInv => ServiceIndicatorIsRight
<1> SUFFICES ASSUME MatchInv, score.status # "FINISHED"
             PROVE  ServerSlot(score, FirstServer) = umpire.server
  BY DEF ServiceIndicatorIsRight
<1> DEFINE b == Blocks(score.cur)  n == Len(score.sets)  o == umpire.opener
<1>1. /\ o \in Slot /\ umpire.server = IF b % 2 = 0 THEN o ELSE Opp(o)
      /\ score.cur \in SetScore /\ n \in Nat
  BY DEF MatchInv, ServiceHolds, Kept, Sheet, Score
<1>2. b \in Int
  <2>1. GamePoint \in Nat /\ score.cur[1] \in Nat /\ score.cur[2] \in Nat
    BY <1>1, ScoringAssumption DEF SetScore, Slot
  <2> QED BY <2>1 DEF Blocks, Total
<1>3. ServerSlot(score, FirstServer) = IF (b + n) % 2 = 0 THEN FirstServer ELSE Opp(FirstServer)
  BY DEF ServerSlot, Blocks, Total
<1>4. FirstServer = IF n % 2 = 0 THEN o ELSE Opp(o)
  BY DEF FirstServer
<1>5. Opp(Opp(o)) = o
  BY <1>1 DEF Opp, Slot
<1> HIDE DEF b, n, o
<1>6. (b + n) % 2 = 0 <=> (b % 2 = 0 <=> n % 2 = 0)
  BY <1>1, <1>2
<1> QED BY <1>1, <1>3, <1>4, <1>5, <1>6

LEMMA AlertIsShown == MatchInv => AlertForeseesTheNextPoint
<1> SUFFICES ASSUME MatchInv, score.status # "FINISHED", NEW s \in Slot,
                    NEW after, after = ApplyPoint(score, BestOf, s),
                    NEW lit, lit = {a \in PointAlert(score, BestOf) : a.player = s}
             PROVE  /\ (lit # {}) <=> Len(after.sets) > Len(score.sets)
                    /\ \A a \in lit : a.isMatchPoint <=> after.status = "FINISHED"
  BY DEF AlertForeseesTheNextPoint
<1> DEFINE one == OnePointFromSet(score.cur, s)
           last == score.won[s] = SetsToWin(BestOf) - 1
<1>1. After(score, s, after)
  BY PointShows DEF MatchInv
<1>2. PointAlert(score, BestOf) =
        {[player |-> t, isMatchPoint |-> score.won[t] = SetsToWin(BestOf) - 1] :
            t \in {t \in Slot : OnePointFromSet(score.cur, t)}}
  BY DEF PointAlert
<1>3. one => [player |-> s, isMatchPoint |-> last] \in lit
  BY <1>2
<1>4. ASSUME NEW a \in lit PROVE one /\ (a.isMatchPoint <=> last)
  <2>1. PICK t \in Slot : /\ OnePointFromSet(score.cur, t)
                          /\ a = [player |-> t,
                                  isMatchPoint |-> score.won[t] = SetsToWin(BestOf) - 1]
    BY <1>2
  <2>2. a.player = s /\ a.player = t
    BY <2>1
  <2>3. a.isMatchPoint = (score.won[t] = SetsToWin(BestOf) - 1)
    BY <2>1
  <2> QED BY <2>1, <2>2, <2>3
<1>5. /\ one <=> Len(after.sets) > Len(score.sets)
      /\ one => (last <=> after.status = "FINISHED")
  BY <1>1 DEF After
<1> HIDE DEF one, last
<1> QED BY <1>3, <1>4, <1>5

(* A point ends a match exactly with the majority of its player.           *)
LEMMA MajorityEnds ==
    ASSUME MatchInv, NEW s \in Slot, Point(s)
    PROVE  /\ score'.status = "FINISHED" <=> HasMajority(score'.sets, s)
           /\ score'.status = "FINISHED" => score'.winnerSlot = s
<1>1. /\ Kept(score')
      /\ score'.status = "FINISHED" => Ended(score', s)
      /\ score'.status = "FINISHED" <=> score'.won[s] >= SetsToWin(BestOf)
  BY PointKeeps DEF MatchInv, Kept, Sheet, Point
<1>2. score'.won[s] = SetsTaken(score'.sets, s) /\ score'.won[s] \in Nat
  BY <1>1 DEF Kept, Sheet, Score, SetScore
<1>3. HasMajority(score'.sets, s) <=> score'.won[s] >= SetsToWin(BestOf)
  BY <1>2, MajorityIsNeeded DEF HasMajority
<1> QED BY <1>1, <1>3 DEF Ended

(* The last set that can be played, as the counters and the list show it.  *)
LEMMA LastSet ==
    ASSUME NEW x, Kept(x), x.status # "FINISHED"
    PROVE  Len(x.sets) = BestOf - 1 <=> \A s \in Slot : x.won[s] = SetsToWin(BestOf) - 1
<1> DEFINE need == SetsToWin(BestOf)
<1>1. need \in Nat \ {0} /\ 2 * need = BestOf + 1 /\ BestOf \in Nat
  BY MajorityIsNeeded, MatchAssumption
<1>2. /\ x.won[1] \in Nat /\ x.won[2] \in Nat /\ Len(x.sets) = x.won[1] + x.won[2]
      /\ x.won[1] < need /\ x.won[2] < need
  BY DEF Kept, Sheet, Open, Score, SetScore, Slot
<1> HIDE DEF need
<1>3. Len(x.sets) = BestOf - 1 <=> x.won[1] = need - 1 /\ x.won[2] = need - 1
  BY <1>1, <1>2
<1> QED BY <1>3 DEF Slot, need

LEMMA EndsAreAnnounced ==
    ASSUME MatchInv, [MatchNext]_matchVars
    PROVE  /\ SideChangeDue(score', BestOf) /\ ~SideChangeDue(score, BestOf) =>
                 /\ Len(score.sets) = BestOf - 1
                 /\ \A s \in Slot : score.cur[s] < Half
           /\ (/\ Len(score.sets) = BestOf - 1
               /\ \A s \in Slot : score.cur[s] < Half
               /\ \E s \in Slot : score'.cur[s] = Half) =>
                 SideChangeDue(score', BestOf)
<1>1. Half \in Nat
  BY ScoringAssumption DEF Half
<1>2. score.cur \in SetScore /\ score.cur[1] \in Nat /\ score.cur[2] \in Nat
  BY DEF MatchInv, Kept, Sheet, Score, SetScore, Slot
<1>3. CASE score' = score
  BY <1>1, <1>2, <1>3 DEF Slot
<1>4. ASSUME NEW s \in Slot, Disqualify(s)
      PROVE  score'.status = "FINISHED" /\ score'.cur = score.cur
  BY <1>4 DEF Disqualify, ApplyDisqualification, MatchInv, Kept, Sheet, Score
<1>5. CASE \E s \in Slot : Disqualify(s)
  <2>1. ~SideChangeDue(score', BestOf) /\ score'.cur = score.cur
    BY <1>4, <1>5 DEF SideChangeDue
  <2> QED BY <1>1, <1>2, <2>1 DEF Slot
<1>6. ASSUME NEW s \in Slot, Point(s)
      PROVE  /\ SideChangeDue(score', BestOf) /\ ~SideChangeDue(score, BestOf) =>
                   /\ Len(score.sets) = BestOf - 1
                   /\ \A x \in Slot : score.cur[x] < Half
             /\ (/\ Len(score.sets) = BestOf - 1
                 /\ \A x \in Slot : score.cur[x] < Half
                 /\ \E x \in Slot : score'.cur[x] = Half) =>
                   SideChangeDue(score', BestOf)
  <2> DEFINE p == score.cur  q == score'.cur
             full(x) == \A t \in Slot : x.won[t] = SetsToWin(BestOf) - 1
  <2>1. After(score, s, score') /\ score.status # "FINISHED"
    BY <1>6, PointShows DEF MatchInv, Point
  <2>2. Len(score.sets) = BestOf - 1 <=> full(score)
    BY <2>1, LastSet DEF MatchInv
  <2>3. /\ SideChangeDue(score, BestOf) <=> full(score) /\ FirstAtHalf(p)
        /\ SideChangeDue(score', BestOf) <=> score'.status # "FINISHED" /\ full(score')
                                              /\ FirstAtHalf(q)
    BY <2>1 DEF SideChangeDue
  <2> HIDE DEF full
  <2>4. CASE OnePointFromSet(p, s)
    <3>1. q = NoPoints
      BY <2>1, <2>4 DEF After
    <3>2. ~FirstAtHalf(q)
      BY <1>1, <3>1 DEF FirstAtHalf, NoPoints, Slot, Opp
    <3>3. ~((\A x \in Slot : p[x] < Half) /\ \E x \in Slot : q[x] = Half)
      BY <1>1, <1>2, <3>1 DEF NoPoints, Slot
    <3> QED BY <2>3, <3>2, <3>3
  <2>5. CASE ~OnePointFromSet(p, s)
    <3>1. /\ score'.status = "LIVE" /\ score'.won = score.won /\ q \in SetScore
          /\ q[s] = p[s] + 1 /\ q[Opp(s)] = p[Opp(s)]
      BY <2>1, <2>5 DEF After
    <3>2. full(score') <=> full(score)
      BY <3>1 DEF full
    <3>3. \/ q[1] = p[1] + 1 /\ q[2] = p[2]
          \/ q[2] = p[2] + 1 /\ q[1] = p[1]
      BY <3>1 DEF Slot, Opp
    <3>4. /\ FirstAtHalf(p) <=> (p[1] = Half /\ p[2] < Half) \/ (p[2] = Half /\ p[1] < Half)
          /\ FirstAtHalf(q) <=> (q[1] = Half /\ q[2] < Half) \/ (q[2] = Half /\ q[1] < Half)
      BY DEF FirstAtHalf, Slot, Opp
    <3>5. /\ (\A x \in Slot : p[x] < Half) <=> p[1] < Half /\ p[2] < Half
          /\ (\E x \in Slot : q[x] = Half) <=> q[1] = Half \/ q[2] = Half
      BY DEF Slot
    <3>6. FirstAtHalf(q) /\ ~FirstAtHalf(p) => p[1] < Half /\ p[2] < Half
      BY <1>1, <1>2, <3>3, <3>4
    <3>7. p[1] < Half /\ p[2] < Half /\ (q[1] = Half \/ q[2] = Half) => FirstAtHalf(q)
      BY <1>1, <1>2, <3>3, <3>4
    <3> QED BY <2>2, <2>3, <3>1, <3>2, <3>5, <3>6, <3>7
  <2> QED BY <2>4, <2>5
<1> QED BY <1>3, <1>5, <1>6 DEF MatchNext, matchVars

(* The engine keeps every match as an umpire does, whatever the length of  *)
(* a set and the odd number of sets, with a lead of one or two points:     *)
(* service, banners, majority and change of ends (scoring.engine.ts).      *)
THEOREM EngineKeepsTheRules == WinBy <= 2 /\ MatchSpec => EngineIsByTheRules
<1>1. WinBy <= 2 /\ MatchInit => MatchInv
  BY MatchBegins
<1>2. WinBy <= 2 /\ MatchInv /\ [MatchNext]_matchVars => (WinBy <= 2)' /\ MatchInv'
  BY MatchGoesOn
<1>3. MatchInv => DisplaysAreRight
  BY ServiceIsShown, AlertIsShown DEF DisplaysAreRight
<1>4. WinBy <= 2 /\ MatchInv /\ MatchInv' /\ [MatchNext]_matchVars =>
        [/\ SetsAreWhole'
         /\ \A s \in Slot : Point(s) =>
               /\ score'.status = "FINISHED" <=> HasMajority(score'.sets, s)
               /\ score'.status = "FINISHED" => score'.winnerSlot = s]_score
  <2>1. MatchInv' => SetsAreWhole'
    BY DEF MatchInv, Kept, Sheet, SetsAreWhole
  <2> QED BY <2>1, MajorityEnds
<1>5. WinBy <= 2 /\ MatchInv /\ MatchInv' /\ [MatchNext]_matchVars =>
        [/\ SideChangeDue(score', BestOf) /\ ~SideChangeDue(score, BestOf) =>
              /\ Len(score.sets) = BestOf - 1
              /\ \A s \in Slot : score.cur[s] < Half
         /\ (/\ Len(score.sets) = BestOf - 1
             /\ \A s \in Slot : score.cur[s] < Half
             /\ \E s \in Slot : score'.cur[s] = Half) =>
              SideChangeDue(score', BestOf)]_score
  BY EndsAreAnnounced
<1> QED
  BY <1>1, <1>2, <1>3, <1>4, <1>5, PTL DEF MatchSpec, EngineIsByTheRules,
     MatchRunsByTheRules, MatchEndsWithTheMajority, EndsChangeAnnouncedOnce

----------------------------------------------------------------------------
(* Replay: what is a whole match, and nothing else, is taken               *)

(* Fewer sets, fewer taken. *)
LEMMA TakenOfFewer ==
    ASSUME NEW sets \in Seq(SetScore), NEW m \in 0..Len(sets), NEW s \in Slot
    PROVE  /\ SubSeq(sets, 1, m) \in Seq(SetScore)
           /\ SetsTaken(SubSeq(sets, 1, m), s) \in Nat
           /\ SetsTaken(SubSeq(sets, 1, m), s) <= SetsTaken(sets, s)
<1> DEFINE few == SubSeq(sets, 1, m)
<1>1. few \in Seq(SetScore) /\ Len(few) = m /\ \A i \in 1..m : few[i] = sets[i]
  OBVIOUS
<1> HIDE DEF few
<1>2. Taken(few, s) \in SUBSET Taken(sets, s)
  BY <1>1 DEF Taken
<1>3. /\ IsFiniteSet(Taken(sets, s)) /\ SetsTaken(sets, s) = Cardinality(Taken(sets, s))
      /\ SetsTaken(few, s) = Cardinality(Taken(few, s)) /\ SetsTaken(few, s) \in Nat
  BY <1>1, TakenIsFinite
<1>4. Cardinality(Taken(few, s)) <= Cardinality(Taken(sets, s))
  BY <1>2, <1>3, FS_Subset
<1> QED BY <1>1, <1>3, <1>4 DEF few

LEMMA MajorityIs ==
    ASSUME NEW sets \in Seq(SetScore), NEW s \in Slot
    PROVE  HasMajority(sets, s) <=> SetsTaken(sets, s) >= SetsToWin(BestOf)
BY TakenIsFinite, MajorityIsNeeded DEF HasMajority

(* All scores on the way of some points are kept.                          *)
LEMMA WayIsKept ==
    ASSUME NEW order \in Seq(Slot), NEW tr, Leads(order, BestOf, tr)
    PROVE  \A i \in 0..Len(order) : Kept(tr[i])
<1> DEFINE n == Len(order)  T == {i \in 0..n : Kept(tr[i])}
<1>1. n \in Nat /\ \A i \in 1..n : order[i] \in Slot
  OBVIOUS
<1>2. 0 \in T
  BY <1>1, InitialIsKept DEF Leads
<1>3. ASSUME NEW i \in 1..n, i - 1 \in T PROVE i \in T
  <2>1. /\ Kept(tr[i - 1]) /\ tr[i - 1].status # "FINISHED"
        /\ tr[i] = ApplyPoint(tr[i - 1], BestOf, order[i]) /\ i \in 0..n
    BY <1>1, <1>3 DEF Leads
  <2>2. Kept(tr[i])
    BY <1>1, <2>1, PointKeeps DEF Kept, Sheet
  <2> QED BY <2>1, <2>2
<1>4. 0..n \subseteq T
  <2>1. T \in SUBSET (0..n)
    OBVIOUS
  <2> HIDE DEF T, n
  <2> QED BY <1>1, <1>2, <1>3, <2>1, StepByStep
<1> QED BY <1>4

(* A score that a point has finished shows a whole match.                  *)
LEMMA FinishedIsWhole ==
    ASSUME NEW x, Kept(x), x.status # "FINISHED", NEW s \in Slot,
           sent = ApplyPoint(x, BestOf, s).sets, ApplyPoint(x, BestOf, s).status = "FINISHED"
    PROVE  WholeMatch
<1> DEFINE y == ApplyPoint(x, BestOf, s)  c == PointIn(x, s)  n == Len(sent)
<1>1. x \in Score /\ Sheet(x) /\ Open(x) /\ x.sets \in Seq(SetScore)
  BY DEF Kept, Sheet, Score
<1>2. Kept(y) /\ Ended(y, s) /\ Made(x, c, y)
  BY <1>1, PointKeeps, PointIsMade
<1> HIDE DEF y, c
<1>3. y.status = "FINISHED" /\ sent = y.sets /\ sent \in Seq(SetScore) /\ Sheet(y)
  BY <1>2 DEF y, Kept, Sheet, Score
<1>4. \A i \in DOMAIN sent : LegalSet(sent[i])
  BY <1>3 DEF Sheet
<1>5. HasMajority(sent, s)
  <2>1. SetsTaken(sent, s) = SetsToWin(BestOf)
    BY <1>2, <1>3 DEF Sheet, Ended
  <2> QED BY <1>3, <2>1, MajorityIs, MajorityIsNeeded
<1>6. sent = Append(x.sets, c)
  BY <1>2, <1>3 DEF Made
<1>7. ASSUME NEW m \in 0..(n - 1), NEW t \in Slot PROVE ~HasMajority(SubSeq(sent, 1, m), t)
  <2>1. SubSeq(sent, 1, m) = SubSeq(x.sets, 1, m) /\ m \in 0..Len(x.sets)
    BY <1>1, <1>3, <1>6
  <2>2. /\ SubSeq(x.sets, 1, m) \in Seq(SetScore) /\ SetsTaken(SubSeq(x.sets, 1, m), t) \in Nat
        /\ SetsTaken(SubSeq(x.sets, 1, m), t) <= SetsTaken(x.sets, t)
    BY <1>1, <2>1, TakenOfFewer
  <2>3. SetsTaken(x.sets, t) < SetsToWin(BestOf) /\ SetsTaken(x.sets, t) \in Nat
    BY <1>1, TakenIsFinite DEF Sheet, Open
  <2>4. ~(SetsTaken(SubSeq(x.sets, 1, m), t) >= SetsToWin(BestOf))
    BY <2>2, <2>3, MajorityIsNeeded
  <2> QED BY <2>1, <2>2, <2>4, MajorityIs
<1> QED BY <1>4, <1>5, <1>7 DEF WholeMatch

LEMMA AcceptedIsWhole ==
    ASSUME sent \in Seq(SetScore), PlanReplay(sent, BestOf).ok
    PROVE  WholeMatch /\ Recorded(sent)
<1> DEFINE order == PlanReplay(sent, BestOf).order  n == Len(order)
<1>1. BestOf \in Nat \ {0}
  BY MatchAssumption
<1>2. Recorded(sent)
  BY <1>1, PlanUnfolds DEF Stages
<1>3. order \in Seq(Slot)
  BY <1>1, PlanIsSound
<1>4. PICK tr : /\ Leads(order, BestOf, tr) /\ tr[n].status = "FINISHED"
                /\ tr[n].sets = sent
  BY <1>1, PlanIsSound
<1> HIDE DEF order
<1>5. \A i \in 0..n : Kept(tr[i])
  BY <1>3, <1>4, WayIsKept
<1>6. n \in 1..n
  <2>1. n \in Nat /\ (n = 0 => tr[n].status # "FINISHED")
    BY <1>3, <1>4 DEF Leads, InitialState
  <2> QED BY <1>4, <2>1
<1>7. /\ tr[n - 1].status # "FINISHED" /\ tr[n] = ApplyPoint(tr[n - 1], BestOf, order[n])
      /\ order[n] \in Slot /\ Kept(tr[n - 1])
  BY <1>3, <1>4, <1>5, <1>6 DEF Leads
<1>8. WholeMatch
  BY <1>4, <1>7, FinishedIsWhole
<1> QED BY <1>2, <1>8

(* Played turn by turn, a legal set is decided by its last point only, if  *)
(* the lead is more than one.                                              *)
LEMMA LegalSetLasts ==
    ASSUME WinBy >= 2, NEW set \in SetScore, LegalSet(set)
    PROVE  /\ set[1] + set[2] > 0 /\ IsSetWon(set)
           /\ \A i \in 0..((set[1] + set[2]) - 1) : ~IsSetWon(Count(set, i))
<1> DEFINE w == Leader(set)  l == Opp(Leader(set))
           hi == set[w]  lo == set[l]  n == set[1] + set[2]
<1>1. GamePoint \in Nat \ {0} /\ WinBy \in Nat /\ WinBy >= 2
  BY ScoringAssumption
<1>2. /\ w \in {1, 2} /\ l = 3 - w /\ hi \in Nat /\ lo \in Nat /\ n = hi + lo
      /\ \/ w = 1 /\ l = 2 /\ hi = set[1] /\ lo = set[2]
         \/ w = 2 /\ l = 1 /\ hi = set[2] /\ lo = set[1]
  BY DEF SetScore, Slot, Leader, Opp
<1>3. hi >= GamePoint /\ hi - lo >= WinBy /\ (hi > GamePoint => hi - lo = WinBy)
  BY DEF LegalSet
<1>4. n > 0 /\ IsSetWon(set)
  BY <1>1, <1>2, <1>3 DEF IsSetWon
<1>5. ASSUME NEW i \in 0..(n - 1) PROVE ~IsSetWon(Count(set, i))
  <2>1. i \in Nat /\ i < n
    BY <1>2
  <2>2. \A s \in {1, 2} : Count(set, i)[s] =
          IF i > 2 * lo THEN IF s = w THEN i - lo ELSE lo
          ELSE IF s = 1 THEN (i + 1) \div 2 ELSE i \div 2
    BY DEF Count, Slot
  <2>3. CASE i > 2 * lo
    <3>1. \/ Count(set, i)[1] = i - lo /\ Count(set, i)[2] = lo
          \/ Count(set, i)[2] = i - lo /\ Count(set, i)[1] = lo
      BY <1>2, <2>2, <2>3
    <3> HIDE DEF hi, lo, n, w, l
    <3>2. ~(i - lo >= GamePoint /\ i - lo - lo >= WinBy) /\ lo < i - lo /\ i - lo \in Nat
      BY <1>1, <1>2, <1>3, <2>1, <2>3
    <3> QED BY <1>1, <1>2, <3>1, <3>2 DEF IsSetWon
  <2>4. CASE ~(i > 2 * lo)
    <3>1. Count(set, i)[1] = (i + 1) \div 2 /\ Count(set, i)[2] = i \div 2
      BY <2>2, <2>4
    <3>2. (i + 1) \div 2 - i \div 2 \in {0, 1}
      BY <2>1
    <3> HIDE DEF hi, lo, n, w, l
    <3>3. (i + 1) \div 2 \in Nat /\ i \div 2 \in Nat
      BY <2>1
    <3> QED BY <1>1, <3>1, <3>2, <3>3 DEF IsSetWon
  <2> QED BY <2>3, <2>4
<1> HIDE DEF n
<1>6. \A i \in 0..(n - 1) : ~IsSetWon(Count(set, i))
  BY <1>5
<1> QED BY <1>4, <1>6 DEF n

(* So far everything has been taken: these sets, and no majority but now.  *)
Through(p, sets) ==
    /\ p \in Played /\ p.ok /\ Kept(p.st) /\ p.st.sets = sets /\ p.st.cur = NoPoints
    /\ p.st.status = "FINISHED" => \E s \in Slot : HasMajority(sets, s)

(* A point that ends its set just where it should is taken.                *)
GoneThrough(p, c, s, q, last) ==
    /\ q.ok /\ Kept(q.st)
    /\ ~last => q.st.sets = p.st.sets /\ q.st.cur = c /\ q.st.status # "FINISHED"
    /\ last => /\ q.st.sets = Append(p.st.sets, c) /\ q.st.cur = NoPoints
               /\ q.st.status = "FINISHED" => HasMajority(Append(p.st.sets, c), s)

LEMMA PointGoesThrough ==
    ASSUME NEW p \in Played, p.ok, Kept(p.st), p.st.status # "FINISHED", NEW s \in Slot,
           NEW c, c = PointIn(p.st, s), NEW i \in Nat, NEW n \in Nat, IsSetWon(c) <=> i = n,
           NEW q, q = PointOf(p, BestOf, s, i, n)
    PROVE  GoneThrough(p, c, s, q, i = n)
<1> DEFINE y == ApplyPoint(p.st, BestOf, s)
<1>1. p.st \in Score /\ Sheet(p.st) /\ Open(p.st) /\ p.st.sets \in Seq(SetScore)
  BY DEF Kept, Sheet, Score
<1>2. Kept(y) /\ (y.status = "FINISHED" <=> y.won[s] >= SetsToWin(BestOf)) /\ Made(p.st, c, y)
  BY <1>1, PointKeeps, PointIsMade
<1> HIDE DEF y
<1>3. Len(y.sets) > Len(p.st.sets) <=> i = n
  <2>1. /\ IsSetWon(c) => y.sets = Append(p.st.sets, c)
        /\ ~IsSetWon(c) => y.sets = p.st.sets
        /\ c \in SetScore
    BY <1>2 DEF Made
  <2>2. Len(p.st.sets) \in Nat /\ Len(Append(p.st.sets, c)) = Len(p.st.sets) + 1
    BY <1>1, <2>1
  <2> QED BY <2>1, <2>2
<1>4. q = [ok |-> EndsAtLast(Len(y.sets) > Len(p.st.sets), i = n), st |-> y,
           all |-> Append(p.all, s)]
  BY DEF PointOf, TakePoint, y
<1>5. EndsAtLast(Len(y.sets) > Len(p.st.sets), i = n)
  BY <1>3 DEF EndsAtLast
<1>6. q.ok /\ q.st = y
  BY <1>4, <1>5
<1>7. y.status = "FINISHED" => HasMajority(y.sets, s)
  <2>1. y.sets \in Seq(SetScore) /\ y.won[s] = SetsTaken(y.sets, s)
    BY <1>2 DEF Kept, Sheet, Score
  <2> QED BY <1>2, <2>1, MajorityIs
<1>8. CASE i = n
  BY <1>2, <1>6, <1>7, <1>8 DEF Made, GoneThrough
<1>9. CASE i # n
  BY <1>2, <1>6, <1>9 DEF Made, GoneThrough
<1> QED BY <1>8, <1>9

LEMMA SetGoesThrough ==
    ASSUME WinBy >= 2, NEW p \in Played, NEW done \in Seq(SetScore), Through(p, done),
           p.st.status # "FINISHED", NEW set \in SetScore, LegalSet(set)
    PROVE  Through(PlaySet(p, BestOf, set), Append(done, set))
<1> DEFINE order == SetOrder(set)  n == Len(order)
<1>1. /\ order \in Seq(Slot) /\ n \in Nat /\ n = set[1] + set[2]
      /\ \A i \in 1..n : order[i] \in Slot
      /\ Count(set, 0) = NoPoints /\ Count(set, n) = set
      /\ \A i \in 1..n : Count(set, i) = [Count(set, i - 1) EXCEPT ![order[i]] = @ + 1]
  BY OrderOfSet
<1>2. n > 0 /\ IsSetWon(set) /\ \A i \in 0..(n - 1) : ~IsSetWon(Count(set, i))
  BY <1>1, LegalSetLasts
<1>3. BestOf \in Nat \ {0}
  BY MatchAssumption
<1>4. PICK f : Course(p, BestOf, set, f)
  BY <1>3, SetUnfolds
<1>5. /\ f \in [0..n -> Played] /\ f[0] = [p EXCEPT !.ok = @ /\ order # <<>>]
      /\ \A i \in 1..n : f[i] = PointOf(f[i - 1], BestOf, order[i], i, n)
      /\ f[n] = PlaySet(p, BestOf, set)
  BY <1>4 DEF Course
<1>6. f[0].ok /\ f[0].st = p.st
  <2>1. order # <<>>
    BY <1>2
  <2> QED BY <1>5, <2>1 DEF Through, Played
<1> HIDE DEF order, n
<1> DEFINE Upto(i) ==
              /\ f[i].ok /\ Kept(f[i].st)
              /\ i # n => /\ f[i].st.sets = done /\ f[i].st.cur = Count(set, i)
                          /\ f[i].st.status # "FINISHED"
              /\ i = n => /\ f[i].st.sets = Append(done, set) /\ f[i].st.cur = NoPoints
                          /\ f[i].st.status = "FINISHED" =>
                                \E s \in Slot : HasMajority(Append(done, set), s)
           T == {i \in 0..n : Upto(i)}
<1>7. 0 \in T
  BY <1>1, <1>2, <1>6 DEF Through
<1>8. ASSUME NEW i \in 1..n, i - 1 \in T PROVE i \in T
  <2> DEFINE b == f[i - 1]  c == PointIn(b.st, order[i])
  <2>1. /\ i - 1 \in 0..n /\ i - 1 # n /\ i \in 0..n /\ i \in Nat
        /\ f[i] = PointOf(b, BestOf, order[i], i, n) /\ order[i] \in Slot
    BY <1>1, <1>5
  <2>2. /\ b \in Played /\ b.ok /\ Kept(b.st) /\ b.st.sets = done
        /\ b.st.cur = Count(set, i - 1) /\ b.st.status # "FINISHED"
    BY <1>5, <1>8, <2>1
  <2> HIDE DEF b
  <2>3. c = Count(set, i)
    BY <1>1, <2>2 DEF PointIn
  <2>4. IsSetWon(c) <=> i = n
    BY <1>1, <1>2, <2>1, <2>3
  <2> HIDE DEF c
  <2>5. GoneThrough(b, c, order[i], f[i], i = n)
    BY <1>1, <2>1, <2>2, <2>4, PointGoesThrough DEF c
  <2>6. i = n => c = set
    BY <1>1, <2>3
  <2>7. Upto(i)
    BY <2>1, <2>2, <2>3, <2>5, <2>6 DEF GoneThrough
  <2> QED BY <2>1, <2>7
<1>9. n \in T
  <2>1. T \in SUBSET (0..n)
    OBVIOUS
  <2> HIDE DEF T
  <2>2. 0..n \subseteq T
    BY <1>1, <1>7, <1>8, <2>1, StepByStep
  <2> QED BY <1>1, <2>2
<1> QED BY <1>1, <1>5, <1>9 DEF Through

LEMMA WholeIsAccepted ==
    ASSUME WinBy >= 2, sent \in Seq(SetScore), WholeMatch, Recorded(sent)
    PROVE  PlanReplay(sent, BestOf).ok
<1> DEFINE n == Len(sent)
<1>1. n \in Nat /\ \A i \in 1..n : sent[i] \in SetScore /\ LegalSet(sent[i])
  BY DEF WholeMatch
<1>2. BestOf \in Nat \ {0}
  BY MatchAssumption
<1>3. PICK f : Stages(sent, BestOf, f)
  BY <1>2, PlanUnfolds
<1>4. /\ f \in [0..n -> Played]
      /\ f[0] = [ok |-> sent # <<>>, st |-> InitialState, all |-> <<>>]
      /\ \A i \in 1..n : f[i] = PlaySet(f[i - 1], BestOf, sent[i])
      /\ PlanReplay(sent, BestOf).ok <=> f[n].ok /\ f[n].st.status = "FINISHED"
  BY <1>3 DEF Stages
<1>5. PICK s \in Slot : HasMajority(sent, s)
  BY DEF WholeMatch
<1>6. \A m \in 0..(n - 1), t \in Slot : ~HasMajority(SubSeq(sent, 1, m), t)
  BY DEF WholeMatch
<1>7. SubSeq(sent, 1, n) = sent
  OBVIOUS
<1>8. sent # <<>>
  <2> SUFFICES ASSUME sent = <<>> PROVE FALSE
    OBVIOUS
  <2>1. SetsTaken(sent, s) = 0
    BY InitialIsKept DEF Kept, Sheet, InitialState, NoPoints
  <2>2. SetsTaken(sent, s) >= SetsToWin(BestOf)
    BY <1>5, MajorityIs
  <2> QED BY <2>1, <2>2, MajorityIsNeeded
<1> HIDE DEF n
<1> DEFINE T == {i \in 0..n : Through(f[i], SubSeq(sent, 1, i))}
<1>9. 0 \in T
  <2>1. SubSeq(sent, 1, 0) = <<>>
    OBVIOUS
  <2>2. f[0] \in Played /\ f[0].ok /\ f[0].st = InitialState
    <3>1. 0 \in 0..n
      BY <1>1
    <3>2. f[0] \in Played /\ f[0].st = InitialState
      BY <1>4, <3>1
    <3>3. f[0].ok = (sent # <<>>)
      BY <1>4
    <3> QED BY <1>8, <3>2, <3>3
  <2>3. InitialState.status # "FINISHED" /\ InitialState.sets = <<>> /\ InitialState.cur = NoPoints
    BY DEF InitialState
  <2>4. Through(f[0], <<>>)
    BY <2>2, <2>3, InitialIsKept DEF Through
  <2>5. Through(f[0], SubSeq(sent, 1, 0))
    BY <2>1, <2>4
  <2> QED BY <1>1, <2>5
<1>10. ASSUME NEW i \in 1..n, i - 1 \in T PROVE i \in T
  <2> DEFINE done == SubSeq(sent, 1, i - 1)
  <2>1. /\ i \in 0..n /\ i - 1 \in 0..n /\ i - 1 \in 0..(n - 1)
        /\ done \in Seq(SetScore) /\ SubSeq(sent, 1, i) = Append(done, sent[i])
        /\ sent[i] \in SetScore /\ LegalSet(sent[i])
    BY <1>1 DEF n
  <2>2. f[i - 1] \in Played /\ Through(f[i - 1], done) /\ f[i] = PlaySet(f[i - 1], BestOf, sent[i])
    BY <1>4, <1>10, <2>1
  <2>3. f[i - 1].st.status # "FINISHED"
    BY <1>6, <2>1, <2>2 DEF Through
  <2> HIDE DEF done
  <2>4. Through(f[i], Append(done, sent[i]))
    BY <2>1, <2>2, <2>3, SetGoesThrough
  <2> QED BY <2>1, <2>4
<1>11. n \in T
  <2>1. T \in SUBSET (0..n)
    OBVIOUS
  <2> HIDE DEF T
  <2>2. 0..n \subseteq T
    BY <1>1, <1>9, <1>10, <2>1, StepByStep
  <2> QED BY <1>1, <2>2
<1>12. Through(f[n], sent)
  BY <1>7, <1>11 DEF n
<1>13. f[n].st.status = "FINISHED"
  <2>1. SUFFICES ASSUME f[n].st.status # "FINISHED" PROVE FALSE
    OBVIOUS
  <2>2. f[n].st.won[s] < SetsToWin(BestOf) /\ f[n].st.won[s] = SetsTaken(sent, s)
    BY <1>12, <2>1 DEF Through, Kept, Open, Sheet
  <2>3. SetsTaken(sent, s) \in Nat /\ SetsTaken(sent, s) >= SetsToWin(BestOf)
    BY <1>5, MajorityIs, TakenIsFinite
  <2> QED BY <2>2, <2>3, MajorityIsNeeded
<1> QED BY <1>4, <1>12, <1>13 DEF Through

(* The points of a plan that is ok, given to a match, make its scores.     *)
LEMMA PlanRestores == ASSUME sent \in Seq(SetScore) PROVE PlanRestoresTheSets
<1> DEFINE plan == PlanReplay(sent, BestOf)
           n == Len(plan.order)
           R(f) == [i \in 0..n |-> IF i = 0 THEN InitialState
                                   ELSE ApplyPoint(f[i - 1], BestOf, plan.order[i])]
           after == CHOOSE f : f = R(f)
<1> SUFFICES ASSUME plan.ok
             PROVE  /\ after[n].sets = sent
                    /\ \A i \in DOMAIN plan.order : after[i].status = "FINISHED" <=> i = n
  BY DEF PlanRestoresTheSets
<1>1. BestOf \in Nat \ {0}
  BY MatchAssumption
<1>2. plan.order \in Seq(Slot)
  BY <1>1, PlanIsSound
<1>3. PICK tr : /\ Leads(plan.order, BestOf, tr) /\ tr[n].status = "FINISHED"
                /\ tr[n].sets = sent
  BY <1>1, PlanIsSound
<1> HIDE DEF plan
<1>4. n \in Nat /\ DOMAIN plan.order = 1..n
  BY <1>2
<1>5. tr = R(tr)
  <2>1. tr = [i \in 0..n |-> tr[i]]
    BY <1>3 DEF Leads
  <2>2. ASSUME NEW i \in 0..n PROVE tr[i] = R(tr)[i]
    <3>1. CASE i = 0
      BY <1>3, <3>1 DEF Leads
    <3>2. CASE i # 0
      <4>1. i \in 1..n
        BY <1>4, <3>2
      <4> QED BY <1>3, <3>2, <4>1 DEF Leads
    <3> QED BY <3>1, <3>2
  <2>3. R(tr) = [i \in 0..n |-> R(tr)[i]]
    OBVIOUS
  <2> HIDE DEF R
  <2> QED BY <2>1, <2>2, <2>3
<1>6. after = R(after)
  <2> HIDE DEF R
  <2> QED BY <1>5
<1>7. /\ after[0] = InitialState
      /\ \A i \in 1..n : after[i] = ApplyPoint(after[i - 1], BestOf, plan.order[i])
  <2>1. \A i \in 0..n : after[i] = R(after)[i]
    BY <1>6
  <2> HIDE DEF after
  <2>2. 0 \in 0..n /\ \A i \in 1..n : i \in 0..n /\ i # 0
    BY <1>4
  <2> QED BY <2>1, <2>2
<1> HIDE DEF after, R, n
<1> DEFINE T == {i \in 0..n : after[i] = tr[i]}
<1>8. 0..n \subseteq T
  <2>1. 0 \in T
    BY <1>3, <1>4, <1>7 DEF Leads
  <2>2. ASSUME NEW i \in 1..n, i - 1 \in T PROVE i \in T
    <3>1. i \in 0..n /\ after[i - 1] = tr[i - 1]
      BY <1>4, <2>2
    <3> QED BY <1>3, <1>7, <3>1 DEF Leads, n
  <2>3. T \in SUBSET (0..n)
    OBVIOUS
  <2> HIDE DEF T
  <2> QED BY <1>4, <2>1, <2>2, <2>3, StepByStep
<1>9. after[n].sets = sent
  BY <1>3, <1>4, <1>8
<1>10. ASSUME NEW i \in 1..n PROVE after[i].status = "FINISHED" <=> i = n
  <2>1. after[i] = tr[i]
    BY <1>4, <1>8
  <2>2. CASE i = n
    BY <1>3, <2>1, <2>2
  <2>3. CASE i # n
    <3>1. i + 1 \in 1..n /\ (i + 1) - 1 = i
      BY <1>4, <2>3
    <3>2. tr[i].status # "FINISHED"
      BY <1>3, <3>1 DEF Leads, n
    <3> QED BY <2>1, <2>3, <3>2
  <2> QED BY <2>2, <2>3
<1> QED BY <1>4, <1>9, <1>10

(* A list of sets, however long, is replayed if and only if it is a whole  *)
(* match by the rules, and then to the very match; for any odd number of   *)
(* sets and any length of one, and a lead of at least two (planReplay).    *)
THEOREM WholeMatchesAreReplayed == WinBy >= 2 /\ SentSpec => []ReplayIsTheMatch
<1> DEFINE Lists == sent \in Seq(SetScore)
<1>1. NothingSent => Lists
  BY DEF NothingSent
<1>2. Lists /\ [OneSetMore]_sent => Lists'
  <2>1. ASSUME Lists, NEW set \in [Slot -> SetScores], sent' = Append(sent, set) PROVE Lists'
    <3>1. set \in SetScore
      BY SentAssumption DEF SetScore
    <3> QED BY <2>1, <3>1
  <2> QED BY <2>1 DEF OneSetMore
<1>3. WinBy >= 2 /\ Lists => ReplayIsTheMatch
  <2> SUFFICES ASSUME WinBy >= 2, Lists PROVE ReplayIsTheMatch
    OBVIOUS
  <2>1. PlanReplay(sent, BestOf).ok => WholeMatch /\ Recorded(sent)
    BY AcceptedIsWhole
  <2>2. WholeMatch /\ Recorded(sent) => PlanReplay(sent, BestOf).ok
    BY WholeIsAccepted
  <2>3. AcceptedIffWholeMatch
    BY <2>1, <2>2 DEF AcceptedIffWholeMatch, Recorded
  <2> QED BY <2>3, PlanRestores DEF ReplayIsTheMatch
<1>4. WinBy >= 2 /\ [OneSetMore]_sent => (WinBy >= 2)'
  OBVIOUS
<1> QED BY <1>1, <1>2, <1>3, <1>4, PTL DEF SentSpec

----------------------------------------------------------------------------
(* What a board says is posted, is over on the site, or was                *)

Over(m) == site[m].status = "FINISHED" \/ m \in reopened

(* Courts, calls and the call waited for, as far as they are looked at. *)
Kinds ==
    /\ DOMAIN site = Match
    /\ court \in Court /\ saved \in Court /\ past \in Seq(Court)
    /\ request \in [Request -> Call]
    /\ push \in [call : Request, held : BOOLEAN] \cup {None}

(* A call that is at work is about a match, and its answer is true.        *)
Answers ==
    \A r \in Request :
        /\ request[r].phase # "none" => request[r].match \in Match
        /\ request[r].phase = "finished" => Over(request[r].match)

(* The call waited for is at work, and its court has no other match.       *)
Waits ==
    push # None =>
        /\ request[push.call].phase # "none" /\ request[push.call].sets \in Results
        /\ push.held /\ ~crossed => court.match \in {request[push.call].match, None}

(* A court that is posted, shown, saved or on the undo stack.              *)
Posted(c) == c.posted /\ c.match # None /\ ~crossed => Over(c.match)
Courts == Posted(court) /\ Posted(saved) /\ \A i \in 1..Len(past) : Posted(past[i])

Inv == Kinds /\ Answers /\ Waits /\ Courts

----------------------------------------------------------------------------
(* The site *)

(* A match that is over on the site is over for good or was reopened.      *)
OverStays == \A m \in Match : Over(m) => Over(m)'

LEMMA SiteKeepsResults ==
    ASSUME Kinds, [Next]_vars
    PROVE  OverStays /\ DOMAIN site' = Match
<1>1. CASE UNCHANGED <<site, reopened>>
  BY <1>1 DEF Kinds, OverStays, Over
<1>2. ASSUME NEW m, NEW st, site[m].status # "FINISHED", site' = [site EXCEPT ![m] = st],
             UNCHANGED reopened
      PROVE  OverStays /\ DOMAIN site' = Match
  BY <1>2 DEF Kinds, OverStays, Over
<1>3. ASSUME NEW r \in Request, ReplayPoint(r) PROVE OverStays /\ DOMAIN site' = Match
  <2>1. \/ UNCHANGED <<site, reopened>>
        \/ /\ site[request[r].match].status # "FINISHED" /\ UNCHANGED reopened
           /\ \E st : site' = [site EXCEPT ![request[r].match] = st]
    BY <1>3 DEF ReplayPoint, Given
  <2> QED BY <1>1, <1>2, <2>1
<1>4. ASSUME NEW m \in Match, NEW s \in Slot, SitePoint(m, s)
      PROVE  OverStays /\ DOMAIN site' = Match
  <2>1. /\ site[m].status # "FINISHED" /\ UNCHANGED reopened
        /\ \E st : site' = [site EXCEPT ![m] = st]
    BY <1>4 DEF SitePoint, Given
  <2> QED BY <1>2, <2>1
<1>5. ASSUME NEW m \in Match, SiteDisqualify(m) PROVE OverStays /\ DOMAIN site' = Match
  BY <1>2, <1>5 DEF SiteDisqualify
<1>6. ASSUME NEW m \in Match, SiteUndo(m) PROVE OverStays /\ DOMAIN site' = Match
  <2>1. PICK st : site' = [site EXCEPT ![m] = st]
    BY <1>6 DEF SiteUndo
  <2>2. /\ reopened \subseteq reopened'
        /\ site[m].status = "FINISHED" => m \in reopened'
    BY <1>6 DEF SiteUndo
  <2> QED BY <2>1, <2>2 DEF Kinds, OverStays, Over
<1>7. CASE UNCHANGED vars
  BY <1>1, <1>7 DEF vars
<1>8. CASE BoardStep
  BY <1>1, <1>8 DEF BoardStep, StartSite, StartHall, Finish, NewMatch, ResetAll, Undo, Persist,
                    Step, Operation, siteVars, recordVars
<1>9. CASE BridgeStep
  BY <1>1, <1>9 DEF BridgeStep, Push, Receive, GiveUp, RestartBoard, recordVars
<1>10. CASE \/ RestartSite
            \/ \E m \in Match : EnterCode(m) \/ Unpair(m) \/ Pair(m)
            \/ \E r \in Request : ReadMatch(r) \/ Admit(r) \/ Report(r)
  BY <1>1, <1>10 DEF RestartSite, EnterCode, Unpair, Pair, ReadMatch, Admit, Report, recordVars
<1> QED BY <1>3, <1>4, <1>5, <1>6, <1>7, <1>8, <1>9, <1>10
        DEF Next, SiteStep, CallStep, RefereeOnSite

(* What the site does with a call keeps the invariant: it goes on with its *)
(* match and its sets, and `finished` means that the match is over.        *)
LEMMA CallsStep ==
    ASSUME Inv, OverStays, DOMAIN site' = Match,
           UNCHANGED <<court, past, saved, push, crossed>>,
           request' \in [Request -> Call],
           \A r \in Request :
              \/ request'[r] = request[r]
              \/ request'[r].phase = "none" /\ ~Awaited(r)
              \/ /\ request[r].phase # "none"
                 /\ request'[r].match = request[r].match /\ request'[r].sets = request[r].sets
                 /\ request'[r].phase # "none"
                 /\ request'[r].phase = "finished" =>
                       \/ request[r].phase = "finished"
                       \/ Over(request[r].match)
    PROVE  Inv'
<1>1. Kinds'
  BY DEF Inv, Kinds
<1>2. Answers'
  BY DEF Inv, Answers, Over, OverStays
<1>3. Waits'
  <2> SUFFICES ASSUME push # None PROVE Waits'
    BY DEF Waits
  <2>1. push.call \in Request
    BY DEF Inv, Kinds
  <2>2. /\ request'[push.call].phase # "none"
        /\ request'[push.call].match = request[push.call].match
        /\ request'[push.call].sets = request[push.call].sets
    BY <2>1 DEF Inv, Waits, Awaited
  <2> QED BY <2>2 DEF Inv, Waits
<1>4. ASSUME NEW c \in Court, Posted(c) PROVE Posted(c)'
  BY <1>4 DEF Posted, Over, OverStays, Court
<1>5. Courts'
  BY <1>4 DEF Inv, Kinds, Courts
<1> QED BY <1>1, <1>2, <1>3, <1>5 DEF Inv

LEMMA ReplyIs ==
    ASSUME Inv, NEW r \in Request, request[r].phase # "none", NEW answer \in Answer,
           Reply(r, answer)
    PROVE  /\ request' \in [Request -> Call]
           /\ \A q \in Request \ {r} : request'[q] = request[q]
           /\ \/ ~Awaited(r) /\ request'[r].phase = "none"
              \/ /\ request'[r].match = request[r].match /\ request'[r].sets = request[r].sets
                 /\ request'[r].phase = answer
<1>1. NoCall \in Call /\ NoCall.phase = "none"
  BY DEF NoCall, Call
<1>2. request[r] \in Call
  BY DEF Inv, Kinds
<1> DEFINE y == IF Awaited(r) THEN [request[r] EXCEPT !.phase = answer] ELSE NoCall
<1>3. request' = [request EXCEPT ![r] = y]
  BY DEF Reply
<1>4. y \in Call
  BY <1>1, <1>2 DEF Call
<1>5. \/ ~Awaited(r) /\ y.phase = "none"
      \/ y.match = request[r].match /\ y.sets = request[r].sets /\ y.phase = answer
  BY <1>1, <1>2 DEF Call
<1> HIDE DEF y
<1> QED BY <1>3, <1>4, <1>5 DEF Inv, Kinds

LEMMA SiteStepKeeps ==
    ASSUME Inv, SiteStep, OverStays, DOMAIN site' = Match
    PROVE  Inv'
<1> USE DEF Answer
<1>1. ASSUME NEW r \in Request, request[r].phase # "none", NEW answer \in Answer,
             Reply(r, answer), answer = "finished" => Over(request[r].match),
             UNCHANGED <<court, past, saved, push, crossed>>
      PROVE  Inv'
  <2>1. /\ request' \in [Request -> Call]
        /\ \A q \in Request \ {r} : request'[q] = request[q]
        /\ \/ ~Awaited(r) /\ request'[r].phase = "none"
           \/ /\ request'[r].match = request[r].match /\ request'[r].sets = request[r].sets
              /\ request'[r].phase = answer
    BY <1>1, ReplyIs
  <2>2. answer # "none"
    OBVIOUS
  <2> QED BY <1>1, <2>1, <2>2, CallsStep
<1>2. ASSUME NEW r \in Request, request[r].phase # "none", NEW next \in Call,
             request' = [request EXCEPT ![r] = next],
             next.match = request[r].match, next.sets = request[r].sets,
             next.phase \in {"read", "replay"},
             UNCHANGED <<court, past, saved, push, crossed>>
      PROVE  Inv'
  <2>1. request' \in [Request -> Call] /\ request'[r] = next
        /\ \A q \in Request \ {r} : request'[q] = request[q]
    BY <1>2 DEF Inv, Kinds
  <2> QED BY <1>2, <2>1, CallsStep
<1>3. CASE UNCHANGED <<court, past, saved, push, crossed, request>>
  BY <1>3, CallsStep DEF Inv, Kinds
<1>4. ASSUME NEW r \in Request, ReadMatch(r) PROVE Inv'
  <2>1. request[r].phase = "sent" /\ UNCHANGED <<court, past, saved, push, crossed>>
    BY <1>4 DEF ReadMatch
  <2>2. CASE site[request[r].match].status = "FINISHED"
    BY <1>1, <1>4, <2>1, <2>2 DEF ReadMatch, Over
  <2>3. CASE /\ site[request[r].match].status # "FINISHED"
             /\ request[r].match \in unplayable \/ ~Plan(r).ok
    BY <1>1, <1>4, <2>1, <2>3 DEF ReadMatch
  <2>4. CASE /\ site[request[r].match].status # "FINISHED"
             /\ request[r].match \notin unplayable /\ Plan(r).ok
    <3> DEFINE next == [request[r] EXCEPT !.phase = "read", !.begun = Begun(request[r].match)]
    <3>1. request' = [request EXCEPT ![r] = next]
      BY <1>4, <2>4 DEF ReadMatch
    <3>2. /\ next \in Call /\ next.match = request[r].match /\ next.sets = request[r].sets
          /\ next.phase = "read"
      BY DEF Inv, Kinds, Call, Begun
    <3> HIDE DEF next
    <3> QED BY <1>2, <2>1, <3>1, <3>2
  <2> QED BY <2>2, <2>3, <2>4
<1>5. ASSUME NEW r \in Request, Admit(r) PROVE Inv'
  <2>1. request[r].phase = "read" /\ UNCHANGED <<court, past, saved, push, crossed>>
    BY <1>5 DEF Admit
  <2>2. CASE ~Fresh(r)
    BY <1>1, <1>5, <2>1, <2>2 DEF Admit
  <2>3. CASE Fresh(r)
    <3> DEFINE next == [request[r] EXCEPT !.phase = "replay"]
    <3>1. request' = [request EXCEPT ![r] = next]
      BY <1>5, <2>3 DEF Admit, Inv, Kinds
    <3>2. /\ next \in Call /\ next.match = request[r].match /\ next.sets = request[r].sets
          /\ next.phase = "replay"
      BY DEF Inv, Kinds, Call
    <3> HIDE DEF next
    <3> QED BY <1>2, <2>1, <3>1, <3>2
  <2> QED BY <2>2, <2>3
<1>6. ASSUME NEW r \in Request, ReplayPoint(r) PROVE Inv'
  <2>1. request[r].phase = "replay" /\ UNCHANGED <<court, past, saved, push, crossed>>
    BY <1>6 DEF ReplayPoint
  <2>2. CASE site[request[r].match].status = "FINISHED" \/ request[r].match \in unplayable
    BY <1>1, <1>6, <2>1, <2>2 DEF ReplayPoint
  <2>3. CASE ~(site[request[r].match].status = "FINISHED" \/ request[r].match \in unplayable)
    <3> DEFINE next == [request[r] EXCEPT !.given = @ + 1]
    <3>1. request' = [request EXCEPT ![r] = next]
      BY <1>6, <2>3 DEF ReplayPoint, Inv, Kinds
    <3>2. /\ next \in Call /\ next.match = request[r].match /\ next.sets = request[r].sets
          /\ next.phase = "replay"
      <4>1. request[r] \in Call /\ request[r].given + 1 \in Nat
        BY DEF Inv, Kinds, Call
      <4> QED BY <2>1, <4>1 DEF Call
    <3> HIDE DEF next
    <3> QED BY <1>2, <2>1, <3>1, <3>2
  <2> QED BY <2>2, <2>3
<1>7. ASSUME NEW r \in Request, Report(r) PROVE Inv'
  BY <1>1, <1>7 DEF Report, Over
<1>8. CASE RestartSite
  <2> DEFINE next(r) == IF ~Awaited(r) THEN NoCall
                        ELSE IF request[r].phase \in Answer THEN request[r]
                        ELSE [request[r] EXCEPT !.phase = "error"]
  <2>1. request' = [r \in Request |-> next(r)]
    BY <1>8 DEF RestartSite
  <2>2. ASSUME NEW r \in Request
        PROVE  /\ next(r) \in Call
               /\ \/ next(r) = request[r]
                  \/ next(r).phase = "none" /\ ~Awaited(r)
                  \/ /\ request[r].phase # "none"
                     /\ next(r).match = request[r].match /\ next(r).sets = request[r].sets
                     /\ next(r).phase = "error"
    <3>1. request[r] \in Call
      BY DEF Inv, Kinds
    <3>2. CASE ~Awaited(r)
      BY <3>2 DEF NoCall, Call
    <3>3. CASE Awaited(r)
      <4>1. request[r].phase # "none"
        BY <3>3 DEF Awaited, Inv, Waits
      <4> QED BY <3>1, <3>3, <4>1 DEF Call
    <3> QED BY <3>2, <3>3
  <2> HIDE DEF next
  <2>3. \A r \in Request : request'[r] = next(r)
    BY <2>1
  <2>4. request' \in [Request -> Call]
    BY <2>1, <2>2
  <2>5. UNCHANGED <<court, past, saved, push, crossed>>
    BY <1>8 DEF RestartSite
  <2>6. \A r \in Request :
              \/ request'[r] = request[r]
              \/ request'[r].phase = "none" /\ ~Awaited(r)
              \/ /\ request[r].phase # "none"
                 /\ request'[r].match = request[r].match /\ request'[r].sets = request[r].sets
                 /\ request'[r].phase = "error"
    BY <2>2, <2>3
  <2> QED BY <2>4, <2>5, <2>6, CallsStep
<1>9. CASE \E m \in Match : RefereeOnSite(m)
  BY <1>3, <1>9 DEF RefereeOnSite, EnterCode, SitePoint, SiteDisqualify, SiteUndo, Unpair, Pair,
                    Unseen, restVars
<1> QED BY <1>4, <1>5, <1>6, <1>7, <1>8, <1>9 DEF SiteStep, CallStep

----------------------------------------------------------------------------
(* The board *)

LEMMA EmptyCourtIs == EmptyCourt \in Court /\ EmptyCourt.match = None /\ ~EmptyCourt.posted
  BY DEF EmptyCourt, Court

(* An operation puts a court in place that is not posted, or that is of    *)
(* the match there was, or of no match, or one that was there before.      *)
LEMMA BoardStepKeeps ==
    ASSUME Inv, BoardStep
    PROVE  Inv'
<1>1. UNCHANGED <<site, reopened, request>>
  BY DEF BoardStep, StartSite, StartHall, Finish, NewMatch, ResetAll, Undo, Persist, Step,
         Operation, siteVars, recordVars
<1>2. Answers'
  BY <1>1 DEF Inv, Answers, Over
<1>3. ASSUME NEW c \in Court, Posted(c), crossed => crossed' PROVE Posted(c)'
  BY <1>1, <1>3 DEF Posted, Over
<1>4. ASSUME NEW next \in Court, Step(next), Posted(next), crossed => crossed',
             \/ push # None => crossed'
             \/ next.match \in {court.match, None}
      PROVE  Inv'
  <2>1. court' = next /\ past' = Append(past, court) /\ UNCHANGED <<saved, push>>
    BY <1>4 DEF Step, Operation
  <2>2. Kinds'
    BY <1>1, <2>1 DEF Inv, Kinds
  <2>3. Waits'
    BY <1>1, <1>4, <2>1 DEF Inv, Waits
  <2>4. Posted(court)' /\ Posted(saved)'
    BY <1>3, <1>4, <2>1 DEF Inv, Courts, Kinds, Posted
  <2>5. ASSUME NEW i \in 1..Len(past') PROVE Posted(past[i])'
    <3>1. past \in Seq(Court) /\ court \in Court
      BY DEF Inv, Kinds
    <3>2. \/ i = Len(past) + 1 /\ past'[i] = court
          \/ i \in 1..Len(past) /\ past'[i] = past[i]
      BY <2>1, <3>1
    <3>3. past'[i] \in Court /\ Posted(past'[i])
      BY <3>1, <3>2 DEF Inv, Courts
    <3> QED BY <1>1, <1>4, <3>3 DEF Posted, Over
  <2> QED BY <1>2, <2>2, <2>3, <2>4, <2>5 DEF Inv, Courts
<1>5. ASSUME NEW m \in Match \cup {None}, NEW next \in Court, next.posted = FALSE, Step(next),
             crossed' = (crossed \/ push # None)
      PROVE  Inv'
  <2>1. Posted(next)
    BY <1>5 DEF Posted
  <2> QED BY <1>4, <1>5, <2>1
<1>6. ASSUME NEW m \in Match, StartSite(m) PROVE Inv'
  <2>1. Started(m) \in Court /\ Started(m).posted = FALSE
    BY EmptyCourtIs DEF Started, Court, EmptyCourt
  <2> QED BY <1>5, <1>6, <2>1 DEF StartSite
<1>7. ASSUME NEW m \in Match \cup {None}, StartHall(m) PROVE Inv'
  <2> DEFINE next == [Started(m) EXCEPT !.rejected = court.rejected]
  <2>1. next \in Court /\ next.posted = FALSE
    BY EmptyCourtIs DEF Started, Court, EmptyCourt, Inv, Kinds
  <2>2. Step(next) /\ crossed' = (crossed \/ push # None)
    BY <1>7 DEF StartHall
  <2> HIDE DEF next
  <2> QED BY <1>5, <2>1, <2>2
<1>8. ASSUME NEW sets \in Results \cup {NoSets}, Finish(sets) PROVE Inv'
  <2> DEFINE next == [court EXCEPT !.phase = "over", !.sets = sets]
  <2>1. next \in Court /\ next.match = court.match /\ next.posted = court.posted
    BY DEF Court, Inv, Kinds
  <2>2. Step(next) /\ UNCHANGED crossed
    BY <1>8 DEF Finish
  <2> HIDE DEF next
  <2>3. Posted(next)
    BY <2>1 DEF Inv, Courts, Posted
  <2> QED BY <1>4, <2>1, <2>2, <2>3
<1>9. CASE NewMatch
  <2> DEFINE next == Emptied(court)
  <2>1. next \in Court /\ next.match = None /\ next.posted = FALSE
    BY DEF Court, Inv, Kinds, Emptied
  <2>2. Step(next) /\ UNCHANGED crossed
    BY <1>9 DEF NewMatch
  <2> HIDE DEF next
  <2>3. Posted(next)
    BY <2>1 DEF Posted
  <2> QED BY <1>4, <2>1, <2>2, <2>3
<1>10. ASSUME push' = Detached, UNCHANGED <<saved, crossed>>, court' \in Court, Posted(court'),
              past' \in Seq(Court), \A i \in 1..Len(past') : Posted(past'[i])
       PROVE  Inv'
  <2>1. /\ push' # None =>
              push # None /\ push'.call = push.call /\ push'.held = FALSE
        /\ push' \in [call : Request, held : BOOLEAN] \cup {None}
    BY <1>10 DEF Detached, Inv, Kinds
  <2>2. Kinds'
    BY <1>1, <1>10, <2>1 DEF Inv, Kinds
  <2>3. Waits'
    BY <1>1, <2>1 DEF Inv, Waits
  <2>4. Courts'
    BY <1>1, <1>10 DEF Inv, Courts, Posted, Over
  <2> QED BY <1>2, <2>2, <2>3, <2>4 DEF Inv
<1>11. CASE ResetAll
  <2>1. /\ push' = Detached /\ UNCHANGED <<saved, crossed>>
        /\ court' = EmptyCourt /\ past' = Append(past, court)
    BY <1>11 DEF ResetAll, Operation
  <2>2. past \in Seq(Court) /\ court \in Court
    BY DEF Inv, Kinds
  <2>3. past' \in Seq(Court) /\ \A i \in 1..Len(past') : Posted(past'[i])
    BY <2>1, <2>2 DEF Inv, Courts
  <2>4. court' \in Court /\ Posted(court')
    BY <2>1, EmptyCourtIs DEF Posted
  <2> QED BY <1>10, <2>1, <2>3, <2>4
<1>12. CASE Undo
  <2>1. /\ push' = Detached /\ UNCHANGED <<saved, crossed>>
        /\ past # <<>> /\ court' = past[Len(past)] /\ past' = SubSeq(past, 1, Len(past) - 1)
    BY <1>12 DEF Undo, Operation
  <2>2. past \in Seq(Court) /\ Len(past) \in 1..Len(past)
    BY <2>1 DEF Inv, Kinds
  <2>3. past' \in Seq(Court) /\ \A i \in 1..Len(past') : Posted(past'[i])
    BY <2>1, <2>2 DEF Inv, Courts
  <2>4. court' \in Court /\ Posted(court')
    BY <2>1, <2>2 DEF Inv, Courts
  <2> QED BY <1>10, <2>1, <2>3, <2>4
<1>13. CASE Persist
  <2>1. saved' = court /\ UNCHANGED <<court, past, push, crossed>>
    BY <1>13 DEF Persist
  <2>2. Kinds' /\ Waits'
    BY <1>1, <2>1 DEF Inv, Kinds, Waits
  <2>3. Courts'
    BY <1>1, <2>1 DEF Inv, Courts, Posted, Over
  <2> QED BY <1>2, <2>2, <2>3 DEF Inv
<1> QED BY <1>6, <1>7, <1>8, <1>9, <1>11, <1>12, <1>13 DEF BoardStep

----------------------------------------------------------------------------
(* The bridge *)

(* A call that nobody waits for any more, and the courts of a restart.     *)
LEMMA CallLeft ==
    ASSUME Inv, UNCHANGED <<site, reopened, saved, crossed>>, push' = None,
           NEW q \in Request,
           request' = request \/ request' = [request EXCEPT ![q] = NoCall],
           court' \in Court, Posted(court'),
           past' \in Seq(Court), \A i \in 1..Len(past') : Posted(past'[i])
    PROVE  Inv'
<1>1. NoCall \in Call /\ NoCall.phase = "none"
  BY DEF NoCall, Call
<1>2. /\ request' \in [Request -> Call]
      /\ \A r \in Request : request'[r] = request[r] \/ request'[r].phase = "none"
  BY <1>1 DEF Inv, Kinds
<1>3. Kinds'
  BY <1>2 DEF Inv, Kinds
<1>4. Answers'
  BY <1>2 DEF Inv, Answers, Over
<1>5. Waits' /\ Courts'
  BY DEF Inv, Waits, Courts, Posted, Over
<1> QED BY <1>3, <1>4, <1>5 DEF Inv

LEMMA BridgeStepKeeps ==
    ASSUME Inv, BridgeStep
    PROVE  Inv'
<1>1. CASE Push
  <2>1. UNCHANGED <<site, reopened, court, past, saved, crossed>> /\ Due(court) /\ court \in Court
    BY <1>1 DEF Push, Inv, Kinds, recordVars
  <2>2. PICK r \in Request : /\ request[r].phase = "none"
                             /\ push' = [call |-> r, held |-> TRUE]
                             /\ request' = [request EXCEPT ![r] =
                                   [NoCall EXCEPT !.phase = "sent", !.match = court.match,
                                                  !.sets = court.sets]]
    BY <1>1 DEF Push
  <2> DEFINE next == [NoCall EXCEPT !.phase = "sent", !.match = court.match, !.sets = court.sets]
  <2>3. /\ next \in Call /\ next.phase = "sent" /\ next.match = court.match
        /\ next.sets = court.sets
    BY <2>1 DEF NoCall, Call, Court
  <2>4. court.match \in Match /\ court.sets \in Results
    BY <2>1 DEF Due, Court
  <2>5. request' = [request EXCEPT ![r] = next]
    BY <2>2
  <2> HIDE DEF next
  <2>6. /\ request' \in [Request -> Call] /\ request'[r] = next
        /\ \A q \in Request \ {r} : request'[q] = request[q]
    BY <2>3, <2>5 DEF Inv, Kinds
  <2>7. Kinds'
    BY <2>1, <2>2, <2>6 DEF Inv, Kinds
  <2>8. Answers'
    <3>1. UNCHANGED <<site, reopened>>
      BY <2>1
    <3>2. ASSUME NEW q \in Request
          PROVE  /\ request'[q].phase # "none" => request'[q].match \in Match
                 /\ request'[q].phase = "finished" => Over(request'[q].match)
      <4>1. CASE q = r
        BY <2>3, <2>4, <2>6, <4>1
      <4>2. CASE q # r
        BY <2>6, <4>2 DEF Inv, Answers
      <4> QED BY <4>1, <4>2
    <3> QED BY <3>1, <3>2 DEF Answers, Over
  <2>9. Waits'
    BY <2>1, <2>2, <2>3, <2>4, <2>6 DEF Waits
  <2>10. Courts'
    BY <2>1 DEF Inv, Courts, Posted, Over
  <2> QED BY <2>7, <2>8, <2>9, <2>10 DEF Inv
<1>2. CASE Receive
  <2> DEFINE q == push.call  answer == request[q].phase  sets == request[q].sets
  <2>1. /\ push # None /\ push' = None /\ UNCHANGED <<site, reopened, saved, past, crossed>>
        /\ request' = [request EXCEPT ![q] = NoCall]
    BY <1>2 DEF Receive, Pushed, recordVars
  <2>2. /\ q \in Request /\ court \in Court /\ sets \in Results
        /\ request[q].phase # "none"
    BY <2>1 DEF Inv, Kinds, Waits
  <2>3. \/ court' = court
        \/ /\ push.held /\ answer = "finished"
           /\ court' = [court EXCEPT !.posted = TRUE, !.rejected = NoResult]
        \/ court' = [court EXCEPT !.rejected = sets]
    BY <1>2 DEF Receive, Accepted
  <2>4. court' \in Court /\ Posted(court')
    <3>1. CASE court' = court
      BY <2>2, <3>1 DEF Inv, Courts
    <3>2. CASE push.held /\ answer = "finished"
               /\ court' = [court EXCEPT !.posted = TRUE, !.rejected = NoResult]
      <4>1. court' \in Court /\ court'.match = court.match
        BY <2>2, <3>2 DEF Court
      <4>2. ~crossed => court.match \in {request[q].match, None}
        BY <2>1, <3>2 DEF Inv, Waits
      <4>3. Over(request[q].match)
        BY <2>2, <3>2 DEF Inv, Answers
      <4> QED BY <4>1, <4>2, <4>3 DEF Posted
    <3>3. CASE court' = [court EXCEPT !.rejected = sets]
      <4>1. court' \in Court /\ court'.match = court.match /\ court'.posted = court.posted
        BY <2>2, <3>3 DEF Court
      <4> QED BY <4>1 DEF Inv, Courts, Posted
    <3> QED BY <2>3, <3>1, <3>2, <3>3
  <2>5. past' \in Seq(Court) /\ \A i \in 1..Len(past') : Posted(past'[i])
    BY <2>1 DEF Inv, Kinds, Courts
  <2> HIDE DEF q, answer, sets
  <2> QED BY <2>1, <2>2, <2>4, <2>5, CallLeft
<1>3. CASE GiveUp
  <2>1. /\ push # None /\ push' = None /\ UNCHANGED <<site, reopened, court, saved, past, crossed>>
        /\ request' = request \/ request' = [request EXCEPT ![push.call] = NoCall]
    BY <1>3 DEF GiveUp, Pushed, Abandon, recordVars
  <2>2. push.call \in Request /\ court' \in Court /\ past' \in Seq(Court)
    BY <2>1 DEF Inv, Kinds
  <2>3. Posted(court') /\ \A i \in 1..Len(past') : Posted(past'[i])
    BY <2>1 DEF Inv, Courts
  <2> QED BY <2>1, <2>2, <2>3, CallLeft
<1>4. CASE RestartBoard
  <2>1. /\ push' = None /\ UNCHANGED <<site, reopened, saved, crossed>> /\ court' = saved /\ past' = <<>>
        /\ \/ request' = request
           \/ push # None /\ request' = [request EXCEPT ![push.call] = NoCall]
    BY <1>4 DEF RestartBoard, Abandon, recordVars
  <2>2. court' \in Court /\ Posted(court')
    BY <2>1 DEF Inv, Kinds, Courts
  <2>3. past' \in Seq(Court) /\ \A i \in 1..Len(past') : Posted(past'[i])
    BY <2>1
  <2>4. CASE push = None
    <3>1. Kinds' /\ Waits'
      BY <2>1, <2>2, <2>3, <2>4 DEF Inv, Kinds, Waits
    <3>2. Answers' /\ Courts'
      BY <2>1, <2>3, <2>4 DEF Inv, Answers, Courts, Posted, Over
    <3> QED BY <3>1, <3>2 DEF Inv
  <2>5. CASE push # None
    <3>1. push.call \in Request
      BY <2>5 DEF Inv, Kinds
    <3> QED BY <2>1, <2>2, <2>3, <3>1, CallLeft
  <2> QED BY <2>4, <2>5
<1> QED BY <1>1, <1>2, <1>3, <1>4 DEF BridgeStep

----------------------------------------------------------------------------
LEMMA InitInv == Init => Inv
<1> SUFFICES ASSUME Init PROVE Inv
  OBVIOUS
<1>1. NoCall \in Call /\ NoCall.phase = "none"
  BY DEF NoCall, Call
<1>2. Kinds
  BY <1>1, EmptyCourtIs DEF Init, Kinds
<1>3. Answers /\ Waits
  BY <1>1 DEF Init, Answers, Waits
<1>4. Courts
  BY EmptyCourtIs DEF Init, Courts, Posted
<1> QED BY <1>2, <1>3, <1>4 DEF Inv

LEMMA NextInv == Inv /\ [Next]_vars => Inv'
<1> SUFFICES ASSUME Inv, [Next]_vars PROVE Inv'
  OBVIOUS
<1>1. OverStays /\ DOMAIN site' = Match
  BY SiteKeepsResults DEF Inv
<1>2. CASE SiteStep
  BY <1>1, <1>2, SiteStepKeeps
<1>3. CASE BoardStep
  BY <1>3, BoardStepKeeps
<1>4. CASE BridgeStep
  BY <1>4, BridgeStepKeeps
<1>5. CASE UNCHANGED vars
  BY <1>5 DEF vars, Inv, Kinds, Answers, Waits, Courts, Posted, Over
<1> QED BY <1>2, <1>3, <1>4, <1>5 DEF Next

(* Calls carry true answers, the call waited for is about the match of its *)
(* court, and no court in memory, on the undo stack or in the file claims  *)
(* a result that was never there: its match is over on the site, or was    *)
(* and a referee has taken its end back (push, resultAccepted, persist,    *)
(* applyResult, undo).                                                     *)
THEOREM Invariance == Spec => []Inv
<1> QED BY InitInv, NextInv, PTL DEF Spec

(* A court says posted only of a match that is over on the site, or was    *)
(* over there until a referee took its end back, for any number of calls   *)
(* at work, lost answers, retries, undos and restarts of either side,      *)
(* unless another match was started while a result was on its way (push,   *)
(* resultAccepted, undo).                                                  *)
THEOREM PostedIsTrue == Spec => []PostedIsRecorded
<1>1. Inv => PostedIsRecorded
  BY DEF Inv, Courts, Posted, Over, PostedIsRecorded
<1> QED BY <1>1, Invariance, PTL

----------------------------------------------------------------------------
(* What a replay alone makes of a match                                    *)

(* The points of an accepted result, and the scores they lead through.     *)
Taking(sets) == sets \in Results /\ PlanReplay(sets, SiteBestOf).ok
Order(sets) == PlanReplay(sets, SiteBestOf).order
LeadsTo(sets, tr) ==
    /\ Leads(Order(sets), SiteBestOf, tr) /\ tr[Len(Order(sets))].status = "FINISHED"
    /\ tr[Len(Order(sets))].sets = sets
Way(sets) == CHOOSE tr : LeadsTo(sets, tr)

LEMMA WayOfPlan ==
    ASSUME NEW sets, Taking(sets)
    PROVE  Order(sets) \in Seq(Slot) /\ LeadsTo(sets, Way(sets))
<1>1. sets \in Seq(SetScore) /\ SiteBestOf \in Nat \ {0} /\ PlanReplay(sets, SiteBestOf).ok
  BY BridgeAssumption DEF Taking
<1>2. Order(sets) \in Seq(Slot) /\ \E tr : LeadsTo(sets, tr)
  BY <1>1, PlanIsSound DEF Order, LeadsTo
<1> QED BY <1>2 DEF Way

(* A score that a point or a disqualification has made. *)
Touched(st) == st.cur # NoPoints \/ st.sets # <<>> \/ st.status = "FINISHED"

(* The score of a match after its first events: undo goes back to it.      *)
Scored(m, k) == IF k = Len(log[m]) THEN site[m] ELSE log[m][k + 1].before

(* Its first events are all points of one replay; then they lead the match *)
(* on the way of the sets that were sent.                                  *)
FirstBy(m, k, r, sets) == \A i \in 1..k : log[m][i].by = r /\ log[m][i].sets = sets
OnItsWay(m, k) ==
    \A r \in Request, sets \in Results :
        FirstBy(m, k, r, sets) =>
            Taking(sets) /\ k <= Len(Order(sets)) /\ Scored(m, k) = Way(sets)[k]

(* A match is new before its first event and touched after each.           *)
OneMatch(m) ==
    /\ site[m] \in Score /\ log[m] \in Seq(Event)
    /\ Scored(m, 0) = InitialState
    /\ \A k \in 1..Len(log[m]) : Touched(Scored(m, k)) /\ (m \notin disturbed => OnItsWay(m, k))

(* A call plays an accepted plan; unless points were taken back under it,  *)
(* it is let in only to a match it has not played alone, and alone it is   *)
(* as far as the match is.                                                 *)
Alone(m, r, sets) == m \notin disturbed /\ FirstBy(m, Len(log[m]), r, sets)
OneCall(r) ==
    LET c == request[r]  m == request[r].match IN
    /\ c.phase \in {"sent", "read"} => c.given = 0
    /\ c.phase \in {"sent", "read", "replay"} => m \in Match /\ c.sets \in Results
    /\ c.phase \in {"read", "replay"} => Taking(c.sets)
    /\ c.phase = "read" /\ ~c.begun /\ Alone(m, r, c.sets) /\ log[m] # <<>> => site[m].sets # <<>>
    /\ c.phase = "replay" /\ Alone(m, r, c.sets) => c.given = Len(log[m])

Shapes == site = [m \in Match |-> site[m]] /\ log = [m \in Match |-> log[m]]
Replays == Shapes /\ (\A m \in Match : OneMatch(m)) /\ (\A r \in Request : OneCall(r))

(* What can become of a call that gives no point.                          *)
Moved(r) ==
    LET c == request[r]  d == request'[r] IN
    /\ d.given \in {0, c.given}
    /\ \/ d = c
       \/ d.phase \in {"none"} \cup Answer
       \/ /\ c.phase = "none" /\ d.phase = "sent" /\ d.given = 0
          /\ d.match \in Match /\ d.sets \in Results
       \/ /\ c.phase = "sent" /\ d.phase = "read" /\ d.match = c.match /\ d.sets = c.sets
          /\ d.given = c.given /\ Plan(r).ok /\ d.begun = Begun(c.match)
          /\ site[c.match].status # "FINISHED"
       \/ /\ c.phase = "read" /\ d.phase = "replay" /\ d.match = c.match /\ d.sets = c.sets
          /\ d.given = c.given /\ Fresh(r)

LEMMA PlanOfCall ==
    ASSUME NEW r \in Request, request[r].sets \in Results
    PROVE  Plan(r) = PlanReplay(request[r].sets, SiteBestOf)
  BY DEF Plan, PlanOf

(* A match that shows nothing has no events. *)
LEMMA NothingShown ==
    ASSUME NEW m \in Match, OneMatch(m), ~Touched(site[m])
    PROVE  log[m] = <<>>
<1>1. log[m] \in Seq(Event) /\ Len(log[m]) \in Nat
  BY DEF OneMatch
<1>2. Scored(m, Len(log[m])) = site[m]
  BY DEF Scored
<1>3. Len(log[m]) \notin 1..Len(log[m])
  BY <1>2 DEF OneMatch
<1> QED BY <1>1, <1>3

LEMMA MatchStays ==
    ASSUME NEW q \in Match, OneMatch(q), site'[q] = site[q], log'[q] = log[q],
           q \in disturbed => q \in disturbed'
    PROVE  OneMatch(q)'
<1>1. \A k : Scored(q, k)' = Scored(q, k)
  BY DEF Scored
<1>2. ASSUME NEW k \in 1..Len(log[q]), OnItsWay(q, k) PROVE OnItsWay(q, k)'
  BY <1>1, <1>2 DEF OnItsWay, FirstBy
<1> QED BY <1>1, <1>2 DEF OneMatch

LEMMA CallStays ==
    ASSUME NEW r \in Request, OneCall(r), request'[r] = request[r],
           NEW m, m = request[r].match, site'[m] = site[m], log'[m] = log[m],
           m \in disturbed => m \in disturbed'
    PROVE  OneCall(r)'
  BY DEF OneCall, Alone, FirstBy

LEMMA QuietReplays ==
    ASSUME Replays, UNCHANGED <<site, log, disturbed>>, \A r \in Request : Moved(r)
    PROVE  Replays'
<1>1. Shapes'
  BY DEF Replays, Shapes
<1>2. ASSUME NEW m \in Match PROVE OneMatch(m)'
  BY MatchStays DEF Replays
<1>3. ASSUME NEW r \in Request PROVE OneCall(r)'
  <2>1. OneCall(r) /\ Moved(r)
    BY DEF Replays
  <2>2. CASE request'[r] = request[r]
    BY <2>1, <2>2 DEF OneCall, Alone, FirstBy
  <2>3. CASE request'[r].phase \in {"none"} \cup Answer
    BY <2>3 DEF OneCall, Answer
  <2>4. CASE /\ request[r].phase = "none" /\ request'[r].phase = "sent"
             /\ request'[r].given = 0
             /\ request'[r].match \in Match /\ request'[r].sets \in Results
    BY <2>4 DEF OneCall
  <2>5. CASE /\ request[r].phase = "sent" /\ request'[r].phase = "read"
             /\ request'[r].match = request[r].match /\ request'[r].sets = request[r].sets
             /\ request'[r].given = request[r].given
             /\ Plan(r).ok /\ request'[r].begun = Begun(request[r].match)
             /\ site[request[r].match].status # "FINISHED"
    <3>1. /\ request[r].given = 0 /\ request[r].match \in Match
          /\ Taking(request[r].sets)
      BY <2>1, <2>5, PlanOfCall DEF OneCall, Taking
    <3>2. OneMatch(request[r].match)
      BY <3>1 DEF Replays
    <3>3. ~Begun(request[r].match) /\ log[request[r].match] # <<>>
          => site[request[r].match].sets # <<>>
      BY <2>5, <3>1, <3>2, NothingShown DEF Touched, Begun
    <3> QED BY <2>5, <3>1, <3>3 DEF OneCall, Taking
  <2>6. CASE /\ request[r].phase = "read" /\ request'[r].phase = "replay"
             /\ request'[r].match = request[r].match /\ request'[r].sets = request[r].sets
             /\ request'[r].given = request[r].given /\ Fresh(r)
    <3> DEFINE m == request[r].match  sets == request[r].sets
    <3>1. Alone(m, r, sets) => log[m] = <<>> /\ request[r].given = 0
      BY <2>1, <2>6 DEF OneCall, Fresh
    <3>2. Alone(m, r, sets)' <=> Alone(m, r, sets)
      BY <2>6 DEF Alone, FirstBy
    <3>3. /\ Taking(sets) /\ m \in Match /\ sets \in Results
          /\ Len(<<>>) = 0
      BY <2>1, <2>6 DEF OneCall
    <3> QED BY <2>6, <3>1, <3>2, <3>3 DEF OneCall
  <2> QED BY <2>1, <2>2, <2>3, <2>4, <2>5, <2>6 DEF Moved
<1> QED BY <1>1, <1>2, <1>3 DEF Replays

(* A point begins a match, and takes away no set.                          *)
LEMMA PointBegins ==
    ASSUME NEW st \in Score, NEW s \in Slot
    PROVE  /\ ApplyPoint(st, SiteBestOf, s) \in Score
           /\ Touched(ApplyPoint(st, SiteBestOf, s))
           /\ st.sets # <<>> => ApplyPoint(st, SiteBestOf, s).sets # <<>>
<1> DEFINE cur == PointIn(st, s)  next == ApplyPoint(st, SiteBestOf, s)
<1>1. SiteBestOf \in Nat \ {0}
  BY BridgeAssumption
<1>2. /\ cur \in SetScore /\ next \in Score
      /\ IF IsSetWon(cur) THEN next.sets = Append(st.sets, cur) /\ next.cur = NoPoints
         ELSE next.sets = st.sets /\ next.cur = cur
  BY <1>1, PointMakes
<1>3. cur # NoPoints
  <2>1. st.cur[s] \in Nat /\ s \in DOMAIN st.cur
    BY DEF Score, SetScore
  <2>2. cur[s] = st.cur[s] + 1
    BY <2>1 DEF PointIn
  <2> QED BY <2>1, <2>2 DEF NoPoints
<1>4. Append(st.sets, cur) # <<>>
  <2>1. st.sets \in Seq(SetScore) /\ cur \in SetScore
    BY <1>2 DEF Score
  <2> HIDE DEF cur
  <2> QED BY <2>1
<1> HIDE DEF cur, next
<1>5. Touched(next)
  BY <1>2, <1>3, <1>4 DEF Touched
<1>6. st.sets # <<>> => next.sets # <<>>
  BY <1>2, <1>4
<1> QED BY <1>2, <1>5, <1>6 DEF next

(* An event more: what came before it stays.                               *)
Further(m, n, e, st) ==
    /\ log'[m] \in Seq(Event) /\ Len(log'[m]) = n + 1 /\ log'[m][n + 1] = e
    /\ \A i \in 1..n : log'[m][i] = log[m][i]
    /\ \A k \in 0..n : Scored(m, k)' = Scored(m, k)
    /\ Scored(m, n + 1)' = st
    /\ site'[m] = st
    /\ \A q \in Match \ {m} : site'[q] = site[q] /\ log'[q] = log[q]

LEMMA EventAdded ==
    ASSUME Shapes, NEW m \in Match, log[m] \in Seq(Event), NEW e \in Event, e.before = site[m],
           NEW st, site' = [site EXCEPT ![m] = st], log' = [log EXCEPT ![m] = Append(@, e)],
           NEW n, n = Len(log[m])
    PROVE  Further(m, n, e, st) /\ Shapes' /\ n \in Nat
<1>1. /\ site'[m] = st /\ log'[m] = Append(log[m], e)
      /\ \A q \in Match \ {m} : site'[q] = site[q] /\ log'[q] = log[q]
      /\ Shapes'
  BY DEF Shapes
<1>2. /\ n \in Nat /\ log'[m] \in Seq(Event) /\ Len(log'[m]) = n + 1 /\ log'[m][n + 1] = e
      /\ \A i \in 1..n : log'[m][i] = log[m][i]
  BY <1>1
<1>3. ASSUME NEW k \in 0..n PROVE Scored(m, k)' = Scored(m, k)
  <2>1. CASE k = n
    BY <1>2, <2>1 DEF Scored
  <2>2. CASE k # n
    <3>1. k + 1 \in 1..n /\ k # n + 1
      BY <1>2, <2>2
    <3> QED BY <1>2, <2>2, <3>1 DEF Scored
  <2> QED BY <2>1, <2>2
<1>4. Scored(m, n + 1)' = st
  BY <1>1, <1>2 DEF Scored
<1> QED BY <1>1, <1>2, <1>3, <1>4 DEF Further

(* An event on the site, by a replay or by a referee. *)
LEMMA EventReplays ==
    ASSUME Replays, NEW m \in Match, NEW n, n = Len(log[m]), NEW e \in Event, NEW st \in Score,
           n \in Nat, Further(m, n, e, st), Shapes', UNCHANGED disturbed,
           Touched(st), \A r \in Request \ {e.by} : request'[r] = request[r],
           e.by \in Request /\ m \notin disturbed /\ FirstBy(m, n, e.by, e.sets)
              => Taking(e.sets) /\ n + 1 <= Len(Order(e.sets)) /\ st = Way(e.sets)[n + 1],
           e.by \in Request => OneCall(e.by)'
    PROVE  Replays'
<1> USE DEF Further
<1>1. ASSUME NEW k \in 1..n, NEW r, NEW sets
      PROVE  FirstBy(m, k, r, sets)' <=> FirstBy(m, k, r, sets)
  <2>1. \A i \in 1..k : i \in 1..n
    OBVIOUS
  <2> QED BY <2>1 DEF FirstBy
<1>2. ASSUME NEW r, NEW sets, FirstBy(m, n + 1, r, sets)'
      PROVE  r = e.by /\ sets = e.sets /\ FirstBy(m, n, r, sets)
  <2>1. n + 1 \in 1..(n + 1) /\ \A i \in 1..n : i \in 1..(n + 1)
    OBVIOUS
  <2> QED BY <1>2, <2>1 DEF FirstBy
<1>3. OneMatch(m)'
  <2>1. OneMatch(m)
    BY DEF Replays
  <2>2. Scored(m, 0)' = InitialState
    BY <2>1 DEF OneMatch
  <2>3. ASSUME NEW k \in 1..(n + 1)
        PROVE  Touched(Scored(m, k)') /\ (m \notin disturbed => OnItsWay(m, k)')
    <3>1. CASE k \in 1..n
      <4>1. Scored(m, k)' = Scored(m, k) /\ Touched(Scored(m, k))
            /\ (m \notin disturbed => OnItsWay(m, k))
        BY <2>1, <3>1 DEF OneMatch
      <4>2. ASSUME m \notin disturbed, NEW r \in Request, NEW sets \in Results,
                   FirstBy(m, k, r, sets)'
            PROVE  Taking(sets) /\ k <= Len(Order(sets)) /\ Scored(m, k)' = Way(sets)[k]
        <5>1. FirstBy(m, k, r, sets)
          BY <1>1, <3>1, <4>2
        <5> QED BY <4>1, <4>2, <5>1 DEF OnItsWay
      <4> QED BY <4>1, <4>2 DEF OnItsWay
    <3>2. CASE k = n + 1
      <4>1. ASSUME m \notin disturbed, NEW r \in Request, NEW sets \in Results,
                   FirstBy(m, k, r, sets)'
            PROVE  Taking(sets) /\ k <= Len(Order(sets)) /\ Scored(m, k)' = Way(sets)[k]
        <5>1. r = e.by /\ sets = e.sets /\ FirstBy(m, n, r, sets)
          BY <1>2, <3>2, <4>1
        <5> QED BY <3>2, <4>1, <5>1
      <4> QED BY <3>2, <4>1 DEF OnItsWay
    <3> QED BY <3>1, <3>2
  <2> QED BY <2>2, <2>3 DEF OneMatch, Touched
<1>4. ASSUME NEW q \in Match PROVE OneMatch(q)'
  BY <1>3, MatchStays DEF Replays
<1>5. ASSUME NEW r \in Request PROVE OneCall(r)'
  <2>1. CASE r = e.by
    BY <2>1
  <2>2. CASE r # e.by
    <3>1. request'[r] = request[r] /\ OneCall(r)
      BY <2>2 DEF Replays
    <3>2. CASE request[r].match = m
      <4>1. \A sets : ~FirstBy(m, n + 1, r, sets)'
        BY <1>2, <2>2
      <4>2. \A sets : ~Alone(m, r, sets)'
        BY <4>1 DEF Alone
      <4> QED BY <3>1, <3>2, <4>2 DEF OneCall
    <3>3. CASE request[r].match \in Match \ {m}
      BY <3>1, <3>3, CallStays
    <3>4. CASE request[r].match \notin Match
      BY <3>1, <3>4 DEF OneCall
    <3> QED BY <3>2, <3>3, <3>4
  <2> QED BY <2>1, <2>2
<1> QED BY <1>4, <1>5 DEF Replays

(* A call plays the next point of its plan.                                *)
LEMMA ReplayPointReplays ==
    ASSUME Inv, Replays, NEW r \in Request, ReplayPoint(r)
    PROVE  Replays'
<1>0. PICK c, m, order, k, n : /\ c = request[r] /\ m = c.match /\ order = Order(c.sets)
                               /\ k = c.given /\ n = Len(log[m])
  OBVIOUS
<1> USE <1>0
<1>1. c.phase = "replay" /\ OneCall(r) /\ c \in Call
  BY DEF ReplayPoint, Replays, Inv, Kinds
<1>2. /\ Taking(c.sets) /\ m \in Match /\ c.sets \in Results /\ Plan(r).order = order
      /\ order \in Seq(Slot) /\ LeadsTo(c.sets, Way(c.sets)) /\ k \in Nat /\ OneMatch(m)
  <2>1. Taking(c.sets) /\ m \in Match /\ c.sets \in Results
    BY <1>1 DEF OneCall
  <2>2. Plan(r).order = order
    BY <2>1, PlanOfCall DEF Order
  <2>3. k \in Nat
    BY <1>1 DEF Call
  <2> QED BY <2>1, <2>2, <2>3, WayOfPlan DEF Replays
<1>3. CASE site[m].status = "FINISHED" \/ m \in unplayable
  <2>1. UNCHANGED <<site, log, disturbed, push>> /\ Reply(r, "error")
    BY <1>3 DEF ReplayPoint
  <2>2. \A q \in Request : Moved(q)
    <3>1. \A q \in Request \ {r} : request'[q] = request[q]
      BY <2>1 DEF Reply, Inv, Kinds
    <3>2. request'[r].given \in {0, k} /\ request'[r].phase \in {"none", "error"}
      BY <2>1, <1>1 DEF Reply, Inv, Kinds, NoCall, Call
    <3> QED BY <3>1, <3>2 DEF Moved, Answer
  <2> QED BY <2>1, <2>2, QuietReplays
<1>4. CASE ~(site[m].status = "FINISHED" \/ m \in unplayable)
  <2> DEFINE st == ApplyPoint(site[m], SiteBestOf, order[k + 1])
             e == [type |-> "POINT", by |-> r, sets |-> c.sets, before |-> site[m]]
  <2>1. /\ k < Len(order) /\ UNCHANGED disturbed
        /\ Given(m, order[k + 1], r, c.sets)
        /\ request' = [request EXCEPT ![r].given = @ + 1]
    BY <1>2, <1>4 DEF ReplayPoint
  <2>2. k + 1 \in 1..Len(order) /\ order[k + 1] \in Slot
    BY <1>2, <2>1
  <2>3. /\ \A q \in Request \ {r} : request'[q] = request[q]
        /\ request'[r].given = k + 1 /\ request'[r].phase = "replay"
        /\ request'[r].match = m /\ request'[r].sets = c.sets
    BY <1>1, <2>1 DEF Inv, Kinds, Call
  <2>4. site' = [site EXCEPT ![m] = st] /\ log' = [log EXCEPT ![m] = Append(@, e)]
    BY <2>1 DEF Given, Replays, Shapes
  <2>5. /\ site[m] \in Score /\ log[m] \in Seq(Event) /\ st \in Score /\ Touched(st)
        /\ Shapes
    BY <1>2, <2>2, PointBegins DEF OneMatch, Replays
  <2>6. e \in Event /\ e.by = r /\ e.sets = c.sets /\ e.before = site[m]
    BY <1>2, <2>5 DEF Event
  <2> HIDE DEF st, e
  <2>7. Further(m, n, e, st) /\ Shapes' /\ n \in Nat
    BY <1>2, <2>4, <2>5, <2>6, EventAdded
  <2>8. ASSUME m \notin disturbed, FirstBy(m, n, r, c.sets)
        PROVE  k = n /\ st = Way(c.sets)[n + 1] /\ n + 1 <= Len(order)
    <3>1. k = n
      BY <1>1, <2>8 DEF OneCall, Alone
    <3>2. site[m] = Way(c.sets)[n]
      <4>1. Scored(m, n) = site[m]
        BY DEF Scored
      <4>2. CASE n = 0
        <5>1. site[m] = InitialState
          BY <1>2, <4>1, <4>2 DEF OneMatch
        <5> QED BY <1>2, <4>2, <5>1 DEF LeadsTo, Leads
      <4>3. CASE n # 0
        <5>1. n \in 1..n
          BY <2>7, <4>3
        <5>2. OnItsWay(m, n)
          BY <1>2, <2>8, <5>1 DEF OneMatch
        <5> QED BY <1>2, <2>8, <4>1, <5>2 DEF OnItsWay
      <4> QED BY <4>2, <4>3
    <3>3. Way(c.sets)[k + 1] = ApplyPoint(Way(c.sets)[k + 1 - 1], SiteBestOf, order[k + 1])
      BY <1>2, <2>2 DEF LeadsTo, Leads
    <3>4. k + 1 - 1 = k /\ k + 1 <= Len(order)
      BY <1>2, <2>2
    <3> QED BY <3>1, <3>2, <3>3, <3>4 DEF st
  <2>9. OneCall(r)'
    <3>1. ASSUME Alone(m, r, c.sets)' PROVE k + 1 = Len(log'[m])
      <4>1. m \notin disturbed /\ Len(log'[m]) = n + 1
        BY <2>1, <2>7, <3>1 DEF Alone, Further
      <4>2. FirstBy(m, n, r, c.sets)
        <5>1. \A i \in 1..n : i \in 1..(n + 1)
          BY <2>7
        <5>2. FirstBy(m, n + 1, r, c.sets)'
          BY <3>1, <4>1 DEF Alone
        <5>3. \A i \in 1..n : log'[m][i].by = r /\ log'[m][i].sets = c.sets
          BY <5>1, <5>2 DEF FirstBy
        <5> QED BY <2>7, <5>3 DEF FirstBy, Further
      <4> QED BY <2>8, <4>1, <4>2
    <3> QED BY <1>2, <2>3, <3>1 DEF OneCall
  <2>10. e.by \in Request /\ m \notin disturbed /\ FirstBy(m, n, e.by, e.sets)
           => Taking(e.sets) /\ n + 1 <= Len(Order(e.sets)) /\ st = Way(e.sets)[n + 1]
    BY <1>2, <2>6, <2>8
  <2> QED BY <1>2, <2>1, <2>3, <2>5, <2>6, <2>7, <2>9, <2>10, EventReplays
<1> QED BY <1>3, <1>4

(* A referee's point, and a disqualification: an event of nobody's replay. *)
RefereeAdds(m) ==
    \E st \in Score, e \in Event :
        /\ site' = [site EXCEPT ![m] = st] /\ log' = [log EXCEPT ![m] = Append(@, e)]
        /\ Touched(st) /\ e.by = None /\ e.before = site[m]
        /\ site[m].sets # <<>> => st.sets # <<>>

LEMMA RefereeGives ==
    ASSUME Replays, NEW m \in Match,
           SiteDisqualify(m) \/ \E s \in Slot : SitePoint(m, s)
    PROVE  RefereeAdds(m) /\ UNCHANGED <<request, disturbed, push>>
<1>0. /\ site[m] \in Score /\ log[m] \in Seq(Event) /\ Shapes
      /\ UNCHANGED <<request, disturbed, push>>
  BY DEF Replays, OneMatch, SiteDisqualify, SitePoint, Unseen, restVars
<1>1. ASSUME NEW s \in Slot, SitePoint(m, s)
      PROVE  RefereeAdds(m)
  <2> DEFINE st == ApplyPoint(site[m], SiteBestOf, s)
             e == [type |-> "POINT", by |-> None, sets |-> NoSets, before |-> site[m]]
  <2>1. site' = [site EXCEPT ![m] = st] /\ log' = [log EXCEPT ![m] = Append(@, e)]
    BY <1>0, <1>1 DEF SitePoint, Given, Shapes
  <2>2. st \in Score /\ Touched(st) /\ (site[m].sets # <<>> => st.sets # <<>>)
    BY <1>0, PointBegins
  <2>3. e \in Event /\ e.by = None /\ e.before = site[m]
    BY <1>0 DEF Event
  <2> HIDE DEF st, e
  <2> QED BY <2>1, <2>2, <2>3 DEF RefereeAdds
<1>2. ASSUME SiteDisqualify(m)
      PROVE  RefereeAdds(m)
  <2> DEFINE st == [site[m] EXCEPT !.status = "FINISHED"]
             e == [type |-> "DISQUALIFY", by |-> None, sets |-> NoSets, before |-> site[m]]
  <2>1. site' = [site EXCEPT ![m] = st] /\ log' = [log EXCEPT ![m] = Append(@, e)]
    BY <1>0, <1>2 DEF SiteDisqualify, Shapes
  <2>2. st \in Score /\ Touched(st) /\ (site[m].sets # <<>> => st.sets # <<>>)
    BY <1>0 DEF Score, Status, Touched
  <2>3. e \in Event /\ e.by = None /\ e.before = site[m]
    BY <1>0 DEF Event
  <2> HIDE DEF st, e
  <2> QED BY <2>1, <2>2, <2>3 DEF RefereeAdds
<1> QED BY <1>0, <1>1, <1>2

LEMMA RefereeReplays ==
    ASSUME Replays, NEW m \in Match, RefereeAdds(m), UNCHANGED <<request, disturbed>>
    PROVE  Replays'
<1>1. PICK n : n = Len(log[m])
  OBVIOUS
<1>2. PICK st \in Score, e \in Event :
        /\ site' = [site EXCEPT ![m] = st] /\ log' = [log EXCEPT ![m] = Append(@, e)]
        /\ Touched(st) /\ e.by = None /\ e.before = site[m]
  BY DEF RefereeAdds
<1>3. log[m] \in Seq(Event) /\ Shapes
  BY DEF Replays, OneMatch
<1>4. Further(m, n, e, st) /\ Shapes' /\ n \in Nat
  BY <1>1, <1>2, <1>3, EventAdded
<1>5. e.by \notin Request
  BY <1>2, BridgeAssumption
<1> QED BY <1>1, <1>2, <1>4, <1>5, EventReplays

(* The last event goes: what came before it stays, and the calls that have *)
(* looked at the match are marked.                                         *)
LEMMA UndoReplays ==
    ASSUME Inv, Replays, NEW m \in Match, SiteUndo(m)
    PROVE  Replays'
<1> DEFINE n == Len(log[m])
<1>1. /\ site' = [site EXCEPT ![m] = log[m][n].before]
      /\ log' = [log EXCEPT ![m] = SubSeq(@, 1, n - 1)]
      /\ log[m] # <<>> /\ UNCHANGED request
  BY DEF SiteUndo, Unseen, restVars
<1>2. log[m] \in Seq(Event) /\ Shapes /\ OneMatch(m)
  BY DEF Replays, OneMatch
<1>3. n \in Nat /\ n \in 1..n /\ log[m][n] \in Event
  BY <1>1, <1>2
<1>4. /\ site'[m] = log[m][n].before /\ log'[m] = SubSeq(log[m], 1, n - 1)
      /\ \A q \in Match \ {m} : site'[q] = site[q] /\ log'[q] = log[q]
      /\ Shapes'
  BY <1>1, <1>2 DEF Shapes
<1>5. /\ log'[m] \in Seq(Event) /\ Len(log'[m]) = n - 1
      /\ \A i \in 1..(n - 1) : log'[m][i] = log[m][i] /\ i \in 1..n
  BY <1>2, <1>3, <1>4
<1>6. /\ disturbed \subseteq disturbed'
      /\ \A r \in Request : request[r].match = m /\ request[r].phase \in {"read", "replay"}
            => m \in disturbed'
  BY DEF SiteUndo
<1> HIDE DEF n
<1>7. ASSUME NEW k \in 0..(n - 1) PROVE Scored(m, k)' = Scored(m, k)
  <2>1. k # n /\ (k # n - 1 => k + 1 \in 1..(n - 1))
    BY <1>3
  <2>2. CASE k = n - 1
    <3>1. k + 1 = n
      BY <1>3, <2>2
    <3> QED BY <1>4, <1>5, <2>1, <2>2, <3>1 DEF Scored, n
  <2>3. CASE k # n - 1
    BY <1>5, <2>1, <2>3 DEF Scored, n
  <2> QED BY <2>2, <2>3
<1>8. OneMatch(m)'
  <2>1. site'[m] \in Score
    BY <1>3, <1>4 DEF Event
  <2>2. Scored(m, 0)' = InitialState
    BY <1>2, <1>3, <1>7 DEF OneMatch
  <2>3. ASSUME NEW k \in 1..(n - 1)
        PROVE  Touched(Scored(m, k)') /\ (m \notin disturbed => OnItsWay(m, k)')
    <3>1. k \in 0..(n - 1) /\ k \in 1..n
      BY <1>3
    <3>2. Scored(m, k)' = Scored(m, k) /\ Touched(Scored(m, k))
          /\ (m \notin disturbed => OnItsWay(m, k))
      BY <1>2, <1>7, <3>1 DEF OneMatch, n
    <3>3. \A i \in 1..k : i \in 1..(n - 1)
      BY <1>3
    <3>4. ASSUME NEW r, NEW sets, FirstBy(m, k, r, sets)' PROVE FirstBy(m, k, r, sets)
      BY <1>5, <3>3, <3>4 DEF FirstBy
    <3>5. ASSUME m \notin disturbed PROVE OnItsWay(m, k)'
      BY <3>2, <3>4, <3>5 DEF OnItsWay
    <3> QED BY <3>2, <3>5
  <2> QED BY <1>5, <1>6, <2>1, <2>2, <2>3 DEF OneMatch, Touched
<1>9. ASSUME NEW q \in Match PROVE OneMatch(q)'
  <2>1. CASE q # m
    BY <1>4, <1>6, <2>1, MatchStays DEF Replays
  <2> QED BY <1>8, <2>1
<1>10. ASSUME NEW r \in Request PROVE OneCall(r)'
  <2>1. request'[r] = request[r] /\ OneCall(r)
    BY <1>1 DEF Replays
  <2>2. CASE request[r].match = m
    <3>1. CASE request[r].phase \in {"read", "replay"}
      <4>1. \A sets : ~Alone(m, r, sets)'
        BY <1>6, <2>2, <3>1 DEF Alone
      <4> QED BY <2>1, <2>2, <4>1 DEF OneCall
    <3>2. CASE request[r].phase \notin {"read", "replay"}
      BY <2>1, <3>2 DEF OneCall
    <3> QED BY <3>1, <3>2
  <2>3. CASE request[r].match \in Match \ {m}
    BY <1>4, <1>6, <2>1, <2>3, CallStays
  <2>4. CASE request[r].match \notin Match
    BY <2>1, <2>4 DEF OneCall
  <2> QED BY <2>2, <2>3, <2>4
<1> QED BY <1>4, <1>9, <1>10 DEF Replays

(* A call that is answered, in whatever way, moves. *)
LEMMA AnswerMoves ==
    ASSUME Inv, NEW r \in Request, NEW answer \in Answer, Reply(r, answer)
    PROVE  \A q \in Request : Moved(q)
<1>1. request[r] \in Call /\ \A q \in Request \ {r} : request'[q] = request[q]
  BY DEF Reply, Inv, Kinds
<1>2. request'[r] = IF Awaited(r) THEN [request[r] EXCEPT !.phase = answer] ELSE NoCall
  BY DEF Reply, Inv, Kinds
<1>3. request'[r].given \in {0, request[r].given} /\ request'[r].phase \in {"none"} \cup Answer
  BY <1>1, <1>2 DEF NoCall, Call
<1> QED BY <1>1, <1>3 DEF Moved

(* The steps on the site that make or take an event. *)
Eventful ==
    \/ \E r \in Request : ReplayPoint(r)
    \/ \E m \in Match : SiteUndo(m) \/ SiteDisqualify(m) \/ \E s \in Slot : SitePoint(m, s)

LEMMA SiteMoves ==
    ASSUME Inv, SiteStep
    PROVE  \/ UNCHANGED <<site, log, disturbed>> /\ \A q \in Request : Moved(q)
           \/ Eventful
<1>1. ASSUME NEW r \in Request, ReadMatch(r) PROVE \A q \in Request : Moved(q)
  <2>1. request[r].phase = "sent" /\ request[r] \in Call
    BY <1>1 DEF ReadMatch, Inv, Kinds
  <2>2. CASE site[request[r].match].status = "FINISHED"
    BY <1>1, <2>2, AnswerMoves DEF ReadMatch, Answer
  <2>3. CASE /\ site[request[r].match].status # "FINISHED"
             /\ request[r].match \in unplayable \/ ~Plan(r).ok
    BY <1>1, <2>3, AnswerMoves DEF ReadMatch, Answer
  <2>4. CASE /\ site[request[r].match].status # "FINISHED"
             /\ request[r].match \notin unplayable /\ Plan(r).ok
    <3>1. request' = [request EXCEPT ![r] =
              [request[r] EXCEPT !.phase = "read", !.begun = Begun(request[r].match)]]
      BY <1>1, <2>4 DEF ReadMatch
    <3>2. /\ request'[r] = [request[r] EXCEPT !.phase = "read",
                                              !.begun = Begun(request[r].match)]
          /\ \A q \in Request \ {r} : request'[q] = request[q]
      BY <3>1 DEF Inv, Kinds
    <3>3. /\ request'[r].phase = "read" /\ request'[r].begun = Begun(request[r].match)
          /\ request'[r].match = request[r].match /\ request'[r].sets = request[r].sets
          /\ request'[r].given = request[r].given
      BY <2>1, <3>2 DEF Call
    <3> QED BY <2>1, <2>4, <3>2, <3>3 DEF Moved
  <2> QED BY <2>2, <2>3, <2>4
<1>2. ASSUME NEW r \in Request, Admit(r) PROVE \A q \in Request : Moved(q)
  <2>1. request[r].phase = "read" /\ request[r] \in Call
    BY <1>2 DEF Admit, Inv, Kinds
  <2>2. CASE ~Fresh(r)
    BY <1>2, <2>2, AnswerMoves DEF Admit, Answer
  <2>3. CASE Fresh(r)
    <3>1. request' = [request EXCEPT ![r].phase = "replay"]
      BY <1>2, <2>3 DEF Admit
    <3>2. /\ request'[r] = [request[r] EXCEPT !.phase = "replay"]
          /\ \A q \in Request \ {r} : request'[q] = request[q]
      BY <3>1 DEF Inv, Kinds
    <3>3. /\ request'[r].phase = "replay"
          /\ request'[r].match = request[r].match /\ request'[r].sets = request[r].sets
          /\ request'[r].given = request[r].given
      BY <2>1, <3>2 DEF Call
    <3> QED BY <2>1, <2>3, <3>2, <3>3 DEF Moved
  <2> QED BY <2>2, <2>3
<1>3. ASSUME NEW r \in Request, Report(r) PROVE \A q \in Request : Moved(q)
  BY <1>3, AnswerMoves DEF Report, Answer
<1>4. ASSUME RestartSite PROVE \A q \in Request : Moved(q)
  <2> TAKE q \in Request
  <2>1. request'[q] = IF ~Awaited(q) THEN NoCall
                      ELSE IF request[q].phase \in Answer THEN request[q]
                      ELSE [request[q] EXCEPT !.phase = "error"]
    BY <1>4 DEF RestartSite
  <2>2. request[q] \in Call
    BY DEF Inv, Kinds
  <2>3. \/ request'[q] = request[q]
        \/ /\ request'[q].given \in {0, request[q].given}
           /\ request'[q].phase \in {"none", "error"}
    BY <2>1, <2>2 DEF NoCall, Call
  <2> QED BY <2>3 DEF Moved, Answer
<1>5. ASSUME UNCHANGED request PROVE \A q \in Request : Moved(q)
  BY <1>5 DEF Moved
<1>6. \A r \in Request : ReadMatch(r) \/ Admit(r) \/ Report(r)
        => UNCHANGED <<site, log, disturbed>>
  BY DEF ReadMatch, Admit, Report, recordVars
<1>7. RestartSite => UNCHANGED <<site, log, disturbed>>
  BY DEF RestartSite, recordVars
<1>8. \A m \in Match : EnterCode(m) \/ Unpair(m) \/ Pair(m)
        => UNCHANGED <<site, log, disturbed, request>>
  BY DEF EnterCode, Unpair, Pair, Unseen, restVars, recordVars
<1> QED BY <1>1, <1>2, <1>3, <1>4, <1>5, <1>6, <1>7, <1>8
        DEF SiteStep, CallStep, RefereeOnSite, Eventful

LEMMA BridgeMoves ==
    ASSUME Inv, BridgeStep
    PROVE  UNCHANGED <<site, log, disturbed>> /\ \A q \in Request : Moved(q)
<1>1. UNCHANGED <<site, log, disturbed>>
  BY DEF BridgeStep, Push, Receive, GiveUp, RestartBoard, recordVars
<1>2. ASSUME NEW r \in Request,
             request' = request \/ request' = [request EXCEPT ![r] = NoCall]
      PROVE  \A q \in Request : Moved(q)
  <2>1. NoCall.phase = "none" /\ NoCall.given = 0
    BY DEF NoCall
  <2>2. \A q \in Request : request'[q] = request[q] \/ request'[q] = NoCall
    BY <1>2 DEF Inv, Kinds
  <2> QED BY <2>1, <2>2 DEF Moved
<1>3. CASE Push
  <2>1. PICK r \in Request : /\ request[r].phase = "none"
                             /\ request' = [request EXCEPT ![r] =
                                   [NoCall EXCEPT !.phase = "sent", !.match = court.match,
                                                  !.sets = court.sets]]
    BY <1>3 DEF Push
  <2>2. court.match \in Match /\ court.sets \in Results
    BY <1>3 DEF Push, Due, Inv, Kinds, Court
  <2>3. /\ request'[r] = [NoCall EXCEPT !.phase = "sent", !.match = court.match,
                                        !.sets = court.sets]
        /\ \A q \in Request \ {r} : request'[q] = request[q]
    BY <2>1 DEF Inv, Kinds
  <2>4. /\ request'[r].phase = "sent" /\ request'[r].given = 0
        /\ request'[r].match \in Match /\ request'[r].sets \in Results
    BY <2>2, <2>3 DEF NoCall
  <2> QED BY <1>1, <2>1, <2>3, <2>4 DEF Moved
<1>4. CASE push # None /\ ~Push
  <2>1. push.call \in Request
    BY <1>4 DEF Inv, Kinds
  <2>2. request' = request \/ request' = [request EXCEPT ![push.call] = NoCall]
    BY <1>4 DEF BridgeStep, Receive, GiveUp, RestartBoard, Abandon
  <2> QED BY <1>1, <1>2, <2>1, <2>2
<1>5. CASE push = None /\ ~Push
  <2>1. request' = request
    BY <1>5 DEF BridgeStep, Receive, GiveUp, RestartBoard
  <2> QED BY <1>1, <2>1 DEF Moved
<1> QED BY <1>3, <1>4, <1>5

LEMMA NextMoves ==
    ASSUME Inv, [Next]_vars
    PROVE  \/ UNCHANGED <<site, log, disturbed>> /\ \A q \in Request : Moved(q)
           \/ Eventful
<1>1. CASE UNCHANGED <<site, log, disturbed, request>>
  BY <1>1 DEF Moved
<1>2. CASE BoardStep
  <2>1. UNCHANGED <<site, log, disturbed, request>>
    BY <1>2 DEF BoardStep, StartSite, StartHall, Finish, NewMatch, ResetAll, Undo, Persist, Step,
                Operation, siteVars, recordVars
  <2> QED BY <1>1, <2>1
<1>3. CASE UNCHANGED vars
  BY <1>1, <1>3 DEF vars
<1> QED BY <1>2, <1>3, BridgeMoves, SiteMoves DEF Next

LEMMA NextReplays == Inv /\ Replays /\ [Next]_vars => Replays'
  BY NextMoves, QuietReplays, ReplayPointReplays, RefereeGives, RefereeReplays, UndoReplays
     DEF Eventful

LEMMA InitReplays == Init => Replays
<1> SUFFICES ASSUME Init PROVE Replays
  OBVIOUS
<1>1. Shapes
  BY DEF Init, Shapes
<1>2. ASSUME NEW m \in Match PROVE OneMatch(m)
  <2>1. InitialState \in Score
    BY DEF InitialState, Score, NoPoints, SetScore, Status
  <2>2. site[m] = InitialState /\ log[m] = <<>> /\ Len(<<>>) = 0
    BY DEF Init
  <2> QED BY <2>1, <2>2 DEF OneMatch, Scored
<1>3. ASSUME NEW r \in Request PROVE OneCall(r)
  <2>1. request[r].phase = "none"
    BY DEF Init, NoCall
  <2> QED BY <2>1 DEF OneCall
<1> QED BY <1>1, <1>2, <1>3 DEF Replays

(* A match that one replay alone has played is on the way of the plan of   *)
(* the sets that were sent, and so is each score an undo can go back to; a *)
(* replay is let in only to a match that shows no points, and a call never *)
(* plays twice; unless points were taken back between the look of a call   *)
(* and its last point (ReadMatch, Admit, ReplayPoint: applyResult, undo).  *)
THEOREM ReplaysKeepTheirWay == Spec => []Replays
<1> QED BY InitInv, NextInv, InitReplays, NextReplays, PTL DEF Spec

(* A match that one replay alone has brought to its end shows exactly the  *)
(* sets the board sent, for any accepted results, any number of calls at   *)
(* work, points and undos of referees on the site, lost answers, retries   *)
(* and restarts of either side, unless points were taken back while a call *)
(* was playing it (planReplay, applyResult, undo).                         *)
THEOREM RecordedIsSent == Spec => []RecordedAsSent
<1>1. Replays => RecordedAsSent
  <2> SUFFICES ASSUME Replays, NEW m \in Match \ disturbed, site[m].status = "FINISHED",
                      NEW r \in Request, NEW sets \in Results, OnlyBy(m, r, sets)
               PROVE  site[m].sets = sets
    BY DEF RecordedAsSent
  <2>1. OneMatch(m)
    BY DEF Replays
  <2>2. PICK n : n = Len(log[m])
    OBVIOUS
  <2>3. n \in Nat /\ DOMAIN log[m] = 1..n /\ Scored(m, n) = site[m]
    BY <2>1, <2>2 DEF OneMatch, Scored
  <2>4. n # 0
    <3>1. InitialState.status # "FINISHED"
      BY DEF InitialState
    <3> QED BY <2>1, <2>3, <3>1 DEF OneMatch
  <2>5. n \in 1..n /\ OnItsWay(m, n) /\ FirstBy(m, n, r, sets)
    BY <2>1, <2>2, <2>3, <2>4 DEF OneMatch, OnlyBy, FirstBy
  <2>6. Taking(sets) /\ n <= Len(Order(sets)) /\ site[m] = Way(sets)[n]
    BY <2>3, <2>5 DEF OnItsWay
  <2>7. Order(sets) \in Seq(Slot) /\ LeadsTo(sets, Way(sets))
    BY <2>6, WayOfPlan
  <2>8. n = Len(Order(sets))
    <3>1. SUFFICES ASSUME n # Len(Order(sets)) PROVE FALSE
      OBVIOUS
    <3>2. Len(Order(sets)) \in Nat
      BY <2>7
    <3>3. PICK i \in 1..Len(Order(sets)) : i - 1 = n
      <4>1. n + 1 \in 1..Len(Order(sets)) /\ (n + 1) - 1 = n
        BY <2>3, <2>6, <3>1, <3>2
      <4> QED BY <4>1
    <3>4. \A j \in 1..Len(Order(sets)) : Way(sets)[j - 1].status # "FINISHED"
      BY <2>7 DEF LeadsTo, Leads
    <3>5. Way(sets)[n].status # "FINISHED"
      BY <3>3, <3>4
    <3> QED BY <2>6, <3>5
  <2> QED BY <2>6, <2>7, <2>8 DEF LeadsTo
<1> QED BY <1>1, ReplaysKeepTheirWay, PTL

----------------------------------------------------------------------------
(* No result is played twice while nothing is given up                     *)

(* The only call at work is the one waited for, and it is let in only to a *)
(* match in which no point of a replay stands.                             *)
NoReplay(m) == \A i \in DOMAIN log[m] : log[m][i].by = None
Single(r) ==
    LET c == request[r]  m == request[r].match IN
    /\ c.phase # "none" => Awaited(r)
    /\ c.phase = "read" /\ ~c.begun /\ m \notin disturbed /\ site[m].sets = <<>> => NoReplay(m)
    /\ c.phase = "replay" /\ c.given = 0 /\ m \notin disturbed => NoReplay(m)
Once == failures \in Nat /\ (failures = 0 => \A r \in Request : Single(r))

LEMMA Awaiting ==
    ASSUME Inv, Next, \A r \in Request : request[r].phase # "none" => Awaited(r),
           failures \in Nat, failures = 0, failures' = 0
    PROVE  \A r \in Request : request'[r].phase # "none" => Awaited(r)'
<1> USE DEF Inv, Kinds
<1>1. CASE UNCHANGED request /\ push' \in {push, Detached}
  <2>1. CASE push = None
    BY <1>1, <2>1 DEF Awaited
  <2>2. CASE push # None
    <3>1. push' \in [call : Request, held : BOOLEAN] /\ push'.call = push.call
      BY <1>1, <2>2 DEF Detached
    <3>2. push' # None
      BY <3>1, BridgeAssumption
    <3> QED BY <1>1, <3>1, <3>2 DEF Awaited
  <2> QED BY <2>1, <2>2
<1>2. CASE BoardStep
  <2>1. UNCHANGED request
    BY <1>2 DEF BoardStep, StartSite, StartHall, Finish, NewMatch, ResetAll, Undo, Persist, Step,
                Operation, siteVars, recordVars
  <2>2. push' \in {push, Detached}
    BY <1>2 DEF BoardStep, StartSite, StartHall, Finish, NewMatch, ResetAll, Undo, Persist, Step
  <2> QED BY <1>1, <2>1, <2>2
<1>3. CASE Push
  <2>1. PICK r \in Request : /\ push = None /\ push' = [call |-> r, held |-> TRUE]
                             /\ \A q \in Request \ {r} : request'[q] = request[q]
    BY <1>3 DEF Push, MayPush
  <2>2. push' # None
    <3>1. push' \in [call : Request, held : BOOLEAN]
      BY <2>1
    <3> QED BY <3>1, BridgeAssumption
  <2> QED BY <2>1, <2>2 DEF Awaited
<1>4. CASE Receive
  <2>1. request' = [request EXCEPT ![push.call] = NoCall]
    BY <1>4 DEF Receive
  <2>2. \A q \in Request : \/ request'[q] = NoCall
                           \/ request'[q] = request[q] /\ push.call # q
    BY <2>1
  <2>3. NoCall.phase = "none"
    BY DEF NoCall
  <2> QED BY <2>2, <2>3 DEF Awaited
<1>5. CASE SiteStep
  <2>1. ASSUME NEW r \in Request, CallStep(r)
        PROVE  /\ request[r].phase # "none" /\ UNCHANGED push
               /\ \A q \in Request \ {r} : request'[q] = request[q]
    BY <2>1 DEF CallStep, ReadMatch, Admit, ReplayPoint, Report, Reply
  <2>2. ~RestartSite
    BY DEF RestartSite
  <2>3. \A m \in Match : RefereeOnSite(m) => UNCHANGED <<request, push>>
    BY DEF RefereeOnSite, EnterCode, SiteDisqualify, SiteUndo, Unpair, Pair, SitePoint, Unseen,
           restVars
  <2> QED BY <1>5, <2>1, <2>2, <2>3 DEF SiteStep, Awaited
<1>6. ~GiveUp /\ ~RestartBoard
  BY DEF GiveUp, RestartBoard
<1> QED BY <1>2, <1>3, <1>4, <1>5, <1>6 DEF Next, BridgeStep

(* One point of a replay is given, or the call is answered. *)
LEMMA ReplayPointIs ==
    ASSUME Inv, NEW r \in Request, ReplayPoint(r)
    PROVE  /\ request[r].phase = "replay" /\ \A q \in Request \ {r} : request'[q] = request[q]
           /\ \/ UNCHANGED <<site, log, disturbed>> /\ \A q \in Request : Moved(q)
              \/ request'[r].phase = "replay" /\ request'[r].given > 0
<1>1. request[r] \in Call /\ request[r].given + 1 > 0
  BY DEF Inv, Kinds, Call
<1>2. CASE site[request[r].match].status = "FINISHED" \/ request[r].match \in unplayable
  <2>1. UNCHANGED <<site, log, disturbed>> /\ Reply(r, "error") /\ request[r].phase = "replay"
    BY <1>2 DEF ReplayPoint
  <2>2. \A q \in Request : Moved(q)
    BY <2>1, AnswerMoves DEF Answer
  <2> QED BY <2>1, <2>2 DEF Reply, Inv, Kinds
<1>3. CASE ~(site[request[r].match].status = "FINISHED" \/ request[r].match \in unplayable)
  <2>1. request' = [request EXCEPT ![r].given = @ + 1] /\ request[r].phase = "replay"
    BY <1>3 DEF ReplayPoint
  <2>2. /\ request'[r].phase = "replay" /\ request'[r].given = request[r].given + 1
        /\ \A q \in Request \ {r} : request'[q] = request[q]
    BY <1>1, <2>1 DEF Inv, Kinds, Call
  <2> QED BY <1>1, <2>1, <2>2
<1> QED BY <1>2, <1>3

LEMMA FailuresCounted == [Next]_vars => failures' \in {failures, failures + 1}
  BY DEF Next, BoardStep, StartSite, StartHall, Finish, NewMatch, ResetAll, Undo, Persist, Step,
         Operation, BridgeStep, Push, Receive, GiveUp, RestartBoard, SiteStep, CallStep, ReadMatch,
         Admit, ReplayPoint, Report, RestartSite, RefereeOnSite, EnterCode, SiteDisqualify,
         SiteUndo, Unpair, Pair, SitePoint, Unseen, restVars, boundVars, vars

LEMMA NextOnce == Inv /\ Replays /\ Once /\ [Next]_vars => Once'
<1> SUFFICES ASSUME Inv, Replays, Once, [Next]_vars PROVE Once'
  OBVIOUS
<1>1. CASE UNCHANGED vars
  BY <1>1 DEF vars, Once, Single, NoReplay, Awaited
<1>2. failures' \in {failures, failures + 1}
  BY FailuresCounted
<1>3. failures' \in Nat /\ (failures' = 0 => failures = 0)
  BY <1>2 DEF Once
<1>4. ASSUME Next, failures' = 0, NEW r \in Request PROVE Single(r)'
  <2>1. failures = 0 /\ failures \in Nat /\ \A q \in Request : Single(q)
    BY <1>3, <1>4 DEF Once
  <2>2. request'[r].phase # "none" => Awaited(r)'
    BY <1>4, <2>1, Awaiting DEF Single
  <2>3. CASE UNCHANGED <<site, log, disturbed>> /\ Moved(r)
    <3>1. Single(r) /\ OneCall(r)
      BY <2>1 DEF Replays
    <3>2. CASE request'[r] = request[r]
      BY <2>2, <2>3, <3>1, <3>2 DEF Single, NoReplay
    <3>3. CASE request'[r].phase \in {"none"} \cup Answer \cup {"sent"}
      BY <2>2, <3>3 DEF Single, Answer
    <3>4. CASE request[r].phase = "sent" /\ request'[r].phase = "read"
               /\ request'[r].match = request[r].match
               /\ request'[r].begun = Begun(request[r].match)
               /\ site[request[r].match].status # "FINISHED"
      <4>1. OneMatch(request[r].match)
        BY <3>1, <3>4 DEF OneCall, Replays
      <4>2. ~Begun(request[r].match) /\ site[request[r].match].sets = <<>>
            => log[request[r].match] = <<>>
        BY <3>1, <3>4, <4>1, NothingShown DEF Touched, Begun, OneCall
      <4> QED BY <2>2, <2>3, <3>4, <4>2 DEF Single, NoReplay
    <3>5. CASE request[r].phase = "read" /\ request'[r].phase = "replay"
               /\ request'[r].match = request[r].match /\ Fresh(r)
      BY <2>2, <2>3, <3>1, <3>5 DEF Single, NoReplay, Fresh
    <3> QED BY <2>3, <3>2, <3>3, <3>4, <3>5 DEF Moved
  <2>4. ASSUME NEW q \in Request, ReplayPoint(q) PROVE Single(r)'
    <3>1. CASE r = q
      <4>1. CASE UNCHANGED <<site, log, disturbed>> /\ Moved(r)
        BY <2>3, <4>1
      <4>2. CASE request'[r].phase = "replay" /\ request'[r].given > 0
        BY <2>2, <4>2 DEF Single
      <4> QED BY <2>4, <3>1, <4>1, <4>2, ReplayPointIs
    <3>2. CASE r # q
      <4>1. request[q].phase = "replay" /\ request'[r] = request[r]
        BY <2>4, <3>2, ReplayPointIs
      <4>2. Awaited(q)
        BY <2>1, <4>1 DEF Single
      <4>3. request[r].phase = "none"
        BY <2>1, <3>2, <4>2 DEF Single, Awaited
      <4> QED BY <4>1, <4>3 DEF Single
    <3> QED BY <3>1, <3>2
  <2>5. ASSUME NEW m \in Match, SiteDisqualify(m) \/ \E s \in Slot : SitePoint(m, s)
        PROVE  Single(r)'
    <3>1. RefereeAdds(m) /\ UNCHANGED <<request, disturbed>>
      BY <2>5, RefereeGives
    <3>2. PICK st \in Score, e \in Event :
            /\ site' = [site EXCEPT ![m] = st] /\ log' = [log EXCEPT ![m] = Append(@, e)]
            /\ e.by = None /\ (site[m].sets # <<>> => st.sets # <<>>)
      BY <3>1 DEF RefereeAdds
    <3>3. Single(r) /\ OneCall(r) /\ log[m] \in Seq(Event) /\ Shapes
      BY <2>1 DEF Replays, OneMatch
    <3>4. /\ site'[m] = st /\ log'[m] = Append(log[m], e)
          /\ \A q \in Match \ {m} : site'[q] = site[q] /\ log'[q] = log[q]
      BY <3>2, <3>3 DEF Shapes
    <3>5. NoReplay(m) => NoReplay(m)'
      <4>1. \A i \in DOMAIN log'[m] :
              \/ log'[m][i] = e
              \/ i \in DOMAIN log[m] /\ log'[m][i] = log[m][i]
        BY <3>3, <3>4
      <4> QED BY <3>2, <4>1 DEF NoReplay
    <3>6. PICK q : q = request[r].match
      OBVIOUS
    <3>7. CASE q = m
      BY <2>2, <3>1, <3>2, <3>3, <3>4, <3>5, <3>6, <3>7 DEF Single
    <3>8. CASE q \in Match \ {m}
      BY <2>2, <3>1, <3>3, <3>4, <3>6, <3>8 DEF Single, NoReplay
    <3>9. CASE q \notin Match
      BY <2>2, <3>1, <3>3, <3>6, <3>9 DEF Single, OneCall
    <3> QED BY <3>7, <3>8, <3>9
  <2>6. ASSUME NEW m \in Match, SiteUndo(m) PROVE Single(r)'
    <3>1. /\ UNCHANGED request /\ disturbed \subseteq disturbed'
          /\ request[r].match = m /\ request[r].phase \in {"read", "replay"} => m \in disturbed'
          /\ \A q \in Match \ {m} : site'[q] = site[q] /\ log'[q] = log[q]
      BY <2>1, <2>6 DEF SiteUndo, Unseen, restVars, Replays, Shapes
    <3>2. Single(r) /\ OneCall(r)
      BY <2>1, <1>4 DEF Replays
    <3>3. CASE request[r].match \in Match \ {m}
      BY <2>2, <3>1, <3>2, <3>3 DEF Single, NoReplay
    <3>4. CASE request[r].match \notin Match \ {m}
      BY <2>2, <3>1, <3>2, <3>4 DEF Single, OneCall
    <3> QED BY <3>3, <3>4
  <2> QED BY <1>4, <2>3, <2>4, <2>5, <2>6, NextMoves DEF Eventful
<1>5. CASE Next
  BY <1>3, <1>4, <1>5 DEF Once
<1> QED BY <1>1, <1>5

LEMMA InitOnce == Init => Once
  BY DEF Init, Once, Single, NoCall

(* While no call was given up and nothing restarted, no replay adds to the *)
(* points of another, for any number of results, corrections and calls and *)
(* whatever referees do on the site, unless a point was taken back between *)
(* the two looks of the API at the match (push, applyResult, undo).        *)
THEOREM ResultsArePlayedOnce == Spec => PlayedOnce
<1>1. Inv /\ Once /\ [Next]_vars =>
        [failures' = 0 =>
            \A m \in Match \ disturbed, r \in Request :
                request[r].match = m /\ request[r].given = 0
                /\ request'[r].match = m /\ request'[r].given > 0
                => \A i \in DOMAIN log[m] : log[m][i].by = None]_vars
  <2> SUFFICES ASSUME Inv, Once, [Next]_vars, failures' = 0, NEW m \in Match \ disturbed,
                      NEW r \in Request, request[r].match = m,
                      request[r].given = 0, request'[r].given > 0, vars' # vars
               PROVE  NoReplay(m)
    BY DEF NoReplay
  <2>1. failures = 0 /\ Single(r)
    BY FailuresCounted DEF Once
  <2>2. ~Moved(r) /\ request'[r] # request[r]
    BY DEF Moved
  <2>3. PICK q \in Request : ReplayPoint(q)
    <3>1. \A x \in Match : SiteUndo(x) \/ SiteDisqualify(x) \/ (\E s \in Slot : SitePoint(x, s))
            => request' = request
      BY DEF SiteUndo, SiteDisqualify, SitePoint, Unseen, restVars
    <3> QED BY <2>2, <3>1, NextMoves DEF Eventful
  <2>4. request[r].phase = "replay"
    BY <2>2, <2>3, ReplayPointIs
  <2> QED BY <2>1, <2>4 DEF Single
<1> QED BY <1>1, InitInv, NextInv, InitReplays, NextReplays, InitOnce, NextOnce,
       PTL DEF Spec, PlayedOnce

=============================================================================
