------------------------------- MODULE Dealing -------------------------------
(***************************************************************************)
(* How the groups of a category are made (groups.engine.ts): players are   *)
(* dealt into them row by row (snakeDraw), and the players of a group meet *)
(* in rounds (roundRobinRounds). `job` says what is made, `at` the group   *)
(* of each player dealt so far; every lot is a choice of the action.       *)
(***************************************************************************)
EXTENDS Integers, FiniteSets

CONSTANTS Orgs,         \* organisations beside NoOrg
          NoOrg         \* the organisation of a player who has none

VARIABLES job, at

pvars == <<job, at>>

Org(n) == [1..n -> Orgs \cup {NoOrg}]
(* Players are 1..n from the strongest down; job.org gives their regions.  *)
SnakeJob == UNION {[kind : {"snake"}, n : {n}, groups : Nat \ {0}, modified : BOOLEAN,
                    org : Org(n)] : n \in Nat}
RoundsJob == [kind : {"rounds"}, n : Nat]

OrgSize(o) == IF o = NoOrg THEN 0 ELSE Cardinality({p \in 1..job.n : job.org[p] = o})
(* Those of f, and x with v. *)
Also(f, x, v) == [y \in DOMAIN f \cup {x} |-> IF y = x THEN v ELSE f[y]]

----------------------------------------------------------------------------
(* snakeDraw: every other row is dealt from the last group; in a modified  *)
(* snake of four groups or more the halves of a later row are shuffled.    *)

Dealt == Cardinality(DOMAIN at)
RowLength == IF job.n - Dealt < job.groups THEN job.n - Dealt ELSE job.groups
InRow == (Dealt + 1)..(Dealt + RowLength)
RowOrder ==
    LET G == job.groups  down == (Dealt \div G) % 2 = 1
    IN  [i \in 1..RowLength |-> IF down THEN G + 1 - i ELSE i]
Shuffles ==
    LET chunk == (job.groups + 1) \div 2
        same(i, j) == (i - 1) \div chunk = (j - 1) \div chunk
    IN  {s \in [1..RowLength -> 1..RowLength] :
            \A i \in 1..RowLength : /\ same(i, s[i])
                                    /\ \A j \in 1..RowLength : s[i] = s[j] => i = j}
RowOrders ==
    IF job.modified /\ Dealt > 0 /\ job.groups >= 4
    THEN {[i \in 1..RowLength |-> RowOrder[s[i]]] : s \in Shuffles}
    ELSE {RowOrder}

HasOrg(dealt, g, o) == \E q \in DOMAIN dealt : dealt[q] = g /\ job.org[q] = o
(* Mutant: a group that has had its player of the row is open again.       *)
LeftInOrder(dealt, order) == {order[i] : i \in DOMAIN order}
LeftInRow(dealt, order) ==
    {order[i] : i \in DOMAIN order} \ {dealt[q] : q \in DOMAIN dealt \cap InRow}
Gap(g, h) == IF g > h THEN g - h ELSE h - g

(* Whose turn it is: the next group of the order, or the first still open. *)
InTurn(left, order, i) ==
    IF order[i] \in left THEN order[i]
    ELSE order[CHOOSE j \in DOMAIN order :
                  order[j] \in left /\ \A k \in 1..(j - 1) : order[k] \notin left]
(* The group nearest to g, of two as near the later one.                   *)
Nearest(others, g) ==
    CHOOSE h \in others : \A k \in others :
        Gap(h, g) < Gap(k, g) \/ (Gap(h, g) = Gap(k, g) /\ h >= k)
(* The group of player p, i-th of the row: the one in turn, or the nearest *)
(* still open that has nobody of the organisation of p, when that has      *)
(* fewer players than there are groups.                                    *)
GroupFor(dealt, order, p, i) ==
    LET left == LeftInRow(dealt, order)
        g == InTurn(left, order, i)
        o == job.org[p]
        small == o # NoOrg /\ OrgSize(o) < job.groups
        others == {h \in left : ~HasOrg(dealt, h, o)}
    IN  IF small /\ HasOrg(dealt, g, o) /\ others # {} THEN Nearest(others, g) ELSE g

(* Who is where after the first players of the row.                        *)
DealtTo(dealt, order, i) == Also(dealt, Dealt + i, GroupFor(dealt, order, Dealt + i, i))
AlongRow(order) ==
    LET deal[i \in 0..RowLength] ==
            IF i = 0 THEN at ELSE DealtTo(deal[i - 1], order, i)
    IN  deal

DealRow ==
    /\ job.kind = "snake" /\ Dealt < job.n
    /\ \E order \in RowOrders : at' = AlongRow(order)[RowLength]
    /\ UNCHANGED job

GroupSpec == job \in SnakeJob \cup RoundsJob /\ at = <<>> /\ [][DealRow]_pvars

----------------------------------------------------------------------------
(* roundRobinRounds: the players stand in a circle, the first stays, the   *)
(* others turn; a player against the one over n is free.                   *)

Even(n) == IF n % 2 = 0 THEN n ELSE n + 1
(* Mutant: all of the circle turns.                                        *)
SeatAllTurn(n, r, i) == ((i - 1 - (r - 1)) % Even(n)) + 1
(* Who has seat i in round r, both from 1.                                 *)
Seat(n, r, i) == IF i = 1 THEN 1 ELSE ((i - 2 - (r - 1)) % (Even(n) - 1)) + 2
RoundRobin(n) ==
    [r \in 1..(Even(n) - 1) |->
        {pair \in {{Seat(n, r, i), Seat(n, r, Even(n) + 1 - i)} : i \in 1..(Even(n) \div 2)} :
            pair \subseteq 1..n}]

----------------------------------------------------------------------------
GroupSize(g) == Cardinality({p \in DOMAIN at : at[p] = g})

(* Groups differ by one player at most, and every group has one player of  *)
(* each full row, whatever the lots and also when mates are moved          *)
(* (snakeDraw).                                                            *)
GroupsAreEven ==
    job.kind = "snake" =>
        /\ \A g, h \in 1..job.groups : GroupSize(g) <= GroupSize(h) + 1
        /\ \A g \in 1..job.groups, row \in 0..(Dealt \div job.groups - 1) :
              \E p \in 1..job.groups : at[row * job.groups + p] = g

(* All of a group play all others once, and nobody twice in a round        *)
(* (roundRobinRounds).                                                     *)
EveryPairMeetsOnce ==
    job.kind = "rounds" /\ job.n >= 2 =>
        LET rounds == RoundRobin(job.n) IN
        /\ \A x, y \in 1..job.n :
              x # y => Cardinality({r \in DOMAIN rounds : {x, y} \in rounds[r]}) = 1
        /\ \A r \in DOMAIN rounds : \A c, d \in rounds[r] : c # d => c \cap d = {}

(* Groups are made even, and each pair of a group meets once.              *)
GroupsAreMadeEven == GroupsAreEven /\ EveryPairMeetsOnce
=============================================================================
