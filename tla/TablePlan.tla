----------------------------- MODULE TablePlan ------------------------------
(***************************************************************************)
(* Which table a match is sent to (table-plan.ts). A match is [key, rating,*)
(* table]: whether it is a semifinal, a final or the match for the third   *)
(* place, the points of its players together, 0 while one is unknown, and  *)
(* the table it has, 0 when none. Matches are planned in their order. The  *)
(* hall is any list of matches, with some tables that are the main ones.   *)
(***************************************************************************)
EXTENDS Integers, Sequences, FiniteSets

CONSTANTS TableCount, Ratings

ASSUME TableAssumption == TableCount \in Nat \ {0} /\ Ratings \subseteq Nat

VARIABLE hall    \* [main, matches]

Tables == 1..TableCount
HallMatch == [key : BOOLEAN, rating : Ratings, table : Tables \cup {0}]

EmptyHall == hall \in [main : SUBSET Tables, matches : {<<>>}]
(* One more match that is not over, with a table of an administrator's or  *)
(* none; whenever tables are planned, all that are not over are planned.   *)
OneMatchMore(m) == hall' = [hall EXCEPT !.matches = Append(@, m)]

HallSpec == EmptyHall /\ [][\E m \in HallMatch : OneMatchMore(m)]_hall

----------------------------------------------------------------------------
(* planTables *)

Pending(matches) == {i \in DOMAIN matches : matches[i].table = 0}
Regular(matches) == {i \in Pending(matches) : ~matches[i].key}

(* The pools; without main tables, or with nothing else, there is one.     *)
MainPool(main) == IF main = {} THEN Tables ELSE main
RestPool(main) == IF Tables \ main = {} THEN Tables ELSE Tables \ main

Quota(matches, main) ==
    IF main = {} \/ main = Tables THEN 0
    ELSE (Cardinality(Regular(matches)) * Cardinality(main)) \div TableCount
(* Mutant: the weakest of the others go to the main tables.                *)
TopFromBelow(matches, main) ==
    {i \in Regular(matches) :
        /\ matches[i].rating > 0
        /\ Cardinality({j \in Regular(matches) : matches[j].rating \in 1..(matches[i].rating - 1)})
              < Quota(matches, main)}
(* The others before a match, by their points and then in their order.     *)
Ahead(matches, i) ==
    {j \in Regular(matches) : \/ matches[j].rating > matches[i].rating
                              \/ matches[j].rating = matches[i].rating /\ j < i}
(* The best of the others, as many as the main tables are due.             *)
Top(matches, main) ==
    {i \in Regular(matches) : matches[i].rating > 0
                              /\ Cardinality(Ahead(matches, i)) < Quota(matches, main)}

PoolOf(matches, main, i) ==
    IF matches[i].key \/ i \in Top(matches, main) THEN MainPool(main) ELSE RestPool(main)

(* Mutant: only the matches planned now count as the load of a table.      *)
LoadOfNew(matches, plan, t) == Cardinality({i \in DOMAIN plan : plan[i] = t})
TableLoad(matches, plan, t) == Cardinality({i \in DOMAIN matches : matches[i].table = t})
                             + Cardinality({i \in DOMAIN plan : plan[i] = t})

(* Matches of the key stages come first, then the others, in their order.  *)
NextToPlan(matches, left) ==
    LET keys == {i \in left : matches[i].key}
        these == IF keys = {} THEN left ELSE keys
    IN  CHOOSE i \in these : \A j \in these : i <= j
(* The least loaded table of a pool, the first of several.                 *)
LeastLoaded(pool, load) ==
    CHOOSE t \in pool : \A u \in pool : load[t] < load[u] \/ (load[t] = load[u] /\ t <= u)

Entered(plan, i, table) == [j \in DOMAIN plan \cup {i} |-> IF j = i THEN table ELSE plan[j]]
PutNext(done, matches, main) ==
    LET i == NextToPlan(matches, done.left)
        load == [t \in Tables |-> TableLoad(matches, done.plan, t)]
    IN  [left |-> done.left \ {i},
         plan |-> Entered(done.plan, i, LeastLoaded(PoolOf(matches, main, i), load))]
Puts(matches, main) ==
    LET after[k \in 0..Cardinality(Pending(matches))] ==
            IF k = 0 THEN [left |-> Pending(matches), plan |-> <<>>]
            ELSE PutNext(after[k - 1], matches, main)
    IN  after
(* The table of each match that had none. *)
PlanTables(matches, main) == Puts(matches, main)[Cardinality(Pending(matches))].plan

----------------------------------------------------------------------------
(* A table that gets a match has at most one more than the others it could *)
(* have gone to, those it had before counted (planTables).                 *)
TablesShareTheLoad ==
    LET plan == PlanTables(hall.matches, hall.main)
        load == [t \in Tables |-> Cardinality({i \in DOMAIN hall.matches :
                                                  hall.matches[i].table = t})
                                + Cardinality({i \in DOMAIN plan : plan[i] = t})]
    IN  \A i \in DOMAIN plan, t \in Tables :
            hall.main \in {{}, Tables} \/ (t \in hall.main <=> plan[i] \in hall.main) =>
                load[plan[i]] <= load[t] + 1

(* With main tables and others, no match off the main tables is of a late  *)
(* stage or between better players than one the quota put on them.         *)
BestAreOnMainTables ==
    hall.main \notin {{}, Tables} =>
        LET plan == PlanTables(hall.matches, hall.main)
        IN  \A i, j \in DOMAIN plan :
                plan[i] \notin hall.main /\ plan[j] \in hall.main =>
                    /\ ~hall.matches[i].key
                    /\ ~hall.matches[j].key =>
                          hall.matches[i].rating <= hall.matches[j].rating

(* Each match that had no table, and no other, gets one; tables share the  *)
(* matches, the best of them on the main ones (planTables).                *)
TablesAreSharedByRank ==
    /\ DOMAIN PlanTables(hall.matches, hall.main) = Pending(hall.matches)
    /\ TablesShareTheLoad
    /\ BestAreOnMainTables
=============================================================================
