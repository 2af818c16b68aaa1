----------------------------- MODULE GroupTable -----------------------------
(***************************************************************************)
(* The table of a group (groups.engine.ts): ties are resolved by the       *)
(* matches among those who are level, again and again, until a lot has to  *)
(* decide. The table is a sequence of classes, best first; a class of more *)
(* than one is ordered by lot.                                             *)
(***************************************************************************)
EXTENDS GroupResult, SequencesExt

CONSTANT Group       \* the players of the group

(* What a player has of a kind (p, s or r) in a set of results, won and    *)
(* lost; of match points only those won are counted.                       *)
Metric(results, kind, x) ==
    LET played == {m \in results : x \in {m.a, m.b}}
        side(m) == IF m.a = x THEN 1 ELSE 2
    IN  <<MapThenSumSet(LAMBDA m : Normalized(m)[kind][side(m)], played),
          IF kind = "p" THEN 0
          ELSE MapThenSumSet(LAMBDA m : Normalized(m)[kind][3 - side(m)], played)>>
Better(kind, x, y) == IF kind = "p" THEN x[1] - y[1] ELSE CmpFrac(x, y)

(* Players split into classes of the same value, the best class first.     *)
InClasses(T, kind, value) ==
    SetToSortSeq({{y \in T : Better(kind, value[x], value[y]) = 0} : x \in T},
                 LAMBDA c, d : \E x \in c, y \in d : Better(kind, value[x], value[y]) > 0)
Classes(T, results, kind) == InClasses(T, kind, [x \in T |-> Metric(results, kind, x)])

(* Mutant: ties are resolved by all the matches of the group.              *)
AllMatches(results, T) == results
Mutual(results, T) == {m \in results : m.a \in T /\ m.b \in T}

(* The first kind by which the tied are not all alike, if any.             *)
FirstSplit(by) ==
    by[IF Len(by["p"]) > 1 THEN "p" ELSE IF Len(by["s"]) > 1 THEN "s" ELSE "r"]

(* The classes of a tie, best first (resolveTied): by points, then by sets,*)
(* then by rally points of the matches among the tied, each class that is  *)
(* left starting again.                                                    *)
ResolveTied(results) ==
    LET resolve[T \in SUBSET Group] ==
            LET parts == FirstSplit([kind \in {"p", "s", "r"} |->
                                        Classes(T, Mutual(results, T), kind)])
            IN  IF Len(parts) <= 1 THEN parts
                ELSE FlattenSeq([i \in DOMAIN parts |-> resolve[parts[i]]])
    IN  resolve

(* Players who played less than half of their matches, in the final table. *)
Annulled(results, final) ==
    {x \in Group :
        /\ final /\ Cardinality(Group) > 1
        /\ 2 * Cardinality({m \in results : x \in {m.a, m.b} /\ m.kind = "PLAYED"})
              < Cardinality(Group) - 1}

Counted(results, final) ==
    LET out == Annulled(results, final)
    IN  {m \in results : m.a \notin out /\ m.b \notin out}

(* The places (groupStandings), those annulled left out: they come last.   *)
Resolved(blocks, resolve) == FlattenSeq([i \in DOMAIN blocks |-> resolve[blocks[i]]])
PlacesOfAll(among, counted) == Resolved(Classes(among, counted, "p"), ResolveTied(counted))
Standings(results, final) ==
    PlacesOfAll(Group \ Annulled(results, final), Counted(results, final))
=============================================================================
