-------------------------------- MODULE Lots --------------------------------
(***************************************************************************)
(* Where the classes of a group's table end (groups.engine.ts:             *)
(* groupStandings), and the warning that a lot decides who goes through    *)
(* (lotStraddlesBoundary). A table is a sequence of classes, best first;   *)
(* the players of a class of more than one are ordered by lot.             *)
(***************************************************************************)
EXTENDS Integers, Sequences, FiniteSets

(* Those in the classes before the i-th, and how many places they take.    *)
Earlier(table, i) == UNION {table[j] : j \in 1..(i - 1)}
Before(table, i) == Cardinality(Earlier(table, i))
(* Mutant: a class that ends at the boundary is taken to straddle it.      *)
StraddlesWide(table, advancing) ==
    \E i \in DOMAIN table : Cardinality(table[i]) > 1 /\ Before(table, i) < advancing
                            /\ Before(table, i) + Cardinality(table[i]) >= advancing
(* Some of a class that a lot orders go through and some do not.           *)
LotStraddlesBoundary(table, advancing) ==
    \E i \in DOMAIN table :
        /\ Cardinality(table[i]) > 1
        /\ Before(table, i) + 1 <= advancing
        /\ Before(table, i) + Cardinality(table[i]) > advancing

----------------------------------------------------------------------------
IsTable(table) ==
    /\ DOMAIN table = 1..Len(table) /\ Len(table) \in Nat
    /\ \A i \in DOMAIN table : IsFiniteSet(table[i]) /\ table[i] # {}
    /\ \A i, j \in DOMAIN table : i # j => table[i] \cap table[j] = {}
Ranked(table) == Earlier(table, Len(table) + 1)

(* The lots can end with just the players of S through: so many, or all if *)
(* there are fewer, and with a player everybody of the classes before.     *)
CanGoThrough(table, advancing, S) ==
    /\ Cardinality(S) <= advancing
    /\ Cardinality(S) < advancing => S = Ranked(table)
    /\ \A i, j \in DOMAIN table : i < j /\ S \cap table[j] # {} => table[i] \subseteq S
LotsDecide(table, advancing) ==
    \E S, T \in SUBSET Ranked(table) :
        /\ CanGoThrough(table, advancing, S)
        /\ CanGoThrough(table, advancing, T)
        /\ S # T

(* The warning is given exactly when lots can end with different players   *)
(* through (lotStraddlesBoundary).                                         *)
WarnsWhenLotsDecide(table, advancing) ==
    LotStraddlesBoundary(table, advancing) <=> LotsDecide(table, advancing)
=============================================================================
