----------------------------- MODULE SentResult -----------------------------
(***************************************************************************)
(* A result as a scoreboard sends it, composed set by set, whatever the    *)
(* sets are; after every set one may ask what the site would make of it    *)
(* (planReplay).  What a whole match is, is said here without the engine:  *)
(* by the scores of the sets and by who has taken most of them.            *)
(***************************************************************************)
EXTENDS ReplayPlan, ScoreMachine

CONSTANT SetScores    \* points a board may show for one player in one set

ASSUME SentAssumption == SetScores \subseteq Nat

VARIABLE sent    \* the sets of the result, the first one first

NothingSent == sent = <<>>

(* One more set; a board puts whatever was on it into the list. *)
OneSetMore == \E set \in [Slot -> SetScores] : sent' = Append(sent, set)

SentSpec == NothingSent /\ [][OneSetMore]_sent

(* Somebody has the majority after the last set, and nobody had before.    *)
WholeMatch ==
    /\ \A i \in DOMAIN sent : LegalSet(sent[i])
    /\ \E s \in Slot : HasMajority(sent, s)
    /\ \A n \in 0..(Len(sent) - 1), s \in Slot : ~HasMajority(SubSeq(sent, 1, n), s)

(* A result is taken exactly when it is a whole match by the rules: no     *)
(* unfinished or surplus set, no impossible score (planReplay).            *)
AcceptedIffWholeMatch ==
    PlanReplay(sent, BestOf).ok <=>
        WholeMatch /\ \A i \in DOMAIN sent, s \in Slot : sent[i][s] <= MaxSetScore

(* The points of an accepted plan, given one after the other, bring back   *)
(* the very sets that were sent and end the match with the last one        *)
(* (planReplay, applyResult).                                              *)
PlanRestoresTheSets ==
    LET plan == PlanReplay(sent, BestOf)
        after[i \in 0..Len(plan.order)] ==
            IF i = 0 THEN InitialState
            ELSE ApplyPoint(after[i - 1], BestOf, plan.order[i])
    IN  plan.ok =>
            /\ after[Len(plan.order)].sets = sent
            /\ \A i \in DOMAIN plan.order :
                  after[i].status = "FINISHED" <=> i = Len(plan.order)

(* What a scoreboard sends is replayed to the same match or refused.       *)
ReplayIsTheMatch == AcceptedIffWholeMatch /\ PlanRestoresTheSets
=============================================================================
