----------------------------- MODULE ScoreSheet -----------------------------
(***************************************************************************)
(* What a score keeper promises, whatever keeps the score: as long as      *)
(* nothing but points and penalties was entered, the score is the one the  *)
(* engine of the site makes of them (modules/matches/scoring.engine.ts),   *)
(* and what is taken back is exactly what was there before.  A referee may *)
(* write over the sheet by hand; from then on it promises nothing until a  *)
(* new match, or until the change is taken back.                           *)
(***************************************************************************)
EXTENDS ScoringEngine

CONSTANTS
    Formats,    \* the numbers of sets a match may be played over
    MaxUndo     \* so many steps can be taken back

VARIABLES
    st,         \* the score
    bestOf,
    free,       \* somebody wrote over the sheet
    past        \* the sheets that can still be brought back, oldest first

vars == <<st, bestOf, free, past>>
sheet == [st |-> st, bestOf |-> bestOf, free |-> free]

(* The newest MaxUndo sheets. *)
Kept(sheets) == IF Len(sheets) > MaxUndo THEN Tail(sheets) ELSE sheets
Remember == past' = Kept(Append(past, sheet))

Init ==
    /\ st = InitialState /\ bestOf \in Formats
    /\ free = FALSE /\ past = <<>>

(* Points for one player, one after the other until the match is over. *)
OneMore(score, player) ==
    IF score.status = "FINISHED" THEN score ELSE ApplyPoint(score, bestOf, player)
Given(player, n) ==
    CASE n = 0 -> st
      [] n = 1 -> OneMore(st, player)
      [] n = 2 -> OneMore(OneMore(st, player), player)

(* A rally is one point; a penalty is none, one or two. *)
Points(player, n) ==
    /\ ~free /\ st.status # "FINISHED"
    /\ st' = Given(player, n)
    /\ Remember
    /\ UNCHANGED <<bestOf, free>>

(* Something that is not the score, or the loss of the oldest sheet.       *)
Note ==
    /\ past' \in {Kept(Append(past, sheet))} \cup {Tail(p) : p \in {past} \ {<<>>}}
    /\ UNCHANGED <<st, bestOf, free>>

ByHand == free' = TRUE /\ Remember

(* A new match, or another format for one that has not begun. *)
NewSheet ==
    /\ st' = InitialState /\ free' = FALSE
    /\ bestOf' \in Formats
    /\ Remember

TakeBack ==
    /\ past # <<>>
    /\ sheet' = past[Len(past)]
    /\ past' = SubSeq(past, 1, Len(past) - 1)

Next == \/ \E player \in Slot, n \in 0..2 : Points(player, n)
        \/ Note \/ ByHand \/ NewSheet \/ TakeBack

Spec == Init /\ [][Next]_vars
=============================================================================
