------------------------------ MODULE LiveFeed ------------------------------
(***************************************************************************)
(* How the public sees a match: MatchesService's memo of reads and boards  *)
(* in memory, LiveGateway's updates, and the web's pages and screens.  One *)
(* match on one table.  A page reads the match once and follows its        *)
(* updates; a screen asks for the match of its table again and again.      *)
(*                                                                         *)
(* What an update says beside its number and status is abstracted to the   *)
(* score of the scoreboard that stands over the row's own.  Time is left   *)
(* out: what expires may expire at any moment.                             *)
(***************************************************************************)
EXTENDS Integers, FiniteSets, Sequences

CONSTANTS
    Viewer,
    Score,      \* what a scoreboard can show of the match
    None,
    MaxSeq, MaxLists, MaxLosses,    \* bounds
    MaxChanges      \* bound: writes and lists together

ASSUME LiveFeedAssumption ==
    /\ IsFiniteSet(Viewer) /\ None \notin Score \cup Nat
    /\ {MaxSeq, MaxLists, MaxLosses, MaxChanges} \subseteq Nat

VARIABLES
    polls,      \* the viewer is a screen, and not a page
    row,        \* the match in the database
    board,      \* boardStates: the entry of the match
    jobs,       \* updates that are not sent yet
    memo,       \* memoStore: the load under the key of the table, or None
    load,       \* loads, each a promise a request may hold
    asked,      \* of a screen: the load its request waits for
    shown,      \* what a viewer shows
    joined,     \* the viewer's socket is in the room of the match
    wire,       \* updates on their way to a viewer
    lists,      \* bound: lists of boards that differ
    losses,     \* bound: lost connections, lists and loads
    told,       \* ghost: the newest row whose request sent its update
    since,      \* ghost, of a screen: told when it asked
    missed      \* ghost: the page was not told of the last change

db == <<row, lists, losses>>
server == <<board, jobs, memo, load>>
viewers == <<polls, asked, shown, joined, wire>>
ghosts == <<told, since, missed>>
vars == <<db, server, viewers, ghosts>>

Screen == {v \in Viewer : polls[v]}
Page == Viewer \ Screen
Status == {"SCHEDULED", "VERIFIED", "LIVE", "FINISHED"}     \* VERIFIED: SCHEDULED, with the code entered
Row == [seq : 0..MaxSeq, status : Status]
Payload == [seq : 0..MaxSeq, status : Status, board : Score \cup {None}]
Load == 1..Cardinality(Viewer) + 1
Free == [step |-> "free"]

ASSUME NullAssumption == None \notin Payload    \* null is not an answer

TypeOK ==
    /\ polls \in [Viewer -> BOOLEAN] /\ row \in Row
    /\ board \in [score : Score \cup {None}, fresh : BOOLEAN]
    /\ jobs \subseteq [by : 0..MaxLists, row : Row \cup {None}]
    /\ memo \in Load \cup {None}
    /\ load \in [Load -> [step : {"free", "pick1", "pick2", "pick3"}]
                         \cup [step : {"read"}, row : Row]
                         \cup [step : {"done"}, value : Payload \cup {None}]]
    /\ asked \in [Viewer -> Load \cup {None}]
    /\ shown \in [Viewer -> Payload \cup {None}]
    /\ joined \in [Viewer -> BOOLEAN] /\ \A v \in Viewer : wire[v] \in Seq(Payload)
    /\ lists \in 0..MaxLists /\ losses \in 0..MaxLosses
    /\ told \in 0..MaxSeq /\ since \in [Viewer -> 0..MaxSeq]
    /\ missed \in [Viewer -> BOOLEAN]

Init ==
    /\ polls \in [Viewer -> BOOLEAN]
    /\ row \in [seq : {0}, status : {"SCHEDULED", "LIVE"}]
    /\ board = [score |-> None, fresh |-> FALSE]
    /\ jobs = {} /\ memo = None /\ load = [l \in Load |-> Free]
    /\ asked = [v \in Viewer |-> None]
    /\ shown = [v \in Viewer |-> None]
    /\ joined = [v \in Viewer |-> FALSE] /\ wire = [v \in Viewer |-> <<>>]
    /\ lists = 0 /\ losses = 0
    /\ told = 0 /\ since = [v \in Viewer |-> 0]
    /\ missed = [v \in Viewer |-> FALSE]

(* Nobody holds the other promises. *)
Tidied == [l \in Load |-> IF l = memo' \/ \E v \in Viewer : asked'[v] = l THEN load[l] ELSE Free]

BoardOf == IF board.fresh THEN board.score ELSE None

(* toPublic: the score of the board stands over an unfinished match. *)
Public(r) ==
    IF r.status = "FINISHED" \/ BoardOf = None
    THEN [seq |-> r.seq, status |-> r.status, board |-> None]
    ELSE [seq |-> r.seq, status |-> "LIVE", board |-> BoardOf]

----------------------------------------------------------------------------
Lost == losses < MaxLosses /\ losses' = losses + 1

(* Writes and updates *)

(* A code may be entered again, and undo takes back a first or last point. *)
After(status) ==
    CASE status = "SCHEDULED" -> {"VERIFIED"}
      [] status \in {"VERIFIED", "LIVE"} -> {"VERIFIED", "LIVE", "FINISHED"}
      [] status = "FINISHED" -> {"LIVE", "FINISHED"}

(* A transaction of the match commits; its request goes on to emitAndReturn. *)
Commit ==
    /\ row.seq < MaxSeq /\ row.seq + lists < MaxChanges
    /\ \E status \in After(row.status) : row' = [seq |-> row.seq + 1, status |-> status]
    /\ jobs' = jobs \cup {[by |-> 0, row |-> row']}
    /\ UNCHANGED <<board, memo, load, viewers, lists, losses, ghosts>>

(* Mutant: a write leaves the memo to its age. *)
LeaveMemo(job) == UNCHANGED memo
ClearMemo(job) == memo' = IF job.by = 0 THEN None ELSE memo

(* emitScoreUpdate goes to whoever is in the room; the memo is cleared by  *)
(* emitAndReturn before it.                                                *)
Emit(job) ==
    /\ job \in jobs /\ job.row # None
    /\ jobs' = jobs \ {job}
    /\ ClearMemo(job)
    /\ wire' = [v \in Viewer |-> IF joined[v] THEN Append(wire[v], Public(job.row)) ELSE wire[v]]
    /\ told' = IF job.by = 0 /\ job.row.seq > told THEN job.row.seq ELSE told
    /\ missed' = [v \in Viewer |-> ~polls[v] /\ (~joined[v] \/ (missed[v] /\ job.row # row))]
    /\ UNCHANGED <<db, board, polls, asked, shown, joined, since>>
    /\ load' = Tidied

Changed(score) == score # board.score

(* setBoardStates: the list of a bridge has the match with this score, or  *)
(* has it not.  What has changed is read and sent; the rest only lives on. *)
BoardList(score) ==
    /\ board' = [score |-> score, fresh |-> score # None]
    /\ IF Changed(score)
       THEN /\ lists < MaxLists /\ row.seq + lists < MaxChanges /\ lists' = lists + 1
            /\ memo' = None
            /\ jobs' = jobs \cup {[by |-> lists', row |-> None]}
            /\ UNCHANGED missed
       ELSE /\ ~board.fresh /\ score # None
            /\ missed' = [v \in Viewer |-> ~polls[v]]
            /\ UNCHANGED <<lists, memo, jobs>>
    /\ UNCHANGED <<row, losses, viewers, told, since>>
    /\ load' = Tidied

BoardRead(job) ==
    /\ job \in jobs /\ job.row = None
    /\ jobs' = (jobs \ {job}) \cup {[job EXCEPT !.row = row]}
    /\ UNCHANGED <<db, board, memo, load, viewers, ghosts>>

(* The bridge is silent for BOARD_TTL_MS: nobody is told. *)
BoardExpires ==
    /\ board.fresh /\ Lost
    /\ board' = [board EXCEPT !.fresh = FALSE]
    /\ missed' = [v \in Viewer |-> ~polls[v]]
    /\ UNCHANGED <<row, lists, jobs, memo, load, viewers, told, since>>

----------------------------------------------------------------------------
(* Reads *)

(* A screen asks currentByTable: memo gives the load that is there, done   *)
(* or not, or begins one.                                                  *)
Ask(s) ==
    /\ asked[s] = None
    /\ LET new == CHOOSE l \in Load : load[l] = Free
           l == IF memo = None THEN new ELSE memo IN
       /\ load' = IF memo = None THEN [load EXCEPT ![l] = [step |-> "pick1"]] ELSE load
       /\ memo' = l
       /\ asked' = [asked EXCEPT ![s] = l]
    /\ since' = [since EXCEPT ![s] = told]
    /\ UNCHANGED <<db, board, jobs, polls, shown, joined, wire, told, missed>>

(* Three queries in a row: live or called matches, scheduled, finished.    *)
Wanted(step) ==
    CASE step = "pick1" -> {"VERIFIED", "LIVE"}
      [] step = "pick2" -> {"SCHEDULED"}
      [] step = "pick3" -> {"FINISHED"}
Pick(l) ==
    LET step == load[l].step IN
    /\ step \in {"pick1", "pick2", "pick3"}
    /\ row.status \in Wanted(step) \/ step # "pick3"
    /\ load' = [load EXCEPT ![l] =
                   IF row.status \in Wanted(step) THEN [step |-> "read", row |-> row]
                   ELSE [step |-> IF step = "pick1" THEN "pick2" ELSE "pick3"]]
    /\ UNCHANGED <<db, board, jobs, memo, viewers, ghosts>>

LoadDone(l) ==
    /\ load[l].step = "read"
    /\ load' = [load EXCEPT ![l] = [step |-> "done", value |-> Public(load[l].row)]]
    /\ UNCHANGED <<db, board, jobs, memo, viewers, ghosts>>

(* Nothing was found, or the database fails: an error is not kept. *)
LoadFails(l) ==
    /\ load[l].step \in {"pick1", "pick2", "pick3"}
    /\ IF load[l].step = "pick3" /\ row.status \notin Wanted("pick3") THEN UNCHANGED losses ELSE Lost
    /\ load' = [load EXCEPT ![l] = [step |-> "done", value |-> None]]
    /\ memo' = IF memo = l THEN None ELSE memo
    /\ UNCHANGED <<row, lists, board, jobs, viewers, ghosts>>

(* Mutant: a load that is there is used for ever. *)
MemoIsKept == FALSE /\ UNCHANGED vars
(* An entry is used for one second. *)
MemoExpires ==
    /\ memo # None
    /\ memo' = None
    /\ UNCHANGED <<db, board, jobs, viewers, ghosts>>
    /\ load' = Tidied

----------------------------------------------------------------------------
(* Viewers *)

(* The answer replaces what the screen shows, older or not; without a      *)
(* match the screen leaves the room.                                       *)
Show(s) ==
    /\ asked[s] # None /\ load[asked[s]].step = "done"
    /\ LET answer == load[asked[s]].value IN
       /\ shown' = [shown EXCEPT ![s] = answer]
       /\ joined' = [joined EXCEPT ![s] = @ /\ answer # None]
       /\ wire' = IF answer = None THEN [wire EXCEPT ![s] = <<>>] ELSE wire
    /\ asked' = [asked EXCEPT ![s] = None]
    /\ UNCHANGED <<db, board, jobs, memo, polls, ghosts>>
    /\ load' = Tidied

(* A page reads the match by its id, without the memo. *)
Open(p) ==
    /\ shown[p] = None
    /\ shown' = [shown EXCEPT ![p] = Public(row)]
    /\ missed' = [missed EXCEPT ![p] = FALSE]
    /\ UNCHANGED <<db, server, polls, asked, joined, wire, told, since>>

(* After the first reading, or never (a page that found the match finished *)
(* is not live), and again after the connection was lost.                  *)
Join(v) ==
    /\ ~joined[v] /\ shown[v] # None
    /\ joined' = [joined EXCEPT ![v] = TRUE]
    /\ UNCHANGED <<db, server, polls, asked, shown, wire, ghosts>>

Disconnect(v) ==
    /\ joined[v] /\ Lost
    /\ joined' = [joined EXCEPT ![v] = FALSE]
    /\ wire' = [wire EXCEPT ![v] = <<>>]
    /\ missed' = [missed EXCEPT ![v] = @ \/ (~polls[v] /\ wire[v] # <<>>)]
    /\ UNCHANGED <<row, lists, server, polls, asked, shown, told, since>>

(* Mutant: the update that comes last is taken for the newest. *)
TakesAny(old, new) == TRUE
Takes(old, new) == new.seq >= old.seq

Receive(v) ==
    /\ wire[v] # <<>>
    /\ wire' = [wire EXCEPT ![v] = Tail(@)]
    /\ shown' = IF Takes(shown[v], Head(wire[v]))
                THEN [shown EXCEPT ![v] = Head(wire[v])] ELSE shown
    /\ UNCHANGED <<db, server, polls, asked, joined, ghosts>>

NotFound(l) == load[l].step = "pick3" /\ LoadFails(l)
Reading == \E l \in Load : Pick(l) \/ LoadDone(l) \/ NotFound(l)

Next ==
    \/ Commit \/ BoardExpires \/ MemoExpires
    \/ \E job \in jobs : Emit(job) \/ BoardRead(job)
    \/ \E score \in Score \cup {None} : BoardList(score)
    \/ Reading \/ \E l \in Load : LoadFails(l)
    \/ \E s \in Screen : Ask(s) \/ Show(s)
    \/ \E p \in Page : Open(p)
    \/ \E v \in Viewer : Join(v) \/ Disconnect(v) \/ Receive(v)

Spec == Init /\ [][Next]_vars

(* A screen asks every 20 s and its request is answered, well or not;      *)
(* entries of the memo age; what is on its way arrives.                    *)
FairSpec ==
    /\ Spec
    /\ WF_vars(Reading) /\ WF_vars(MemoExpires)
    /\ \A v \in Viewer : WF_vars(polls[v] /\ (Ask(v) \/ Show(v))) /\ WF_vars(Receive(v))

----------------------------------------------------------------------------
(* Properties *)

(* What a screen is answered is not older than the last update sent when   *)
(* it asked: the memo does not delay a result (memo, emitAndReturn).       *)
AnswersAreFresh ==
    \A s \in Screen : asked[s] # None /\ load[asked[s]].step = "done" =>
        LET answer == load[asked[s]].value IN answer = None \/ answer.seq >= since[s]

(* Updates of two requests, or of a request and a list of boards, can be   *)
(* sent in another order than they were written: a viewer who follows the  *)
(* match and missed nothing shows its present state as soon as nothing is  *)
(* under way (emitAndReturn, setBoardStates, `p.seq >= prev.seq`).         *)
QuietPageIsCurrent ==
    \A p \in Page :
        joined[p] /\ ~missed[p] /\ jobs = {} /\ wire[p] = <<>> => shown[p] = Public(row)

(* Whatever was lost, reordered or overwritten, a screen that keeps asking *)
(* shows the present state in the end, when the match rests.               *)
ScreensCatchUp == \A v \in Viewer : <>[](polls[v] => shown[v] = Public(row))
=============================================================================
