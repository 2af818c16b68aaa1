----------------------------- MODULE Assignment -----------------------------
(***************************************************************************)
(* Referees of matches (modules/referee-assignment): the engine that picks *)
(* a main referee and an assistant, the run the site starts by itself when *)
(* a pair becomes known, and an administrator who assigns all matches or   *)
(* one by hand.  Runs read the matches, choose, and write what they chose  *)
(* in a transaction of its own; matches begin, end and are moved meanwhile.*)
(*                                                                         *)
(* Matches and referees are numbers, ordered as their ids are.  A match    *)
(* whose code was entered counts as begun.  Tables are TablePlan's.        *)
(***************************************************************************)
EXTENDS Integers, FiniteSets, Players

CONSTANTS
    Match, Referee,
    Tournament,
    Of,             \* the tournament of a match
    Stage,          \* requiredRank of the stage of a match: 1, 2, 3 or 5
    OwnPlayer,      \* the player a referee is, or None
    Rank,           \* catRank of a referee, 0 the highest
    Neighbours,     \* the players of the referee's region
    Times,          \* minutes at which matches can be scheduled
    Schedule,       \* when the matches are to be played at first
    Pairs,          \* of a match: the pairs of players it can get
    DeskOptions,    \* what the administrator asks assignTournament for
    SlotMinutes,    \* a match keeps its referees so long (45)
    MaxCalls, MaxIncidents    \* bounds

ASSUME AssignmentAssumption ==
    /\ Match \subseteq Nat /\ Referee \subseteq Nat \ {0} /\ IsFiniteSet(Match)
    /\ Of \in [Match -> Tournament]
    /\ Stage \in [Match -> {1, 2, 3, 5}]
    /\ OwnPlayer \in [Referee -> Player \cup {None}]
    /\ Rank \in [Referee -> 0..5]
    /\ Neighbours \in [Referee -> SUBSET Player]
    /\ Times \subseteq Nat /\ Schedule \in [Match -> Times \cup {-1}] /\ Pairs \in [Match -> SUBSET SUBSET Player]
    /\ DeskOptions \subseteq [onlyUnassigned : BOOLEAN, needAssistant : BOOLEAN]
    /\ SlotMinutes \in Nat /\ {MaxCalls, MaxIncidents} \subseteq Nat

NoTime == -1    \* scheduledAt is null
Nobody == 0     \* refereeUserId or assistantUserId is null

VARIABLES
    match,      \* rows of the matches
    pool,       \* the referees who can be assigned
    run,        \* of a tournament: the run of autoAssign
    calls,      \* of a tournament: autoAssign will be called so often
    desk,       \* the administrator's request
    sure,       \* ghost: what the choice of an open match's referees was made by and still holds
    unseen,     \* ghost: matches whose pair no run has read yet
    lost,       \* ghost: tournaments that lost a call, or a run before it read
    incidents   \* bound: changes of plan, and requests of the administrator

vars == <<match, pool, run, calls, desk, sure, unseen, lost, incidents>>

Phase == {"SCHEDULED", "BEGUN", "FINISHED"}
Row == [status : Phase, pair : {{}} \cup UNION {Pairs[m] : m \in Match}, at : Times \cup {NoTime},
        referee : Referee \cup {Nobody}, assistant : Referee \cup {Nobody}]
Rows == [Match -> Row]
Options == [onlyUnassigned : BOOLEAN, needAssistant : BOOLEAN]
Default == [onlyUnassigned |-> TRUE, needAssistant |-> TRUE]

MatchesOf(t) == {m \in Match : Of[m] = t}

(* What a run knows when it writes, and the administrator who chooses.     *)
Idle == [step |-> "idle"]
Run(t) == [step : {"idle", "count", "load"}]
          \cup [step : {"write"}, seen : [MatchesOf(t) -> Row], pool : SUBSET Referee, opts : Options]
Manual == [step : {"manual"}, seen : Rows, m : Match,
           referee : Referee \cup {Nobody}, assistant : Referee \cup {Nobody}]

TypeOK ==
    /\ match \in Rows /\ pool \subseteq Referee
    /\ DOMAIN run = Tournament /\ \A t \in Tournament : run[t] \in Run(t)
    /\ calls \in [Tournament -> 0..MaxCalls]
    /\ desk \in {Idle} \cup Manual \cup UNION {Run(t) : t \in Tournament}
    /\ sure \in [Match -> SUBSET {"pair", "time"}]
    /\ unseen \subseteq Match /\ lost \subseteq Tournament
    /\ incidents \in 0..MaxIncidents

Init ==
    /\ match = [m \in Match |-> [status |-> "SCHEDULED", pair |-> {}, at |-> Schedule[m],
                                referee |-> Nobody, assistant |-> Nobody]]
    /\ pool = Referee
    /\ run = [t \in Tournament |-> Idle] /\ calls = [t \in Tournament |-> 0]
    /\ desk = Idle
    /\ sure = [m \in Match |-> {}] /\ unseen = {} /\ lost = {}
    /\ incidents = 0

----------------------------------------------------------------------------
(* assignReferees *)

Persons(row) == {row.referee, row.assistant} \ {Nobody}

Overlap(a, b) ==
    /\ a.at # NoTime /\ b.at # NoTime
    /\ a.at < b.at + SlotMinutes /\ b.at < a.at + SlotMinutes

Locked(row) == row.status # "SCHEDULED"
Keep(row, opts) == Locked(row) \/ (opts.onlyUnassigned /\ row.referee # Nobody)

(* The matches as the engine starts: those it is free to assign are empty. *)
Cleared(rows, opts) ==
    [m \in DOMAIN rows |-> IF Keep(rows[m], opts) THEN rows[m]
                           ELSE [rows[m] EXCEPT !.referee = Nobody, !.assistant = Nobody]]

(* Mutant: an assistant is not busy. *)
IsBusyAsReferee(r, m, rows) ==
    \E n \in DOMAIN rows \ {m} : r = rows[n].referee /\ Overlap(rows[m], rows[n])
IsBusy(r, m, rows) ==
    \E n \in DOMAIN rows \ {m} : r \in Persons(rows[n]) /\ Overlap(rows[m], rows[n])
Load(r, rows) ==
    Cardinality({m \in DOMAIN rows : rows[m].referee = r})
    + Cardinality({m \in DOMAIN rows : rows[m].assistant = r})

(* score: the smaller the better. *)
Demerit(r, m, rows) ==
    LET lack == Rank[r] - Stage[m] IN
    10 * Load(r, rows)
    + (IF Neighbours[r] \cap rows[m].pair # {} THEN 40 ELSE 0)
    + (IF lack > 0 THEN 30 * lack ELSE -2 * lack)

TakesPart(r, row) == OwnPlayer[r] \in row.pair

(* Mutant: players may be referees of their own match. *)
CandidatesPlaying(m, rows, referees, exclude) ==
    {r \in referees \ {exclude} : ~IsBusy(r, m, rows)}
Candidates(m, rows, referees, exclude) ==
    {r \in referees \ {exclude} : ~TakesPart(r, rows[m]) /\ ~IsBusy(r, m, rows)}

(* Mutant: only the one who would be best is asked. *)
PickFavourite(m, rows, referees, exclude) ==
    LET best == CHOOSE r \in referees : \A s \in referees :
                    Demerit(r, m, rows) <= Demerit(s, m, rows) IN
    IF best \in Candidates(m, rows, referees, exclude) THEN best ELSE Nobody
Pick(m, rows, referees, exclude) ==
    LET able == Candidates(m, rows, referees, exclude)
        before(r, s) == \/ Demerit(r, m, rows) < Demerit(s, m, rows)
                        \/ Demerit(r, m, rows) = Demerit(s, m, rows) /\ r <= s IN
    IF able = {} THEN Nobody ELSE CHOOSE r \in able : \A s \in able : before(r, s)

(* The important stages first, then by time, matches without a time last.  *)
First(m, n, rows) ==
    LET time(k) == IF rows[k].at = NoTime THEN <<1, 0>> ELSE <<0, rows[k].at>>
        a == <<Stage[m], time(m)[1], time(m)[2], m>>
        b == <<Stage[n], time(n)[1], time(n)[2], n>> IN
    \E i \in 1..4 : a[i] < b[i] /\ \A j \in 1..i - 1 : a[j] = b[j]

(* Mutant: the assistant is picked as the main referee is. *)
AnyAssistant(referee) == Nobody
OtherThan(referee) == referee

Appoint(rows, m, referees, opts) ==
    LET main == Pick(m, rows, referees, Nobody)
        chosen == [rows EXCEPT ![m].referee = main]
        second == Pick(m, chosen, referees, OtherThan(main)) IN
    IF main # Nobody /\ opts.needAssistant
    THEN [chosen EXCEPT ![m].assistant = second] ELSE chosen

(* Matches without a pair are left for later. *)
Todo(rows, opts) == {m \in DOMAIN rows : ~Keep(rows[m], opts) /\ rows[m].pair # {}}

(* The engine goes from match to match, each time with what it has done.   *)
Foremost(S, rows) == CHOOSE m \in S : \A n \in S \ {m} : First(m, n, rows)
AppointNext(done, rows, referees, opts) ==
    LET m == Foremost(done.left, rows) IN
    [left |-> done.left \ {m}, rows |-> Appoint(done.rows, m, referees, opts)]
Appointments(rows, referees, opts) ==
    LET after[k \in 0..Cardinality(Todo(rows, opts))] ==
            IF k = 0 THEN [left |-> Todo(rows, opts), rows |-> Cleared(rows, opts)]
            ELSE AppointNext(after[k - 1], rows, referees, opts)
    IN after
Assign(rows, referees, opts) ==
    Appointments(rows, referees, opts)[Cardinality(Todo(rows, opts))].rows

Incident == incidents < MaxIncidents /\ incidents' = incidents + 1

----------------------------------------------------------------------------
(* Runs *)

Loaded(t) == [m \in MatchesOf(t) |-> match[m]]

(* What still holds of what a choice for m was made by.                    *)
Holds(m, seen) ==
    {k \in {"pair", "time"} :
        CASE k = "pair" -> match[m].pair = seen[m].pair
          [] k = "time" -> \A n \in DOMAIN seen : /\ match[n].at = seen[n].at
                                                 /\ Persons(match[n]) = Persons(seen[n])}

Read(t, opts) == [step |-> "write", seen |-> Loaded(t), pool |-> pool, opts |-> opts]

(* The transaction of assignTournament: only matches a referee was found   *)
(* for are written; the others keep what they have.                        *)
Write(job) ==
    LET rows == Assign(job.seen, job.pool, job.opts)
        found == {m \in Todo(job.seen, job.opts) : rows[m].referee # Nobody}
        leftOver == {m \in DOMAIN rows \ found : ~Keep(job.seen[m], job.opts)} IN
    /\ match' = [m \in Match |->
                    IF m \in found
                    THEN [match[m] EXCEPT !.referee = rows[m].referee,
                                          !.assistant = rows[m].assistant]
                    ELSE match[m]]
    /\ sure' = [m \in Match |-> IF match[m].status = "FINISHED" THEN {}
                                ELSE IF m \in found THEN Holds(m, job.seen)
                                ELSE IF m \in leftOver THEN sure[m] \ {"time"}
                                ELSE sure[m]]

(* Matches with a pair and without a referee: the count in autoAssign.     *)
Waiting(t) == {m \in MatchesOf(t) : /\ match[m].status = "SCHEDULED"
                                    /\ match[m].referee = Nobody
                                    /\ match[m].pair # {}}

(* autoAssign returns at once while a run of the tournament is at work.    *)
Call(t) ==
    /\ calls[t] > 0
    /\ calls' = [calls EXCEPT ![t] = @ - 1]
    /\ IF run[t] = Idle
       THEN run' = [run EXCEPT ![t] = [step |-> "count"]] /\ UNCHANGED lost
       ELSE /\ UNCHANGED run
            /\ lost' = IF run[t].step = "write" THEN lost \cup {t} ELSE lost
    /\ UNCHANGED <<match, pool, desk, sure, unseen, incidents>>

Seen(t) == unseen' = unseen \ MatchesOf(t) /\ lost' = lost \ {t}

Count(t) ==
    /\ run[t].step = "count"
    /\ IF Waiting(t) = {}
       THEN run' = [run EXCEPT ![t] = Idle] /\ Seen(t)
       ELSE run' = [run EXCEPT ![t] = [step |-> "load"]] /\ UNCHANGED <<unseen, lost>>
    /\ UNCHANGED <<match, pool, calls, desk, sure, incidents>>

(* assignTournament reads matches and referees; without referees it ends.  *)
LoadRun(t) ==
    /\ run[t].step = "load"
    /\ run' = [run EXCEPT ![t] = IF pool = {} THEN Idle ELSE Read(t, Default)]
    /\ Seen(t)
    /\ UNCHANGED <<match, pool, calls, desk, sure, incidents>>

WriteRun(t) ==
    /\ run[t].step = "write"
    /\ Write(run[t])
    /\ run' = [run EXCEPT ![t] = Idle]
    /\ UNCHANGED <<pool, calls, desk, unseen, lost, incidents>>

(* The database fails: the error is logged and the run is over. *)
FailRun(t) ==
    /\ run[t] # Idle
    /\ run' = [run EXCEPT ![t] = Idle]
    /\ lost' = IF run[t].step = "write" THEN lost ELSE lost \cup {t}
    /\ UNCHANGED <<match, pool, calls, desk, sure, unseen, incidents>>

RunStep(t) == Count(t) \/ LoadRun(t) \/ WriteRun(t)

----------------------------------------------------------------------------
(* The administrator *)

(* assignTournament asked for by hand; autoAssign is not looked at. *)
AssignAll(t, opts) ==
    /\ desk = Idle /\ pool # {} /\ Incident
    /\ desk' = Read(t, opts)
    /\ UNCHANGED <<match, pool, run, calls, sure, unseen, lost>>

WriteAll ==
    /\ desk.step = "write"
    /\ Write(desk)
    /\ desk' = Idle
    /\ UNCHANGED <<pool, run, calls, unseen, lost, incidents>>

(* setManual: every check before the write. *)
SetManual(m, r, a) ==
    LET ids == {r, a} \ {Nobody} IN
    /\ desk = Idle /\ Incident
    /\ match[m].status # "FINISHED"
    /\ a # Nobody => r # Nobody /\ r # a
    /\ ids \subseteq pool
    /\ \A id \in ids : ~TakesPart(id, match[m])
    /\ \A n \in Match \ {m} :
           Overlap(match[m], match[n]) /\ match[n].status # "FINISHED"
           => Persons(match[n]) \cap ids = {}
    /\ desk' = [step |-> "manual", seen |-> match, m |-> m, referee |-> r, assistant |-> a]
    /\ UNCHANGED <<match, pool, run, calls, sure, unseen, lost>>

WriteManual ==
    /\ desk.step = "manual"
    /\ match' = [match EXCEPT ![desk.m].referee = desk.referee,
                              ![desk.m].assistant = desk.assistant]
    /\ sure' = [sure EXCEPT ![desk.m] =
                  IF desk.referee = Nobody \/ match[desk.m].status = "FINISHED"
                  THEN {} ELSE Holds(desk.m, desk.seen)]
    /\ desk' = Idle
    /\ UNCHANGED <<pool, run, calls, unseen, lost, incidents>>

----------------------------------------------------------------------------
(* What happens to matches meanwhile *)

(* Mutant: autoAssign is called by draws only, and not at the end of a match. *)
NotCalled(t) == UNCHANGED calls
Called(t) == calls[t] < MaxCalls /\ calls' = [calls EXCEPT ![t] = @ + 1]

(* A draw, or the end of the match before, makes the pair known; autoAssign *)
(* is called after the transaction.                                         *)
PairKnown(m, p) ==
    /\ match[m].pair = {} /\ match[m].status = "SCHEDULED"
    /\ match' = [match EXCEPT ![m].pair = p]
    /\ Called(Of[m])
    /\ unseen' = unseen \cup {m}
    /\ sure' = [sure EXCEPT ![m] = @ \ {"pair"}]
    /\ UNCHANGED <<pool, run, desk, lost, incidents>>

(* The match before is undone. *)
PairGone(m) ==
    /\ match[m].pair # {} /\ match[m].status = "SCHEDULED" /\ Incident
    /\ match' = [match EXCEPT ![m].pair = {}]
    /\ unseen' = unseen \ {m}
    /\ UNCHANGED <<pool, run, calls, desk, sure, lost>>

Begin(m) ==
    /\ match[m].pair # {} /\ match[m].status = "SCHEDULED"
    /\ match' = [match EXCEPT ![m].status = "BEGUN"]
    /\ UNCHANGED <<pool, run, calls, desk, sure, unseen, lost, incidents>>

End(m) ==
    /\ match[m].status = "BEGUN"
    /\ match' = [match EXCEPT ![m].status = "FINISHED"]
    /\ Called(Of[m])
    /\ sure' = [sure EXCEPT ![m] = {}]
    /\ UNCHANGED <<pool, run, desk, unseen, lost, incidents>>

Reopen(m) ==
    /\ match[m].status = "FINISHED" /\ Incident
    /\ match' = [match EXCEPT ![m].status = "BEGUN"]
    /\ UNCHANGED <<pool, run, calls, desk, sure, unseen, lost>>

(* A match is moved in the schedule; nobody looks at its referees.         *)
Reschedule(m, at) ==
    /\ match[m].status = "SCHEDULED" /\ at # match[m].at /\ Incident
    /\ match' = [match EXCEPT ![m].at = at]
    /\ sure' = [sure EXCEPT ![m] = @ \ {"time"}]
    /\ UNCHANGED <<pool, run, calls, desk, unseen, lost>>

(* A referee falls ill, or is approved. *)
PoolChanges(r) ==
    /\ Incident
    /\ pool' = IF r \in pool THEN pool \ {r} ELSE pool \cup {r}
    /\ UNCHANGED <<match, run, calls, desk, sure, unseen, lost>>

Next ==
    \/ \E t \in Tournament : Call(t) \/ RunStep(t) \/ FailRun(t)
    \/ \E t \in Tournament, opts \in DeskOptions : AssignAll(t, opts)
    \/ \E m \in Match, r \in Referee \cup {Nobody}, a \in Referee \cup {Nobody} :
          SetManual(m, r, a)
    \/ WriteAll \/ WriteManual
    \/ \E m \in Match : \/ \E p \in Pairs[m] : PairKnown(m, p)
                        \/ PairGone(m) \/ Begin(m) \/ End(m) \/ Reopen(m)
                        \/ \E at \in Times : Reschedule(m, at)
    \/ \E r \in Referee : PoolChanges(r)

Spec == Init /\ [][Next]_vars

(* The call follows the transaction in the same request, and a run ends,   *)
(* well or not: its steps follow each other and `finally` frees the        *)
(* tournament.                                                             *)
FairSpec ==
    Spec /\ \A t \in Tournament : WF_vars(Call(t)) /\ []<>(run[t] = Idle)

----------------------------------------------------------------------------
(* Properties *)

(* Nobody is assigned to his own match, unless its players changed after   *)
(* the choice was made (pick, setManual).                                  *)
NobodyJudgesHimself ==
    \A m \in Match : "pair" \in sure[m] =>
        \A r \in Persons(match[m]) : ~TakesPart(r, match[m])

Clash(m, n) ==
    /\ m # n /\ Of[m] = Of[n] /\ "FINISHED" \notin {match[m].status, match[n].status}
    /\ Overlap(match[m], match[n]) /\ Persons(match[m]) \cap Persons(match[n]) # {}

(* Nobody is in two matches of a tournament at once, unless one of them was *)
(* moved or reopened, its assignment was overtaken by another, or it was    *)
(* left over by a redistribution; and in one match nobody is both referee   *)
(* and assistant, or assistant to nobody (isBusy, setManual).               *)
NobodyInTwoPlaces ==
    /\ \A m, n \in Match : Clash(m, n) => "time" \notin sure[m] \cap sure[n]
    /\ \A m \in Match : match[m].assistant # Nobody =>
          match[m].referee \notin {Nobody, match[m].assistant}

(* After a run that nobody has disturbed a match is without a referee only *)
(* if everybody plays in it or is busy elsewhere (assignReferees).         *)
NobodyFreeIsLeftOut ==
    [][\A t \in Tournament : WriteRun(t) /\ Loaded(t) = run[t].seen =>
          \A m \in Waiting(t) : match'[m].referee = Nobody =>
              \A r \in run[t].pool :
                  TakesPart(r, match[m]) \/ IsBusy(r, m, [n \in MatchesOf(t) |-> match'[n]])]_vars

(* Every pair that becomes known is looked at by a run, unless a call came *)
(* when the running one had read already, or a run failed (autoAssign).    *)
EveryPairIsLookedAt ==
    \A m \in Match : m \in unseen ~> m \notin unseen \/ Of[m] \in lost

----------------------------------------------------------------------------
(* What the code's own words say, and it does not do *)

(* assignment.engine.ts:7 nobody is in two matches at once: assigning all  *)
(* matches of a tournament anew keeps them apart if they were.             *)
AssigningAllKeepsApart ==
    [][WriteAll /\ Loaded(Of[CHOOSE m \in DOMAIN desk.seen : TRUE]) = desk.seen
       /\ ~(\E m, n \in Match : Clash(m, n)) => ~(\E m, n \in Match : Clash(m, n))']_vars

(* assignment.engine.ts:25 a match that has begun is left alone. *)
BegunIsLeftAlone ==
    [][\A m \in Match : match[m].status # "SCHEDULED" /\ Persons(match'[m]) # Persons(match[m])
          => WriteManual]_vars

(* assignment.service.ts:24 a call does not get lost. *)
NoCallIsLost == \A m \in Match : m \in unseen ~> m \notin unseen
=============================================================================
