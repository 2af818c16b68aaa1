---------------------------- MODULE Announcements ----------------------------
(***************************************************************************)
(* TelegramService and the ratings it reads from ShowcaseService: results  *)
(* and news wait in a queue in memory for one sender; an administrator's   *)
(* test sends beside it, and screens fill the cache of ratings.            *)
(*                                                                         *)
(* A text is a match with its result, or a piece of news.  The API keeps   *)
(* the results it sent last and forgets the oldest.  The pictures that     *)
(* follow a result are left out: nothing is remembered of them.  So is     *)
(* recent: every change of a match has a number of its own, so no number   *)
(* is notified twice.                                                      *)
(***************************************************************************)
EXTENDS Integers, Sequences, FiniteSets

CONSTANTS
    Match, Result, News, None,
    QueueMax,       \* TELEGRAM_QUEUE_MAX
    Attempts,       \* 3 in the code
    MemoryMax,      \* 1000 in the code
    MaxSeq, MaxIncidents    \* bounds

ASSUME AnnouncementsAssumption ==
    /\ None \notin Result \cup Match \cup News
    /\ News \cap (Match \cup (Match \X Result)) = {}
    /\ {MaxSeq, MaxIncidents} \subseteq Nat /\ {QueueMax, Attempts, MemoryMax} \subseteq Nat \ {0}

VARIABLES
    result,     \* the result of a match, None while it is not finished
    seq,        \* bound: the number of its changes
    notices,    \* how many calls of emitAndReturn are still to come
    jobs,       \* jobs
    work,       \* what the sender, the test and a screen are at
    cache,      \* ShowcaseService.cache: the result a rating is of
    sent,       \* sentResults, the oldest first
    unsaid,     \* news that is still to be published
    incidents,  \* bound: failures, delays, restarts and tests
    posts,      \* external: how often the channel got a text from the sender,
                \* since the API started or last forgot it
    forgotten,  \* ghost: results it has forgotten since their match ended
    unsure,     \* ghost: texts the sender sent and got no answer for
    dropped     \* ghost: matches of which a job was given up

database == <<result, seq, unsaid, incidents>>
memory == <<notices, jobs, work, cache, sent>>
ghosts == <<posts, forgotten, unsure, dropped>>
vars == <<database, memory, ghosts>>

Who == {"sender", "test", "screen"}
Text == (Match \X Result) \cup News
Idle == [at |-> "idle"]
Over == [at |-> "over"]     \* a job has ended and the loop of drain goes round

Init ==
    /\ result = [m \in Match |-> None] /\ seq = [m \in Match |-> 0]
    /\ unsaid = News /\ incidents = 0
    /\ notices = [m \in Match |-> 0] /\ jobs = <<>>
    /\ work = [w \in Who |-> Idle]
    /\ cache = [m \in Match |-> None] /\ sent = <<>>
    /\ posts = [t \in Text |-> 0] /\ forgotten = {} /\ unsure = {} /\ dropped = {}

Incident == incidents < MaxIncidents /\ incidents' = incidents + 1

----------------------------------------------------------------------------
(* Matches *)

Change(m) == seq[m] < MaxSeq /\ seq' = [seq EXCEPT ![m] = @ + 1]
Busy(w, m) == w # "screen" /\ work[w] \notin {Idle, Over} /\ work[w].what = m

Finish(m, r) ==
    /\ result[m] = None
    /\ Change(m)
    /\ result' = [result EXCEPT ![m] = r]
    /\ notices' = [notices EXCEPT ![m] = @ + 1]
    /\ work' = [w \in Who |-> IF Busy(w, m) THEN [work[w] EXCEPT !.since = @ \cup {r}] ELSE work[w]]
    /\ forgotten' = forgotten \ {<<m, r>>}
    /\ UNCHANGED <<unsaid, incidents, jobs, cache, sent, posts, unsure, dropped>>

Undo(m) ==
    /\ result[m] # None
    /\ Change(m)
    /\ result' = [result EXCEPT ![m] = None]
    /\ UNCHANGED <<unsaid, incidents, memory, ghosts>>

(* The code of a finished match is entered once more. *)
Verify(m) ==
    /\ result[m] # None
    /\ Change(m)
    /\ notices' = [notices EXCEPT ![m] = @ + 1]
    /\ UNCHANGED <<result, unsaid, incidents, jobs, work, cache, sent, ghosts>>

----------------------------------------------------------------------------
(* Sending *)

(* Mutant: a rating of before the undo is good enough. *)
KeptRatings(m) == cache
Forgotten(m) == [cache EXCEPT ![m] = None]

Known == {sent[i] : i \in DOMAIN sent}

(* Mutant: whatever is announced is sent. *)
AlwaysNew(w, text) == TRUE
(* Mutant: only the match is remembered and not its result. *)
NewMatch(w, text) == w = "test" \/ \A t \in Known : t[1] # text[1]
IsNew(w, text) == w = "test" \/ text \notin Known

After(w) == IF w = "sender" THEN Over ELSE Idle

Sending(what, text, since) ==
    [at |-> "sending", what |-> what, text |-> text, tries |-> 0, since |-> since]

(* sendMatch with its rating; a screen only shows it. *)
Rated(w, m, rating, since) ==
    IF w # "screen" /\ IsNew(w, <<m, rating>>)
    THEN Sending(m, <<m, rating>>, since)
    ELSE After(w)

Standing(m) == {result[m]} \ {None}

(* job.run, or sendTest, up to the first await. *)
Begun(w, what) ==
    IF what \in News
    THEN /\ work' = [work EXCEPT ![w] = Sending(what, what, {})]
         /\ UNCHANGED cache
    ELSE /\ cache' = Forgotten(what)
         /\ work' = [work EXCEPT ![w] =
                IF cache'[what] # None THEN Rated(w, what, cache'[what], Standing(what))
                ELSE [at |-> "looking", what |-> what, since |-> Standing(what)]]

(* The oldest are dropped to make room. *)
Room(js) == IF Len(js) >= QueueMax THEN Tail(js) ELSE js
Pushed(what) == Append(Room(jobs), [what |-> what, old |-> FALSE])
Matches(js) == {js[i].what : i \in DOMAIN js} \cap Match

(* enqueue, and drain unless it is at work. *)
Enqueue(what) ==
    /\ dropped' = (dropped \cup (Matches(jobs) \ Matches(Room(jobs)))) \ {what}
    /\ IF work["sender"] = Idle
       THEN /\ jobs' = Tail(Pushed(what))
            /\ Begun("sender", Head(Pushed(what)).what)
       ELSE /\ jobs' = Pushed(what)
            /\ UNCHANGED <<work, cache>>
    /\ UNCHANGED <<sent, posts, forgotten, unsure>>

Notify(m) ==
    /\ notices[m] > 0
    /\ notices' = [notices EXCEPT ![m] = @ - 1]
    /\ Enqueue(m)
    /\ UNCHANGED database

Publish(a) ==
    /\ a \in unsaid
    /\ unsaid' = unsaid \ {a}
    /\ Enqueue(a)
    /\ UNCHANGED <<result, seq, incidents, notices>>

(* The loop of drain: the next job, or the end. *)
Drain ==
    /\ work["sender"] = Over
    /\ IF jobs = <<>>
       THEN /\ work' = [work EXCEPT !["sender"] = Idle]
            /\ UNCHANGED <<jobs, cache, dropped>>
       ELSE /\ jobs' = Tail(jobs)
            /\ IF Head(jobs).old
               THEN /\ work' = [work EXCEPT !["sender"] = Over]
                    /\ dropped' = dropped \cup ({Head(jobs).what} \cap Match)
                    /\ UNCHANGED cache
               ELSE Begun("sender", Head(jobs).what) /\ UNCHANGED dropped
    /\ UNCHANGED <<database, notices, sent, posts, forgotten, unsure>>

(* Ten minutes pass. *)
Wait ==
    /\ Incident
    /\ \E i \in DOMAIN jobs : ~jobs[i].old
    /\ jobs' = [i \in DOMAIN jobs |-> [jobs[i] EXCEPT !.old = TRUE]]
    /\ UNCHANGED <<result, seq, unsaid, notices, work, cache, sent, ghosts>>

(* An administrator's test of one match. *)
Test(m) ==
    /\ work["test"] = Idle /\ Incident
    /\ Begun("test", m)
    /\ UNCHANGED <<result, seq, unsaid, notices, jobs, sent, ghosts>>

(* A screen asks for the rating. *)
Open(m) ==
    /\ work["screen"] = Idle /\ cache[m] = None
    /\ work' = [work EXCEPT !["screen"] = [at |-> "looking", what |-> m, since |-> {}]]
    /\ UNCHANGED <<database, notices, jobs, cache, sent, ghosts>>

Expire(m) ==
    /\ cache[m] # None
    /\ cache' = [cache EXCEPT ![m] = None]
    /\ UNCHANGED <<database, notices, jobs, work, sent, ghosts>>

----------------------------------------------------------------------------
(* Reading the rating *)

(* The match is read; one that is not finished has no rating. *)
Look(w) ==
    /\ work[w].at = "looking"
    /\ work' = [work EXCEPT ![w] =
           IF result[@.what] = None THEN After(w)
           ELSE [at |-> "counting", what |-> @.what, of |-> result[@.what], since |-> @.since]]
    /\ UNCHANGED <<database, notices, jobs, cache, sent, ghosts>>

(* The points the match gave are read, and the rating is kept. *)
Count(w) ==
    /\ work[w].at = "counting"
    /\ LET m == work[w].what
           rating == work[w].of
       IN /\ cache' = [cache EXCEPT ![m] = rating]
          /\ work' = [work EXCEPT ![w] = Rated(w, m, rating, work[w].since)]
    /\ UNCHANGED <<database, notices, jobs, sent, ghosts>>

----------------------------------------------------------------------------
(* Calls to Telegram *)

Reached(w) ==
    IF w = "sender" THEN [posts EXCEPT ![work[w].text] = @ + 1] ELSE posts

(* sentResults.add, and the oldest is dropped when there are too many. *)
Added(text) == IF text \in News \cup Known THEN sent ELSE Append(sent, text)
(* Mutant: one result less is remembered. *)
RememberedOneLess(text) == IF Len(Added(text)) >= MemoryMax THEN Tail(Added(text)) ELSE Added(text)
Remembered(text) == IF Len(Added(text)) > MemoryMax THEN Tail(Added(text)) ELSE Added(text)
PushedOut(text) == IF Len(Added(text)) > MemoryMax THEN {Head(Added(text))} ELSE {}

Sent(w) ==
    /\ work[w].at = "sending"
    /\ LET out == PushedOut(work[w].text) IN
       /\ posts' = [t \in Text |-> IF t \in out THEN 0 ELSE Reached(w)[t]]
       /\ forgotten' = forgotten \cup out
    /\ sent' = Remembered(work[w].text)
    /\ work' = [work EXCEPT ![w] = After(w)]
    /\ UNCHANGED <<database, notices, jobs, cache, unsure, dropped>>

GivenUp(w) ==
    /\ work' = [work EXCEPT ![w] = After(w)]
    /\ dropped' = IF w = "sender" THEN dropped \cup ({work[w].what} \cap Match) ELSE dropped

(* An attempt fails: the call is refused (final), or fails in a way that   *)
(* another attempt may mend, with the text in the channel or not.          *)
Fail(w, reached, final) ==
    /\ work[w].at = "sending" /\ Incident
    /\ ~(reached /\ final)
    /\ posts' = IF reached THEN Reached(w) ELSE posts
    /\ unsure' = IF reached /\ w = "sender" THEN unsure \cup {work[w].text} ELSE unsure
    /\ IF final \/ work[w].tries + 1 = Attempts THEN GivenUp(w)
       ELSE /\ work' = [work EXCEPT ![w].tries = @ + 1]
            /\ UNCHANGED dropped
    /\ UNCHANGED <<result, seq, unsaid, notices, jobs, cache, sent, forgotten>>

(* The API stops and starts; posts are counted anew. *)
Restart ==
    /\ Incident
    /\ notices' = [m \in Match |-> 0] /\ jobs' = <<>>
    /\ work' = [w \in Who |-> Idle]
    /\ cache' = [m \in Match |-> None] /\ sent' = <<>>
    /\ posts' = [t \in Text |-> 0] /\ forgotten' = {} /\ unsure' = {} /\ dropped' = Match
    /\ UNCHANGED <<result, seq, unsaid>>

----------------------------------------------------------------------------
Working(w) == Look(w) \/ Count(w) \/ Sent(w)

Next ==
    \/ \E m \in Match :
        \/ \E r \in Result : Finish(m, r)
        \/ Undo(m) \/ Verify(m)
        \/ Notify(m) \/ Test(m) \/ Open(m) \/ Expire(m)
    \/ \E a \in News : Publish(a)
    \/ Drain \/ Wait \/ Restart
    \/ \E w \in Who :
        \/ Working(w)
        \/ \E reached, final \in BOOLEAN : Fail(w, reached, final)

(* Requests go on after their transactions; promises are kept; a call that *)
(* does not fail answers.                                                  *)
Fairness ==
    /\ \A m \in Match : WF_vars(Notify(m))
    /\ WF_vars(Drain)
    /\ \A w \in Who : WF_vars(Working(w))

Spec == Init /\ [][Next]_vars
FairSpec == Spec /\ Fairness

----------------------------------------------------------------------------
(* Properties *)

(* "dublikat yubormaydi": a result the queue has posted is not posted      *)
(* again, however often its match is undone, finished again or verified,   *)
(* until the API restarts or, MemoryMax other results later, forgets it    *)
(* (posts counts anew from there); and a piece of news it was given is     *)
(* posted once.  What was sent when its answer was lost may come again     *)
(* (telegram.service.ts, sentResults and call).                            *)
NothingTwice == \A t \in Text \ unsure : posts[t] <= 1

(* What is being posted stood at some time since its job began: no rating  *)
(* that is older than that, from the cache of the screens, gets into the   *)
(* channel (telegram.service.ts, forget before rating).                    *)
PostedStood ==
    \A w \in {"sender", "test"} :
        work[w].at = "sending" /\ work[w].what \in Match => work[w].text[2] \in work[w].since

(* A result that stands is announced, unless a job of its match was        *)
(* dropped from the queue, grew old in it, failed or was lost by a restart;*)
(* afterwards it may be forgotten (notifyFinished, enqueue and drain).     *)
StandingIsAnnounced ==
    \A m \in Match, r \in Result :
        result[m] = r ~> (result[m] # r \/ <<m, r>> \in Known \cup forgotten \/ m \in dropped)

=============================================================================
