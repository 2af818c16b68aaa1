-------------------------- MODULE ScoreboardBridge --------------------------
(***************************************************************************)
(* A scoreboard court, its bridge and the site (apps/scoreboard/server.js, *)
(* apps/scoreboard/site-bridge.js, modules/scoreboard-bridge).             *)
(*                                                                         *)
(* A referee plays a match of the site on the court; when it is over the   *)
(* bridge sends the sets with a 30 s limit and tries again every 4 s until *)
(* the site has the result or has refused it.  The site plays the points   *)
(* one transaction at a time, so a request lives on when the client has    *)
(* given it up, and dies half way when the API stops.  The board keeps its *)
(* courts in a file it writes a little later; its undo stack it does not.  *)
(*                                                                         *)
(* Beside the replays referees work on the site: they give points, take    *)
(* them back (a finished match is open again then) and disqualify.  What   *)
(* may keep them from it, a card given last or a next match that has begun *)
(* (module Matches), only means that a step is not taken.                  *)
(***************************************************************************)
EXTENDS ReplayPlan, FiniteSets

CONSTANTS
    Match, None,
    SiteBestOf,    \* bestOf of the matches on the site
    Results,       \* lists of sets a court can end with
    Request,       \* bound: calls of /sb/result at work at the same time
    RequireCode,   \* SB_PUBLIC=1: matches start through the referee panel only
    MaxOperations, \* bound: operations of the referee on the court
    MaxFailures,   \* bound: timeouts, lost calls and restarts
    MaxSiteSteps,  \* bound: steps of referees and administrators on the site
    Deletable      \* bound: the matches that may be unplayable

ASSUME BridgeAssumption ==
    /\ None \notin Match /\ None \notin Request
    /\ None \notin [call : Request, held : BOOLEAN]
    /\ SiteBestOf \in Nat \ {0}
    /\ Results \subseteq Seq(SetScore)
    /\ RequireCode \in BOOLEAN
    /\ MaxOperations \in Nat /\ MaxFailures \in Nat /\ MaxSiteSteps \in Nat
    /\ Deletable \subseteq Match

VARIABLES
    site,       \* the score of each match on the site
    log,        \* its points, each with the snapshot taken before
    verified,   \* matches whose code has been entered on the site
    unplayable, \* matches the site does not know, or that lack a player
    court,      \* the court of the board
    past,       \* its undo stack
    saved,      \* the court in state.json
    push,       \* the call the bridge waits for, or None
    request,    \* the calls the site is working on
    operations, failures, siteSteps,   \* bounds
    reopened,   \* ghost: matches that were over and a referee has reopened
    disturbed,  \* ghost: matches of which a point was taken back while a
                \*        call was between its first look and its last point
    crossed     \* ghost: a match was started while a result was on its way

vars == <<site, log, verified, unplayable, court, past, saved, push, request,
          operations, failures, siteSteps, reopened, disturbed, crossed>>

NoSets == <<>>
NoResult == <<NoPoints>>     \* no list of sets the board can send
Court == [phase : {"idle", "running", "over"}, match : Match \cup {None},
          sets : Results \cup {NoSets}, posted : BOOLEAN,
          rejected : Results \cup {NoResult}]
EmptyCourt == [phase |-> "idle", match |-> None, sets |-> NoSets,
               posted |-> FALSE, rejected |-> NoResult]

Answer == {"finished", "unfinished", "refused", "error"}
Call == [phase : {"none", "sent", "read", "replay"} \cup Answer,
         match : Match \cup {None}, sets : Results \cup {NoSets},
         begun : BOOLEAN, given : Nat]
NoCall == [phase |-> "none", match |-> None, sets |-> NoSets,
           begun |-> FALSE, given |-> 0]

(* A MatchEvent that undo looks at: who it is of, a call with the sets it  *)
(* replays or a referee on the site (None), and the score before.          *)
Event == [type : {"POINT", "DISQUALIFY"}, by : Request \cup {None},
          sets : Results \cup {NoSets}, before : Score]

TypeOK ==
    /\ site \in [Match -> Score]
    /\ log \in [Match -> Seq(Event)]
    /\ verified \subseteq Match /\ unplayable \subseteq Match
    /\ court \in Court /\ saved \in Court
    /\ court.phase = "idle" => court.match = None
    /\ past \in Seq(Court)
    /\ push \in [call : Request, held : BOOLEAN] \cup {None}
    /\ request \in [Request -> Call]
    /\ operations \in 0..MaxOperations
    /\ failures \in 0..MaxFailures
    /\ siteSteps \in 0..MaxSiteSteps
    /\ reopened \subseteq Match /\ disturbed \subseteq Match
    /\ crossed \in BOOLEAN

Init ==
    /\ site = [m \in Match |-> InitialState]
    /\ log = [m \in Match |-> <<>>]
    /\ verified \in SUBSET Match /\ unplayable \in SUBSET Deletable
    /\ court = EmptyCourt /\ saved = EmptyCourt /\ past = <<>>
    /\ push = None
    /\ request = [r \in Request |-> NoCall]
    /\ operations = 0 /\ failures = 0 /\ siteSteps = 0
    /\ reopened = {} /\ disturbed = {}
    /\ crossed = FALSE

(* What is recorded of the matches on the site. *)
recordVars == <<site, log, unplayable, reopened, disturbed>>
siteVars == <<recordVars, verified, request>>
boundVars == <<failures, siteSteps>>

----------------------------------------------------------------------------
(* The court.  Most operations change the court in place; undo and         *)
(* resetall put another object in its place, which a call under way does   *)
(* not hold.                                                               *)

Detached == IF push = None THEN None ELSE [push EXCEPT !.held = FALSE]

Operation(next) ==
    /\ operations < MaxOperations
    /\ operations' = operations + 1
    /\ court' = next
    /\ UNCHANGED <<siteVars, saved, boundVars>>

(* An operation of SNAP puts the court as it was on the undo stack.        *)
Step(next) ==
    /\ Operation(next)
    /\ past' = Append(past, court)
    /\ UNCHANGED push

(* There is a result that still has to get to the site. *)
Due(c) == /\ c.phase = "over" /\ c.match # None /\ ~c.posted
          /\ c.sets # NoSets /\ c.rejected # c.sets

Started(m) == [EmptyCourt EXCEPT !.phase = "running", !.match = m]

(* startSiteMatch, from the referee panel; the match runs on no other      *)
(* court (there is one).                                                   *)
StartSite(m) ==
    /\ court.match # m
    /\ RequireCode => m \in verified
    /\ court.phase # "running"
    /\ ~Due(court)
    /\ Step(Started(m))
    /\ crossed' = (crossed \/ push # None)

(* A start from the list of the hall, or of a match (None) the site does   *)
(* not know: no question is asked, and a refusal of the match before stays.*)
StartHall(m) ==
    /\ RequireCode => m = None
    /\ Step([Started(m) EXCEPT !.rejected = court.rejected])
    /\ crossed' = (crossed \/ push # None)

(* The last point, or the button that ends a match at any score. *)
Finish(sets) ==
    /\ court.phase = "running"
    /\ Step([court EXCEPT !.phase = "over", !.sets = sets])
    /\ UNCHANGED crossed

(* resetMatch, and the court is of no match of the site. *)
Emptied(c) == [c EXCEPT !.phase = "idle", !.match = None, !.sets = NoSets,
                        !.posted = FALSE]

NewMatch ==
    /\ court.phase # "idle"
    /\ Step(Emptied(court))
    /\ UNCHANGED crossed

ResetAll ==
    /\ court # EmptyCourt
    /\ Operation(EmptyCourt)
    /\ past' = Append(past, court)
    /\ push' = Detached
    /\ UNCHANGED crossed

Undo ==
    /\ past # <<>>
    /\ Operation(past[Len(past)])
    /\ past' = SubSeq(past, 1, Len(past) - 1)
    /\ push' = Detached
    /\ UNCHANGED crossed

(* The timer of persist. *)
Persist ==
    /\ saved # court
    /\ saved' = court
    /\ UNCHANGED <<siteVars, court, past, push, operations, boundVars, crossed>>

----------------------------------------------------------------------------
(* The bridge *)

(* Mutant: the timer does not ask whether the last call is over. *)
MayPushAtOnce(p) == TRUE
(* if (pushing) return *)
MayPush(p) == p = None

(* One result at a time; a refused score is not sent again. *)
Push ==
    /\ MayPush(push)
    /\ Due(court)
    /\ \E r \in Request :
          /\ request[r].phase = "none"
          /\ push' = [call |-> r, held |-> TRUE]
          /\ request' = [request EXCEPT ![r] =
                [NoCall EXCEPT !.phase = "sent", !.match = court.match,
                               !.sets = court.sets]]
    /\ UNCHANGED <<recordVars, verified, court, past, saved, operations,
                   boundVars, crossed>>

(* Mutant: any success of the call counts, finished or not. *)
AcceptedWhenOk(answer) == answer \in {"finished", "unfinished"}
(* resultAccepted: the match is really FINISHED on the site. *)
Accepted(answer) == answer = "finished"
(* There is no use in trying again. *)
Refused(answer) == answer \in {"refused", "unfinished"}

(* Mutant: a call that failed is never given up. *)
NotPushing(p) == p
(* finally: pushing = false *)
Pushed(p) == None

(* The answer is noted on the court object the call was made for.          *)
Receive ==
    /\ push # None
    /\ LET answer == request[push.call].phase
           sets == request[push.call].sets IN
       /\ answer \in Answer
       /\ court' = IF ~push.held THEN court
                   ELSE IF Accepted(answer)
                   THEN [court EXCEPT !.posted = TRUE, !.rejected = NoResult]
                   ELSE IF Refused(answer) THEN [court EXCEPT !.rejected = sets]
                   ELSE court
       /\ request' = [request EXCEPT ![push.call] = NoCall]
       /\ push' = IF answer = "error" THEN Pushed(push) ELSE None
    /\ UNCHANGED <<recordVars, verified, past, saved, operations, boundVars,
                   crossed>>

(* A call nobody waits for any more goes on if the site has got it, and is *)
(* lost if it or its answer was on the way.                                *)
Abandon(r) ==
    LET phase == request[r].phase IN
    \/ phase \notin Answer /\ UNCHANGED request
    \/ phase \in Answer \cup {"sent"} /\ request' = [request EXCEPT ![r] = NoCall]

(* 30 s are over, or the connection broke. *)
GiveUp ==
    /\ push # None
    /\ failures < MaxFailures
    /\ failures' = failures + 1
    /\ Abandon(push.call)
    /\ push' = Pushed(push)
    /\ UNCHANGED <<recordVars, verified, court, past, saved, operations,
                   siteSteps, crossed>>

(* The board stops and starts again from its file. *)
RestartBoard ==
    /\ failures < MaxFailures
    /\ failures' = failures + 1
    /\ court' = saved
    /\ past' = <<>>
    /\ IF push = None THEN UNCHANGED request ELSE Abandon(push.call)
    /\ push' = None
    /\ UNCHANGED <<recordVars, verified, saved, operations, siteSteps, crossed>>

----------------------------------------------------------------------------
(* The site: applyResult *)

Awaited(r) == push # None /\ push.call = r
(* An answer nobody waits for goes nowhere. *)
Reply(r, answer) ==
    request' = [request EXCEPT ![r] =
        IF Awaited(r) THEN [@ EXCEPT !.phase = answer] ELSE NoCall]

PlanOf == [sets \in Results |-> PlanReplay(sets, SiteBestOf)]
Plan(r) == PlanOf[request[r].sets]
Begun(m) == site[m].cur # NoPoints

(* The match row is read and the result played in advance.  The 400 for a  *)
(* match that is not there, or lacks a player, is to the bridge an error   *)
(* like any other: it will send the result again.                          *)
ReadMatch(r) ==
    LET m == request[r].match IN
    /\ request[r].phase = "sent"
    /\ IF site[m].status = "FINISHED" THEN Reply(r, "finished")
       ELSE IF m \in unplayable THEN Reply(r, "error")
       ELSE IF ~Plan(r).ok THEN Reply(r, "refused")
       ELSE request' = [request EXCEPT ![r] =
                [@ EXCEPT !.phase = "read", !.begun = Begun(m)]]
    /\ UNCHANGED <<recordVars, verified, court, past, saved, push, operations,
                   boundVars, crossed>>

(* Mutant: only the points in the row count. *)
FreshRow(r) == ~request[r].begun
(* No point has been given on the site: no finished set now, and no points *)
(* in the row that was read.                                               *)
Fresh(r) == ~request[r].begun /\ site[request[r].match].sets = <<>>

(* The sets are counted; the code counts as entered from now on. *)
Admit(r) ==
    LET m == request[r].match IN
    /\ request[r].phase = "read"
    /\ IF Fresh(r)
       THEN /\ request' = [request EXCEPT ![r].phase = "replay"]
            /\ verified' = verified \cup {m}
       ELSE /\ Reply(r, "refused")
            /\ UNCHANGED verified
    /\ UNCHANGED <<recordVars, court, past, saved, push, operations, boundVars,
                   crossed>>

(* A point of the match, and its event.                                    *)
Given(m, s, by, sets) ==
    /\ site' = [site EXCEPT ![m] = ApplyPoint(@, SiteBestOf, s)]
    /\ log' = [log EXCEPT ![m] = Append(@, [type |-> "POINT", by |-> by,
                                           sets |-> sets, before |-> site[m]])]

(* One point of the plan, in a transaction of its own; it fails when the   *)
(* match is over or lacks a player.                                        *)
ReplayPoint(r) ==
    LET m == request[r].match  order == Plan(r).order IN
    /\ request[r].phase = "replay"
    /\ request[r].given < Len(order)
    /\ IF site[m].status = "FINISHED" \/ m \in unplayable
       THEN /\ Reply(r, "error")
            /\ UNCHANGED <<site, log>>
       ELSE /\ Given(m, order[request[r].given + 1], r, request[r].sets)
            /\ request' = [request EXCEPT ![r].given = @ + 1]
    /\ UNCHANGED <<verified, unplayable, court, past, saved, push, operations,
                   boundVars, reopened, disturbed, crossed>>

(* All points are given: what has become of the match? *)
Report(r) ==
    LET m == request[r].match IN
    /\ request[r].phase = "replay"
    /\ request[r].given = Len(Plan(r).order)
    /\ Reply(r, IF site[m].status = "FINISHED" THEN "finished" ELSE "unfinished")
    /\ UNCHANGED <<recordVars, verified, court, past, saved, push, operations,
                   boundVars, crossed>>

(* The API stops: the calls it works on are gone, the client sees an error.*)
RestartSite ==
    /\ failures < MaxFailures
    /\ failures' = failures + 1
    /\ request' = [r \in Request |->
          IF ~Awaited(r) THEN NoCall
          ELSE IF request[r].phase \in Answer THEN request[r]
          ELSE [request[r] EXCEPT !.phase = "error"]]
    /\ UNCHANGED <<recordVars, verified, court, past, saved, push, operations,
                   siteSteps, crossed>>

(* A referee works on the site itself, once the code has been entered. *)
EnterCode(m) ==
    /\ m \notin verified
    /\ verified' = verified \cup {m}
    /\ UNCHANGED <<recordVars, court, past, saved, push, request, operations,
                   boundVars, crossed>>

restVars == <<verified, court, past, saved, push, request, operations,
             failures, crossed>>
(* A step on the site that no board and no call sees. *)
Unseen ==
    /\ siteSteps < MaxSiteSteps
    /\ siteSteps' = siteSteps + 1
    /\ UNCHANGED restVars

SitePoint(m, s) ==
    /\ m \in verified \ unplayable
    /\ site[m].status # "FINISHED"
    /\ Given(m, s, None, NoSets)
    /\ Unseen
    /\ UNCHANGED <<unplayable, reopened, disturbed>>

SiteDisqualify(m) ==
    /\ m \in verified \ unplayable
    /\ site[m].status # "FINISHED"
    /\ site' = [site EXCEPT ![m].status = "FINISHED"]
    /\ log' = [log EXCEPT ![m] = Append(@, [type |-> "DISQUALIFY", by |-> None,
                                           sets |-> NoSets, before |-> site[m]])]
    /\ Unseen
    /\ UNCHANGED <<unplayable, reopened, disturbed>>

(* The last point goes, a replay's like a referee's; a match it had ended  *)
(* is open again, whatever a board has been told.                          *)
SiteUndo(m) ==
    LET last == Len(log[m]) IN
    /\ m \in verified
    /\ log[m] # <<>>
    /\ log[m][last].type = "POINT"
    /\ site' = [site EXCEPT ![m] = log[m][last].before]
    /\ log' = [log EXCEPT ![m] = SubSeq(@, 1, last - 1)]
    /\ reopened' = IF site[m].status = "FINISHED" THEN reopened \cup {m}
                   ELSE reopened
    /\ disturbed' = IF \E r \in Request : /\ request[r].match = m
                                          /\ request[r].phase \in {"read", "replay"}
                    THEN disturbed \cup {m} ELSE disturbed
    /\ Unseen
    /\ UNCHANGED unplayable

(* A player is deleted, and leaves the match whatever its status; another  *)
(* one comes in (propagation, the administrator's edit).                   *)
Unpair(m) ==
    /\ m \in Deletable \ unplayable
    /\ unplayable' = unplayable \cup {m}
    /\ Unseen
    /\ UNCHANGED <<site, log, reopened, disturbed>>
Pair(m) ==
    /\ m \in unplayable
    /\ unplayable' = unplayable \ {m}
    /\ UNCHANGED <<site, log, reopened, disturbed, siteSteps, restVars>>

----------------------------------------------------------------------------
BoardStep ==
    \/ \E m \in Match : StartSite(m)
    \/ \E m \in Match \cup {None} : StartHall(m)
    \/ \E sets \in Results \cup {NoSets} : Finish(sets)
    \/ NewMatch \/ ResetAll \/ Undo \/ Persist
BridgeStep == Push \/ Receive \/ GiveUp \/ RestartBoard
CallStep(r) == ReadMatch(r) \/ Admit(r) \/ ReplayPoint(r) \/ Report(r)
RefereeOnSite(m) ==
    \/ EnterCode(m) \/ SiteDisqualify(m) \/ SiteUndo(m) \/ Unpair(m) \/ Pair(m)
    \/ \E s \in Slot : SitePoint(m, s)
SiteStep ==
    \/ \E r \in Request : CallStep(r)
    \/ RestartSite
    \/ \E m \in Match : RefereeOnSite(m)

Next == BoardStep \/ BridgeStep \/ SiteStep

(* The timer of push, the answer of a call and the site's own work never   *)
(* stop; referees, timeouts and restarts need not happen.                  *)
Fairness ==
    /\ WF_vars(Push) /\ WF_vars(Receive)
    /\ \A r \in Request : WF_vars(CallStep(r))

Spec == Init /\ [][Next]_vars
FairSpec == Spec /\ Fairness

----------------------------------------------------------------------------
(* Properties *)

(* A court is marked as posted only when its match is over on the site, or *)
(* was over and a referee has reopened it there (undo of the site tells no *)
(* board): through lost answers, retries, undos and restarts of either     *)
(* side, unless another match was started while an answer was on its way   *)
(* (push, resultAccepted).                                                 *)
PostedIsRecorded ==
    court.posted /\ court.match # None /\ ~crossed =>
        site[court.match].status = "FINISHED" \/ court.match \in reopened

(* All that has been given in a match, a replay of these sets has given.   *)
OnlyBy(m, r, sets) ==
    \A i \in DOMAIN log[m] : log[m][i].by = r /\ log[m][i].sets = sets

(* A match that one replay alone has brought to its end shows exactly the  *)
(* sets the board sent, also when it is not the first that played it, the  *)
(* referee having taken all points back (planReplay, applyResult, undo).   *)
RecordedAsSent ==
    \A m \in Match \ disturbed, r \in Request, sets \in Results :
        site[m].status = "FINISHED" /\ OnlyBy(m, r, sets) => site[m].sets = sets

(* While no call was given up and nothing restarted, no replay adds to the *)
(* points of another: however often a result is corrected and sent again,  *)
(* and points are taken back on the site, it is played once (applyResult). *)
(* Only an undo between the two looks of the API at the match, at the row  *)
(* and at the sets, can deceive it: with more than one set the row has no  *)
(* points after the end of a set, and the undo opens the set again.        *)
PlayedOnce ==
    [][failures' = 0 =>
          \A m \in Match \ disturbed, r \in Request :
              request[r].match = m /\ request[r].given = 0
              /\ request'[r].match = m /\ request'[r].given > 0
              => \A i \in DOMAIN log[m] : log[m][i].by = None]_vars

(* A result that is due does not stay due: it is taken, refused for good,  *)
(* or the referee changes the court (push).  Only while the site does not  *)
(* know the match, or a player is missing in it, it is sent again for ever.*)
DueIsSettled ==
    \A m \in Match :
        \/ []<>(m \in unplayable)
        \/ (court.match = m /\ Due(court)) ~> ~(court.match = m /\ Due(court))

----------------------------------------------------------------------------
(* What the code's own words say, and it does not do *)

(* "bazada yarim qolgan o'yin paydo bo'lmasin": a match that only replays  *)
(* have touched is not left begun and unfinished when no replay is at work.*)
NoHalfMatch ==
    \A m \in Match :
        /\ siteSteps = 0 /\ log[m] # <<>>
        /\ \A r \in Request : request[r].match # m
        => site[m].status = "FINISHED"

(* "allaqachon boshlangan (ochkolar bor)": a result is played only into a  *)
(* match that has no points.                                               *)
ReplayBeginsTheMatch ==
    [][\A r \in Request :
          request[r].given = 0 /\ request'[r].given > 0 =>
              log[request[r].match] = <<>>]_vars

(* "yangi o'yin uni bosib ketmasin": no start of another match overwrites  *)
(* a result that is still to be sent.                                      *)
StartKeepsDueResult ==
    [][Due(court) /\ court'.phase = "running" =>
          operations' = operations \/ Len(past') < Len(past)
              \/ court'.match = court.match]_vars

(* "faqat o'yin saytda haqiqatan TUGAGAN bo'lsa muvaffaqiyat": posted      *)
(* always means that the match of the court is over on the site.           *)
PostedMeansFinished ==
    court.posted /\ court.match # None =>
        site[court.match].status = "FINISHED"
=============================================================================
