# UZTTF tournament site: a verification project

TLA+ models of the core of the table-tennis tournament site of this repository,
the TLC runs that check them on small instances, and theorems about them whose
proofs TLAPS checks. Everything here is read from the code under `src/`; paths
below are relative to it, `A/` stands for `apps/api/src/modules/`.

Run from this directory:

    tlc -workers 2 -config MCBracket.cfg MCBracket.tla     # one run, see section 3
    tlapm MatchesProofs.tla                                # the proofs of a component

## 1. The system

The repository holds a NestJS API over one PostgreSQL database (`apps/api`), a
Next.js site (`apps/web`), a scoreboard program for the tables of a hall with a
bridge to the site (`apps/scoreboard`), and older code and tools. All shared
state is in the database; API requests run concurrently and meet in it. The
means of keeping them apart are: a transaction, `SELECT ... FOR UPDATE` on a row
(a match, a player, a category), an advisory lock (a tournament's bonuses), a
conditional `updateMany`, a unique key. Where the code reads before it takes one
of these, what it has read may be old.

| Component | State | Operations | Meets | Hard behaviour | What makes it correct |
|---|---|---|---|---|---|
| Score engine `A/matches/scoring.engine.ts` | none (pure) | `applyPoint`, `applyDisqualification`, `serverSlot`, `pointAlert`, `sideChangeDue` | called by matches, replay, screens | deuce, last set, majority | the displayed service, banners and changes of ends are those of the rules at every score |
| Match lifecycle `A/matches/matches.service.ts` | `matches`, `match_sets`, `match_events`, `match_cards` | verify, new code, point, card, time-out, disqualify, undo, edit | the engine for points; the later matches of the bracket by `nextMatchId`/`loserNextMatchId`; the journal by `awardPoints` | referees and administrators at once; undo after propagation and rating; penalty points that end a match | slots follow their feeders; a started pair stays; the score is what the remaining events replay to; a match is over exactly when one of its pair has won |
| Ranking points `common/points.ts`, `A/rankings/*` | `players.rankingPoints`, `player_points_log` | award at the end of a match, reversal by undo, bonuses, penalty, exclusion, adjustment | matches, the administrators' pages | readings before row locks; a floor at zero; reversals in any order; two ways to pay a bonus | the points are the sum of the journal; an undone match leaves nothing; one bonus per player |
| Draw and groups `A/draws/*.service.ts` | `draws`, `group_stages`, `tournament_groups`, registrations | auto, generate, create, advance, registration status | makes the matches; reads group matches | two secretaries at once; a stage that flips with its bracket; standings read before the transaction | one bracket; the stage is advanced exactly with it; no groups after it |
| Group standings and placing `A/draws/groups.engine.ts`, `draw.engine.ts` | none (pure) | `standings`, `resolveTied`, snake, rule draw, placing of qualifiers | called by the two services | ties inside ties, zero denominators, byes, annulled players | order by the rules; every qualifier placed once |
| Replay `A/scoreboard-bridge/replay-plan.ts` | none (pure) | `planReplay`, `setOrder` | the score engine | unfinished, surplus or impossible sets | takes exactly whole matches; the points give back the sets |
| Scoreboard bridge `apps/scoreboard/site-bridge.js`, `A/scoreboard-bridge` | court object (`siteId`, `sitePosted`, `siteRejected`), `pushing` | push every 4 s with a limit of 30 s, `applyResult` | court in place; API over HTTP | lost and late answers, restarts on both sides, points in separate transactions | posted means recorded; recorded as sent, once; what the site can take does not stay due for ever |
| Scoreboard program `apps/scoreboard/server.js` | courts, undo stacks, `state.json` | `apply` of ~40 operations, start, undo, reset, save after 200 ms | bridge, screens | it keeps score without the site's engine; penalties of two points; corrections by hand; restart from an older file; undo replaces the object a call holds | the score is what the site's engine makes of the same points; service and ends by the rules |
| Referee and table assignment `A/referee-assignment` | referees and tables of matches | a background run per tournament, an administrator's runs, one match by hand, tables | after draws and match ends | requests dropped while a run is on; rows read before they are written | nobody referees two matches at once or his own; nobody free is left out; no pair is forgotten |
| Accounts `A/auth`, `A/users`, `A/roles` | users, roles, refresh tokens | log in, rotate, block, roles | all | two rotations of one token; the last administrator | one successor per token; an administrator remains |
| Registration, applications, appeals, clubs, coaches | requests and their status | apply, review, confirm | draws read registrations | check then write | one review per application |
| Live feed and public reads `A/matches`, `A/live`, pages of `apps/web` | memo of reads (1 s), boards in memory, sockets | read, emit, list of boards, poll | after every change of a match | a load that ends after the write that should have cleared it; updates in another order than the writes; lost connections | answers are not older than the last update; viewers end with the last state |
| Announcements `A/showcase` | Telegram queue, what was sent, cache of ratings (15 s) | notify, announce, test, send with retries | matches, news | a full queue, stale jobs, lost answers, undo between job and reading | nothing is posted twice as long as it is remembered; what is posted stood; what stands is posted |
| Ranking snapshots `A/rankings/rankings.service.ts` | snapshot rows | weekly copy | reads points | points that move while being copied | one moment per snapshot |
| uttf synchronisation `A/uttf-sync` | set of running scopes, pictures that failed this hour | eight scopes, each a list gone through row by row, with limits per run | players, tournaments, clubs, matches, videos, news and their editors | two runs, an editor or an upload between look and write; lists that fail; limits that begin again at the head | one copy of each; an editor's text stays; everything arrives in the end |
| Tournaments, teams, schedule, players, content, news, web site, legacy, tools | records, files, screens | create, read, update, delete | - | validation | - |

## 2. The modules

    ScoringEngine <- Matches <- MCBracket, MCMatch;  MatchesProofs
                  <- ReplayPlan <- ScoreboardBridge <- MCScoreboardBridge
                  <- ScoreSheet
                  <- Board <- MCBoard;  BoardProofs      Board: INSTANCE ScoreSheet WITH ...
                  <- ScoreMachine
    ReplayPlan, ScoreMachine <- SentResult
    ScoreboardBridge, SentResult <- ScoreboardBridgeProofs
    Players <- Draws <- MCDraws
            <- Assignment <- MCAssignment
    Dealing, Bracket <- Placing;  GroupResult <- GroupTable
    Placing, GroupTable, Lots, TablePlan, SentResult <- MCAlgorithms
    Draws, Assignment, TablePlan, Dealing, GroupResult, Lots, Bracket <- TournamentProofs
    PointsLedger <- MCPointsLedger;  PointsLedgerProofs
    LiveFeed <- MCLiveFeed;  LiveFeedProofs
    UttfSync <- MCUttfSync;  UttfSyncProofs
    Announcements <- MCAnnouncements;  AnnouncementsProofs

`<-` is EXTENDS: matches, the replay, the bridge and the board compute with the
one score engine. The `MC` modules name players, matches and tables of
constants; a `.cfg` gives every constant its value. A definition whose comment
begins with "Mutant:" is what a plausible bug would make of the definition after
it; no specification uses it.

**ScoringEngine** is `scoring.engine.ts`, one operator per function. `GamePoint`
(11) and `WinBy` (2) are constants so that other modules can use shorter sets.
**ScoreMachine** plays a match with it beside an umpire who counts the service
by the rules; the umpire is the reference, the engine does not see it. It has
variables of its own (`score`, `umpire`), so that `MatchSpec` is a specification
to prove things of.

**Matches** has one action per operation of the service. A referee's operation
is one transaction that locks its match first, hence one action: `Verify`,
`VerifyWrong`, `Point`, `Yellow` and `Red` (`card`), `Timeout`, `Disqualify`,
`Undo`. The administrator's `update` checks in one statement and writes in
another: `EditRead`, then `EditSlot` or `EditFormat`. `RegenerateCode` is one
statement. `game[m]` is the row with its sets, cards and scoring events; an event of
type POINT carries the snapshot the code stores with it, and `Undo` restores
that. The end of a match is part of the action that ends it: winner and loser
are written into the later matches (`Propagated`). The rating rows the same
transaction writes, and what `undo` writes against them, are in **PointsLedger**,
with the floor, the players who are not active and the journal. `handSet` and `raced` are ghosts: slots an edit has
written, and matches whose format an edit changed after the start; the
properties exempt them because the code does not say whose entry should win.

**PointsLedger** keeps, per player, the points and the sums which the code's
queries take of the journal: of all rows, of the tournament's rows, of whole and
exact points of play, of bonuses. Exact points are integers of 1/200, so the
formulas are exact and rounding is modelled. The end of a match is
two actions, `Read` (ratings and sums, before the row locks) and `Award` (the
rest of the transaction); `adjust` is `AdjustRead` and `AdjustWrite`. `Undo`
reverses the net rows in either order, since the query states none. Ghosts:
`overtaken` (an adjustment wrote over points it had not read), `cut` (a reversal
met the floor), `stale` (a reading was overtaken).

**ReplayPlan** is `planReplay` and `setOrder`; the points are collected as the
plan is played, set after set and point after point. **SentResult** composes a
result set by set, any sets, and says without the engine what a whole match is:
every set legal, and a majority after the last and not before.

**ScoreboardBridge** is one court
with its undo stack and its file, the bridge's push, and the calls the site is
working on. A call that is given up is removed or goes on, whichever
happens on the network. `ReadMatch` reads the row of the match and gives the four
early answers of `applyResult`, `Fresh` reads its sets, `Admit` lets the replay in,
and `ReplayPoint` is one point in a transaction of its own.
`push.held` says whether the court is still the object the call was made for
(`undo` and `resetall` put another one in its place). On the site, a referee enters
codes, gives points, disqualifies, and takes points back, also the one that ended a
match (`SiteUndo`); a match of `Deletable` loses a player (`Unpair`),
and may get one again (`Pair`). The undo of the site needs the past of a match:
`log[m]` has one entry per point (who gave it, a referee or which call with which
sets) with the score before it. Ghosts: `reopened` (matches a referee has
reopened), `disturbed` (matches of which points were taken back while a call
was between its two looks or playing them) and `crossed` (another match was started
while a call was on its way). `unplayable` are the matches the site does not know (no
route of the API removes one, so these are so from the start) or that lack a player.

**Board** is one court of `server.js` as its referee uses it: points, minus by
hand, red cards, walkover, finish, service and ends by hand, format, start, new
match, reset, undo. It is written from `afterPoint`, `apply` and `resetMatch`,
which share no code with the site. **ScoreSheet** is the abstract specification:
a score that the site's engine makes of points and penalties, a stack of sheets
that can be taken back, and nothing promised once the referee has written over
it. `KeepsTheSheet == Sheet!Spec` says that the board implements it; the
mapping turns a court into the engine's state (`SiteScore`) and every court on
the undo stack into a sheet. The ghost `byHand` of a court says what of it
(score, service, ends) was set by hand since the match began.

**Draws**: a request reads in one action (`AutoDraw`, `Generate`, `Create`,
`Advance`) and saves in another (`SaveGroups`, `SaveBracket`), which is the
transaction under the row lock of the category with the checks it repeats.
Group matches end and are undone, and registrations change, at any time.

**Placing** is the draw by the rules of `draw.engine.ts`, and `placeQualifiers`
of `groups.engine.ts`; **Bracket** is the matches made of it (`planMatches`).
**Dealing** is `snakeDraw` with its lots and `roundRobinRounds`. Every lot is a
choice of an action that places one player, or deals one row, so the states are
all that can come out. The rest of `groups.engine.ts` is in three modules:
**GroupResult** (a result brought to points, sets and rally points, and the
comparison of fractions), **GroupTable** (ties resolved within ties, annulled
players) and **Lots** (the warning that a lot decides who goes through).
**TablePlan** is `table-plan.ts`; its one variable is a hall to which matches are
added one by one, and after each the plan of all of them is looked at. What is
pure and has been given no variable of its own is computed in MCAlgorithms, which puts
each computation with all its small inputs into one module (`job` says which).

**Assignment** is the background run of a tournament in its four steps (count,
load, write, idle: an await between each two), an administrator's request with
its read and its write, and `setManual` likewise, while pairs become known or
go, matches begin, end, are reopened and moved, and referees come and go. The
engine's order of choice (region, rank, load, fair sharing) is followed as far
as it decides who can be chosen; `Assign` goes through the matches and the
referees of each by recursive functions. **Players** holds what draws and
assignment have in common. Ghosts: `sure` (what of an assignment is
still as it was when it was chosen), `unseen` (pairs no run has loaded), `lost`
(tournaments with a dropped call or a failed run).

**LiveFeed** is the memo with its loads as promises (two readers share one; a
write clears it, also of loads that have not ended), updates that wait to be
sent after their transactions, the list of boards, the wire to every viewer,
pages (one read, then updates) and screens (they ask again). Ghosts: `told`
(the last update sent), `since` (its value when a viewer asked) and `missed`.

**UttfSync** has one record per request: the list it read, the row it is at,
what it saw of ours, what it has left of its limit. `Start` takes the scope in
`SyncLock`; the steps are reading the list, looking at our row, writing it.
Editors of news, uploads of photos and removals come in between, lists fail or
come short, pictures fail, the API restarts.

**Announcements** is the Telegram queue, its sender, an administrator's test
beside it, and the cache of ratings that screens fill. A job reads the match and
the journal in two steps, and its call may be refused, be answered or lose its
answer. The results sent last are kept in order (`sent`), and the oldest is pushed
out when there are more than `MemoryMax` (1000 in the code). The channel counts
how often it got a text since the API started or last forgot it (`posts`). The
ghost `since` of a job holds the results that have stood since it
began; `forgotten` are results pushed out since their match ended, `dropped` matches
of which a job was given up, `unsure` texts whose answer was lost.

## 3. The runs

Deadlock is not checked where a bound or the end of the match stops the system;
in Draws it is checked.

| Run | Instance | What it shows |
|---|---|---|
| `bracket` | two semifinals, final (best of 3), third place; sets of one point; one editable match; one referee who plays and mistypes | slots follow the results under every order of points, disqualifications, undos, edits and wrong codes. A set of one point loses nothing here: a propagation depends on the end of a match only, and the final still has a LIVE phase. |
| `match` | sets of two points with a lead of one, best of 3, three cards, one time-out | stored score, sets and cards are the replay of the remaining events. Three cards reach the penalty of two points of which the first ends the match. |
| `points_ledger` | final and group match of two players with 4 and 19 points, K = 0.5, final finished twice, one penalty or adjustment | the journal explains the points. 4 and 19 points make both floors bite; 0.5 makes halves to round. |
| `scoreboard_bridge` | one court, two matches of best of three with sets of one point; a clean win, a win after a lost set, and a score that is no end; four operations, one failure, one step of a referee on the site, two calls | a posted result is recorded, or was until a referee reopened it; it is recorded as it was sent; no replay is played onto another. Four operations are start, finish, undo and finish again, or start, finish, empty and start another. One step on the site is enough to end a match another way, to reopen it after it was posted, or to take away a point of a replay. With sets of one point the row on the site shows no points at any time, so that it is by the sets alone that a begun match is known. |
| `due_is_settled` | one match of one set of two points, which may lose its player or be unknown to the site; three operations, one failure, two steps on the site, public starts, under `FairSpec` | what the site can take does not stay due for ever. |
| `draws` | three players, two requests, groups above two players | one bracket, advanced with its stage, no groups after it. Two requests are enough: each saves once and looks only at what is saved. |
| `board` | sets of three points with a lead of one, matches of one or three sets, ends at one point in the last set, an undo stack of one, two red cards, or one and an override by hand | the board implements the score sheet of the site's engine; its own server and ends are those of the rules. Three points reach 2-2, where service changes with every point, and a penalty that ends a set; a lead of two and every other length are in the proofs, and the engine's deuce at the real length is in `algorithms`. |
| `algorithms` | draws by the rules for 2..64 players, with every lot for up to 6; up to 6 groups, of which 1..3 go through, at most 12 in all; up to 8 players dealt into groups; round robins of 2..9; groups of 4 with one result open to change; up to four matches (`MaxMatches`) on 3 tables; replays of all lists of sets from the scores {0, 9..13} with the site's limit 12; a match of three sets to the real 11 points, up to 13 | the draw, the groups (even, and every pair meets once) and what leads from them to the bracket, the standings, the tables of the hall and the replay do what the rules of the sport, or a reference definition, say; service, banners, ends and majority are those of the rules at every score. Two rounds of deuce reach every case of the parity of the service. |
| `assignment` | two matches of one tournament, three referees of whom one plays and one is from a player's region, times 0, 30 and 60 with slots of 45 min, two calls, one incident | nobody is in two places or judges himself unless the rows moved under the choice; an undisturbed run leaves nobody free out; every pair is looked at. Three times give overlap, no overlap and equality. |
| `live_feed` | one viewer, page or screen, one score of a board, three writes, two lists of boards, three changes in all, one loss | answers are not older than what was announced, a page that missed nothing is current when all is quiet, a screen catches up. Three changes are a write, one that overtakes it, and a list between them. |
| `uttf_sync` | two requests; two players, one of whose photo cannot be loaded, two articles; one of the rest; one photo and one article per run; one incident; five groups of scopes | one copy of each video, edited texts stay, everything arrives. Scopes that do not read each other's rows are in different groups. |
| `announcements` | one match with two results and five changes, one piece of news, a queue of one, a memory of one result, two attempts, one incident | no result is posted twice while it is remembered, none that was undone before its job began, and one that stands is posted unless its job was given up. Five changes are a result, another that pushes it out, and the first again. With a memory of one, whatever is forgotten too early is posted twice at once. Several incidents in one life of the API are in the proofs of the first two. |

All bounds are constants with the word "bound" in their comment, or limits of the
code that are named there with their value; they appear in guards only.

**Fairness.**
- *Bridge.* Weak fairness of `Push` (`setInterval`, every 4 s), of `Receive`
  (the awaited promise), and of the work of each call on the site (a request that
  has arrived runs on until it answers, or is ended by `RestartSite`).
- *Assignment.* A call follows its transaction in the same request
  (`WF(Call)`), and a run always ends (`[]<>(run[t] = Idle)`: its `finally`).
- *LiveFeed.* Reads are answered, the memo expires, a screen that polls asks and
  shows again, what is on the wire arrives.
- *UttfSync.* A run goes on; the memory of failures ends with its hour; an
  administrator starts each scope again and again (strong fairness, since the lock
  may be taken now and then). That people do so is not in the code: the
  property says that running again is all it takes.
- *Announcements.* `emitAndReturn` follows its transaction, `drain` goes round,
  reads are answered, a call that does not fail is answered.

Failures, restarts and everything else a person does need not happen and are
bounded: a net that always fails delivers nothing. With the bound, the liveness
properties say that failures which have stopped do no lasting harm; in
particular `pushing`, `draining`, the lock of a scope and the run of a
tournament are always given back.

### Known deviations

Where a comment or a message of the code says something the code does not do,
the property is stated as the text has it, below the line "What the code's own
words say, and it does not do" (in MCAlgorithms "What the comments say"). Each can
be put into the `.cfg` of its MC module in place of the properties there; TLC
finds the counterexample.

| Module | Property | What happens |
|---|---|---|
| Matches | `EditOnlyBeforeStart` | the first point falls between the check and the write of `update` (`A/matches/matches.service.ts:331`) |
| Matches | `NoRefereeOfOwnMatch` | a user enters the code of the match for third place while its slots are empty, loses the semifinal and is propagated into it: he still may score it (`:409`) |
| PointsLedger | `LedgerAlwaysBalances` | `adjust` reads the points, a match is rated, `adjust` writes its total over it (`A/rankings/rankings.controller.ts:297`) |
| PointsLedger | `WholeIsRoundedSum` | a match is undone after a later one of the same player was rated (`A/rankings/rating.engine.ts:141` promises the sum) |
| PointsLedger | `ExcludedGetsNoBonus` | the administrator's bonus run does not look at the exclusion (`A/rankings/rating.service.ts:121`) |
| ScoreboardBridge | `PostedMeansFinished` | an answer arrives after the court was emptied and another match started on the same object: that match counts as posted (`apps/scoreboard/site-bridge.js:69`); and a referee takes the end of a posted match back on the site, which no board is told (`matches.service.ts:566`) |
| ScoreboardBridge | `ReplayBeginsTheMatch` | between the look at the row and the look at the sets a referee gives a point, or takes back the last one of a set: the row had no points, and then no set is there, so the replay is played on top (`A/scoreboard-bridge/scoreboard-bridge.service.ts:101,113`; `:115` refuses a match that has begun) |
| ScoreboardBridge | `NoHalfMatch` | the API stops between two points of a replay; the retry is refused with 409 (`A/scoreboard-bridge/scoreboard-bridge.service.ts:98`, and `:123` admits it) |
| ScoreboardBridge | `StartKeepsDueResult` | a start from the list of the hall does not ask whether a result is due (`apps/scoreboard/server.js:907`) |
| Draws | `NoBracketBesideGroups` | `generate` looks for groups before the lock only; another request makes them in between (`A/draws/draws.service.ts:109`; `category-lock.ts:6` says otherwise) |
| Draws | `FilledFromFinishedGroups` | a group match is undone after `advance` has read the standings (`A/draws/groups.service.ts:270`) |
| Board | `ServesAfterCorrection` | a point taken off with "-1" leaves the service where the point had put it (`apps/scoreboard/server.js:649`; its `README.md:106,113`) |
| Assignment | `AssigningAllKeepsApart` | a match for which the new run finds nobody keeps its old referee, whom the run may have given to another match at that time (`assignment.service.ts:80`; `assignment.engine.ts:7` says nobody is in two) |
| Assignment | `BegunIsLeftAlone` | a match begins between read and write and gets another referee (`assignment.engine.ts:25`) |
| Assignment | `NoCallIsLost` | a call that comes after the running run has loaded is dropped (`assignment.service.ts:24`) |
| MCAlgorithms | `MatesInDifferentGroups` | the first and the last of six players are of one region: the snake puts both in the first of three groups (`groups.engine.ts:79`; `:28` says they are apart) |
| MCAlgorithms | `EmptyPlacesAreByTheBook` | a winner of a group is put on a place of the book's empty ones (`groups.engine.ts:379`) |
| MCAlgorithms | `MatesMeetAsLateAsTheyCan` | the weights put a marked place before a late meeting of group mates (`groups.engine.ts:441`) |

`ByesAreForTheBest`, a part of `DrawIsByTheRules`, holds for up to 64 players; with
`MaxPlayers = 128` it fails for 65 to 95 players, since the byes are numbered for 32
places only (`draw.engine.ts:205`).

Seen while modelling, without a property:

- the administrator's `update` of a match neither clears the memo nor emits
  (`matches.service.ts:313`; `:78` says every write clears it);
- a result whose match the site does not know any more, or which has lost a player
  there, is answered 400 (`scoreboard-bridge.service.ts:102,104`): the bridge sends it
  again every 4 s for ever, and `startSiteMatch` refuses the next match on that court
  until it is emptied (`site-bridge.js:80`). `DueIsSettled` exempts these matches
  (`unplayable`), and says nothing of a result that waits for them;
- a result corrected on the board after the site has finished the match is answered
  `already`: the court counts as posted and the site keeps the former sets (`:103`);
- `ShowcaseService.cached` stores after its load: a reader that began before
  `forget` puts back what was forgotten, and two reads of `rating` may be of
  different moments, so that a card can show the result without its points
  (`showcase.service.ts:67,167`);
- results A, B and A again, each undone, leave B as the last word in the channel
  (`telegram.service.ts:227`); a result is posted again if its match is verified or
  ended again after 1000 others were posted (`:232`); after a restart, entering the code of a finished
  match posts its result again; two requests that publish one article both
  announce it (`news.service.ts:163`);
- a player whose opponents did not come is annulled with them (`groups.engine.ts:304`);
- a photo uploaded between the reading of the list and the write is overwritten
  (`uttf-content.service.ts:356`, against `:330`), and so may be a birth date by
  `syncPlayers`; an article an editor removed comes back with the next run;
- a licence number is made of the count of licences: after the removal of a player
  the next number is one that is given already, and the unique key refuses it
  (`registration.service.ts:514`).

## 4. The proofs

They hold for every value of the constants that satisfies the named ASSUMEs, so
for any number of players, matches, users, requests, viewers and rows, and any
bounds. Those ASSUMEs are: a bracket in which no slot is fed twice and no match
feeds itself (the brackets the site draws are such: `EverySlotHasItsFeeder`
below), matches of two different players, points that are natural
numbers, an odd number of sets, limits and lengths of at least one (a set's two
or more), a finite number of matches for the referees, and that `None` stands
for nothing else: no match, player, call, result or answer is `None`. Three
theorems have a hypothesis beside them, named where they are described. Below, in
each paragraph, is the inductive invariant and why the properties alone do not do.

**The engine (ScoreboardBridgeProofs).** `EngineKeepsTheRules` is about a match of
any odd number of sets of any length. The invariant `MatchInv` says that the score
is a `Kept` one (its counters are those of its list of sets, the sets are legal,
nobody has a majority in a match in play, no current set is over) and that the
umpire's server is who opened the set exactly if the points of the set make an even
number of services (`ServiceHolds`). Service and banners are facts about one such
score, majority and ends about one step. The hypothesis `WinBy <= 2` covers the
code, where it is two. It is needed: with a lead of three a deuce can begin within
somebody's two points (4-3 in sets of four), and TLC finds the engine and the umpire
apart there.

**MatchesProofs, slots.** The invariant is `IInv`: types, `Played`,
`StartedIsPaired` and `SlotFollowsFeeder`. `SlotFollowsFeeder` alone is not
inductive. `Undo` clears a slot only if the later match is SCHEDULED, so one must
know that the undone point is the one that ended the match (`Played`: no POINT
event was logged on a finished match, and only the first finds it SCHEDULED) and
`assertNextNotStarted` then rules out the started case. A point that ends a
match writes the later slots whatever their state; that it never changes a
started pair needs `StartedIsPaired`: while the feeder is open the fed slot is
empty, so that match cannot have started. Lemmas: what one point, one card, a
penalty and a restored snapshot do to `Played`, then one lemma per action.
Theorems `TypeCorrect`, `SlotsFollow` and, as an action property,
`PairsAreFixed`.

**MatchesProofs, results.** `ResultsStand` adds to `IInv` that an open match has no
winner and a finished one has a winner of its pair (unless somebody has written the
pair by hand), that a disqualification ends its match, and that no snapshot in
the log carries a winner: without the last, an undo might bring a winner back into
an open match. Theorems `ResultsAlwaysStand` and `WinnersPlayed`. Of the rating rows
a result leaves, PointsLedgerProofs says what holds in spite of the floor.

**MatchesProofs, the log.** `ScoresAreReplays` says that score, sets and the number of
cards are the replay of the log. The stored snapshots are the difficulty: an
undo restores one and removes its event, and that this is the replay of the
shorter log must be known beforehand. `LogsTell` therefore says that a whole *trace*
exists, a score for each length of the log, of which each follows from the one
before by the engine, and that the snapshot of every POINT event shows the trace
just before it; and `CardsKnown` counts the cards of each snapshot. That the trace is
the recursive replay of the property, and is unique, is an induction over the log,
done here by the least counterexample (`LeastNumber`).

**PointsLedgerProofs.** `LInv` joins types, `LedgerBalance` and
`UndoLeavesNothingBehind` with three supports: only an open match has a
reading, a match has rows of its own pair only, and a reading that was not
overtaken still fits the sums (`FreshReading`). The arithmetic is in lemmas
about one row (`PlayFacts`, `BonusFacts`, `PenaltyFacts`: points and journal move
by the same applied amount; `LoggedExact` and `RoundShift`: what the floor takes
off is whole, so rounding commutes with it) and about a reversal in either
order (`ReversedFacts`). Theorems `TypeCorrect`, `PointsAreTheJournal`,
`UndoIsComplete`, and the action property `RatingIsMadeGood`. `BonusesAreUnique`
needs `OneSourceEach` as well: what a player has of bonuses is of one match, whole,
or of the administrators. A reversal that the floor cuts short leaves a rest of a
bonus behind, and it is this rest that keeps a second one away.

**TournamentProofs, draws.** `DInv`: types, one bracket at most, the stage ADVANCED
exactly with a bracket from groups. It is inductive because `SaveBracket` counts the
draws again under the lock. Theorems `OneBracketAtMost`, `AdvancedMeansFilled`,
`GroupsComeFirst`.

**TournamentProofs, referees.** First the engine, `Assign`, alone. It is a function
over the matches in their order, so what holds of its result is shown by induction
over the appointments (`StepByStep`, from the least number a set of numbers has):
rows already appointed are left as they are, who is appointed does not play in the
match and is not busy in those appointed before, and when nobody is appointed nobody
was free. Then the transactions around it. The properties of the rows are not
inductive, as a run writes what it chose from rows it read before; `AInv` adds to
them (`RowsHold`) what is known of work in between: the rows and the choice of a
run, of an administrator's request and of `setManual` that are not written yet are
proper (`JobsAreProper`, `ManualHolds`), and a match whose players or time have
changed since is no longer one of which the run is `sure`. `sure` is a ghost that
says exactly this, and the properties exempt what is not sure, that is matches
moved, reopened or left over after the choice; what comes of those is among the
deviations of section 3. Theorems `AssignmentTypes`, `PromisesHold` (the invariant),
`RefereesAreImpartial`, `RefereesAreInOnePlace`, and the action property
`WhoeverIsFreeIsAppointed`. Nothing is assumed of times, of the length of a slot or
of how the referees' order prefers one to another.

**TournamentProofs, tables.** `TablesShareByRank`. The plan is a loop over the
matches. Its invariant, shown step by step: those planned have a table of their
pool, and a table that got a match has at most one more than any other of that pool,
since each match goes to the least loaded table (`Planning`, `Shared`). For the
loads to be shared pool by pool one needs that the two pools are the same or have no
table in common. That the main tables get the best is a fact about `Top`: matches
ahead of one in it are in it.

**TournamentProofs, groups.** `GroupsAreEvenAndMeet`, for any numbers of players,
groups and regions, and any lots. `SnakeInv`: all that is dealt stands in rows, and
a row gives each group one player at most (a group is left out of the row once
it has got one, however mates are moved apart). So the groups are equal after
every full row, and only the last row is not full. For the rounds: two players are
at one table in round r exactly if r solves 2r + x + y = 4 + tE for some t, where E is
odd (the number of seats but the fixed one), and that has one solution in a
round robin; nobody is at two tables as the seats of a round are all different.

**TournamentProofs, results and lots.** Four facts about what is computed at once, in
any size. `FractionsAreInOrder`: `cmpFrac` is an order, also with zero
denominators and 0 : 0. `GivenUpCountsAsShortestWin`: `GivenUp` describes a
match in play at any score; the set begun is filled up to the first legal score, and
what the recursive sum of rally points is need only be known to be a number.
`LotsAreAnnounced`: if a class of a table straddles the boundary, two of its players can
be exchanged, for a finite set has subsets of every smaller size (`SubsetOfSize`); and
if none does, then those who go through are all of the classes before the boundary.
`EverySlotHasItsFeeder`: the rounds of a bracket halve (`RoundsHalve`, by induction
over the rounds), and the position of a match determines those of its two feeders.

**BoardProofs, the refinement.** Every behaviour of the board is one of the score
sheet, `CourtKeepsTheSheet == Spec => KeepsTheSheet`, for every length of a set,
lead, format, and depth of the stack. The invariant `Inv` says that the court and every
court on the stack is a `Good` one: its fields have their types, and unless the
score was set by hand, nobody in a match in play has the sets he needs yet, and
who has no set in the list has none in the count. This is what makes a point of the
board a point of the engine: the engine does nothing with a match that somebody has
already won, where the board goes on, and the two agree because such a court is
not in play. One lemma per operation gives the invariant and the step of the
sheet; the penalty of two points has its own, since the first may end a set or the match.
`AlwaysGood` and `BoardTypeOK` are the invariance theorems.

**BoardProofs, service and ends.** The board turns the service over as points are
scored, and so do the ends; the site computes both from the score. The invariant
`LawfulInv` says of every court, and every court on the stack, that its server is who
served first in the set exactly if the service has changed an even number of times
(`Serves`, `Blocks`), that the sets in its list are as many as were won (`Counts`), and
that the ends have changed as often as sets and the last set tell (`Changes`), each
of them as long as nobody has set that part by hand.
`CourtPlaysByTheRules` has a hypothesis on the numbers of the rules, `ByTheBook`:
service changes after two points (the site divides by 2 where the board has a
number), ends change before game point (5 of 11 in the code), and the lead is at most
three. The last is wider than the code's two; beyond three, the formula of
the rules itself jumps when a deuce begins. Nothing is assumed of the length of a
set, the format or the depth of a deuce.

**ScoreboardBridgeProofs, what the board knows.** `Inv`: an answer `finished` on
its way is about a match that is over (`Answers`); the call waited for is about the
match of its court, or of an emptied one, unless another match was started meanwhile
(`Waits`); and no court, in memory, on the undo stack or in the file, says posted of
a match that is not over (`Courts`). The stack and the file are there because an undo
or a restart brings their courts back. Over means that the match is finished, or was and
a referee has taken its end back (`reopened`): this is stable, and it is all a
board can know, as nobody tells it of an undo on the site. Theorem `PostedIsTrue`.

**ScoreboardBridgeProofs, what the site plays.** `PlanIsSound` is about the pure
algorithm, for every list of sets of any length and every format: if `planReplay` says
ok, its points played through the engine end the match with the last one and no
sooner, and leave the very sets that were sent. It is shown by induction
over the points of a set and over the sets, again by the least counterexample.
`Replays` uses it: a match to which one replay alone has given its points is on the
`Way` of the plan of what was sent, and so is the score before each entry of its `log`,
so that an undo on the site goes back on that way; the call that plays it is as far on
it as the match is (`OneMatch`, `OneCall`); a second replay is let in only where the
site reads a match with no point. Matches of which a point was taken back during a
call are exempt (`disturbed`), since then the call and the match part. Theorem
`RecordedIsSent`. For `ResultsArePlayedOnce` the support is `Once`: while nothing was
given up, the only call at work is the one waited for; so it says nothing of runs with
a failure, where the two theorems before it hold alone.

**ScoreboardBridgeProofs, what the site takes.** `WholeMatchesAreReplayed` is the
other direction as well: a list of sets of any length is accepted exactly if it is a
whole match within the limit. From left to right by `PlanIsSound` and what `Kept`
says of the score at the end. From right to left one follows the plan set by set:
while nobody has a majority and the set is legal, its points in the order `setOrder`
gives end it with the last one and no sooner, so the plan goes on; were there a
first set at which it refuses, it would be one that is not legal or comes after the
majority. The hypothesis is `WinBy >= 2`; with a lead of one it is the reference that
does not fit: `LegalSet` admits 3-4 in sets of three, where nobody can get to 4.

**LiveFeedProofs.** `Inv` has three parts. `Kinds` are the types. `Reads`: a load
that a screen waits for is not older than what had been announced when it asked, and
one in the memo is not older than the last update sent (`Fresh`); it holds because
sending the update of a write clears the memo, so that a load the memo has later
began after it. There is always a free load for a new reader, since there is one
more than there are viewers (`FS_PigeonHole`). `Settled`: for every page that missed
nothing, either a job that has yet to be sent is about the row as it is, or the page
shows that row, or an update with it is on the wire and behind it come only older
ones, which the page drops by their number. Theorems `AnswersStayFresh` and
`QuietPagesAreCurrent`.

**UttfSyncProofs.** `Inv`: two runs never have one scope, since each holds its lock
(`Locks`), and a run that is about to create a video still finds none (`VideosOnce`),
since none but a run of this scope creates videos. A restart ends all runs with their
locks. Theorems `VideosStaySingle` and, as an action property, `EditorsAreRespected`:
an editor's text that came between the look and the write stays, because the
database refuses a second text of a locale.

**AnnouncementsProofs.** `Inv`: a piece of news is unsaid, in the queue or being
sent, and in one of these only; what was posted has been posted once, is remembered
in `sent` if it is a result, and is not being sent again (`Counted`). A result that is
pushed out of `sent` is counted anew (`MemoryFacts`): nothing is claimed of its coming
again. That there is
one sender matters here: it looks in `sent` before its call and adds to it after.
Theorem `NothingIsPostedTwice`. `AllKnow`: the result a job has read is one that stood
since the job began; the rating is read after the cache was emptied for it, so what
screens had left there does not come in. Theorem `OnlyWhatStoodIsPosted`.

**Model-checked only.**
- All liveness (`ScreensCatchUp`, `DueIsSettled`, `EveryPairIsLookedAt`,
  `EverythingArrives`, `StandingIsAnnounced`): fairness and ENABLED are out of the
  installed provers' reach.
- `DrawIsByTheRules` and `StandingsAreByTheRules` of MCAlgorithms as a whole. The
  first is about the tables of a book (places of seeds and byes), which are finite,
  and needs a count of the places that are still free at every size; TLC goes through
  the sizes. The table of a group is made by
  sortings and folds of the library, whose definitions take an operator and cannot
  be expanded by the provers. Of their parts, `BracketFeedsEverySlot`,
  `FractionsAreOrdered`, `ForfeitIsTheShortestWin` and `LotIsAnnouncedWhenItDecides`
  state what the theorems above prove in general.

Induction over data as such is within reach where the recursion is a function over
numbers: a least counterexample among them is a fact about a set, without a
parameter that is an operator.

## 5. What is left out

Within the modelled components: the live events of referees, listings; tables of K and
bonuses by age and level (constants); the old stage-points rules (LEGACY mode, where a
disqualification pays the winner too); ages, categories;
the cards' colours beyond what decides points; the pull of matches to the board and
the live scores it sends (neither writes a match); the list of the hall, history
and teams of the board; the pictures that follow a Telegram text; what fields an
import takes over. In LiveFeed, writes of a match that tell nobody (the administrator's
`update` and what an import writes) are no action, and `told` counts the updates of requests that
write, not the lists of boards. In Announcements, a number of a match is notified once,
so `recent` has no part. A disqualification writes no rating row, as in the code's
official mode. An event written after the transaction of `verify` is not in the
model. Row locks are modelled by atomic actions, so the
deadlock between awards that lock two players in opposite orders is outside the
model (listed as a hazard; the database breaks it by ending one transaction).

Components not modelled are in `PROJECT.json` with the reason. Most of the
repository's lines are of that kind: the web site's pages and forms, the
screens of the board, seeds, tools and legacy code, and services that create,
read, update and delete single records. They have no behaviour over time that
a model could say more about than a test.

## 6. Plan

1. **Registration**: verification of players with their licence numbers, doubles
   registered by a coach, categories that change beside registrations.
2. **Accounts**: rotation of refresh tokens and the last administrator, with two
   requests at once.
3. **Applications, appeals, clubs**: conditional updates and their checks.
4. **Snapshots** of the ranking against points that move while they are copied.
5. **Board and bridge together**: `Board` in place of the abstract court of
   `ScoreboardBridge`, so that every result a board can send is one `planReplay` takes.
6. **Proofs**: that ties within ties are ranked by the match of two who are level
   (`TwoLevelAreSettledByTheirMatch`), with the sorting into classes written as a
   recursive function, as `Assign` goes through its matches.
