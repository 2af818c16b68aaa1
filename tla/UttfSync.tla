------------------------------ MODULE UttfSync ------------------------------
(***************************************************************************)
(* What the site takes over from uttf.uz (modules/uttf-sync). Each kind of *)
(* row has a scope of its own: an administrator's request runs one scope,  *)
(* several scopes at a time, none twice (SyncLock). A run reads the list of*)
(* uttf and then goes through it, looking at our row and writing apart,    *)
(* while editors, players and other runs write as well. Rows are only ever *)
(* added or completed, and what is too much for a run is left to the next. *)
(***************************************************************************)
EXTENDS Integers, Sequences, FiniteSets, SequencesExt

CONSTANTS
    Request,                    \* requests of administrators that run at a time
    TournamentRows, PlayerRows, ClubRows, VideoRows, MatchRows, NewsRows, \* lists of uttf
    Locale, MainLocale,         \* uz
    HasPhoto,                   \* players of whom uttf has a photo
    ClubOf,                     \* the club of a player, or None
    TournamentOf, PairOf,       \* of a match
    TextsOf,                    \* of an article: the locales it has a text of its own in
    Broken,                     \* players and clubs whose picture can never be loaded
    PerRun,                     \* photos of a run (30)
    NewsWriteMax,               \* articles a run writes (25)
    Duties,                     \* bound: the scopes that are run together
    None,
    MaxIncidents                \* bound: everything that does not go as it should

Scope == {"tournaments", "tournament-names", "players", "videos", "matches", "news", "clubs",
          "photos"}

ASSUME SyncAssumption ==
    /\ HasPhoto \subseteq ToSet(PlayerRows)
    /\ ClubOf \in [ToSet(PlayerRows) -> ToSet(ClubRows) \cup {None}]
    /\ TournamentOf \in [ToSet(MatchRows) -> ToSet(TournamentRows)]
    /\ PairOf \in [ToSet(MatchRows) -> SUBSET ToSet(PlayerRows)]
    /\ TextsOf \in [ToSet(NewsRows) -> SUBSET Locale \ {{}}] /\ MainLocale \in Locale
    /\ {PerRun, NewsWriteMax} \subseteq Nat \ {0} /\ MaxIncidents \in Nat
    /\ Duties \subseteq SUBSET Scope

VARIABLES
    db,         \* our rows
    run,        \* of a request: the run it has begun, or None
    running,    \* scopes held by SyncLock
    failed,     \* pictures that could not be loaded within the hour
    duty,       \* the scopes administrators are occupied with
    incidents   \* bound

vars == <<db, run, running, failed, duty, incidents>>

(* A player as the import of old made it, and as syncPlayers makes it.     *)
OldPlayer == [photo |-> "none", born |-> "january", club |-> None]
NewPlayer(p, club) ==
    [photo |-> IF p \in HasPhoto THEN "imported" ELSE "none", born |-> "known", club |-> club]
NoNews == [l \in Locale |-> "none"]
(* An article of which only the main locale came.                          *)
OldNews(a) == [l \in Locale |-> IF l = MainLocale /\ l \in TextsOf[a] THEN "source" ELSE "none"]

Init ==
    /\ db \in [tournament : {{}}, name : {{}}, match : {{}},
               player : [ToSet(PlayerRows) -> {None, OldPlayer}],
               club : [ToSet(ClubRows) -> {"none", "bare"}],
               video : [ToSet(VideoRows) -> {0, 1}],
               news : {[a \in ToSet(NewsRows) |-> NoNews], [a \in ToSet(NewsRows) |-> OldNews(a)]}]
    /\ run = [r \in Request |-> None] /\ running = {} /\ failed = {}
    /\ duty \in Duties
    /\ "players" \notin duty => \A p \in DOMAIN db.player : db.player[p] = None
    /\ "clubs" \notin duty => \A c \in DOMAIN db.club : db.club[c] = "none"
    /\ "videos" \notin duty => \A v \in DOMAIN db.video : db.video[v] = 0
    /\ "news" \notin duty => \A a \in DOMAIN db.news : db.news[a] = NoNews
    /\ incidents = 0

Here == {p \in DOMAIN db.player : db.player[p] # None}
Incident == incidents < MaxIncidents /\ incidents' = incidents + 1

(* ---------------- A run ----------------                                 *)

(* Mutant: the lock is let go before the work is done.                     *)
AlwaysFree(s) == TRUE
Free(s) == s \notin running
(* A request takes the lock of its scope or is refused (SyncLock.run).     *)
Begin(r, s, dry, force) ==
    /\ run[r] = None /\ s \in duty /\ Free(s)
    /\ running' = running \cup {s}
    /\ run' = [run EXCEPT ![r] = [scope |-> s, dry |-> dry, force |-> force, stage |-> "reading",
                                  todo |-> <<>>, known |-> {}, left |-> NewsWriteMax, job |-> None]]
    /\ UNCHANGED <<db, failed, duty>>
(* What brings everything over: not dry, without a limit, photos by force. *)
Start(r, s) == Begin(r, s, FALSE, s = "photos") /\ UNCHANGED incidents
DryRun(r, s) == Begin(r, s, TRUE, FALSE) /\ Incident
StartPhotos(r) == Begin(r, "photos", FALSE, FALSE) /\ Incident

(* Mutant: the lock stays when the run failed.                             *)
HeldByFailed(r, failing) == IF failing THEN running ELSE running \ {run[r].scope}
(* The lock is let go however the run ends.                                *)
Released(r, failing) == running \ {run[r].scope}
Stop(r, failing) == run' = [run EXCEPT ![r] = None] /\ running' = Released(r, failing)

(* The list a scope goes through, our own tournaments where they are asked *)
(* for one by one.                                                         *)
ListOf(s) ==
    CASE s = "tournaments" -> TournamentRows
      [] s = "tournament-names" -> SelectSeq(TournamentRows, LAMBDA t : t \in db.tournament)
      [] s = "players" -> PlayerRows
      [] s = "videos" -> VideoRows
      [] s = "matches" -> SelectSeq(MatchRows, LAMBDA m : TournamentOf[m] \in db.tournament)
      [] s = "news" -> NewsRows
      [] s = "clubs" -> ClubRows
      [] s = "photos" -> PlayerRows

(* Less than half of what we have is taken for an answer gone wrong.       *)
TooFew(s, rows) ==
    \/ s = "tournaments" /\ 2 * Len(rows) < Cardinality(db.tournament)
    \/ s = "players" /\ 2 * Len(rows) < Cardinality(Here)

(* What a run knows of other rows from its beginning; of news, the locales *)
(* that were received.                                                     *)
ClubsHere == {c \in DOMAIN db.club : db.club[c] # "none"}
Known(s, locales) ==
    CASE s = "players" -> ClubsHere
      [] s = "matches" -> Here
      [] s = "news" -> locales
      [] OTHER -> {}

(* Mutant: what failed an hour ago is tried first again.                   *)
NeverFailed(x) == FALSE
RecentlyFailed(x) == x \in failed
(* Photos are chosen before the first is loaded: those of players without  *)
(* one, by force those of all who have not given us a photo.               *)
PhotosToLoad(rows, force) ==
    LET wanted == SelectSeq(rows, LAMBDA p :
            /\ p \in HasPhoto \cap Here /\ ~RecentlyFailed(p)
            /\ db.player[p].photo \in (IF force THEN {"none", "imported"} ELSE {"none"}))
    IN  SubSeq(wanted, 1, IF Len(wanted) < PerRun THEN Len(wanted) ELSE PerRun)

(* uttf answers with its list, or a part of it, or the administrator wants *)
(* the first rows only; an empty or short list ends the run, and so does a *)
(* dry run of photos. News come in the locales that answered.              *)
Read(r) ==
    /\ run[r] # None /\ run[r].stage = "reading"
    /\ LET s == run[r].scope IN
       \E n \in 0..Len(ListOf(s)), locales \in {l \in SUBSET Locale : MainLocale \in l} :
          LET rows == SubSeq(ListOf(s), 1, n) IN
          /\ s # "news" => locales = Locale
          /\ IF n = Len(ListOf(s)) /\ locales = Locale THEN UNCHANGED incidents ELSE Incident
          /\ IF n = 0 \/ TooFew(s, rows) \/ (s = "photos" /\ run[r].dry) THEN Stop(r, FALSE)
             ELSE /\ run' = [run EXCEPT ![r].stage = "looking", ![r].known = Known(s, locales),
                                ![r].todo = IF s = "photos" THEN PhotosToLoad(rows, run[r].force)
                                            ELSE rows]
                  /\ UNCHANGED running
    /\ UNCHANGED <<db, failed, duty>>

(* uttf does not answer: the run ends with an error.                       *)
ReadFails(r) ==
    /\ run[r] # None /\ run[r].stage = "reading" /\ run[r].scope \notin {"tournament-names", "matches"}
    /\ Incident /\ Stop(r, TRUE) /\ UNCHANGED <<db, failed, duty>>

End(r) ==
    /\ run[r] # None /\ run[r].stage = "looking" /\ (run[r].todo = <<>> \/ run[r].left = 0)
    /\ Stop(r, FALSE) /\ UNCHANGED <<db, failed, duty, incidents>>

(* The time of a request is up: the rest is for the next one.              *)
OutOfTime(r) ==
    /\ run[r] # None /\ run[r].scope \in {"news", "clubs", "photos"}
    /\ run[r].stage = "looking" /\ run[r].todo # <<>>
    /\ Incident /\ Stop(r, FALSE) /\ UNCHANGED <<db, failed, duty>>

(* ---------------- Row by row ----------------                            *)

At(r, s, stage) ==
    /\ run[r] # None /\ run[r].scope = s /\ run[r].stage = stage
    /\ stage = "looking" => run[r].todo # <<>> /\ run[r].left > 0
Row(r) == Head(run[r].todo)
Onward(r, left) == run' = [run EXCEPT ![r].todo = Tail(@), ![r].stage = "looking", ![r].job = None,
                                     ![r].left = left]
Pass(r) == Onward(r, run[r].left)
ToWrite(r, job) == run' = [run EXCEPT ![r].stage = "writing", ![r].job = job]
LookOnly == UNCHANGED <<db, running, failed, duty, incidents>>

LookAtTournament(r) == At(r, "tournaments", "looking") /\ ToWrite(r, Row(r)) /\ LookOnly
LookAtNames(r) == At(r, "tournament-names", "looking") /\ ToWrite(r, Row(r)) /\ LookOnly
(* uttf does not answer for a tournament: it is passed over.               *)
NotReceived(r) ==
    /\ At(r, "tournament-names", "looking") \/ At(r, "matches", "looking")
    /\ Pass(r) /\ Incident /\ UNCHANGED <<db, running, failed, duty>>

(* A new player with everything, or what is missing of one who is here.    *)
LookAtPlayer(r) ==
    /\ At(r, "players", "looking")
    /\ LET p == Row(r)
           ours == db.player[p]
           club == IF ClubOf[p] \in run[r].known THEN ClubOf[p] ELSE None
           born == ours # None /\ ours.born = "january"
           join == ours # None /\ ours.club = None /\ club # None
       IN  IF ours # None /\ ~born /\ ~join THEN Pass(r)
           ELSE ToWrite(r, [new |-> ours = None, born |-> born, join |-> join, club |-> club])
    /\ LookOnly

LookAtVideo(r) ==
    /\ At(r, "videos", "looking")
    /\ ToWrite(r, [new |-> db.video[Row(r)] = 0])
    /\ LookOnly

LookAtMatch(r) ==
    /\ At(r, "matches", "looking")
    /\ IF PairOf[Row(r)] \subseteq run[r].known
       THEN ToWrite(r, [new |-> Row(r) \notin db.match])
       ELSE Pass(r)
    /\ LookOnly

(* Mutant: texts that are here are written again.                          *)
AllTexts(a, locales) == TextsOf[a] \cap locales
(* The texts of an article that are not here yet.                          *)
Missing(a, locales) == {l \in TextsOf[a] \cap locales : db.news[a][l] = "none"}
(* Mutant: articles passed over count as written.                          *)
LookIsCounted(left) == left - 1
LeftAfterLook(left) == left
LookAtNews(r) ==
    /\ At(r, "news", "looking")
    /\ LET a == Row(r)
           missing == Missing(a, run[r].known)
       IN  IF missing = {} THEN Onward(r, LeftAfterLook(run[r].left))
           ELSE ToWrite(r, [new |-> db.news[a] = NoNews, texts |-> missing])
    /\ LookOnly

(* Our row of a club, and its logo if there is none: it may not be loaded. *)
LookAtClub(r) ==
    /\ At(r, "clubs", "looking")
    /\ LET c == Row(r)
           try == ~run[r].dry /\ db.club[c] # "logo" /\ ~RecentlyFailed(c)
       IN  \E loaded \in BOOLEAN :
             /\ loaded => try /\ c \notin Broken
             /\ IF try /\ ~loaded /\ c \notin Broken THEN Incident ELSE UNCHANGED incidents
             /\ failed' = IF try /\ ~loaded THEN failed \cup {c} ELSE failed
             /\ ToWrite(r, [new |-> db.club[c] = "none", logo |-> loaded])
    /\ UNCHANGED <<db, running, duty>>

LoadPhoto(r) ==
    /\ At(r, "photos", "looking")
    /\ LET p == Row(r) IN
       \/ p \notin Broken /\ ToWrite(r, p) /\ UNCHANGED <<failed, incidents>>
       \/ /\ failed' = failed \cup {p} /\ Pass(r)
          /\ IF p \in Broken THEN UNCHANGED incidents ELSE Incident
    /\ UNCHANGED <<db, running, duty>>

(* Our rows when the row looked at is written: created or completed, never *)
(* taken away.                                                             *)
TournamentWritten(t) == [db EXCEPT !.tournament = @ \cup {t}]
NamesWritten(t) == [db EXCEPT !.name = @ \cup {t}]
PlayerWritten(p, job) ==
    IF job.new THEN [db EXCEPT !.player[p] = NewPlayer(p, job.club)]
    ELSE [db EXCEPT !.player[p].born = IF job.born THEN "known" ELSE @,
                    !.player[p].club = IF job.join THEN job.club ELSE @]
VideoWritten(v, job) == [db EXCEPT !.video[v] = IF job.new THEN @ + 1 ELSE @]
MatchWritten(m) == [db EXCEPT !.match = @ \cup {m}]
NewsWritten(a, job) ==
    [db EXCEPT !.news[a] = [l \in Locale |-> IF l \in job.texts THEN "source" ELSE @[l]]]
ClubWritten(c, job) ==
    [db EXCEPT !.club[c] = IF job.logo THEN "logo" ELSE IF job.new THEN "bare" ELSE @]
PhotoWritten(p) == [db EXCEPT !.player[p].photo = "loaded"]
Written(s, x, job) ==
    CASE s = "tournaments" -> TournamentWritten(x)
      [] s = "tournament-names" -> NamesWritten(x)
      [] s = "players" -> PlayerWritten(x, job)
      [] s = "videos" -> VideoWritten(x, job)
      [] s = "matches" -> MatchWritten(x)
      [] s = "news" -> NewsWritten(x, job)
      [] s = "clubs" -> ClubWritten(x, job)
      [] s = "photos" -> PhotoWritten(x)

(* Mutant: texts are written over those that came in between.              *)
NeverRefused(s, x, job) == FALSE
(* The database refuses a second row with the number of uttf, a second text*)
(* of a locale, and a text of an article that is gone.                     *)
Refused(s, x, job) ==
    \/ s = "players" /\ job.new /\ x \in Here
    \/ s = "matches" /\ job.new /\ x \in db.match
    \/ s = "clubs" /\ job.new /\ db.club[x] # "none"
    \/ s = "news" /\ (job.new <=> db.news[x] # NoNews)
    \/ s = "news" /\ \E l \in job.texts : db.news[x][l] # "none"

(* A row is written, in a dry run only counted; an article written counts. *)
Write(r) ==
    /\ run[r] # None /\ run[r].stage = "writing"
    /\ LET s == run[r].scope  x == Row(r)  job == run[r].job  dry == run[r].dry IN
       IF ~dry /\ Refused(s, x, job) THEN Stop(r, TRUE) /\ UNCHANGED db
       ELSE /\ db' = IF dry THEN db ELSE Written(s, x, job)
            /\ Onward(r, IF s = "news" /\ ~dry THEN run[r].left - 1 ELSE run[r].left)
            /\ UNCHANGED running
    /\ UNCHANGED <<failed, duty, incidents>>

(* ---------------- Meanwhile ----------------                             *)

(* An editor writes a text of an article (NewsService.update).             *)
EditNews(a, l) ==
    /\ "news" \in duty /\ db.news[a] # NoNews /\ Incident
    /\ db' = [db EXCEPT !.news[a][l] = "edited"]
    /\ UNCHANGED <<run, running, failed, duty>>
RemoveNews(a) ==
    /\ "news" \in duty /\ db.news[a] # NoNews /\ Incident
    /\ db' = [db EXCEPT !.news[a] = NoNews]
    /\ UNCHANGED <<run, running, failed, duty>>
(* A player gives a photo (PlayerPhotoService.upload).                     *)
Upload(p) ==
    /\ "photos" \in duty /\ p \in Here /\ Incident
    /\ db' = [db EXCEPT !.player[p].photo = "own"]
    /\ UNCHANGED <<run, running, failed, duty>>
(* The hour in which pictures are not tried again is over, when all photos *)
(* have had their turn.                                                    *)
NewHour ==
    /\ failed # {} /\ PhotosToLoad(PlayerRows, TRUE) = <<>> /\ failed' = {}
    /\ UNCHANGED <<db, run, running, duty, incidents>>
(* It is over before.                                                      *)
Expire(x) ==
    /\ x \in failed /\ Incident /\ failed' = failed \ {x}
    /\ UNCHANGED <<db, run, running, duty>>
(* The API restarts: runs, the lock and what failed are forgotten.         *)
Restart ==
    /\ Incident
    /\ run' = [r \in Request |-> None] /\ running' = {} /\ failed' = {}
    /\ UNCHANGED <<db, duty>>

Step(r) ==
    \/ Read(r) \/ End(r) \/ Write(r)
    \/ LookAtTournament(r) \/ LookAtNames(r) \/ LookAtPlayer(r) \/ LookAtVideo(r)
    \/ LookAtMatch(r) \/ LookAtNews(r) \/ LookAtClub(r) \/ LoadPhoto(r)

Next ==
    \/ \E r \in Request :
          \/ Step(r) \/ ReadFails(r) \/ OutOfTime(r) \/ NotReceived(r) \/ StartPhotos(r)
          \/ \E s \in Scope : Start(r, s) \/ DryRun(r, s)
    \/ \E a \in ToSet(NewsRows) : RemoveNews(a) \/ \E l \in Locale : EditNews(a, l)
    \/ \E p \in ToSet(PlayerRows) : Upload(p)
    \/ \E x \in ToSet(PlayerRows) \cup ToSet(ClubRows) : Expire(x)
    \/ NewHour \/ Restart

Spec == Init /\ [][Next]_vars
(* A run goes on, what is left is run again (a run says so when it ends,   *)
(* and who is refused by the lock asks again), and hours pass.             *)
FairSpec ==
    /\ Spec
    /\ \A r \in Request : WF_vars(Step(r))
    /\ WF_vars(NewHour)
    /\ \A s \in Scope : SF_vars(\E r \in Request : Start(r, s))

(* ---------------- Properties ----------------                            *)

(* No video is here twice: its number is not unique in the database, so    *)
(* that only the lock stands between two runs (syncVideos, SyncLock).      *)
OneCopyOfEach == \A v \in ToSet(VideoRows) : db.video[v] <= 1

(* A text an editor wrote stays until the article is removed, also when a  *)
(* run had found it missing (syncNews).                                    *)
EditedTextStays ==
    [][\A a \in ToSet(NewsRows), l \in Locale :
          db.news[a][l] = "edited" /\ db.news[a]' # NoNews => db.news[a][l]' = "edited"]_vars

(* All that uttf has and the scopes bring over is here.                    *)
Complete ==
    /\ "tournaments" \in duty => db.tournament = ToSet(TournamentRows)
    /\ {"tournaments", "tournament-names"} \subseteq duty => db.name = ToSet(TournamentRows)
    /\ "players" \in duty =>
          \A p \in ToSet(PlayerRows) :
              /\ p \in Here /\ db.player[p].born = "known"
              /\ "clubs" \in duty => db.player[p].club = ClubOf[p]
              /\ "photos" \in duty /\ p \in HasPhoto \ Broken => db.player[p].photo \in {"own", "loaded"}
    /\ {"tournaments", "players", "matches"} \subseteq duty => db.match = ToSet(MatchRows)
    /\ "videos" \in duty => \A v \in ToSet(VideoRows) : db.video[v] > 0
    /\ "clubs" \in duty => \A c \in ToSet(ClubRows) : c \notin Broken => db.club[c] = "logo"
    /\ "news" \in duty => \A a \in ToSet(NewsRows) : \A l \in TextsOf[a] : db.news[a][l] # "none"

(* Run again and again, the scopes bring everything over in the end, in    *)
(* whatever order they are run: a row that waits for another is completed  *)
(* later, pictures that cannot be loaded do not keep others waiting, and   *)
(* neither do articles that are here (syncPlayers, syncMatches, syncNews,  *)
(* syncClubs, syncPhotos).                                                 *)
EverythingArrives == <>[]Complete
=============================================================================
