--------------------------- MODULE UttfSyncProofs ---------------------------
(***************************************************************************)
(* What holds of the synchronisation with uttf for any lists, any number   *)
(* of requests and any limit: the lock keeps videos single, and an editor's*)
(* text is never written over.                                             *)
(***************************************************************************)
EXTENDS UttfSync, TLAPS

(* The constant of no run is no run. *)
IsRun(x) ==
    x \in [scope : {x.scope}, dry : {x.dry}, force : {x.force}, stage : {x.stage},
           todo : {x.todo}, known : {x.known}, left : {x.left}, job : {x.job}]

(* Our rows, as far as the two properties look at them. *)
DbIs(d) ==
    /\ d \in [tournament : {d.tournament}, name : {d.name}, match : {d.match},
              player : {d.player}, club : {d.club}, video : {d.video}, news : {d.news}]
    /\ d.video \in [ToSet(VideoRows) -> {0, 1}]
    /\ d.news \in [ToSet(NewsRows) -> [Locale -> {"none", "source", "edited"}]]
DbType == DbIs(db)

(* Two runs never have a scope together, since each holds its lock.        *)
Locks ==
    /\ DOMAIN run = Request
    /\ \A r \in Request : run[r] # None => IsRun(run[r]) /\ run[r].scope \in running \cap Scope
    /\ \A r, q \in Request :
          r # q /\ run[r] # None /\ run[q] # None => run[r].scope # run[q].scope

(* A run that is about to create a video still finds none.                 *)
Creates(r) ==
    run[r] # None /\ run[r].scope = "videos" /\ run[r].stage = "writing" /\ run[r].job.new
VideosOnce == \A r \in Request : Creates(r) => db.video[Row(r)] = 0

Inv == DbType /\ Locks /\ VideosOnce

----------------------------------------------------------------------------
(* What steps do to a run *)

(* A run goes from one state to another. *)
RunChanges(r, y) ==
    /\ DOMAIN run' = Request /\ run'[r] = y
    /\ \A q \in Request \ {r} : run'[q] = run[q]

LEMMA Begins ==
    ASSUME Locks, NEW r \in Request, NEW s \in Scope, NEW dry, NEW force, Begin(r, s, dry, force)
    PROVE  /\ Locks' /\ run[r] = None
           /\ \A q \in Request \ {r} : run'[q] = run[q]
           /\ run'[r].stage = "reading" /\ db' = db
<1> DEFINE y == [scope |-> s, dry |-> dry, force |-> force, stage |-> "reading",
                 todo |-> <<>>, known |-> {}, left |-> NewsWriteMax, job |-> None]
<1>1. /\ run[r] = None /\ s \notin running /\ running' = running \cup {s}
      /\ db' = db /\ RunChanges(r, y)
  BY DEF Begin, Free, Locks, RunChanges
<1>2. IsRun(y) /\ y.scope = s /\ y.stage = "reading"
  BY DEF IsRun
<1> HIDE DEF y
<1>3. Locks'
  BY <1>1, <1>2 DEF Locks, RunChanges
<1> QED BY <1>1, <1>2, <1>3 DEF RunChanges

LEMMA Stops ==
    ASSUME Locks, NEW r \in Request, run[r] # None, NEW failing, Stop(r, failing)
    PROVE  Locks' /\ RunChanges(r, None)
<1>1. RunChanges(r, None) /\ running' = running \ {run[r].scope}
  BY DEF Stop, Released, Locks, RunChanges
<1>2. Locks'
  BY <1>1 DEF Locks, RunChanges
<1> QED BY <1>1, <1>2

LEMMA GoesOn ==
    ASSUME Locks, NEW r \in Request, run[r] # None, NEW y, IsRun(y),
           y.scope = run[r].scope, RunChanges(r, y), running' = running
    PROVE  Locks'
  BY DEF Locks, RunChanges

(* The next row, and the row that is to be written. *)
LEMMA GoesOnward ==
    ASSUME Locks, NEW r \in Request, run[r] # None, NEW left, Onward(r, left),
           running' = running
    PROVE  /\ Locks' /\ run'[r].stage = "looking"
           /\ \A q \in Request \ {r} : run'[q] = run[q]
<1> DEFINE x == run[r]
           y == [x EXCEPT !.todo = Tail(@), !.stage = "looking", !.job = None, !.left = left]
<1>1. IsRun(x) /\ r \in DOMAIN run /\ DOMAIN run = Request
  BY DEF Locks
<1>2. IsRun(y) /\ y.scope = x.scope /\ y.stage = "looking"
  <2> HIDE DEF x
  <2> QED BY <1>1 DEF IsRun
<1>3. RunChanges(r, y)
  <2>1. run' = [run EXCEPT ![r] = y]
    BY <1>1 DEF Onward
  <2> HIDE DEF y
  <2> QED BY <1>1, <2>1 DEF RunChanges
<1> HIDE DEF y
<1> QED BY <1>2, <1>3, GoesOn DEF RunChanges

LEMMA GoesWriting ==
    ASSUME Locks, NEW r \in Request, run[r] # None, NEW job, ToWrite(r, job),
           running' = running
    PROVE  /\ Locks' /\ run'[r].job = job /\ run'[r].scope = run[r].scope
           /\ run'[r].todo = run[r].todo
           /\ \A q \in Request \ {r} : run'[q] = run[q]
<1> DEFINE x == run[r]
           y == [x EXCEPT !.stage = "writing", !.job = job]
<1>1. IsRun(x) /\ r \in DOMAIN run /\ DOMAIN run = Request
  BY DEF Locks
<1>2. IsRun(y) /\ y.scope = x.scope /\ y.job = job /\ y.todo = x.todo
  <2> HIDE DEF x
  <2> QED BY <1>1 DEF IsRun
<1>3. RunChanges(r, y)
  <2>1. run' = [run EXCEPT ![r] = y]
    BY <1>1 DEF ToWrite
  <2> HIDE DEF y
  <2> QED BY <1>1, <2>1 DEF RunChanges
<1> HIDE DEF y
<1> QED BY <1>2, <1>3, GoesOn DEF RunChanges

----------------------------------------------------------------------------
(* What steps do to our rows *)

SameRows == db'.video = db.video /\ db'.news = db.news

LEMMA OtherPlayers ==
    ASSUME NEW d, DbIs(d), NEW p
    PROVE  LET e == [d EXCEPT !.player = p]
           IN  DbIs(e) /\ e.video = d.video /\ e.news = d.news
  BY DEF DbIs

(* A run writes a row: of videos only those of its scope, of news too. *)
LEMMA WrittenIs ==
    ASSUME DbType, NEW s \in Scope, NEW x, NEW job, db' = Written(s, x, job),
           s = "videos" /\ job.new => db.video[x] = 0
    PROVE  /\ DbType'
           /\ s # "videos" => db'.video = db.video
           /\ s # "news" => db'.news = db.news
           /\ \A v \in ToSet(VideoRows) : v # x => db'.video[v] = db.video[v]
           /\ s = "news" => db' = NewsWritten(x, job)
<1>1. CASE s = "tournaments"
  BY <1>1 DEF Written, TournamentWritten, DbType, DbIs
<1>2. CASE s = "tournament-names"
  BY <1>2 DEF Written, NamesWritten, DbType, DbIs
<1>3. CASE s = "matches"
  BY <1>3 DEF Written, MatchWritten, DbType, DbIs
<1>4. CASE s = "players"
  <2>1. db' = PlayerWritten(x, job)
    BY <1>4 DEF Written
  <2>2. CASE job.new
    <3>1. db' = [db EXCEPT !.player = [db.player EXCEPT ![x] = NewPlayer(x, job.club)]]
      BY <2>1, <2>2 DEF PlayerWritten
    <3>2. DbIs(db') /\ db'.video = db.video /\ db'.news = db.news
      BY <3>1, OtherPlayers DEF DbType
    <3> QED BY <1>4, <3>2 DEF DbType, DbIs
  <2>3. CASE ~job.new
    <3> DEFINE p == [db.player EXCEPT ![x].born = IF job.born THEN "known" ELSE @]
               mid == [db EXCEPT !.player = p]
               q == [mid.player EXCEPT ![x].club = IF job.join THEN job.club ELSE @]
    <3>1. db' = [mid EXCEPT !.player = q]
      <4>1. PlayerWritten(x, job) = [mid EXCEPT !.player = q]
        BY <2>3 DEF PlayerWritten
      <4> QED BY <2>1, <4>1
    <3> HIDE DEF p, q
    <3>2. DbIs(mid) /\ mid.video = db.video /\ mid.news = db.news
      BY OtherPlayers DEF DbType
    <3> HIDE DEF mid
    <3>3. DbIs(db') /\ db'.video = db.video /\ db'.news = db.news
      BY <3>1, <3>2, OtherPlayers
    <3> QED BY <1>4, <3>3 DEF DbType, DbIs
  <2> QED BY <2>2, <2>3
<1>5. CASE s = "photos"
  <2>1. \E p : db' = [db EXCEPT !.player = p]
    BY <1>5 DEF Written, PhotoWritten
  <2> QED BY <1>5, <2>1 DEF DbType, DbIs
<1>6. CASE s = "clubs"
  <2>1. \E c : db' = [db EXCEPT !.club = c]
    BY <1>6 DEF Written, ClubWritten
  <2> QED BY <1>6, <2>1 DEF DbType, DbIs
<1>7. CASE s = "videos"
  <2> DEFINE v == [db.video EXCEPT ![x] = IF job.new THEN @ + 1 ELSE @]
  <2>1. db' = [db EXCEPT !.video = v]
    BY <1>7 DEF Written, VideoWritten
  <2>2. v \in [ToSet(VideoRows) -> {0, 1}]
    <3> DEFINE n == IF job.new THEN db.video[x] + 1 ELSE db.video[x]
    <3>1. x \in ToSet(VideoRows) => n \in {0, 1}
      <4>1. CASE job.new
        BY <1>7, <4>1
      <4>2. CASE ~job.new
        BY <4>2 DEF DbType, DbIs
      <4> QED BY <4>1, <4>2
    <3>2. v = [db.video EXCEPT ![x] = n]
      OBVIOUS
    <3> HIDE DEF n, v
    <3> QED BY <3>1, <3>2 DEF DbType, DbIs
  <2>3. \A w \in ToSet(VideoRows) : w # x => v[w] = db.video[w]
    BY DEF DbType, DbIs
  <2> HIDE DEF v
  <2> QED BY <1>7, <2>1, <2>2, <2>3 DEF DbType, DbIs
<1>8. CASE s = "news"
  <2> DEFINE texts == [l \in Locale |-> IF l \in job.texts THEN "source" ELSE db.news[x][l]]
             n == [db.news EXCEPT ![x] = texts]
  <2>1. db' = [db EXCEPT !.news = n] /\ db' = NewsWritten(x, job)
    BY <1>8 DEF Written, NewsWritten
  <2>2. n \in [ToSet(NewsRows) -> [Locale -> {"none", "source", "edited"}]]
    <3>1. CASE x \in ToSet(NewsRows)
      <4>1. texts \in [Locale -> {"none", "source", "edited"}]
        BY <3>1 DEF DbType, DbIs
      <4> HIDE DEF texts
      <4> QED BY <4>1 DEF DbType, DbIs
    <3>2. CASE x \notin ToSet(NewsRows)
      <4> HIDE DEF texts
      <4> QED BY <3>2 DEF DbType, DbIs
    <3> QED BY <3>1, <3>2
  <2> HIDE DEF n
  <2> QED BY <1>8, <2>1, <2>2 DEF DbType, DbIs
<1> QED BY <1>1, <1>2, <1>3, <1>4, <1>5, <1>6, <1>7, <1>8 DEF Scope

LEMMA SameVideos ==
    ASSUME Inv, DbType', Locks', SameRows, NEW r \in Request,
           \A q \in Request \ {r} : run'[q] = run[q],
           Creates(r)' => db.video[Head(run'[r].todo)] = 0
    PROVE  Inv'
  BY DEF Inv, VideosOnce, Creates, Row, SameRows

----------------------------------------------------------------------------
(* The invariant *)

LEMMA InitInv == Init => Inv
<1> SUFFICES ASSUME Init PROVE Inv
  OBVIOUS
<1>1. db \in [tournament : {{}}, name : {{}}, match : {{}},
              player : [ToSet(PlayerRows) -> {None, OldPlayer}],
              club : [ToSet(ClubRows) -> {"none", "bare"}],
              video : [ToSet(VideoRows) -> {0, 1}],
              news : {[a \in ToSet(NewsRows) |-> NoNews], [a \in ToSet(NewsRows) |-> OldNews(a)]}]
  BY DEF Init
<1>2. db.news \in [ToSet(NewsRows) -> [Locale -> {"none", "source", "edited"}]]
  BY <1>1 DEF NoNews, OldNews
<1>3. DbType
  BY <1>1, <1>2 DEF DbType, DbIs
<1> QED BY <1>3 DEF Init, Inv, Locks, VideosOnce, Creates

(* The lock of videos is what keeps the second of two runs from creating   *)
(* the video that the first has created since it looked.                   *)
LEMMA WriteStep ==
    ASSUME Inv, NEW r \in Request, Write(r)
    PROVE  Inv'
<1> DEFINE s == run[r].scope
           x == Row(r)
           job == run[r].job
<1>1. run[r] # None /\ run[r].stage = "writing" /\ s \in Scope
  BY DEF Write, Inv, Locks
<1>2. CASE ~run[r].dry /\ Refused(s, x, job)
  <2>1. Stop(r, TRUE) /\ db' = db
    BY <1>2 DEF Write
  <2>2. Locks' /\ RunChanges(r, None)
    BY <1>1, <2>1, Stops DEF Inv
  <2> QED BY <2>1, <2>2 DEF Inv, DbType, DbIs, VideosOnce, Creates, RunChanges, Row
<1>3. CASE ~(~run[r].dry /\ Refused(s, x, job))
  <2>1. /\ db' = IF run[r].dry THEN db ELSE Written(s, x, job)
        /\ \E left : Onward(r, left)
        /\ running' = running
    BY <1>3 DEF Write
  <2>2. /\ Locks' /\ run'[r].stage = "looking"
        /\ \A q \in Request \ {r} : run'[q] = run[q]
    BY <1>1, <2>1, GoesOnward DEF Inv
  <2>3. CASE run[r].dry
    BY <2>1, <2>2, <2>3 DEF Inv, DbType, DbIs, VideosOnce, Creates, Row
  <2>4. CASE ~run[r].dry
    <3>1. s = "videos" /\ job.new => db.video[x] = 0
      BY <1>1 DEF Inv, VideosOnce, Creates
    <3>2. /\ DbType'
          /\ s # "videos" => db'.video = db.video
      BY <1>1, <2>1, <2>4, <3>1, WrittenIs DEF Inv
    <3>3. ASSUME NEW q \in Request, Creates(q)' PROVE db'.video[Row(q)'] = 0
      <4>1. q # r /\ run'[q] = run[q]
        BY <2>2, <3>3 DEF Creates
      <4>2. Creates(q) /\ Row(q)' = Row(q) /\ run[q] # None /\ run[q].scope = "videos"
        BY <3>3, <4>1 DEF Creates, Row
      <4>3. s # "videos"
        BY <1>1, <4>1, <4>2 DEF Inv, Locks
      <4> QED BY <3>2, <4>2, <4>3 DEF Inv, VideosOnce
    <3> QED BY <2>2, <3>2, <3>3 DEF Inv, VideosOnce
  <2> QED BY <2>3, <2>4
<1> QED BY <1>2, <1>3

LEMMA StopStep ==
    ASSUME Inv, NEW r \in Request, run[r] # None, NEW failing, Stop(r, failing), db' = db
    PROVE  Inv'
<1>1. Locks' /\ RunChanges(r, None)
  BY Stops DEF Inv
<1>2. DbType' /\ SameRows
  BY DEF Inv, DbType, SameRows
<1>3. ~Creates(r)'
  BY <1>1 DEF Creates, RunChanges
<1> QED BY <1>1, <1>2, <1>3, SameVideos DEF RunChanges

LEMMA BeginStep ==
    ASSUME Inv, NEW r \in Request, NEW s \in Scope, NEW dry, NEW force,
           Begin(r, s, dry, force)
    PROVE  Inv'
<1>1. /\ Locks' /\ \A q \in Request \ {r} : run'[q] = run[q]
      /\ run'[r].stage = "reading" /\ db' = db
  BY Begins DEF Inv
<1>2. DbType' /\ SameRows /\ ~Creates(r)'
  BY <1>1 DEF Inv, DbType, SameRows, Creates
<1> QED BY <1>1, <1>2, SameVideos

LEMMA ReadStep ==
    ASSUME Inv, NEW r \in Request, Read(r)
    PROVE  Inv'
<1>1. run[r] # None /\ db' = db /\ IsRun(run[r]) /\ DOMAIN run = Request
  BY DEF Read, Inv, Locks
<1>2. CASE Stop(r, FALSE)
  BY <1>1, <1>2, StopStep
<1>3. CASE ~Stop(r, FALSE)
  <2>1. PICK known, todo :
           /\ run' = [run EXCEPT ![r].stage = "looking", ![r].known = known,
                                 ![r].todo = todo]
           /\ running' = running
    BY <1>3 DEF Read
  <2> DEFINE x == run[r]
             y == [x EXCEPT !.stage = "looking", !.known = known, !.todo = todo]
  <2>2. IsRun(y) /\ y.scope = x.scope /\ y.stage = "looking"
    <3>1. IsRun(x)
      BY <1>1
    <3> HIDE DEF x
    <3> QED BY <3>1 DEF IsRun
  <2>3. RunChanges(r, y)
    <3>1. run' = [run EXCEPT ![r] = y]
      BY <1>1, <2>1
    <3> HIDE DEF y
    <3> QED BY <1>1, <3>1 DEF RunChanges
  <2> HIDE DEF y
  <2>4. Locks' /\ ~Creates(r)'
    BY <1>1, <2>1, <2>2, <2>3, GoesOn DEF Inv, RunChanges, Creates
  <2>5. DbType' /\ SameRows
    BY <1>1 DEF Inv, DbType, SameRows
  <2> QED BY <2>3, <2>4, <2>5, SameVideos DEF RunChanges
<1> QED BY <1>2, <1>3

(* A look leads to the next row or to writing this one; only a look at a   *)
(* video leads to creating one, and only if there is none.                 *)
LEMMA LookStep ==
    ASSUME Inv, NEW r \in Request, run[r] # None, db' = db, running' = running,
           NEW left, NEW job, Onward(r, left) \/ ToWrite(r, job),
           run[r].scope = "videos" => job.new = (db.video[Row(r)] = 0)
    PROVE  Inv'
<1>1. DbType' /\ SameRows
  BY DEF Inv, DbType, SameRows
<1>2. CASE Onward(r, left)
  <2>1. Locks' /\ run'[r].stage = "looking" /\ \A q \in Request \ {r} : run'[q] = run[q]
    BY <1>2, GoesOnward DEF Inv
  <2> QED BY <1>1, <2>1, SameVideos DEF Creates
<1>3. CASE ToWrite(r, job)
  <2>1. /\ Locks' /\ run'[r].job = job /\ run'[r].scope = run[r].scope
        /\ run'[r].todo = run[r].todo
        /\ \A q \in Request \ {r} : run'[q] = run[q]
    BY <1>3, GoesWriting DEF Inv
  <2>2. Creates(r)' => db.video[Head(run'[r].todo)] = 0
    BY <2>1 DEF Creates, Row
  <2> QED BY <1>1, <2>1, <2>2, SameVideos
<1> QED BY <1>2, <1>3

LEMMA LooksStep ==
    ASSUME Inv, NEW r \in Request,
           \/ LookAtTournament(r) \/ LookAtNames(r) \/ LookAtPlayer(r) \/ LookAtVideo(r)
           \/ LookAtMatch(r) \/ LookAtNews(r) \/ LookAtClub(r) \/ LoadPhoto(r)
           \/ NotReceived(r)
    PROVE  Inv'
<1>1. /\ run[r] # None /\ db' = db /\ running' = running
  BY DEF LookAtTournament, LookAtNames, LookAtPlayer, LookAtVideo, LookAtMatch,
         LookAtNews, LookAtClub, LoadPhoto, NotReceived, At, LookOnly
<1>2. CASE LookAtVideo(r)
  <2> DEFINE job == [new |-> db.video[Row(r)] = 0]
  <2>1. ToWrite(r, job)
    BY <1>2 DEF LookAtVideo
  <2>2. job.new = (db.video[Row(r)] = 0)
    OBVIOUS
  <2> HIDE DEF job
  <2> QED BY <1>1, <2>1, <2>2, LookStep
<1>3. CASE ~LookAtVideo(r)
  <2>1. run[r].scope # "videos"
    BY <1>3 DEF LookAtTournament, LookAtNames, LookAtPlayer, LookAtMatch,
                LookAtNews, LookAtClub, LoadPhoto, NotReceived, At
  <2>2. (\E left : Onward(r, left)) \/ \E job : ToWrite(r, job)
    BY <1>3 DEF LookAtTournament, LookAtNames, LookAtPlayer, LookAtMatch,
                LookAtNews, LookAtClub, LoadPhoto, NotReceived, Pass
  <2> QED BY <1>1, <2>1, <2>2, LookStep
<1> QED BY <1>2, <1>3

(* Editors, players, time and restarts. *)
LEMMA MeanwhileStep ==
    ASSUME Inv,
           \/ \E a \in ToSet(NewsRows) : RemoveNews(a) \/ \E l \in Locale : EditNews(a, l)
           \/ \E p \in ToSet(PlayerRows) : Upload(p)
           \/ \E x \in ToSet(PlayerRows) \cup ToSet(ClubRows) : Expire(x)
           \/ NewHour \/ Restart
    PROVE  Inv'
<1>1. ASSUME DbType', db'.video = db.video, UNCHANGED <<run, running>> PROVE Inv'
  BY <1>1 DEF Inv, Locks, VideosOnce, Creates, Row
<1>2. ASSUME NEW a \in ToSet(NewsRows), RemoveNews(a) PROVE Inv'
  <2> DEFINE n == [db.news EXCEPT ![a] = NoNews]
  <2>1. db' = [db EXCEPT !.news = n] /\ UNCHANGED <<run, running>>
    BY <1>2 DEF RemoveNews
  <2>2. n \in [ToSet(NewsRows) -> [Locale -> {"none", "source", "edited"}]]
    BY DEF NoNews, Inv, DbType, DbIs
  <2> HIDE DEF n
  <2>3. DbType' /\ db'.video = db.video
    BY <2>1, <2>2 DEF Inv, DbType, DbIs
  <2> QED BY <1>1, <2>1, <2>3
<1>3. ASSUME NEW a \in ToSet(NewsRows), NEW l \in Locale, EditNews(a, l) PROVE Inv'
  <2> DEFINE n == [db.news EXCEPT ![a][l] = "edited"]
  <2>1. db' = [db EXCEPT !.news = n] /\ UNCHANGED <<run, running>>
    BY <1>3 DEF EditNews
  <2>2. n \in [ToSet(NewsRows) -> [Locale -> {"none", "source", "edited"}]]
    BY DEF Inv, DbType, DbIs
  <2> HIDE DEF n
  <2>3. DbType' /\ db'.video = db.video
    BY <2>1, <2>2 DEF Inv, DbType, DbIs
  <2> QED BY <1>1, <2>1, <2>3
<1>4. ASSUME NEW p \in ToSet(PlayerRows), Upload(p) PROVE Inv'
  <2>1. \E q : db' = [db EXCEPT !.player = q]
    BY <1>4 DEF Upload
  <2>2. DbIs(db') /\ db'.video = db.video
    BY <2>1, OtherPlayers DEF Inv, DbType
  <2>3. DbType'
    BY <2>2 DEF DbType, DbIs
  <2> QED BY <1>1, <1>4, <2>2, <2>3 DEF Upload
<1>5. CASE NewHour \/ \E x \in ToSet(PlayerRows) \cup ToSet(ClubRows) : Expire(x)
  BY <1>1, <1>5 DEF NewHour, Expire, Inv, DbType
<1>6. CASE Restart
  BY <1>6 DEF Restart, Inv, DbType, Locks, VideosOnce, Creates
<1> QED BY <1>2, <1>3, <1>4, <1>5, <1>6

LEMMA NextInv == Inv /\ [Next]_vars => Inv'
<1> SUFFICES ASSUME Inv, [Next]_vars PROVE Inv'
  OBVIOUS
<1>1. CASE UNCHANGED vars
  BY <1>1 DEF vars, Inv, DbType, Locks, VideosOnce, Creates, Row
<1>2. ASSUME NEW r \in Request, Step(r) \/ ReadFails(r) \/ OutOfTime(r) \/ NotReceived(r)
      PROVE  Inv'
  <2>1. CASE ReadFails(r) \/ OutOfTime(r) \/ End(r)
    <3>1. run[r] # None /\ db' = db /\ \E failing : Stop(r, failing)
      BY <2>1 DEF ReadFails, OutOfTime, End
    <3> QED BY <3>1, StopStep
  <2> QED BY <1>2, <2>1, ReadStep, WriteStep, LooksStep DEF Step
<1>3. ASSUME NEW r \in Request, StartPhotos(r) \/ \E s \in Scope : Start(r, s) \/ DryRun(r, s)
      PROVE  Inv'
  <2>1. "photos" \in Scope
    BY DEF Scope
  <2>2. \E s \in Scope : \E dry, force : Begin(r, s, dry, force)
    BY <1>3, <2>1 DEF StartPhotos, Start, DryRun
  <2> QED BY <2>2, BeginStep
<1> QED BY <1>1, <1>2, <1>3, MeanwhileStep DEF Next

(* The lock, the rows a run is about to create and our rows fit together   *)
(* in every behaviour (SyncLock, syncVideos).                              *)
THEOREM Invariance == Spec => []Inv
  BY InitInv, NextInv, PTL DEF Spec

(* However many requests run at a time, whatever fails and however often   *)
(* the API restarts, no video comes over twice: the database would take it,*)
(* but no second run creates it between the look and the write of the first*)
(* (syncVideos, SyncLock.run).                                             *)
THEOREM VideosStaySingle == Spec => []OneCopyOfEach
<1>1. Inv => OneCopyOfEach
  BY DEF Inv, DbType, DbIs, OneCopyOfEach
<1> QED BY <1>1, Invariance, PTL

(* No run writes over a text an editor wrote, also not when it had found   *)
(* the text missing before: the database refuses the second text of a      *)
(* locale (syncNews, NewsService.update).                                  *)
THEOREM EditorsAreRespected == Spec => EditedTextStays
<1> DEFINE Stays == \A a \in ToSet(NewsRows), l \in Locale :
                       db.news[a][l] = "edited" /\ db.news[a]' # NoNews => db.news[a][l]' = "edited"
<1>1. Inv /\ [Next]_vars => [Stays]_vars
  <2> SUFFICES ASSUME Inv, Next, NEW a \in ToSet(NewsRows), NEW l \in Locale,
                      db.news[a][l] = "edited", db'.news[a] # NoNews
               PROVE  db'.news[a][l] = "edited"
    OBVIOUS
  <2>1. CASE db'.news = db.news
    BY <2>1
  <2>2. ASSUME NEW r \in Request, Write(r) PROVE db'.news[a][l] = "edited"
    <3> DEFINE s == run[r].scope
               x == Row(r)
               job == run[r].job
    <3>1. CASE db' = db
      BY <3>1
    <3>2. CASE db' # db
      <4>1. s \in Scope /\ db' = Written(s, x, job) /\ ~Refused(s, x, job)
        BY <2>2, <3>2 DEF Write, Inv, Locks
      <4>2. s = "videos" /\ job.new => db.video[x] = 0
        BY <2>2 DEF Write, Inv, VideosOnce, Creates
      <4>3. CASE s # "news"
        BY <4>1, <4>2, <4>3, WrittenIs DEF Inv
      <4>4. CASE s = "news"
        <5>1. \A k \in job.texts : db.news[x][k] = "none"
          BY <4>1, <4>4 DEF Refused
        <5> DEFINE texts == [k \in Locale |-> IF k \in job.texts THEN "source" ELSE db.news[x][k]]
                   n == [db.news EXCEPT ![x] = texts]
        <5>2. db' = [db EXCEPT !.news = n]
          BY <4>1, <4>4 DEF Written, NewsWritten
        <5>3. a = x => l \notin job.texts
          BY <5>1
        <5>4. n[a][l] = "edited"
          <6>1. CASE a = x
            BY <5>3, <6>1 DEF Inv, DbType, DbIs
          <6>2. CASE a # x
            <7> HIDE DEF texts
            <7> QED BY <6>2 DEF Inv, DbType, DbIs
          <6> QED BY <6>1, <6>2
        <5> HIDE DEF n
        <5> QED BY <5>2, <5>4 DEF Inv, DbType, DbIs
      <4> QED BY <4>3, <4>4
    <3> QED BY <3>1, <3>2
  <2>3. ASSUME NEW b \in ToSet(NewsRows), RemoveNews(b) PROVE db'.news[a][l] = "edited"
    <3>1. db'.news = [db.news EXCEPT ![b] = NoNews]
      BY <2>3 DEF RemoveNews, Inv, DbType, DbIs
    <3> QED BY <3>1 DEF Inv, DbType, DbIs
  <2>4. ASSUME NEW b \in ToSet(NewsRows), NEW k \in Locale, EditNews(b, k)
        PROVE  db'.news[a][l] = "edited"
    <3>1. db'.news = [db.news EXCEPT ![b][k] = "edited"]
      BY <2>4 DEF EditNews, Inv, DbType, DbIs
    <3> QED BY <3>1 DEF Inv, DbType, DbIs
  <2>5. ASSUME NEW p, Upload(p) PROVE db'.news = db.news
    <3>1. \E q : db' = [db EXCEPT !.player = q]
      BY <2>5 DEF Upload
    <3> QED BY <3>1 DEF Inv, DbType, DbIs
  <2>6. CASE NewHour \/ Restart \/ \E x : Expire(x)
    BY <2>1, <2>6 DEF NewHour, Restart, Expire
  <2>7. ASSUME NEW r \in Request,
               \/ Step(r) \/ ReadFails(r) \/ OutOfTime(r) \/ NotReceived(r) \/ StartPhotos(r)
               \/ \E s \in Scope : Start(r, s) \/ DryRun(r, s)
        PROVE  Write(r) \/ db' = db
    BY <2>7 DEF Step, Read, End, ReadFails, OutOfTime, NotReceived, StartPhotos, Start, DryRun,
         Begin, LookAtTournament, LookAtNames, LookAtPlayer, LookAtVideo, LookAtMatch,
         LookAtNews, LookAtClub, LoadPhoto, LookOnly
  <2> QED BY <2>1, <2>2, <2>3, <2>4, <2>5, <2>6, <2>7 DEF Next
<1> QED BY <1>1, Invariance, PTL DEF Spec, EditedTextStays

=============================================================================
