------------------------- MODULE AnnouncementsProofs -------------------------
(***************************************************************************)
(* Proof that the queue of announcements posts nothing twice, for any      *)
(* number of matches, results and news, any length of the queue, any       *)
(* number of attempts and any number of results the API keeps.             *)
(*                                                                         *)
(* A result is safe because it is in `sent` from its post on, until it is  *)
(* pushed out of it and its posts are counted anew; news are because a     *)
(* piece of news is in one place at a time: still to be published, once in *)
(* the queue, or being sent.                                               *)
(***************************************************************************)
EXTENDS Announcements, TLAPS

Subject == Match \cup News
Job == [what : Subject, old : BOOLEAN]
LookingWork == [at : {"looking"}, what : Match, since : SUBSET Result]
CountingWork == [at : {"counting"}, what : Match, of : Result, since : SUBSET Result]
SendingWork == [at : {"sending"}, what : Subject, text : Text, tries : Nat,
                since : SUBSET Result]
Work == {Idle, Over} \cup LookingWork \cup CountingWork \cup SendingWork
Rating == Result \cup {None}

Types ==
    /\ result \in [Match -> Rating] /\ cache \in [Match -> Rating]
    /\ jobs \in Seq(Job) /\ work \in [Who -> Work]
    /\ unsaid \subseteq News /\ posts \in [Text -> Nat] /\ sent \in Seq(Text)

Holds(js, x) == \E i \in DOMAIN js : js[i].what = x
NewsDistinct(js) ==
    \A i, j \in DOMAIN js : js[i].what = js[j].what /\ js[i].what \in News => i = j

Sends(t) == work["sender"].at = "sending" /\ work["sender"].text = t
Pending(a) == a \in unsaid \/ Holds(jobs, a) \/ Sends(a)

(* A piece of news is in one place. *)
InOnePlace ==
    /\ NewsDistinct(jobs)
    /\ \A a \in News : /\ ~(a \in unsaid /\ Holds(jobs, a))
                       /\ ~(a \in unsaid /\ Sends(a))
                       /\ ~(Holds(jobs, a) /\ Sends(a))

(* What was posted, and not forgotten since, is over.                      *)
Counted ==
    \A t \in Text \ unsure :
        \/ posts[t] = 0
        \/ /\ posts[t] = 1
           /\ t \in News => ~Pending(t)
           /\ t \notin News => t \in Known /\ ~Sends(t)

Inv == Types /\ InOnePlace /\ Counted

----------------------------------------------------------------------------
(* Queues *)

(* The rest of a queue, and what its head is (drain, jobs.shift).          *)
LEMMA TailFacts ==
    ASSUME NEW js \in Seq(Job), js # <<>>, NewsDistinct(js)
    PROVE  /\ Tail(js) \in Seq(Job) /\ NewsDistinct(Tail(js))
           /\ \A x : Holds(Tail(js), x) => Holds(js, x)
           /\ Head(js) \in Job /\ Holds(js, Head(js).what)
           /\ Head(js).what \in News => ~Holds(Tail(js), Head(js).what)
<1>1. Tail(js) \in Seq(Job) /\ Head(js) \in Job /\ Head(js) = js[1] /\ 1 \in DOMAIN js
  OBVIOUS
<1>2. \A i \in DOMAIN Tail(js) : i + 1 \in DOMAIN js /\ Tail(js)[i] = js[i + 1] /\ i \in Nat /\ i > 0
  OBVIOUS
<1>3. NewsDistinct(Tail(js))
  <2> SUFFICES ASSUME NEW i \in DOMAIN Tail(js), NEW j \in DOMAIN Tail(js),
                      Tail(js)[i].what = Tail(js)[j].what, Tail(js)[i].what \in News
               PROVE  i = j
    BY DEF NewsDistinct
  <2>1. i + 1 = j + 1
    BY <1>2 DEF NewsDistinct
  <2> QED BY <1>2, <2>1
<1>4. ASSUME NEW x, Holds(Tail(js), x) PROVE Holds(js, x)
  BY <1>2, <1>4 DEF Holds
<1>5. Holds(js, Head(js).what)
  BY <1>1 DEF Holds
<1>6. ASSUME Head(js).what \in News, Holds(Tail(js), Head(js).what) PROVE FALSE
  <2>1. PICK i \in DOMAIN Tail(js) : Tail(js)[i].what = Head(js).what
    BY <1>6 DEF Holds
  <2>2. i + 1 = 1
    BY <1>1, <1>2, <1>6, <2>1 DEF NewsDistinct
  <2> QED BY <1>2, <2>2
<1> QED BY <1>1, <1>3, <1>4, <1>5, <1>6

(* A queue with one more job at its end (jobs.push).                       *)
LEMMA AppendFacts ==
    ASSUME NEW js \in Seq(Job), NewsDistinct(js), NEW x \in Subject,
           x \in News => ~Holds(js, x), NEW q, q = Append(js, [what |-> x, old |-> FALSE])
    PROVE  /\ q \in Seq(Job) /\ q # <<>> /\ NewsDistinct(q)
           /\ \A y : Holds(q, y) => Holds(js, y) \/ y = x
<1>1. [what |-> x, old |-> FALSE] \in Job
  BY DEF Job
<1>2. q \in Seq(Job) /\ q # <<>>
  BY <1>1
<1>3. \A i \in DOMAIN q :
          \/ i \in DOMAIN js /\ q[i] = js[i]
          \/ i = Len(js) + 1 /\ q[i].what = x
  BY <1>1
<1>4. ASSUME NEW y, Holds(q, y) PROVE Holds(js, y) \/ y = x
  BY <1>3, <1>4 DEF Holds
<1>5. NewsDistinct(q)
  <2> SUFFICES ASSUME NEW i \in DOMAIN q, NEW j \in DOMAIN q,
                      q[i].what = q[j].what, q[i].what \in News
               PROVE  i = j
    BY DEF NewsDistinct
  <2>1. CASE i \in DOMAIN js /\ q[i] = js[i] /\ j \in DOMAIN js /\ q[j] = js[j]
    BY <2>1 DEF NewsDistinct
  <2>2. CASE q[i].what = x /\ j \in DOMAIN js /\ q[j] = js[j]
    BY <2>2 DEF Holds
  <2>3. CASE q[j].what = x /\ i \in DOMAIN js /\ q[i] = js[i]
    BY <2>3 DEF Holds
  <2> QED BY <1>3, <2>1, <2>2, <2>3
<1> QED BY <1>2, <1>4, <1>5

(* The queue after a job was put into it, room made for it (enqueue).      *)
LEMMA PushedFacts ==
    ASSUME Inv, NEW x \in Subject, x \in News => ~Holds(jobs, x)
    PROVE  /\ Pushed(x) \in Seq(Job) /\ Pushed(x) # <<>> /\ NewsDistinct(Pushed(x))
           /\ \A y : Holds(Pushed(x), y) => Holds(jobs, y) \/ y = x
<1>1. jobs \in Seq(Job) /\ NewsDistinct(jobs)
  BY DEF Inv, Types, InOnePlace
<1>2. /\ Room(jobs) \in Seq(Job) /\ NewsDistinct(Room(jobs))
      /\ \A y : Holds(Room(jobs), y) => Holds(jobs, y)
  <2>1. CASE Len(jobs) >= QueueMax
    <3>1. jobs # <<>>
      BY <1>1, <2>1, AnnouncementsAssumption
    <3>2. Room(jobs) = Tail(jobs)
      BY <2>1 DEF Room
    <3> QED BY <1>1, <3>1, <3>2, TailFacts
  <2>2. CASE ~(Len(jobs) >= QueueMax)
    BY <1>1, <2>2 DEF Room
  <2> QED BY <2>1, <2>2
<1>3. x \in News => ~Holds(Room(jobs), x)
  BY <1>2
<1>4. Pushed(x) = Append(Room(jobs), [what |-> x, old |-> FALSE])
  BY DEF Pushed
<1>5. /\ Pushed(x) \in Seq(Job) /\ Pushed(x) # <<>> /\ NewsDistinct(Pushed(x))
      /\ \A y : Holds(Pushed(x), y) => Holds(Room(jobs), y) \/ y = x
  BY <1>2, <1>3, <1>4, AppendFacts
<1> QED BY <1>2, <1>5

----------------------------------------------------------------------------
(* Work *)

LEMMA TextFacts ==
    ASSUME NEW m \in Match, NEW r \in Result
    PROVE  <<m, r>> \in Text /\ <<m, r>> \notin News /\ m \notin News
BY AnnouncementsAssumption DEF Text

(* Whoever is done with a job rests or goes on to the next.                *)
LEMMA AfterFacts == \A w : After(w) \in {Idle, Over} /\ After(w) \in Work /\ After(w).at # "sending"
BY DEF After, Idle, Over, Work

(* A rating is sent if it was not before (sendMatch).                      *)
LEMMA RatedFacts ==
    ASSUME NEW w \in Who, NEW m \in Match, NEW r \in Result, NEW since \in SUBSET Result,
           NEW x, x = Rated(w, m, r, since)
    PROVE  /\ x \in Work
           /\ w = "sender" /\ x.at = "sending" => x.text \in Text \ News /\ x.text \notin Known
<1>1. CASE x = After(w)
  BY <1>1, AfterFacts
<1>2. CASE /\ w # "screen" /\ IsNew(w, <<m, r>>)
           /\ x = [at |-> "sending", what |-> m, text |-> <<m, r>>, tries |-> 0, since |-> since]
  <2>1. x \in SendingWork
    BY <1>2, TextFacts DEF SendingWork, Subject
  <2>2. x.text = <<m, r>>
    BY <1>2
  <2>3. w = "sender" => <<m, r>> \notin Known
    BY <1>2 DEF IsNew
  <2> QED BY <2>1, <2>2, <2>3, TextFacts DEF Work
<1> QED BY <1>1, <1>2 DEF Rated, Sending

(* A job begins: the sender sends the news it was given, or a result that  *)
(* is new (job.run, sendMatch).                                            *)
LEMMA BegunFacts ==
    ASSUME Inv, NEW w \in Who, NEW what \in Subject, Begun(w, what)
    PROVE  /\ cache' \in [Match -> Rating] /\ work' \in [Who -> Work]
           /\ w = "sender" => \A t : Sends(t)' =>
                 \/ t = what /\ t \in News
                 \/ t \in Text \ News /\ t \notin Known
           /\ w # "sender" => \A t : Sends(t)' <=> Sends(t)
<1> USE DEF Inv, Types
<1>1. /\ "sender" \in Who /\ work \in [Who -> Work] /\ cache \in [Match -> Rating]
  BY DEF Who
<1>2. SUFFICES ASSUME NEW x \in Work, work' = [work EXCEPT ![w] = x],
                      cache' \in [Match -> Rating],
                      w = "sender" /\ x.at = "sending" =>
                          \/ x.text = what /\ what \in News
                          \/ x.text \in Text \ News /\ x.text \notin Known
               PROVE  /\ work' \in [Who -> Work]
                      /\ w = "sender" => \A t : Sends(t)' =>
                            \/ t = what /\ t \in News
                            \/ t \in Text \ News /\ t \notin Known
                      /\ w # "sender" => \A t : Sends(t)' <=> Sends(t)
  <2>1. CASE what \in News
    <3> DEFINE x == [at |-> "sending", what |-> what, text |-> what, tries |-> 0, since |-> {}]
    <3>1. x \in Work /\ x.text = what
      BY <2>1 DEF Work, SendingWork, Text, Subject
    <3>2. work' = [work EXCEPT ![w] = x] /\ cache' \in [Match -> Rating]
      BY <1>1, <2>1 DEF Begun, Sending
    <3> HIDE DEF x
    <3> QED BY <1>2, <2>1, <3>1, <3>2
  <2>2. CASE what \notin News
    <3>1. what \in Match
      BY <2>2 DEF Subject
    <3>2. cache' \in [Match -> Rating]
      BY <1>1, <2>2 DEF Begun, Forgotten, Rating
    <3>3. Standing(what) \in SUBSET Result
      BY <3>1 DEF Standing, Rating
    <3>4. CASE cache'[what] # None
      <4>1. cache'[what] \in Result
        BY <3>1, <3>2, <3>4 DEF Rating
      <4>2. work' = [work EXCEPT ![w] = Rated(w, what, cache'[what], Standing(what))]
        BY <2>2, <3>4 DEF Begun
      <4> QED BY <1>2, <3>1, <3>2, <3>3, <4>1, <4>2, RatedFacts
    <3>5. CASE cache'[what] = None
      <4> DEFINE x == [at |-> "looking", what |-> what, since |-> Standing(what)]
      <4>1. x \in Work /\ x.at # "sending"
        BY <3>1, <3>3 DEF Work, LookingWork
      <4>2. work' = [work EXCEPT ![w] = x]
        BY <2>2, <3>5 DEF Begun
      <4> HIDE DEF x
      <4> QED BY <1>2, <3>2, <4>1, <4>2
    <3> QED BY <3>4, <3>5
  <2> QED BY <2>1, <2>2
<1>3. work' \in [Who -> Work]
  BY <1>1, <1>2
<1>4. w = "sender" => work'["sender"] = x
  BY <1>1, <1>2
<1>5. w # "sender" => work'["sender"] = work["sender"]
  BY <1>1, <1>2
<1> QED BY <1>2, <1>3, <1>4, <1>5 DEF Sends

----------------------------------------------------------------------------
(* Steps *)

(* What was posted stays over in a step that posts nothing, if no news     *)
(* come back and no result is sent that was sent before.                   *)
LEMMA StillCounted ==
    ASSUME Counted, UNCHANGED <<posts, unsure>>, Known \subseteq Known',
           \A a \in News : Pending(a)' => Pending(a),
           \A t \in Text \ News : Sends(t)' => Sends(t) \/ t \notin Known
    PROVE  Counted'
BY DEF Counted

(* A step that leaves the queue and what is sent alone.                    *)
LEMMA QuietStep ==
    ASSUME Inv, UNCHANGED <<jobs, unsaid, posts, unsure, sent>>,
           \A t : Sends(t)' => Sends(t) \/ (t \in Text \ News /\ t \notin Known)
    PROVE  InOnePlace' /\ Counted'
<1>1. NewsDistinct(jobs)' /\ \A x : Holds(jobs, x)' <=> Holds(jobs, x)
  BY DEF Inv, InOnePlace, NewsDistinct, Holds
<1>2. \A a \in News : Sends(a)' => Sends(a)
  OBVIOUS
<1>3. InOnePlace'
  BY <1>1, <1>2 DEF Inv, InOnePlace
<1>4. \A a \in News : Pending(a)' => Pending(a)
  BY <1>1, <1>2 DEF Pending
<1>5. Known \subseteq Known'
  BY DEF Known
<1>6. Counted'
  BY <1>4, <1>5, StillCounted DEF Inv
<1> QED BY <1>3, <1>6

LEMMA InitInv == Init => Inv
<1> SUFFICES ASSUME Init PROVE Inv
  OBVIOUS
<1>1. Types
  BY DEF Init, Types, Work, Rating
<1>2. work["sender"].at # "sending"
  BY DEF Init, Who, Idle
<1>3. InOnePlace
  BY <1>2 DEF Init, InOnePlace, NewsDistinct, Holds, Sends
<1>4. Counted
  BY DEF Init, Counted
<1> QED BY <1>1, <1>3, <1>4 DEF Inv

(* Matches end and are undone: work only learns of it.                     *)
LEMMA FinishStep == ASSUME Inv, NEW m \in Match, NEW r \in Result, Finish(m, r) PROVE Inv'
<1>1. work \in [Who -> Work] /\ result \in [Match -> Rating]
  BY DEF Inv, Types
<1>2. ASSUME NEW w \in Who, Busy(w, m)
      PROVE  /\ [work[w] EXCEPT !.since = @ \cup {r}] \in Work
             /\ [work[w] EXCEPT !.since = @ \cup {r}].at = work[w].at
             /\ work[w].at = "sending" => [work[w] EXCEPT !.since = @ \cup {r}].text = work[w].text
  <2>1. work[w] \in LookingWork \cup CountingWork \cup SendingWork
    BY <1>1, <1>2 DEF Busy, Work
  <2>2. CASE work[w] \in LookingWork
    <3>1. [work[w] EXCEPT !.since = @ \cup {r}] \in LookingWork /\ work[w].at = "looking"
      BY <2>2 DEF LookingWork
    <3> QED BY <2>2, <3>1 DEF Work, LookingWork
  <2>3. CASE work[w] \in CountingWork
    <3>1. [work[w] EXCEPT !.since = @ \cup {r}] \in CountingWork /\ work[w].at = "counting"
      BY <2>3 DEF CountingWork
    <3> QED BY <2>3, <3>1 DEF Work, CountingWork
  <2>4. CASE work[w] \in SendingWork
    <3>1. [work[w] EXCEPT !.since = @ \cup {r}] \in SendingWork
      BY <2>4 DEF SendingWork
    <3> QED BY <2>4, <3>1 DEF Work, SendingWork
  <2> QED BY <2>1, <2>2, <2>3, <2>4
<1>3. work' \in [Who -> Work]
  BY <1>1, <1>2 DEF Finish
<1>4. \A t : Sends(t)' => Sends(t)
  BY <1>1, <1>2 DEF Finish, Sends, Who
<1>5. result' \in [Match -> Rating]
  BY <1>1 DEF Finish, Rating
<1>6. Types'
  BY <1>3, <1>5 DEF Inv, Types, Finish
<1>7. InOnePlace' /\ Counted'
  BY <1>4, QuietStep DEF Finish
<1> QED BY <1>6, <1>7 DEF Inv

LEMMA UndoStep == ASSUME Inv, NEW m \in Match, Undo(m) \/ Verify(m) PROVE Inv'
<1>1. result' \in [Match -> Rating]
  BY DEF Inv, Types, Undo, Verify, Rating
<1>2. UNCHANGED <<jobs, work, cache, sent, unsaid, posts, unsure>>
  BY DEF Undo, Verify, memory, ghosts
<1>3. Types'
  BY <1>1, <1>2 DEF Inv, Types
<1>4. \A t : Sends(t)' => Sends(t)
  BY <1>2 DEF Sends
<1>5. InOnePlace' /\ Counted'
  BY <1>2, <1>4, QuietStep
<1> QED BY <1>3, <1>5 DEF Inv

(* A job taken from a queue begins: what is left of the queue and what is  *)
(* sent are in one place, and new to the channel (drain).                  *)
LEMMA TakeStep ==
    ASSUME Inv, NEW js \in Seq(Job), js # <<>>, NewsDistinct(js),
           ~\E t : Sends(t),
           \A a \in News : Holds(js, a) => Pending(a) /\ a \notin unsaid',
           unsaid' \subseteq unsaid, jobs' = Tail(js),
           \A t : Sends(t)' =>
              \/ t = Head(js).what /\ t \in News
              \/ t \in Text \ News /\ t \notin Known,
           UNCHANGED <<posts, unsure, sent>>
    PROVE  InOnePlace' /\ Counted'
<1>1. /\ NewsDistinct(Tail(js)) /\ \A x : Holds(Tail(js), x) => Holds(js, x)
      /\ Holds(js, Head(js).what)
      /\ Head(js).what \in News => ~Holds(Tail(js), Head(js).what)
  BY TailFacts
<1>2. NewsDistinct(jobs)' /\ \A x : Holds(jobs, x)' <=> Holds(Tail(js), x)
  BY <1>1 DEF NewsDistinct, Holds
<1>3. \A a \in News : Sends(a)' => a = Head(js).what
  OBVIOUS
<1>4. InOnePlace'
  BY <1>1, <1>2, <1>3 DEF InOnePlace
<1>5. \A a \in News : Pending(a)' => Pending(a)
  BY <1>1, <1>2, <1>3 DEF Pending
<1>6. Known \subseteq Known'
  BY DEF Known
<1>7. Counted'
  BY <1>5, <1>6, StillCounted DEF Inv
<1> QED BY <1>4, <1>7

LEMMA EnqueueStep ==
    ASSUME Inv, NEW x \in Subject, Enqueue(x),
           x \in News => x \in unsaid /\ x \notin unsaid', unsaid' \subseteq unsaid,
           UNCHANGED result
    PROVE  Inv'
<1>1. x \in News => ~Holds(jobs, x) /\ Pending(x) /\ ~Sends(x)
  BY DEF Inv, InOnePlace, Pending
<1>2. /\ Pushed(x) \in Seq(Job) /\ Pushed(x) # <<>> /\ NewsDistinct(Pushed(x))
      /\ \A y : Holds(Pushed(x), y) => Holds(jobs, y) \/ y = x
  BY <1>1, PushedFacts
<1>3. \A a \in News : Holds(Pushed(x), a) => Pending(a) /\ a \notin unsaid' /\ ~Sends(a)
  BY <1>1, <1>2 DEF Inv, InOnePlace, Pending
<1>4. UNCHANGED <<sent, posts, unsure>>
  BY DEF Enqueue
<1>5. CASE work["sender"] = Idle
  <2>1. jobs' = Tail(Pushed(x)) /\ Begun("sender", Head(Pushed(x)).what)
    BY <1>5 DEF Enqueue
  <2>2. Tail(Pushed(x)) \in Seq(Job) /\ Head(Pushed(x)).what \in Subject
    BY <1>2, TailFacts DEF Job
  <2>3. /\ cache' \in [Match -> Rating] /\ work' \in [Who -> Work]
        /\ \A t : Sends(t)' =>
              \/ t = Head(Pushed(x)).what /\ t \in News
              \/ t \in Text \ News /\ t \notin Known
    <3>1. "sender" \in Who
      BY DEF Who
    <3> QED BY <2>1, <2>2, <3>1, BegunFacts
  <2>4. ~\E t : Sends(t)
    BY <1>5 DEF Sends, Idle
  <2>5. InOnePlace' /\ Counted'
    BY <1>2, <1>3, <1>4, <2>1, <2>3, <2>4, TakeStep
  <2> QED BY <1>4, <2>1, <2>2, <2>3, <2>5 DEF Inv, Types
<1>6. CASE work["sender"] # Idle
  <2>1. jobs' = Pushed(x) /\ UNCHANGED <<work, cache>>
    BY <1>6 DEF Enqueue
  <2>2. /\ NewsDistinct(jobs)' /\ \A y : Holds(jobs, y)' <=> Holds(Pushed(x), y)
        /\ \A t : Sends(t)' <=> Sends(t)
    BY <1>2, <2>1 DEF NewsDistinct, Holds, Sends
  <2>3. InOnePlace'
    BY <1>3, <2>2 DEF Inv, InOnePlace
  <2>4. \A a \in News : Pending(a)' => Pending(a)
    BY <1>3, <2>2 DEF Pending
  <2>5. Known \subseteq Known'
    BY <1>4 DEF Known
  <2>6. Counted'
    BY <1>4, <2>2, <2>4, <2>5, StillCounted DEF Inv
  <2> QED BY <1>2, <1>4, <2>1, <2>3, <2>6 DEF Inv, Types
<1> QED BY <1>5, <1>6

LEMMA DrainStep == ASSUME Inv, Drain PROVE Inv'
<1>1. /\ work["sender"] = Over
      /\ UNCHANGED <<result, unsaid, sent, posts, unsure>>
  BY DEF Drain, database
<1>2. ~\E t : Sends(t)
  BY <1>1 DEF Sends, Over
<1>3. work \in [Who -> Work] /\ cache \in [Match -> Rating] /\ jobs \in Seq(Job) /\ NewsDistinct(jobs)
  BY DEF Inv, Types, InOnePlace
<1>4. CASE jobs = <<>>
  <2>1. /\ work' = [work EXCEPT !["sender"] = Idle] /\ UNCHANGED <<jobs, cache>>
    BY <1>4 DEF Drain
  <2>2. work' \in [Who -> Work] /\ work'["sender"] = Idle
    BY <1>3, <2>1 DEF Who, Work
  <2>3. \A t : ~Sends(t)'
    BY <2>2 DEF Sends, Idle
  <2>4. InOnePlace' /\ Counted'
    BY <1>1, <2>1, <2>3, QuietStep
  <2> QED BY <1>1, <2>1, <2>2, <2>4 DEF Inv, Types
<1>5. CASE jobs # <<>>
  <2>1. jobs' = Tail(jobs)
    BY <1>5 DEF Drain
  <2>2. Tail(jobs) \in Seq(Job) /\ Head(jobs).what \in Subject
    BY <1>3, <1>5, TailFacts DEF Job
  <2>3. \A a \in News : Holds(jobs, a) => Pending(a) /\ a \notin unsaid'
    BY <1>1 DEF Inv, InOnePlace, Pending
  <2>4. /\ cache' \in [Match -> Rating] /\ work' \in [Who -> Work]
        /\ \A t : Sends(t)' =>
              \/ t = Head(jobs).what /\ t \in News
              \/ t \in Text \ News /\ t \notin Known
    <3>1. CASE Head(jobs).old
      <4>1. work' = [work EXCEPT !["sender"] = Over] /\ cache' = cache
        BY <1>5, <3>1 DEF Drain
      <4>2. work' \in [Who -> Work] /\ work'["sender"] = Over
        BY <1>3, <4>1 DEF Who, Work
      <4> QED BY <1>3, <4>1, <4>2 DEF Sends, Over
    <3>2. CASE ~Head(jobs).old
      <4>1. Begun("sender", Head(jobs).what)
        BY <1>5, <3>2 DEF Drain
      <4>2. "sender" \in Who
        BY DEF Who
      <4> QED BY <2>2, <4>1, <4>2, BegunFacts
    <3> QED BY <3>1, <3>2
  <2>5. InOnePlace' /\ Counted'
    BY <1>1, <1>2, <1>3, <1>5, <2>1, <2>3, <2>4, TakeStep
  <2> QED BY <1>1, <2>1, <2>2, <2>4, <2>5 DEF Inv, Types
<1> QED BY <1>4, <1>5

(* Jobs grow old.                                                          *)
LEMMA WaitStep == ASSUME Inv, Wait PROVE Inv'
<1>1. /\ jobs' = [i \in DOMAIN jobs |-> [jobs[i] EXCEPT !.old = TRUE]]
      /\ UNCHANGED <<result, unsaid, work, cache, sent, posts, unsure>>
  BY DEF Wait, ghosts
<1>2. jobs \in Seq(Job)
  BY DEF Inv, Types
<1>3. \A i \in DOMAIN jobs : [jobs[i] EXCEPT !.old = TRUE] \in Job
                            /\ [jobs[i] EXCEPT !.old = TRUE].what = jobs[i].what
  <2> SUFFICES ASSUME NEW i \in DOMAIN jobs
               PROVE  /\ [jobs[i] EXCEPT !.old = TRUE] \in Job
                      /\ [jobs[i] EXCEPT !.old = TRUE].what = jobs[i].what
    OBVIOUS
  <2>1. jobs[i] \in Job
    BY <1>2
  <2> QED BY <2>1 DEF Job
<1>4. jobs' \in Seq(Job)
  BY <1>1, <1>2, <1>3
<1>5. DOMAIN jobs' = DOMAIN jobs /\ \A i \in DOMAIN jobs : jobs'[i].what = jobs[i].what
  BY <1>1, <1>3
<1>6. NewsDistinct(jobs)' /\ \A x : Holds(jobs, x)' <=> Holds(jobs, x)
  BY <1>5 DEF Inv, InOnePlace, NewsDistinct, Holds
<1>7. \A t : Sends(t)' <=> Sends(t)
  BY <1>1 DEF Sends
<1>8. InOnePlace'
  BY <1>1, <1>6, <1>7 DEF Inv, InOnePlace
<1>9. \A a \in News : Pending(a)' => Pending(a)
  BY <1>1, <1>6, <1>7 DEF Pending
<1>10. Known \subseteq Known'
  BY <1>1 DEF Known
<1>11. Counted'
  BY <1>1, <1>7, <1>9, <1>10, StillCounted DEF Inv
<1> QED BY <1>1, <1>4, <1>8, <1>11 DEF Inv, Types

LEMMA NotifyStep == ASSUME Inv, NEW m \in Match, Notify(m) PROVE Inv'
<1>1. m \in Subject /\ m \notin News
  BY AnnouncementsAssumption DEF Subject
<1>2. Enqueue(m) /\ UNCHANGED <<unsaid, result>>
  BY DEF Notify, database
<1> QED BY <1>1, <1>2, EnqueueStep

LEMMA PublishStep == ASSUME Inv, NEW a \in News, Publish(a) PROVE Inv'
<1>1. a \in Subject /\ a \in unsaid /\ a \notin unsaid' /\ unsaid' \subseteq unsaid
  BY DEF Subject, Publish
<1>2. Enqueue(a) /\ UNCHANGED result
  BY DEF Publish
<1> QED BY <1>1, <1>2, EnqueueStep

(* A test, a screen and the age of a rating do not touch the sender.       *)
LEMMA TestStep == ASSUME Inv, NEW m \in Match, Test(m) PROVE Inv'
<1>1. /\ "test" \in Who /\ m \in Subject /\ Begun("test", m)
      /\ UNCHANGED <<result, unsaid, jobs, sent, posts, unsure>>
  BY DEF Who, Subject, Test, ghosts
<1>2. /\ cache' \in [Match -> Rating] /\ work' \in [Who -> Work]
      /\ \A t : Sends(t)' <=> Sends(t)
  BY <1>1, BegunFacts
<1>3. InOnePlace' /\ Counted'
  BY <1>1, <1>2, QuietStep
<1> QED BY <1>1, <1>2, <1>3 DEF Inv, Types

LEMMA ScreenStep == ASSUME Inv, NEW m \in Match, Open(m) \/ Expire(m) PROVE Inv'
<1>1. UNCHANGED <<result, unsaid, jobs, sent, posts, unsure>>
  BY DEF Open, Expire, database, ghosts
<1>2. work \in [Who -> Work] /\ cache \in [Match -> Rating]
  BY DEF Inv, Types
<1>3. cache' \in [Match -> Rating]
  BY <1>2 DEF Open, Expire, Rating
<1>4. work' \in [Who -> Work] /\ work'["sender"] = work["sender"]
  <2>1. CASE Open(m)
    <3>1. [at |-> "looking", what |-> m, since |-> {}] \in Work
      BY DEF Work, LookingWork
    <3> QED BY <1>2, <2>1, <3>1 DEF Open, Who
  <2> QED BY <1>2, <2>1 DEF Expire
<1>5. \A t : Sends(t)' <=> Sends(t)
  BY <1>4 DEF Sends
<1>6. InOnePlace' /\ Counted'
  BY <1>1, <1>5, QuietStep
<1> QED BY <1>1, <1>3, <1>4, <1>6 DEF Inv, Types

(* The kinds of work, by what they are at.                                 *)
LEMMA WorkFacts ==
    ASSUME NEW x \in Work
    PROVE  /\ x.at = "looking" => x \in LookingWork
           /\ x.at = "counting" => x \in CountingWork
           /\ x.at = "sending" => x \in SendingWork
BY DEF Work, Idle, Over, LookingWork, CountingWork, SendingWork

(* One of them goes on, and sends nothing, or a rating that is new.        *)
LEMMA GoOn ==
    ASSUME Inv, NEW w \in Who, NEW x \in Work, work' = [work EXCEPT ![w] = x],
           w = "sender" /\ x.at = "sending" =>
               \/ work[w].at = "sending" /\ x.text = work[w].text
               \/ x.text \in Text \ News /\ x.text \notin Known
    PROVE  /\ work' \in [Who -> Work]
           /\ \A t : Sends(t)' => Sends(t) \/ (t \in Text \ News /\ t \notin Known)
<1>1. work \in [Who -> Work] /\ "sender" \in Who
  BY DEF Inv, Types, Who
<1>2. work' \in [Who -> Work]
  BY <1>1
<1>3. CASE w = "sender"
  BY <1>1, <1>3 DEF Sends
<1>4. CASE w # "sender"
  BY <1>1, <1>4 DEF Sends
<1> QED BY <1>2, <1>3, <1>4

LEMMA LookStep == ASSUME Inv, NEW w \in Who, Look(w) PROVE Inv'
<1>1. /\ work[w].at = "looking"
      /\ UNCHANGED <<result, unsaid, jobs, cache, sent, posts, unsure>>
  BY DEF Look, database, ghosts
<1>2. work[w] \in LookingWork /\ result \in [Match -> Rating]
  BY <1>1, WorkFacts DEF Inv, Types
<1>3. PICK x \in Work : work' = [work EXCEPT ![w] = x] /\ x.at # "sending"
  <2>1. CASE result[work[w].what] = None
    <3>1. work' = [work EXCEPT ![w] = After(w)]
      BY <2>1 DEF Look
    <3> QED BY <3>1, AfterFacts
  <2>2. CASE result[work[w].what] # None
    <3> DEFINE x == [at |-> "counting", what |-> work[w].what, of |-> result[work[w].what],
                     since |-> work[w].since]
    <3>1. x \in Work /\ x.at # "sending"
      BY <1>2, <2>2 DEF Work, LookingWork, CountingWork, Rating
    <3>2. work' = [work EXCEPT ![w] = x]
      BY <2>2 DEF Look
    <3> HIDE DEF x
    <3> QED BY <3>1, <3>2
  <2> QED BY <2>1, <2>2
<1>4. /\ work' \in [Who -> Work]
      /\ \A t : Sends(t)' => Sends(t) \/ (t \in Text \ News /\ t \notin Known)
  BY <1>3, GoOn
<1>5. InOnePlace' /\ Counted'
  BY <1>1, <1>4, QuietStep
<1> QED BY <1>1, <1>4, <1>5 DEF Inv, Types

LEMMA CountStep == ASSUME Inv, NEW w \in Who, Count(w) PROVE Inv'
<1>1. /\ work[w].at = "counting"
      /\ UNCHANGED <<result, unsaid, jobs, sent, posts, unsure>>
      /\ cache' = [cache EXCEPT ![work[w].what] = work[w].of]
      /\ work' = [work EXCEPT ![w] = Rated(w, work[w].what, work[w].of, work[w].since)]
  BY DEF Count, database, ghosts
<1>2. /\ work[w].what \in Match /\ work[w].of \in Result /\ work[w].since \in SUBSET Result
      /\ cache \in [Match -> Rating]
  BY <1>1, WorkFacts DEF Inv, Types, CountingWork
<1>3. PICK x : x = Rated(w, work[w].what, work[w].of, work[w].since)
  OBVIOUS
<1>4. /\ x \in Work
      /\ w = "sender" /\ x.at = "sending" => x.text \in Text \ News /\ x.text \notin Known
  BY <1>2, <1>3, RatedFacts
<1>5. /\ work' \in [Who -> Work]
      /\ \A t : Sends(t)' => Sends(t) \/ (t \in Text \ News /\ t \notin Known)
  BY <1>1, <1>3, <1>4, GoOn
<1>6. cache' \in [Match -> Rating]
  BY <1>1, <1>2 DEF Rating
<1>7. InOnePlace' /\ Counted'
  BY <1>1, <1>5, QuietStep
<1> QED BY <1>1, <1>5, <1>6, <1>7 DEF Inv, Types

(* Whoever has sent, or gives up, is done.                                 *)
LEMMA DoneFacts ==
    ASSUME Inv, NEW w \in Who, work' = [work EXCEPT ![w] = After(w)]
    PROVE  /\ work' \in [Who -> Work]
           /\ w = "sender" => \A t : ~Sends(t)'
           /\ w # "sender" => \A t : Sends(t)' <=> Sends(t)
<1>1. work \in [Who -> Work] /\ "sender" \in Who
  BY DEF Inv, Types, Who
<1>2. work' \in [Who -> Work] /\ work'[w] = After(w)
  BY <1>1, AfterFacts
<1>3. w # "sender" => work'["sender"] = work["sender"]
  BY <1>1
<1> QED BY <1>2, <1>3, AfterFacts DEF Sends

(* A result that is added is known, and nothing is lost but what is pushed *)
(* out (sendMatch, sentResults).                                           *)
LEMMA MemoryFacts ==
    ASSUME Inv, NEW x \in Text, sent' = Remembered(x)
    PROVE  /\ sent' \in Seq(Text)
           /\ \A t \in Known \cup ({x} \ News) : t \in PushedOut(x) \/ t \in Known'
<1>1. sent \in Seq(Text)
  BY DEF Inv, Types
<1>2. PICK more : more = Added(x)
  OBVIOUS
<1>3. more \in Seq(Text)
  BY <1>1, <1>2 DEF Added
<1>4. \A t \in Known \cup ({x} \ News) : \E i \in DOMAIN more : more[i] = t
  <2>1. CASE x \in News \cup Known
    BY <1>2, <2>1 DEF Added, Known
  <2>2. CASE x \notin News \cup Known
    <3>1. more = Append(sent, x)
      BY <1>2, <2>2 DEF Added
    <3>2. /\ \A i \in DOMAIN sent : i \in DOMAIN more /\ more[i] = sent[i]
          /\ Len(sent) + 1 \in DOMAIN more /\ more[Len(sent) + 1] = x
      BY <1>1, <3>1
    <3> QED BY <3>2 DEF Known
  <2> QED BY <2>1, <2>2
<1>5. CASE Len(more) > MemoryMax
  <2>1. sent' = Tail(more) /\ PushedOut(x) = {Head(more)}
    BY <1>2, <1>5 DEF Remembered, PushedOut
  <2>2. more # <<>>
    BY <1>3, <1>5, AnnouncementsAssumption
  <2>3. \A i \in DOMAIN more : i = 1 \/ (i - 1 \in DOMAIN Tail(more) /\ Tail(more)[i - 1] = more[i])
    BY <1>3, <2>2
  <2>4. Head(more) = more[1] /\ Tail(more) \in Seq(Text)
    BY <1>3, <2>2
  <2>5. ASSUME NEW t \in Known \cup ({x} \ News) PROVE t \in PushedOut(x) \/ t \in Known'
    <3>1. PICK i \in DOMAIN more : more[i] = t
      BY <1>4
    <3>2. CASE i = 1
      BY <2>1, <2>4, <3>1, <3>2
    <3>3. CASE i - 1 \in DOMAIN sent' /\ sent'[i - 1] = t
      BY <3>3 DEF Known
    <3> QED BY <2>1, <2>3, <3>1, <3>2, <3>3
  <2> QED BY <2>1, <2>4, <2>5
<1>6. CASE ~(Len(more) > MemoryMax)
  <2>1. sent' = more
    BY <1>2, <1>6 DEF Remembered
  <2> QED BY <1>3, <1>4, <2>1 DEF Known
<1> QED BY <1>5, <1>6

(* The post of the sender is the first of its text since it was last       *)
(* forgotten, and the last: a result is remembered, and a piece of news is *)
(* nowhere any more.  Only what is pushed out may come again, and is       *)
(* counted anew.                                                           *)
LEMMA SentStep == ASSUME Inv, NEW w \in Who, Sent(w) PROVE Inv'
<1>1. /\ work[w].at = "sending" /\ work' = [work EXCEPT ![w] = After(w)]
      /\ UNCHANGED <<result, unsaid, jobs, cache, unsure>>
      /\ sent' = Remembered(work[w].text)
  BY DEF Sent, database
<1>2. PICK x \in Text : x = work[w].text
  BY <1>1, WorkFacts DEF Inv, Types, SendingWork
<1>3. posts \in [Text -> Nat] /\ Reached(w) \in [Text -> Nat]
  BY <1>2 DEF Inv, Types, Reached
<1>4. posts' = [t \in Text |-> IF t \in PushedOut(x) THEN 0 ELSE Reached(w)[t]]
  BY <1>2 DEF Sent
<1>5. posts' \in [Text -> Nat]
  BY <1>3, <1>4
<1>6. /\ sent' \in Seq(Text)
      /\ \A t \in Known \cup ({x} \ News) : t \in PushedOut(x) \/ t \in Known'
  BY <1>1, <1>2, MemoryFacts
<1>7. /\ work' \in [Who -> Work]
      /\ \A t : Sends(t)' => Sends(t)
      /\ w = "sender" => Sends(x) /\ \A t : ~Sends(t)'
  BY <1>1, <1>2, DoneFacts DEF Sends
<1>8. NewsDistinct(jobs)' /\ \A y : Holds(jobs, y)' <=> Holds(jobs, y)
  BY <1>1 DEF Inv, InOnePlace, NewsDistinct, Holds
<1>9. InOnePlace'
  BY <1>1, <1>7, <1>8 DEF Inv, InOnePlace
<1>10. \A a \in News : Pending(a)' => Pending(a) /\ (w = "sender" => a # x)
  BY <1>1, <1>7, <1>8 DEF Inv, InOnePlace, Pending
<1>11. ASSUME NEW t \in Text \ unsure
       PROVE  \/ posts'[t] = 0
              \/ /\ posts'[t] = 1
                 /\ t \in News => ~Pending(t)'
                 /\ t \notin News => t \in Known' /\ ~Sends(t)'
  <2>1. CASE t \in PushedOut(x)
    BY <1>4, <2>1
  <2>2. CASE t \notin PushedOut(x) /\ w = "sender" /\ t = x
    <3>1. posts[t] = 0
      BY <1>7, <1>11, <2>2 DEF Inv, Counted, Pending
    <3>2. posts'[t] = 1
      BY <1>3, <1>4, <2>2, <3>1, <1>2 DEF Reached
    <3> QED BY <1>6, <1>7, <1>10, <2>2, <3>2
  <2>3. CASE t \notin PushedOut(x) /\ ~(w = "sender" /\ t = x)
    <3>1. posts'[t] = posts[t]
      BY <1>2, <1>3, <1>4, <2>3 DEF Reached
    <3>2. CASE posts[t] = 0
      BY <3>1, <3>2
    <3>3. CASE /\ posts[t] = 1
               /\ t \in News => ~Pending(t)
               /\ t \notin News => t \in Known /\ ~Sends(t)
      BY <1>6, <1>7, <1>10, <2>3, <3>1, <3>3
    <3> QED BY <1>11, <3>2, <3>3 DEF Inv, Counted
  <2> QED BY <2>1, <2>2, <2>3
<1>12. Counted'
  BY <1>1, <1>11 DEF Counted
<1> QED BY <1>1, <1>5, <1>6, <1>7, <1>9, <1>12 DEF Inv, Types

(* An attempt of the sender that reached the channel and failed makes its  *)
(* text one that may come again; no other text is touched.                 *)
LEMMA FailStep ==
    ASSUME Inv, NEW w \in Who, NEW reached \in BOOLEAN, NEW final \in BOOLEAN,
           Fail(w, reached, final)
    PROVE  Inv'
<1>1. /\ work[w].at = "sending"
      /\ UNCHANGED <<result, unsaid, jobs, cache, sent>>
  BY DEF Fail
<1>2. /\ posts \in [Text -> Nat] /\ work[w].text \in Text
      /\ work[w] \in SendingWork /\ work \in [Who -> Work]
  BY <1>1, WorkFacts DEF Inv, Types, SendingWork
<1>3. /\ work' \in [Who -> Work]
      /\ \A t : Sends(t)' => Sends(t)
  <2>1. CASE work' = [work EXCEPT ![w] = After(w)]
    BY <2>1, DoneFacts
  <2>2. CASE work' = [work EXCEPT ![w].tries = @ + 1]
    <3> DEFINE x == [work[w] EXCEPT !.tries = @ + 1]
    <3>1. x \in SendingWork /\ x.text = work[w].text
      BY <1>2 DEF SendingWork
    <3>2. work' = [work EXCEPT ![w] = x]
      BY <2>2
    <3>3. x \in Work
      BY <3>1 DEF Work
    <3> HIDE DEF x
    <3>4. work' \in [Who -> Work] /\ work'[w] = x
      BY <1>2, <3>2, <3>3
    <3>5. w # "sender" => work'["sender"] = work["sender"]
      BY <1>2, <3>2 DEF Who
    <3> QED BY <1>1, <3>1, <3>4, <3>5 DEF Sends
  <2> QED BY <2>1, <2>2 DEF Fail, GivenUp
<1>4. CASE reached /\ w = "sender"
  <2> DEFINE t0 == work["sender"].text
  <2>1. /\ posts' = [posts EXCEPT ![t0] = @ + 1] /\ posts' \in [Text -> Nat]
        /\ unsure' = unsure \cup {t0}
    BY <1>2, <1>4 DEF Fail, Reached
  <2>2. NewsDistinct(jobs)' /\ \A x : Holds(jobs, x)' <=> Holds(jobs, x)
    BY <1>1 DEF Inv, InOnePlace, NewsDistinct, Holds
  <2>3. InOnePlace'
    BY <1>1, <1>3, <2>2 DEF Inv, InOnePlace
  <2>4. \A a \in News : Pending(a)' => Pending(a)
    BY <1>1, <1>3, <2>2 DEF Pending
  <2>5. \A t \in Text \ unsure' : t \in Text \ unsure /\ posts'[t] = posts[t]
    BY <1>2, <2>1
  <2>6. Known' = Known
    BY <1>1 DEF Known
  <2>7. Counted'
    BY <1>3, <2>4, <2>5, <2>6 DEF Inv, Counted
  <2> QED BY <1>1, <1>3, <2>1, <2>3, <2>7 DEF Inv, Types
<1>5. CASE ~(reached /\ w = "sender")
  <2>1. UNCHANGED <<posts, unsure>>
    BY <1>5 DEF Fail, Reached
  <2>2. InOnePlace' /\ Counted'
    BY <1>1, <1>3, <2>1, QuietStep
  <2> QED BY <1>1, <1>3, <2>1, <2>2 DEF Inv, Types
<1> QED BY <1>4, <1>5

LEMMA RestartStep == ASSUME Inv, Restart PROVE Inv'
<1>1. /\ UNCHANGED <<result, unsaid>> /\ jobs' = <<>> /\ posts' = [t \in Text |-> 0]
      /\ work' = [w \in Who |-> Idle] /\ cache' = [m \in Match |-> None]
  BY DEF Restart
<1>2. sent' = <<>>
  BY DEF Restart
<1>3. Types'
  BY <1>1, <1>2 DEF Inv, Types, Work, Rating
<1>4. work'["sender"].at # "sending"
  BY <1>1 DEF Who, Idle
<1>5. InOnePlace'
  BY <1>1, <1>4 DEF InOnePlace, NewsDistinct, Holds, Sends
<1>6. Counted'
  BY <1>1 DEF Counted
<1> QED BY <1>3, <1>5, <1>6 DEF Inv

LEMMA StutterStep == ASSUME Inv, UNCHANGED vars PROVE Inv'
BY DEF Inv, Types, InOnePlace, Counted, NewsDistinct, Holds, Sends, Pending, Known,
       vars, database, memory, ghosts

LEMMA NextStep == Inv /\ [Next]_vars => Inv'
<1> SUFFICES ASSUME Inv, [Next]_vars PROVE Inv'
  OBVIOUS
<1>1. ASSUME NEW m \in Match, NEW r \in Result, Finish(m, r) PROVE Inv'
  BY <1>1, FinishStep
<1>2. ASSUME NEW m \in Match, Undo(m) \/ Verify(m) PROVE Inv'
  BY <1>2, UndoStep
<1>3. ASSUME NEW m \in Match, Notify(m) PROVE Inv'
  BY <1>3, NotifyStep
<1>4. ASSUME NEW m \in Match, Test(m) PROVE Inv'
  BY <1>4, TestStep
<1>5. ASSUME NEW m \in Match, Open(m) \/ Expire(m) PROVE Inv'
  BY <1>5, ScreenStep
<1>6. ASSUME NEW a \in News, Publish(a) PROVE Inv'
  BY <1>6, PublishStep
<1>7. ASSUME NEW w \in Who, Working(w) PROVE Inv'
  BY <1>7, LookStep, CountStep, SentStep DEF Working
<1>8. ASSUME NEW w \in Who, NEW reached \in BOOLEAN, NEW final \in BOOLEAN,
             Fail(w, reached, final)
      PROVE  Inv'
  BY <1>8, FailStep
<1> QED
  BY <1>1, <1>2, <1>3, <1>4, <1>5, <1>6, <1>7, <1>8,
     DrainStep, WaitStep, RestartStep, StutterStep DEF Next

(* The inductive invariant: a piece of news is in one place, and a result  *)
(* is in sentResults from its post on, until it is pushed out and its      *)
(* posts are counted anew, for every change, failure and restart (drain,   *)
(* sendMatch).                                                             *)
THEOREM Invariance == Spec => []Inv
<1>1. Init => Inv
  BY InitInv
<1>2. Inv /\ [Next]_vars => Inv'
  BY NextStep
<1> QED BY <1>1, <1>2, PTL DEF Spec

(* "dublikat yubormaydi": however often matches are undone, finished again *)
(* and verified, however the queue overflows and the calls fail, a text    *)
(* whose answer was not lost is posted once, until the API restarts or     *)
(* forgets it, which it does with the oldest of its results when there are *)
(* more than MemoryMax (sentResults, enqueue, drain and call).             *)
THEOREM NothingIsPostedTwice == Spec => []NothingTwice
<1>1. Inv => NothingTwice
  BY DEF Inv, Types, Counted, NothingTwice
<1> QED BY <1>1, Invariance, PTL

----------------------------------------------------------------------------
(* Only what stood is posted: a job knows every result its match has had   *)
(* since it began, and its rating is one of them.                          *)

Knows(x, res) ==
    /\ x.at = "looking" => {res[x.what]} \ {None} \subseteq x.since
    /\ x.at = "counting" => x.of \in x.since
    /\ x.at = "sending" /\ x.what \in Match => x.text[2] \in x.since

AllKnow == \A w \in {"sender", "test"} : Knows(work[w], result)

LEMMA RestKnows ==
    ASSUME NEW res
    PROVE  Knows(Idle, res) /\ Knows(Over, res) /\ \A w : Knows(After(w), res)
BY DEF Knows, Idle, Over, After

(* A job that begins forgets the rating the screens left and looks.        *)
LEMMA BegunKnows ==
    ASSUME Inv, NEW w \in Who, NEW what \in Subject, Begun(w, what),
           UNCHANGED result
    PROVE  /\ Knows(work'[w], result')
           /\ \A v \in Who \ {w} : work'[v] = work[v]
<1>1. work \in [Who -> Work] /\ cache \in [Match -> Rating]
  BY DEF Inv, Types
<1>2. CASE what \in News
  <2> DEFINE x == Sending(what, what, {})
  <2>1. work' = [work EXCEPT ![w] = x]
    BY <1>2 DEF Begun
  <2>2. x.at = "sending" /\ x.what \notin Match
    BY <1>2, AnnouncementsAssumption DEF Sending
  <2> HIDE DEF x
  <2>3. work'[w] = x /\ \A v \in Who \ {w} : work'[v] = work[v]
    BY <1>1, <2>1
  <2> QED BY <2>2, <2>3 DEF Knows
<1>3. CASE what \notin News
  <2> DEFINE x == [at |-> "looking", what |-> what, since |-> Standing(what)]
  <2>1. what \in Match
    BY <1>3 DEF Subject
  <2>2. cache'[what] = None
    BY <1>1, <1>3, <2>1 DEF Begun, Forgotten
  <2>3. work' = [work EXCEPT ![w] = x]
    BY <1>3, <2>2 DEF Begun
  <2>4. x.at = "looking" /\ x.what = what /\ x.since = Standing(what)
    OBVIOUS
  <2> HIDE DEF x
  <2>5. work'[w] = x /\ \A v \in Who \ {w} : work'[v] = work[v]
    BY <1>1, <2>3
  <2> QED BY <2>4, <2>5 DEF Knows, Standing
<1> QED BY <1>2, <1>3

LEMMA EnqueueKnows ==
    ASSUME Inv, AllKnow, NEW x \in Subject, x \in News => ~Holds(jobs, x), Enqueue(x), UNCHANGED result
    PROVE  AllKnow'
<1>1. CASE work["sender"] = Idle
  <2>1. Begun("sender", Head(Pushed(x)).what)
    BY <1>1 DEF Enqueue
  <2>2. Head(Pushed(x)).what \in Subject
    BY PushedFacts, TailFacts DEF Job
  <2>3. "sender" \in Who /\ "test" \in Who \ {"sender"}
    BY DEF Who
  <2>4. Knows(work'["sender"], result') /\ work'["test"] = work["test"]
    BY <2>1, <2>2, <2>3, BegunKnows
  <2> QED BY <2>4 DEF AllKnow
<1>2. CASE work["sender"] # Idle
  <2>1. UNCHANGED work
    BY <1>2 DEF Enqueue
  <2> QED BY <2>1 DEF AllKnow
<1> QED BY <1>1, <1>2

(* One of them goes on, and knows what it has to know.                     *)
LEMMA OneKnows ==
    ASSUME Inv, AllKnow, NEW w \in Who, NEW x, work' = [work EXCEPT ![w] = x],
           UNCHANGED result, w # "screen" => Knows(x, result)
    PROVE  AllKnow'
<1>1. work \in [Who -> Work] /\ {"sender", "test"} = Who \ {"screen"}
  BY DEF Inv, Types, Who
<1>2. ASSUME NEW v \in {"sender", "test"} PROVE Knows(work'[v], result)
  <2>1. CASE v = w
    BY <1>1, <2>1
  <2>2. CASE v # w
    <3>1. work'[v] = work[v]
      BY <1>1, <2>2
    <3> QED BY <3>1 DEF AllKnow
  <2> QED BY <2>1, <2>2
<1> QED BY <1>2 DEF AllKnow

LEMMA FinishKnows ==
    ASSUME Inv, AllKnow, NEW m \in Match, NEW r \in Result, Finish(m, r)
    PROVE  AllKnow'
<1>1. work \in [Who -> Work] /\ result \in [Match -> Rating]
  BY DEF Inv, Types
<1> SUFFICES ASSUME NEW w \in {"sender", "test"}
             PROVE  Knows(work'[w], result')
  BY DEF AllKnow
<1>2. w \in Who /\ w # "screen" /\ Knows(work[w], result)
  BY DEF Who, AllKnow
<1>3. result' = [result EXCEPT ![m] = r]
  BY DEF Finish
<1>4. CASE Busy(w, m)
  <2>1. work'[w] = [work[w] EXCEPT !.since = @ \cup {r}]
    BY <1>2, <1>4 DEF Finish
  <2>2. work[w] \in LookingWork \cup CountingWork \cup SendingWork
    BY <1>1, <1>2, <1>4 DEF Busy, Work
  <2>3. CASE work[w] \in LookingWork
    <3>1. /\ work'[w].at = "looking" /\ work'[w].what = work[w].what
          /\ work'[w].since = work[w].since \cup {r} /\ work[w].at = "looking"
      BY <2>1, <2>3 DEF LookingWork
    <3>2. work[w].what = m
      BY <1>4 DEF Busy
    <3>3. result'[m] = r
      BY <1>1, <1>3
    <3> QED BY <3>1, <3>2, <3>3 DEF Knows
  <2>4. CASE work[w] \in CountingWork
    <3>1. /\ work'[w].at = "counting" /\ work'[w].of = work[w].of
          /\ work'[w].since = work[w].since \cup {r} /\ work[w].at = "counting"
      BY <2>1, <2>4 DEF CountingWork
    <3> QED BY <1>2, <3>1 DEF Knows
  <2>5. CASE work[w] \in SendingWork
    <3>1. /\ work'[w].at = "sending" /\ work'[w].text = work[w].text
          /\ work'[w].what = work[w].what
          /\ work'[w].since = work[w].since \cup {r} /\ work[w].at = "sending"
      BY <2>1, <2>5 DEF SendingWork
    <3> QED BY <1>2, <3>1 DEF Knows
  <2> QED BY <2>2, <2>3, <2>4, <2>5
<1>5. CASE ~Busy(w, m)
  <2>1. work'[w] = work[w]
    BY <1>2, <1>5 DEF Finish
  <2>2. work[w].at = "looking" => work[w].what # m
    BY <1>2, <1>5 DEF Busy, Idle, Over
  <2>3. work[w].at = "looking" => result'[work[w].what] = result[work[w].what]
    BY <1>1, <1>3, <2>2
  <2> QED BY <1>2, <2>1, <2>3 DEF Knows
<1> QED BY <1>4, <1>5

LEMMA UndoKnows ==
    ASSUME Inv, AllKnow, NEW m \in Match, Undo(m) \/ Verify(m)
    PROVE  AllKnow'
<1>1. UNCHANGED work
  BY DEF Undo, Verify, memory
<1>2. result \in [Match -> Rating] /\ work \in [Who -> Work]
  BY DEF Inv, Types
<1>3. \A n \in Match : result'[n] \in {result[n], None}
  BY <1>2 DEF Undo, Verify
<1> SUFFICES ASSUME NEW w \in {"sender", "test"}
             PROVE  Knows(work[w], result')
  BY <1>1 DEF AllKnow
<1>4. Knows(work[w], result)
  BY DEF AllKnow
<1>5. work[w].at = "looking" => work[w].what \in Match
  BY <1>2, WorkFacts DEF LookingWork, Who
<1> QED BY <1>3, <1>4, <1>5 DEF Knows

LEMMA DrainKnows == ASSUME Inv, AllKnow, Drain PROVE AllKnow'
<1>1. UNCHANGED result /\ "sender" \in Who /\ jobs \in Seq(Job) /\ NewsDistinct(jobs)
  BY DEF Drain, database, Who, Inv, Types, InOnePlace
<1>2. CASE \E x \in {Idle, Over} : work' = [work EXCEPT !["sender"] = x]
  BY <1>1, <1>2, RestKnows, OneKnows
<1>3. CASE jobs # <<>> /\ Begun("sender", Head(jobs).what)
  <2>1. Head(jobs).what \in Subject
    BY <1>1, <1>3, TailFacts DEF Job
  <2>2. "test" \in Who \ {"sender"}
    BY DEF Who
  <2>3. Knows(work'["sender"], result') /\ work'["test"] = work["test"]
    BY <1>1, <1>3, <2>1, <2>2, BegunKnows
  <2> QED BY <1>1, <2>3 DEF AllKnow
<1> QED BY <1>2, <1>3 DEF Drain

LEMMA TestKnows == ASSUME Inv, AllKnow, NEW m \in Match, Test(m) PROVE AllKnow'
<1>1. /\ "test" \in Who /\ "sender" \in Who \ {"test"} /\ m \in Subject
      /\ Begun("test", m) /\ UNCHANGED result
  BY DEF Who, Subject, Test
<1>2. Knows(work'["test"], result') /\ work'["sender"] = work["sender"]
  BY <1>1, BegunKnows
<1> QED BY <1>1, <1>2 DEF AllKnow

LEMMA LookKnows == ASSUME Inv, AllKnow, NEW w \in Who, Look(w) PROVE AllKnow'
<1>1. work[w].at = "looking" /\ UNCHANGED result
  BY DEF Look, database
<1>2. w # "screen" => Knows(work[w], result)
  BY DEF AllKnow, Who
<1>3. CASE result[work[w].what] = None
  <2>1. work' = [work EXCEPT ![w] = After(w)]
    BY <1>3 DEF Look
  <2> QED BY <1>1, <2>1, RestKnows, OneKnows
<1>4. CASE result[work[w].what] # None
  <2> DEFINE x == [at |-> "counting", what |-> work[w].what, of |-> result[work[w].what],
                   since |-> work[w].since]
  <2>1. work' = [work EXCEPT ![w] = x]
    BY <1>4 DEF Look
  <2>2. w # "screen" => result[work[w].what] \in work[w].since
    BY <1>1, <1>2, <1>4 DEF Knows
  <2>3. w # "screen" => Knows(x, result)
    BY <2>2 DEF Knows
  <2> HIDE DEF x
  <2> QED BY <1>1, <2>1, <2>3, OneKnows
<1> QED BY <1>3, <1>4

LEMMA CountKnows == ASSUME Inv, AllKnow, NEW w \in Who, Count(w) PROVE AllKnow'
<1>1. /\ work[w].at = "counting" /\ UNCHANGED result
      /\ work' = [work EXCEPT ![w] = Rated(w, work[w].what, work[w].of, work[w].since)]
  BY DEF Count, database
<1>2. w # "screen" => work[w].of \in work[w].since
  BY <1>1 DEF AllKnow, Knows, Who
<1>3. PICK x : x = Rated(w, work[w].what, work[w].of, work[w].since)
  OBVIOUS
<1>4. w # "screen" => Knows(x, result)
  <2>1. CASE x = After(w)
    BY <2>1, RestKnows
  <2>2. CASE x = Sending(work[w].what, <<work[w].what, work[w].of>>, work[w].since)
    <3>1. /\ x.at = "sending" /\ x.text[2] = work[w].of /\ x.since = work[w].since
      BY <2>2 DEF Sending
    <3> QED BY <1>2, <3>1 DEF Knows
  <2> QED BY <1>3, <2>1, <2>2 DEF Rated
<1> QED BY <1>1, <1>3, <1>4, OneKnows

LEMMA CallKnows ==
    ASSUME Inv, AllKnow, NEW w \in Who,
           Sent(w) \/ \E reached, final \in BOOLEAN : Fail(w, reached, final)
    PROVE  AllKnow'
<1>1. UNCHANGED result
  BY DEF Sent, Fail, database
<1>2. CASE work' = [work EXCEPT ![w] = After(w)]
  BY <1>1, <1>2, RestKnows, OneKnows
<1>3. CASE work[w].at = "sending" /\ work' = [work EXCEPT ![w].tries = @ + 1]
  <2> DEFINE x == [work[w] EXCEPT !.tries = @ + 1]
  <2>1. work[w] \in SendingWork
    BY <1>3, WorkFacts DEF Inv, Types
  <2>2. x.at = "sending" /\ x.what = work[w].what /\ x.text = work[w].text /\ x.since = work[w].since
    BY <2>1 DEF SendingWork
  <2>3. w # "screen" => Knows(work[w], result)
    BY DEF AllKnow, Who
  <2>4. work' = [work EXCEPT ![w] = x]
    BY <1>3
  <2> HIDE DEF x
  <2>5. w # "screen" => Knows(x, result)
    BY <1>3, <2>2, <2>3 DEF Knows
  <2> QED BY <1>1, <2>4, <2>5, OneKnows
<1> QED BY <1>2, <1>3 DEF Sent, Fail, GivenUp

LEMMA AllKnowStep == Inv /\ AllKnow /\ [Next]_vars => AllKnow'
<1> SUFFICES ASSUME Inv, AllKnow, [Next]_vars PROVE AllKnow'
  OBVIOUS
<1>1. ASSUME NEW m \in Match, NEW r \in Result, Finish(m, r) PROVE AllKnow'
  BY <1>1, FinishKnows
<1>2. ASSUME NEW m \in Match, Undo(m) \/ Verify(m) PROVE AllKnow'
  BY <1>2, UndoKnows
<1>3. ASSUME NEW m \in Match, Notify(m) PROVE AllKnow'
  BY <1>3, EnqueueKnows, AnnouncementsAssumption DEF Notify, database, Subject
<1>4. ASSUME NEW m \in Match, Test(m) PROVE AllKnow'
  BY <1>4, TestKnows
<1>5. ASSUME NEW m \in Match, Open(m) PROVE AllKnow'
  BY <1>5, OneKnows DEF Open, database, Who
<1>6. ASSUME NEW a \in News, Publish(a) PROVE AllKnow'
  <2>1. a \in Subject /\ ~Holds(jobs, a) /\ Enqueue(a) /\ UNCHANGED result
    BY <1>6 DEF Subject, Publish, Inv, InOnePlace
  <2> QED BY <2>1, EnqueueKnows
<1>7. ASSUME NEW w \in Who, Look(w) \/ Count(w) PROVE AllKnow'
  BY <1>7, LookKnows, CountKnows
<1>8. ASSUME NEW w \in Who,
             Sent(w) \/ \E reached, final \in BOOLEAN : Fail(w, reached, final)
      PROVE  AllKnow'
  BY <1>8, CallKnows
<1>9. ASSUME Restart PROVE AllKnow'
  <2>1. work'["sender"] = Idle /\ work'["test"] = Idle
    BY <1>9 DEF Restart, Who
  <2> QED BY <2>1, RestKnows DEF AllKnow
<1>10. ASSUME UNCHANGED <<work, result>> PROVE AllKnow'
  BY <1>10 DEF AllKnow
<1>11. ASSUME Wait \/ UNCHANGED vars \/ \E m \in Match : Expire(m) PROVE AllKnow'
  <2>1. UNCHANGED <<work, result>>
    BY <1>11 DEF Wait, Expire, vars, database, memory
  <2> QED BY <2>1, <1>10
<1> QED
  BY <1>1, <1>2, <1>3, <1>4, <1>5, <1>6, <1>7, <1>8, <1>9, <1>11,
     DrainKnows DEF Next, Working

(* What a job posts stood at some time since the job began, whatever the   *)
(* screens left in the cache of ratings and however often the match was    *)
(* undone and finished meanwhile (sendMatch, forget before rating).        *)
THEOREM OnlyWhatStoodIsPosted == Spec => []PostedStood
<1>1. Init => AllKnow
  BY RestKnows DEF Init, AllKnow, Who
<1>2. Inv /\ AllKnow /\ [Next]_vars => AllKnow'
  BY AllKnowStep
<1>3. AllKnow => PostedStood
  BY DEF AllKnow, Knows, PostedStood
<1> QED BY <1>1, <1>2, <1>3, Invariance, PTL DEF Spec

=============================================================================
