--------------------------- MODULE LiveFeedProofs ---------------------------
(***************************************************************************)
(* What holds of the public reads for any viewers, any scores and any      *)
(* number of writes, lists and losses: a memo does not delay a result, and *)
(* a page that missed nothing shows the match as it is.                    *)
(***************************************************************************)
EXTENDS LiveFeed, FiniteSetTheorems, TLAPS

(* A load: the query it is at, the row it has read, or its answer.         *)
Picking == {"pick1", "pick2", "pick3"}
IsLoad(x) ==
    \/ x \in [step : {"free"} \cup Picking]
    \/ x \in [step : {"read"}, row : Row]
    \/ x \in [step : {"done"}, value : Payload \cup {None}]
IsJob(j) == j \in [by : 0..MaxLists, row : Row \cup {None}]

(* An update waits with the row as it is or was, and told is no newer.     *)
RowsAreOlder ==
    /\ \A j \in jobs : j.row # None =>
          j.row.seq <= row.seq /\ (j.row.seq = row.seq => j.row = row)
    /\ told <= row.seq
Kinds ==
    /\ row \in Row /\ lists \in 0..MaxLists
    /\ \A j \in jobs : IsJob(j)
    /\ board \in [score : Score \cup {None}, fresh : BOOLEAN]
    /\ told \in 0..MaxSeq
    /\ polls \in [Viewer -> BOOLEAN] /\ joined \in [Viewer -> BOOLEAN]
    /\ missed \in [Viewer -> BOOLEAN]
    /\ since \in [Viewer -> 0..MaxSeq]
    /\ RowsAreOlder

LEMMA Published ==
    ASSUME board \in [score : Score \cup {None}, fresh : BOOLEAN], NEW r \in Row
    PROVE  Public(r) \in Payload /\ Public(r).seq = r.seq
<1>1. BoardOf \in Score \cup {None}
  BY DEF BoardOf
<1>2. CASE r.status = "FINISHED" \/ BoardOf = None
  BY <1>2 DEF Public, Payload, Row
<1>3. CASE ~(r.status = "FINISHED" \/ BoardOf = None)
  BY <1>1, <1>3 DEF Public, Payload, Row, Status
<1> QED BY <1>2, <1>3

----------------------------------------------------------------------------
(* Every step keeps the kinds *)

LEMMA CommitIsNew ==
    ASSUME Kinds, Commit
    PROVE  /\ row' \in Row /\ row'.seq = row.seq + 1
           /\ jobs' = jobs \cup {[by |-> 0, row |-> row']}
<1> USE LiveFeedAssumption
<1>1. PICK status \in After(row.status) : row' = [seq |-> row.seq + 1, status |-> status]
  BY DEF Commit
<1>2. row.status \in Status /\ row.seq \in 0..MaxSeq /\ row.seq < MaxSeq
  BY DEF Kinds, Row, Commit
<1>3. status \in Status
  BY <1>1, <1>2 DEF After, Status
<1>4. row.seq + 1 \in 0..MaxSeq
  BY <1>2
<1> QED BY <1>1, <1>3, <1>4 DEF Row, Commit

LEMMA KindsStay ==
    ASSUME Kinds, [Next]_vars
    PROVE  Kinds'
<1> USE LiveFeedAssumption
<1>1. CASE Commit
  <2>1. row' \in Row /\ row'.seq = row.seq + 1
    BY <1>1, CommitIsNew
  <2>2. jobs' = jobs \cup {[by |-> 0, row |-> row']} /\ told' = told
    BY <1>1 DEF Commit, ghosts
  <2>3. row.seq \in Nat /\ told \in Nat
    BY DEF Kinds, Row
  <2>4. \A j \in jobs' : IsJob(j)
    BY <2>1, <2>2 DEF Kinds, IsJob
  <2>5. \A j \in jobs : j.row # None => j.row.seq <= row.seq /\ j.row.seq \in Nat
    BY DEF Kinds, RowsAreOlder, IsJob, Row
  <2>6. \A j \in jobs' : j.row # None =>
          j.row.seq <= row'.seq /\ (j.row.seq = row'.seq => j.row = row')
    <3> SUFFICES ASSUME NEW j \in jobs', j.row # None
                 PROVE  j.row.seq <= row'.seq /\ (j.row.seq = row'.seq => j.row = row')
      OBVIOUS
    <3>1. CASE j \in jobs
      BY <2>1, <2>3, <2>5, <3>1
    <3>2. CASE j = [by |-> 0, row |-> row']
      BY <2>1, <2>3, <3>2
    <3> QED BY <2>2, <3>1, <3>2
  <2>7. RowsAreOlder'
    BY <2>1, <2>2, <2>3, <2>6 DEF Kinds, RowsAreOlder
  <2> QED BY <1>1, <2>1, <2>2, <2>4, <2>7 DEF Kinds, Commit, viewers, ghosts
<1>2. ASSUME NEW job \in jobs, Emit(job) PROVE Kinds'
  <2>1. job.row \in Row /\ job.row.seq <= row.seq
    BY <1>2 DEF Emit, Kinds, IsJob, RowsAreOlder
  <2>2. told' = told \/ told' = job.row.seq
    BY <1>2 DEF Emit
  <2>3. told' \in 0..MaxSeq /\ told' <= row.seq
    BY <2>1, <2>2 DEF Kinds, RowsAreOlder, Row
  <2>4. jobs' \subseteq jobs /\ row' = row /\ lists' = lists
    BY <1>2 DEF Emit, db
  <2>5. RowsAreOlder'
    BY <2>3, <2>4 DEF Kinds, RowsAreOlder
  <2>6. missed' \in [Viewer -> BOOLEAN]
    BY <1>2 DEF Emit
  <2>7. /\ board' = board /\ polls' = polls /\ joined' = joined /\ since' = since
    BY <1>2 DEF Emit
  <2> QED BY <2>3, <2>4, <2>5, <2>6, <2>7 DEF Kinds
<1>3. ASSUME NEW score \in Score \cup {None}, BoardList(score) PROVE Kinds'
  <2>1. board' \in [score : Score \cup {None}, fresh : BOOLEAN]
    BY <1>3 DEF BoardList
  <2>2. missed' \in [Viewer -> BOOLEAN]
    <3>1. missed' = missed \/ missed' = [v \in Viewer |-> ~polls[v]]
      BY <1>3 DEF BoardList
    <3> QED BY <3>1 DEF Kinds
  <2>3. /\ row' = row /\ told' = told /\ polls' = polls /\ joined' = joined /\ since' = since
    BY <1>3 DEF BoardList, viewers
  <2>4. /\ lists' \in 0..MaxLists
        /\ jobs' = jobs \/ jobs' = jobs \cup {[by |-> lists', row |-> None]}
    BY <1>3 DEF BoardList, Kinds
  <2>5. \A j \in jobs' : IsJob(j)
    BY <2>4 DEF IsJob, Kinds
  <2>6. RowsAreOlder'
    BY <2>3, <2>4 DEF Kinds, RowsAreOlder
  <2> QED BY <2>1, <2>2, <2>3, <2>4, <2>5, <2>6 DEF Kinds
<1>4. ASSUME NEW job \in jobs, BoardRead(job) PROVE Kinds'
  <2> DEFINE read == [job EXCEPT !.row = row]
  <2>1. jobs' = (jobs \ {job}) \cup {read}
    BY <1>4 DEF BoardRead
  <2>2. IsJob(read) /\ read.row = row
    BY DEF Kinds, IsJob
  <2>3. row.seq \in Nat
    BY DEF Kinds, Row
  <2> HIDE DEF read
  <2>4. UNCHANGED <<row, lists, board, viewers, told, since, missed>>
    BY <1>4 DEF BoardRead, db, ghosts
  <2>5. RowsAreOlder'
    BY <2>1, <2>2, <2>3, <2>4 DEF Kinds, RowsAreOlder
  <2> QED BY <2>1, <2>2, <2>4, <2>5 DEF Kinds, viewers
<1>5. CASE BoardExpires
  <2>1. board' \in [score : Score \cup {None}, fresh : BOOLEAN]
    BY <1>5 DEF BoardExpires, Kinds
  <2>2. missed' \in [Viewer -> BOOLEAN]
    BY <1>5 DEF BoardExpires
  <2> QED BY <1>5, <2>1, <2>2 DEF BoardExpires, Kinds, RowsAreOlder, viewers
<1>6. ASSUME NEW s \in Screen, Ask(s) PROVE Kinds'
  <2>1. since' \in [Viewer -> 0..MaxSeq]
    BY <1>6 DEF Ask, Kinds
  <2> QED BY <1>6, <2>1 DEF Ask, Kinds, RowsAreOlder, db
<1>7. ASSUME NEW l \in Load, Pick(l) \/ LoadDone(l) \/ LoadFails(l) PROVE Kinds'
  BY <1>7 DEF Pick, LoadDone, LoadFails, Kinds, RowsAreOlder, db, viewers, ghosts
<1>8. CASE MemoExpires
  BY <1>8 DEF MemoExpires, Kinds, RowsAreOlder, db, viewers, ghosts
<1>9. ASSUME NEW s \in Screen, Show(s) PROVE Kinds'
  <2>1. s \in Viewer /\ joined' \in [Viewer -> BOOLEAN]
    BY <1>9 DEF Show, Kinds, Screen
  <2> QED BY <1>9, <2>1 DEF Show, Kinds, RowsAreOlder, db, ghosts
<1>10. ASSUME NEW p \in Page, Open(p) PROVE Kinds'
  <2>1. missed' \in [Viewer -> BOOLEAN]
    BY <1>10 DEF Open, Kinds
  <2> QED BY <1>10, <2>1 DEF Open, Kinds, RowsAreOlder, db, server
<1>11. ASSUME NEW v \in Viewer, Join(v) PROVE Kinds'
  <2>1. joined' \in [Viewer -> BOOLEAN]
    BY <1>11 DEF Join, Kinds
  <2> QED BY <1>11, <2>1 DEF Join, Kinds, RowsAreOlder, db, server, ghosts
<1>12. ASSUME NEW v \in Viewer, Disconnect(v) PROVE Kinds'
  <2>1. joined' \in [Viewer -> BOOLEAN]
    BY <1>12 DEF Disconnect, Kinds
  <2>2. /\ \A u \in Viewer : (missed[u] \/ (~polls[u] /\ wire[u] # <<>>)) \in BOOLEAN
        /\ missed' = [missed EXCEPT ![v] = missed[v] \/ (~polls[v] /\ wire[v] # <<>>)]
    BY <1>12 DEF Disconnect
  <2>3. missed' \in [Viewer -> BOOLEAN]
    BY <2>2, Zenon DEF Kinds
  <2> QED BY <1>12, <2>1, <2>3 DEF Disconnect, Kinds, RowsAreOlder, server
<1>13. ASSUME NEW v \in Viewer, Receive(v) PROVE Kinds'
  BY <1>13 DEF Receive, Kinds, RowsAreOlder, db, server, ghosts
<1>14. CASE UNCHANGED vars
  BY <1>14 DEF vars, Kinds, RowsAreOlder, db, server, viewers, ghosts
<1> QED
  BY <1>1, <1>2, <1>3, <1>4, <1>5, <1>6, <1>7, <1>8, <1>9, <1>10, <1>11, <1>12, <1>13, <1>14
  DEF Next, Reading, NotFound

----------------------------------------------------------------------------
(* A page that missed nothing *)

(* An update with the present state is still to be sent, or the page shows *)
(* it, or it is on its way with nothing behind it that is as new.          *)
Pending == \E j \in jobs : j.row \in {None, row}
Said(p, i) == IF i = 0 THEN shown[p] ELSE wire[p][i]
IsTold(p) ==
    \E i \in 0..Len(wire[p]) :
        /\ Said(p, i) = Public(row)
        /\ \A k \in i+1..Len(wire[p]) : wire[p][k].seq < row.seq

WireIs(p) ==
    /\ wire[p] \in Seq(Payload) /\ shown[p] \in Payload \cup {None}
    /\ IF joined[p] THEN shown[p] # None ELSE wire[p] = <<>>
    /\ shown[p] # None => shown[p].seq <= row.seq
    /\ \A i \in 1..Len(wire[p]) : wire[p][i].seq <= row.seq
Following(p) ==
    /\ WireIs(p)
    /\ ~missed[p] /\ shown[p] # None => Pending \/ IsTold(p)
Settled == 
    /\ DOMAIN shown = Viewer /\ DOMAIN wire = Viewer
    /\ \A p \in Page : Following(p)

LEMMA PublicStays ==
    ASSUME UNCHANGED <<row, board>>
    PROVE  Public(row)' = Public(row)
BY DEF Public, BoardOf

LEMMA PendingStays ==
    ASSUME UNCHANGED <<row, jobs>>
    PROVE  Pending' = Pending
BY DEF Pending

(* What a page sees stays, and the row is no older. *)
LEMMA WireStays ==
    ASSUME Kinds, Kinds', NEW p \in Page, WireIs(p), row.seq <= row'.seq,
           wire'[p] = wire[p], shown'[p] = shown[p], joined'[p] = joined[p]
    PROVE  WireIs(p)'
<1>1. row.seq \in Nat /\ row'.seq \in Nat
  BY DEF Kinds, Row
<1>2. \A x \in Payload : x.seq \in Nat
  BY DEF Payload
<1>3. \A i \in 1..Len(wire[p]) : wire[p][i] \in Payload
  BY DEF WireIs
<1> QED BY <1>1, <1>2, <1>3 DEF WireIs

(* A step that leaves a page, the match and the updates alone. *)
LEMMA FollowingStays ==
    ASSUME Kinds, Kinds', NEW p \in Page, Following(p), row' = row, board' = board, Pending => Pending',
           wire'[p] = wire[p], shown'[p] = shown[p], joined'[p] = joined[p], missed'[p] = missed[p]
    PROVE  Following(p)'
<1>1. row.seq <= row'.seq
  BY DEF Kinds, Row
<1>2. WireIs(p)'
  BY <1>1, WireStays DEF Following
<1>3. Public(row)' = Public(row)
  BY PublicStays
<1>4. IsTold(p) => IsTold(p)'
  BY <1>3 DEF IsTold, Said
<1> QED BY <1>2, <1>4 DEF Following

(* A step after which an update is still to be sent, or the page missed it.*)
LEMMA FollowingPends ==
    ASSUME Kinds, Kinds', NEW p \in Page, WireIs(p), row.seq <= row'.seq, Pending' \/ missed'[p],
           wire'[p] = wire[p], shown'[p] = shown[p], joined'[p] = joined[p]
    PROVE  Following(p)'
BY WireStays DEF Following

(* An update goes to the end of what is on its way. *)
LEMMA EmitSettles ==
    ASSUME Kinds, Kinds', Settled, NEW p \in Page, NEW job \in jobs, Emit(job)
    PROVE  Following(p)'
<1> DEFINE x == Public(job.row)
<1>1. /\ p \in Viewer /\ ~polls[p] /\ Following(p) /\ WireIs(p)
  BY DEF Settled, Following, Page, Screen
<1>2. job.row \in Row /\ job.row.seq <= row.seq /\ (job.row.seq = row.seq => job.row = row)
  BY DEF Emit, Kinds, IsJob, RowsAreOlder
<1>3. x \in Payload /\ x.seq = job.row.seq
  BY <1>2, Published DEF Kinds
<1>4. x = Public(row) \/ (job.row # row /\ x.seq < row.seq)
  BY <1>2, <1>3 DEF Kinds, Row
<1>5. /\ row' = row /\ board' = board /\ jobs' = jobs \ {job}
      /\ shown' = shown /\ joined' = joined
  BY DEF Emit, db
<1>6. Public(row)' = Public(row)
  BY <1>5, PublicStays
<1>7. wire'[p] = IF joined[p] THEN Append(wire[p], x) ELSE wire[p]
  BY <1>1 DEF Emit
<1>8. missed'[p] = (~joined[p] \/ (missed[p] /\ job.row # row))
  BY <1>1, Zenon DEF Emit
<1>9. row.seq \in Nat /\ job.row.seq \in Nat
  BY <1>2 DEF Kinds, Row
<1> HIDE DEF x
<1>10. CASE ~joined[p]
  <2>1. row.seq <= row'.seq /\ wire'[p] = wire[p]
    BY <1>5, <1>7, <1>9, <1>10
  <2>2. missed'[p]
    BY <1>8, <1>10, Zenon
  <2> QED BY <1>1, <1>5, <2>1, <2>2, FollowingPends
<1>11. CASE joined[p]
  <2>1. wire'[p] = Append(wire[p], x) /\ wire[p] \in Seq(Payload) /\ shown[p] \in Payload
    BY <1>1, <1>7, <1>11 DEF WireIs
  <2>2. /\ wire'[p] \in Seq(Payload) /\ Len(wire'[p]) = Len(wire[p]) + 1
        /\ \A i \in 1..Len(wire[p]) : wire'[p][i] = wire[p][i]
        /\ wire'[p][Len(wire[p]) + 1] = x /\ Len(wire[p]) \in Nat
    BY <1>3, <2>1
  <2>3. WireIs(p)'
    <3>1. \A i \in 1..Len(wire'[p]) : wire'[p][i].seq <= row.seq
      BY <1>1, <1>2, <1>3, <2>2 DEF WireIs
    <3> QED BY <1>1, <1>5, <1>11, <2>2, <3>1 DEF WireIs
  <2>4. missed'[p] = (missed[p] /\ job.row # row)
    BY <1>8, <1>11, Zenon
  <2>5. CASE x = Public(row)
    <3>0. PICK n \in Nat : n = Len(wire[p]) + 1
      BY <2>2
    <3>1. n \in 0..Len(wire'[p]) /\ n # 0
      BY <2>2, <3>0
    <3>2. Said(p, n)' = Public(row)'
      BY <1>6, <2>2, <2>5, <3>0, <3>1 DEF Said
    <3>3. \A k \in n+1..Len(wire'[p]) : wire'[p][k].seq < row'.seq
      BY <2>2, <3>0
    <3>4. IsTold(p)'
      BY <3>1, <3>2, <3>3 DEF IsTold
    <3> QED BY <2>3, <3>4 DEF Following
  <2>6. CASE job.row # row /\ x.seq < row.seq
    <3>1. missed'[p] \/ Pending \/ IsTold(p)
      BY <1>1, <1>11, <2>4, <2>6 DEF Following, WireIs
    <3>2. Pending => Pending'
      <4> HAVE Pending
      <4>1. PICK j \in jobs : j.row \in {None, row}
        BY DEF Pending
      <4>2. j # job
        BY <2>6, <4>1 DEF Emit
      <4> QED BY <1>5, <4>1, <4>2 DEF Pending
    <3>3. IsTold(p) => IsTold(p)'
      <4> HAVE IsTold(p)
      <4>1. PICK i \in 0..Len(wire[p]) :
               /\ Said(p, i) = Public(row)
               /\ \A k \in i+1..Len(wire[p]) : wire[p][k].seq < row.seq
        BY DEF IsTold
      <4>2. i \in 0..Len(wire'[p]) /\ Said(p, i)' = Public(row)'
        BY <1>5, <1>6, <2>2, <4>1 DEF Said
      <4>3. \A k \in i+1..Len(wire'[p]) : wire'[p][k].seq < row'.seq
        <5> SUFFICES ASSUME NEW k \in i+1..Len(wire'[p])
                     PROVE  wire'[p][k].seq < row'.seq
          OBVIOUS
        <5>1. CASE k \in i+1..Len(wire[p])
          BY <1>5, <2>2, <4>1, <5>1
        <5>2. CASE k = Len(wire[p]) + 1
          BY <1>5, <2>2, <2>6, <5>2
        <5> QED BY <1>5, <2>2, <5>1, <5>2
      <4> QED BY <4>2, <4>3 DEF IsTold
    <3> QED BY <2>3, <3>1, <3>2, <3>3 DEF Following
  <2> QED BY <1>4, <2>5, <2>6
<1> QED BY <1>10, <1>11

(* The first update on its way is taken or left. *)
LEMMA ReceiveSettles ==
    ASSUME Kinds, Kinds', Settled, NEW p \in Page, Receive(p)
    PROVE  Following(p)'
<1> DEFINE x == Head(wire[p])
<1>1. p \in Viewer /\ Following(p) /\ WireIs(p)
  BY DEF Settled, Following, Page
<1>2. /\ wire[p] \in Seq(Payload) /\ wire[p] # <<>> /\ wire'[p] = Tail(wire[p])
  BY <1>1 DEF Receive, Settled, WireIs
<1>3. /\ Len(wire[p]) \in Nat \ {0} /\ x = wire[p][1] /\ x \in Payload
      /\ wire'[p] \in Seq(Payload) /\ Len(wire'[p]) = Len(wire[p]) - 1
      /\ \A i \in 1..Len(wire'[p]) : wire'[p][i] = wire[p][i+1]
  BY <1>2
<1>4. joined[p] /\ shown[p] \in Payload
  BY <1>1, <1>2 DEF WireIs
<1>5. shown'[p] = IF x.seq >= shown[p].seq THEN x ELSE shown[p]
  BY <1>1 DEF Receive, Settled, Takes
<1>6. row' = row /\ board' = board /\ jobs' = jobs /\ joined' = joined /\ missed' = missed
  BY DEF Receive, db, server, ghosts
<1>7. Public(row)' = Public(row)
  BY <1>6, PublicStays
<1>8. /\ row.seq \in Nat /\ \A y \in Payload : y.seq \in Nat
      /\ \A i \in 1..Len(wire[p]) : wire[p][i].seq <= row.seq
      /\ shown[p].seq <= row.seq /\ x.seq <= row.seq
  BY <1>1, <1>3, <1>4, NullAssumption DEF Kinds, Row, Payload, WireIs
<1> HIDE DEF x
<1>9. WireIs(p)'
  <2>1. shown'[p] \in Payload /\ shown'[p].seq <= row'.seq
    BY <1>3, <1>4, <1>5, <1>6, <1>8
  <2>2. ASSUME NEW i \in 1..Len(wire'[p]) PROVE wire'[p][i].seq <= row'.seq
    <3>1. i + 1 \in 1..Len(wire[p])
      BY <1>3
    <3> QED BY <1>3, <1>6, <1>8, <3>1
  <2> QED BY <1>3, <1>4, <1>6, <2>1, <2>2, NullAssumption DEF WireIs
<1>10. SUFFICES ASSUME ~missed[p], IsTold(p) PROVE IsTold(p)'
  <2>1. Pending' = Pending
    BY <1>6, PendingStays
  <2> QED BY <1>1, <1>4, <1>6, <1>9, <1>10, <2>1, NullAssumption DEF Following
<1>11. PICK i \in 0..Len(wire[p]) :
         /\ Said(p, i) = Public(row)
         /\ \A k \in i+1..Len(wire[p]) : wire[p][k].seq < row.seq
  BY <1>10 DEF IsTold
<1>12. Public(row).seq = row.seq
  BY Published DEF Kinds
<1> DEFINE j == IF i = 0 THEN 0 ELSE i - 1
<1>13. j \in 0..Len(wire'[p])
  BY <1>3
<1>14. Said(p, j)' = Public(row)'
  <2>1. CASE i = 0
    <3>1. shown[p] = Public(row) /\ x.seq < row.seq
      BY <1>3, <1>11, <2>1 DEF Said
    <3> QED BY <1>3, <1>4, <1>5, <1>7, <1>8, <1>12, <2>1, <3>1 DEF Said
  <2>2. CASE i = 1
    <3>1. x = Public(row)
      BY <1>3, <1>11, <2>2 DEF Said
    <3> QED BY <1>3, <1>4, <1>5, <1>7, <1>8, <1>12, <2>2, <3>1 DEF Said
  <2>3. CASE i > 1
    <3>1. i - 1 \in 1..Len(wire'[p]) /\ (i - 1) + 1 = i /\ i - 1 # 0
      BY <1>3, <2>3
    <3>2. wire'[p][i - 1] = wire[p][i]
      BY <1>3, <3>1
    <3> QED BY <1>7, <1>11, <2>3, <3>1, <3>2 DEF Said
  <2> QED BY <2>1, <2>2, <2>3
<1>15. \A k \in j+1..Len(wire'[p]) : wire'[p][k].seq < row'.seq
  <2> SUFFICES ASSUME NEW k \in j+1..Len(wire'[p]) PROVE wire'[p][k].seq < row'.seq
    OBVIOUS
  <2>1. k \in 1..Len(wire'[p]) /\ k + 1 \in i+1..Len(wire[p])
    BY <1>3
  <2> QED BY <1>3, <1>6, <1>11, <2>1
<1> QED BY <1>13, <1>14, <1>15 DEF IsTold

(* A step that leaves every page alone. *)
LEMMA SettledStays ==
    ASSUME Kinds, Kinds', Settled, row' = row, board' = board, Pending => Pending',
           polls' = polls, joined' = joined, DOMAIN shown' = Viewer, DOMAIN wire' = Viewer,
           \A p \in Page : wire'[p] = wire[p] /\ shown'[p] = shown[p] /\ missed'[p] = missed[p]
    PROVE  Settled'
<1>1. Page' = Page
  BY DEF Page, Screen
<1>2. \A p \in Page : Following(p)'
  BY FollowingStays DEF Settled
<1> QED BY <1>1, <1>2 DEF Settled

LEMMA SettledStep ==
    ASSUME Kinds, Kinds', Settled, [Next]_vars
    PROVE  Settled'
<1> USE LiveFeedAssumption, NullAssumption
<1>0. polls' = polls /\ Page' = Page
  <2>1. polls' = polls
    BY DEF Next, Commit, BoardExpires, MemoExpires, Emit, BoardRead, BoardList, Reading, NotFound, Pick, LoadDone,
           LoadFails, Ask, Show, Open, Join, Disconnect, Receive, vars, viewers, server
  <2> QED BY <2>1 DEF Page, Screen
<1>1. CASE Commit
  <2>1. row.seq <= row'.seq
    BY <1>1, CommitIsNew DEF Kinds, Row
  <2>2. Pending'
    <3>1. [by |-> 0, row |-> row'] \in jobs'
      BY <1>1, CommitIsNew
    <3> QED BY <3>1 DEF Pending
  <2>3. \A p \in Page : Following(p)'
    BY <1>1, <2>1, <2>2, FollowingPends DEF Settled, Following, Commit, viewers
  <2> QED BY <1>0, <1>1, <2>3 DEF Settled, Commit, viewers
<1>2. ASSUME NEW job \in jobs, Emit(job) PROVE Settled'
  <2>1. \A p \in Page : Following(p)'
    BY <1>2, EmitSettles
  <2> QED BY <1>0, <1>2, <2>1 DEF Settled, Emit
<1>3. ASSUME NEW score \in Score \cup {None}, BoardList(score) PROVE Settled'
  <2>1. row' = row /\ row.seq <= row'.seq /\ shown' = shown /\ wire' = wire /\ joined' = joined
    BY <1>3 DEF BoardList, viewers, Kinds, Row
  <2>2. ASSUME NEW p \in Page PROVE Pending' \/ missed'[p]
    <3>1. CASE Changed(score)
      <4>1. [by |-> lists', row |-> None] \in jobs'
        BY <1>3, <3>1 DEF BoardList
      <4> QED BY <4>1 DEF Pending
    <3>2. CASE ~Changed(score)
      <4>1. missed' = [v \in Viewer |-> ~polls[v]] /\ p \in Viewer /\ ~polls[p]
        BY <1>3, <3>2 DEF BoardList, Page, Screen
      <4> QED BY <4>1
    <3> QED BY <3>1, <3>2
  <2>3. \A p \in Page : Following(p)'
    BY <2>1, <2>2, FollowingPends DEF Settled, Following
  <2> QED BY <1>0, <2>1, <2>3 DEF Settled
<1>4. ASSUME NEW job \in jobs, BoardRead(job) PROVE Settled'
  <2>1. /\ UNCHANGED <<row, board, viewers, missed>>
        /\ jobs' = (jobs \ {job}) \cup {[job EXCEPT !.row = row]}
    BY <1>4 DEF BoardRead, db, ghosts
  <2>2. [job EXCEPT !.row = row].row = row
    BY DEF Kinds, IsJob
  <2>3. Pending'
    BY <2>1, <2>2 DEF Pending
  <2> QED BY <2>1, <2>3, SettledStays DEF Settled, viewers
<1>5. CASE BoardExpires
  <2>1. row' = row /\ row.seq <= row'.seq /\ shown' = shown /\ wire' = wire /\ joined' = joined
    BY <1>5 DEF BoardExpires, viewers, Kinds, Row
  <2>2. ASSUME NEW p \in Page PROVE missed'[p]
    BY <1>5 DEF BoardExpires, Page, Screen
  <2>3. \A p \in Page : Following(p)'
    BY <2>1, <2>2, FollowingPends DEF Settled, Following
  <2> QED BY <1>0, <2>1, <2>3 DEF Settled
<1>6. ASSUME NEW s \in Screen, Ask(s) PROVE Settled'
  BY <1>6, SettledStays, PendingStays DEF Ask, db, Settled
<1>7. ASSUME NEW l \in Load, Pick(l) \/ LoadDone(l) \/ LoadFails(l) PROVE Settled'
  <2>1. UNCHANGED <<row, jobs, board, viewers, missed>>
    BY <1>7 DEF Pick, LoadDone, LoadFails, db, ghosts
  <2> QED BY <2>1, SettledStays, PendingStays DEF viewers, Settled
<1>8. CASE MemoExpires
  BY <1>8, SettledStays, PendingStays DEF MemoExpires, db, viewers, ghosts, Settled
<1>9. ASSUME NEW s \in Screen, Show(s) PROVE Settled'
  <2>1. s \in Viewer /\ s \notin Page
    BY DEF Screen, Page
  <2>2. UNCHANGED <<row, jobs, board, missed>>
    BY <1>9 DEF Show, db, ghosts
  <2>3. /\ DOMAIN shown' = Viewer /\ DOMAIN wire' = Viewer /\ DOMAIN joined' = DOMAIN joined
        /\ \A p \in Page : wire'[p] = wire[p] /\ shown'[p] = shown[p] /\ joined'[p] = joined[p]
    BY <1>9, <2>1 DEF Show, Settled
  <2>4. \A p \in Page : Following(p)'
    BY <2>2, <2>3, FollowingStays, PendingStays DEF Settled
  <2> QED BY <1>0, <2>3, <2>4 DEF Settled
<1>10. ASSUME NEW q \in Page, Open(q) PROVE Settled'
  <2>1. UNCHANGED <<row, jobs, board, joined, wire>> /\ q \in Viewer
    BY <1>10 DEF Open, db, server, Page
  <2>2. DOMAIN missed = Viewer /\ DOMAIN shown = Viewer
    BY DEF Kinds, Settled
  <2>3. shown' = [shown EXCEPT ![q] = Public(row)] /\ missed' = [missed EXCEPT ![q] = FALSE]
    BY <1>10 DEF Open
  <2>4. \A p \in Page \ {q} : Following(p)'
    <3> TAKE p \in Page \ {q}
    <3>1. shown'[p] = shown[p] /\ missed'[p] = missed[p]
      BY <2>2, <2>3 DEF Page
    <3> QED BY <2>1, <3>1, FollowingStays, PendingStays DEF Settled
  <2>5. Following(q)'
    <3>1. WireIs(q) /\ shown[q] = None /\ shown'[q] = Public(row)
      BY <1>10, <2>1, <2>2, <2>3 DEF Settled, Following, Open
    <3>2. joined[q] = FALSE /\ wire[q] = <<>>
      BY <2>1, <3>1 DEF WireIs, Kinds
    <3>3. Public(row) \in Payload /\ Public(row).seq = row.seq /\ Public(row)' = Public(row)
      BY <2>1, Published, PublicStays DEF Kinds
    <3>4. WireIs(q)'
      BY <2>1, <3>1, <3>2, <3>3 DEF WireIs, Kinds, Row
    <3>5. IsTold(q)'
      <4>1. Said(q, 0)' = Public(row)' /\ Len(wire'[q]) = 0
        BY <2>1, <3>1, <3>2, <3>3 DEF Said
      <4> QED BY <4>1 DEF IsTold
    <3> QED BY <3>4, <3>5 DEF Following
  <2> QED BY <1>0, <2>1, <2>2, <2>3, <2>4, <2>5 DEF Settled
<1>11. ASSUME NEW v \in Viewer, Join(v) PROVE Settled'
  <2>1. UNCHANGED <<row, jobs, board, wire, shown, missed>>
    BY <1>11 DEF Join, db, server, ghosts
  <2>2. \A p \in Page : Following(p)'
    <3> TAKE p \in Page
    <3>1. CASE p # v
      <4>1. joined'[p] = joined[p]
        BY <1>11, <3>1 DEF Join
      <4> QED BY <2>1, <4>1, FollowingStays, PendingStays DEF Settled
    <3>2. CASE p = v
      <4>1. shown[p] # None /\ WireIs(p) /\ Following(p)
        BY <1>11, <3>2 DEF Join, Settled, Following
      <4>2. WireIs(p)'
        <5>1. joined'[p] = TRUE
          BY <1>11, <3>2 DEF Join, Kinds
        <5> QED BY <2>1, <4>1, <5>1 DEF WireIs
      <4>3. Pending' = Pending /\ (IsTold(p) => IsTold(p)')
        BY <2>1, PendingStays, PublicStays DEF IsTold, Said
      <4> QED BY <2>1, <4>1, <4>2, <4>3 DEF Following
    <3> QED BY <3>1, <3>2
  <2> QED BY <1>0, <2>1, <2>2 DEF Settled
<1>12. ASSUME NEW v \in Viewer, Disconnect(v) PROVE Settled'
  <2>1. UNCHANGED <<row, jobs, board, shown>>
    BY <1>12 DEF Disconnect, server
  <2>2. /\ joined' = [joined EXCEPT ![v] = FALSE] /\ wire' = [wire EXCEPT ![v] = <<>>]
        /\ missed' = [missed EXCEPT ![v] = missed[v] \/ (~polls[v] /\ wire[v] # <<>>)]
    BY <1>12 DEF Disconnect
  <2>3. DOMAIN joined = Viewer /\ DOMAIN wire = Viewer /\ DOMAIN missed = Viewer
    BY DEF Kinds, Settled
  <2>4. \A p \in Page : Following(p)'
    <3> TAKE p \in Page
    <3>1. CASE p # v
      <4>1. joined'[p] = joined[p] /\ wire'[p] = wire[p] /\ missed'[p] = missed[p]
        BY <2>2, <2>3, <3>1
      <4> QED BY <2>1, <4>1, FollowingStays, PendingStays DEF Settled
    <3>2. CASE p = v
      <4>1. WireIs(p) /\ Following(p) /\ ~polls[p]
        BY DEF Settled, Following, Page, Screen
      <4>2. wire'[p] = <<>> /\ joined'[p] = FALSE
        BY <2>2, <2>3, <3>2
      <4>3. missed'[p] = (missed[p] \/ wire[p] # <<>>)
        BY <2>2, <2>3, <3>2, <4>1, Zenon
      <4>4. WireIs(p)'
        BY <2>1, <4>1, <4>2 DEF WireIs
      <4>5. CASE wire[p] # <<>>
        <5>1. missed'[p]
          BY <4>3, <4>5, Zenon
        <5> QED BY <4>4, <5>1 DEF Following
      <4>6. CASE wire[p] = <<>>
        <5>1. Pending' = Pending /\ (IsTold(p) => IsTold(p)')
          BY <2>1, <4>2, <4>6, PendingStays, PublicStays DEF IsTold, Said
        <5>2. missed[p] => missed'[p]
          BY <4>3, Zenon
        <5> QED BY <2>1, <4>1, <4>4, <5>1, <5>2 DEF Following
      <4> QED BY <4>5, <4>6
    <3> QED BY <3>1, <3>2
  <2> QED BY <1>0, <2>1, <2>2, <2>3, <2>4 DEF Settled
<1>13. ASSUME NEW v \in Viewer, Receive(v) PROVE Settled'
  <2>1. UNCHANGED <<row, jobs, board, joined, missed>>
    BY <1>13 DEF Receive, db, server, ghosts
  <2>2. wire' = [wire EXCEPT ![v] = Tail(wire[v])]
    BY <1>13 DEF Receive
  <2>3. /\ DOMAIN shown' = Viewer /\ DOMAIN wire' = Viewer
        /\ \A p \in Page \ {v} : wire'[p] = wire[p] /\ shown'[p] = shown[p]
    <3>1. shown' = shown \/ shown' = [shown EXCEPT ![v] = Head(wire[v])]
      BY <1>13 DEF Receive
    <3> QED BY <2>2, <3>1 DEF Settled, Page
  <2>4. \A p \in Page \ {v} : Following(p)'
    BY <2>1, <2>3, FollowingStays, PendingStays DEF Settled
  <2>5. v \in Page => Following(v)'
    BY <1>13, ReceiveSettles
  <2> QED BY <1>0, <2>3, <2>4, <2>5 DEF Settled
<1>14. CASE UNCHANGED vars
  <2>1. UNCHANGED <<row, jobs, board, viewers, missed>>
    BY <1>14 DEF vars, db, server, ghosts
  <2> QED BY <2>1, SettledStays, PendingStays DEF viewers, Settled
<1> QED
  BY <1>1, <1>2, <1>3, <1>4, <1>5, <1>6, <1>7, <1>8, <1>9, <1>10, <1>11, <1>12, <1>13, <1>14
  DEF Next, Reading, NotFound

----------------------------------------------------------------------------
(* What the screens are answered *)

(* A load, as far as it is, is no older than the row number n.             *)
Fresh(x, n) ==
    /\ x.step = "read" => x.row.seq >= n
    /\ x.step = "done" => x.value = None \/ x.value.seq >= n

(* Somebody waits for the load. *)
IsAsked(l) == \E v \in Viewer : asked[v] = l
ReadsAre ==
    /\ DOMAIN load = Load /\ \A l \in Load : IsLoad(load[l])
    /\ memo \in Load \cup {None}
    /\ asked \in [Viewer -> Load \cup {None}]

(* What the memo gives is no older than the last update sent, and a screen *)
(* holds what was so when it asked.  Who began a load waits for it to end, *)
(* and a load that is neither in the memo nor asked for is free.           *)
Reads ==
    /\ ReadsAre
    /\ \A v \in Viewer : since[v] <= told
    /\ memo # None => Fresh(load[memo], told)
    /\ \A v \in Viewer : asked[v] # None => Fresh(load[asked[v]], since[v])
    /\ \A l \in Load :
          /\ load[l].step \in Picking \cup {"read"} => IsAsked(l)
          /\ load[l] = Free \/ memo = l \/ IsAsked(l)

(* A step that leaves the reads alone. *)
LEMMA ReadsStay ==
    ASSUME Reads, UNCHANGED <<memo, load, asked, told, since>>
    PROVE  Reads'
BY DEF Reads, ReadsAre, IsAsked

LEMMA FreeIsFresh ==
    /\ IsLoad(Free) /\ Free.step = "free" /\ \A n \in Nat : Fresh(Free, n)
BY DEF Free, IsLoad, Fresh

(* The memo is cleared or a screen is answered: what nobody holds is free. *)
LEMMA TidyReads ==
    ASSUME Kinds, Kinds', Reads, load' = Tidied, since' = since, told <= told',
           memo' \in {memo, None}, memo' # None => told' = told,
           asked' \in [Viewer -> Load \cup {None}],
           \A v \in Viewer : asked'[v] = asked[v] \/
               (asked'[v] = None /\ asked[v] \in Load /\ load[asked[v]].step = "done")
    PROVE  Reads'
<1> USE LiveFeedAssumption
<1>1. None \notin Load
  BY FS_CardinalityType DEF Load
<1>2. /\ DOMAIN load' = Load
      /\ \A l \in Load : load'[l] = IF l = memo' \/ \E v \in Viewer : asked'[v] = l THEN load[l] ELSE Free
  BY DEF Tidied
<1>3. \A l \in Load : load'[l] = load[l] \/ load'[l] = Free
  BY <1>2
<1>4. ReadsAre'
  <2>1. \A l \in Load : IsLoad(load'[l])
    BY <1>3, FreeIsFresh DEF Reads, ReadsAre
  <2> QED BY <1>2, <2>1 DEF Reads, ReadsAre, IsLoad
<1>5. told \in Nat /\ told' \in Nat /\ \A v \in Viewer : since[v] \in Nat
  BY DEF Kinds
<1>6. \A v \in Viewer : since'[v] <= told'
  BY <1>5 DEF Reads
<1>7. memo' # None => Fresh(load'[memo'], told')
  BY <1>2 DEF Reads, ReadsAre
<1>8. ASSUME NEW v \in Viewer, asked'[v] # None PROVE Fresh(load'[asked'[v]], since'[v])
  <2>1. asked'[v] = asked[v] /\ asked'[v] \in Load
    BY <1>8
  <2>2. load'[asked'[v]] = load[asked[v]]
    BY <1>2, <2>1
  <2> QED BY <1>8, <2>1, <2>2 DEF Reads
<1>9. ASSUME NEW l \in Load, load'[l].step \in Picking \cup {"read"} PROVE IsAsked(l)'
  <2>1. load'[l] = load[l]
    BY <1>3, <1>9, FreeIsFresh DEF Picking
  <2>2. PICK v \in Viewer : asked[v] = l
    BY <1>9, <2>1 DEF Reads, IsAsked
  <2>3. load[l].step # "done"
    BY <1>9, <2>1 DEF Picking
  <2>4. asked'[v] = l
    BY <2>2, <2>3
  <2> QED BY <2>4 DEF IsAsked
<1>10. \A l \in Load : load'[l] = Free \/ memo' = l \/ IsAsked(l)'
  BY <1>2 DEF IsAsked
<1> QED BY <1>4, <1>6, <1>7, <1>8, <1>9, <1>10 DEF Reads, Fresh, Free, Load

(* A load that somebody waits for goes one step on. *)
LEMMA LoadReads ==
    ASSUME Kinds, Reads, NEW l \in Load, NEW x, IsLoad(x), load' = [load EXCEPT ![l] = x],
           load[l].step \in Picking \cup {"read"},
           \A n \in Nat : n <= told /\ Fresh(load[l], n) => Fresh(x, n),
           memo' = IF memo = l THEN memo' ELSE memo, memo' \in {memo, None}, UNCHANGED <<asked, told, since>>
    PROVE  Reads'
<1>1. ReadsAre /\ IsAsked(l) /\ told \in Nat /\ \A v \in Viewer : since[v] \in Nat
  BY DEF Reads, Kinds
<1>2. DOMAIN load' = Load /\ load'[l] = x /\ \A k \in Load \ {l} : load'[k] = load[k]
  BY <1>1 DEF ReadsAre
<1>3. ReadsAre'
  BY <1>1, <1>2 DEF ReadsAre, IsLoad
<1>4. memo' # None => Fresh(load'[memo'], told)
  <2> HAVE memo' # None
  <2>1. memo' = memo /\ memo \in Load /\ Fresh(load[memo], told)
    BY <1>1 DEF Reads, ReadsAre
  <2> QED BY <1>1, <1>2, <2>1
<1>5. \A v \in Viewer : asked[v] # None => Fresh(load'[asked[v]], since[v])
  <2> SUFFICES ASSUME NEW v \in Viewer, asked[v] # None PROVE Fresh(load'[asked[v]], since[v])
    OBVIOUS
  <2>1. asked[v] \in Load /\ Fresh(load[asked[v]], since[v]) /\ since[v] <= told
    BY <1>1 DEF Reads, ReadsAre
  <2> QED BY <1>1, <1>2, <2>1
<1>6. \A k \in Load : load'[k].step \in Picking \cup {"read"} => IsAsked(k)
  BY <1>1, <1>2 DEF Reads
<1>7. ASSUME NEW k \in Load PROVE load'[k] = Free \/ memo' = k \/ IsAsked(k)
  <2>1. CASE k = l
    BY <1>1, <2>1
  <2>2. CASE k # l
    BY <1>2, <2>2 DEF Reads
  <2> QED BY <2>1, <2>2
<1> QED BY <1>1, <1>3, <1>4, <1>5, <1>6, <1>7 DEF Reads, Fresh, IsAsked, Free, Load

(* There is one load more than there are viewers: one is always free.      *)
LEMMA OneIsFree ==
    ASSUME Reads, memo = None
    PROVE  \E l \in Load : load[l] = Free
<1>1. SUFFICES ASSUME \A l \in Load : IsAsked(l) PROVE FALSE
  <2>1. None \notin Load
    BY LiveFeedAssumption, FS_CardinalityType DEF Load
  <2> QED BY <1>1, <2>1 DEF Reads
<1> DEFINE f == [l \in Load |-> CHOOSE v \in Viewer : asked[v] = l]
<1>2. f \in [Load -> Viewer] /\ \A l \in Load : asked[f[l]] = l
  BY <1>1 DEF IsAsked
<1>3. Cardinality(Viewer) \in Nat /\ IsFiniteSet(Viewer)
  BY LiveFeedAssumption, FS_CardinalityType
<1>4. IsFiniteSet(Load) /\ Cardinality(Load) = Cardinality(Viewer) + 1
  BY <1>3, FS_Interval DEF Load
<1> HIDE DEF f
<1>5. \E k, l \in Load : k # l /\ f[k] = f[l]
  <2>1. Cardinality(Viewer) < Cardinality(Load)
    BY <1>3, <1>4
  <2> QED BY <1>2, <1>3, <1>4, <2>1, FS_PigeonHole
<1> QED BY <1>2, <1>5

(* A screen that asks is given the load of the memo, or begins one.        *)
LEMMA AskReads ==
    ASSUME Kinds, Kinds', Reads, NEW s \in Viewer, Ask(s)
    PROVE  Reads'
<1>1. /\ asked[s] = None /\ told' = told /\ since' = [since EXCEPT ![s] = told]
      /\ told \in Nat /\ DOMAIN since = Viewer /\ DOMAIN asked = Viewer
  BY DEF Ask, Kinds, Reads, ReadsAre
<1>2. \A v \in Viewer : since'[v] <= told'
  BY <1>1 DEF Reads
<1>3. None \notin Load
  BY LiveFeedAssumption, FS_CardinalityType DEF Load
<1>4. CASE memo # None
  <2>1. /\ load' = load /\ memo' = memo /\ asked' = [asked EXCEPT ![s] = memo]
        /\ memo \in Load /\ Fresh(load[memo], told)
    BY <1>4 DEF Ask, Reads, ReadsAre
  <2>2. /\ asked'[s] = memo /\ since'[s] = told
        /\ \A v \in Viewer \ {s} : asked'[v] = asked[v] /\ since'[v] = since[v]
    BY <1>1, <2>1
  <2>3. ReadsAre'
    BY <2>1 DEF Reads, ReadsAre, IsLoad
  <2>4. \A l \in Load : IsAsked(l) => IsAsked(l)'
    BY <1>1, <1>3, <2>2 DEF IsAsked
  <2>5. \A v \in Viewer : asked'[v] # None => Fresh(load'[asked'[v]], since'[v])
    BY <2>1, <2>2 DEF Reads
  <2>6. Load' = Load
    BY DEF Load
  <2> QED BY <1>1, <1>2, <2>1, <2>3, <2>4, <2>5, <2>6 DEF Reads, Fresh, Free
<1>5. CASE memo = None
  <2> DEFINE x == [step |-> "pick1"]
  <2>1. PICK l \in Load : l = (CHOOSE k \in Load : load[k] = Free) /\ load[l] = Free
    BY <1>5, OneIsFree
  <2>2. load' = [load EXCEPT ![l] = x] /\ memo' = l /\ asked' = [asked EXCEPT ![s] = l]
    BY <1>5, <2>1 DEF Ask
  <2>3. IsLoad(x) /\ \A n \in Nat : Fresh(x, n)
    BY DEF IsLoad, Fresh, Picking
  <2> HIDE DEF x
  <2>4. /\ load'[l] = x /\ \A k \in Load \ {l} : load'[k] = load[k]
        /\ asked'[s] = l /\ since'[s] = told
        /\ \A v \in Viewer \ {s} : asked'[v] = asked[v] /\ since'[v] = since[v]
    BY <1>1, <2>1, <2>2 DEF Reads, ReadsAre
  <2>5. ReadsAre'
    BY <2>1, <2>2, <2>3, <2>4 DEF Reads, ReadsAre, IsLoad
  <2>6. \A k \in Load \ {l} : IsAsked(k) => IsAsked(k)'
    BY <1>1, <1>3, <2>4 DEF IsAsked
  <2>7. IsAsked(l)'
    BY <2>4 DEF IsAsked
  <2>8. ASSUME NEW v \in Viewer, asked'[v] # None PROVE Fresh(load'[asked'[v]], since'[v])
    <3>1. since'[v] \in Nat
      BY DEF Kinds
    <3>2. CASE asked'[v] = l
      BY <2>3, <2>4, <3>1, <3>2
    <3>3. CASE asked'[v] # l
      <4>1. asked'[v] \in Load \ {l} /\ v # s /\ asked'[v] = asked[v] /\ since'[v] = since[v]
        BY <1>3, <2>4, <2>5, <2>8, <3>3 DEF ReadsAre, Load
      <4> QED BY <2>4, <2>8, <4>1 DEF Reads
    <3> QED BY <3>2, <3>3
  <2>9. Load' = Load
    BY DEF Load
  <2>10. \A k \in Load : load'[k].step \in Picking \cup {"read"} => IsAsked(k)'
    BY <2>4, <2>6, <2>7 DEF Reads
  <2>11. \A k \in Load : load'[k] = Free \/ memo' = k \/ IsAsked(k)'
    BY <1>3, <1>5, <2>4, <2>6, <2>7 DEF Reads
  <2>12. memo' # None => Fresh(load'[memo'], told')
    BY <1>1, <2>2, <2>3, <2>4
  <2> QED BY <1>2, <2>5, <2>8, <2>9, <2>10, <2>11, <2>12 DEF Reads, Fresh, Free
<1> QED BY <1>4, <1>5

LEMMA ReadsStep ==
    ASSUME Kinds, Kinds', Reads, [Next]_vars
    PROVE  Reads'
<1> USE LiveFeedAssumption
<1>0. told <= told /\ row.seq \in Nat /\ told \in Nat /\ told <= row.seq
  BY DEF Kinds, Row, RowsAreOlder
<1>1. CASE Commit
  BY <1>1, ReadsStay DEF Commit, viewers, ghosts
<1>2. ASSUME NEW job \in jobs, Emit(job) PROVE Reads'
  <2>1. told <= told' /\ (told' = told \/ job.by = 0)
    <3>1. job.row.seq \in Nat
      BY <1>2 DEF Emit, Kinds, IsJob, Row
    <3> QED BY <1>0, <1>2, <3>1 DEF Emit
  <2>2. memo' = IF job.by = 0 THEN None ELSE memo
    BY <1>2 DEF Emit, ClearMemo
  <2>3. load' = Tidied /\ asked' = asked /\ since' = since
    BY <1>2 DEF Emit
  <2> QED BY <2>1, <2>2, <2>3, TidyReads DEF Reads, ReadsAre
<1>3. ASSUME NEW score \in Score \cup {None}, BoardList(score) PROVE Reads'
  <2>1. memo' \in {memo, None} /\ load' = Tidied /\ UNCHANGED <<asked, told, since>>
    BY <1>3 DEF BoardList, viewers
  <2> QED BY <1>0, <2>1, TidyReads DEF Reads, ReadsAre
<1>4. ASSUME NEW job \in jobs, BoardRead(job) PROVE Reads'
  BY <1>4, ReadsStay DEF BoardRead, viewers, ghosts
<1>5. CASE BoardExpires
  BY <1>5, ReadsStay DEF BoardExpires, viewers
<1>6. ASSUME NEW s \in Screen, Ask(s) PROVE Reads'
  BY <1>6, AskReads DEF Screen
<1>7. ASSUME NEW l \in Load, Pick(l) PROVE Reads'
  <2> DEFINE x == IF row.status \in Wanted(load[l].step) THEN [step |-> "read", row |-> row]
                  ELSE [step |-> IF load[l].step = "pick1" THEN "pick2" ELSE "pick3"]
  <2>1. load' = [load EXCEPT ![l] = x] /\ load[l].step \in Picking
    BY <1>7 DEF Pick, Picking
  <2>2. IsLoad(x) /\ \A n \in Nat : n <= told => Fresh(x, n)
    BY <1>0 DEF IsLoad, Picking, Fresh, Kinds
  <2>3. UNCHANGED <<memo, asked, told, since>>
    BY <1>7 DEF Pick, viewers, ghosts
  <2> HIDE DEF x
  <2> QED BY <2>1, <2>2, <2>3, LoadReads
<1>8. ASSUME NEW l \in Load, LoadDone(l) PROVE Reads'
  <2> DEFINE x == [step |-> "done", value |-> Public(load[l].row)]
  <2>1. load' = [load EXCEPT ![l] = x] /\ load[l].step = "read"
    BY <1>8 DEF LoadDone
  <2>2. load[l].row \in Row
    BY <2>1 DEF Reads, ReadsAre, IsLoad, Picking
  <2>3. Public(load[l].row) \in Payload /\ Public(load[l].row).seq = load[l].row.seq
    BY <2>2, Published DEF Kinds
  <2>4. IsLoad(x) /\ \A n \in Nat : Fresh(load[l], n) => Fresh(x, n)
    BY <2>1, <2>3 DEF IsLoad, Fresh
  <2>5. UNCHANGED <<memo, asked, told, since>>
    BY <1>8 DEF LoadDone, viewers, ghosts
  <2> HIDE DEF x
  <2> QED BY <2>1, <2>4, <2>5, LoadReads
<1>9. ASSUME NEW l \in Load, LoadFails(l) PROVE Reads'
  <2> DEFINE x == [step |-> "done", value |-> None]
  <2>1. load' = [load EXCEPT ![l] = x] /\ load[l].step \in Picking
    BY <1>9 DEF LoadFails, Picking
  <2>2. IsLoad(x) /\ \A n \in Nat : Fresh(x, n)
    BY DEF IsLoad, Fresh
  <2>3. memo' = (IF memo = l THEN None ELSE memo) /\ UNCHANGED <<asked, told, since>>
    BY <1>9 DEF LoadFails, viewers, ghosts
  <2> HIDE DEF x
  <2> QED BY <2>1, <2>2, <2>3, LoadReads
<1>10. CASE MemoExpires
  <2>1. memo' = None /\ load' = Tidied /\ UNCHANGED <<asked, told, since>>
    BY <1>10 DEF MemoExpires, viewers, ghosts
  <2> QED BY <1>0, <2>1, TidyReads DEF Reads, ReadsAre
<1>11. ASSUME NEW s \in Screen, Show(s) PROVE Reads'
  <2>1. s \in Viewer /\ asked[s] # None /\ load[asked[s]].step = "done"
    BY <1>11 DEF Show, Screen
  <2>2. /\ asked' = [asked EXCEPT ![s] = None] /\ load' = Tidied
        /\ UNCHANGED <<memo, told, since>>
    BY <1>11 DEF Show, ghosts
  <2>3. asked \in [Viewer -> Load \cup {None}]
    BY DEF Reads, ReadsAre
  <2>4. /\ asked' \in [Viewer -> Load \cup {None}]
        /\ \A v \in Viewer : asked'[v] = asked[v] \/
               (asked'[v] = None /\ asked[v] \in Load /\ load[asked[v]].step = "done")
    BY <2>1, <2>2, <2>3
  <2> QED BY <1>0, <2>2, <2>4, TidyReads
<1>12. ASSUME NEW p \in Page, Open(p) PROVE Reads'
  BY <1>12, ReadsStay DEF Open, server
<1>13. ASSUME NEW v \in Viewer, Join(v) \/ Receive(v) PROVE Reads'
  BY <1>13, ReadsStay DEF Join, Receive, server, ghosts
<1>14. ASSUME NEW v \in Viewer, Disconnect(v) PROVE Reads'
  BY <1>14, ReadsStay DEF Disconnect, server
<1>15. CASE UNCHANGED vars
  BY <1>15, ReadsStay DEF vars, server, viewers, ghosts
<1> QED
  BY <1>1, <1>2, <1>3, <1>4, <1>5, <1>6, <1>7, <1>8, <1>9, <1>10, <1>11, <1>12, <1>13, <1>14, <1>15
  DEF Next, Reading, NotFound

----------------------------------------------------------------------------
Inv == Kinds /\ Settled /\ Reads

LEMMA InitInv == Init => Inv
<1> SUFFICES ASSUME Init PROVE Inv
  OBVIOUS
<1> USE LiveFeedAssumption DEF Init
<1>1. row \in Row /\ row.seq = 0
  BY DEF Row, Status
<1>2. Kinds
  BY <1>1 DEF Kinds, RowsAreOlder
<1>3. Settled
  <2>1. \A p \in Page : shown[p] = None /\ wire[p] = <<>> /\ joined[p] = FALSE
    BY DEF Page
  <2>2. <<>> \in Seq(Payload) /\ Len(<<>>) = 0
    OBVIOUS
  <2> HIDE DEF Init
  <2>3. ASSUME NEW p \in Page PROVE Following(p)
    <3>1. \A i \in 1..Len(wire[p]) : FALSE
      BY <2>1, <2>2
    <3>2. WireIs(p)
      BY <2>1, <2>2, <3>1 DEF WireIs
    <3> QED BY <2>1, <3>2 DEF Following
  <2> QED BY <2>3 DEF Init, Settled
<1>4. Reads
  <2>1. \A l \in Load : load[l] = Free
    OBVIOUS
  <2> QED BY <2>1, FreeIsFresh DEF Reads, ReadsAre, Picking
<1> QED BY <1>2, <1>3, <1>4 DEF Inv

(* What pages and screens are told stays in step with the row they are     *)
(* told of, whatever is written, listed, lost or late (emitAndReturn,      *)
(* setBoardStates, memo).                                                  *)
THEOREM Invariance == Spec => []Inv
<1>1. Inv /\ [Next]_vars => Inv'
  BY KindsStay, SettledStep, ReadsStep DEF Inv
<1> QED BY InitInv, <1>1, PTL DEF Spec

(* However many screens share the memo, none is answered with a match that *)
(* is older than the last update sent when it asked (memo, emitAndReturn). *)
THEOREM AnswersStayFresh == Spec => []AnswersAreFresh
<1>1. Inv => AnswersAreFresh
  <2> SUFFICES ASSUME Inv, NEW s \in Screen, asked[s] # None, load[asked[s]].step = "done"
               PROVE  load[asked[s]].value = None \/ load[asked[s]].value.seq >= since[s]
    BY DEF AnswersAreFresh
  <2> QED BY DEF Inv, Reads, Fresh, Screen
<1> QED BY Invariance, <1>1, PTL

(* However updates overtake each other, a page that missed none of them    *)
(* shows the match as it is when nothing is under way (emitAndReturn,      *)
(* setBoardStates, the comparison of numbers in MatchCard).                *)
THEOREM QuietPagesAreCurrent == Spec => []QuietPageIsCurrent
<1>1. Inv => QuietPageIsCurrent
  <2> SUFFICES ASSUME Inv, NEW p \in Page, joined[p], ~missed[p], jobs = {}, wire[p] = <<>>
               PROVE  shown[p] = Public(row)
    BY DEF QuietPageIsCurrent
  <2>1. Following(p) /\ WireIs(p)
    BY DEF Inv, Settled, Following
  <2>2. IsTold(p)
    BY <2>1 DEF Following, WireIs, Pending
  <2>3. Len(wire[p]) = 0
    OBVIOUS
  <2> QED BY <2>2, <2>3 DEF IsTold, Said
<1> QED BY Invariance, <1>1, PTL
=============================================================================
