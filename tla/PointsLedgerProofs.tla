------------------------- MODULE PointsLedgerProofs -------------------------
(***************************************************************************)
(* Invariance proofs for PointsLedger, for any players and matches, any    *)
(* coefficient, bonus table and history of finishes and undos.             *)
(***************************************************************************)
EXTENDS PointsLedger, TLAPS, FiniteSetTheorems

----------------------------------------------------------------------------
(* One row *)

(* The floor never lets points fall below zero, never takes more than was  *)
(* asked for, and is not felt while the points suffice (floorApply).       *)
LEMMA AppliedFacts ==
    ASSUME NEW b \in Nat, NEW d \in Int
    PROVE  /\ Applied(b, d) \in Int
           /\ b + Applied(b, d) \in Nat
           /\ b + d >= 0 => Applied(b, d) = d
  BY DEF Applied

(* A row of play moves points, journal and sums by the same amount, and    *)
(* the exact sum by its own value less what the floor cut off.             *)
LEMMA PlayFacts ==
    ASSUME NEW a \in Account, NEW d \in Int, NEW e \in Int
    PROVE  LET h == Play(a, d, e) IN
           /\ h \in Account
           /\ h.points - a.points = h.logged - a.logged
           /\ h.whole - a.whole = h.points - a.points
           /\ h.exact = a.exact + e + U * (h.whole - a.whole - d)
           /\ h.bonus = a.bonus
           /\ a.points + d >= 0 => h.points = a.points + d
<1> DEFINE x == Applied(a.points, d)
           h == Play(a, d, e)
<1>1. a.points \in Nat
  BY DEF Account
<1>2. /\ x \in Int /\ a.points + x \in Nat
      /\ a.points + d >= 0 => x = d
  BY <1>1, AppliedFacts
<1> HIDE DEF x
<1>3. h = [a EXCEPT !.points = @ + x, !.logged = @ + x, !.tour = @ + x,
                    !.whole = @ + x, !.exact = @ + (e + U * (x - d))]
  BY DEF Play, Logged, LoggedExact, x
<1>4. /\ h.points = a.points + x /\ h.logged = a.logged + x
      /\ h.tour = a.tour + x /\ h.whole = a.whole + x
      /\ h.exact = a.exact + (e + U * (x - d)) /\ h.bonus = a.bonus
  BY <1>3 DEF Account
<1>5. e + U * (x - d) \in Int
  BY <1>2 DEF U
<1>6. h \in Account
  <2>1. /\ a.logged + x \in Int /\ a.tour + x \in Int /\ a.whole + x \in Int
        /\ a.exact + (e + U * (x - d)) \in Int
    BY <1>2, <1>5 DEF Account
  <2> QED
    BY <1>2, <1>3, <2>1 DEF Account
<1> QED
  BY <1>1, <1>2, <1>4, <1>6 DEF Account, U

(* A bonus row moves points, journal and bonus sum by the same amount. *)
LEMMA BonusFacts ==
    ASSUME NEW a \in Account, NEW d \in Int
    PROVE  LET h == Bonus(a, d) IN
           /\ h \in Account
           /\ h.points - a.points = h.logged - a.logged
           /\ h.bonus - a.bonus = h.points - a.points
           /\ h.whole = a.whole /\ h.exact = a.exact
           /\ a.points + d >= 0 => h.points = a.points + d
<1> DEFINE x == Applied(a.points, d)
           h == Bonus(a, d)
<1>1. a.points \in Nat
  BY DEF Account
<1>2. /\ x \in Int /\ a.points + x \in Nat
      /\ a.points + d >= 0 => x = d
  BY <1>1, AppliedFacts
<1> HIDE DEF x
<1>3. h = [a EXCEPT !.points = @ + x, !.logged = @ + x, !.tour = @ + x,
                    !.bonus = @ + x]
  BY DEF Bonus, Logged, x
<1>4. h \in Account
  <2>1. a.logged + x \in Int /\ a.tour + x \in Int /\ a.bonus + x \in Int
    BY <1>2 DEF Account
  <2> QED
    BY <1>2, <1>3, <2>1 DEF Account
<1> QED
  BY <1>1, <1>2, <1>3, <1>4 DEF Account

(* So does a penalty, which is part of neither sum. *)
LEMMA PenaltyFacts ==
    ASSUME NEW a \in Account
    PROVE  LET h == Penalised(a) IN
           /\ h \in Account
           /\ h.points - a.points = h.logged - a.logged
           /\ h.bonus = a.bonus /\ h.whole = a.whole /\ h.exact = a.exact
<1> DEFINE x == Applied(a.points, 0 - Penalty)
           h == Penalised(a)
<1>1. a.points \in Nat /\ 0 - Penalty \in Int
  BY LedgerAssumption DEF Account
<1>2. x \in Int /\ a.points + x \in Nat
  BY <1>1, AppliedFacts
<1> HIDE DEF x
<1>3. h = [a EXCEPT !.points = @ + x, !.logged = @ + x, !.tour = @ + x]
  BY DEF Penalised, Logged, x
<1>4. h \in Account
  <2>1. a.logged + x \in Int /\ a.tour + x \in Int
    BY <1>2 DEF Account
  <2> QED
    BY <1>2, <1>3, <2>1 DEF Account
<1> QED
  BY <1>1, <1>2, <1>3, <1>4 DEF Account

(* Rounding commutes with whole points. *)
LEMMA RoundShift ==
    ASSUME NEW n \in Int, NEW c \in Int
    PROVE  Round(n + U * c) = Round(n) + c /\ Round(n) \in Int
  BY DEF Round, U

----------------------------------------------------------------------------
(* A match's rows and the readings of other matches *)

(* A match's own rows grow by what happened to the sums, others' do not. *)
LEMMA RowsFacts ==
    ASSUME TypeOK, NEW m \in Match, acct' \in [Player -> Account],
           rows' = RowsAfter(m)
    PROVE  /\ rows' \in [Match -> [Player -> Net]]
           /\ \A n \in Match \ {m} : rows'[n] = rows[n]
           /\ \A p \in Player :
                 rows'[m][p] =
                     [whole |-> rows[m][p].whole + acct'[p].whole - acct[p].whole,
                      exact |-> rows[m][p].exact + acct'[p].exact - acct[p].exact,
                      bonus |-> rows[m][p].bonus + acct'[p].bonus - acct[p].bonus]
<1> DEFINE new == [p \in Player |->
              [whole |-> rows[m][p].whole + acct'[p].whole - acct[p].whole,
               exact |-> rows[m][p].exact + acct'[p].exact - acct[p].exact,
               bonus |-> rows[m][p].bonus + acct'[p].bonus - acct[p].bonus]]
<1>1. rows' = [rows EXCEPT ![m] = new]
  BY DEF RowsAfter
<1>2. new \in [Player -> Net]
  <2> SUFFICES ASSUME NEW p \in Player
               PROVE  /\ rows[m][p].whole + acct'[p].whole - acct[p].whole \in Int
                      /\ rows[m][p].exact + acct'[p].exact - acct[p].exact \in Int
                      /\ rows[m][p].bonus + acct'[p].bonus - acct[p].bonus \in Int
    BY DEF Net
  <2>1. rows[m][p] \in Net /\ acct[p] \in Account /\ acct'[p] \in Account
    BY DEF TypeOK
  <2> QED
    BY <2>1 DEF Net, Account
<1>3. rows \in [Match -> [Player -> Net]]
  BY DEF TypeOK
<1> HIDE DEF new
<1>4. /\ rows' \in [Match -> [Player -> Net]] /\ rows'[m] = new
      /\ \A n \in Match \ {m} : rows'[n] = rows[n]
  BY <1>1, <1>2, <1>3
<1> QED
  BY <1>4 DEF new

(* A reading stays fresh while the two sums it was made of do not change. *)
LEMMA StaysFresh ==
    ASSUME LInv, NEW n \in Match, pending[n] # None, n \notin stale,
           pending'[n] = pending[n],
           \A p \in Pair[n] : acct'[p].whole = acct[p].whole
                             /\ acct'[p].exact = acct[p].exact
    PROVE  \A p \in pending'[n].rated :
               pending'[n].delta[p] = WholeDelta(p, pending[n].exact[p])'
<1>1. pending[n].rated \subseteq Pair[n]
  BY DEF LInv, OnlyThePair
<1>2. \A p \in pending[n].rated :
         pending[n].delta[p] = WholeDelta(p, pending[n].exact[p])
  BY DEF LInv, FreshReading
<1> QED
  BY <1>1, <1>2 DEF WholeDelta

(* The invariant's parts about matches, when only sums outside play move.  *)
LEMMA AdminMatches ==
    ASSUME LInv, acct' \in [Player -> Account],
           \A p \in Player : acct'[p].whole = acct[p].whole
                            /\ acct'[p].exact = acct[p].exact,
           UNCHANGED <<rows, result, pending, cut, stale>>
    PROVE  /\ UndoLeavesNothingBehind' /\ PendingIsOpen'
           /\ OnlyThePair' /\ FreshReading'
<1>1. UndoLeavesNothingBehind' /\ PendingIsOpen' /\ OnlyThePair'
  BY DEF LInv, UndoLeavesNothingBehind, PendingIsOpen, OnlyThePair
<1>2. FreshReading'
  <2> SUFFICES ASSUME NEW n \in Match, pending[n] # None, n \notin stale
               PROVE  \A p \in pending'[n].rated :
                          pending'[n].delta[p] =
                              WholeDelta(p, pending[n].exact[p])'
    BY DEF FreshReading
  <2>1. Pair[n] \subseteq Player
    BY LedgerAssumption
  <2> QED
    BY <2>1, StaysFresh
<1> QED
  BY <1>1, <1>2

----------------------------------------------------------------------------
(* The steps of a match *)

(* The reading at the end of a match (awardOfficial). *)
LEMMA ReadStep ==
    ASSUME LInv, NEW m \in Match, NEW w \in Player, Read(m, w)
    PROVE  LInv'
<1> DEFINE l == Loser(m, w)
           gr == PreRating(w)
           yr == PreRating(l)
           exact == [p \in Player |-> IF p = w THEN WinnerExact(gr, yr)
                                      ELSE IF p = l THEN LoserExact(gr, yr)
                                      ELSE 0]
           delta == [p \in Player |-> IF p \in Pair[m]
                                      THEN WholeDelta(p, exact[p]) ELSE 0]
           new == [winner |-> w, exact |-> exact, rated |-> active \cap Pair[m],
                   delta |-> delta]
<1>1. /\ pending' = [pending EXCEPT ![m] = new]
      /\ w \in Pair[m] /\ result[m] = Open
      /\ stale' = stale \ {m}
      /\ UNCHANGED <<acct, rows, result, active, adjusting, finishes, admin,
                     overtaken, cut>>
  BY DEF Read
<1>2. TypeOK
  BY DEF LInv
<1>3. l \in Player
  <2>1. \E x \in Pair[m] : x # w
    <3>1. PICK q, o \in Player : q # o /\ Pair[m] = {q, o}
      BY LedgerAssumption
    <3> QED
      BY <3>1
  <2>2. l \in Pair[m]
    BY <2>1 DEF Loser
  <2> QED
    BY <2>2, LedgerAssumption
<1>4. gr \in Int /\ yr \in Int
  BY <1>2, <1>3 DEF PreRating, TypeOK, Account
<1> HIDE DEF l, gr, yr
<1>5. exact \in [Player -> Int]
  BY <1>4, LedgerAssumption DEF WinnerExact, LoserExact, U
<1> HIDE DEF exact
<1>6. delta \in [Player -> Int]
  <2> SUFFICES ASSUME NEW p \in Player PROVE WholeDelta(p, exact[p]) \in Int
    OBVIOUS
  <2>1. acct[p].exact \in Int /\ acct[p].whole \in Int /\ exact[p] \in Int
    BY <1>2, <1>5 DEF TypeOK, Account
  <2> QED
    BY <2>1 DEF WholeDelta, Round, U
<1>7. \A p \in Pair[m] : delta[p] = WholeDelta(p, exact[p])
  BY LedgerAssumption
<1> HIDE DEF delta
<1>8. new \in Reading
  BY <1>2, <1>5, <1>6 DEF Reading, TypeOK
<1>9. /\ new.rated \subseteq Pair[m]
      /\ \A p \in new.rated : new.delta[p] = WholeDelta(p, new.exact[p])
  BY <1>7
<1> HIDE DEF new
<1>10. /\ pending'[m] = new
       /\ \A n \in Match \ {m} : pending'[n] = pending[n]
  BY <1>1, <1>2 DEF TypeOK
<1>11. TypeOK'
  BY <1>1, <1>2, <1>8 DEF TypeOK
<1>12. /\ LedgerBalance' /\ UndoLeavesNothingBehind'
       /\ PendingIsOpen' /\ OnlyThePair'
  BY <1>1, <1>9, <1>10 DEF LInv, LedgerBalance, UndoLeavesNothingBehind,
                           PendingIsOpen, OnlyThePair
<1>13. FreshReading'
  <2> SUFFICES ASSUME NEW n \in Match, pending'[n] # None, n \notin stale'
               PROVE  \A p \in pending'[n].rated :
                          pending'[n].delta[p] =
                              WholeDelta(p, pending[n].exact[p])'
    BY DEF FreshReading
  <2>1. CASE n = m
    BY <1>1, <1>9, <1>10, <2>1 DEF WholeDelta
  <2>2. CASE n # m
    <3>1. pending'[n] = pending[n] /\ n \notin stale
      BY <1>1, <1>10, <2>2
    <3> QED
      BY <1>1, <3>1, StaysFresh
  <2> QED
    BY <2>1, <2>2
<1> QED
  BY <1>11, <1>12, <1>13 DEF LInv

(* What a rated match does to the account of one of its players. *)
LEMMA AwardedAccount ==
    ASSUME LInv, NEW m \in Match, pending[m] # None, NEW p \in Player
    PROVE  LET r == pending[m]
               h == WithBonus(Play(acct[p], r.delta[p], r.exact[p]), p,
                              PlaceOf(m, r.winner, p))
           IN  /\ h \in Account
               /\ h.points - acct[p].points = h.logged - acct[p].logged
               /\ h.exact = acct[p].exact + r.exact[p]
                              + U * (h.whole - acct[p].whole - r.delta[p])
<1> DEFINE r == pending[m]
           g == Play(acct[p], r.delta[p], r.exact[p])
           place == PlaceOf(m, r.winner, p)
           h == WithBonus(g, p, place)
<1>1. acct[p] \in Account /\ r.delta[p] \in Int /\ r.exact[p] \in Int
  BY DEF LInv, TypeOK, Reading
<1>2. /\ g \in Account
      /\ g.points - acct[p].points = g.logged - acct[p].logged
      /\ g.exact = acct[p].exact + r.exact[p]
                     + U * (g.whole - acct[p].whole - r.delta[p])
  BY <1>1, PlayFacts
<1>3. place \in 0..8
  BY LedgerAssumption DEF PlaceOf
<1> HIDE DEF g, place, r
<1>4. CASE h = g
  BY <1>2, <1>4 DEF r, g, place
<1>5. CASE h # g
  <2>1. h = Bonus(g, PlaceBonus[place]) /\ place # 0
    BY <1>5 DEF WithBonus
  <2>2. PlaceBonus[place] \in Int
    BY <1>3, <2>1, LedgerAssumption
  <2>3. /\ h \in Account
        /\ h.points - g.points = h.logged - g.logged
        /\ h.whole = g.whole /\ h.exact = g.exact
    BY <1>2, <2>1, <2>2, BonusFacts
  <2>4. h.points - acct[p].points = h.logged - acct[p].logged
    BY <1>1, <1>2, <2>3 DEF Account
  <2> QED
    BY <1>2, <2>3, <2>4 DEF r, g, place
<1> QED
  BY <1>4, <1>5

(* The invariant's parts about readings, when a match writes its rows.     *)
LEMMA MatchWrites ==
    ASSUME LInv, NEW m \in Match, acct' \in [Player -> Account],
           rows' = RowsAfter(m),
           \A p \in Player \ Pair[m] : /\ acct'[p].whole = acct[p].whole
                                       /\ acct'[p].exact = acct[p].exact
                                       /\ acct'[p].bonus = acct[p].bonus,
           pending'[m] = None,
           \A n \in Match \ {m} : /\ pending'[n] = pending[n]
                                  /\ result'[n] = result[n],
           stale' = stale \cup Overtaken(m)
    PROVE  PendingIsOpen' /\ OnlyThePair' /\ FreshReading'
<1>1. /\ \A n \in Match \ {m} : rows'[n] = rows[n]
      /\ \A p \in Player :
            rows'[m][p] =
                [whole |-> rows[m][p].whole + acct'[p].whole - acct[p].whole,
                 exact |-> rows[m][p].exact + acct'[p].exact - acct[p].exact,
                 bonus |-> rows[m][p].bonus + acct'[p].bonus - acct[p].bonus]
  BY RowsFacts DEF LInv
<1>2. PendingIsOpen'
  BY DEF LInv, PendingIsOpen
<1>3. OnlyThePair'
  <2>1. ASSUME NEW p \in Player \ Pair[m] PROVE rows'[m][p] = NoNet
    <3>1. rows[m][p] = NoNet
      BY DEF LInv, OnlyThePair
    <3>2. acct[p] \in Account
      BY DEF LInv, TypeOK
    <3> QED
      BY <1>1, <3>1, <3>2 DEF NoNet, Account
  <2> QED
    BY <1>1, <2>1 DEF LInv, OnlyThePair
<1>4. FreshReading'
  <2> SUFFICES ASSUME NEW n \in Match, pending'[n] # None, n \notin stale'
               PROVE  \A p \in pending'[n].rated :
                          pending'[n].delta[p] =
                              WholeDelta(p, pending[n].exact[p])'
    BY DEF FreshReading
  <2>1. n # m /\ pending'[n] = pending[n] /\ n \notin stale
    OBVIOUS
  <2>2. Pair[n] \cap Pair[m] = {}
    BY <2>1 DEF Overtaken
  <2>3. Pair[n] \subseteq Player
    BY LedgerAssumption
  <2> QED
    BY <2>1, <2>2, <2>3, StaysFresh
<1> QED
  BY <1>2, <1>3, <1>4

(* A match is rated (awardOfficial, setMatchResult). *)
LEMMA AwardStep ==
    ASSUME LInv, NEW m \in Match, Award(m)
    PROVE  LInv'
<1> DEFINE r == pending[m]
           h(p) == WithBonus(Play(acct[p], r.delta[p], r.exact[p]), p,
                             PlaceOf(m, r.winner, p))
           won == [winner |-> r.winner, technical |-> FALSE]
<1>1. /\ r # None
      /\ acct' = [p \in Player |-> IF p \in r.rated THEN h(p) ELSE acct[p]]
      /\ result' = [result EXCEPT ![m] = won]
      /\ rows' = RowsAfter(m)
      /\ pending' = [pending EXCEPT ![m] = None]
      /\ finishes' = [finishes EXCEPT ![m] = finishes[m] + 1]
      /\ stale' = stale \cup Overtaken(m)
      /\ UNCHANGED <<active, adjusting, admin, overtaken, cut>>
  BY DEF Award
<1>2. TypeOK /\ r \in Reading /\ r.rated \subseteq Pair[m] /\ acct \in [Player -> Account]
  BY <1>1 DEF LInv, TypeOK, OnlyThePair
<1>3. \A p \in Player : /\ h(p) \in Account
                        /\ h(p).points - acct[p].points
                             = h(p).logged - acct[p].logged
  BY <1>1, AwardedAccount
<1> HIDE DEF h
<1>4. /\ acct' \in [Player -> Account]
      /\ \A p \in Player : acct'[p].points - acct[p].points
                             = acct'[p].logged - acct[p].logged
      /\ \A p \in Player \ Pair[m] : acct'[p] = acct[p]
  <2>1. ASSUME NEW p \in Player
        PROVE  /\ acct'[p] \in Account
               /\ acct'[p].points - acct[p].points
                    = acct'[p].logged - acct[p].logged
    <3>1. CASE p \in r.rated
      BY <1>1, <1>3, <3>1
    <3>2. CASE p \notin r.rated
      BY <1>1, <1>2, <3>2 DEF Account
    <3> QED
      BY <3>1, <3>2
  <2> QED
    BY <1>1, <1>2, <2>1
<1>5. won \in Result /\ won # Open
  BY <1>2, LedgerAssumption DEF Reading, Result, Open
<1> HIDE DEF won, r
<1>6. /\ pending'[m] = None /\ result'[m] = won
      /\ \A n \in Match \ {m} : /\ pending'[n] = pending[n]
                                /\ result'[n] = result[n]
  BY <1>1, <1>2 DEF TypeOK
<1>7. rows' \in [Match -> [Player -> Net]] /\ \A n \in Match \ {m} : rows'[n] = rows[n]
  BY <1>1, <1>2, <1>4, RowsFacts
<1>8. TypeOK'
  <2>1. /\ result' \in [Match -> Result]
        /\ pending' \in [Match -> Reading \cup {None}]
        /\ finishes' \in [Match -> Nat]
        /\ stale' \subseteq Match
    BY <1>1, <1>2, <1>5 DEF TypeOK, Overtaken
  <2> QED
    BY <1>1, <1>2, <1>4, <1>7, <2>1 DEF TypeOK
<1>9. LedgerBalance'
  <2> SUFFICES ASSUME NEW p \in Player, p \notin overtaken
               PROVE  acct'[p].points = Opening[p] + acct'[p].logged
    BY <1>1 DEF LedgerBalance
  <2>1. acct[p].points = Opening[p] + acct[p].logged
    BY DEF LInv, LedgerBalance
  <2>2. acct[p] \in Account /\ acct'[p] \in Account /\ Opening[p] \in Nat
    BY <1>2, <1>4, LedgerAssumption
  <2> QED
    BY <1>4, <2>1, <2>2 DEF Account
<1>10. UndoLeavesNothingBehind'
  BY <1>1, <1>5, <1>6, <1>7 DEF LInv, UndoLeavesNothingBehind
<1>11. PendingIsOpen' /\ OnlyThePair' /\ FreshReading'
  BY <1>1, <1>4, <1>6, MatchWrites
<1> QED
  BY <1>8, <1>9, <1>10, <1>11 DEF LInv

(* A technical win moves nothing (disqualify). *)
LEMMA TechnicalStep ==
    ASSUME LInv, NEW m \in Match, NEW w \in Player, Technical(m, w)
    PROVE  LInv'
<1> DEFINE won == [winner |-> w, technical |-> TRUE]
<1>1. /\ pending[m] = None
      /\ result' = [result EXCEPT ![m] = won]
      /\ finishes' = [finishes EXCEPT ![m] = finishes[m] + 1]
      /\ UNCHANGED <<acct, rows, pending, active, adjusting, admin, overtaken,
                     cut, stale>>
  BY DEF Technical
<1>2. won \in Result /\ won # Open
  BY DEF Result, Open
<1> HIDE DEF won
<1>3. TypeOK /\ result'[m] = won /\ \A n \in Match \ {m} : result'[n] = result[n]
  BY <1>1 DEF LInv, TypeOK
<1>4. TypeOK'
  BY <1>1, <1>2, <1>3 DEF TypeOK
<1>5. LedgerBalance' /\ FreshReading'
  BY <1>1 DEF LInv, LedgerBalance, FreshReading, WholeDelta
<1>6. UndoLeavesNothingBehind' /\ PendingIsOpen' /\ OnlyThePair'
  BY <1>1, <1>2, <1>3 DEF LInv, UndoLeavesNothingBehind, PendingIsOpen,
                          OnlyThePair
<1> QED
  BY <1>4, <1>5, <1>6 DEF LInv

(* Whatever the order of its two rows, the reversal of a net keeps points  *)
(* and journal together; it takes the net off the sums exactly unless it   *)
(* meets the floor (netReversal).                                          *)
LEMMA ReversedFacts ==
    ASSUME NEW a \in Account, NEW net \in Net, NEW playFirst \in BOOLEAN
    PROVE  LET h == Reversed(a, net, playFirst) IN
           /\ h \in Account
           /\ h.points - a.points = h.logged - a.logged
           /\ ~MeetsFloor(a, net) => /\ h.whole = a.whole - net.whole
                                     /\ h.exact = a.exact - net.exact
                                     /\ h.bonus = a.bonus - net.bonus
<1> DEFINE w == 0 - net.whole
           e == 0 - net.exact
           b == 0 - net.bonus
           h == Reversed(a, net, playFirst)
<1>1. w \in Int /\ e \in Int /\ b \in Int
  BY DEF Net
<1>2. ~MeetsFloor(a, net) => /\ a.points + w >= 0
                             /\ a.points + b >= 0
                             /\ a.points + w + b >= 0
  BY DEF MeetsFloor, Account, Net
<1>3. a.whole - net.whole = a.whole + w /\ a.exact - net.exact = a.exact + e
      /\ a.bonus - net.bonus = a.bonus + b
  BY DEF Account, Net
<1>4. CASE playFirst
  <2> DEFINE g == Play(a, w, e)
  <2>1. h = Bonus(g, b)
    BY <1>4 DEF Reversed
  <2>2. /\ g \in Account
        /\ g.points - a.points = g.logged - a.logged
        /\ g.whole - a.whole = g.points - a.points
        /\ g.exact = a.exact + e + U * (g.whole - a.whole - w)
        /\ g.bonus = a.bonus
        /\ a.points + w >= 0 => g.points = a.points + w
    BY <1>1, PlayFacts
  <2> HIDE DEF g, h, w, e, b
  <2>3. /\ h \in Account
        /\ h.points - g.points = h.logged - g.logged
        /\ h.bonus - g.bonus = h.points - g.points
        /\ h.whole = g.whole /\ h.exact = g.exact
        /\ g.points + b >= 0 => h.points = g.points + b
    BY <1>1, <2>1, <2>2, BonusFacts
  <2>4. /\ a.points \in Int /\ a.logged \in Int /\ a.whole \in Int
        /\ a.exact \in Int /\ a.bonus \in Int
        /\ g.points \in Int /\ g.logged \in Int /\ g.whole \in Int
        /\ g.exact \in Int /\ g.bonus \in Int
        /\ h.points \in Int /\ h.logged \in Int /\ h.whole \in Int
        /\ h.exact \in Int /\ h.bonus \in Int
    BY <2>2, <2>3 DEF Account
  <2>5. /\ g.points - a.points = g.logged - a.logged
        /\ h.points - g.points = h.logged - g.logged
    BY <2>2, <2>3
  <2>6. h.points - a.points = h.logged - a.logged
    BY <2>4, <2>5
  <2>7. ASSUME ~MeetsFloor(a, net)
        PROVE  h.whole = a.whole + w /\ h.exact = a.exact + e
               /\ h.bonus = a.bonus + b
    <3>1. g.points = a.points + w /\ h.points = a.points + w + b
      BY <1>1, <1>2, <2>2, <2>3, <2>4, <2>7
    <3>2. /\ g.whole - a.whole = g.points - a.points /\ h.whole = g.whole
          /\ h.bonus - g.bonus = h.points - g.points /\ g.bonus = a.bonus
      BY <2>2, <2>3
    <3>3. h.whole = a.whole + w /\ h.bonus = a.bonus + b
      BY <1>1, <2>4, <3>1, <3>2
    <3>4. h.exact = a.exact + e
      BY <1>1, <2>2, <2>3, <2>4, <3>3 DEF U
    <3> QED
      BY <3>3, <3>4
  <2> QED
    BY <1>3, <2>3, <2>6, <2>7 DEF h
<1>5. CASE ~playFirst
  <2> DEFINE g == Bonus(a, b)
  <2>1. h = Play(g, w, e)
    BY <1>5 DEF Reversed
  <2>2. /\ g \in Account
        /\ g.points - a.points = g.logged - a.logged
        /\ g.bonus - a.bonus = g.points - a.points
        /\ g.whole = a.whole /\ g.exact = a.exact
        /\ a.points + b >= 0 => g.points = a.points + b
    BY <1>1, BonusFacts
  <2> HIDE DEF g, h, w, e, b
  <2>3. /\ h \in Account
        /\ h.points - g.points = h.logged - g.logged
        /\ h.whole - g.whole = h.points - g.points
        /\ h.exact = g.exact + e + U * (h.whole - g.whole - w)
        /\ h.bonus = g.bonus
        /\ g.points + w >= 0 => h.points = g.points + w
    BY <1>1, <2>1, <2>2, PlayFacts
  <2>4. /\ a.points \in Int /\ a.logged \in Int /\ a.whole \in Int
        /\ a.exact \in Int /\ a.bonus \in Int
        /\ g.points \in Int /\ g.logged \in Int /\ g.whole \in Int
        /\ g.exact \in Int /\ g.bonus \in Int
        /\ h.points \in Int /\ h.logged \in Int /\ h.whole \in Int
        /\ h.exact \in Int /\ h.bonus \in Int
    BY <2>2, <2>3 DEF Account
  <2>5. /\ g.points - a.points = g.logged - a.logged
        /\ h.points - g.points = h.logged - g.logged
    BY <2>2, <2>3
  <2>6. h.points - a.points = h.logged - a.logged
    BY <2>4, <2>5
  <2>7. ASSUME ~MeetsFloor(a, net)
        PROVE  h.whole = a.whole + w /\ h.exact = a.exact + e
               /\ h.bonus = a.bonus + b
    <3>1. g.points = a.points + b /\ h.points = a.points + w + b
      BY <1>1, <1>2, <2>2, <2>3, <2>4, <2>7
    <3>2. /\ h.whole - g.whole = h.points - g.points /\ g.whole = a.whole
          /\ g.bonus - a.bonus = g.points - a.points /\ h.bonus = g.bonus
      BY <2>2, <2>3
    <3>3. h.whole = a.whole + w /\ h.bonus = a.bonus + b
      <4>1. g.points - a.points = b /\ h.points - g.points = w
        BY <1>1, <2>4, <3>1
      <4>2. g.bonus = a.bonus + b /\ h.whole = a.whole + w
        BY <1>1, <2>4, <3>2, <4>1
      <4> QED
        BY <3>2, <4>2
    <3>4. h.exact = a.exact + e
      BY <1>1, <2>2, <2>3, <2>4, <3>3 DEF U
    <3> QED
      BY <3>3, <3>4
  <2> QED
    BY <1>3, <2>3, <2>6, <2>7 DEF h
<1> QED
  BY <1>4, <1>5

(* The deciding point is undone. *)
LEMMA UndoStep ==
    ASSUME LInv, NEW m \in Match, NEW playFirst \in BOOLEAN, Undo(m, playFirst)
    PROVE  LInv'
<1> DEFINE h(p) == Reversed(acct[p], rows[m][p], playFirst)
           met == {p \in Player : MeetsFloor(acct[p], rows[m][p])}
<1>1. /\ result[m] # Open
      /\ acct' = [p \in Player |-> h(p)]
      /\ rows' = RowsAfter(m)
      /\ result' = [result EXCEPT ![m] = Open]
      /\ cut' = cut \cup ({m} \X met)
      /\ stale' = stale \cup Overtaken(m)
      /\ UNCHANGED <<pending, active, adjusting, finishes, admin, overtaken>>
  BY DEF Undo
<1>2. TypeOK /\ acct \in [Player -> Account] /\ rows \in [Match -> [Player -> Net]]
  BY DEF LInv, TypeOK
<1>3. \A p \in Player :
         /\ h(p) \in Account
         /\ h(p).points - acct[p].points = h(p).logged - acct[p].logged
         /\ p \notin met => /\ h(p).whole = acct[p].whole - rows[m][p].whole
                            /\ h(p).exact = acct[p].exact - rows[m][p].exact
                            /\ h(p).bonus = acct[p].bonus - rows[m][p].bonus
  BY <1>2, ReversedFacts
<1>4. \A p \in Player \ Pair[m] : p \notin met /\ rows[m][p] = NoNet
  <2> SUFFICES ASSUME NEW p \in Player \ Pair[m]
               PROVE  ~MeetsFloor(acct[p], rows[m][p]) /\ rows[m][p] = NoNet
    OBVIOUS
  <2>1. rows[m][p] = NoNet /\ acct[p].points \in Nat
    BY <1>2 DEF LInv, OnlyThePair, Account
  <2> QED
    BY <2>1 DEF MeetsFloor, NoNet
<1> HIDE DEF h, met
<1>5. acct' \in [Player -> Account]
  BY <1>1, <1>3
<1>6. \A p \in Player \ Pair[m] : /\ acct'[p].whole = acct[p].whole
                                  /\ acct'[p].exact = acct[p].exact
                                  /\ acct'[p].bonus = acct[p].bonus
  <2> SUFFICES ASSUME NEW p \in Player \ Pair[m]
               PROVE  /\ h(p).whole = acct[p].whole
                      /\ h(p).exact = acct[p].exact
                      /\ h(p).bonus = acct[p].bonus
    BY <1>1
  <2>1. p \notin met /\ rows[m][p] = NoNet /\ acct[p] \in Account
    BY <1>2, <1>4
  <2> QED
    BY <1>3, <2>1 DEF NoNet, Account
<1>7. /\ rows' \in [Match -> [Player -> Net]]
      /\ \A n \in Match \ {m} : rows'[n] = rows[n]
      /\ \A p \in Player :
            rows'[m][p] =
                [whole |-> rows[m][p].whole + acct'[p].whole - acct[p].whole,
                 exact |-> rows[m][p].exact + acct'[p].exact - acct[p].exact,
                 bonus |-> rows[m][p].bonus + acct'[p].bonus - acct[p].bonus]
  BY <1>1, <1>2, <1>5, RowsFacts
<1>8. /\ pending'[m] = None /\ result'[m] = Open
      /\ \A n \in Match \ {m} : /\ pending'[n] = pending[n]
                                /\ result'[n] = result[n]
  BY <1>1, <1>2 DEF LInv, PendingIsOpen, TypeOK
<1>9. TypeOK'
  <2>1. result' \in [Match -> Result]
    BY <1>1, <1>2 DEF TypeOK, Result, Open
  <2>2. cut' \subseteq Match \X Player /\ stale' \subseteq Match
    BY <1>1, <1>2 DEF TypeOK, met, Overtaken
  <2> QED
    BY <1>1, <1>2, <1>5, <1>7, <2>1, <2>2 DEF TypeOK
<1>10. LedgerBalance'
  <2> SUFFICES ASSUME NEW p \in Player, p \notin overtaken
               PROVE  acct'[p].points = Opening[p] + acct'[p].logged
    BY <1>1 DEF LedgerBalance
  <2>1. acct[p].points = Opening[p] + acct[p].logged
    BY DEF LInv, LedgerBalance
  <2>2. /\ acct[p] \in Account /\ acct'[p] \in Account /\ Opening[p] \in Nat
        /\ acct'[p].points - acct[p].points = acct'[p].logged - acct[p].logged
    BY <1>1, <1>2, <1>3, <1>5, LedgerAssumption
  <2> QED
    BY <2>1, <2>2 DEF Account
<1>11. UndoLeavesNothingBehind'
  <2> SUFFICES ASSUME NEW n \in Match, NEW p \in Player, result'[n] = Open,
                      <<n, p>> \notin cut'
               PROVE  rows'[n][p] = NoNet
    BY DEF UndoLeavesNothingBehind
  <2>1. CASE n # m
    BY <1>1, <1>7, <1>8, <2>1 DEF LInv, UndoLeavesNothingBehind
  <2>2. CASE n = m
    <3>1. p \notin met
      BY <1>1, <2>2
    <3>2. /\ acct'[p].whole = acct[p].whole - rows[m][p].whole
          /\ acct'[p].exact = acct[p].exact - rows[m][p].exact
          /\ acct'[p].bonus = acct[p].bonus - rows[m][p].bonus
      BY <1>1, <1>3, <3>1
    <3>3. acct[p] \in Account /\ rows[m][p] \in Net
      BY <1>2
    <3>4. /\ rows[m][p].whole + acct'[p].whole - acct[p].whole = 0
          /\ rows[m][p].exact + acct'[p].exact - acct[p].exact = 0
          /\ rows[m][p].bonus + acct'[p].bonus - acct[p].bonus = 0
      BY <3>2, <3>3 DEF Account, Net
    <3> QED
      BY <1>7, <2>2, <3>4 DEF NoNet
  <2> QED
    BY <2>1, <2>2
<1>12. PendingIsOpen' /\ OnlyThePair' /\ FreshReading'
  BY <1>1, <1>5, <1>6, <1>8, MatchWrites
<1> QED
  BY <1>9, <1>10, <1>11, <1>12 DEF LInv

----------------------------------------------------------------------------
(* The steps of the administrators *)

(* A player with any place at all has a best one, among the eight. *)
LEMMA BestPlaceFacts ==
    ASSUME TypeOK, NEW p \in Player, BestPlace(p) # 0
    PROVE  BestPlace(p) \in 1..8
<1> DEFINE S == PlacesOf(p)
<1>1. S \subseteq 1..8
  BY LedgerAssumption DEF PlacesOf, PlaceOf
<1> HIDE DEF S
<1>2. S # {} /\ BestPlace(p) = CHOOSE i \in S : \A j \in S : i <= j
  BY DEF BestPlace, S
<1>3. \E i \in S : \A j \in S : i <= j
  <2> SUFFICES ASSUME \A i \in S : \E j \in S : j < i
               PROVE  FALSE
    BY <1>1
  <2>1. 1 \notin S /\ 2 \notin S /\ 3 \notin S
    BY <1>1
  <2>2. 4 \notin S /\ 5 \notin S
    BY <1>1, <2>1
  <2>3. 6 \notin S /\ 7 \notin S
    BY <1>1, <2>1, <2>2
  <2>4. 8 \notin S
    BY <1>1, <2>1, <2>2, <2>3
  <2>5. ASSUME NEW i \in S PROVE FALSE
    <3>1. i \in {1, 2, 3, 4, 5, 6, 7, 8}
      BY <1>1
    <3> QED
      BY <2>1, <2>2, <2>3, <2>4, <3>1
  <2> QED
    BY <1>2, <2>5
<1> QED
  BY <1>1, <1>2, <1>3

(* The bonuses an administrator hands out (awardBonuses). *)
LEMMA AwardBonusesStep ==
    ASSUME LInv, AwardBonuses
    PROVE  LInv'
<1> DEFINE h(p) == Bonus(acct[p], PlaceBonus[BestPlace(p)])
<1>1. /\ acct' = [p \in Player |-> IF Due(p) THEN h(p) ELSE acct[p]]
      /\ UNCHANGED <<rows, result, pending, active, adjusting, finishes, admin,
                     overtaken, cut, stale>>
  BY DEF AwardBonuses
<1>2. TypeOK /\ acct \in [Player -> Account]
  BY DEF LInv, TypeOK
<1>3. ASSUME NEW p \in Player, Due(p)
      PROVE  /\ h(p) \in Account
             /\ h(p).points - acct[p].points = h(p).logged - acct[p].logged
             /\ h(p).whole = acct[p].whole /\ h(p).exact = acct[p].exact
  <2>1. BestPlace(p) \in 1..8
    BY <1>2, <1>3, BestPlaceFacts DEF Due
  <2>2. PlaceBonus[BestPlace(p)] \in Int /\ acct[p] \in Account
    BY <1>2, <2>1, LedgerAssumption
  <2> QED
    BY <2>2, BonusFacts
<1> HIDE DEF h
<1>4. \A p \in Player :
         /\ acct'[p] \in Account
         /\ acct'[p].points - acct[p].points = acct'[p].logged - acct[p].logged
         /\ acct'[p].whole = acct[p].whole /\ acct'[p].exact = acct[p].exact
  <2> SUFFICES ASSUME NEW p \in Player
      PROVE  /\ acct'[p] \in Account
             /\ acct'[p].points - acct[p].points
                  = acct'[p].logged - acct[p].logged
             /\ acct'[p].whole = acct[p].whole /\ acct'[p].exact = acct[p].exact
    OBVIOUS
  <2>1. CASE Due(p)
    BY <1>1, <1>3, <2>1
  <2>2. CASE ~Due(p)
    BY <1>1, <1>2, <2>2 DEF Account
  <2> QED
    BY <2>1, <2>2
<1>5. acct' \in [Player -> Account]
  BY <1>1, <1>4
<1>6. TypeOK'
  BY <1>1, <1>2, <1>5 DEF TypeOK
<1>7. LedgerBalance'
  <2> SUFFICES ASSUME NEW p \in Player, p \notin overtaken
               PROVE  acct'[p].points = Opening[p] + acct'[p].logged
    BY <1>1 DEF LedgerBalance
  <2>1. acct[p].points = Opening[p] + acct[p].logged
    BY DEF LInv, LedgerBalance
  <2>2. acct[p] \in Account /\ acct'[p] \in Account /\ Opening[p] \in Nat
    BY <1>2, <1>5, LedgerAssumption
  <2> QED
    BY <1>4, <2>1, <2>2 DEF Account
<1> QED
  BY <1>1, <1>4, <1>5, <1>6, <1>7, AdminMatches DEF LInv

(* A penalty (penalize). *)
LEMMA PenalizeStep ==
    ASSUME LInv, NEW q \in Player, Penalize(q)
    PROVE  LInv'
<1> DEFINE h == Penalised(acct[q])
<1>1. /\ acct' = [acct EXCEPT ![q] = h]
      /\ admin' = admin + 1
      /\ UNCHANGED <<rows, result, pending, active, adjusting, finishes,
                     overtaken, cut, stale>>
  BY DEF Penalize
<1>2. TypeOK /\ acct \in [Player -> Account]
  BY DEF LInv, TypeOK
<1>3. /\ h \in Account
      /\ h.points - acct[q].points = h.logged - acct[q].logged
      /\ h.whole = acct[q].whole /\ h.exact = acct[q].exact
  BY <1>2, PenaltyFacts
<1> HIDE DEF h
<1>4. /\ acct' \in [Player -> Account]
      /\ acct'[q] = h /\ \A p \in Player \ {q} : acct'[p] = acct[p]
  BY <1>1, <1>2, <1>3
<1>5. TypeOK'
  BY <1>1, <1>2, <1>4 DEF TypeOK
<1>6. LedgerBalance'
  <2> SUFFICES ASSUME NEW p \in Player, p \notin overtaken
               PROVE  acct'[p].points = Opening[p] + acct'[p].logged
    BY <1>1 DEF LedgerBalance
  <2>1. acct[p].points = Opening[p] + acct[p].logged
    BY DEF LInv, LedgerBalance
  <2>2. acct[p] \in Account /\ acct'[p] \in Account /\ Opening[p] \in Nat
    BY <1>2, <1>4, LedgerAssumption
  <2>3. CASE p = q
    BY <1>3, <1>4, <2>1, <2>2, <2>3 DEF Account
  <2>4. CASE p # q
    BY <1>4, <2>1, <2>4
  <2> QED
    BY <2>3, <2>4
<1>7. \A p \in Player : acct'[p].whole = acct[p].whole
                        /\ acct'[p].exact = acct[p].exact
  BY <1>3, <1>4
<1> QED
  BY <1>1, <1>4, <1>5, <1>6, <1>7, AdminMatches DEF LInv

(* An adjustment has read the points (adjust). *)
LEMMA AdjustReadStep ==
    ASSUME LInv, NEW q \in Player, AdjustRead(q)
    PROVE  LInv'
<1>1. /\ adjusting' = [player |-> q, before |-> acct[q].points]
      /\ admin' = admin + 1
      /\ UNCHANGED <<acct, rows, result, pending, active, finishes, overtaken,
                     cut, stale>>
  BY DEF AdjustRead
<1>2. TypeOK /\ acct[q].points \in Nat
  BY DEF LInv, TypeOK, Account
<1>3. TypeOK'
  BY <1>1, <1>2 DEF TypeOK
<1>4. LedgerBalance'
  BY <1>1 DEF LInv, LedgerBalance
<1> QED
  BY <1>1, <1>2, <1>3, <1>4, AdminMatches DEF LInv, TypeOK

(* It writes: who reads the points that are still there keeps the balance, *)
(* whoever does not is overtaken.                                          *)
LEMMA AdjustWriteStep ==
    ASSUME LInv, NEW d \in AdjustBy, AdjustWrite(d)
    PROVE  LInv'
<1> DEFINE q == adjusting.player
           before == adjusting.before
           delta == Applied(before, d)
           h == [acct[q] EXCEPT !.points = before + delta,
                                !.logged = acct[q].logged + delta]
<1>1. TypeOK /\ acct \in [Player -> Account] /\ q \in Player /\ before \in Nat
  BY LedgerAssumption DEF LInv, TypeOK, AdjustWrite
<1>2. delta \in Int /\ before + delta \in Nat
  BY <1>1, AppliedFacts, LedgerAssumption
<1>3. /\ adjusting' = None
      /\ UNCHANGED <<rows, result, pending, active, finishes, admin, cut, stale>>
  BY DEF AdjustWrite
<1>4. CASE delta = 0
  <2>1. UNCHANGED <<acct, overtaken>>
    BY <1>4 DEF AdjustWrite
  <2>2. TypeOK'
    BY <1>1, <1>3, <2>1 DEF TypeOK
  <2>3. LedgerBalance'
    BY <2>1 DEF LInv, LedgerBalance
  <2> QED
    BY <1>1, <1>3, <2>1, <2>2, <2>3, AdminMatches DEF LInv
<1>5. CASE delta # 0
  <2>1. /\ acct' = [acct EXCEPT ![q] = h]
        /\ overtaken' = IF acct[q].points = before THEN overtaken
                        ELSE overtaken \cup {q}
    BY <1>5 DEF AdjustWrite
  <2> HIDE DEF delta
  <2>2. acct[q] \in Account
    BY <1>1
  <2> HIDE DEF q, before
  <2>3. acct[q].logged + delta \in Int
    BY <1>2, <2>2 DEF Account
  <2>4. /\ h \in Account
        /\ h.points = before + delta /\ h.logged = acct[q].logged + delta
        /\ h.whole = acct[q].whole /\ h.exact = acct[q].exact
    BY <1>2, <2>2, <2>3 DEF Account
  <2> HIDE DEF h
  <2>5. /\ acct' \in [Player -> Account]
        /\ acct'[q] = h /\ \A p \in Player \ {q} : acct'[p] = acct[p]
    BY <1>1, <2>1, <2>4
  <2>6. overtaken' \subseteq Player
    BY <1>1, <2>1 DEF TypeOK
  <2>7. TypeOK'
    BY <1>1, <1>3, <2>5, <2>6 DEF TypeOK
  <2>8. LedgerBalance'
    <3> SUFFICES ASSUME NEW p \in Player, p \notin overtaken'
                 PROVE  acct'[p].points = Opening[p] + acct'[p].logged
      BY DEF LedgerBalance
    <3>1. acct[p].points = Opening[p] + acct[p].logged
      BY <2>1 DEF LInv, LedgerBalance
    <3>2. CASE p = q
      <4>1. acct[q].points = before
        BY <2>1, <3>2
      <4>2. acct[q].logged \in Int /\ Opening[q] \in Nat
        BY <1>1, <2>2, LedgerAssumption DEF Account
      <4> QED
        BY <1>1, <1>2, <2>4, <2>5, <3>1, <3>2, <4>1, <4>2
    <3>3. CASE p # q
      BY <2>5, <3>1, <3>3
    <3> QED
      BY <3>2, <3>3
  <2>9. \A p \in Player : acct'[p].whole = acct[p].whole
                          /\ acct'[p].exact = acct[p].exact
    BY <2>4, <2>5
  <2> QED
    BY <1>3, <2>5, <2>7, <2>8, <2>9, AdminMatches DEF LInv
<1> QED
  BY <1>4, <1>5

(* A player is excluded from the rating, or restored. *)
LEMMA StatusStep ==
    ASSUME LInv, NEW q \in Player, Exclude(q) \/ Restore(q)
    PROVE  LInv'
<1>1. /\ active' \subseteq Player
      /\ UNCHANGED <<acct, rows, result, pending, adjusting, finishes, admin,
                     overtaken, cut, stale>>
  BY LedgerAssumption DEF Exclude, Restore, LInv, TypeOK
<1>2. TypeOK' /\ LedgerBalance' /\ acct' \in [Player -> Account]
  BY <1>1 DEF LInv, TypeOK, LedgerBalance
<1> QED
  BY <1>1, <1>2, AdminMatches DEF LInv

----------------------------------------------------------------------------
(* The theorems *)

LEMMA InitStep == Init => LInv
<1> SUFFICES ASSUME Init PROVE LInv
  OBVIOUS
<1>1. TypeOK
  BY LedgerAssumption DEF Init, TypeOK, Account, Net, NoNet, Result, Open
<1>2. LedgerBalance
  BY LedgerAssumption DEF Init, LedgerBalance
<1>3. /\ UndoLeavesNothingBehind /\ PendingIsOpen
      /\ OnlyThePair /\ FreshReading
  BY DEF Init, UndoLeavesNothingBehind, PendingIsOpen, OnlyThePair, FreshReading
<1> QED
  BY <1>1, <1>2, <1>3 DEF LInv

LEMMA NextStep == LInv /\ [Next]_vars => LInv'
<1> SUFFICES ASSUME LInv, [Next]_vars PROVE LInv'
  OBVIOUS
<1>1. ASSUME NEW m \in Match, NEW w \in Player, Read(m, w) PROVE LInv'
  BY <1>1, ReadStep
<1>2. ASSUME NEW m \in Match, NEW w \in Player, Technical(m, w) PROVE LInv'
  BY <1>2, TechnicalStep
<1>3. ASSUME NEW m \in Match, Award(m) PROVE LInv'
  BY <1>3, AwardStep
<1>4. ASSUME NEW m \in Match, NEW playFirst \in BOOLEAN, Undo(m, playFirst)
      PROVE  LInv'
  BY <1>4, UndoStep
<1>5. CASE AwardBonuses
  BY <1>5, AwardBonusesStep
<1>6. ASSUME NEW p \in Player, Penalize(p) PROVE LInv'
  BY <1>6, PenalizeStep
<1>7. ASSUME NEW p \in Player, AdjustRead(p) PROVE LInv'
  BY <1>7, AdjustReadStep
<1>8. ASSUME NEW p \in Player, Exclude(p) \/ Restore(p) PROVE LInv'
  BY <1>8, StatusStep
<1>9. ASSUME NEW d \in AdjustBy, AdjustWrite(d) PROVE LInv'
  BY <1>9, AdjustWriteStep
<1>10. CASE UNCHANGED vars
  BY <1>10 DEF LInv, TypeOK, LedgerBalance, UndoLeavesNothingBehind,
               PendingIsOpen, OnlyThePair, FreshReading, WholeDelta, vars
<1> QED
  BY <1>1, <1>2, <1>3, <1>4, <1>5, <1>6, <1>7, <1>8, <1>9, <1>10
     DEF Next, MatchStep, AdminStep

(* The inductive invariant holds of every behaviour. *)
THEOREM Invariance == Spec => []LInv
  BY InitStep, NextStep, PTL DEF Spec

(* Types, and with them that points are never negative, for any players,   *)
(* matches, bonus table and coefficient (applyPoints, adjust).             *)
THEOREM TypeCorrect == Spec => []TypeOK
<1>1. LInv => TypeOK
  BY DEF LInv
<1> QED
  BY <1>1, Invariance, PTL

(* The points are the sum of the journal for everybody no adjustment has   *)
(* overtaken (applyPoints, netReversal).                                   *)
THEOREM PointsAreTheJournal == Spec => []LedgerBalance
<1>1. LInv => LedgerBalance
  BY DEF LInv
<1> QED
  BY <1>1, Invariance, PTL

(* An open match has left no points behind (undo). *)
THEOREM UndoIsComplete == Spec => []UndoLeavesNothingBehind
<1>1. LInv => UndoLeavesNothingBehind
  BY DEF LInv
<1> QED
  BY <1>1, Invariance, PTL

(* A step that rates a match makes the whole points of its players the     *)
(* rounded sum of their exact ones.                                        *)
LEMMA RatingStep ==
    ASSUME LInv, NEW m \in Match, Award(m), m \notin stale,
           NEW p \in pending[m].rated
    PROVE  acct'[p].whole = Round(acct'[p].exact)
<1> DEFINE r == pending[m]
           h == WithBonus(Play(acct[p], r.delta[p], r.exact[p]), p,
                          PlaceOf(m, r.winner, p))
<1>1. r # None /\ r \in Reading /\ p \in Player
  BY LedgerAssumption DEF LInv, TypeOK, Award, OnlyThePair
<1>2. acct'[p] = h
  BY <1>1 DEF Award
<1>3. /\ h \in Account
      /\ h.exact = acct[p].exact + r.exact[p]
                     + U * (h.whole - acct[p].whole - r.delta[p])
  BY <1>1, AwardedAccount
<1>4. r.delta[p] = Round(acct[p].exact + r.exact[p]) - acct[p].whole
  BY <1>1 DEF LInv, FreshReading, WholeDelta
<1>5. acct[p] \in Account /\ r.exact[p] \in Int /\ r.delta[p] \in Int
  BY <1>1 DEF LInv, TypeOK, Reading
<1> HIDE DEF h, r
<1>6. acct[p].exact + r.exact[p] \in Int /\ acct[p].whole \in Int /\ h.whole \in Int
  BY <1>3, <1>5 DEF Account
<1> DEFINE n == acct[p].exact + r.exact[p]
           c == h.whole - acct[p].whole - r.delta[p]
<1>7. n \in Int /\ c \in Int
  BY <1>5, <1>6
<1>8. Round(h.exact) = Round(n) + c /\ Round(n) \in Int
  <2>1. h.exact = n + U * c
    BY <1>3
  <2> HIDE DEF n, c
  <2> QED
    BY <1>7, <2>1, RoundShift
<1>9. Round(n) = r.delta[p] + acct[p].whole
  <2>1. r.delta[p] = Round(n) - acct[p].whole
    BY <1>4
  <2> HIDE DEF n
  <2> QED
    BY <1>5, <1>6, <1>8, <2>1
<1> QED
  BY <1>2, <1>5, <1>6, <1>8, <1>9

(* So floors and earlier undos leave no error the next match does not make *)
(* good (wholeDelta, loggedExact).                                         *)
THEOREM RatingIsMadeGood == Spec => RatingMakesGood
<1> DEFINE A == \A m \in Match :
                  pending[m] # None /\ pending'[m] = None /\ m \notin stale =>
                     \A p \in pending[m].rated :
                        acct'[p].whole = Round(acct'[p].exact)
<1>1. LInv /\ [Next]_vars => A
  <2> SUFFICES ASSUME LInv, [Next]_vars, NEW m \in Match, pending[m] # None,
                      pending'[m] = None, m \notin stale
               PROVE  Award(m)
    BY RatingStep
  <2>1. ASSUME NEW n \in Match, NEW w \in Player, Read(n, w) PROVE FALSE
    BY <2>1 DEF Read, LInv, TypeOK
  <2>2. ASSUME NEW n \in Match, Award(n), n # m PROVE FALSE
    BY <2>2 DEF Award, LInv, TypeOK
  <2> QED
    BY <2>1, <2>2 DEF Next, MatchStep, AdminStep, Technical, Undo, AwardBonuses,
       Penalize, AdjustRead, AdjustWrite, Exclude, Restore, vars
<1>2. LInv /\ [Next]_vars => [A]_vars
  BY <1>1
<1> QED
  BY <1>2, Invariance, PTL DEF Spec, RatingMakesGood

----------------------------------------------------------------------------
(* One bonus for each player *)

(* A player's bonus is of one match, or of the administrators.             *)
OneSource(p) ==
    /\ acct[p].bonus >= 0
    /\ \A m \in Match : /\ rows[m][p].bonus >= 0
                        /\ rows[m][p].bonus > 0 => rows[m][p].bonus = acct[p].bonus
    /\ \A m, n \in Match : rows[m][p].bonus > 0 /\ rows[n][p].bonus > 0 => m = n

OneSourceEach == \A p \in Player : OneSource(p)

(* A bonus is added whole, and a reversal takes no more than it asks for.  *)
LEMMA BonusMoves ==
    ASSUME NEW a \in Account, NEW d \in Int
    PROVE  LET h == Bonus(a, d) IN
           /\ d >= 0 => h.bonus = a.bonus + d
           /\ d <= 0 => a.bonus + d <= h.bonus /\ h.bonus <= a.bonus
<1> DEFINE x == Applied(a.points, d)
<1>1. a.points \in Nat /\ a.bonus \in Int
  BY DEF Account
<1>2. /\ d >= 0 => x = d
      /\ d <= 0 => d <= x /\ x <= 0
      /\ x \in Int
  BY <1>1 DEF Applied
<1> HIDE DEF x
<1>3. Bonus(a, d) = [a EXCEPT !.points = @ + x, !.logged = @ + x, !.tour = @ + x, !.bonus = @ + x]
  BY DEF Bonus, Logged, x
<1>4. Bonus(a, d).bonus = a.bonus + x
  BY <1>3 DEF Account
<1> QED BY <1>1, <1>2, <1>4

(* A match gives a bonus to one who has none, or takes back no more than   *)
(* it gave.                                                                *)
LEMMA MatchBonus ==
    ASSUME LInv, NEW m \in Match, NEW p \in Player, OneSource(p),
           acct' \in [Player -> Account], rows' = RowsAfter(m),
           \/ acct'[p].bonus = acct[p].bonus
           \/ acct[p].bonus = 0 /\ acct'[p].bonus >= 0
           \/ /\ acct'[p].bonus <= acct[p].bonus
              /\ acct[p].bonus - rows[m][p].bonus <= acct'[p].bonus
    PROVE  OneSource(p)'
<1> DEFINE b == acct[p].bonus
           c == acct'[p].bonus
           r(n) == rows[n][p].bonus
<1>1. b \in Int /\ c \in Int /\ \A n \in Match : r(n) \in Int
  BY DEF LInv, TypeOK, Account, Net
<1>2. \A n \in Match : r(n)' = IF n = m THEN r(m) + c - b ELSE r(n)
  <2>1. /\ \A n \in Match \ {m} : rows'[n] = rows[n]
        /\ rows'[m][p] = [whole |-> rows[m][p].whole + acct'[p].whole - acct[p].whole,
                          exact |-> rows[m][p].exact + acct'[p].exact - acct[p].exact,
                          bonus |-> rows[m][p].bonus + acct'[p].bonus - acct[p].bonus]
    BY RowsFacts DEF LInv
  <2>2. rows'[m][p].bonus = rows[m][p].bonus + acct'[p].bonus - acct[p].bonus
    BY <2>1
  <2> QED BY <2>1, <2>2
<1>3. /\ b >= 0
      /\ \A n \in Match : r(n) >= 0 /\ (r(n) > 0 => r(n) = b)
      /\ \A n, k \in Match : r(n) > 0 /\ r(k) > 0 => n = k
  BY DEF OneSource
<1>4. c = b \/ (b = 0 /\ c >= 0) \/ (c <= b /\ b - r(m) <= c)
  OBVIOUS
<1>5. \A n \in Match : r(n)' \in Int
  BY <1>1, <1>2
<1>6. /\ c >= 0
      /\ \A n \in Match : r(n)' >= 0 /\ (r(n)' > 0 => r(n)' = c)
      /\ \A n, k \in Match : r(n)' > 0 /\ r(k)' > 0 => n = k
  <2> HIDE DEF b, c, r
  <2>1. CASE c = b
    <3>1. \A n \in Match : r(n)' = r(n)
      BY <1>1, <1>2, <2>1
    <3> QED BY <1>3, <2>1, <3>1
  <2>2. CASE b = 0 /\ c >= 0
    <3>1. \A n \in Match : r(n) = 0
      BY <1>1, <1>3, <2>2
    <3>2. \A n \in Match : r(n)' = IF n = m THEN c ELSE 0
      BY <1>1, <1>2, <2>2, <3>1
    <3> QED BY <1>1, <2>2, <3>2
  <2>3. CASE r(m) = 0 /\ c <= b /\ b - r(m) <= c
    <3>1. c = b
      BY <1>1, <2>3
    <3> QED BY <2>1, <3>1
  <2>4. CASE r(m) # 0 /\ c <= b /\ b - r(m) <= c
    <3>1. r(m) = b /\ r(m) > 0 /\ c >= 0
      BY <1>1, <1>3, <2>4
    <3>2. \A n \in Match \ {m} : r(n) = 0
      BY <1>1, <1>3, <3>1
    <3>3. \A n \in Match : r(n)' = IF n = m THEN c ELSE 0
      BY <1>1, <1>2, <3>1, <3>2
    <3> QED BY <1>1, <3>1, <3>3
  <2> QED BY <1>4, <2>1, <2>2, <2>3, <2>4
<1> QED BY <1>6 DEF OneSource

LEMMA AwardBonus == ASSUME LInv, OneSourceEach, LInv', NEW m \in Match, Award(m) PROVE OneSourceEach'
<1> SUFFICES ASSUME NEW p \in Player PROVE OneSource(p)'
  BY DEF OneSourceEach
<1> DEFINE r == pending[m]
           g == Play(acct[p], r.delta[p], r.exact[p])
           place == PlaceOf(m, r.winner, p)
<1>1. /\ OneSource(p) /\ acct' \in [Player -> Account] /\ rows' = RowsAfter(m)
      /\ r \in Reading /\ acct[p] \in Account
  BY DEF OneSourceEach, LInv, TypeOK, Award
<1>2. acct'[p] = IF p \in r.rated THEN WithBonus(g, p, place) ELSE acct[p]
  BY DEF Award
<1>3. g \in Account /\ g.bonus = acct[p].bonus
  <2>1. r.delta[p] \in Int /\ r.exact[p] \in Int
    BY <1>1 DEF Reading
  <2> QED BY <1>1, <2>1, PlayFacts
<1>4. place \in 0..8
  BY LedgerAssumption DEF PlaceOf
<1> HIDE DEF r, g, place
<1>5. CASE acct'[p] = acct[p] \/ acct'[p] = g
  BY <1>1, <1>3, <1>5, MatchBonus
<1>6. CASE place # 0 /\ ~HasBonus(p) /\ acct'[p] = Bonus(g, PlaceBonus[place])
  <2>1. PlaceBonus[place] \in Nat
    BY <1>4, <1>6, LedgerAssumption
  <2>2. acct[p].bonus = 0
    BY <1>1, <1>6 DEF HasBonus, OneSource, Account
  <2>3. acct'[p].bonus = g.bonus + PlaceBonus[place]
    BY <1>3, <1>6, <2>1, BonusMoves
  <2>4. acct'[p].bonus >= 0
    BY <1>3, <2>1, <2>2, <2>3
  <2> QED BY <1>1, <2>2, <2>4, MatchBonus
<1> QED BY <1>2, <1>5, <1>6 DEF WithBonus

LEMMA UndoBonus ==
    ASSUME LInv, OneSourceEach, LInv', NEW m \in Match, NEW playFirst \in BOOLEAN, Undo(m, playFirst)
    PROVE  OneSourceEach'
<1> SUFFICES ASSUME NEW p \in Player PROVE OneSource(p)'
  BY DEF OneSourceEach
<1> DEFINE net == rows[m][p]
           w == 0 - net.whole
           e == 0 - net.exact
           b == 0 - net.bonus
<1>1. /\ OneSource(p) /\ acct' \in [Player -> Account] /\ rows' = RowsAfter(m)
      /\ net \in Net /\ acct[p] \in Account
  BY DEF OneSourceEach, LInv, TypeOK, Undo
<1>2. acct'[p] = Reversed(acct[p], net, playFirst)
  BY DEF Undo
<1>3. w \in Int /\ e \in Int /\ b \in Int /\ b <= 0 /\ acct[p].bonus \in Int
  BY <1>1 DEF Net, OneSource, Account
<1>4. acct[p].bonus + b = acct[p].bonus - net.bonus
  BY <1>1 DEF Net, Account
<1>5. acct'[p] = Bonus(Play(acct[p], w, e), b) \/ acct'[p] = Play(Bonus(acct[p], b), w, e)
  BY <1>2 DEF Reversed
<1> HIDE DEF w, e, b
<1>6. acct[p].bonus + b <= acct'[p].bonus /\ acct'[p].bonus <= acct[p].bonus
  <2>1. CASE acct'[p] = Bonus(Play(acct[p], w, e), b)
    <3>1. Play(acct[p], w, e) \in Account /\ Play(acct[p], w, e).bonus = acct[p].bonus
      <4> HIDE DEF net
      <4> QED BY <1>1, <1>3, PlayFacts
    <3> QED BY <1>3, <2>1, <3>1, BonusMoves
  <2>2. CASE acct'[p] = Play(Bonus(acct[p], b), w, e)
    <3>1. Bonus(acct[p], b) \in Account
      BY <1>1, <1>3, BonusFacts
    <3> DEFINE x == Bonus(acct[p], b)
    <3>2. acct[p].bonus + b <= x.bonus /\ x.bonus <= acct[p].bonus
      BY <1>1, <1>3, BonusMoves
    <3> HIDE DEF x
    <3>3. Play(x, w, e).bonus = x.bonus
      BY <1>3, <3>1, PlayFacts DEF x
    <3> QED BY <2>2, <3>2, <3>3 DEF x
  <2> QED BY <1>5, <2>1, <2>2
<1> QED BY <1>1, <1>4, <1>6, MatchBonus

(* An administrator gives a bonus to one who has none: then no match has   *)
(* given one either.                                                       *)
LEMMA AdminBonus == ASSUME LInv, OneSourceEach, AwardBonuses PROVE OneSourceEach'
<1> SUFFICES ASSUME NEW p \in Player PROVE OneSource(p)'
  BY DEF OneSourceEach
<1>1. OneSource(p) /\ acct[p] \in Account /\ UNCHANGED rows
  BY DEF OneSourceEach, LInv, TypeOK, AwardBonuses
<1>2. CASE ~Due(p)
  <2>1. acct'[p] = acct[p]
    BY <1>2 DEF AwardBonuses
  <2> QED BY <1>1, <2>1 DEF OneSource
<1>3. CASE Due(p)
  <2>1. PlaceBonus[BestPlace(p)] \in Nat
    BY <1>3, BestPlaceFacts, LedgerAssumption DEF Due, LInv
  <2>2. acct'[p] = Bonus(acct[p], PlaceBonus[BestPlace(p)]) /\ acct[p].bonus = 0
    BY <1>1, <1>3 DEF AwardBonuses, Due, HasBonus, OneSource, Account
  <2>3. acct'[p].bonus = acct[p].bonus + PlaceBonus[BestPlace(p)]
    BY <1>1, <2>1, <2>2, BonusMoves
  <2>4. acct'[p].bonus >= 0
    BY <2>1, <2>2, <2>3
  <2>5. \A m \in Match : rows[m][p].bonus = 0
    <3> TAKE m \in Match
    <3>1. rows[m][p].bonus \in Int
      BY DEF LInv, TypeOK, Net
    <3> QED BY <1>1, <2>2, <3>1 DEF OneSource
  <2> QED BY <1>1, <2>4, <2>5 DEF OneSource
<1> QED BY <1>2, <1>3

(* Penalties and adjustments leave the bonuses alone.                      *)
LEMMA OtherBonus ==
    ASSUME LInv, OneSourceEach, UNCHANGED rows,
           \A p \in Player : acct'[p].bonus = acct[p].bonus
    PROVE  OneSourceEach'
BY DEF OneSourceEach, OneSource

LEMMA BonusStep == LInv /\ OneSourceEach /\ LInv' /\ [Next]_vars => OneSourceEach'
<1> SUFFICES ASSUME LInv, OneSourceEach, LInv', [Next]_vars PROVE OneSourceEach'
  OBVIOUS
<1>1. acct \in [Player -> Account]
  BY DEF LInv, TypeOK
<1>2. ASSUME NEW m \in Match, Award(m) PROVE OneSourceEach'
  BY <1>2, AwardBonus
<1>3. ASSUME NEW m \in Match, NEW playFirst \in BOOLEAN, Undo(m, playFirst)
      PROVE  OneSourceEach'
  BY <1>3, UndoBonus
<1>4. ASSUME NEW q \in Player, Penalize(q) PROVE OneSourceEach'
  <2>1. acct' = [acct EXCEPT ![q] = Penalised(acct[q])] /\ UNCHANGED rows
    BY <1>4 DEF Penalize
  <2>2. Penalised(acct[q]).bonus = acct[q].bonus
    BY <1>1, PenaltyFacts
  <2> QED BY <1>1, <2>1, <2>2, OtherBonus
<1>5. ASSUME NEW d \in AdjustBy, AdjustWrite(d) PROVE OneSourceEach'
  <2> DEFINE q == adjusting.player
             delta == Applied(adjusting.before, d)
             x == [acct[q] EXCEPT !.points = adjusting.before + delta, !.logged = @ + delta]
  <2>1. UNCHANGED rows /\ (UNCHANGED acct \/ acct' = [acct EXCEPT ![q] = x])
    BY <1>5 DEF AdjustWrite
  <2>2. q \in Player
    BY <1>5 DEF AdjustWrite, LInv, TypeOK
  <2>3. x.bonus = acct[q].bonus
    BY <1>1, <2>2 DEF Account
  <2> HIDE DEF q, x
  <2> QED BY <1>1, <2>1, <2>2, <2>3, OtherBonus
<1>6. ASSUME UNCHANGED <<acct, rows>> PROVE OneSourceEach'
  BY <1>6, OtherBonus
<1> QED
  BY <1>2, <1>3, <1>4, <1>5, <1>6, AdminBonus
     DEF Next, MatchStep, AdminStep, Read, Technical, AdjustRead, Exclude, Restore, vars

(* A player has one bonus of a tournament at most, of one match or of the  *)
(* administrators, however often matches are finished and undone, floors   *)
(* cut reversals and bonuses are handed out (playersWithBonus,             *)
(* netReversal, awardBonuses).                                             *)
THEOREM BonusesAreUnique == Spec => []OneBonusPerPlayer
<1>1. Init => OneSourceEach
  BY DEF Init, OneSourceEach, OneSource, NoNet
<1>2. LInv /\ OneSourceEach => OneBonusPerPlayer
  <2> SUFFICES ASSUME LInv, OneSourceEach, NEW p \in Player
               PROVE  /\ Cardinality(BonusSources(p)) <= 1
                      /\ \A m \in BonusSources(p) : rows[m][p].bonus = acct[p].bonus
                      /\ acct[p].bonus >= 0
    BY DEF OneBonusPerPlayer
  <2>1. OneSource(p)
    BY DEF OneSourceEach
  <2>2. BonusSources(p) = {} \/ \E m \in Match : BonusSources(p) = {m}
    BY <2>1 DEF OneSource, BonusSources
  <2>3. Cardinality(BonusSources(p)) \in {0, 1}
    <3>1. CASE BonusSources(p) = {}
      BY <3>1, FS_EmptySet
    <3>2. CASE \E m \in Match : BonusSources(p) = {m}
      <4>1. PICK m \in Match : BonusSources(p) = {m}
        BY <3>2
      <4>2. Cardinality({m}) = 1
        BY FS_Singleton
      <4> QED BY <4>1, <4>2
    <3> QED BY <2>2, <3>1, <3>2
  <2> QED BY <2>1, <2>3 DEF OneSource, BonusSources
<1> QED BY <1>1, <1>2, BonusStep, Invariance, PTL DEF Spec

=============================================================================
