-------------------------- MODULE SidePanelsProofs --------------------------
(***************************************************************************)
(* The risk halts of the side panels, for every number of panels, every    *)
(* record and every order in which pages, answers and resumes are put in   *)
(* it.                                                                     *)
(*                                                                         *)
(* A halt is a fold over the reads recorded, derived anew each time. What  *)
(* a fold gives is proved by induction on the days: RiskUnfolds makes it a *)
(* step at a time, RiskTyped and PastTheLimit follow it along one record,  *)
(* and AlikeUntil, LaterRead and LaterResume along two. That the instants  *)
(* order the reads and the resumes as they happened is PanelInv, an        *)
(* invariant of the panels.                                                *)
(***************************************************************************)
EXTENDS SidePanels, SumProofs

Record ==
    [valuations : [Days -> [value : Nat, readAt : 0..MaxInstant]],
     movements : [Days -> Int], reads : SUBSET Days, typed : [Days -> Int],
     answered : SUBSET Days, resumes : SUBSET [haltDay : 0..MaxDay, at : 0..MaxInstant]]

-----------------------------------------------------------------------------
(* The fold, one read at a time.                                           *)

\* The state of risk after a day is the read of that day on the state after the day before.
LEMMA RiskUnfolds ==
    ASSUME NEW record
    PROVE  /\ RiskAfter(record)[0] = NothingRead
           /\ \A d \in Days : RiskAfter(record)[d] = Read(record, RiskAfter(record)[d - 1], d)
  <1> DEFINE Is(g, n) == g = [d \in 0..n |->
                                IF d = 0 THEN NothingRead ELSE Read(record, g[d - 1], d)]
             Good == {n \in Nat : \E g : Is(g, n)}
  <1>1. MaxDay \in Nat
    BY PanelConstants
  <1>2. 0 \in Good
    <2> DEFINE g == [d \in 0..0 |-> NothingRead]
    <2> HIDE DEF NothingRead
    <2>1. \A d \in 0..0 : d = 0
      OBVIOUS
    <2>2. Is(g, 0)
      BY <2>1, Zenon
    <2> QED
      BY <2>2
  <1>3. ASSUME NEW n \in Nat, n \in Good PROVE n + 1 \in Good
    <2>1. PICK g : Is(g, n)
      BY <1>3
    <2> DEFINE last == Read(record, g[n], n + 1)
               h == [d \in 0..n + 1 |-> IF d = n + 1 THEN last ELSE g[d]]
    <2> HIDE DEF last
    <2>2. \A d \in 0..n + 1 : h[d] = IF d = n + 1 THEN last ELSE g[d]
      OBVIOUS
    <2>3. \A d \in 0..n : d \in 0..n + 1 /\ d # n + 1 /\ h[d] = g[d]
      BY <2>2
    <2> HIDE DEF h
    <2>4. ASSUME NEW d \in 0..n + 1
          PROVE  h[d] = IF d = 0 THEN NothingRead ELSE Read(record, h[d - 1], d)
      <3>1. CASE d = n + 1
        <4>1. h[d] = last /\ d # 0 /\ d - 1 = n /\ n \in 0..n
          BY <2>2, <3>1
        <4>2. h[d - 1] = g[n]
          BY <2>3, <4>1
        <4> QED
          BY <3>1, <4>1, <4>2 DEF last
      <3>2. CASE d # n + 1
        <4>1. d \in 0..n /\ (d # 0 => d - 1 \in 0..n)
          BY <3>2
        <4>2. h[d] = g[d] /\ (d # 0 => h[d - 1] = g[d - 1])
          BY <2>3, <4>1
        <4>3. g[d] = IF d = 0 THEN NothingRead ELSE Read(record, g[d - 1], d)
          BY <2>1, <4>1
        <4> QED
          BY <4>2, <4>3
      <3> QED
        BY <3>1, <3>2
    <2>5. h = [d \in 0..n + 1 |-> IF d = 0 THEN NothingRead ELSE Read(record, h[d - 1], d)]
      <3>1. h = [d \in 0..n + 1 |-> h[d]]
        BY DEF h
      <3> QED
        BY <2>4, <3>1
    <2> QED
      BY <2>5
  <1> HIDE DEF Good
  <1>4. MaxDay \in Good
    BY <1>1, <1>2, <1>3, Naturals
  <1> DEFINE after == CHOOSE g : Is(g, MaxDay)
  <1>5. Is(after, MaxDay)
    <2>1. \E g : Is(g, MaxDay)
      BY <1>4 DEF Good
    <2> HIDE DEF Is
    <2> QED
      BY <2>1
  <1>6. RiskAfter(record) = after
    BY DEF RiskAfter
  <1> HIDE DEF after
  <1>7. 0 \in 0..MaxDay /\ \A d \in Days : d \in 0..MaxDay /\ d # 0
    BY <1>1 DEF Days
  <1>8. \A d \in 0..MaxDay :
            after[d] = IF d = 0 THEN NothingRead ELSE Read(record, after[d - 1], d)
    BY <1>5
  <1> QED
    BY <1>6, <1>7, <1>8

\* Induction on the days: what holds before any, and of a day when it holds of the one before.
LEMMA DayByDay ==
    ASSUME NEW Good, 0 \in Good, \A d \in Days : d - 1 \in Good => d \in Good
    PROVE  0..MaxDay \subseteq Good
  <1> DEFINE P == {n \in Nat : n <= MaxDay => n \in Good}
  <1>1. MaxDay \in Nat
    BY PanelConstants
  <1>2. 0 \in P
    OBVIOUS
  <1>3. ASSUME NEW n \in Nat, n \in P PROVE n + 1 \in P
    <2>1. CASE n + 1 <= MaxDay
      <3>1. n + 1 \in Days /\ (n + 1) - 1 = n /\ n <= MaxDay
        BY <1>1, <2>1 DEF Days
      <3> QED
        BY <1>3, <3>1
    <2> QED
      BY <2>1
  <1> HIDE DEF P
  <1>4. Nat \subseteq P
    BY <1>2, <1>3, Naturals
  <1> QED
    BY <1>1, <1>4 DEF P

\* The fields of a state of risk, and of its fund, whatever is in them.
Shape(s) ==
    /\ DOMAIN s = {"fund", "day", "raised", "gap"}
    /\ DOMAIN s.fund = {"units", "price", "high"}

Unread(record, s, d) == record.valuations[d].value = None \/ s.gap
Known(record, s, d) == (s.day + 1)..d \subseteq record.reads \union record.answered
Market(record, s, d) == record.valuations[d].value - NetFlow(record, s.day + 1, d)
Fell(record, s, d) == Breached(s.fund, Revalued(s.fund, Market(record, s, d)))
Raised(record, s, d) ==
    IF Holding(record, s.raised, record.valuations[d].readAt) THEN s.raised
    ELSE IF Fell(record, s, d) THEN d ELSE None

\* What the fold keeps when a deposit buys units: their price and the highest yet.
LEMMA DepositKeepsPrice ==
    ASSUME NEW of, NEW amount, DOMAIN of = {"units", "price", "high"}
    PROVE  LET more == Deposited(of, amount)
           IN  /\ DOMAIN more = {"units", "price", "high"}
               /\ more.price = of.price /\ more.high = of.high
  BY DEF Deposited

\* And when the fund is valued again: its units.
LEMMA RevaluedKeepsUnits ==
    ASSUME NEW of, NEW value, DOMAIN of = {"units", "price", "high"}
    PROVE  LET after == Revalued(of, value)
           IN  /\ DOMAIN after = {"units", "price", "high"}
               /\ after.units = of.units
  <1> DEFINE price == PriceOf(value, of)
  <1> HIDE DEF price
  <1>1. Revalued(of, value) =
            IF of.units = 0 THEN of
            ELSE [of EXCEPT !.price = price, !.high = IF price > @ THEN price ELSE @]
    BY DEF Revalued, price
  <1> QED
    BY <1>1

\* The four things a day does to the state of risk: nothing;
LEMMA ReadSkips ==
    ASSUME NEW record, NEW s, NEW d, Unread(record, s, d)
    PROVE  Read(record, s, d) = s
  <1> DEFINE opened == Deposited(NoUnits, record.valuations[d].value)
             judged == [s EXCEPT !.fund = Deposited(Revalued(s.fund, record.valuations[d].value
                                                     - NetFlow(record, s.day + 1, d)),
                                             NetFlow(record, s.day + 1, d)),
                                 !.day = d,
                                 !.raised = RaisedBy(record, s, d, Breached(s.fund,
                                                Revalued(s.fund, record.valuations[d].value
                                                     - NetFlow(record, s.day + 1, d))))]
  <1> HIDE DEF opened, judged
  <1>1. Read(record, s, d) =
            IF record.valuations[d].value = None \/ s.gap THEN s
            ELSE IF s.day = None THEN [s EXCEPT !.fund = opened, !.day = d]
            ELSE IF (s.day + 1)..d \subseteq record.reads \cup record.answered
                 THEN judged ELSE [s EXCEPT !.gap = TRUE]
    BY DEF Read, opened, judged
  <1> QED
    BY <1>1 DEF Unread

\* open the fund;
LEMMA ReadOpens ==
    ASSUME NEW record, NEW s, Shape(s), NEW d, ~Unread(record, s, d), s.day = None
    PROVE  LET t == Read(record, s, d) IN
           /\ Shape(t) /\ t.day = d /\ t.raised = s.raised /\ t.gap = s.gap
           /\ t.fund.price = Scale /\ t.fund.high = Scale
  <1> DEFINE t == Read(record, s, d)
             opened == Deposited(NoUnits, record.valuations[d].value)
  <1>1. /\ DOMAIN opened = {"units", "price", "high"}
        /\ opened.price = Scale /\ opened.high = Scale
    <2>1. DOMAIN NoUnits = {"units", "price", "high"}
          /\ NoUnits.price = Scale /\ NoUnits.high = Scale
      BY DEF NoUnits
    <2> QED
      BY <2>1, DepositKeepsPrice
  <1>2. ~(record.valuations[d].value = None \/ s.gap)
    BY DEF Unread
  <1>3. t = [s EXCEPT !.fund = opened, !.day = d]
    BY <1>2 DEF Read
  <1> HIDE DEF opened, t
  <1>4. /\ DOMAIN t = DOMAIN s /\ t.fund = opened /\ t.day = d
        /\ t.raised = s.raised /\ t.gap = s.gap
    BY <1>3 DEF Shape
  <1>5. Shape(t) /\ t.fund.price = Scale /\ t.fund.high = Scale
    BY <1>1, <1>4 DEF Shape
  <1> QED
    BY <1>4, <1>5 DEF t

\* stop at a span that is not recorded;
LEMMA ReadStopsThere ==
    ASSUME NEW record, NEW s, Shape(s), NEW d, ~Unread(record, s, d), s.day # None,
           ~Known(record, s, d)
    PROVE  LET t == Read(record, s, d) IN
           /\ Shape(t) /\ t.day = s.day /\ t.raised = s.raised /\ t.gap \in BOOLEAN /\ t.gap
           /\ t.fund = s.fund
  <1> DEFINE t == Read(record, s, d)
  <1>1. /\ ~(record.valuations[d].value = None \/ s.gap)
        /\ ~((s.day + 1)..d \subseteq record.reads \cup record.answered)
    BY DEF Unread, Known
  <1>2. t = [s EXCEPT !.gap = TRUE]
    BY <1>1 DEF Read
  <1> HIDE DEF t
  <1>3. /\ DOMAIN t = DOMAIN s /\ t.fund = s.fund /\ t.day = s.day
        /\ t.raised = s.raised /\ t.gap \in BOOLEAN /\ t.gap
    BY <1>2 DEF Shape
  <1> QED
    BY <1>3 DEF Shape, t

\* judge the read.
LEMMA ReadJudges ==
    ASSUME NEW record, NEW s, Shape(s), NEW d, ~Unread(record, s, d), s.day # None,
           Known(record, s, d)
    PROVE  LET t == Read(record, s, d) IN
           /\ Shape(t) /\ t.day = d /\ t.gap = s.gap /\ t.raised = Raised(record, s, d)
           /\ t.fund = Deposited(Revalued(s.fund, Market(record, s, d)),
                                 NetFlow(record, s.day + 1, d))
  <1> DEFINE t == Read(record, s, d)
             net == NetFlow(record, s.day + 1, d)
             after == Revalued(s.fund, record.valuations[d].value - net)
             bought == Deposited(after, net)
             raised == RaisedBy(record, s, d, Breached(s.fund, after))
  <1>1. DOMAIN bought = {"units", "price", "high"}
    BY RevaluedKeepsUnits, DepositKeepsPrice DEF Shape
  <1>2. bought = Deposited(Revalued(s.fund, Market(record, s, d)), NetFlow(record, s.day + 1, d))
    BY DEF Market
  <1>3. raised = Raised(record, s, d)
    BY DEF RaisedBy, Raised, Fell, Market
  <1>4. /\ ~(record.valuations[d].value = None \/ s.gap)
        /\ (s.day + 1)..d \subseteq record.reads \cup record.answered
    BY DEF Unread, Known
  <1>5. t = [s EXCEPT !.fund = bought, !.day = d, !.raised = raised]
    BY <1>4 DEF Read
  <1> HIDE DEF t, bought, raised
  <1>6. /\ DOMAIN t = DOMAIN s /\ t.fund = bought /\ t.day = d
        /\ t.raised = raised /\ t.gap = s.gap
    BY <1>5 DEF Shape
  <1>7. Shape(t)
    BY <1>1, <1>6 DEF Shape
  <1> QED
    BY <1>2, <1>3, <1>6, <1>7 DEF t

\* What a state of risk after a day can be.
Sound(record, s, d) ==
    /\ Shape(s)
    /\ s.day \in 0..d /\ s.raised \in 0..d /\ s.gap \in BOOLEAN
    /\ s.day = None => s.raised = None /\ ~s.gap
    /\ s.gap => \E e \in Days : record.valuations[e].value # None

\* What a fold gives after a day is of days and units, whatever was recorded.
LEMMA RiskTyped ==
    ASSUME NEW record
    PROVE  \A d \in 0..MaxDay : Sound(record, RiskAfter(record)[d], d)
  <1> DEFINE Good == {d \in 0..MaxDay : Sound(record, RiskAfter(record)[d], d)}
  <1>1. 0 \in Good
    <2>1. Sound(record, NothingRead, 0)
      BY DEF Sound, Shape, NothingRead, NoUnits, None
    <2> QED
      BY <2>1, RiskUnfolds, PanelConstants
  <1>2. ASSUME NEW d \in Days, d - 1 \in Good PROVE d \in Good
    <2> DEFINE s == RiskAfter(record)[d - 1]
               t == RiskAfter(record)[d]
    <2>1. Sound(record, s, d - 1) /\ t = Read(record, s, d)
      BY <1>2, RiskUnfolds
    <2>0. Shape(s)
      BY <2>1 DEF Sound
    <2>2. d \in Nat \ {0} /\ d \in 0..MaxDay
      BY PanelConstants DEF Days
    <2> HIDE DEF s, t
    <2>3. \A x \in 0..(d - 1) : x \in 0..d
      BY <2>2
    <2>4. CASE Unread(record, s, d)
      <3>1. t = s
        BY <2>0, <2>1, <2>4, ReadSkips
      <3>2. Sound(record, s, d)
        BY <2>1, <2>3 DEF Sound
      <3> QED
        BY <2>2, <3>1, <3>2 DEF t
    <2>5. CASE ~Unread(record, s, d) /\ s.day = None
      <3>1. Shape(t) /\ t.day = d /\ t.raised = s.raised /\ t.gap = s.gap
        BY <2>0, <2>1, <2>5, ReadOpens
      <3>2. Sound(record, t, d)
        BY <2>1, <2>2, <2>3, <2>5, <3>1 DEF Sound, None
      <3> QED
        BY <2>2, <3>2 DEF t
    <2>6. CASE ~Unread(record, s, d) /\ s.day # None /\ ~Known(record, s, d)
      <3>1. Shape(t) /\ t.day = s.day /\ t.raised = s.raised /\ t.gap \in BOOLEAN /\ t.gap
        BY <2>0, <2>1, <2>6, ReadStopsThere
      <3>2. record.valuations[d].value # None
        BY <2>6 DEF Unread
      <3>3. Sound(record, t, d)
        BY <2>1, <2>3, <2>6, <3>1, <3>2 DEF Sound
      <3> QED
        BY <2>2, <3>3 DEF t
    <2>7. CASE ~Unread(record, s, d) /\ s.day # None /\ Known(record, s, d)
      <3>1. /\ Shape(t) /\ t.day = d /\ t.gap = s.gap
            /\ t.raised = Raised(record, s, d)
        BY <2>0, <2>1, <2>7, ReadJudges
      <3>2. t.raised \in {s.raised, d, None}
        BY <3>1 DEF Raised
      <3>3. Sound(record, t, d)
        BY <2>1, <2>2, <2>3, <3>1, <3>2 DEF Sound, None
      <3> QED
        BY <2>2, <3>3 DEF t
    <2> QED
      BY <2>4, <2>5, <2>6, <2>7
  <1> HIDE DEF Good
  <1>3. 0..MaxDay \subseteq Good
    BY <1>1, <1>2, DayByDay
  <1> QED
    BY <1>3 DEF Good

\* The fund is worth something as long as some of its units are left: no read finds them all
\* sold. Decimals keep it so in the code while the account is worth anything; here units are
\* kept to one part in Scale.
FundHeld(record) ==
    \A d \in Days : LET s == RiskAfter(record)[d] IN s.day # None => s.fund.units > 0

\* A last read past the limit, and no resume after it: then a halt holds.
Stops(record, s) ==
    /\ s.day = None => ~AtTheLimit(s)
    /\ (/\ s.day # None /\ AtTheLimit(s)
        /\ \A r \in record.resumes : r.at < record.valuations[s.day].readAt)
            => Holding(record, s.raised, Never)

\* A fund at its opening price is not past the limit.
LEMMA AtPar ==
    ASSUME NEW s, s.fund.price = Scale, s.fund.high = Scale
    PROVE  ~AtTheLimit(s)
  <1>1. Scale \in Nat \ {0} /\ MaxDrawdown \in 1..99
    BY PanelConstants
  <1>2. Scale * 100 > Scale * (100 - MaxDrawdown)
    BY <1>1
  <1> QED
    BY <1>1, <1>2 DEF AtTheLimit, FallsBy

\* The read that passes the limit raises a halt, unless one holds that no resume had lifted.
LEMMA PastTheLimit ==
    ASSUME NEW record \in Record, FundHeld(record)
    PROVE  \A d \in 0..MaxDay : Stops(record, RiskAfter(record)[d])
  <1> DEFINE Good == {d \in 0..MaxDay : Stops(record, RiskAfter(record)[d])}
  <1>1. 0 \in Good
    <2>1. NothingRead.day = None /\ NothingRead.fund.price = Scale /\ NothingRead.fund.high = Scale
      BY DEF NothingRead, NoUnits
    <2>2. Stops(record, NothingRead)
      BY <2>1, AtPar DEF Stops
    <2> QED
      BY <2>2, RiskUnfolds, PanelConstants
  <1>2. ASSUME NEW d \in Days, d - 1 \in Good PROVE d \in Good
    <2> DEFINE s == RiskAfter(record)[d - 1]
               t == RiskAfter(record)[d]
               read == record.valuations[d].readAt
    <2>1. Stops(record, s) /\ t = Read(record, s, d) /\ d - 1 \in 0..MaxDay
      BY <1>2, RiskUnfolds
    <2>2. d \in Nat \ {0} /\ d \in 0..MaxDay
      BY PanelConstants DEF Days
    <2>3. Sound(record, s, d - 1)
      BY <2>1, RiskTyped
    <2>0. Shape(s)
      BY <2>3 DEF Sound
    <2>4. s.day # None => s.fund.units > 0
      <3>1. CASE d - 1 \in Days
        BY <3>1 DEF FundHeld
      <3>2. CASE d - 1 \notin Days
        <4>1. d - 1 = 0
          BY <2>2, <3>2, PanelConstants DEF Days
        <4> QED
          BY <4>1, RiskUnfolds DEF NothingRead, None
      <3> QED
        BY <3>1, <3>2
    <2>5. read \in Nat /\ \A r \in record.resumes : r.at \in 0..MaxInstant
      BY DEF Record
    <2> HIDE DEF s, t
    <2>6. CASE Unread(record, s, d)
      <3>1. t = s
        BY <2>0, <2>1, <2>6, ReadSkips
      <3> QED
        BY <2>1, <2>2, <3>1 DEF t
    <2>7. CASE ~Unread(record, s, d) /\ s.day = None
      <3>1. t.day = d /\ t.fund.price = Scale /\ t.fund.high = Scale
        BY <2>0, <2>1, <2>7, ReadOpens
      <3>2. Stops(record, t)
        BY <3>1, AtPar DEF Stops
      <3> QED
        BY <2>2, <3>2 DEF t
    <2>8. CASE ~Unread(record, s, d) /\ s.day # None /\ ~Known(record, s, d)
      <3>1. t.day = s.day /\ t.raised = s.raised /\ t.fund = s.fund
        BY <2>0, <2>1, <2>8, ReadStopsThere
      <3>2. Stops(record, t)
        BY <2>1, <3>1 DEF Stops, AtTheLimit
      <3> QED
        BY <2>2, <3>2 DEF t
    <2>9. CASE ~Unread(record, s, d) /\ s.day # None /\ Known(record, s, d)
      <3> DEFINE after == Revalued(s.fund, Market(record, s, d))
      <3>1. /\ t.day = d
            /\ t.raised = Raised(record, s, d)
            /\ t.fund = Deposited(after, NetFlow(record, s.day + 1, d))
        BY <2>0, <2>1, <2>9, ReadJudges
      <3>2. /\ DOMAIN after = {"units", "price", "high"}
            /\ after.units = s.fund.units
        BY <2>3, RevaluedKeepsUnits DEF Sound, Shape
      <3> HIDE DEF after
      <3>3. t.fund.price = after.price /\ t.fund.high = after.high
        BY <3>1, <3>2, DepositKeepsPrice
      <3>4. SUFFICES ASSUME AtTheLimit(t), \A r \in record.resumes : r.at < read
                     PROVE  Holding(record, t.raised, Never)
        BY <2>2, <3>1 DEF Stops, t, None
      <3>5. Fell(record, s, d)
        BY <2>4, <2>9, <3>2, <3>3, <3>4 DEF Fell, Breached, AtTheLimit, after
      <3>6. CASE Holding(record, s.raised, read)
        <4>1. t.raised = s.raised
          BY <3>1, <3>6 DEF Raised
        <4> QED
          BY <3>4, <3>6, <4>1 DEF Holding
      <3>7. CASE ~Holding(record, s.raised, read)
        <4>1. t.raised = d
          BY <3>1, <3>5, <3>7 DEF Raised
        <4>2. \A r \in record.resumes : ~(read < r.at)
          BY <2>5, <3>4
        <4> QED
          BY <2>2, <4>1, <4>2 DEF Holding, None
      <3> QED
        BY <3>6, <3>7
    <2> QED
      BY <2>6, <2>7, <2>8, <2>9
  <1> HIDE DEF Good
  <1>3. 0..MaxDay \subseteq Good
    BY <1>1, <1>2, DayByDay
  <1> QED
    BY <1>3 DEF Good

-----------------------------------------------------------------------------
(* What the panels hold: an invariant of theirs.                           *)

Job ==
    [at : {"idle", "page", "reading", "granted"}, reading : 0..(Len(Stores) + 1), seen : Record,
     page : [day : 0..MaxDay, value : Nat, readAt : 0..MaxInstant],
     asked : SUBSET Days, halted : BOOLEAN]

TypeOK ==
    /\ broker \in [day : Days, value : Nat, flow : [Days -> Int]]
    /\ clock \in 1..MaxInstant /\ db \in Record /\ panel \in [Panels -> Job]

\* Every value of a record was read by an instant, and by before one.
ReadBy(record, t) == \A d \in Days : record.valuations[d].readAt <= t
ReadBefore(record, t) == \A d \in Days : record.valuations[d].readAt < t

\* A panel's job carries nothing of a later instant than the record was given; a resume granted
\* is later than every value it was judged by.
JobInOrder(job, t) ==
    /\ job.page.readAt <= t /\ ReadBy(job.seen, t)
    /\ job.at = "reading" => job.reading > 0
    /\ job.at = "page" => job.page.day # None
    /\ job.at = "granted" => ReadBefore(job.seen, job.page.readAt)

PanelInv == TypeOK /\ ReadBy(db, clock) /\ \A p \in Panels : JobInOrder(panel[p], clock)

\* The instants of a record are numbers.
LEMMA InstantsTyped ==
    ASSUME NEW record \in Record
    PROVE  /\ \A d \in Days : record.valuations[d].readAt \in Nat
                               /\ record.valuations[d].readAt \in 0..MaxInstant
           /\ \A r \in record.resumes : r.at \in Nat
  BY PanelConstants DEF Record

\* The bounds are numbers, and no instant is after the last but never.
LEMMA BoundsInt ==
    /\ MaxDay \in Nat \ {0} /\ MaxInstant \in Nat \ {0}
    /\ 1 \in Days /\ Days = 1..MaxDay /\ None = 0 /\ Days \subseteq 0..MaxDay
    /\ Never = MaxInstant + 1
  BY PanelConstants DEF Days, None, Never

\* The halt is a day, or none.
LEMMA HaltTyped ==
    ASSUME NEW record
    PROVE  /\ RiskState(record).raised \in 0..MaxDay
           /\ HaltOf(record, RiskState(record)) \in 0..MaxDay
           /\ Halt(record) = HaltOf(record, RiskState(record))
  <1>1. Sound(record, RiskState(record), MaxDay)
    BY RiskTyped, BoundsInt DEF RiskState
  <1>2. RiskState(record).raised \in 0..MaxDay /\ None \in 0..MaxDay
    BY <1>1, BoundsInt DEF Sound
  <1> QED
    BY <1>2 DEF HaltOf, Halt

\* The span asked about is one of days.
LEMMA AskedTyped ==
    ASSUME NEW record
    PROVE  Unrecorded(record, RiskState(record)) \subseteq Days
  <1> DEFINE s == RiskState(record)
             valued == {d \in Days : record.valuations[d].value # None}
  <1>1. Sound(record, s, MaxDay)
    BY RiskTyped, BoundsInt DEF RiskState
  <1> HIDE DEF s
  <1>2. CASE s.gap
    <2>1. valued # {} /\ valued \subseteq 0..MaxDay
      BY <1>1, <1>2, BoundsInt DEF Sound
    <2>2. PICK n \in valued : \A k \in valued : k <= n
      BY <2>1, Greatest, BoundsInt
    <2>3. \A k \in valued : n >= k
      BY <2>1, <2>2
    <2>4. Max(valued) \in valued
      BY <2>2, <2>3 DEF Max
    <2>5. Max(valued) \in 1..MaxDay /\ s.day \in 0..MaxDay
      BY <1>1, <2>4, BoundsInt DEF Sound
    <2>6. \A from \in 0..MaxDay, to \in 1..MaxDay : (from + 1)..to \subseteq 1..MaxDay
      BY BoundsInt
    <2> HIDE DEF valued
    <2>7. Unrecorded(record, s) = (s.day + 1)..Max(valued)
      BY <1>2 DEF Unrecorded, valued
    <2> QED
      BY <2>5, <2>6, <2>7, BoundsInt DEF s
  <1>3. CASE ~s.gap
    BY <1>3 DEF Unrecorded, s
  <1> QED
    BY <1>2, <1>3

\* A panel that does nothing holds nothing.
LEMMA IdleTyped ==
    /\ EmptyRecord \in Record /\ NoPage \in [day : 0..MaxDay, value : Nat, readAt : 0..MaxInstant]
    /\ Idle = [at |-> "idle", reading |-> 0, seen |-> EmptyRecord, page |-> NoPage,
               asked |-> {}, halted |-> FALSE]
    /\ NoPage.readAt = 0 /\ \A d \in Days : EmptyRecord.valuations[d].readAt = 0
    /\ Len(Stores) = 6
  <1>1. 0 \in 0..MaxDay /\ 0 \in 0..MaxInstant /\ 0 \in Int
    BY BoundsInt
  <1>2. EmptyRecord \in Record
    BY <1>1 DEF EmptyRecord, Record, None, NoFlow
  <1>3. NoPage \in [day : 0..MaxDay, value : Nat, readAt : 0..MaxInstant] /\ NoPage.readAt = 0
    BY <1>1 DEF NoPage, None
  <1>4. \A d \in Days : EmptyRecord.valuations[d].readAt = 0
    BY DEF EmptyRecord, None
  <1>5. Len(Stores) = 6
    BY DEF Stores
  <1> QED
    BY <1>2, <1>3, <1>4, <1>5 DEF Idle

\* A panel that shows the risk anew is idle, and holds nothing.
LEMMA ShowingInOrder ==
    ASSUME NEW record, NEW t \in Nat
    PROVE  Showing(record) \in Job /\ JobInOrder(Showing(record), t)
  <1> DEFINE asked == Unrecorded(record, RiskState(record))
             halted == HaltOf(record, RiskState(record)) # None
             shown == Showing(record)
  <1>1. asked \subseteq Days /\ halted \in BOOLEAN
    BY AskedTyped
  <1>2. shown = [Idle EXCEPT !.asked = asked, !.halted = halted]
    BY DEF Showing
  <1> HIDE DEF asked, halted, shown
  <1>3. shown = [at |-> "idle", reading |-> 0, seen |-> EmptyRecord, page |-> NoPage,
                 asked |-> asked, halted |-> halted]
    BY <1>2, IdleTyped
  <1>4. shown \in Job
    BY <1>1, <1>3, IdleTyped DEF Job
  <1>5. JobInOrder(shown, t)
    <2>1. shown.at = "idle" /\ shown.page = NoPage /\ shown.seen = EmptyRecord
      BY <1>3
    <2>2. shown.page.readAt = 0 /\ \A d \in Days : shown.seen.valuations[d].readAt = 0
      BY <2>1, IdleTyped
    <2> QED
      BY <2>1, <2>2 DEF JobInOrder, ReadBy
  <1> QED
    BY <1>4, <1>5 DEF shown

\* One panel's step: what it holds after, and what it leaves of the record.
LEMMA PanelMoves ==
    ASSUME PanelInv, NEW p \in Panels, NEW job \in Job, panel' = [panel EXCEPT ![p] = job],
           broker' = broker, clock' \in clock..MaxInstant, JobInOrder(job, clock'),
           db' \in Record, ReadBy(db', clock')
    PROVE  PanelInv'
  <1>1. panel' \in [Panels -> Job] /\ panel'[p] = job
        /\ \A q \in Panels \ {p} : panel'[q] = panel[q]
    BY DEF PanelInv, TypeOK
  <1>2. clock \in Nat /\ clock' \in Nat /\ clock <= clock' /\ clock' \in 1..MaxInstant
    BY BoundsInt DEF PanelInv, TypeOK
  <1>3. ASSUME NEW q \in Panels \ {p} PROVE JobInOrder(panel[q], clock')
    <2>1. JobInOrder(panel[q], clock) /\ panel[q] \in Job
      BY DEF PanelInv, TypeOK
    <2>2. panel[q].page.readAt \in Nat /\ \A d \in Days : panel[q].seen.valuations[d].readAt \in Nat
      <3>1. panel[q].page.readAt \in 0..MaxInstant /\ panel[q].seen \in Record
        BY <2>1 DEF Job
      <3> QED
        BY <3>1, InstantsTyped, BoundsInt
    <2> QED
      BY <1>2, <2>1, <2>2 DEF JobInOrder, ReadBy
  <1>4. \A q \in Panels : JobInOrder(panel'[q], clock')
    BY <1>1, <1>3
  <1>5. TypeOK'
    BY <1>1, <1>2 DEF PanelInv, TypeOK
  <1> QED
    BY <1>4, <1>5 DEF PanelInv

\* A panel that recorded something, or is opened again, shows the risk anew.
LEMMA ShowsAnew ==
    ASSUME PanelInv, NEW p \in Panels, panel' = [panel EXCEPT ![p] = Showing(db')],
           UNCHANGED <<broker, clock>>, db' \in Record, ReadBy(db', clock)
    PROVE  PanelInv'
  <1> DEFINE job == Showing(db')
  <1>1. clock \in 1..MaxInstant /\ clock \in Nat /\ clock' = clock /\ clock \in clock..MaxInstant
    BY BoundsInt DEF PanelInv, TypeOK
  <1>2. job \in Job /\ JobInOrder(job, clock)
    BY <1>1, ShowingInOrder
  <1> HIDE DEF job
  <1>3. panel' = [panel EXCEPT ![p] = job]
    BY DEF job
  <1> QED
    BY <1>1, <1>2, <1>3, PanelMoves

\* What a job puts into the record was read or asked at an instant that is past.
LEMMA RecordsTyped ==
    ASSUME PanelInv, NEW p \in Panels
    PROVE  /\ RecordValuation(p) => db' \in Record /\ ReadBy(db', clock)
           /\ RecordMovements(p) => db' \in Record /\ ReadBy(db', clock)
           /\ RecordTyped(p) => db' \in Record /\ ReadBy(db', clock)
           /\ RecordAnswered(p) => db' \in Record /\ ReadBy(db', clock)
           /\ RecordResume(p) => db' \in Record /\ ReadBy(db', clock)
  <1>1. /\ db \in Record /\ broker \in [day : Days, value : Nat, flow : [Days -> Int]]
        /\ panel[p] \in Job /\ JobInOrder(panel[p], clock) /\ ReadBy(db, clock)
        /\ clock \in 1..MaxInstant
    BY DEF PanelInv, TypeOK
  <1>2. ASSUME RecordValuation(p) PROVE db' \in Record /\ ReadBy(db', clock)
    <2> DEFINE page == panel[p].page
               v == [value |-> page.value, readAt |-> page.readAt]
    <2>1. /\ page.day \in Days /\ v \in [value : Nat, readAt : 0..MaxInstant]
          /\ v.readAt <= clock
      BY <1>1, <1>2, BoundsInt DEF RecordValuation, Job, JobInOrder
    <2>2. db' = [db EXCEPT !.valuations[page.day] = v]
      BY <1>2 DEF RecordValuation
    <2> HIDE DEF page, v
    <2>3. db' \in Record
      BY <1>1, <2>1, <2>2 DEF Record
    <2>4. \A d \in Days : db'.valuations[d] = IF d = page.day THEN v ELSE db.valuations[d]
      BY <1>1, <2>1, <2>2 DEF Record
    <2> QED
      BY <1>1, <2>1, <2>3, <2>4 DEF ReadBy
  <1>3. ASSUME RecordMovements(p) PROVE db' \in Record /\ ReadBy(db', clock)
    <2> DEFINE covered == {d \in 1..broker.day : broker.day - d < PageSpan}
               listed == [d \in Days |-> IF d \in covered THEN broker.flow[d]
                                         ELSE db.movements[d]]
    <2>1. db' = [db EXCEPT !.reads = @ \cup covered, !.movements = listed]
      BY <1>3 DEF RecordMovements
    <2>2. covered \subseteq Days
      BY <1>1, BoundsInt
    <2>3. listed \in [Days -> Int]
      BY <1>1 DEF Record
    <2> HIDE DEF covered, listed
    <2>4. db' \in Record /\ db'.valuations = db.valuations
      BY <1>1, <2>1, <2>2, <2>3 DEF Record
    <2> QED
      BY <1>1, <2>4 DEF ReadBy
  <1>4. ASSUME RecordTyped(p) PROVE db' \in Record /\ ReadBy(db', clock)
    <2>1. PICK d \in 1..broker.day, flow \in Flows : db' = [db EXCEPT !.typed[d] = flow]
      BY <1>4 DEF RecordTyped
    <2>2. d \in Days /\ flow \in Int
      BY <1>1, BoundsInt, PanelConstants
    <2>3. db' \in Record /\ db'.valuations = db.valuations
      BY <1>1, <2>1, <2>2 DEF Record
    <2> QED
      BY <1>1, <2>3 DEF ReadBy
  <1>5. ASSUME RecordAnswered(p) PROVE db' \in Record /\ ReadBy(db', clock)
    <2>1. db' = [db EXCEPT !.answered = @ \cup panel[p].asked] /\ panel[p].asked \subseteq Days
      BY <1>1, <1>5 DEF RecordAnswered, Job
    <2>2. db' \in Record /\ db'.valuations = db.valuations
      BY <1>1, <2>1 DEF Record
    <2> QED
      BY <1>1, <2>2 DEF ReadBy
  <1>6. ASSUME RecordResume(p) PROVE db' \in Record /\ ReadBy(db', clock)
    <2> DEFINE r == [haltDay |-> Halt(panel[p].seen), at |-> panel[p].page.readAt]
    <2>1. r \in [haltDay : 0..MaxDay, at : 0..MaxInstant]
      BY <1>1, HaltTyped DEF Job
    <2>2. db' = [db EXCEPT !.resumes = @ \cup {r}]
      BY <1>6 DEF RecordResume
    <2> HIDE DEF r
    <2>3. db' \in Record /\ db'.valuations = db.valuations
      BY <1>1, <2>1, <2>2 DEF Record
    <2> QED
      BY <1>1, <2>3 DEF ReadBy
  <1> QED
    BY <1>2, <1>3, <1>4, <1>5, <1>6

\* Every step keeps the order of the instants.
LEMMA PanelStep == PanelInv /\ [Next]_vars => PanelInv'
  <1> SUFFICES ASSUME PanelInv, [Next]_vars PROVE PanelInv'
    OBVIOUS
  <1>0. /\ clock \in 1..MaxInstant /\ clock \in Nat /\ clock \in clock..MaxInstant
        /\ db \in Record /\ ReadBy(db, clock)
        /\ broker \in [day : Days, value : Nat, flow : [Days -> Int]]
    BY BoundsInt DEF PanelInv, TypeOK
  <1>1. CASE UNCHANGED vars
    BY <1>1 DEF vars, PanelInv, TypeOK
  <1>2. CASE NextDay
    <2>1. PICK value \in Values, flow \in IF broker.day + 1 \in FlowDays THEN Flows ELSE {0} :
            broker' = [day |-> broker.day + 1, value |-> value,
                       flow |-> [broker.flow EXCEPT ![broker.day + 1] = flow]]
      BY <1>2 DEF NextDay
    <2>2. value \in Nat /\ flow \in Int /\ broker.day + 1 \in Days
      BY <1>0, <1>2, PanelConstants DEF NextDay, Days
    <2>3. broker' \in [day : Days, value : Nat, flow : [Days -> Int]]
      BY <1>0, <2>1, <2>2
    <2>4. UNCHANGED <<clock, db, panel>>
      BY <1>2 DEF NextDay
    <2> QED
      BY <2>3, <2>4 DEF PanelInv, TypeOK
  <1>3. ASSUME NEW p \in Panels,
               \/ RecordValuation(p) \/ RecordMovements(p) \/ RecordTyped(p)
               \/ RecordAnswered(p) \/ RecordResume(p)
        PROVE  PanelInv'
    <2>1. /\ panel' = [panel EXCEPT ![p] = Showing(db')] /\ UNCHANGED <<broker, clock>>
      BY <1>3 DEF RecordValuation, RecordMovements, RecordTyped, RecordAnswered, RecordResume
    <2>2. db' \in Record /\ ReadBy(db', clock)
      BY <1>3, RecordsTyped
    <2> QED
      BY <2>1, <2>2, ShowsAnew
  <1>4. ASSUME NEW p \in Panels, Reopen(p) PROVE PanelInv'
    <2>1. db' = db /\ UNCHANGED <<broker, clock>> /\ panel' = [panel EXCEPT ![p] = Showing(db')]
      BY <1>4 DEF Reopen
    <2> QED
      BY <1>0, <2>1, ShowsAnew
  <1>5. ASSUME NEW p \in Panels,
               TakePage(p) \/ AskResume(p) \/ ReadStore(p) \/ RefuseResume(p) \/ GrantResume(p)
        PROVE  PanelInv'
    <2> DEFINE job == panel[p]
    <2>0. /\ job \in Job /\ JobInOrder(job, clock)
          /\ \A d \in Days : job.seen.valuations[d].readAt \in Nat
      <3>1. job \in Job /\ JobInOrder(job, clock)
        BY DEF PanelInv, TypeOK
      <3>2. job.seen \in Record
        BY <3>1 DEF Job
      <3> QED
        BY <3>1, <3>2, InstantsTyped
    <2>1. CASE TakePage(p)
      <3> DEFINE t == clock + 1
                 page == [day |-> broker.day, value |-> broker.value, readAt |-> t]
                 next == [job EXCEPT !.at = "page", !.page = page]
      <3>1. clock' = t /\ t \in clock..MaxInstant /\ t \in Nat /\ clock <= t /\ t \in 0..MaxInstant
        BY <1>0, <2>1, BoundsInt DEF TakePage
      <3>2. panel' = [panel EXCEPT ![p] = next] /\ UNCHANGED <<broker, db>>
        BY <2>1, <3>1 DEF TakePage, PanelInv, TypeOK
      <3>3. /\ page \in [day : 0..MaxDay, value : Nat, readAt : 0..MaxInstant]
            /\ page.readAt = t /\ page.day # None
        BY <1>0, <3>1, BoundsInt
      <3> HIDE DEF t, page
      <3>4. next \in Job /\ next.at = "page" /\ next.page = page /\ next.seen = job.seen
        BY <2>0, <3>3 DEF Job
      <3> HIDE DEF next, job
      <3>5. JobInOrder(next, t)
        BY <1>0, <2>0, <3>1, <3>3, <3>4 DEF JobInOrder, ReadBy
      <3>6. ReadBy(db, t)
        BY <1>0, <3>1, InstantsTyped DEF ReadBy
      <3> QED
        BY <1>0, <3>1, <3>2, <3>4, <3>5, <3>6, PanelMoves
    <2>2. CASE AskResume(p)
      <3> DEFINE next == [job EXCEPT !.at = "reading", !.reading = 1]
      <3>1. panel' = [panel EXCEPT ![p] = next] /\ UNCHANGED <<broker, clock, db>>
        BY <2>2 DEF AskResume, PanelInv, TypeOK
      <3>0. 1 \in 0..(Len(Stores) + 1)
        BY IdleTyped
      <3> HIDE DEF job
      <3>2. /\ next \in Job /\ next.at = "reading" /\ next.reading = 1
            /\ next.page = job.page /\ next.seen = job.seen
        BY <2>0, <3>0 DEF Job
      <3> HIDE DEF next
      <3>3. JobInOrder(next, clock)
        BY <2>0, <3>2 DEF JobInOrder
      <3> QED
        BY <1>0, <3>1, <3>2, <3>3, PanelMoves
    <2>3. CASE ReadStore(p)
      <3> DEFINE store == Stores[job.reading]
                 seen == [job.seen EXCEPT ![store] = db[store]]
                 next == [job EXCEPT !.seen = seen, !.reading = @ + 1]
      <3>1. panel' = [panel EXCEPT ![p] = next] /\ UNCHANGED <<broker, clock, db>>
        BY <2>3 DEF ReadStore, PanelInv, TypeOK
      <3>2. /\ job.at = "reading" /\ job.reading \in 1..6 /\ job.reading + 1 \in 0..(Len(Stores) + 1)
            /\ job.reading + 1 > 0
        BY <2>0, <2>3, IdleTyped DEF ReadStore, Job, JobInOrder
      <3>3. store \in {"valuations", "movements", "reads", "typed", "answered", "resumes"}
        BY <3>2 DEF Stores
      <3> HIDE DEF store
      <3>4. /\ seen \in Record
            /\ seen.valuations = db.valuations \/ seen.valuations = job.seen.valuations
        <4>1. job.seen \in Record
          BY <2>0 DEF Job
        <4> HIDE DEF job
        <4> QED
          BY <1>0, <3>3, <4>1 DEF Record
      <3> HIDE DEF seen
      <3>5. /\ next \in Job /\ next.at = "reading" /\ next.reading = job.reading + 1
            /\ next.page = job.page /\ next.seen = seen
        BY <2>0, <3>2, <3>4 DEF Job
      <3> HIDE DEF next, job
      <3>6. ReadBy(seen, clock)
        BY <1>0, <2>0, <3>4 DEF ReadBy, JobInOrder
      <3>7. JobInOrder(next, clock)
        BY <2>0, <3>2, <3>5, <3>6 DEF JobInOrder
      <3> QED
        BY <1>0, <3>1, <3>5, <3>7, PanelMoves
    <2>4. CASE RefuseResume(p)
      <3> DEFINE asked == panel[p].asked
                 halted == TRUE
                 next == [Idle EXCEPT !.asked = asked, !.halted = halted]
      <3>1. panel' = [panel EXCEPT ![p] = next] /\ UNCHANGED <<broker, clock, db>>
        BY <2>4 DEF RefuseResume
      <3>3. asked \subseteq Days /\ halted \in BOOLEAN
        BY <2>0 DEF Job
      <3>2. next = [Idle EXCEPT !.asked = asked, !.halted = halted]
        OBVIOUS
      <3> HIDE DEF asked, halted, next, job
      <3>7. next = [at |-> "idle", reading |-> 0, seen |-> EmptyRecord, page |-> NoPage,
                    asked |-> asked, halted |-> halted]
        BY <3>2, IdleTyped
      <3>4. next \in Job
        BY <3>3, <3>7, IdleTyped DEF Job
      <3>5. next.at = "idle" /\ next.page.readAt = 0
            /\ \A d \in Days : next.seen.valuations[d].readAt = 0
        BY <3>7, IdleTyped
      <3>6. JobInOrder(next, clock)
        BY <1>0, <3>5 DEF JobInOrder, ReadBy
      <3> QED
        BY <1>0, <3>1, <3>4, <3>6, PanelMoves
    <2>5. CASE GrantResume(p)
      <3> DEFINE t == clock + 1
                 page == [job.page EXCEPT !.readAt = t]
                 next == [job EXCEPT !.at = "granted", !.page = page]
      <3>1. clock' = t /\ t \in clock..MaxInstant /\ t \in Nat /\ clock < t /\ t \in 0..MaxInstant
        BY <1>0, <2>5, BoundsInt DEF GrantResume
      <3>2. panel' = [panel EXCEPT ![p] = next] /\ UNCHANGED <<broker, db>>
        BY <2>5, <3>1 DEF GrantResume, PanelInv, TypeOK
      <3>3. /\ page \in [day : 0..MaxDay, value : Nat, readAt : 0..MaxInstant]
            /\ page.readAt = t
        BY <2>0, <3>1 DEF Job
      <3> HIDE DEF t, page
      <3>4. next \in Job /\ next.at = "granted" /\ next.page = page /\ next.seen = job.seen
        BY <2>0, <3>3 DEF Job
      <3> HIDE DEF next, job
      <3>5. JobInOrder(next, t)
        BY <1>0, <2>0, <3>1, <3>3, <3>4 DEF JobInOrder, ReadBy, ReadBefore
      <3>6. ReadBy(db, t)
        BY <1>0, <3>1, InstantsTyped DEF ReadBy
      <3> QED
        BY <1>0, <3>1, <3>2, <3>4, <3>5, <3>6, PanelMoves
    <2> QED
      BY <1>5, <2>1, <2>2, <2>3, <2>4, <2>5
  <1> QED
    BY <1>1, <1>2, <1>3, <1>4, <1>5 DEF Next

\* At first one value is recorded, and no panel does anything.
LEMMA PanelInit == Init => PanelInv
  <1> SUFFICES ASSUME Init PROVE PanelInv
    OBVIOUS
  <1> DEFINE v == [value |-> Opening, readAt |-> 1]
  <1>1. /\ v \in [value : Nat, readAt : 0..MaxInstant] /\ v.readAt = 1
        /\ 0 \in Int /\ 1 \in 1..MaxInstant /\ 1 \in Days /\ Opening \in Nat /\ 1 \in Nat
    BY PanelConstants, BoundsInt
  <1>2. broker \in [day : Days, value : Nat, flow : [Days -> Int]] /\ clock = 1
    BY <1>1 DEF Init, NoFlow
  <1>3. db = [EmptyRecord EXCEPT !.valuations[1] = v]
    BY DEF Init
  <1> HIDE DEF v
  <1>4. db \in Record
    BY <1>1, <1>3, IdleTyped DEF Record
  <1>5. \A d \in Days : db.valuations[d] = IF d = 1 THEN v ELSE EmptyRecord.valuations[d]
    BY <1>1, <1>3, IdleTyped DEF Record
  <1>6. ReadBy(db, clock)
    BY <1>1, <1>2, <1>5, IdleTyped DEF ReadBy
  <1>7. Idle \in Job /\ JobInOrder(Idle, 1)
    <2>1. Idle.at = "idle" /\ Idle.page.readAt = 0
          /\ \A d \in Days : Idle.seen.valuations[d].readAt = 0
      BY IdleTyped
    <2> QED
      BY <2>1, IdleTyped DEF Job, JobInOrder, ReadBy
  <1>8. panel = [p \in Panels |-> Idle]
    BY DEF Init
  <1> QED
    BY <1>1, <1>2, <1>4, <1>6, <1>7, <1>8 DEF PanelInv, TypeOK

\* The record keeps the order in which things happened: a resume is recorded with an instant
\* after every value it was judged by, through whichever panels the pages came.
THEOREM RecordsAreInOrder == Spec => []PanelInv
  BY PanelInit, PanelStep, PTL DEF Spec

\* A last read past the drawdown limit stops buying, whatever was recorded before it and in
\* whatever order, unless a resume was made after it was read.
THEOREM LimitStopsBuying == Spec => [](FundHeld(db) => AReadPastTheLimitStops)
  <1>1. PanelInv => (FundHeld(db) => AReadPastTheLimitStops)
    <2> SUFFICES ASSUME PanelInv, FundHeld(db) PROVE AReadPastTheLimitStops
      OBVIOUS
    <2> DEFINE s == RiskState(db)
    <2>1. Stops(db, s)
      BY PastTheLimit, BoundsInt DEF PanelInv, TypeOK, RiskState
    <2>2. s.raised \in 0..MaxDay
      BY HaltTyped
    <2> HIDE DEF s
    <2>3. SUFFICES ASSUME AtTheLimit(s), \A r \in db.resumes : r.at < db.valuations[s.day].readAt
                   PROVE  HaltOf(db, s) # None
      BY DEF AReadPastTheLimitStops, s
    <2>4. Holding(db, s.raised, Never)
      BY <2>1, <2>3 DEF Stops
    <2> QED
      BY <2>4 DEF HaltOf, Holding
  <1> QED
    BY <1>1, RecordsAreInOrder, PTL

-----------------------------------------------------------------------------
(* Two records: what one more read, or one more resume, changes.           *)

\* The two have the same movements and the same answers.
Alike(a, b) ==
    /\ a.movements = b.movements /\ a.reads = b.reads
    /\ a.typed = b.typed /\ a.answered = b.answered

\* Records with the same movements have the same flows.
LEMMA FlowAlike ==
    ASSUME NEW a, NEW b, Alike(a, b), NEW from, NEW to
    PROVE  NetFlow(a, from, to) = NetFlow(b, from, to)
  <1> DEFINE Of(movements, reads, typed) ==
                LET upTo[d \in (from - 1)..to] ==
                        IF d < from THEN 0
                        ELSE upTo[d - 1] + movements[d] + (IF d \in reads THEN 0 ELSE typed[d])
                IN  upTo[to]
  <1>1. /\ NetFlow(a, from, to) = Of(a.movements, a.reads, a.typed)
        /\ NetFlow(b, from, to) = Of(b.movements, b.reads, b.typed)
    BY DEF NetFlow
  <1> HIDE DEF Of
  <1> QED
    BY <1>1 DEF Alike

\* A day is read the same on both when its value and the halt that held then are the same.
LEMMA ReadAlike ==
    ASSUME NEW a, NEW b, Alike(a, b), NEW s, NEW d, a.valuations[d] = b.valuations[d],
           Holding(a, s.raised, a.valuations[d].readAt)
                <=> Holding(b, s.raised, b.valuations[d].readAt)
    PROVE  Read(a, s, d) = Read(b, s, d)
  <1> DEFINE v == a.valuations[d]
             net == NetFlow(a, s.day + 1, d)
             after == Revalued(s.fund, v.value - net)
             fell == Breached(s.fund, after)
             known == a.reads \cup a.answered
             raised == RaisedBy(a, s, d, fell)
             Of == IF v.value = None \/ s.gap THEN s
                   ELSE IF s.day = None
                        THEN [s EXCEPT !.fund = Deposited(NoUnits, v.value), !.day = d]
                   ELSE IF (s.day + 1)..d \subseteq known
                        THEN [s EXCEPT !.fund = Deposited(after, net), !.day = d,
                                       !.raised = raised]
                        ELSE [s EXCEPT !.gap = TRUE]
  <1>1. /\ NetFlow(b, s.day + 1, d) = net /\ b.valuations[d] = v
        /\ b.reads \cup b.answered = known
    BY FlowAlike DEF Alike
  <1>2. RaisedBy(b, s, d, fell) = raised
    BY DEF RaisedBy
  <1>3. Read(a, s, d) = Of
    BY DEF Read
  <1>4. Read(b, s, d) = Of
    BY <1>1, <1>2 DEF Read
  <1> QED
    BY <1>3, <1>4

\* So are all the days before one.
LEMMA AlikeUntil ==
    ASSUME NEW a, NEW b, Alike(a, b), NEW day \in 1..(MaxDay + 1),
           \A d \in 1..(day - 1) :
                /\ a.valuations[d] = b.valuations[d]
                /\ \A raised \in 0..(d - 1) :
                        Holding(a, raised, a.valuations[d].readAt)
                            <=> Holding(b, raised, b.valuations[d].readAt)
    PROVE  \A d \in 0..(day - 1) : RiskAfter(a)[d] = RiskAfter(b)[d]
  <1> DEFINE Good == {d \in 0..MaxDay : d < day => RiskAfter(a)[d] = RiskAfter(b)[d]}
  <1>1. 0 \in Good
    BY RiskUnfolds, BoundsInt
  <1>2. ASSUME NEW d \in Days, d - 1 \in Good PROVE d \in Good
    <2>1. SUFFICES ASSUME d < day PROVE RiskAfter(a)[d] = RiskAfter(b)[d]
      BY BoundsInt
    <2> DEFINE s == RiskAfter(a)[d - 1]
    <2>2. d \in 1..(day - 1) /\ d - 1 \in 0..MaxDay /\ d - 1 < day
      BY <2>1, BoundsInt
    <2>3. RiskAfter(b)[d - 1] = s
      BY <1>2, <2>2
    <2>4. s.raised \in 0..(d - 1)
      BY <2>2, RiskTyped DEF Sound
    <2>5. RiskAfter(a)[d] = Read(a, s, d) /\ RiskAfter(b)[d] = Read(b, s, d)
      BY <2>3, RiskUnfolds
    <2> HIDE DEF s
    <2>6. Read(a, s, d) = Read(b, s, d)
      BY <2>2, <2>4, ReadAlike
    <2> QED
      BY <2>5, <2>6
  <1> HIDE DEF Good
  <1>3. 0..MaxDay \subseteq Good
    BY <1>1, <1>2, DayByDay
  <1> QED
    BY <1>3, BoundsInt DEF Good

\* The days that were not read leave the state of risk as it was.
LEMMA NothingSince ==
    ASSUME NEW record, NEW day \in 0..MaxDay,
           \A d \in (day + 1)..MaxDay : record.valuations[d].value = None
    PROVE  RiskState(record) = RiskAfter(record)[day]
  <1> DEFINE Good == {d \in 0..MaxDay : d > day => RiskAfter(record)[d] = RiskAfter(record)[day]}
  <1>1. 0 \in Good
    BY BoundsInt
  <1>2. ASSUME NEW d \in Days, d - 1 \in Good PROVE d \in Good
    <2>1. SUFFICES ASSUME d > day PROVE RiskAfter(record)[d] = RiskAfter(record)[day]
      BY BoundsInt
    <2> DEFINE s == RiskAfter(record)[d - 1]
    <2>2. d \in (day + 1)..MaxDay /\ d - 1 \in 0..MaxDay /\ (d - 1 > day \/ d - 1 = day)
      BY <2>1, BoundsInt
    <2>3. s = RiskAfter(record)[day]
      BY <1>2, <2>2
    <2>4. RiskAfter(record)[d] = Read(record, s, d)
      BY RiskUnfolds
    <2> HIDE DEF s
    <2>5. Read(record, s, d) = s
      BY <2>2, ReadSkips DEF Unread
    <2> QED
      BY <2>3, <2>4, <2>5
  <1> HIDE DEF Good
  <1>3. 0..MaxDay \subseteq Good
    BY <1>1, <1>2, DayByDay
  <1> QED
    BY <1>3, BoundsInt DEF Good, RiskState

\* The read of a later day leaves the halt in force as it is.
LEMMA LaterRead ==
    ASSUME NEW a \in Record, NEW b, Alike(a, b), b.resumes = a.resumes,
           NEW day \in Days, NEW v, v.readAt \in Nat, v.readAt < Never,
           \A d \in Days : b.valuations[d] = IF d = day THEN v ELSE a.valuations[d],
           \A d \in day..MaxDay : a.valuations[d].value = None,
           Halt(a) # None
    PROVE  Halt(b) = Halt(a)
  <1> DEFINE s == RiskState(a)
             t == RiskState(b)
  <1>1. day \in Nat /\ day \in 1..MaxDay /\ day - 1 \in 0..MaxDay /\ day \in 0..MaxDay
        /\ day \in 1..(MaxDay + 1)
    BY BoundsInt
  <1>2. s = RiskAfter(a)[day - 1]
    <2>1. \A d \in ((day - 1) + 1)..MaxDay : a.valuations[d].value = None
      BY <1>1
    <2> QED
      BY <1>1, <2>1, NothingSince
  <1>3. Sound(a, s, day - 1)
    BY <1>1, <1>2, RiskTyped
  <1>4. /\ s.raised # None /\ Holding(a, s.raised, Never) /\ Halt(a) = s.raised
    BY DEF Halt, HaltOf, Holding
  <1>5. \A raised \in 0..(day - 1) : \A before :
            Holding(a, raised, before) <=> Holding(b, raised, before)
    <2>1. \A raised \in 0..(day - 1) :
                raised # None => b.valuations[raised] = a.valuations[raised]
      BY <1>1, BoundsInt
    <2> QED
      BY <2>1 DEF Holding
  <1>6. RiskAfter(b)[day - 1] = s
    <2>1. ASSUME NEW d \in 1..(day - 1)
          PROVE  /\ a.valuations[d] = b.valuations[d]
                 /\ \A raised \in 0..(d - 1) :
                        Holding(a, raised, a.valuations[d].readAt)
                            <=> Holding(b, raised, b.valuations[d].readAt)
      <3>1. d \in Days /\ d # day /\ \A raised \in 0..(d - 1) : raised \in 0..(day - 1)
        BY <1>1, BoundsInt
      <3>2. a.valuations[d] = b.valuations[d]
        BY <3>1
      <3> QED
        BY <1>5, <3>1, <3>2
    <2>2. day - 1 \in 0..(day - 1)
      BY <1>1
    <2> QED
      BY <1>1, <1>2, <2>1, <2>2, AlikeUntil
  <1>7. t = Read(b, s, day)
    <2>1. \A d \in (day + 1)..MaxDay : d \in day..MaxDay /\ d \in Days /\ d # day
      BY <1>1, BoundsInt
    <2>2. \A d \in (day + 1)..MaxDay : b.valuations[d].value = None
      BY <2>1
    <2>3. t = RiskAfter(b)[day]
      BY <1>1, <2>2, NothingSince
    <2> QED
      BY <1>6, <2>3, RiskUnfolds
  <1>8. /\ s.raised \in 0..(day - 1) /\ Shape(s) /\ s.day # None
        /\ b.valuations[day] = v
    BY <1>3, <1>4 DEF Sound
  <1>9. Holding(b, s.raised, Never) /\ Holding(b, s.raised, v.readAt)
    <2>1. Holding(a, s.raised, v.readAt)
      <3>1. \A r \in a.resumes : r.at \in Nat
        BY InstantsTyped
      <3> QED
        BY <1>4, <3>1, BoundsInt DEF Holding
    <2> QED
      BY <1>4, <1>5, <1>8, <2>1
  <1> HIDE DEF s, t
  <1>10. t.raised = s.raised
    <2>1. CASE Unread(b, s, day)
      BY <1>7, <2>1, ReadSkips
    <2>2. CASE ~Unread(b, s, day) /\ ~Known(b, s, day)
      BY <1>7, <1>8, <2>2, ReadStopsThere
    <2>3. CASE ~Unread(b, s, day) /\ Known(b, s, day)
      <3>1. t.raised = Raised(b, s, day)
        BY <1>7, <1>8, <2>3, ReadJudges
      <3> QED
        BY <1>8, <1>9, <3>1 DEF Raised
    <2> QED
      BY <2>1, <2>2, <2>3
  <1> QED
    BY <1>4, <1>9, <1>10 DEF Halt, HaltOf, s, t

\* A resume recorded after every value was read lifts the halt, and changes no day's judging.
LEMMA LaterResume ==
    ASSUME NEW a \in Record, NEW b, Alike(a, b), b.valuations = a.valuations,
           NEW r, r.haltDay = Halt(a), r.at \in Nat, r.at < Never, ReadBefore(a, r.at),
           b.resumes = a.resumes \union {r}
    PROVE  Halt(b) = None
  <1> DEFINE s == RiskState(a)
  <1>1. \A d \in Days : a.valuations[d].readAt \in Nat /\ a.valuations[d].readAt < r.at
    BY InstantsTyped DEF ReadBefore
  <1>2. RiskState(b) = s
    <2>1. ASSUME NEW d \in 1..((MaxDay + 1) - 1)
          PROVE  /\ a.valuations[d] = b.valuations[d]
                 /\ \A raised \in 0..(d - 1) :
                        Holding(a, raised, a.valuations[d].readAt)
                            <=> Holding(b, raised, b.valuations[d].readAt)
      <3>1. ~(r.at < a.valuations[d].readAt)
        BY <1>1, BoundsInt
      <3> QED
        BY <3>1 DEF Holding
    <2>2. MaxDay + 1 \in 1..(MaxDay + 1) /\ MaxDay \in 0..((MaxDay + 1) - 1)
      BY BoundsInt
    <2>3. RiskAfter(a)[MaxDay] = RiskAfter(b)[MaxDay]
      BY <2>1, <2>2, AlikeUntil
    <2> QED
      BY <2>3 DEF RiskState
  <1>3. s.raised \in 0..MaxDay /\ Halt(a) = HaltOf(a, s)
    BY HaltTyped
  <1> HIDE DEF s
  <1>4. CASE Holding(a, s.raised, Never)
    <2>1. r.haltDay = s.raised /\ s.raised # None
      BY <1>3, <1>4 DEF HaltOf, Holding
    <2>2. s.raised \in Days
      BY <1>3, <2>1, BoundsInt
    <2>3. a.valuations[s.raised].readAt < r.at
      BY <1>1, <2>2
    <2>4. ~Holding(b, s.raised, Never)
      BY <2>1, <2>3 DEF Holding
    <2> QED
      BY <1>2, <2>4 DEF Halt, HaltOf, s
  <1>5. CASE ~Holding(a, s.raised, Never)
    <2>1. ~Holding(b, s.raised, Never)
      BY <1>5 DEF Holding
    <2> QED
      BY <1>2, <2>1 DEF Halt, HaltOf, s
  <1> QED
    BY <1>4, <1>5

\* A recovery alone lifts nothing: while pages are read and movements recorded, by any number of
\* panels and in any order, the read of a later day leaves the halt in force, with its first day.
THEOREM RecoveryLiftsNothing == Spec => HaltOutlivesRecovery
  <1>1. ASSUME PanelInv, NEW p \in Panels, RecordValuation(p),
               \A d \in panel[p].page.day..MaxDay : db.valuations[d].value = None,
               Halt(db) # None
        PROVE  Halt(db') = Halt(db)
    <2> DEFINE page == panel[p].page
               v == [value |-> page.value, readAt |-> page.readAt]
    <2>1. /\ page \in [day : 0..MaxDay, value : Nat, readAt : 0..MaxInstant] /\ page.day # None
          /\ db \in Record /\ db' = [db EXCEPT !.valuations[page.day] = v]
      BY <1>1 DEF PanelInv, TypeOK, Job, JobInOrder, RecordValuation
    <2> DEFINE day == page.day
    <2>2. day \in Days /\ v.readAt \in Nat /\ v.readAt < Never
      BY <2>1, BoundsInt
    <2>3. \A d \in day..MaxDay : db.valuations[d].value = None
      BY <1>1
    <2>4. db' = [db EXCEPT !.valuations[day] = v]
      BY <2>1
    <2> HIDE DEF v, day
    <2>5. /\ Alike(db, db') /\ db'.resumes = db.resumes
          /\ \A d \in Days : db'.valuations[d] = IF d = day THEN v ELSE db.valuations[d]
      BY <2>1, <2>2, <2>4 DEF Record, Alike
    <2>6. db \in Record /\ Halt(db) # None
      BY <1>1, <2>1
    <2> QED
      BY <2>2, <2>3, <2>5, <2>6, LaterRead
  <1>2. PanelInv /\ [Next]_vars =>
          [\A p \in Panels :
            (RecordValuation(p) /\ \A d \in panel[p].page.day..MaxDay : db.valuations[d].value = None)
                => (Halt(db) # None => Halt(db') = Halt(db))]_vars
    BY <1>1
  <1> QED
    BY <1>2, RecordsAreInOrder, PTL DEF Spec, HaltOutlivesRecovery

\* A resume lifts the halt it was granted for, when the record is still what it was judged by:
\* its instant is after every value read, whichever panel recorded it.
THEOREM ResumesLift == Spec => ResumeLiftsItsHalt
  <1>1. ASSUME PanelInv, NEW p \in Panels, RecordResume(p), panel[p].seen = db
        PROVE  Halt(db') = None
    <2> DEFINE r == [haltDay |-> Halt(panel[p].seen), at |-> panel[p].page.readAt]
    <2>1. /\ db \in Record /\ panel[p].page.readAt \in 0..MaxInstant
          /\ ReadBefore(panel[p].seen, panel[p].page.readAt)
          /\ db' = [db EXCEPT !.resumes = @ \cup {r}]
      BY <1>1 DEF PanelInv, TypeOK, Job, JobInOrder, RecordResume
    <2>2. /\ r.haltDay = Halt(db) /\ r.at \in Nat /\ r.at < Never /\ ReadBefore(db, r.at)
      BY <1>1, <2>1, BoundsInt
    <2> HIDE DEF r
    <2>3. Alike(db, db') /\ db'.valuations = db.valuations /\ db'.resumes = db.resumes \union {r}
      BY <2>1 DEF Record, Alike
    <2> QED
      BY <2>1, <2>2, <2>3, LaterResume
  <1>2. PanelInv /\ [Next]_vars =>
          [\A p \in Panels : (RecordResume(p) /\ panel[p].seen = db) => Halt(db') = None]_vars
    BY <1>1
  <1> QED
    BY <1>2, RecordsAreInOrder, PTL DEF Spec, ResumeLiftsItsHalt
=============================================================================
