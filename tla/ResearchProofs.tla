----------------------------- MODULE ResearchProofs -----------------------------
(***************************************************************************)
(* Theorems about the research side.                                       *)
(*                                                                         *)
(* The store of candles, for any symbols, histories, page sizes and        *)
(* failures: what a walk has in hand reaches down to its cursor without a  *)
(* gap; when it is written, it reaches a bar the store holds or the first  *)
(* one there is.                                                           *)
(*                                                                         *)
(* The backtester, for any prices, costs, strategies and symbols: what an  *)
(* account may never hold, what a rebalance may never gain, what a         *)
(* strategy may never target, and that later bars rewrite no result.  The  *)
(* loop over the days and the orders of a rebalance are recursions; a fact *)
(* about them is proved on a smallest counterexample.                      *)
(***************************************************************************)
EXTENDS Research, FoldProofs

USE StoreAssumption

LEMMA HasGreatest ==
    ASSUME NEW n \in Nat, NEW T, T \subseteq 0..n, T # {}
    PROVE  \E m \in T : Greatest(T, m)
<1> DEFINE U == {n - x : x \in T}
<1>0. ASSUME NEW x \in T PROVE n - x \in Nat /\ x \in Int
  <2>1. x \in 0..n
    OBVIOUS
  <2> QED
    BY <2>1
<1>1. U \subseteq Nat /\ U # {}
  <2>1. U \subseteq Nat
    BY <1>0
  <2>2. PICK x \in T : TRUE
    OBVIOUS
  <2>3. n - x \in U
    OBVIOUS
  <2> QED
    BY <2>1, <2>3
<1>2. PICK u \in U : Least(U, u)
  BY <1>1, HasLeast
<1>3. PICK m \in T : u = n - m
  BY <1>2
<1>4. \A x \in T : n - x \in U
  OBVIOUS
<1>5. ASSUME NEW x \in T PROVE x <= m
  <2>1. n - m <= n - x
    BY <1>2, <1>3, <1>4 DEF Least
  <2> QED
    BY <1>0, <1>3, <2>1
<1> QED
  BY <1>3, <1>5 DEF Greatest

LEMMA MinIsLeast ==
    ASSUME NEW T, T \subseteq Nat, T # {} PROVE Least(T, Min(T))
BY HasLeast DEF Min, Least

LEMMA MaxIsGreatest ==
    ASSUME NEW n \in Nat, NEW T, T \subseteq 0..n, T # {} PROVE Greatest(T, Max(T))
<1>1. PICK m \in T : Greatest(T, m)
  BY HasGreatest
<1>2. \A x \in T : m >= x
  BY <1>1 DEF Greatest
<1>3. Max(T) \in T /\ \A x \in T : Max(T) >= x
  BY <1>2 DEF Max
<1> QED
  BY <1>3 DEF Greatest

--------------------------------------------------------------------------------
Held(s) == DaysOf(stored[s])
Traded(s) == DaysOf(history[s])

SyncRecord(x) ==
    x \in [pc : {"idle", "walk", "write"}, full : {x.full}, todo : {x.todo}, sym : {x.sym},
           stopAt : {x.stopAt}, before : {x.before}, batch : {x.batch}, fetched : {x.fetched}]

TypeInv ==
    /\ history \in Histories
    /\ day \in 1..Days /\ phase \in {"open", "after"}
    /\ stored \in [Symbols -> [1..Days -> Bars]]
    /\ \A s \in Symbols : Held(s) \subseteq {d \in Traded(s) : d <= day}
    /\ SyncRecord(sync)

\* The walk of symbol s, as far as it got.
Walk(s) ==
    LET b == sync.batch
        got == DaysOf(b)
    IN  /\ b \in [1..Days -> Bars] /\ sync.before \in 1..(Days + 1)
        /\ sync.stopAt \in 0..Newest(s)
        /\ sync.fetched \in Nat /\ sync.fetched = Cardinality(got)
        /\ sync.pc = "walk" => sync.fetched < MaxBars
        /\ got \subseteq {d \in Traded(s) : d <= day /\ d >= sync.before}

\* Down to the cursor nothing is missing ...
Dense(s) ==
    \A d \in Traded(s), e \in DaysOf(sync.batch) \cup Held(s) :
        d >= sync.before /\ d <= e => d \in DaysOf(sync.batch)

\* ... a bar that is not final is the newest of all ...
Final(s) ==
    \A d \in DaysOf(sync.batch), e \in DaysOf(sync.batch) \cup Held(s) :
        d < e => sync.batch[d] = history[s][d]

\* ... and a walk that is over reached a bar it holds, or everything.
Reach(s) ==
    \/ sync.stopAt # 0 /\ sync.before <= sync.stopAt
    \/ \A d \in Traded(s), e \in DaysOf(sync.batch) \cup Held(s) : d < sync.before => d > e

WalkInv ==
    sync.pc # "idle" /\ sync.sym \in Symbols =>
        /\ Walk(sync.sym)
        /\ Dense(sync.sym)
        /\ Final(sync.sym)
        /\ sync.pc = "write" => Reach(sync.sym)

Inv == TypeInv /\ WalkInv /\ NoHoles /\ OnlyNewestIsPartial

LEMMA DaysOfType == ASSUME NEW b PROVE DaysOf(b) \subseteq 1..Days /\ DaysOf(b) \subseteq Nat
BY DEF DaysOf

LEMMA DaysFinite ==
    /\ IsFiniteSet(1..Days) /\ Cardinality(1..Days) = Days
    /\ \A T \in SUBSET (1..Days) : IsFiniteSet(T) /\ Cardinality(T) \in Nat
<1>1. 1 \in Int /\ Days \in Int /\ 1 <= Days
  OBVIOUS
<1>2. IsFiniteSet(1..Days) /\ Cardinality(1..Days) = Days
  BY <1>1, FS_Interval
<1> QED
  BY <1>2, FS_Subset, FS_CardinalityType

LEMMA NewestOf ==
    ASSUME NEW b
    PROVE  LET m == Max(DaysOf(b) \cup {0})
           IN  m \in 0..Days /\ (\A d \in DaysOf(b) : d <= m) /\ (m # 0 => m \in DaysOf(b))
<1> DEFINE T == DaysOf(b) \cup {0}
<1>1. T \subseteq 0..Days /\ T # {} /\ Days \in Nat
  BY DaysOfType
<1>2. Greatest(T, Max(T))
  BY <1>1, MaxIsGreatest
<1>3. Max(T) \in T /\ \A x \in T : x <= Max(T)
  BY <1>2 DEF Greatest
<1> QED
  BY <1>1, <1>3

LEMMA NewestFacts ==
    ASSUME NEW s
    PROVE  /\ Newest(s) \in 0..Days
           /\ \A d \in Held(s) : d <= Newest(s)
           /\ Newest(s) # 0 => Newest(s) \in Held(s)
BY NewestOf DEF Newest, Held

LEMMA HistoryFacts ==
    ASSUME TypeInv, NEW s \in Symbols, NEW d \in 1..Days
    PROVE  /\ history[s] \in [1..Days -> Bars] /\ history[s][d] \in Bars
           /\ d \in Traded(s) <=> history[s][d] # NoBar
           /\ d \in Traded(s) => history[s][d].open \in Nat /\ history[s][d].open > 0
                                 /\ history[s][d].close \in Nat
<1>1. /\ history \in [Symbols -> [1..Days -> Bars]]
      /\ history[s][d] = NoBar \/ history[s][d].open > 0
  BY SyncAssumption DEF TypeInv
<1>2. history[s] \in [1..Days -> Bars]
  BY <1>1
<1>3. history[s][d] \in Bars
  BY <1>2
<1>4. d \in Traded(s) <=> history[s][d] # NoBar
  BY DEF Traded, DaysOf
<1>5. history[s][d].open \in Nat /\ history[s][d].close \in Nat
  BY <1>3 DEF Bars
<1> QED
  BY <1>1, <1>2, <1>3, <1>4, <1>5

\* A bar that is read is a bar, and final unless it is today's.
LEMMA BarNowFacts ==
    ASSUME TypeInv, NEW s \in Symbols, NEW d \in Traded(s), d <= day
    PROVE  /\ BarNow(s, d) \in Bars /\ BarNow(s, d) # NoBar
           /\ d < day => BarNow(s, d) = history[s][d]
<1>1. d \in 1..Days
  BY DaysOfType DEF Traded
<1>2. /\ history[s][d] \in Bars /\ history[s][d] # NoBar
      /\ history[s][d].open \in Nat /\ history[s][d].open > 0
  BY <1>1, HistoryFacts
<1>3. CASE d = day /\ phase = "open"
  <2> DEFINE o == history[s][d].open
             x == [open |-> o, close |-> o]
  <2>1. BarNow(s, d) = x
    BY <1>3 DEF BarNow
  <2>2. o \in Nat /\ o > 0
    BY <1>2
  <2> HIDE DEF o
  <2>3. x \in Bars /\ x.open = o /\ NoBar.open = 0
    BY <2>2 DEF Bars, NoBar
  <2>4. x # NoBar
    BY <2>2, <2>3
  <2>5. ~(d < day)
    BY <1>1, <1>3
  <2> QED
    BY <2>1, <2>3, <2>4, <2>5
<1>4. CASE ~(d = day /\ phase = "open")
  BY <1>2, <1>4 DEF BarNow
<1> QED
  BY <1>3, <1>4

\* A page is the newest of what is older than the cursor, and never empty
\* while there is any.
LEMMA PageFacts ==
    ASSUME TypeInv, NEW s \in Symbols, NEW c \in Int, NEW n \in Nat \ {0}
    PROVE  LET older == {d \in Offered(s) : d < c}
           IN  /\ Page(s, c, n) \subseteq older
               /\ \A d \in Page(s, c, n), e \in older : e >= d => e \in Page(s, c, n)
               /\ older # {} => Page(s, c, n) # {}
<1> DEFINE older == {d \in Offered(s) : d < c}
           Above(d) == {e \in older : e > d}
<1>1. older \subseteq 1..Days
  BY DaysOfType DEF Offered
<1>2. Page(s, c, n) = {d \in older : Cardinality(Above(d)) < n}
  BY DEF Page
<1>3. \A d \in older : IsFiniteSet(Above(d)) /\ Cardinality(Above(d)) \in Nat
  <2>1. \A d \in older : Above(d) \in SUBSET (1..Days)
    BY <1>1
  <2> HIDE DEF Above, older
  <2> QED
    BY <2>1, DaysFinite
<1>4. ASSUME NEW d \in Page(s, c, n), NEW e \in older, e >= d PROVE e \in Page(s, c, n)
  <2>1. d \in older /\ Cardinality(Above(d)) < n
    BY <1>2
  <2>2. Above(e) \in SUBSET Above(d)
    <3>1. d \in Int /\ e \in Int
      BY <1>1, <2>1
    <3>2. ASSUME NEW x \in Above(e) PROVE x \in Above(d)
      <4>1. x \in older /\ x > e /\ x \in Int
        BY <1>1
      <4> QED
        BY <1>4, <3>1, <4>1
    <3> QED
      BY <3>2
  <2>3. Cardinality(Above(e)) <= Cardinality(Above(d))
    <3> HIDE DEF Above, older
    <3> QED
      BY <1>3, <2>1, <2>2, FS_Subset
  <2>4. Cardinality(Above(e)) < n
    <3> HIDE DEF Above, older
    <3> QED
      BY <1>3, <1>4, <2>1, <2>3
  <2> QED
    BY <1>2, <1>4, <2>4
<1>5. ASSUME older # {} PROVE Page(s, c, n) # {}
  <2>1. older \subseteq 0..Days /\ Days \in Nat
    BY <1>1
  <2>2. PICK m \in older : Greatest(older, m)
    <3> HIDE DEF older
    <3> QED
      BY <1>5, <2>1, HasGreatest
  <2>3. Above(m) = {}
    <3>1. ASSUME NEW x \in Above(m) PROVE FALSE
      <4>1. x \in older /\ x > m /\ x <= m /\ x \in Int /\ m \in Int
        BY <1>1, <2>2 DEF Greatest
      <4> QED
        BY <4>1
    <3> QED
      BY <3>1
  <2>4. Cardinality(Above(m)) = 0
    BY <2>3, FS_EmptySet
  <2>5. m \in Page(s, c, n)
    BY <1>2, <2>4
  <2> QED
    BY <2>5
<1> QED
  BY <1>2, <1>4, <1>5

--------------------------------------------------------------------------------
LEMMA NextSymbolFacts ==
    ASSUME NEW full, NEW todo, NEW x, x = NextSymbol(full, todo)
    PROVE  /\ SyncRecord(x) /\ x.pc \in {"idle", "walk"}
           /\ x.pc = "walk" =>
                  /\ x.before = Days + 1 /\ x.batch = NoBars /\ x.fetched = 0
                  /\ x.stopAt \in {0, Newest(x.sym)}
<1>1. CASE todo = <<>>
  <2>1. x = Idle
    BY <1>1 DEF NextSymbol
  <2> QED
    BY <2>1 DEF Idle, SyncRecord
<1>2. CASE todo # <<>>
  <2> DEFINE h == Head(todo)
             q == Tail(todo)
             m == StopAt(h, full)
  <2>1. x = [pc |-> "walk", full |-> full, todo |-> q, sym |-> h, stopAt |-> m,
             before |-> Days + 1, batch |-> NoBars, fetched |-> 0]
    BY <1>2 DEF NextSymbol
  <2>2. m \in {0, Newest(h)}
    BY DEF StopAt
  <2> HIDE DEF h, q, m
  <2>3. SyncRecord(x)
    BY <2>1 DEF SyncRecord
  <2>4. x.sym = h /\ x.stopAt = m /\ x.pc = "walk" /\ x.before = Days + 1
        /\ x.batch = NoBars /\ x.fetched = 0
    BY <2>1
  <2> QED
    BY <2>2, <2>3, <2>4
<1> QED
  BY <1>1, <1>2

LEMMA NoBarsFacts == NoBars \in [1..Days -> Bars] /\ DaysOf(NoBars) = {}
BY DEF NoBars, NoBar, Bars, DaysOf

\* A walk that has just begun, over a store that has lost nothing.
LEMMA FreshWalk ==
    ASSUME NEW full, NEW todo, sync' = NextSymbol(full, todo),
           \A s \in Symbols : Held(s) \subseteq Held(s)'
    PROVE  SyncRecord(sync)' /\ WalkInv'
<1>1. /\ SyncRecord(sync)' /\ sync'.pc \in {"idle", "walk"}
      /\ sync'.pc = "walk" =>
             /\ sync'.before = Days + 1 /\ sync'.batch = NoBars /\ sync'.fetched = 0
             /\ sync'.stopAt \in {0, Newest(sync'.sym)}
  BY NextSymbolFacts DEF SyncRecord
<1>2. SUFFICES ASSUME NEW s \in Symbols, s = sync'.sym, sync'.pc = "walk"
               PROVE  Walk(s)' /\ Dense(s)' /\ Final(s)'
  <2>1. sync'.pc # "write" /\ (sync'.pc # "idle" => sync'.pc = "walk")
    BY <1>1
  <2> QED
    BY <1>1, <2>1 DEF WalkInv
<1> DEFINE new == Newest(s)'
<1>3. new \in 0..Days /\ (\A d \in Held(s)' : d <= new)
  BY NewestOf DEF Newest, Held
<1>4. Newest(s) \in 0..Days /\ (Newest(s) # 0 => Newest(s) \in Held(s))
  BY NewestFacts
<1>5. Newest(s) <= new
  <2>1. Held(s) \subseteq Held(s)'
    BY <1>2
  <2>2. CASE Newest(s) = 0
    <3> HIDE DEF new
    <3> QED
      BY <1>3, <2>2
  <2>3. CASE Newest(s) # 0
    BY <1>3, <1>4, <2>1, <2>3
  <2> QED
    BY <2>2, <2>3
<1>6. sync'.stopAt \in 0..new
  BY <1>1, <1>2, <1>3, <1>4, <1>5
<1>7. DaysOf(sync'.batch) = {} /\ Cardinality(DaysOf(sync'.batch)) = 0
      /\ sync'.batch \in [1..Days -> Bars]
  BY <1>1, <1>2, NoBarsFacts, FS_EmptySet
<1>8. Walk(s)'
  <2>1. 0 < MaxBars /\ Days + 1 \in 1..(Days + 1)
    BY SyncAssumption
  <2> HIDE DEF new
  <2> QED
    BY <1>1, <1>2, <1>6, <1>7, <2>1 DEF Walk, new
<1>9. Dense(s)'
  <2>1. \A d \in Traded(s)' : d \in 1..Days
    BY DaysOfType DEF Traded
  <2>2. ASSUME NEW d \in Traded(s)', d >= sync'.before PROVE FALSE
    BY <1>1, <1>2, <2>1, <2>2
  <2> QED
    BY <2>2 DEF Dense
<1>10. Final(s)'
  BY <1>7 DEF Final
<1> QED
  BY <1>8, <1>9, <1>10

--------------------------------------------------------------------------------
\* A step that leaves the store alone.
LEMMA StoreRests ==
    ASSUME Inv, UNCHANGED <<history, day, phase, stored>>, SyncRecord(sync)', WalkInv'
    PROVE  Inv'
<1>1. TypeInv'
  BY DEF Inv, TypeInv, Held, Traded
<1>2. NoHoles' /\ OnlyNewestIsPartial'
  BY DEF Inv, NoHoles, OnlyNewestIsPartial, Newest
<1> QED
  BY <1>1, <1>2 DEF Inv

LEMMA FreshSync ==
    ASSUME Inv, NEW full, NEW todo, sync' = NextSymbol(full, todo),
           UNCHANGED <<history, day, phase, stored>>
    PROVE  Inv'
<1>1. \A s \in Symbols : Held(s) \subseteq Held(s)'
  BY DEF Held
<1> QED
  BY <1>1, FreshWalk, StoreRests

LEMMA Dying == Inv /\ SyncDies => Inv'
<1> SUFFICES ASSUME Inv, SyncDies PROVE Inv'
  OBVIOUS
<1>1. sync' = Idle /\ UNCHANGED <<history, day, phase, stored>>
  BY DEF SyncDies
<1>2. SyncRecord(sync)'
  BY <1>1 DEF SyncRecord, Idle
<1>3. WalkInv'
  BY <1>1 DEF WalkInv, Idle
<1> QED
  BY <1>1, <1>2, <1>3, StoreRests

LEMMA TimePasses == Inv /\ NextDayOrPhase => Inv'
<1> SUFFICES ASSUME Inv, NextDayOrPhase PROVE Inv'
  OBVIOUS
<1>1. UNCHANGED <<history, stored, sync>>
  BY DEF NextDayOrPhase
<1>2. day' \in 1..Days /\ day' >= day /\ day \in 1..Days /\ phase' \in {"open", "after"}
  <2>1. day \in 1..Days
    BY DEF Inv, TypeInv
  <2> QED
    BY <2>1 DEF NextDayOrPhase
<1>3. \A s : Held(s) \subseteq Nat /\ (s \in Symbols => Held(s) \subseteq {d \in Traded(s) : d <= day})
  BY DaysOfType DEF Held, Inv, TypeInv
<1>4. ASSUME NEW s \in Symbols
      PROVE  Held(s)' \subseteq {d \in Traded(s)' : d <= day'}
  <2>1. Held(s)' = Held(s) /\ Traded(s)' = Traded(s)
    BY <1>1 DEF Held, Traded
  <2> QED
    BY <1>2, <1>3, <2>1
<1>5. TypeInv'
  BY <1>1, <1>2, <1>4 DEF Inv, TypeInv, SyncRecord
<1>6. ASSUME NEW s, Walk(s) PROVE Walk(s)'
  <2>1. DaysOf(sync.batch) \subseteq Nat
    BY DaysOfType
  <2> QED
    BY <1>1, <1>2, <1>6, <2>1 DEF Walk, Newest, Traded
<1>7. \A s : /\ Dense(s) => Dense(s)'
             /\ Final(s) => Final(s)'
             /\ Reach(s) => Reach(s)'
  BY <1>1 DEF Dense, Final, Reach, Traded, Held
<1>8. WalkInv'
  BY <1>1, <1>6, <1>7 DEF Inv, WalkInv
<1>9. NoHoles' /\ OnlyNewestIsPartial'
  BY <1>1 DEF Inv, NoHoles, OnlyNewestIsPartial, Newest
<1> QED
  BY <1>5, <1>8, <1>9 DEF Inv

LEMMA PageCountFacts ==
    ASSUME NEW f \in Nat, f < MaxBars PROVE PageCount(f) \in Nat \ {0}
<1>1. /\ {PageSize, MaxBars - f} \subseteq Nat \ {0}
      /\ {PageSize, MaxBars - f} # {}
  BY SyncAssumption
<1>2. Least({PageSize, MaxBars - f}, Min({PageSize, MaxBars - f}))
  BY <1>1, MinIsLeast
<1> QED
  BY <1>1, <1>2 DEF PageCount, Least

\* A page that is not empty lies between its oldest day and the cursor, and
\* what it leaves out in between there is none of.
LEMMA PageSpan ==
    ASSUME TypeInv, NEW s \in Symbols, NEW c \in Int, NEW n \in Nat \ {0},
           NEW page, page = Page(s, c, n), page # {}
    PROVE  /\ Min(page) \in page
           /\ page \subseteq {d \in Traded(s) : Min(page) <= d /\ d < c /\ d <= day}
           /\ \A d \in Traded(s) : Min(page) <= d /\ d < c /\ d <= day => d \in page
<1> DEFINE older == {d \in Offered(s) : d < c}
<1>1. /\ page \subseteq older
      /\ \A d \in page, e \in older : e >= d => e \in page
  BY PageFacts
<1>2. Offered(s) = {d \in Traded(s) : d <= day} /\ Traded(s) \subseteq Nat
  BY DaysOfType DEF Offered, Traded
<1>3. page \subseteq Nat
  BY <1>1, <1>2
<1>4. Min(page) \in page /\ \A d \in page : Min(page) <= d
  BY <1>3, MinIsLeast DEF Least
<1>5. older = {d \in Traded(s) : d < c /\ d <= day}
  BY <1>2
<1> QED
  BY <1>1, <1>3, <1>4, <1>5

\* The last page was reached: nothing is older than the cursor.
LEMMA EmptyPage ==
    ASSUME Inv, NEW s \in Symbols, s = sync.sym, sync.pc = "walk",
           Page(s, sync.before, PageCount(sync.fetched)) = {},
           sync' = [sync EXCEPT !.pc = "write"],
           UNCHANGED <<history, day, phase, stored>>
    PROVE  Inv'
<1>1. Walk(s) /\ Dense(s) /\ Final(s) /\ TypeInv
  BY DEF Inv, WalkInv
<1>2. /\ sync'.pc = "write" /\ sync'.sym = s /\ sync'.batch = sync.batch
      /\ sync'.before = sync.before /\ sync'.stopAt = sync.stopAt
      /\ sync'.fetched = sync.fetched /\ SyncRecord(sync)'
  BY <1>1 DEF TypeInv, SyncRecord
<1>3. sync.before \in Int /\ PageCount(sync.fetched) \in Nat \ {0}
  BY <1>1, PageCountFacts DEF Walk
<1>4. \A d \in Traded(s) : d < sync.before => d > day
  <2>1. {d \in Offered(s) : d < sync.before} = {}
    BY <1>1, <1>3, PageFacts
  <2>2. Offered(s) = {d \in Traded(s) : d <= day} /\ Traded(s) \subseteq Nat
    BY DaysOfType DEF Offered, Traded
  <2>3. day \in Int
    BY <1>1 DEF TypeInv
  <2> QED
    BY <2>1, <2>2, <2>3
<1>5. Reach(s)
  <2>1. \A e \in DaysOf(sync.batch) \cup Held(s) : e <= day /\ e \in Nat
    BY <1>1, DaysOfType DEF Walk, TypeInv, Held
  <2>2. Traded(s) \subseteq Nat /\ day \in Int
    BY <1>1, DaysOfType DEF Traded, TypeInv
  <2> QED
    BY <1>4, <2>1, <2>2 DEF Reach
<1>6. Walk(s)' /\ Dense(s)' /\ Final(s)' /\ Reach(s)'
  BY <1>1, <1>2, <1>5 DEF Walk, Newest, Dense, Final, Reach, Traded, Held
<1>7. WalkInv'
  BY <1>2, <1>6 DEF WalkInv
<1> QED
  BY <1>2, <1>7, StoreRests

\* A page joins what the walk has in hand.
LEMMA FullPage ==
    ASSUME Inv, MaxBars >= Days, NEW s \in Symbols, s = sync.sym, sync.pc = "walk",
           NEW page, page = Page(s, sync.before, PageCount(sync.fetched)), page # {},
           sync' = [sync EXCEPT !.pc = IF Walked(page) THEN "write" ELSE "walk",
                                !.before = Min(page),
                                !.batch = [d \in 1..Days |->
                                    IF d \in page THEN BarNow(s, d) ELSE @[d]],
                                !.fetched = @ + Cardinality(page)],
           UNCHANGED <<history, day, phase, stored>>
    PROVE  Inv'
<1> DEFINE low == Min(page)
           got == DaysOf(sync.batch)
           batch == [d \in 1..Days |-> IF d \in page THEN BarNow(s, d) ELSE sync.batch[d]]
           total == sync.fetched + Cardinality(page)
<1>1. Walk(s) /\ Dense(s) /\ Final(s) /\ TypeInv
  BY DEF Inv, WalkInv
<1>2. /\ sync'.pc = IF Walked(page) THEN "write" ELSE "walk"
      /\ sync'.sym = s /\ sync'.batch = batch
      /\ sync'.before = low /\ sync'.stopAt = sync.stopAt
      /\ sync'.fetched = total /\ SyncRecord(sync)'
  BY <1>1 DEF TypeInv, SyncRecord
<1>3. /\ sync.before \in 1..(Days + 1) /\ sync.stopAt \in 0..Newest(s)
      /\ sync.fetched \in Nat /\ sync.fetched = Cardinality(got) /\ sync.fetched < MaxBars
      /\ got \subseteq {d \in Traded(s) : d <= day /\ d >= sync.before}
      /\ sync.batch \in [1..Days -> Bars] /\ day \in Nat
  BY <1>1 DEF Walk, TypeInv
<1>4. Held(s) \subseteq {d \in Traded(s) : d <= day} /\ Traded(s) \subseteq 1..Days
  BY <1>1, DaysOfType DEF TypeInv, Traded
<1>5. /\ low \in page
      /\ page \subseteq {d \in Traded(s) : low <= d /\ d < sync.before /\ d <= day}
      /\ \A d \in Traded(s) : low <= d /\ d < sync.before /\ d <= day => d \in page
  BY <1>1, <1>3, PageCountFacts, PageSpan
<1>6. /\ batch \in [1..Days -> Bars] /\ DaysOf(batch) = got \cup page
      /\ \A d \in page : batch[d] = BarNow(s, d)
      /\ \A d \in got : d \notin page /\ batch[d] = sync.batch[d]
  <2>1. \A d \in page : BarNow(s, d) \in Bars /\ BarNow(s, d) # NoBar
    BY <1>1, <1>5, BarNowFacts
  <2>2. \A d \in 1..Days : sync.batch[d] \in Bars /\ (d \in got <=> sync.batch[d] # NoBar)
    BY <1>3 DEF DaysOf
  <2>3. page \subseteq 1..Days /\ got \subseteq 1..Days
    BY <1>3, <1>4, <1>5
  <2>4. \A d \in got : d \notin page
    BY <1>3, <1>4, <1>5
  <2>5. \A d \in 1..Days : batch[d] = IF d \in page THEN BarNow(s, d) ELSE sync.batch[d]
    OBVIOUS
  <2>6. batch \in [1..Days -> Bars]
    BY <2>1, <2>2
  <2>7. DaysOf(batch) = {d \in 1..Days : batch[d] # NoBar}
    BY DEF DaysOf
  <2> HIDE DEF batch, got
  <2> QED
    BY <2>1, <2>2, <2>3, <2>4, <2>5, <2>6, <2>7
<1>7. total \in Nat /\ total = Cardinality(got \cup page)
  <2>1. IsFiniteSet(got) /\ IsFiniteSet(page) /\ Cardinality(page) \in Nat
    <3>1. got \in SUBSET (1..Days) /\ page \in SUBSET (1..Days)
      BY <1>3, <1>4, <1>5
    <3> HIDE DEF got
    <3> QED
      BY <3>1, DaysFinite
  <2>2. got \cap page = {}
    BY <1>6
  <2>3. Cardinality(got \cap page) = 0
    BY <2>2, FS_EmptySet
  <2>4. Cardinality(got \cup page) = Cardinality(got) + Cardinality(page) - Cardinality(got \cap page)
    BY <2>1, FS_Union
  <2> HIDE DEF got
  <2> QED
    BY <1>3, <2>1, <2>3, <2>4
<1> HIDE DEF batch, total, low, got
<1>8. Walk(s)'
  <2>1. DaysOf(batch) \subseteq {d \in Traded(s) : d <= day /\ d >= low}
    <3>1. \A d \in got : d >= low
      BY <1>3, <1>4, <1>5
    <3> QED
      BY <1>3, <1>5, <1>6, <3>1
  <2>2. ~Walked(page) => total < MaxBars
    BY <1>7, SyncAssumption DEF Walked, total
  <2>3. low \in 1..(Days + 1)
    BY <1>4, <1>5
  <2>4. sync'.pc = "walk" => ~Walked(page)
    BY <1>2
  <2> QED
    BY <1>2, <1>3, <1>6, <1>7, <2>1, <2>2, <2>3, <2>4 DEF Walk, Newest, Traded
<1>9. Dense(s)'
  <2>1. SUFFICES ASSUME NEW d \in Traded(s), NEW e \in got \cup page \cup Held(s), d >= low, d <= e
                 PROVE  d \in got \cup page
    BY <1>2, <1>6 DEF Dense, Traded, Held
  <2>2. /\ d \in Int /\ e \in Int /\ e <= day /\ sync.before \in Int /\ low \in Int
        /\ (e \in page => e < sync.before)
    BY <1>3, <1>4, <1>5
  <2>3. CASE d >= sync.before
    <3>1. e \in got \cup Held(s)
      BY <2>1, <2>2, <2>3
    <3> QED
      BY <1>1, <2>1, <2>3, <3>1 DEF Dense, got
  <2>4. CASE d < sync.before
    BY <1>3, <1>5, <2>1, <2>2, <2>4
  <2> QED
    BY <2>2, <2>3, <2>4
<1>10. Final(s)'
  <2>1. SUFFICES ASSUME NEW d \in got \cup page, NEW e \in got \cup page \cup Held(s), d < e
                 PROVE  batch[d] = history[s][d]
    BY <1>2, <1>6 DEF Final, Held
  <2>2. /\ d \in Int /\ e \in Int /\ e <= day /\ d <= day /\ d \in Traded(s)
        /\ (e \in page => e < sync.before) /\ (d \in got => d >= sync.before)
        /\ sync.before \in Int
    BY <1>3, <1>4, <1>5
  <2>3. CASE d \in page
    <3>1. d < day
      BY <1>3, <2>1, <2>2
    <3> QED
      BY <1>1, <1>6, <2>2, <2>3, <3>1, BarNowFacts
  <2>4. CASE d \in got
    <3>1. e \in got \cup Held(s)
      BY <2>1, <2>2, <2>4
    <3> QED
      BY <1>1, <1>6, <2>1, <2>4, <3>1 DEF Final, got
  <2> QED
    BY <2>3, <2>4
<1>11. ASSUME Walked(page) PROVE Reach(s)'
  <2>1. \A e \in got \cup page \cup Held(s) : e <= day /\ e \in Int
    BY <1>3, <1>4, <1>5
  <2>2. CASE sync.stopAt # 0 /\ Min(page) <= sync.stopAt
    BY <1>2, <2>2 DEF Reach, low
  <2>3. CASE LastPage(sync.sym, page)
    <3>1. \A d \in Traded(s) : d < low => d > day
      <4>1. Offered(s) = {d \in Traded(s) : d <= day}
        BY DEF Offered, Traded
      <4>2. ~\E d \in Offered(s) : d < low
        BY <2>3 DEF LastPage, low
      <4> QED
        BY <1>3, <1>4, <4>1, <4>2
    <3>2. \A d \in Traded(s), e \in got \cup page \cup Held(s) : d < low => d > e
      BY <1>3, <1>4, <2>1, <3>1
    <3> QED
      BY <1>2, <1>6, <3>2 DEF Reach, Traded, Held
  <2>4. CASE sync.fetched + Cardinality(page) >= MaxBars
    <3>1. got \cup page \in SUBSET (1..Days)
      BY <1>3, <1>4, <1>5
    <3>2. Cardinality(got \cup page) >= Days
      BY <1>7, <2>4, SyncAssumption DEF total
    <3>3. Cardinality(got \cup page) <= Cardinality(1..Days) /\ Cardinality(1..Days) = Days
          /\ (Cardinality(1..Days) = Cardinality(got \cup page) => 1..Days = got \cup page)
      BY <3>1, DaysFinite, FS_Subset
    <3>4. 1..Days = got \cup page
      BY <1>7, <3>2, <3>3
    <3>5. \A d \in Traded(s) : d >= low
      BY <1>3, <1>4, <1>5, <3>4
    <3>6. \A d \in Traded(s) : ~(d < low)
      BY <1>4, <1>5, <3>5
    <3> QED
      BY <1>2, <1>6, <3>6 DEF Reach, Traded, Held
  <2> QED
    BY <1>11, <2>2, <2>3, <2>4 DEF Walked
<1>12. WalkInv'
  <2>1. sync'.pc = "write" => Walked(page)
    BY <1>2
  <2> QED
    BY <1>2, <1>8, <1>9, <1>10, <1>11, <2>1 DEF WalkInv
<1> QED
  BY <1>2, <1>12, StoreRests

LEMMA Fetching == Inv /\ MaxBars >= Days /\ FetchPage => Inv'
<1> SUFFICES ASSUME Inv, MaxBars >= Days, FetchPage PROVE Inv'
  OBVIOUS
<1> DEFINE s == sync.sym
           page == Page(s, sync.before, PageCount(sync.fetched))
<1>1. sync.pc = "walk" /\ UNCHANGED <<history, day, phase, stored>>
  BY DEF FetchPage
<1>2. \/ page = {} /\ sync' = [sync EXCEPT !.pc = "write"]
      \/ /\ page # {}
         /\ sync' = [sync EXCEPT !.pc = IF Walked(page) THEN "write" ELSE "walk",
                                 !.before = Min(page),
                                 !.batch = [d \in 1..Days |->
                                     IF d \in page THEN BarNow(s, d) ELSE @[d]],
                                 !.fetched = @ + Cardinality(page)]
  BY DEF FetchPage
<1>3. CASE s \in Symbols
  <2>1. CASE page = {}
    BY <1>1, <1>2, <1>3, <2>1, EmptyPage
  <2>2. CASE page # {}
    BY <1>1, <1>2, <1>3, <2>2, FullPage
  <2> QED
    BY <2>1, <2>2
<1>4. CASE s \notin Symbols
  <2>1. SyncRecord(sync)
    BY DEF Inv, TypeInv
  <2> HIDE DEF page
  <2>2. SyncRecord(sync)' /\ sync'.sym = sync.sym
    BY <1>2, <2>1 DEF SyncRecord
  <2>3. WalkInv'
    BY <1>4, <2>2 DEF WalkInv
  <2> QED
    BY <1>1, <2>2, <2>3, StoreRests
<1> QED
  BY <1>3, <1>4

\* What a walk that is over writes leaves no hole, and only the newest bar
\* may be one read during its session.
LEMMA Writing == Inv /\ WriteBatch => Inv'
<1> SUFFICES ASSUME Inv, WriteBatch PROVE Inv'
  OBVIOUS
<1>1. /\ sync.pc = "write" /\ sync' = NextSymbol(sync.full, sync.todo)
      /\ UNCHANGED <<history, day, phase>>
      /\ stored' = [stored EXCEPT ![sync.sym] = [d \in 1..Days |->
                        IF sync.batch[d] # NoBar THEN sync.batch[d] ELSE @[d]]]
  BY DEF WriteBatch, UpsertCandles
<1>2. stored \in [Symbols -> [1..Days -> Bars]] /\ TypeInv
  BY DEF Inv, TypeInv
<1>3. CASE sync.sym \notin Symbols
  <2>1. stored' = stored
    BY <1>1, <1>2, <1>3
  <2> QED
    BY <1>1, <2>1, FreshSync
<1>4. CASE sync.sym \in Symbols
  <2>0. PICK s \in Symbols : s = sync.sym
    BY <1>4
  <2> DEFINE got == DaysOf(sync.batch)
  <2>1. Walk(s) /\ Dense(s) /\ Final(s) /\ Reach(s)
    BY <1>1, <1>4, <2>0 DEF Inv, WalkInv
  <2>2. /\ sync.batch \in [1..Days -> Bars] /\ sync.before \in 1..(Days + 1)
        /\ sync.stopAt \in 0..Newest(s) /\ Newest(s) \in 0..Days
        /\ got \subseteq {d \in Traded(s) : d <= day /\ d >= sync.before}
    BY <2>1, NewestFacts DEF Walk
  <2>3. /\ Held(s) \subseteq {d \in Traded(s) : d <= day}
        /\ Traded(s) \subseteq 1..Days /\ day \in Int
    BY <1>2, DaysOfType DEF TypeInv, Traded
  <2>4. /\ stored' \in [Symbols -> [1..Days -> Bars]]
        /\ \A t \in Symbols : t # s => stored'[t] = stored[t]
        /\ \A d \in 1..Days : stored'[s][d] = IF d \in got THEN sync.batch[d] ELSE stored[s][d]
    <3> DEFINE new == [d \in 1..Days |->
                         IF sync.batch[d] # NoBar THEN sync.batch[d] ELSE stored[s][d]]
    <3>1. \A d \in 1..Days : sync.batch[d] \in Bars /\ stored[s][d] \in Bars
                             /\ (d \in got <=> sync.batch[d] # NoBar)
      BY <1>2, <2>2 DEF DaysOf
    <3>2. new \in [1..Days -> Bars]
      BY <3>1
    <3>3. stored' = [stored EXCEPT ![s] = new]
      BY <1>1, <2>0
    <3>4. \A d \in 1..Days : new[d] = IF d \in got THEN sync.batch[d] ELSE stored[s][d]
      BY <3>1
    <3> HIDE DEF new, got
    <3> QED
      BY <1>2, <3>2, <3>3, <3>4
  <2>5. Held(s)' = Held(s) \cup got
    <3>1. \A d \in 1..Days : /\ d \in got <=> sync.batch[d] # NoBar
                             /\ d \in Held(s) <=> stored[s][d] # NoBar
                             /\ d \in Held(s)' <=> stored'[s][d] # NoBar
      BY DEF DaysOf, Held
    <3>2. got \subseteq 1..Days /\ Held(s) \subseteq 1..Days /\ Held(s)' \subseteq 1..Days
      BY DEF DaysOf, Held
    <3>3. \A d \in 1..Days : d \in Held(s)' <=> d \in Held(s) \/ d \in got
      BY <2>4, <3>1
    <3> HIDE DEF got
    <3> QED
      BY <3>2, <3>3
  <2>6. \A t \in Symbols : t # s => Held(t)' = Held(t) /\ Newest(t)' = Newest(t)
    BY <2>4 DEF Held, Newest
  <2>7. Traded(s)' = Traded(s) /\ \A t : Traded(t)' = Traded(t)
    BY <1>1 DEF Traded
  <2> HIDE DEF got
  <2>8. SyncRecord(sync)' /\ WalkInv'
    <3>1. \A t \in Symbols : Held(t) \subseteq Held(t)'
      BY <2>5, <2>6
    <3> QED
      BY <1>1, <3>1, FreshWalk
  <2>9. TypeInv'
    <3>1. \A t \in Symbols : Held(t)' \subseteq {d \in Traded(t)' : d <= day'}
      <4>1. \A t \in Symbols : Held(t) \subseteq {d \in Traded(t) : d <= day}
        BY <1>2 DEF TypeInv
      <4> QED
        BY <1>1, <2>2, <2>5, <2>6, <2>7, <4>1
    <3> QED
      BY <1>1, <1>2, <2>4, <2>8, <3>1 DEF TypeInv
  <2>10. \A d \in Traded(s), e \in got \cup Held(s) : d >= sync.before /\ d <= e => d \in got
    BY <2>1 DEF Dense, got
  <2>11. \A d \in got, e \in got \cup Held(s) : d < e => sync.batch[d] = history[s][d]
    BY <2>1 DEF Final, got
  <2>12. \/ sync.stopAt # 0 /\ sync.before <= sync.stopAt
         \/ \A d \in Traded(s), e \in got \cup Held(s) : d < sync.before => d > e
    BY <2>1 DEF Reach, got
  <2>13. NoHoles'
    <3>1. ASSUME NEW d \in Held(s) \cup got, NEW e \in Held(s) \cup got, NEW b \in d..e,
                 history[s][b] # NoBar
          PROVE  b \in Held(s) \cup got
      <4>1. d \in 1..Days /\ e \in 1..Days /\ b \in 1..Days /\ d <= b /\ b <= e
        <5>1. d \in 1..Days /\ e \in 1..Days
          BY <2>2, <2>3
        <5> QED
          BY <5>1
      <4>2. b \in Traded(s)
        BY <3>1, <4>1 DEF Traded, DaysOf
      <4>3. CASE b >= sync.before
        BY <2>10, <4>1, <4>2, <4>3
      <4>4. CASE b < sync.before
        <5>1. d \in Held(s)
          BY <2>2, <4>1, <4>4
        <5>2. sync.stopAt # 0 /\ sync.before <= sync.stopAt
          BY <2>12, <4>1, <4>2, <4>4
        <5>3. Newest(s) # 0 /\ b <= Newest(s) /\ Newest(s) \in Int
          BY <2>2, <4>1, <4>4, <5>2
        <5>4. Newest(s) \in Held(s)
          BY <5>3, NewestFacts
        <5>5. b \in d..Newest(s)
          BY <4>1, <5>3
        <5>6. stored[s][b] # NoBar
          BY <3>1, <5>1, <5>4, <5>5 DEF Inv, NoHoles, Held
        <5> QED
          BY <4>1, <5>6 DEF Held, DaysOf
      <4> QED
        BY <2>2, <4>1, <4>3, <4>4
    <3>2. ASSUME NEW t \in Symbols, NEW d \in Held(t)', NEW e \in Held(t)', NEW b \in d..e,
                 history'[t][b] # NoBar
          PROVE  stored'[t][b] # NoBar
      <4>1. CASE t = s
        <5>1. b \in Held(s)'
          BY <1>1, <2>5, <3>1, <3>2, <4>1
        <5> QED
          BY <4>1, <5>1 DEF Held, DaysOf
      <4>2. CASE t # s
        <5>1. d \in DaysOf(stored[t]) /\ e \in DaysOf(stored[t])
          BY <2>6, <3>2, <4>2 DEF Held
        <5>2. stored[t][b] # NoBar
          <6>1. history[t][b] # NoBar
            BY <1>1, <3>2
          <6> QED
            BY <3>2, <5>1, <6>1 DEF Inv, NoHoles
        <5> QED
          BY <2>4, <4>2, <5>2
      <4> QED
        BY <4>1, <4>2
    <3> QED
      BY <3>2 DEF NoHoles, Held
  <2>14. OnlyNewestIsPartial'
    <3> DEFINE n == Newest(s)'
    <3>0. /\ n \in 0..Days /\ (\A d \in Held(s)' : d <= n) /\ (n # 0 => n \in Held(s)')
      BY NewestOf DEF Newest, Held
    <3> HIDE DEF n
    <3>1. ASSUME NEW d \in Held(s) \cup got, d < n
          PROVE  stored'[s][d] = history[s][d]
      <4>1. d \in 1..Days /\ d \in Traded(s)
        BY <2>2, <2>3
      <4>2. n \in Held(s) \cup got /\ n \in Int
        BY <2>5, <3>0, <3>1, <4>1
      <4>3. CASE d \in got
        <5>1. sync.batch[d] = history[s][d]
          BY <2>11, <3>1, <4>2, <4>3
        <5> QED
          BY <2>4, <4>1, <4>3, <5>1
      <4>4. CASE d \notin got
        <5>1. d \in Held(s) /\ d <= Newest(s) /\ stored'[s][d] = stored[s][d]
          BY <2>4, <4>1, <4>4, NewestFacts
        <5>2. d < sync.before
          BY <2>2, <2>10, <3>1, <4>1, <4>2, <4>4
        <5>3. sync.stopAt # 0 /\ sync.before <= sync.stopAt
          BY <2>12, <3>1, <4>1, <4>2, <5>2
        <5>4. d < Newest(s)
          BY <2>2, <4>1, <5>2, <5>3
        <5> QED
          BY <5>1, <5>4 DEF Inv, OnlyNewestIsPartial, Held
      <4> QED
        BY <4>3, <4>4
    <3>2. ASSUME NEW t \in Symbols, NEW d \in Held(t)', d < Newest(t)'
          PROVE  stored'[t][d] = history'[t][d]
      <4>1. CASE t = s
        BY <1>1, <2>5, <3>1, <3>2, <4>1 DEF n
      <4>2. CASE t # s
        <5>1. d \in DaysOf(stored[t]) /\ d < Newest(t)
          BY <2>6, <3>2, <4>2 DEF Held
        <5>2. stored[t][d] = history[t][d]
          BY <5>1 DEF Inv, OnlyNewestIsPartial
        <5> QED
          BY <1>1, <2>4, <4>2, <5>2
      <4> QED
        BY <4>1, <4>2
    <3> QED
      BY <3>2 DEF OnlyNewestIsPartial, Held
  <2> QED
    BY <2>8, <2>9, <2>13, <2>14 DEF Inv
<1> QED
  BY <1>3, <1>4

--------------------------------------------------------------------------------
LEMMA Starts == Init => Inv
<1> SUFFICES ASSUME Init PROVE Inv
  OBVIOUS
<1>1. /\ stored = [s \in Symbols |-> NoBars] /\ history \in Histories
      /\ day = FirstDay /\ phase = "open" /\ sync = Idle
  BY DEF Init, SyncInit, StoreInit
<1>2. \A s \in Symbols : Held(s) = {}
  BY <1>1, NoBarsFacts DEF Held
<1>3. TypeInv
  BY <1>1, <1>2, SyncAssumption, NoBarsFacts DEF TypeInv, SyncRecord, Idle
<1>4. WalkInv
  BY <1>1 DEF WalkInv, Idle
<1>5. NoHoles /\ OnlyNewestIsPartial
  BY <1>2 DEF NoHoles, OnlyNewestIsPartial, Held
<1> QED
  BY <1>3, <1>4, <1>5 DEF Inv

LEMMA Keeps == Inv /\ MaxBars >= Days /\ [Next]_vars => Inv'
<1> SUFFICES ASSUME Inv, MaxBars >= Days, [Next]_vars PROVE Inv'
  OBVIOUS
<1>1. CASE NextDayOrPhase
  BY <1>1, TimePasses
<1>2. ASSUME NEW full, StartSync(full) PROVE Inv'
  BY <1>2, FreshSync DEF StartSync
<1>3. CASE FetchPage
  BY <1>3, Fetching
<1>4. CASE WriteBatch
  BY <1>4, Writing
<1>5. CASE PageFails
  BY <1>5, FreshSync DEF PageFails
<1>6. CASE SyncDies
  BY <1>6, Dying
<1>7. CASE UNCHANGED syncVars
  <2>1. UNCHANGED <<history, day, phase, stored, sync>>
    BY <1>7 DEF syncVars
  <2>2. SyncRecord(sync)'
    BY <2>1 DEF Inv, TypeInv, SyncRecord
  <2>3. WalkInv'
    BY <2>1 DEF Inv, WalkInv, Walk, Dense, Final, Reach, Newest, Traded, Held
  <2> QED
    BY <2>1, <2>2, <2>3, StoreRests
<1>8. SyncNext \/ UNCHANGED syncVars
  BY DEF Next, vars
<1> QED
  BY <1>1, <1>2, <1>3, <1>4, <1>5, <1>6, <1>7, <1>8 DEF SyncNext, SyncStep

LEMMA Invariance == ASSUME MaxBars >= Days PROVE Spec => []Inv
<1>1. Inv /\ [Next]_vars => Inv'
  BY Keeps
<1> QED
  BY Starts, <1>1, PTL DEF Spec

\* A walk as long as the history (max_bars is not the limit) leaves no day out
\* between two it stores, whatever fails or dies in between (sync_symbol).
THEOREM HolesNever == ASSUME MaxBars >= Days PROVE Spec => []NoHoles
<1>1. Inv => NoHoles
  BY DEF Inv
<1> QED
  BY Invariance, <1>1, PTL

\* And a bar that was read before its close is replaced before a newer one is
\* stored: the incremental sync reads the newest stored day again.
THEOREM OldBarsFinal == ASSUME MaxBars >= Days PROVE Spec => []OnlyNewestIsPartial
<1>1. Inv => OnlyNewestIsPartial
  BY DEF Inv
<1> QED
  BY Invariance, <1>1, PTL

HIDE StoreAssumption

--------------------------------------------------------------------------------
\* What the assumptions say of each constant.
LEMMA StrategyConstants ==
    /\ Whole \in Nat \ {0} /\ PriceScale \in Nat \ {0} /\ TopN \in Nat \ {0}
    /\ SmaDays \in Nat \ {0} /\ SafeLookback \in Nat /\ Lookback \in Nat /\ Floor \in Int
    /\ IsFiniteSet(Terms) /\ (\A t \in Terms : t[1] \in Nat /\ t[2] \in Nat)
BY StrategyAssumption

LEMMA SleeveSymbols == Risk \subseteq Symbols /\ \A i \in DOMAIN Safe : Safe[i] \in Symbols
BY BacktestAssumption DEF ToSet

--------------------------------------------------------------------------------
\* Weights of a sleeve, and the history they are decided on.
IsWeights(w) ==
    /\ DOMAIN w \subseteq Symbols
    /\ w = [s \in DOMAIN w |-> w[s]]
    /\ \A s \in DOMAIN w : w[s] \in Nat
    /\ SumFunction(w) <= Whole

IsSeries(c) == \E n \in Nat : c \in [1..n -> Nat]
IsHistory(h) == DOMAIN h \subseteq Symbols /\ \A s \in DOMAIN h : IsSeries(h[s])

LEMMA FiniteSymbols ==
    ASSUME NEW D, D \subseteq Symbols
    PROVE  IsFiniteSet(D) /\ Cardinality(D) \in Nat /\ \A s \in D : s \in Nat
BY StoreAssumption, FS_Subset, FS_CardinalityType

\* Equal weights that together are at most the whole.
LEMMA EqualWeights ==
    ASSUME NEW D, D \subseteq Symbols, NEW each, D # {} => each \in Nat,
           NEW most \in Nat, Cardinality(D) * each <= most \/ D = {}
    PROVE  /\ DOMAIN Equal(D, each) = D
           /\ SumFunction(Equal(D, each)) \in Nat
           /\ SumFunction(Equal(D, each)) <= most
           /\ most <= Whole => IsWeights(Equal(D, each))
<1> DEFINE w == Equal(D, each)
<1>1. DOMAIN w = D /\ (\A s \in D : w[s] = each) /\ w = [s \in DOMAIN w |-> w[s]]
  BY DEF Equal
<1>2. IsFiniteSet(D) /\ Cardinality(D) \in Nat
  BY FiniteSymbols
<1>3. SumFunction(w) = SumFunctionOnSet(w, D)
  BY <1>1 DEF SumFunction
<1>4. SumFunction(w) \in Nat /\ SumFunction(w) <= most
  <2>1. CASE D = {}
    <3>1. SumFunctionOnSet(w, D) = 0
      BY <1>2, <2>1, SumFirst
    <3> QED
      BY <1>3, <3>1
  <2>2. CASE D # {}
    <3>1. SumFunctionOnSet(w, D) = Cardinality(D) * each
      BY <1>1, <1>2, <2>2, SumConstant
    <3>2. Cardinality(D) * each \in Nat
      BY <1>2, <2>2, MulNat
    <3> QED
      BY <1>3, <2>2, <3>1, <3>2
  <2> QED
    BY <2>1, <2>2
<1>5. \A s \in D : w[s] \in Nat
  BY <1>1
<1> HIDE DEF w
<1>6. most <= Whole => SumFunction(w) <= Whole
  BY <1>4, StrategyConstants
<1>7. most <= Whole => IsWeights(w)
  BY <1>1, <1>5, <1>6 DEF IsWeights
<1> QED
  BY <1>1, <1>4, <1>7 DEF w

LEMMA NoWeightsFacts == IsWeights(NoWeights) /\ DOMAIN NoWeights = {} /\ SumFunction(NoWeights) = 0
<1>1. DOMAIN NoWeights = {} /\ NoWeights = [s \in DOMAIN NoWeights |-> NoWeights[s]]
  BY DEF NoWeights
<1>2. SumFunction(NoWeights) = SumFunctionOnSet(NoWeights, {})
  BY <1>1 DEF SumFunction
<1>3. SumFunction(NoWeights) = 0
  BY <1>2, FS_EmptySet, SumFirst
<1>4. SumFunction(NoWeights) <= Whole
  BY <1>3, StrategyConstants
<1>5. DOMAIN NoWeights \subseteq Symbols /\ \A s \in DOMAIN NoWeights : NoWeights[s] \in Nat
  BY <1>1
<1> QED
  BY <1>1, <1>3, <1>4, <1>5 DEF IsWeights

\* A close some bars back is a price.
LEMMA BackFacts ==
    ASSUME NEW c, IsSeries(c), NEW n \in Nat, HasReturn(c, n)
    PROVE  TotalReturn(c, n) \in Int
<1> DEFINE K == Known(c)
<1>1. PICK m \in Nat : c \in [1..m -> Nat]
  BY DEF IsSeries
<1>2. (\A k \in K : k \in Nat /\ c[k] \in Nat \ {0}) /\ K \subseteq 1..m
  BY <1>1 DEF Known
<1>3. IsFiniteSet(K) /\ Cardinality(K) \in Nat
  <2>1. 1 \in Int /\ m \in Int
    OBVIOUS
  <2>2. IsFiniteSet(1..m)
    BY <2>1, FS_Interval
  <2> QED
    BY <1>2, <2>2, FS_Subset, FS_CardinalityType
<1>4. n < Cardinality(K) /\ 0 < Cardinality(K)
  BY <1>3 DEF HasReturn
<1> HIDE DEF K
<1>5. ASSUME NEW i \in Nat, i < Cardinality(K)
      PROVE  Back(c, i) \in Nat \ {0}
  <2>1. \E k \in K : Cardinality({j \in K : j > k}) = i
    BY <1>2, <1>3, <1>5, HasRank
  <2>2. (CHOOSE k \in K : Cardinality({j \in K : j > k}) = i) \in K
    BY <2>1
  <2> QED
    BY <1>2, <2>2 DEF Back, K
<1>6. Back(c, 0) \in Nat /\ Back(c, n) \in Nat \ {0}
  BY <1>4, <1>5
<1>7. PriceScale * Back(c, 0) \in Nat
  BY <1>6, StrategyConstants, MulNat
<1>8. (PriceScale * Back(c, 0)) \div Back(c, n) \in Nat
  BY <1>6, <1>7, Quotient
<1> QED
  BY <1>8, StrategyConstants DEF TotalReturn

\* No more than n are among the best n.
LEMMA TopSize ==
    ASSUME NEW D, D \subseteq Symbols, NEW score, DOMAIN score = D,
           \A s \in D : score[s] \in Int, NEW n \in Nat
    PROVE  /\ Top(score, n) \subseteq D
           /\ Cardinality(Top(score, n)) \in Nat /\ Cardinality(Top(score, n)) <= n
<1> DEFINE T == Top(score, n)
           R == {x \in T \X T : Beats(score, x[2], x[1])}
<1>1. T \subseteq D
  BY DEF Top
<1>2. IsFiniteSet(T) /\ Cardinality(T) \in Nat
  BY <1>1, FiniteSymbols
<1>3. CASE T = {}
  <2>1. Cardinality(T) = 0
    BY <1>3, FS_EmptySet
  <2> QED
    BY <1>1, <1>2, <2>1
<1>4. CASE T # {}
  <2>0. \A x \in T : x \in Nat /\ score[x] \in Int
    BY <1>1, FiniteSymbols
  <2>1. \A x, y \in T : <<x, y>> \in R <=> Beats(score, y, x)
    OBVIOUS
  <2> HIDE DEF R, T
  <2>2. \A x, y, z \in T : <<x, y>> \in R /\ <<y, z>> \in R => <<x, z>> \in R
    BY <2>0, <2>1 DEF Beats
  <2>3. \A x, y \in T : x # y => <<x, y>> \in R \/ <<y, x>> \in R
    BY <2>0, <2>1 DEF Beats
  <2>4. \E w \in T : \A y \in T \ {w} : <<y, w>> \in {x \in T \X T : <<x[2], x[1]>> \in R}
    <3> DEFINE B == {x \in T \X T : <<x[2], x[1]>> \in R}
    <3>1. \A x, y \in T : <<x, y>> \in B <=> <<y, x>> \in R
      OBVIOUS
    <3> HIDE DEF B
    <3>2. \A x, y, z \in T : <<x, y>> \in B /\ <<y, z>> \in B => <<x, z>> \in B
      BY <2>2, <3>1
    <3>3. \A x, y \in T : x # y => <<x, y>> \in B \/ <<y, x>> \in B
      BY <2>3, <3>1
    <3>4. \E w \in T : \A y \in T \ {w} : <<y, w>> \in B
      BY <1>2, <1>4, <3>2, <3>3, HasLast
    <3> QED
      BY <3>4 DEF B
  <2>5. PICK w \in T : \A y \in T \ {w} : Beats(score, y, w)
    BY <2>1, <2>4
  <2>6. Cardinality({r \in D : Beats(score, r, w)}) < n
    BY DEF Top, T
  <2>7. T \ {w} \subseteq {r \in D : Beats(score, r, w)}
    BY <1>1, <2>5
  <2>8. /\ Cardinality(T \ {w}) <= Cardinality({r \in D : Beats(score, r, w)})
        /\ Cardinality({r \in D : Beats(score, r, w)}) \in Nat
    <3>1. IsFiniteSet({r \in D : Beats(score, r, w)})
      BY FiniteSymbols
    <3> QED
      BY <2>7, <3>1, FS_Subset, FS_CardinalityType
  <2>9. Cardinality(T \ {w}) = Cardinality(T) - 1
    BY <1>2, FS_RemoveElement
  <2>10. Cardinality(T) <= n
    BY <1>2, <2>6, <2>8, <2>9
  <2> QED
    BY <1>1, <1>2, <2>10 DEF T
<1> QED
  BY <1>3, <1>4

--------------------------------------------------------------------------------
\* The safe asset gets the weight it is offered, or nothing.
LEMMA SafeFacts ==
    ASSUME NEW h, IsHistory(h), NEW weight \in Nat, weight <= Whole
    PROVE  IsWeights(SafeWeights(h, weight)) /\ SumFunction(SafeWeights(h, weight)) <= weight
<1> DEFINE held == {i \in DOMAIN Safe : Safe[i] \in DOMAIN h}
           scored == {s \in ToSet(Safe) \cap DOMAIN h : HasReturn(h[s], SafeLookback)}
           score == [s \in scored |-> TotalReturn(h[s], SafeLookback)]
<1>1. CASE weight <= 0 \/ held = {}
  <2>1. SafeWeights(h, weight) = NoWeights
    BY <1>1 DEF SafeWeights
  <2> QED
    BY <2>1, NoWeightsFacts
<1>2. CASE ~(weight <= 0 \/ held = {}) /\ scored = {}
  <2>1. SafeWeights(h, weight) = Equal({Safe[Min(held)]}, weight)
    BY <1>2 DEF SafeWeights
  <2>2. held \subseteq Nat /\ held # {}
    BY <1>2, StrategyAssumption
  <2>3. Min(held) \in held
    <3> HIDE DEF held
    <3> QED
      BY <2>2, MinIsLeast DEF Least
  <2> DEFINE x == Safe[Min(held)]
  <2>4. x \in Symbols
    BY <2>3, SleeveSymbols
  <2> HIDE DEF held, x
  <2>5. {x} \subseteq Symbols /\ Cardinality({x}) = 1
    BY <2>4, FS_Singleton, Zenon
  <2>6. Cardinality({x}) * weight <= weight
    BY <2>5
  <2>7. IsWeights(Equal({x}, weight)) /\ SumFunction(Equal({x}, weight)) <= weight
    BY <2>5, <2>6, EqualWeights
  <2> QED
    BY <2>1, <2>7 DEF x
<1>3. CASE ~(weight <= 0 \/ held = {}) /\ scored # {}
  <2>1. SafeWeights(h, weight) = Equal(Top(score, 1), weight)
    BY <1>3 DEF SafeWeights
  <2>2. scored \subseteq Symbols
    BY DEF IsHistory
  <2>3. DOMAIN score = scored /\ \A s \in scored : score[s] \in Int
    BY StrategyConstants, BackFacts DEF IsHistory
  <2> HIDE DEF scored, score
  <2> DEFINE T == Top(score, 1)
  <2>4. T \subseteq Symbols /\ Cardinality(T) \in Nat /\ Cardinality(T) <= 1
    BY <2>2, <2>3, TopSize
  <2> HIDE DEF T
  <2>5. Cardinality(T) * weight <= weight
    <3>1. weight * Cardinality(T) <= weight * 1
      BY <2>4, MulGrows
    <3>2. weight * Cardinality(T) = Cardinality(T) * weight
      BY <2>4
    <3> QED
      BY <3>1, <3>2
  <2>6. IsWeights(Equal(T, weight)) /\ SumFunction(Equal(T, weight)) <= weight
    BY <2>4, <2>5, EqualWeights
  <2> QED
    BY <2>1, <2>6 DEF T
<1> QED
  BY <1>1, <1>2, <1>3

LEMMA UpdatedFacts ==
    ASSUME NEW w, IsWeights(w), NEW v, IsWeights(v), SumFunction(w) + SumFunction(v) <= Whole
    PROVE  IsWeights(Updated(w, v))
<1> DEFINE u == Updated(w, v)
           A == DOMAIN v
           B == DOMAIN w
<1>1. /\ DOMAIN u = A \cup B /\ u = [s \in DOMAIN u |-> u[s]]
      /\ \A s \in A \cup B : u[s] = IF s \in A THEN v[s] ELSE w[s]
  BY DEF Updated
<1>2. /\ IsFiniteSet(A) /\ IsFiniteSet(B) /\ A \cup B \subseteq Symbols
      /\ \A s \in A : v[s] \in Nat
      /\ \A s \in B : w[s] \in Nat
  BY FiniteSymbols DEF IsWeights
<1>3. SumFunction(u) = SumFunctionOnSet(u, A \cup B)
  BY <1>1 DEF SumFunction
<1>4. SumFunction(v) = SumFunctionOnSet(v, A) /\ SumFunction(w) = SumFunctionOnSet(w, B)
  BY DEF SumFunction
<1> HIDE DEF u, A, B
<1>5. SumFunctionOnSet(u, A \cup B) <= SumFunctionOnSet(v, A) + SumFunctionOnSet(w, B)
  BY <1>1, <1>2, SumUnion
<1>6. \A s \in A \cup B : u[s] \in Nat
  BY <1>1, <1>2
<1>7. /\ SumFunctionOnSet(v, A) \in Int /\ SumFunctionOnSet(w, B) \in Int
      /\ SumFunctionOnSet(u, A \cup B) \in Int
  <2>1. IsFiniteSet(A \cup B)
    BY <1>2, FiniteSymbols
  <2> QED
    BY <1>2, <1>6, <2>1, SumFirst
<1>8. SumFunction(u) <= Whole
  BY <1>3, <1>4, <1>5, <1>7, StrategyConstants
<1>9. IsWeights(u)
  BY <1>1, <1>2, <1>6, <1>8 DEF IsWeights
<1> QED
  BY <1>9 DEF u

\* A sleeve's risk assets and its safe one together.
LEMMA WithSafeFacts ==
    ASSUME NEW h, IsHistory(h), NEW w, IsWeights(w), SumFunction(w) \in Nat
    PROVE  IsWeights(WithSafe(w, h))
<1> DEFINE rest == Whole - SumFunction(w)
<1>1. rest \in Nat /\ rest <= Whole
  BY StrategyConstants DEF IsWeights
<1>2. IsWeights(SafeWeights(h, rest)) /\ SumFunction(SafeWeights(h, rest)) <= rest
  <2> HIDE DEF rest
  <2> QED
    BY <1>1, SafeFacts
<1>3. SumFunction(SafeWeights(h, rest)) \in Int
  <2> DEFINE v == SafeWeights(h, rest)
  <2>1. IsWeights(v)
    BY <1>2
  <2> HIDE DEF v
  <2>2. SumFunctionOnSet(v, DOMAIN v) \in Int
    BY <2>1, FiniteSymbols, SumFirst DEF IsWeights
  <2> QED
    BY <2>2 DEF v, SumFunction
<1>4. SumFunction(w) + SumFunction(SafeWeights(h, rest)) <= Whole
  BY <1>1, <1>2, <1>3, StrategyConstants
<1> QED
  BY <1>2, <1>4, UpdatedFacts DEF WithSafe

\* n equal parts of the whole, for no more than n.
LEMMA Slots ==
    ASSUME NEW D, D \subseteq Symbols, NEW n \in Nat, D # {} => n # 0, Cardinality(D) <= n
    PROVE  /\ IsWeights(Equal(D, Whole \div n))
           /\ SumFunction(Equal(D, Whole \div n)) \in Nat
<1>1. Cardinality(D) \in Nat
  BY FiniteSymbols
<1>2. D # {} => Whole \div n \in Nat /\ n * (Whole \div n) <= Whole
  BY StrategyConstants, Quotient
<1>3. Cardinality(D) * (Whole \div n) <= Whole \/ D = {}
  <2> DEFINE each == Whole \div n
  <2> HIDE DEF each
  <2>1. D # {} => each \in Nat /\ n * each <= Whole
    BY <1>2 DEF each
  <2>2. SUFFICES ASSUME D # {} PROVE Cardinality(D) * each <= Whole
    BY DEF each
  <2>3. each * Cardinality(D) <= each * n
    BY <1>1, <2>1, <2>2, MulGrows
  <2>4. each * Cardinality(D) = Cardinality(D) * each /\ each * n = n * each
    BY <1>1, <2>1, <2>2
  <2>5. n * each \in Nat /\ Cardinality(D) * each \in Nat
    BY <1>1, <2>1, <2>2, MulNat
  <2> QED
    BY <2>1, <2>2, <2>3, <2>4, <2>5, StrategyConstants
<1> QED
  BY <1>2, <1>3, StrategyConstants, EqualWeights

LEMMA BuyAndHoldFacts == ASSUME NEW h, IsHistory(h) PROVE IsWeights(BuyAndHold(h))
<1> DEFINE available == {s \in Risk \cap DOMAIN h : Known(h[s]) # {}}
<1>1. available \subseteq Symbols
  BY DEF IsHistory
<1>2. IsFiniteSet(available) /\ Cardinality(available) \in Nat
  BY <1>1, FiniteSymbols
<1>3. BuyAndHold(h) = IF available = {} THEN NoWeights
                      ELSE Equal(available, Whole \div Cardinality(available))
  BY DEF BuyAndHold
<1> HIDE DEF available
<1>4. available # {} => Cardinality(available) # 0
  BY <1>2, FS_EmptySet
<1>5. IsWeights(Equal(available, Whole \div Cardinality(available)))
  BY <1>1, <1>2, <1>4, Slots
<1> QED
  BY <1>3, <1>5, NoWeightsFacts

LEMMA DualMomentumFacts == ASSUME NEW h, IsHistory(h) PROVE IsWeights(DualMomentum(h))
<1> DEFINE scored == {s \in Risk \cap DOMAIN h : HasReturn(h[s], Lookback)}
           score == [s \in scored |-> TotalReturn(h[s], Lookback)]
           picked == {s \in Top(score, TopN) : score[s] > Floor}
<1>1. scored \subseteq Symbols
  BY DEF IsHistory
<1>2. DOMAIN score = scored /\ \A s \in scored : score[s] \in Int
  BY StrategyConstants, BackFacts DEF IsHistory
<1>3. DualMomentum(h) = IF scored = {} THEN NoWeights
                        ELSE WithSafe(Equal(picked, Whole \div TopN), h)
  BY DEF DualMomentum
<1>4. picked \subseteq Top(score, TopN)
  OBVIOUS
<1> HIDE DEF scored, score, picked
<1>5. /\ Top(score, TopN) \subseteq scored
      /\ Cardinality(Top(score, TopN)) \in Nat /\ Cardinality(Top(score, TopN)) <= TopN
  BY <1>1, <1>2, StrategyConstants, TopSize
<1>6. picked \subseteq Symbols /\ IsFiniteSet(Top(score, TopN))
  BY <1>1, <1>4, <1>5, FiniteSymbols
<1>7. Cardinality(picked) <= TopN
  <2>1. Cardinality(picked) <= Cardinality(Top(score, TopN)) /\ Cardinality(picked) \in Nat
    BY <1>4, <1>6, FS_Subset, FS_CardinalityType
  <2> QED
    BY <1>5, <2>1, StrategyConstants
<1>8. /\ IsWeights(Equal(picked, Whole \div TopN))
      /\ SumFunction(Equal(picked, Whole \div TopN)) \in Nat
  BY <1>6, <1>7, StrategyConstants, Slots
<1>9. IsWeights(WithSafe(Equal(picked, Whole \div TopN), h))
  BY <1>8, WithSafeFacts
<1> QED
  BY <1>3, <1>9, NoWeightsFacts

LEMMA MomentumFacts ==
    ASSUME NEW c, IsSeries(c), HasMomentum(c)
    PROVE  Momentum(c) \in Int
<1> DEFINE f == [t \in Terms |-> t[2] * TotalReturn(c, t[1])]
<1>1. ASSUME NEW t \in Terms PROVE f[t] \in Int
  <2>1. t[1] \in Nat /\ t[2] \in Nat /\ HasReturn(c, t[1])
    BY StrategyConstants DEF HasMomentum
  <2>2. TotalReturn(c, t[1]) \in Int
    BY <2>1, BackFacts
  <2> QED
    BY <2>1, <2>2
<1>2. DOMAIN f = Terms /\ Momentum(c) = SumFunction(f)
  BY DEF Momentum
<1> HIDE DEF f
<1>3. SumFunctionOnSet(f, Terms) \in Int
  BY <1>1, StrategyConstants, SumFirst
<1> QED
  BY <1>2, <1>3 DEF SumFunction

LEMMA VAAFacts == ASSUME NEW h, IsHistory(h) PROVE IsWeights(VAA(h))
<1> DEFINE scored == {s \in Risk \cap DOMAIN h : HasMomentum(h[s])}
           score == [s \in scored |-> Momentum(h[s])]
           picked == Top(score, TopN)
<1>1. scored \subseteq Symbols
  BY DEF IsHistory
<1>2. DOMAIN score = scored /\ \A s \in scored : score[s] \in Int
  BY MomentumFacts DEF IsHistory
<1>3. \/ VAA(h) = NoWeights
      \/ VAA(h) = SafeWeights(h, Whole)
      \/ VAA(h) = Equal(picked, Whole \div Cardinality(picked))
  BY DEF VAA
<1> HIDE DEF scored, score
<1>4. picked \subseteq Symbols /\ Cardinality(picked) \in Nat /\ IsFiniteSet(picked)
  BY <1>1, <1>2, StrategyConstants, TopSize, FiniteSymbols
<1> HIDE DEF picked
<1>5. picked # {} => Cardinality(picked) # 0
  BY <1>4, FS_EmptySet
<1>6. IsWeights(Equal(picked, Whole \div Cardinality(picked)))
  BY <1>4, <1>5, Slots
<1>7. IsWeights(SafeWeights(h, Whole))
  BY StrategyConstants, SafeFacts
<1> QED
  BY <1>3, <1>6, <1>7, NoWeightsFacts

LEMMA FaberFacts == ASSUME NEW h, IsHistory(h) PROVE IsWeights(Faber(h))
<1> DEFINE candidates == Risk \cap DOMAIN h
           average(s) == SumFunction([n \in 0..(SmaDays - 1) |-> Back(h[s], n)])
           inTrend == {s \in candidates : /\ HasReturn(h[s], SmaDays - 1)
                                          /\ SmaDays * Back(h[s], 0) > average(s)}
<1>1. candidates \subseteq Symbols
  BY DEF IsHistory
<1>2. Faber(h) = IF candidates = {} THEN NoWeights
                 ELSE WithSafe(Equal(inTrend, Whole \div Cardinality(candidates)), h)
  BY DEF Faber
<1>3. inTrend \subseteq candidates
  OBVIOUS
<1> HIDE DEF candidates, inTrend
<1>4. IsFiniteSet(candidates) /\ Cardinality(candidates) \in Nat
  BY <1>1, FiniteSymbols
<1>5. Cardinality(inTrend) <= Cardinality(candidates)
  BY <1>3, <1>4, FS_Subset
<1>6. inTrend # {} => Cardinality(candidates) # 0
  BY <1>3, <1>4, FS_EmptySet
<1>7. /\ IsWeights(Equal(inTrend, Whole \div Cardinality(candidates)))
      /\ SumFunction(Equal(inTrend, Whole \div Cardinality(candidates))) \in Nat
  BY <1>1, <1>3, <1>4, <1>5, <1>6, Slots
<1>8. IsWeights(WithSafe(Equal(inTrend, Whole \div Cardinality(candidates)), h))
  BY <1>7, WithSafeFacts
<1> QED
  BY <1>2, <1>8, NoWeightsFacts

\* Whatever the history, a strategy targets nothing short and no more than it has.
LEMMA StrategyFacts ==
    ASSUME NEW strategy \in Strategies, NEW h, IsHistory(h)
    PROVE  IsWeights(TargetWeights(strategy, h))
<1>1. strategy \in {"buy-and-hold", "dual-momentum", "vaa", "faber"}
  BY DEF Strategies
<1> QED
  BY <1>1, BuyAndHoldFacts, DualMomentumFacts, VAAFacts, FaberFacts DEF TargetWeights

--------------------------------------------------------------------------------
\* What a fill costs.
LEMMA CostConstants ==
    ASSUME NEW country \in Countries
    PROVE  /\ Den \in Nat \ {0} /\ Share \in Nat \ {0} /\ Dust \in Nat /\ Band \in Nat
           /\ Commission[country] \in Nat /\ Slippage[country] \in 0..(Den - 1)
           /\ FxRate(country) \in Nat
           /\ StockTax \in Nat /\ EtfTax \in Nat /\ SecFee \in Nat /\ TafPerShare \in Nat
           /\ TafCap \in Nat
           /\ Commission[country] + StockTax + EtfTax + SecFee + TafPerShare + FxRate(country)
              <= Den
<1>1. /\ Den \in Nat \ {0}
      /\ Commission[country] \in Nat /\ Slippage[country] \in 0..(Den - 1)
      /\ StockTax \in Nat /\ EtfTax \in Nat /\ SecFee \in Nat /\ TafPerShare \in Nat
      /\ TafCap \in Nat /\ FxSpread \in Nat
      /\ Commission[country] + StockTax + EtfTax + SecFee + TafPerShare + FxSpread <= Den
  BY CostsAssumption
<1>2. Share \in Nat \ {0} /\ Dust \in Nat /\ Band \in Nat
  BY BacktestAssumption
<1>3. FxRate(country) \in {0, FxSpread}
  BY DEF FxRate
<1> QED
  BY <1>1, <1>2, <1>3

LEMMA PurchaseCost ==
    ASSUME NEW country \in Countries, NEW fill \in Nat, NEW qty \in Nat, NEW etf
    PROVE  /\ Spend(country, fill, qty, etf)
              = (fill * qty) * (Den + Commission[country] + FxRate(country))
           /\ Spend(country, fill, qty, etf) \in Nat
           /\ (fill * qty) * Den <= Spend(country, fill, qty, etf)
<1> DEFINE N == fill * qty
           C == Commission[country]
           F == FxRate(country)
<1>1. N \in Nat /\ C \in Nat /\ F \in Nat /\ Den \in Nat
  BY MulNat, CostConstants
<1>2. Total(CostOf("BUY", country, fill, qty, etf)) = N * C + N * F
  <2>1. CASE N = 0
    <3>1. CostOf("BUY", country, fill, qty, etf) = NoCost
      BY <2>1 DEF CostOf
    <3>2. Total(NoCost) = 0
      BY DEF Total, NoCost
    <3> HIDE DEF N, C, F
    <3>3. 0 * C + 0 * F = 0
      BY <1>1
    <3> QED
      BY <2>1, <3>1, <3>2, <3>3
  <2>2. CASE N # 0
    <3>1. CostOf("BUY", country, fill, qty, etf)
          = [commission |-> N * C, tax |-> 0, regulatory |-> 0, fx |-> N * F]
      BY <2>2 DEF CostOf
    <3> HIDE DEF N, C, F
    <3>2. N * C \in Nat /\ N * F \in Nat
      BY <1>1, MulNat
    <3> QED
      BY <3>1, <3>2 DEF Total
  <2> QED
    BY <2>1, <2>2
<1>3. Spend(country, fill, qty, etf) = N * Den + (N * C + N * F)
  BY <1>2 DEF Spend
<1> HIDE DEF N, C, F
<1>4. N * Den \in Nat /\ N * C \in Nat /\ N * F \in Nat
  BY <1>1, MulNat
<1>5. N * (Den + C + F) = N * Den + (N * C + N * F)
  BY <1>1
<1>6. /\ Spend(country, fill, qty, etf) = N * (Den + C + F)
      /\ Spend(country, fill, qty, etf) \in Nat
      /\ N * Den <= Spend(country, fill, qty, etf)
  BY <1>3, <1>4, <1>5
<1> QED
  BY <1>6 DEF N, C, F

\* A sale pays something, and no more than its price.
LEMMA SaleProceeds ==
    ASSUME NEW country \in Countries, NEW fill \in Nat \ {0}, NEW qty \in Nat,
           NEW etf \in BOOLEAN
    PROVE  /\ Proceeds(country, fill, qty, etf) \in Nat
           /\ Proceeds(country, fill, qty, etf) <= (fill * qty) * Den
<1> DEFINE N == fill * qty
           C == Commission[country]
           F == FxRate(country)
           T == SellTaxRate(country, etf)
           R == IF country = "US" THEN N * SecFee + Taf(qty) ELSE 0
           costs == Total(CostOf("SELL", country, fill, qty, etf))
<1>1. /\ N \in Nat /\ C \in Nat /\ F \in Nat /\ Den \in Nat /\ T \in Nat
      /\ SecFee \in Nat /\ TafPerShare \in Nat /\ TafCap \in Nat
      /\ C + F + T + SecFee + TafPerShare <= Den
  <2>1. T \in {0, EtfTax, StockTax}
    BY DEF SellTaxRate
  <2>2. N \in Nat
    BY MulNat
  <2> HIDE DEF T, N
  <2> QED
    BY <2>1, <2>2, CostConstants
<1>2. CASE N = 0
  <2>1. costs = 0
    BY <1>2 DEF CostOf, Total, NoCost
  <2>2. Proceeds(country, fill, qty, etf) = N * Den - costs
    BY DEF Proceeds
  <2> HIDE DEF N, costs
  <2>3. N * Den \in Nat
    BY <1>1, MulNat
  <2> QED
    BY <2>1, <2>2, <2>3 DEF N
<1>3. CASE N # 0
  <2>1. R \in Nat /\ R <= N * SecFee + N * TafPerShare
    <3>1. Taf(qty) \in Nat /\ Taf(qty) <= qty * TafPerShare
      <4>1. qty * TafPerShare \in Nat
        BY <1>1, MulNat
      <4> QED
        BY <1>1, <4>1 DEF Taf
    <3>2. qty * TafPerShare <= N * TafPerShare
      <4>1. qty * 1 <= qty * fill
        BY MulGrows
      <4>2. qty <= N
        BY <4>1
      <4> HIDE DEF N
      <4>3. TafPerShare * qty <= TafPerShare * N
        BY <1>1, <4>2, MulGrows
      <4> QED
        BY <1>1, <4>3
    <3> HIDE DEF N
    <3>3. N * SecFee \in Nat /\ N * TafPerShare \in Nat /\ qty * TafPerShare \in Nat
      BY <1>1, MulNat
    <3> QED
      BY <3>1, <3>2, <3>3
  <2>2. CostOf("SELL", country, fill, qty, etf)
        = [commission |-> N * C, tax |-> N * T, regulatory |-> R, fx |-> N * F]
    BY <1>3 DEF CostOf
  <2>3. costs = N * C + N * T + R + N * F
    BY <2>2 DEF Total
  <2>4. Proceeds(country, fill, qty, etf) = N * Den - costs
    BY DEF Proceeds
  <2> HIDE DEF N, C, F, T, R, costs
  <2>5. /\ N * C \in Nat /\ N * T \in Nat /\ N * F \in Nat /\ N * Den \in Nat
        /\ N * SecFee \in Nat /\ N * TafPerShare \in Nat
    BY <1>1, MulNat
  <2>6. N * (C + F + T + SecFee + TafPerShare) <= N * Den
    BY <1>1, MulGrows
  <2>7. N * (C + F + T + SecFee + TafPerShare)
        = N * C + N * F + N * T + N * SecFee + N * TafPerShare
    BY <1>1
  <2>8. costs \in Nat /\ costs <= N * Den
    BY <2>1, <2>3, <2>5, <2>6, <2>7
  <2>9. N * Den - costs \in Nat /\ N * Den - costs <= N * Den
    BY <2>5, <2>8
  <2> QED
    BY <2>4, <2>9 DEF N
<1> QED
  BY <1>2, <1>3

\* Slippage is paid on both sides.
LEMMA FillPrices ==
    ASSUME NEW country \in Countries, NEW price \in Nat \ {0}
    PROVE  /\ FillPrice("BUY", country, price) \in Nat \ {0}
           /\ FillPrice("SELL", country, price) \in Nat \ {0}
           /\ price * Den <= FillPrice("BUY", country, price)
           /\ FillPrice("SELL", country, price) <= price * Den
<1> DEFINE S == Slippage[country]
<1>1. S \in Nat /\ S < Den /\ Den \in Nat \ {0}
  BY CostConstants
<1>2. FillPrice("BUY", country, price) = price * (Den + S)
      /\ FillPrice("SELL", country, price) = price * (Den - S)
  BY DEF FillPrice
<1> HIDE DEF S
<1>3. Den + S \in Nat \ {0} /\ Den - S \in Nat \ {0} /\ Den <= Den + S /\ Den - S <= Den
  BY <1>1
<1>4. price * (Den + S) \in Nat \ {0} /\ price * (Den - S) \in Nat \ {0}
  BY <1>3, MulPositive
<1>5. price * Den <= price * (Den + S)
  BY <1>1, <1>3, MulGrows
<1>6. price * (Den - S) <= price * Den
  BY <1>1, <1>3, MulGrows
<1> QED
  BY <1>2, <1>4, <1>5, <1>6

--------------------------------------------------------------------------------
\* What an account may hold: on the KRX, whole shares.
Positions(country) == {n \in Nat : country = "KR" => n % Share = 0}

LEMMA PositionFacts ==
    ASSUME NEW country \in Countries
    PROVE  /\ 0 \in Positions(country)
           /\ \A n \in Nat : Lots(country, n) \in Positions(country) /\ Lots(country, n) <= n
           /\ \A n, m \in Positions(country) :
                  /\ n + m \in Positions(country)
                  /\ m <= n => n - m \in Positions(country)
<1>1. Share \in Nat \ {0}
  BY CostConstants
<1>2. 0 \in Positions(country)
  BY <1>1 DEF Positions
<1>3. ASSUME NEW n \in Nat
      PROVE  Lots(country, n) \in Positions(country) /\ Lots(country, n) <= n
  <2>1. CASE country = "US"
    BY <2>1 DEF Lots, Positions
  <2>2. CASE country # "US"
    <3> DEFINE q == n \div Share
    <3>1. Lots(country, n) = q * Share
      BY <2>2 DEF Lots
    <3>2. q \in Nat /\ Share * q <= n
      BY <1>1, Quotient
    <3> HIDE DEF q
    <3>3. (q * Share) % Share = 0 /\ q * Share \in Nat /\ q * Share = Share * q
      BY <1>1, <3>2, NoRemainder, MulNat
    <3> QED
      BY <3>1, <3>2, <3>3 DEF Positions
  <2> QED
    BY <2>1, <2>2
<1>4. ASSUME NEW n \in Positions(country), NEW m \in Positions(country)
      PROVE  /\ n + m \in Positions(country)
             /\ m <= n => n - m \in Positions(country)
  <2>1. n \in Nat /\ m \in Nat /\ (country = "KR" => n % Share = 0 /\ m % Share = 0)
    BY DEF Positions
  <2>2. n + m \in Nat /\ (m <= n => n - m \in Nat)
    BY <2>1
  <2>3. country = "KR" => (n + m) % Share = 0
    BY <1>1, <2>1, SumOfMultiples
  <2>4. country = "KR" /\ m <= n => (n - m) % Share = 0
    BY <1>1, <2>1, DifferenceOfMultiples
  <2> QED
    BY <2>2, <2>3, <2>4 DEF Positions
<1> QED
  BY <1>2, <1>3, <1>4

\* A buy is scaled down to what the cash pays for, costs included.
LEMMA BoughtFacts ==
    ASSUME NEW country \in Countries, NEW fill \in Nat \ {0}, NEW qty \in Positions(country),
           NEW etf, NEW cash \in Nat
    PROVE  LET q == Bought(country, fill, qty, etf, cash)
           IN  q \in Positions(country) /\ (q # 0 => Spend(country, fill, q, etf) <= cash)
<1> DEFINE C == Commission[country]
           F == FxRate(country)
           unit == fill * (Den + C) * (Den + F)
           A == Affordable(country, fill, cash)
           less == Lots(country, A)
<1>1. C \in Nat /\ F \in Nat /\ Den \in Nat \ {0}
  BY CostConstants
<1>2. A \in Nat /\ unit * A <= cash * Den /\ unit \in Nat
  <2>1. fill * (Den + C) \in Nat \ {0}
    <3> HIDE DEF C
    <3>1. Den + C \in Nat \ {0}
      BY <1>1
    <3> QED
      BY <3>1, MulPositive
  <2>2. unit \in Nat \ {0}
    <3> DEFINE k == fill * (Den + C)
    <3>1. Den + F \in Nat \ {0} /\ k \in Nat \ {0}
      BY <1>1, <2>1
    <3> HIDE DEF F, k
    <3>2. k * (Den + F) \in Nat \ {0}
      BY <3>1, MulPositive
    <3> QED
      BY <3>2 DEF k
  <2>3. A = (cash * Den) \div unit
    BY DEF Affordable
  <2>4. cash * Den \in Nat
    BY <1>1, MulNat
  <2> HIDE DEF unit, A
  <2> QED
    BY <2>2, <2>3, <2>4, Quotient
<1>3. less \in Positions(country) /\ less <= A
  <2> HIDE DEF A
  <2> QED
    BY <1>2, PositionFacts
<1>4. Spend(country, fill, less, etf) <= cash
  <2> HIDE DEF less, A
  <2>1. less \in Nat
    BY <1>3 DEF Positions
  <2>2. unit * less <= cash * Den
    <3> HIDE DEF unit
    <3>1. unit * less <= unit * A /\ unit * A \in Nat /\ unit * less \in Nat
      BY <1>2, <1>3, <2>1, MulGrows, MulNat
    <3>2. cash * Den \in Nat
      BY <1>1, MulNat
    <3> QED
      BY <1>2, <3>1, <3>2
  <2> DEFINE N == fill * less
             k == (Den + C) * (Den + F)
             m == Den + C + F
  <2>3. N \in Nat
    BY <2>1, MulNat
  <2>4. unit * less = N * k
    <3> HIDE DEF C, F
    <3>1. \A u, v, w, x \in Int : (u * v * w) * x = (u * x) * (v * w)
      BY SMT
    <3>2. Den + C \in Int /\ Den + F \in Int /\ fill \in Int /\ less \in Int
      BY <1>1, <2>1
    <3> QED
      BY <3>1, <3>2
  <2>5. k \in Int /\ Den * m <= k /\ m \in Nat
    <3> HIDE DEF C, F
    <3>1. k = Den * m + C * F
      <4>1. \A u, v, w \in Int : (u + v) * (u + w) = u * (u + v + w) + v * w
        BY SMT
      <4> QED
        BY <1>1, <4>1
    <3>2. C * F \in Nat /\ Den * m \in Nat /\ m \in Nat
      BY <1>1, MulNat
    <3> HIDE DEF k, m
    <3> QED
      BY <3>1, <3>2
  <2>6. Spend(country, fill, less, etf) = N * m
    BY <2>1, PurchaseCost
  <2> HIDE DEF N, k, m, unit
  <2>7. N * (Den * m) <= N * k
    <3>1. Den * m \in Nat
      BY <1>1, <2>5, MulNat
    <3> QED
      BY <2>3, <2>5, <3>1, MulGrows
  <2>8. N * (Den * m) = Den * (N * m)
    BY <1>1, <2>3, <2>5
  <2>9. Den * (N * m) <= Den * cash
    <3>1. N * (Den * m) <= cash * Den
      <4>1. N * (Den * m) \in Int /\ N * k \in Int /\ cash * Den \in Int
        BY <1>1, <2>3, <2>5
      <4> QED
        BY <2>2, <2>4, <2>7, <4>1
    <3>2. cash * Den = Den * cash
      BY <1>1
    <3> QED
      BY <2>8, <3>1, <3>2
  <2>10. N * m \in Int /\ cash \in Int
    BY <2>3, <2>5
  <2>11. N * m <= cash
    BY <1>1, <2>9, <2>10, Cancel
  <2> QED
    BY <2>6, <2>11
<1>5. \/ Bought(country, fill, qty, etf, cash) = qty /\ Spend(country, fill, qty, etf) <= cash
      \/ Bought(country, fill, qty, etf, cash) \in {0, less}
  BY DEF Bought
<1> HIDE DEF less
<1> QED
  BY <1>3, <1>4, <1>5, PositionFacts

--------------------------------------------------------------------------------
\* An account of a run, a plan of a rebalance, and the fills of its day.
IsAccount(country, a) ==
    /\ a = [cash |-> a.cash, pos |-> a.pos, pending |-> a.pending, fills |-> a.fills,
            bars |-> a.bars]
    /\ a.cash \in Nat
    /\ a.pos \in [Symbols -> Positions(country)]
    /\ IsWeights(a.pending)

IsPlan(p) ==
    /\ p.country \in Countries
    /\ p.prices \in [Symbols -> Nat]
    /\ p.want \in [Symbols -> Positions(p.country)]

Fills(p) == [day : {p.day}, sym : Symbols, side : {"BUY", "SELL"}, qty : Nat]

\* What is not wanted is sold, unless it is too small to trade.
Settled(p, x, s) ==
    p.want[s] = 0 /\ p.prices[s] > 0 => x.pos[s] = 0 \/ TooSmall(p, x.pos[s], s, x.pos[s])

\* What one order may do to an account x.
OneOrder(p, x, y, s) ==
    /\ IsAccount(p.country, y)
    /\ y.pending = x.pending /\ y.bars = x.bars
    /\ \A t \in Symbols \ {s} : y.pos[t] = x.pos[t]
    /\ x.fills \subseteq y.fills /\ y.fills \ x.fills \subseteq Fills(p)
    /\ Equity(y, p.prices) <= Equity(x, p.prices)
    /\ Settled(p, y, s)

LEMMA EquityFacts ==
    ASSUME NEW country, NEW a, a.cash \in Nat, a.pos \in [Symbols -> Positions(country)],
           NEW prices \in [Symbols -> Nat]
    PROVE  /\ Equity(a, prices)
              = a.cash + Den * Den * SumFunctionOnSet([s \in Symbols |-> a.pos[s] * prices[s]],
                                                      Symbols)
           /\ Equity(a, prices) \in Nat
<1> DEFINE v == [s \in Symbols |-> a.pos[s] * prices[s]]
<1>1. ASSUME NEW s \in Symbols PROVE v[s] \in Nat
  <2>1. a.pos[s] \in Nat /\ prices[s] \in Nat
    BY DEF Positions
  <2>2. a.pos[s] * prices[s] \in Nat
    BY <2>1, MulNat
  <2> QED
    BY <2>2
<1>2. Equity(a, prices) = a.cash + Den * Den * SumFunctionOnSet(v, Symbols)
  BY DEF Equity, SumFunction
<1>3. IsFiniteSet(Symbols)
  BY StoreAssumption
<1> HIDE DEF v
<1>4. SumFunctionOnSet(v, Symbols) \in Nat
  BY <1>1, <1>3, SumNat
<1>5. Den * Den \in Nat /\ Den * Den * SumFunctionOnSet(v, Symbols) \in Nat
  <2>1. Den * Den \in Nat
    BY CostsAssumption, MulNat
  <2> QED
    BY <1>4, <2>1, MulNat
<1> QED
  BY <1>2, <1>5 DEF v

\* The equity changes by the cash and by what the position is worth.
LEMMA EquityMoves ==
    ASSUME NEW country, NEW prices \in [Symbols -> Nat], NEW s \in Symbols,
           NEW x, x.cash \in Nat, x.pos \in [Symbols -> Positions(country)],
           NEW y, y.cash \in Nat, y.pos \in [Symbols -> Positions(country)],
           \A t \in Symbols \ {s} : y.pos[t] = x.pos[t],
           y.cash + Den * Den * (y.pos[s] * prices[s])
               <= x.cash + Den * Den * (x.pos[s] * prices[s])
    PROVE  Equity(y, prices) <= Equity(x, prices)
<1> DEFINE v == [t \in Symbols |-> x.pos[t] * prices[t]]
           w == [t \in Symbols |-> y.pos[t] * prices[t]]
           D == Den * Den
<1>1. /\ Equity(x, prices) = x.cash + D * SumFunctionOnSet(v, Symbols)
      /\ Equity(y, prices) = y.cash + D * SumFunctionOnSet(w, Symbols)
  BY EquityFacts
<1>2. ASSUME NEW t \in Symbols
      PROVE  v[t] \in Int /\ w[t] \in Int /\ (t # s => v[t] = w[t])
  <2>1. x.pos[t] \in Int /\ y.pos[t] \in Int /\ prices[t] \in Int
    BY DEF Positions
  <2>2. v[t] \in Int /\ w[t] \in Int
    BY <2>1
  <2>3. t # s => v[t] = w[t]
    OBVIOUS
  <2> QED
    BY <2>2, <2>3
<1>3. v[s] = x.pos[s] * prices[s] /\ w[s] = y.pos[s] * prices[s]
  OBVIOUS
<1>4. IsFiniteSet(Symbols) /\ D \in Int
  BY StoreAssumption, CostsAssumption
<1>5. y.cash + D * w[s] <= x.cash + D * v[s]
  BY <1>3
<1> HIDE DEF v, w, D
<1>6. SumFunctionOnSet(w, Symbols) = SumFunctionOnSet(v, Symbols) + w[s] - v[s]
  BY <1>2, <1>4, SumChange
<1>7. SumFunctionOnSet(v, Symbols) \in Int
  BY <1>2, <1>4, SumFirst
<1>8. v[s] \in Int /\ w[s] \in Int
  BY <1>2
<1>9. D * SumFunctionOnSet(w, Symbols) = D * SumFunctionOnSet(v, Symbols) + D * w[s] - D * v[s]
  <2>1. \A k, l, m \in Int : D * (k + l - m) = D * k + D * l - D * m
    BY <1>4, SMT
  <2> DEFINE k == SumFunctionOnSet(v, Symbols)
             l == w[s]
             m == v[s]
  <2>2. k \in Int /\ l \in Int /\ m \in Int
    BY <1>7, <1>8
  <2>3. SumFunctionOnSet(w, Symbols) = k + l - m
    BY <1>6
  <2> HIDE DEF k, l, m
  <2>4. D * (k + l - m) = D * k + D * l - D * m
    BY <2>1, <2>2
  <2> QED
    BY <2>3, <2>4 DEF k, l, m
<1>10. D * SumFunctionOnSet(v, Symbols) \in Int /\ D * w[s] \in Int /\ D * v[s] \in Int
  BY <1>4, <1>7, <1>8
<1> QED
  BY <1>1, <1>5, <1>9, <1>10

LEMMA BuyFacts ==
    ASSUME NEW p, IsPlan(p), NEW x, IsAccount(p.country, x), NEW s \in Symbols,
           p.prices[s] # 0, p.want[s] # 0, NEW qty \in Positions(p.country)
    PROVE  OneOrder(p, x, AfterBuy(p, x, s, qty), s)
<1> DEFINE price == p.prices[s]
           fill == FillPrice("BUY", p.country, price)
           q == Bought(p.country, fill, qty, s \in Etfs, x.cash)
           cost == Spend(p.country, fill, q, s \in Etfs)
           y == AfterBuy(p, x, s, qty)
<1>1. /\ p.country \in Countries /\ price \in Nat \ {0}
      /\ x.cash \in Nat /\ x.pos \in [Symbols -> Positions(p.country)]
      /\ x.pos[s] \in Positions(p.country) /\ x.pos[s] \in Nat
  BY DEF IsPlan, IsAccount, Positions
<1>2. fill \in Nat \ {0} /\ price * Den <= fill
  <2> HIDE DEF price
  <2> QED
    BY <1>1, FillPrices
<1>3. q \in Positions(p.country) /\ q \in Nat /\ (q # 0 => cost <= x.cash)
  <2> HIDE DEF fill
  <2>1. q \in Positions(p.country) /\ (q # 0 => cost <= x.cash)
    BY <1>1, <1>2, BoughtFacts
  <2> QED
    BY <2>1 DEF Positions
<1>4. cost \in Nat /\ (fill * q) * Den <= cost
  <2> HIDE DEF fill, q
  <2> QED
    BY <1>1, <1>2, <1>3, PurchaseCost
<1>5. Settled(p, y, s)
  BY DEF Settled
<1>6. CASE q = 0
  <2>1. y = x
    BY <1>6 DEF AfterBuy
  <2>2. Equity(x, p.prices) <= Equity(x, p.prices)
    <3>1. Equity(x, p.prices) \in Nat
      BY <1>1, EquityFacts DEF IsPlan
    <3> QED
      BY <3>1
  <2> HIDE DEF y
  <2>3. OneOrder(p, x, x, s)
    BY <1>5, <2>1, <2>2 DEF OneOrder
  <2> QED
    BY <2>1, <2>3 DEF y
<1>7. CASE q # 0
  <2> DEFINE done == [day |-> p.day, sym |-> s, side |-> "BUY", qty |-> q]
  <2>1. y = [x EXCEPT !.cash = @ - cost, !.pos[s] = @ + q, !.fills = @ \cup {done}]
    BY <1>7 DEF AfterBuy
  <2>2. x = [cash |-> x.cash, pos |-> x.pos, pending |-> x.pending, fills |-> x.fills,
             bars |-> x.bars]
    BY DEF IsAccount
  <2>3. done \in Fills(p)
    <3> HIDE DEF q
    <3> QED
      BY <1>3 DEF Fills
  <2> HIDE DEF y, done, cost, q, fill, price
  <2>4. y = [cash |-> x.cash - cost, pos |-> [x.pos EXCEPT ![s] = @ + q],
             pending |-> x.pending, fills |-> x.fills \cup {done}, bars |-> x.bars]
    BY <2>1, <2>2
  <2>5. /\ y.cash = x.cash - cost /\ y.pos = [x.pos EXCEPT ![s] = @ + q]
        /\ y.pending = x.pending /\ y.fills = x.fills \cup {done} /\ y.bars = x.bars
    BY <2>4
  <2>6. y.cash \in Nat
    BY <1>1, <1>3, <1>4, <1>7, <2>5
  <2>7. x.pos[s] + q \in Positions(p.country)
    BY <1>1, <1>3, PositionFacts
  <2>8. /\ y.pos \in [Symbols -> Positions(p.country)]
        /\ y.pos[s] = x.pos[s] + q /\ \A t \in Symbols \ {s} : y.pos[t] = x.pos[t]
    BY <1>1, <2>5, <2>7
  <2>9. IsAccount(p.country, y)
    <3>1. IsWeights(y.pending)
      BY <2>5 DEF IsAccount
    <3>2. y = [cash |-> y.cash, pos |-> y.pos, pending |-> y.pending, fills |-> y.fills,
               bars |-> y.bars]
      BY <2>4, <2>5
    <3> QED
      BY <2>6, <2>8, <3>1, <3>2 DEF IsAccount
  <2>10. y.cash + Den * Den * (y.pos[s] * price) <= x.cash + Den * Den * (x.pos[s] * price)
    <3>1. Den \in Nat /\ price \in Nat /\ fill \in Nat
      BY <1>1, <1>2, CostsAssumption
    <3>2. (price * Den) * (q * Den) <= cost
      <4>1. (q * Den) * (price * Den) <= (q * Den) * fill
        <5>1. q * Den \in Nat /\ price * Den \in Nat
          BY <1>3, <3>1, MulNat
        <5> QED
          BY <1>2, <3>1, <5>1, MulGrows
      <4>2. (q * Den) * fill = (fill * q) * Den /\ (q * Den) * (price * Den) = (price * Den) * (q * Den)
        BY <1>3, <3>1
      <4>3. (fill * q) * Den \in Int /\ (price * Den) * (q * Den) \in Int
        BY <1>3, <3>1
      <4> QED
        BY <1>4, <4>1, <4>2, <4>3
    <3>3. Den * Den * ((x.pos[s] + q) * price)
          = Den * Den * (x.pos[s] * price) + (price * Den) * (q * Den)
      <4>1. \A d, m, k, n \in Int : d * d * ((m + k) * n) = d * d * (m * n) + (n * d) * (k * d)
        BY SMT
      <4> QED
        BY <1>1, <1>3, <3>1, <4>1
    <3>4. Den * Den * (x.pos[s] * price) \in Int /\ (price * Den) * (q * Den) \in Int
      BY <1>1, <1>3, <3>1
    <3> QED
      BY <1>1, <1>4, <2>5, <2>8, <3>2, <3>3, <3>4
  <2>11. Equity(y, p.prices) <= Equity(x, p.prices)
    BY <1>1, <2>6, <2>8, <2>10, EquityMoves DEF IsPlan, price
  <2>12. x.fills \subseteq y.fills /\ y.fills \ x.fills \subseteq Fills(p)
    BY <2>3, <2>5
  <2> QED
    BY <1>5, <2>5, <2>8, <2>9, <2>11, <2>12 DEF OneOrder, y
<1> QED
  BY <1>6, <1>7

LEMMA SaleFacts ==
    ASSUME NEW p, IsPlan(p), NEW x, IsAccount(p.country, x), NEW s \in Symbols,
           p.prices[s] # 0, p.want[s] < x.pos[s], NEW qty, qty = x.pos[s] - p.want[s]
    PROVE  OneOrder(p, x, AfterSale(p, x, s, qty), s)
<1> DEFINE price == p.prices[s]
           fill == FillPrice("SELL", p.country, price)
           gain == Proceeds(p.country, fill, qty, s \in Etfs)
           y == AfterSale(p, x, s, qty)
           done == [day |-> p.day, sym |-> s, side |-> "SELL", qty |-> qty]
<1>1. /\ p.country \in Countries /\ price \in Nat \ {0}
      /\ x.cash \in Nat /\ x.pos \in [Symbols -> Positions(p.country)]
      /\ x.pos[s] \in Positions(p.country) /\ x.pos[s] \in Nat
      /\ p.want[s] \in Positions(p.country) /\ p.want[s] \in Nat
  BY DEF IsPlan, IsAccount, Positions
<1>2. fill \in Nat \ {0} /\ fill <= price * Den
  <2> HIDE DEF price
  <2> QED
    BY <1>1, FillPrices
<1>3. qty \in Nat \ {0} /\ qty <= x.pos[s]
  BY <1>1
<1>4. gain \in Nat /\ gain <= (fill * qty) * Den
  <2>1. (s \in Etfs) \in BOOLEAN
    OBVIOUS
  <2> HIDE DEF fill
  <2> QED
    BY <1>1, <1>2, <1>3, <2>1, SaleProceeds
<1>5. Min({qty, x.pos[s]}) = qty
  <2>1. {qty, x.pos[s]} \subseteq Nat /\ {qty, x.pos[s]} # {}
    BY <1>1, <1>3
  <2>2. Least({qty, x.pos[s]}, Min({qty, x.pos[s]}))
    BY <2>1, MinIsLeast
  <2> QED
    BY <1>1, <1>3, <2>2 DEF Least
<1>6. y = [x EXCEPT !.cash = @ + gain, !.pos[s] = @ - qty, !.fills = @ \cup {done}]
  <2> DEFINE sold == Min({qty, x.pos[s]})
  <2>1. ~(sold <= 0)
    BY <1>3, <1>5
  <2>2. y = [x EXCEPT !.cash = @ + Proceeds(p.country, fill, sold, s \in Etfs),
                      !.pos[s] = @ - sold,
                      !.fills = @ \cup {[day |-> p.day, sym |-> s, side |-> "SELL",
                                         qty |-> sold]}]
    BY <2>1 DEF AfterSale
  <2>3. sold = qty
    BY <1>5
  <2> HIDE DEF sold
  <2> QED
    BY <2>2, <2>3
<1>7. x = [cash |-> x.cash, pos |-> x.pos, pending |-> x.pending, fills |-> x.fills,
           bars |-> x.bars]
  BY DEF IsAccount
<1>8. done \in Fills(p)
  BY <1>3 DEF Fills
<1> HIDE DEF y, done, gain, fill, price
<1>9. y = [cash |-> x.cash + gain, pos |-> [x.pos EXCEPT ![s] = @ - qty],
           pending |-> x.pending, fills |-> x.fills \cup {done}, bars |-> x.bars]
  BY <1>6, <1>7
<1>10. /\ y.cash = x.cash + gain /\ y.pos = [x.pos EXCEPT ![s] = @ - qty]
       /\ y.pending = x.pending /\ y.fills = x.fills \cup {done} /\ y.bars = x.bars
  BY <1>9
<1>11. y.cash \in Nat /\ x.pos[s] - qty = p.want[s]
  BY <1>1, <1>4, <1>10
<1>12. /\ y.pos \in [Symbols -> Positions(p.country)]
       /\ y.pos[s] = p.want[s] /\ \A t \in Symbols \ {s} : y.pos[t] = x.pos[t]
  BY <1>1, <1>10, <1>11
<1>13. IsAccount(p.country, y)
  <2>1. IsWeights(y.pending)
    BY <1>10 DEF IsAccount
  <2>2. y = [cash |-> y.cash, pos |-> y.pos, pending |-> y.pending, fills |-> y.fills,
             bars |-> y.bars]
    BY <1>9, <1>10
  <2> QED
    BY <1>11, <1>12, <2>1, <2>2 DEF IsAccount
<1>14. y.cash + Den * Den * (y.pos[s] * price) <= x.cash + Den * Den * (x.pos[s] * price)
  <2>1. Den \in Nat /\ price \in Nat /\ fill \in Nat /\ qty \in Nat
    BY <1>1, <1>2, <1>3, CostsAssumption
  <2>2. gain <= (price * Den) * (qty * Den)
    <3>1. (qty * Den) * fill <= (qty * Den) * (price * Den)
      <4>1. qty * Den \in Nat /\ price * Den \in Nat
        BY <2>1, MulNat
      <4> QED
        BY <1>2, <2>1, <4>1, MulGrows
    <3>2. /\ (qty * Den) * fill = (fill * qty) * Den
          /\ (qty * Den) * (price * Den) = (price * Den) * (qty * Den)
      BY <2>1
    <3>3. (fill * qty) * Den \in Int /\ (price * Den) * (qty * Den) \in Int
      BY <2>1
    <3> QED
      BY <1>4, <3>1, <3>2, <3>3
  <2>3. Den * Den * (x.pos[s] * price)
        = Den * Den * (y.pos[s] * price) + (price * Den) * (qty * Den)
    <3>1. \A d, m, k, n \in Int : d * d * ((m + k) * n) = d * d * (m * n) + (n * d) * (k * d)
      BY SMT
    <3>2. x.pos[s] = y.pos[s] + qty /\ y.pos[s] \in Int
      BY <1>1, <1>11, <1>12
    <3> QED
      BY <2>1, <3>1, <3>2
  <2>4. Den * Den * (y.pos[s] * price) \in Int /\ (price * Den) * (qty * Den) \in Int
    BY <1>1, <1>12, <2>1
  <2> QED
    BY <1>1, <1>4, <1>10, <2>2, <2>3, <2>4
<1>15. Equity(y, p.prices) <= Equity(x, p.prices)
  BY <1>1, <1>11, <1>12, <1>14, EquityMoves DEF IsPlan, price
<1>16. x.fills \subseteq y.fills /\ y.fills \ x.fills \subseteq Fills(p)
  BY <1>8, <1>10
<1>17. Settled(p, y, s)
  BY <1>12 DEF Settled
<1>18. OneOrder(p, x, y, s)
  BY <1>10, <1>12, <1>13, <1>15, <1>16, <1>17 DEF OneOrder
<1> QED
  BY <1>18 DEF y

LEMMA OrderFacts ==
    ASSUME NEW p, IsPlan(p), NEW x, IsAccount(p.country, x), NEW s \in Symbols
    PROVE  OneOrder(p, x, AfterOrder(p, x, s), s)
<1> DEFINE delta == p.want[s] - x.pos[s]
           size == IF delta < 0 THEN -delta ELSE delta
<1>1. /\ p.country \in Countries /\ p.prices[s] \in Nat
      /\ p.want[s] \in Positions(p.country) /\ p.want[s] \in Nat
      /\ x.pos[s] \in Positions(p.country) /\ x.pos[s] \in Nat
  BY DEF IsPlan, IsAccount, Positions
<1>2. CASE delta = 0 \/ p.prices[s] = 0 \/ TooSmall(p, x.pos[s], s, size)
  <2>1. AfterOrder(p, x, s) = x
    BY <1>2 DEF AfterOrder
  <2>2. Equity(x, p.prices) <= Equity(x, p.prices)
    <3>1. Equity(x, p.prices) \in Nat
      BY EquityFacts DEF IsPlan, IsAccount
    <3> QED
      BY <3>1
  <2>3. p.want[s] = 0 => x.pos[s] = size
    BY <1>1
  <2>4. p.want[s] = 0 /\ delta = 0 => x.pos[s] = 0
    BY <1>1
  <2> HIDE DEF size, delta
  <2>5. Settled(p, x, s)
    BY <1>2, <2>3, <2>4 DEF Settled
  <2>6. OneOrder(p, x, x, s)
    BY <2>2, <2>5 DEF OneOrder
  <2> QED
    BY <2>1, <2>6
<1>3. CASE ~(delta = 0 \/ p.prices[s] = 0 \/ TooSmall(p, x.pos[s], s, size)) /\ delta > 0
  <2>1. AfterOrder(p, x, s) = AfterBuy(p, x, s, size)
    BY <1>3 DEF AfterOrder
  <2>2. size = p.want[s] - x.pos[s] /\ x.pos[s] <= p.want[s] /\ p.want[s] # 0
    BY <1>1, <1>3
  <2>3. size \in Positions(p.country)
    <3> HIDE DEF size
    <3> QED
      BY <1>1, <2>2, PositionFacts
  <2>4. p.prices[s] # 0
    BY <1>3
  <2> HIDE DEF size, delta
  <2> QED
    BY <2>1, <2>2, <2>3, <2>4, BuyFacts
<1>4. CASE ~(delta = 0 \/ p.prices[s] = 0 \/ TooSmall(p, x.pos[s], s, size)) /\ ~(delta > 0)
  <2>1. AfterOrder(p, x, s) = AfterSale(p, x, s, size)
    BY <1>4 DEF AfterOrder
  <2>2. size = x.pos[s] - p.want[s] /\ p.want[s] < x.pos[s]
    BY <1>1, <1>4
  <2>3. p.prices[s] # 0
    BY <1>4
  <2> HIDE DEF size, delta
  <2> QED
    BY <2>1, <2>2, <2>3, SaleFacts
<1> QED
  BY <1>2, <1>3, <1>4

--------------------------------------------------------------------------------
\* The accounts a rebalance of account a may pass through.
Passed(p, a) ==
    {x \in [cash : Nat, pos : [Symbols -> Positions(p.country)], pending : {a.pending},
            fills : SUBSET (a.fills \cup Fills(p)), bars : {a.bars}] :
        a.fills \subseteq x.fills /\ Equity(x, p.prices) <= Equity(a, p.prices)}

LEMMA PassedFacts ==
    ASSUME NEW p, IsPlan(p), NEW a, IsAccount(p.country, a)
    PROVE  /\ a \in Passed(p, a)
           /\ \A x \in Passed(p, a) :
                  /\ IsAccount(p.country, x)
                  /\ x.pending = a.pending /\ x.bars = a.bars
                  /\ a.fills \subseteq x.fills /\ x.fills \ a.fills \subseteq Fills(p)
                  /\ Equity(x, p.prices) <= Equity(a, p.prices)
<1>1. a \in Passed(p, a)
  <2>1. Equity(a, p.prices) \in Nat
    BY EquityFacts DEF IsPlan, IsAccount
  <2>2. Equity(a, p.prices) <= Equity(a, p.prices)
    BY <2>1
  <2>3. a \in [cash : Nat, pos : [Symbols -> Positions(p.country)], pending : {a.pending},
               fills : SUBSET (a.fills \cup Fills(p)), bars : {a.bars}]
    <3>1. a.fills \in SUBSET (a.fills \cup Fills(p))
      OBVIOUS
    <3> QED
      BY <3>1 DEF IsAccount
  <2> QED
    BY <2>2, <2>3 DEF Passed
<1>2. ASSUME NEW x \in Passed(p, a)
      PROVE  /\ IsAccount(p.country, x)
             /\ x.pending = a.pending /\ x.bars = a.bars
             /\ a.fills \subseteq x.fills /\ x.fills \ a.fills \subseteq Fills(p)
             /\ Equity(x, p.prices) <= Equity(a, p.prices)
  <2>1. /\ x \in [cash : Nat, pos : [Symbols -> Positions(p.country)], pending : {a.pending},
                  fills : SUBSET (a.fills \cup Fills(p)), bars : {a.bars}]
        /\ a.fills \subseteq x.fills /\ Equity(x, p.prices) <= Equity(a, p.prices)
    BY DEF Passed
  <2>2. IsWeights(a.pending)
    BY DEF IsAccount
  <2>3. x = [cash |-> x.cash, pos |-> x.pos, pending |-> x.pending, fills |-> x.fills,
             bars |-> x.bars]
    BY <2>1
  <2>4. /\ x.cash \in Nat /\ x.pos \in [Symbols -> Positions(p.country)]
        /\ x.pending = a.pending /\ x.bars = a.bars /\ x.fills \subseteq a.fills \cup Fills(p)
    BY <2>1
  <2>5. IsAccount(p.country, x)
    BY <2>2, <2>3, <2>4 DEF IsAccount
  <2> QED
    BY <2>1, <2>4, <2>5
<1> QED
  BY <1>1, <1>2

\* An order leads from one of them to another.
LEMMA PassedOn ==
    ASSUME NEW p, IsPlan(p), NEW a, IsAccount(p.country, a), NEW x \in Passed(p, a),
           NEW s \in Symbols
    PROVE  OneOrder(p, x, AfterOrder(p, x, s), s) /\ AfterOrder(p, x, s) \in Passed(p, a)
<1> DEFINE y == AfterOrder(p, x, s)
<1>1. /\ IsAccount(p.country, x)
      /\ x.pending = a.pending /\ x.bars = a.bars
      /\ a.fills \subseteq x.fills /\ x.fills \ a.fills \subseteq Fills(p)
      /\ Equity(x, p.prices) <= Equity(a, p.prices)
  BY PassedFacts
<1>2. OneOrder(p, x, y, s)
  BY <1>1, OrderFacts
<1> HIDE DEF y
<1>3. /\ IsAccount(p.country, y)
      /\ y.pending = a.pending /\ y.bars = a.bars
      /\ a.fills \subseteq y.fills /\ y.fills \subseteq a.fills \cup Fills(p)
  BY <1>1, <1>2 DEF OneOrder
<1>4. Equity(y, p.prices) <= Equity(a, p.prices)
  <2>1. /\ Equity(y, p.prices) \in Nat /\ Equity(x, p.prices) \in Nat
        /\ Equity(a, p.prices) \in Nat
    BY <1>1, <1>3, EquityFacts DEF IsPlan, IsAccount
  <2>2. Equity(y, p.prices) <= Equity(x, p.prices)
    BY <1>2 DEF OneOrder
  <2> QED
    BY <1>1, <2>1, <2>2
<1>5. y \in [cash : Nat, pos : [Symbols -> Positions(p.country)], pending : {a.pending},
             fills : SUBSET (a.fills \cup Fills(p)), bars : {a.bars}]
  BY <1>3 DEF IsAccount
<1> QED
  BY <1>2, <1>3, <1>4, <1>5 DEF Passed, y

\* The orders are sorted: some one is the last.
LastOrder(p, a, T) == CHOOSE s \in T : \A t \in T \ {s} : InOrder(p, a, t, s)

LEMMA LastFacts ==
    ASSUME NEW p, IsPlan(p), NEW a, IsAccount(p.country, a), NEW T, T \subseteq Symbols, T # {}
    PROVE  LastOrder(p, a, T) \in T
<1> DEFINE R == {x \in T \X T : InOrder(p, a, x[1], x[2])}
<1>1. \A x, y \in T : <<x, y>> \in R <=> InOrder(p, a, x, y)
  OBVIOUS
<1> HIDE DEF R
<1>2. IsFiniteSet(T) /\ \A s \in T : s \in Int /\ p.want[s] \in Int /\ a.pos[s] \in Int
  <2>1. IsFiniteSet(T) /\ \A s \in T : s \in Nat
    BY FiniteSymbols
  <2>2. \A s \in Symbols : p.want[s] \in Nat /\ a.pos[s] \in Nat
    BY DEF IsPlan, IsAccount, Positions
  <2> QED
    BY <2>1, <2>2
<1>3. \A x, y, z \in T : <<x, y>> \in R /\ <<y, z>> \in R => <<x, z>> \in R
  BY <1>1, <1>2 DEF InOrder
<1>4. \A x, y \in T : x # y => <<x, y>> \in R \/ <<y, x>> \in R
  BY <1>1, <1>2 DEF InOrder
<1>5. \E x \in T : \A y \in T \ {x} : <<y, x>> \in R
  BY <1>2, <1>3, <1>4, HasLast
<1>6. \E x \in T : \A y \in T \ {x} : InOrder(p, a, y, x)
  BY <1>1, <1>5
<1> QED
  BY <1>6 DEF LastOrder

\* The rebalance as a recursion over the orders left.
OrderStep(p, a) == [y \in Concerned(a) \X Passed(p, a) |-> AfterOrder(p, y[2], y[1])]
LastOf(p, a) == [T \in SUBSET Concerned(a) |-> LastOrder(p, a, T)]
Rebalances(g, p, a) ==
    Computes(g, Concerned(a), Passed(p, a), OrderStep(p, a), a, LastOf(p, a))

LEMMA ConcernedFacts ==
    ASSUME NEW country, NEW a, IsAccount(country, a)
    PROVE  Concerned(a) \subseteq Symbols /\ IsFiniteSet(Concerned(a))
<1>1. Concerned(a) \subseteq Symbols
  BY DEF Concerned, IsAccount, IsWeights
<1> QED
  BY <1>1, FiniteSymbols

LEMMA OrderStepFacts ==
    ASSUME NEW p, IsPlan(p), NEW a, IsAccount(p.country, a)
    PROVE  /\ OrderStep(p, a) \in [Concerned(a) \X Passed(p, a) -> Passed(p, a)]
           /\ \A s \in Concerned(a) : \A x \in Passed(p, a) :
                  OrderStep(p, a)[<<s, x>>] = AfterOrder(p, x, s)
           /\ \A T \in SUBSET Concerned(a) :
                  /\ LastOf(p, a)[T] = LastOrder(p, a, T)
                  /\ T # {} => LastOf(p, a)[T] \in T
<1>1. Concerned(a) \subseteq Symbols
  BY ConcernedFacts
<1>2. \A s \in Concerned(a) : \A x \in Passed(p, a) : AfterOrder(p, x, s) \in Passed(p, a)
  BY <1>1, PassedOn
<1>3. \A T \in SUBSET Concerned(a) : T # {} => LastOrder(p, a, T) \in T
  BY <1>1, LastFacts
<1> QED
  BY <1>2, <1>3 DEF OrderStep, LastOf

LEMMA OrderStepOf ==
    ASSUME NEW p, IsPlan(p), NEW a, IsAccount(p.country, a),
           NEW g \in [SUBSET Concerned(a) -> Passed(p, a)],
           NEW T \in SUBSET Concerned(a), T # {}
    PROVE  OrderStep(p, a)[<<LastOf(p, a)[T], g[T \ {LastOf(p, a)[T]}]>>]
           = AfterOrder(p, g[T \ {LastOrder(p, a, T)}], LastOrder(p, a, T))
<1> DEFINE z == LastOrder(p, a, T)
           x == g[T \ {z}]
<1>1. LastOf(p, a)[T] = z /\ z \in Concerned(a)
  BY OrderStepFacts
<1>2. x \in Passed(p, a)
  OBVIOUS
<1>3. OrderStep(p, a)[<<z, x>>] = AfterOrder(p, x, z)
  <2> HIDE DEF x, z
  <2>1. \A s \in Concerned(a) : \A y \in Passed(p, a) :
            OrderStep(p, a)[<<s, y>>] = AfterOrder(p, y, s)
    BY OrderStepFacts
  <2> HIDE DEF Concerned, OrderStep
  <2> QED
    BY <1>1, <1>2, <2>1, Zenon
<1> QED
  BY <1>1, <1>3

LEMMA OrderedFolds ==
    ASSUME NEW p, IsPlan(p), NEW a, IsAccount(p.country, a)
    PROVE  \E g : Rebalances(g, p, a) /\ Ordered(p, a) = g[Concerned(a)]
<1> DEFINE S == Concerned(a)
           Eq(g) == g = [T \in SUBSET S |-> IF T = {} THEN a
                            ELSE LET x == LastOrder(p, a, T) IN AfterOrder(p, g[T \ {x}], x)]
<1>0. IsFiniteSet(S)
  BY ConcernedFacts
<1>1. \E g : Rebalances(g, p, a)
  BY <1>0, OrderStepFacts, PassedFacts, SetRecursion DEF Rebalances
<1>2. ASSUME NEW g, Rebalances(g, p, a) PROVE Eq(g)
  <2>1. g \in [SUBSET S -> Passed(p, a)]
    BY <1>2 DEF Rebalances, Computes
  <2>2. ASSUME NEW T \in SUBSET S
        PROVE  g[T] = IF T = {} THEN a
                      ELSE LET x == LastOrder(p, a, T) IN AfterOrder(p, g[T \ {x}], x)
    <3>1. g[T] = IF T = {} THEN a
                 ELSE OrderStep(p, a)[<<LastOf(p, a)[T], g[T \ {LastOf(p, a)[T]}]>>]
      BY <1>2 DEF Rebalances, Computes
    <3>2. ASSUME T # {}
          PROVE  OrderStep(p, a)[<<LastOf(p, a)[T], g[T \ {LastOf(p, a)[T]}]>>]
                 = LET x == LastOrder(p, a, T) IN AfterOrder(p, g[T \ {x}], x)
      BY <2>1, <3>2, OrderStepOf
    <3> QED
      BY <3>1, <3>2
  <2> QED
    BY <2>1, <2>2
<1>3. \E g : Eq(g) /\ Ordered(p, a) = g[S]
  <2>1. \E g : Eq(g)
    BY <1>1, <1>2
  <2> QED
    BY <2>1 DEF Ordered, MapThenFoldSet, LastOrder
<1>4. PICK g : Eq(g) /\ Ordered(p, a) = g[S]
  BY <1>3
<1>5. ASSUME NEW T \in SUBSET S PROVE g[T] \in Passed(p, a)
  <2> DEFINE Bad == {U \in SUBSET S : g[U] \notin Passed(p, a)}
  <2> SUFFICES ASSUME Bad # {} PROVE FALSE
    OBVIOUS
  <2>1. PICK U \in Bad : \A W \in Bad : W \subseteq U => W = U
    <3>1. Bad \subseteq SUBSET S
      OBVIOUS
    <3> HIDE DEF Bad, S
    <3> QED
      BY <1>0, <3>1, HasSmallest
  <2> DEFINE x == LastOrder(p, a, U)
  <2>2. U \in SUBSET S /\ g[U] \notin Passed(p, a)
    OBVIOUS
  <2>3. U # {}
    BY <1>4, <2>2, PassedFacts
  <2>4. x \in U /\ x \in Symbols
    BY <2>2, <2>3, LastFacts, ConcernedFacts
  <2>5. g[U] = AfterOrder(p, g[U \ {x}], x)
    BY <1>4, <2>2, <2>3
  <2>6. U \ {x} \in SUBSET S /\ U \ {x} \subseteq U /\ U \ {x} # U
    BY <2>2, <2>4
  <2>7. g[U \ {x}] \in Passed(p, a)
    BY <2>1, <2>6
  <2> QED
    BY <2>2, <2>4, <2>5, <2>7, PassedOn
<1>6. Computes(g, S, Passed(p, a), OrderStep(p, a), a, LastOf(p, a))
  <2>1. g \in [SUBSET S -> Passed(p, a)]
    <3>1. g = [T \in SUBSET S |-> g[T]]
      BY <1>4
    <3> QED
      BY <3>1, <1>5
  <2>2. ASSUME NEW T \in SUBSET S
        PROVE  g[T] = IF T = {} THEN a
                      ELSE OrderStep(p, a)[<<LastOf(p, a)[T], g[T \ {LastOf(p, a)[T]}]>>]
    <3>1. g[T] = IF T = {} THEN a
                 ELSE LET x == LastOrder(p, a, T) IN AfterOrder(p, g[T \ {x}], x)
      BY <1>4
    <3>2. ASSUME T # {}
          PROVE  OrderStep(p, a)[<<LastOf(p, a)[T], g[T \ {LastOf(p, a)[T]}]>>]
                 = AfterOrder(p, g[T \ {LastOrder(p, a, T)}], LastOrder(p, a, T))
      BY <2>1, <3>2, OrderStepOf
    <3> QED
      BY <3>1, <3>2
  <2> QED
    BY <2>1, <2>2 DEF Computes
<1> QED
  BY <1>4, <1>6 DEF Rebalances

\* The orders are all made, and each once: a symbol's position is what its
\* own order left.
LEMMA OrderedSettles ==
    ASSUME NEW p, IsPlan(p), NEW a, IsAccount(p.country, a)
    PROVE  /\ Ordered(p, a) \in Passed(p, a)
           /\ \A s \in Concerned(a) : Settled(p, Ordered(p, a), s)
           /\ \A s \in Symbols \ Concerned(a) : Ordered(p, a).pos[s] = a.pos[s]
<1> DEFINE S == Concerned(a)
<1>1. PICK g : Rebalances(g, p, a) /\ Ordered(p, a) = g[S]
  BY OrderedFolds
<1>2. g \in [SUBSET S -> Passed(p, a)]
  BY <1>1 DEF Rebalances, Computes
<1>3. S \subseteq Symbols /\ IsFiniteSet(S)
  BY ConcernedFacts
<1> DEFINE Good(T) == /\ \A s \in T : Settled(p, g[T], s)
                      /\ \A s \in Symbols \ T : g[T].pos[s] = a.pos[s]
           Bad == {T \in SUBSET S : ~Good(T)}
<1>4. Bad = {}
  <2> SUFFICES ASSUME Bad # {} PROVE FALSE
    OBVIOUS
  <2>1. PICK T \in Bad : \A W \in Bad : W \subseteq T => W = T
    <3>1. Bad \subseteq SUBSET S
      OBVIOUS
    <3> HIDE DEF Bad, S
    <3> QED
      BY <1>3, <3>1, HasSmallest
  <2>2. T \in SUBSET S /\ ~Good(T)
    OBVIOUS
  <2>3. T # {}
    <3>1. T = {} => g[T] = a
      BY <1>1, <2>2 DEF Rebalances, Computes
    <3> QED
      BY <2>2, <3>1
  <2> DEFINE z == LastOrder(p, a, T)
             R == T \ {z}
             x == g[R]
             y == AfterOrder(p, x, z)
  <2>4. z \in T /\ z \in Symbols /\ T \subseteq Symbols
    BY <1>3, <2>2, <2>3, LastFacts
  <2>5. g[T] = y
    <3>1. g[T] = OrderStep(p, a)[<<LastOf(p, a)[T], g[T \ {LastOf(p, a)[T]}]>>]
      BY <1>1, <2>2, <2>3 DEF Rebalances, Computes
    <3>2. OrderStep(p, a)[<<LastOf(p, a)[T], g[T \ {LastOf(p, a)[T]}]>>]
          = AfterOrder(p, g[T \ {LastOrder(p, a, T)}], LastOrder(p, a, T))
      BY <1>2, <2>2, <2>3, OrderStepOf
    <3> QED
      BY <3>1, <3>2
  <2>6. R \in SUBSET S /\ R \subseteq T /\ R # T
    BY <2>2, <2>4
  <2>7. Good(R)
    <3>1. R \notin Bad
      <4> HIDE DEF Bad, R
      <4> QED
        BY <2>1, <2>6
    <3> QED
      BY <2>6, <3>1
  <2>8. x \in Passed(p, a)
    BY <1>2, <2>6
  <2>9. OneOrder(p, x, y, z)
    <3> HIDE DEF x, z
    <3> QED
      BY <2>4, <2>8, PassedOn
  <2> HIDE DEF y, x, z
  <2>10. /\ Settled(p, y, z)
         /\ \A t \in Symbols \ {z} : y.pos[t] = x.pos[t]
    BY <2>9 DEF OneOrder
  <2>11. ASSUME NEW s \in T PROVE Settled(p, g[T], s)
    <3>1. CASE s = z
      BY <2>5, <2>10, <3>1
    <3>2. CASE s # z
      <4>1. Settled(p, x, s) /\ y.pos[s] = x.pos[s]
        BY <2>4, <2>7, <2>10, <3>2 DEF x
      <4>2. Settled(p, y, s)
        BY <4>1 DEF Settled
      <4> QED
        BY <2>5, <4>2
    <3> QED
      BY <3>1, <3>2
  <2>12. ASSUME NEW s \in Symbols \ T PROVE g[T].pos[s] = a.pos[s]
    BY <2>4, <2>5, <2>7, <2>10 DEF x
  <2> QED
    BY <2>2, <2>11, <2>12
<1>5. Good(S)
  BY <1>4
<1>6. g[S] \in Passed(p, a)
  BY <1>2
<1> QED
  BY <1>1, <1>5, <1>6

\* A rebalance: what it leaves of the account.
LEMMA RebalanceFacts ==
    ASSUME NEW p, IsPlan(p), NEW a, IsAccount(p.country, a)
    PROVE  LET b == Rebalanced(p, a)
           IN  /\ IsAccount(p.country, b) /\ b.bars = a.bars
               /\ a.fills \subseteq b.fills /\ b.fills \ a.fills \subseteq Fills(p)
               /\ Equity(b, p.prices) <= Equity(a, p.prices)
               /\ DOMAIN a.pending # {} => \A s \in Symbols :
                      p.want[s] = 0 /\ p.prices[s] > 0 =>
                          b.pos[s] = 0 \/ TooSmall(p, b.pos[s], s, b.pos[s])
<1>1. CASE DOMAIN a.pending = {}
  <2>1. Rebalanced(p, a) = a
    BY <1>1 DEF Rebalanced
  <2>2. a \in Passed(p, a)
    BY PassedFacts
  <2>3. Equity(a, p.prices) <= Equity(a, p.prices)
    BY <2>2, PassedFacts
  <2> QED
    BY <1>1, <2>1, <2>3
<1>2. CASE DOMAIN a.pending # {}
  <2> DEFINE b == Ordered(p, a)
  <2>1. Rebalanced(p, a) = b
    BY <1>2 DEF Rebalanced
  <2>2. /\ b \in Passed(p, a)
        /\ \A s \in Concerned(a) : Settled(p, b, s)
        /\ \A s \in Symbols \ Concerned(a) : b.pos[s] = a.pos[s]
    BY OrderedSettles
  <2> HIDE DEF b
  <2>3. /\ IsAccount(p.country, b) /\ b.bars = a.bars
        /\ a.fills \subseteq b.fills /\ b.fills \ a.fills \subseteq Fills(p)
        /\ Equity(b, p.prices) <= Equity(a, p.prices)
    BY <2>2, PassedFacts
  <2>4. ASSUME NEW s \in Symbols, p.want[s] = 0, p.prices[s] > 0
        PROVE  b.pos[s] = 0 \/ TooSmall(p, b.pos[s], s, b.pos[s])
    <3>1. CASE s \in Concerned(a)
      BY <2>2, <2>4, <3>1 DEF Settled
    <3>2. CASE s \notin Concerned(a)
      <4>1. ~(a.pos[s] > 0) /\ a.pos[s] \in Nat
        BY <3>2 DEF Concerned, IsAccount, Positions
      <4>2. b.pos[s] = 0
        BY <2>2, <3>2, <4>1
      <4> QED
        BY <4>2
    <3> QED
      BY <3>1, <3>2
  <2> QED
    BY <2>1, <2>3, <2>4
<1> QED
  BY <1>1, <1>2

--------------------------------------------------------------------------------
\* A frame: opens and closes of the days and symbols both have.
IsTable(t) == t \in [Symbols -> [1..Days -> Bars]]

IsFrame(f) ==
    /\ f.strategy \in Strategies /\ f.country \in Countries
    /\ IsTable(f.opens) /\ IsTable(f.closes)
    /\ f.index \subseteq 1..Days
    /\ f.columns \subseteq Symbols

LEMMA FrameFacts ==
    ASSUME NEW what \in Studies, NEW opens, IsTable(opens), NEW closes, IsTable(closes)
    PROVE  IsFrame(Frame(what, opens, closes))
<1>1. what.strategy \in Strategies /\ what.country \in Countries
  BY BacktestAssumption
<1>2. \A t : Dates(t) \subseteq 1..Days
  BY DEF Dates, DaysOf
<1>3. \A t : Columns(t) \subseteq Symbols
  BY DEF Columns
<1> QED
  BY <1>1, <1>2, <1>3 DEF Frame, IsFrame

LEMMA FramePrices ==
    ASSUME NEW f, IsFrame(f), NEW d \in 1..Days
    PROVE  /\ OpenPrices(f, d) \in [Symbols -> Nat]
           /\ IsHistory(HistoryTo(f, d))
<1>1. \A s \in Symbols : \A k \in 1..Days : f.opens[s][k].open \in Nat /\ f.closes[s][k].close \in Nat
  BY DEF IsFrame, IsTable, Bars
<1>2. OpenPrices(f, d) \in [Symbols -> Nat]
  BY <1>1 DEF OpenPrices
<1>3. ASSUME NEW s \in f.columns
      PROVE  HistoryTo(f, d)[s] \in [1..d -> Nat]
  <2>1. HistoryTo(f, d)[s] = [k \in 1..d |-> IF k \in f.index THEN f.closes[s][k].close ELSE 0]
    BY DEF HistoryTo
  <2>2. \A k \in 1..d : k \in 1..Days
    BY StoreAssumption
  <2>3. s \in Symbols
    BY DEF IsFrame
  <2> QED
    BY <1>1, <2>1, <2>2, <2>3
<1>4. DOMAIN HistoryTo(f, d) = f.columns /\ d \in Nat
  BY DEF HistoryTo
<1> QED
  BY <1>2, <1>3, <1>4 DEF IsHistory, IsSeries, IsFrame

LEMMA DecisionFacts ==
    ASSUME NEW f, IsFrame(f), NEW d \in 1..Days PROVE IsWeights(Decision(f, d))
BY FramePrices, StrategyFacts, NoWeightsFacts DEF Decision, IsFrame

LEMMA PlanFacts ==
    ASSUME NEW country \in Countries, NEW d, NEW prices \in [Symbols -> Nat],
           NEW a, IsAccount(country, a)
    PROVE  LET p == Plan(country, d, prices, a)
           IN  /\ IsPlan(p)
               /\ p.country = country /\ p.day = d /\ p.prices = prices
               /\ p.equity = Equity(a, prices)
<1> DEFINE equity == Equity(a, prices)
           want == [s \in Symbols |-> Desired(country, prices, equity, a.pending, s)]
           p == Plan(country, d, prices, a)
<1>1. p = [country |-> country, day |-> d, prices |-> prices, equity |-> equity, want |-> want]
  BY DEF Plan
<1>2. equity \in Nat
  BY EquityFacts DEF IsAccount
<1>3. ASSUME NEW s \in Symbols
      PROVE  Desired(country, prices, equity, a.pending, s) \in Positions(country)
  <2> HIDE DEF equity
  <2>1. CASE s \in DOMAIN a.pending /\ prices[s] > 0 /\ a.pending[s] > 0
    <3> DEFINE w == a.pending[s]
               unit == Whole * prices[s] * Den * Den
    <3>1. w \in Nat /\ prices[s] \in Nat \ {0} /\ Whole \in Nat \ {0} /\ Den \in Nat \ {0}
      BY <2>1, StrategyConstants, CostsAssumption DEF IsAccount, IsWeights
    <3>2. unit \in Nat \ {0}
      <4>1. Whole * prices[s] \in Nat \ {0}
        BY <3>1, MulPositive
      <4>2. Whole * prices[s] * Den \in Nat \ {0}
        BY <3>1, <4>1, MulPositive
      <4> QED
        BY <3>1, <4>2, MulPositive
    <3>3. equity * w \in Nat
      BY <1>2, <3>1, MulNat
    <3> HIDE DEF unit, w
    <3>4. (equity * w) \div unit \in Nat
      BY <3>2, <3>3, Quotient
    <3>5. Lots(country, (equity * w) \div unit) \in Positions(country)
      BY <3>4, PositionFacts
    <3> QED
      BY <2>1, <3>5 DEF Desired, unit, w
  <2>2. CASE ~(s \in DOMAIN a.pending /\ prices[s] > 0 /\ a.pending[s] > 0)
    BY <2>2, PositionFacts DEF Desired
  <2> QED
    BY <2>1, <2>2
<1>4. want \in [Symbols -> Positions(country)]
  BY <1>3
<1> HIDE DEF want, equity, p
<1>5. IsPlan(p)
  BY <1>1, <1>4 DEF IsPlan
<1> QED
  BY <1>1, <1>5 DEF p, equity

--------------------------------------------------------------------------------
\* What the account of a run is after day d, and what its bars did.
GoodBar(country, bar) ==
    /\ bar.cash \in Nat
    /\ bar.pos \in [Symbols -> Positions(country)]
    /\ bar.equity[2] <= bar.equity[1]
    /\ IsWeights(bar.weights)
    /\ bar.left = {}

Lived(f, a, d) ==
    /\ IsAccount(f.country, a)
    /\ \A bar \in a.bars : GoodBar(f.country, bar)
    /\ \A x \in a.fills : x.day \in 1..d

LEMMA FundedFacts == ASSUME NEW f, IsFrame(f) PROVE Lived(f, Funded, 0)
<1>1. /\ Funded = [cash |-> InitialCash, pos |-> [s \in Symbols |-> 0], pending |-> NoWeights,
                   fills |-> {}, bars |-> {}]
      /\ Funded.cash \in Nat /\ Funded.pending = NoWeights
      /\ Funded.fills = {} /\ Funded.bars = {}
  BY BacktestAssumption DEF Funded
<1>2. Funded.pos \in [Symbols -> Positions(f.country)]
  <2>1. 0 \in Positions(f.country)
    BY PositionFacts DEF IsFrame
  <2> QED
    BY <2>1 DEF Funded
<1>3. IsAccount(f.country, Funded)
  BY <1>1, <1>2, NoWeightsFacts DEF IsAccount
<1> QED
  BY <1>1, <1>3 DEF Lived

LEMMA BarFacts ==
    ASSUME NEW f, IsFrame(f), NEW d \in 1..Days, NEW a, Lived(f, a, d - 1)
    PROVE  /\ Lived(f, Bar(f, a, d), d)
           /\ a.fills \subseteq Bar(f, a, d).fills
           /\ \A x \in Bar(f, a, d).fills \ a.fills : x.day = d
<1> DEFINE prices == OpenPrices(f, d)
           p == Plan(f.country, d, prices, a)
           b == Rebalanced(p, a)
           w == Decision(f, d)
           note == Noted(p, a, b, w)
           c == Bar(f, a, d)
<1>1. /\ f.country \in Countries /\ IsAccount(f.country, a)
      /\ (\A bar \in a.bars : GoodBar(f.country, bar))
      /\ (\A x \in a.fills : x.day \in 1..(d - 1))
      /\ d \in Nat /\ d >= 1
  BY StoreAssumption DEF Lived, IsFrame
<1>2. /\ IsPlan(p) /\ p.country = f.country /\ p.day = d /\ p.prices = prices
      /\ p.equity = Equity(a, prices)
  <2>1. prices \in [Symbols -> Nat]
    BY FramePrices
  <2> HIDE DEF prices
  <2> QED
    BY <1>1, <2>1, PlanFacts
<1>3. IsWeights(w)
  BY DecisionFacts
<1>4. c = [b EXCEPT !.pending = w, !.bars = @ \cup {note}]
  BY DEF Bar
<1>5. note = [cash |-> b.cash, pos |-> b.pos,
              equity |-> <<p.equity, Equity(b, p.prices)>>, weights |-> w,
              left |-> {s \in Symbols : /\ DOMAIN a.pending # {}
                                        /\ p.want[s] = 0 /\ b.pos[s] > 0
                                        /\ p.prices[s] > 0
                                        /\ ~TooSmall(p, b.pos[s], s, b.pos[s])}]
  BY DEF Noted
<1> HIDE DEF p, prices, w
<1>6. /\ IsAccount(p.country, b) /\ b.bars = a.bars
      /\ a.fills \subseteq b.fills /\ b.fills \ a.fills \subseteq Fills(p)
      /\ Equity(b, p.prices) <= Equity(a, p.prices)
      /\ DOMAIN a.pending # {} => \A s \in Symbols :
             p.want[s] = 0 /\ p.prices[s] > 0 =>
                 b.pos[s] = 0 \/ TooSmall(p, b.pos[s], s, b.pos[s])
  BY <1>1, <1>2, RebalanceFacts
<1> HIDE DEF b, c, note
<1>7. /\ b.cash \in Nat /\ b.pos \in [Symbols -> Positions(f.country)]
      /\ b = [cash |-> b.cash, pos |-> b.pos, pending |-> b.pending, fills |-> b.fills,
              bars |-> b.bars]
  BY <1>2, <1>6 DEF IsAccount
<1>8. GoodBar(f.country, note)
  <2>1. /\ note.cash = b.cash /\ note.pos = b.pos /\ note.weights = w
        /\ note.equity[1] = p.equity /\ note.equity[2] = Equity(b, p.prices)
        /\ note.left = {s \in Symbols : /\ DOMAIN a.pending # {}
                                        /\ p.want[s] = 0 /\ b.pos[s] > 0
                                        /\ p.prices[s] > 0
                                        /\ ~TooSmall(p, b.pos[s], s, b.pos[s])}
    BY <1>5
  <2>2. \A s \in Symbols : b.pos[s] = 0 => ~(b.pos[s] > 0)
    OBVIOUS
  <2>3. note.left = {}
    BY <1>6, <2>1, <2>2
  <2>4. note.equity[2] <= note.equity[1]
    BY <1>2, <1>6, <2>1
  <2> QED
    BY <1>3, <1>7, <2>1, <2>3, <2>4 DEF GoodBar
<1>9. c = [cash |-> b.cash, pos |-> b.pos, pending |-> w, fills |-> b.fills,
           bars |-> b.bars \cup {note}]
  BY <1>4, <1>7
<1>10. /\ c.cash = b.cash /\ c.pos = b.pos /\ c.pending = w /\ c.fills = b.fills
       /\ c.bars = b.bars \cup {note}
  BY <1>9
<1>11. IsAccount(f.country, c)
  <2>1. c = [cash |-> c.cash, pos |-> c.pos, pending |-> c.pending, fills |-> c.fills,
             bars |-> c.bars]
    BY <1>9, <1>10
  <2> QED
    BY <1>3, <1>7, <1>10, <2>1 DEF IsAccount
<1>12. \A bar \in c.bars : GoodBar(f.country, bar)
  BY <1>1, <1>6, <1>8, <1>10
<1>13. a.fills \subseteq c.fills /\ \A x \in c.fills \ a.fills : x.day = d
  BY <1>2, <1>6, <1>10 DEF Fills
<1>14. \A x \in c.fills : x.day \in 1..d
  BY <1>1, <1>13
<1> QED
  BY <1>11, <1>12, <1>13, <1>14 DEF Lived, c

\* The loop over the days is a recursion: a run up to any day exists.
Runs(g, f, n) ==
    g = [d \in 0..n |-> IF d = 0 THEN Funded
                        ELSE IF d \in f.index THEN Bar(f, g[d - 1], d)
                        ELSE g[d - 1]]

LEMMA RunExists == ASSUME NEW f, NEW n \in Nat PROVE \E g : Runs(g, f, n)
<1> DEFINE Bad == {k \in Nat : ~\E g : Runs(g, f, k)}
<1> SUFFICES ASSUME Bad # {} PROVE FALSE
  OBVIOUS
<1>1. PICK k \in Bad : \A j \in Bad : k <= j
  <2>1. Bad \subseteq Nat
    OBVIOUS
  <2> HIDE DEF Bad
  <2> QED
    BY <2>1, HasLeast DEF Least
<1>2. k \in Nat /\ ~\E g : Runs(g, f, k)
  OBVIOUS
<1>3. CASE k = 0
  <2> DEFINE g == [d \in 0..0 |-> Funded]
  <2>1. \A d \in 0..0 : d = 0
    OBVIOUS
  <2>2. Runs(g, f, 0)
    BY <2>1 DEF Runs
  <2> QED
    BY <1>2, <1>3, <2>2
<1>4. CASE k # 0
  <2>1. k - 1 \in Nat /\ k - 1 \notin Bad
    <3>1. k - 1 \in Nat /\ ~(k <= k - 1)
      BY <1>2, <1>4
    <3> HIDE DEF Bad
    <3> QED
      BY <1>1, <3>1
  <2>2. PICK h : Runs(h, f, k - 1)
    BY <2>1
  <2> DEFINE last == IF k \in f.index THEN Bar(f, h[k - 1], k) ELSE h[k - 1]
             g == [d \in 0..k |-> IF d = k THEN last ELSE h[d]]
  <2>3. ASSUME NEW d \in 0..k
        PROVE  g[d] = IF d = 0 THEN Funded
                      ELSE IF d \in f.index THEN Bar(f, g[d - 1], d)
                      ELSE g[d - 1]
    <3>1. CASE d = k
      <4>1. g[d] = last /\ g[d - 1] = h[d - 1]
        BY <1>2, <1>4, <3>1
      <4> QED
        BY <1>4, <3>1, <4>1
    <3>2. CASE d # k
      <4>1. d \in 0..(k - 1) /\ (d # 0 => d - 1 \in 0..(k - 1) /\ d - 1 \in 0..k /\ d - 1 # k)
        BY <1>2, <3>2
      <4>2. g[d] = h[d] /\ (d # 0 => g[d - 1] = h[d - 1])
        BY <3>2, <4>1
      <4>3. h[d] = IF d = 0 THEN Funded
                   ELSE IF d \in f.index THEN Bar(f, h[d - 1], d)
                   ELSE h[d - 1]
        BY <2>2, <4>1 DEF Runs
      <4> HIDE DEF g
      <4> QED
        BY <4>2, <4>3
    <3> QED
      BY <3>1, <3>2
  <2>4. g = [d \in 0..k |-> g[d]]
    OBVIOUS
  <2> HIDE DEF g
  <2>5. Runs(g, f, k)
    BY <2>3, <2>4 DEF Runs
  <2> QED
    BY <1>2, <2>5
<1> QED
  BY <1>3, <1>4

LEMMA AccountsFacts ==
    ASSUME NEW f
    PROVE  /\ Accounts(f)[0] = Funded
           /\ \A d \in 1..Days : Accounts(f)[d] = IF d \in f.index
                                                  THEN Bar(f, Accounts(f)[d - 1], d)
                                                  ELSE Accounts(f)[d - 1]
<1>1. Days \in Nat
  BY StoreAssumption
<1>2. \E g : g = [d \in 0..Days |-> IF d = 0 THEN Funded
                                    ELSE IF d \in f.index THEN Bar(f, g[d - 1], d)
                                    ELSE g[d - 1]]
  <2>1. PICK g : Runs(g, f, Days)
    BY <1>1, RunExists
  <2> QED
    BY <2>1 DEF Runs
<1>3. Runs(Accounts(f), f, Days)
  BY <1>2 DEF Accounts, Runs
<1> DEFINE g == Accounts(f)
<1>4. \A d \in 0..Days : g[d] = IF d = 0 THEN Funded
                                ELSE IF d \in f.index THEN Bar(f, g[d - 1], d)
                                ELSE g[d - 1]
  <2> HIDE DEF g
  <2>1. Runs(g, f, Days)
    BY <1>3 DEF g
  <2> QED
    BY <2>1 DEF Runs
<1>5. 0 \in 0..Days /\ \A d \in 1..Days : d \in 0..Days /\ d # 0
  BY <1>1
<1> HIDE DEF g
<1> QED
  BY <1>4, <1>5 DEF g

LEMMA AccountsLive ==
    ASSUME NEW f, IsFrame(f), NEW d \in 0..Days PROVE Lived(f, Accounts(f)[d], d)
<1> DEFINE Bad == {k \in 0..Days : ~Lived(f, Accounts(f)[k], k)}
<1> SUFFICES ASSUME Bad # {} PROVE FALSE
  OBVIOUS
<1>0. Days \in Nat
  BY StoreAssumption
<1>1. PICK k \in Bad : \A j \in Bad : k <= j
  <2>1. Bad \subseteq Nat
    BY <1>0
  <2> HIDE DEF Bad
  <2> QED
    BY <2>1, HasLeast DEF Least
<1>2. k \in 0..Days /\ ~Lived(f, Accounts(f)[k], k)
  OBVIOUS
<1>3. k # 0
  BY <1>2, AccountsFacts, FundedFacts
<1>4. k \in 1..Days /\ k - 1 \in 0..Days /\ ~(k <= k - 1)
  BY <1>0, <1>2, <1>3
<1>5. Lived(f, Accounts(f)[k - 1], k - 1)
  <2>1. k - 1 \notin Bad
    <3> HIDE DEF Bad
    <3> QED
      BY <1>1, <1>4
  <2> QED
    BY <1>4, <2>1
<1>6. Lived(f, Accounts(f)[k - 1], k)
  <2>1. \A j \in 1..(k - 1) : j \in 1..k
    BY <1>4
  <2> QED
    BY <1>5, <2>1 DEF Lived
<1>7. Lived(f, Bar(f, Accounts(f)[k - 1], k), k)
  BY <1>4, <1>5, BarFacts
<1> QED
  BY <1>2, <1>4, <1>6, <1>7, AccountsFacts

\* So of any report.
GoodReport(r) == r.country \in Countries /\ \A bar \in r.bars : GoodBar(r.country, bar)

LEMMA ReportFacts ==
    ASSUME NEW f, IsFrame(f), NEW final
    PROVE  /\ GoodReport(Report(f, final))
           /\ Report(f, final).fills = Accounts(f)[Days].fills
           /\ Report(f, final).final = final
           /\ Report(f, final).columns = f.columns
           /\ Report(f, final).upTo = LastDay(f)
<1>1. /\ Report(f, final).country = f.country
      /\ Report(f, final).bars = Accounts(f)[Days].bars
      /\ Report(f, final).fills = Accounts(f)[Days].fills
      /\ Report(f, final).final = final
      /\ Report(f, final).columns = f.columns
      /\ Report(f, final).upTo = LastDay(f)
  BY DEF Report
<1>2. Lived(f, Accounts(f)[Days], Days)
  BY StoreAssumption, AccountsLive
<1>3. \A bar \in Accounts(f)[Days].bars : GoodBar(f.country, bar)
  BY <1>2 DEF Lived
<1> QED
  BY <1>1, <1>3 DEF GoodReport, IsFrame

--------------------------------------------------------------------------------
\* A run on bars that are final, b, and one of the same symbols on every final
\* bar, h: they agree on each day before the last one of b.
Extends(h, b, last) ==
    /\ IsFrame(h) /\ IsFrame(b)
    /\ h.strategy = b.strategy /\ h.country = b.country /\ h.columns = b.columns
    /\ last \in 0..Days
    /\ b.index = {d \in h.index : d <= last}
    /\ b.index # {} => last \in b.index
    /\ \A d \in b.index : OpenPrices(b, d) = OpenPrices(h, d)
    /\ \A d \in b.index : d < last => HistoryTo(b, d) = HistoryTo(h, d)

LEMMA Periods ==
    /\ MonthOf \in [1..Days -> Nat] /\ YearOf \in [1..Days -> Nat]
    /\ \A d, e \in 1..Days : d <= e => MonthOf[d] <= MonthOf[e] /\ YearOf[d] <= YearOf[e]
BY BacktestAssumption

\* A day before the last one is a rebalance day in both or in neither.
LEMMA SameDecision ==
    ASSUME NEW h, NEW b, NEW last, Extends(h, b, last), NEW d \in b.index, d < last
    PROVE  Decision(b, d) = Decision(h, d)
<1> DEFINE period == IF b.strategy = "buy-and-hold" THEN YearOf ELSE MonthOf
<1>1. /\ b.index \subseteq h.index /\ h.index \subseteq 1..Days
      /\ last \in b.index /\ last \in 1..Days /\ last \in Nat
      /\ b.index = {e \in h.index : e <= last}
      /\ d \in 1..Days /\ d \in Nat /\ d \in h.index /\ last > d
  BY StoreAssumption DEF Extends, IsFrame
<1>2. /\ \A e \in 1..Days : period[e] \in Nat
      /\ \A e, k \in 1..Days : e <= k => period[e] <= period[k]
  BY Periods
<1>3. /\ RebalanceDay(b, d) <=> \A e \in b.index : e > d => period[e] # period[d]
      /\ RebalanceDay(h, d) <=> \A e \in h.index : e > d => period[e] # period[d]
  BY DEF RebalanceDay, Extends
<1> HIDE DEF period
<1>4. ASSUME RebalanceDay(b, d), NEW e \in h.index, e > d PROVE period[e] # period[d]
  <2>1. e \in 1..Days /\ e \in Nat
    BY <1>1
  <2>2. CASE e <= last
    BY <1>1, <1>3, <1>4, <2>2
  <2>3. CASE e > last
    <3>1. period[last] # period[d] /\ period[d] <= period[last] /\ period[last] <= period[e]
      BY <1>1, <1>2, <1>3, <1>4, <2>1, <2>3
    <3>2. period[d] \in Nat /\ period[last] \in Nat /\ period[e] \in Nat
      BY <1>1, <1>2, <2>1
    <3> QED
      BY <3>1, <3>2
  <2> QED
    BY <1>1, <2>1, <2>2, <2>3
<1>5. RebalanceDay(b, d) <=> RebalanceDay(h, d)
  BY <1>1, <1>3, <1>4
<1>6. (\E e \in b.index : e > d) /\ (\E e \in h.index : e > d)
  BY <1>1
<1>7. Cardinality({e \in b.index : e <= d}) = Cardinality({e \in h.index : e <= d})
  <2>1. \A e \in h.index : e \in Nat
    BY <1>1
  <2>2. {e \in b.index : e <= d} = {e \in h.index : e <= d}
    BY <1>1, <2>1
  <2> QED
    BY <2>2, Zenon
<1>8. Decides(b, d) <=> Decides(h, d)
  BY <1>5, <1>6, <1>7 DEF Decides, Extends
<1>9. HistoryTo(b, d) = HistoryTo(h, d) /\ b.strategy = h.strategy
  BY <1>1 DEF Extends
<1> QED
  BY <1>8, <1>9 DEF Decision

\* The same account then trades the same at the open, on the last day too.
LEMMA SameBar ==
    ASSUME NEW h, NEW b, NEW last, Extends(h, b, last), NEW d \in b.index, NEW a, Lived(b, a, d - 1)
    PROVE  /\ d < last => Bar(b, a, d) = Bar(h, a, d)
           /\ Bar(b, a, d).fills = Bar(h, a, d).fills
<1> DEFINE p == Plan(b.country, d, OpenPrices(b, d), a)
           t == Rebalanced(p, a)
           w(f) == Decision(f, d)
           noted(f) == t.bars \cup {Noted(p, a, t, w(f))}
<1>1. OpenPrices(b, d) = OpenPrices(h, d) /\ b.country = h.country /\ IsFrame(b)
  BY DEF Extends
<1>2. \A f \in {b, h} : Bar(f, a, d) = [t EXCEPT !.pending = w(f), !.bars = noted(f)]
  BY <1>1 DEF Bar
<1>3. IsAccount(p.country, t)
  <2>1. d \in 1..Days
    BY <1>1 DEF IsFrame
  <2> DEFINE prices == OpenPrices(b, d)
  <2>2. prices \in [Symbols -> Nat]
    BY <1>1, <2>1, FramePrices
  <2>3. IsAccount(b.country, a) /\ b.country \in Countries
    BY <1>1 DEF Lived, IsFrame
  <2>4. p = Plan(b.country, d, prices, a)
    OBVIOUS
  <2> HIDE DEF prices, p
  <2>5. IsPlan(p) /\ p.country = b.country
    BY <2>2, <2>3, <2>4, PlanFacts
  <2> QED
    BY <2>3, <2>5, RebalanceFacts
<1>4. d < last => w(b) = w(h)
  BY SameDecision
<1>5. t = [cash |-> t.cash, pos |-> t.pos, pending |-> t.pending, fills |-> t.fills,
           bars |-> t.bars]
  BY <1>3 DEF IsAccount
<1> HIDE DEF t
<1>6. d < last => noted(b) = noted(h)
  BY <1>4
<1> HIDE DEF w, noted
<1>7. \A f \in {b, h} : Bar(f, a, d).fills = t.fills
  BY <1>2, <1>5
<1> QED
  BY <1>2, <1>4, <1>6, <1>7

\* So the accounts are the same up to the last day of b ...
LEMMA SameAccounts ==
    ASSUME NEW h, NEW b, NEW last, Extends(h, b, last), NEW d \in 0..Days, d < last
    PROVE  Accounts(b)[d] = Accounts(h)[d]
<1> DEFINE Bad == {k \in 0..Days : k < last /\ Accounts(b)[k] # Accounts(h)[k]}
<1> SUFFICES ASSUME Bad # {} PROVE FALSE
  OBVIOUS
<1>0. /\ Days \in Nat /\ last \in 0..Days /\ h.index \subseteq 1..Days
      /\ b.index = {k \in h.index : k <= last} /\ IsFrame(b)
  BY StoreAssumption DEF Extends, IsFrame
<1>1. PICK k \in Bad : \A j \in Bad : k <= j
  <2>1. Bad \subseteq Nat
    BY <1>0
  <2> HIDE DEF Bad
  <2> QED
    BY <2>1, HasLeast DEF Least
<1>2. k \in 0..Days /\ k < last /\ Accounts(b)[k] # Accounts(h)[k]
  OBVIOUS
<1>3. k # 0
  BY <1>2, AccountsFacts
<1>4. k \in 1..Days /\ k - 1 \in 0..Days /\ ~(k <= k - 1) /\ k - 1 < last
  BY <1>0, <1>2, <1>3
<1>5. Accounts(b)[k - 1] = Accounts(h)[k - 1]
  <2>1. k - 1 \notin Bad
    <3> HIDE DEF Bad
    <3> QED
      BY <1>1, <1>4
  <2> QED
    BY <1>4, <2>1
<1>6. k \in b.index <=> k \in h.index
  BY <1>0, <1>2
<1> DEFINE a == Accounts(b)[k - 1]
<1>7. Lived(b, a, k - 1)
  BY <1>0, <1>4, AccountsLive
<1>8. k \in b.index => Bar(b, a, k) = Bar(h, a, k)
  <2> HIDE DEF a
  <2> QED
    BY <1>2, <1>7, SameBar
<1> QED
  BY <1>2, <1>4, <1>5, <1>6, <1>8, AccountsFacts

\* ... and the fills on it ...
LEMMA SameFills ==
    ASSUME NEW h, NEW b, NEW last, Extends(h, b, last)
    PROVE  Accounts(b)[last].fills = Accounts(h)[last].fills
<1>0. /\ Days \in Nat /\ last \in 0..Days /\ h.index \subseteq 1..Days
      /\ b.index = {k \in h.index : k <= last} /\ IsFrame(b)
  BY StoreAssumption DEF Extends, IsFrame
<1>1. CASE last = 0
  BY <1>1, AccountsFacts
<1>2. CASE last # 0
  <2>1. last \in 1..Days /\ last - 1 \in 0..Days /\ last - 1 < last
    BY <1>0, <1>2
  <2> DEFINE a == Accounts(b)[last - 1]
  <2>2. a = Accounts(h)[last - 1]
    BY <2>1, SameAccounts
  <2>3. last \in b.index <=> last \in h.index
    BY <1>0
  <2>4. Lived(b, a, last - 1)
    BY <1>0, <2>1, AccountsLive
  <2>5. last \in b.index => Bar(b, a, last).fills = Bar(h, a, last).fills
    <3> HIDE DEF a
    <3> QED
      BY <2>4, SameBar
  <2>6. /\ Accounts(b)[last] = IF last \in b.index THEN Bar(b, a, last) ELSE a
        /\ Accounts(h)[last] = IF last \in h.index THEN Bar(h, a, last) ELSE a
    BY <2>1, <2>2, AccountsFacts
  <2> HIDE DEF a
  <2> QED
    BY <2>3, <2>5, <2>6
<1> QED
  BY <1>1, <1>2

\* ... and no later day adds one on it or before.
LEMMA LaterFills ==
    ASSUME NEW f, IsFrame(f), NEW last \in 0..Days, NEW d \in last..Days
    PROVE  /\ FillsUpTo(Accounts(f)[d].fills, last) = Accounts(f)[last].fills
           /\ (\A k \in f.index : k <= last) => Accounts(f)[d] = Accounts(f)[last]
<1> DEFINE Good(k) ==
               /\ FillsUpTo(Accounts(f)[k].fills, last) = Accounts(f)[last].fills
               /\ (\A j \in f.index : j <= last) => Accounts(f)[k] = Accounts(f)[last]
           Bad == {k \in last..Days : ~Good(k)}
<1> SUFFICES ASSUME Bad # {} PROVE FALSE
  OBVIOUS
<1>0. Days \in Nat /\ last \in Nat
  BY StoreAssumption
<1>1. PICK k \in Bad : \A j \in Bad : k <= j
  <2>1. Bad \subseteq Nat
    BY <1>0
  <2> HIDE DEF Bad
  <2> QED
    BY <2>1, HasLeast DEF Least
<1>2. k \in last..Days /\ ~Good(k)
  OBVIOUS
<1>3. k # last
  <2>1. Lived(f, Accounts(f)[last], last)
    BY AccountsLive
  <2>2. \A x \in Accounts(f)[last].fills : x.day <= last
    BY <1>0, <2>1 DEF Lived
  <2>3. Good(last)
    BY <2>2 DEF FillsUpTo
  <2> QED
    BY <1>2, <2>3
<1>4. /\ k \in 1..Days /\ k - 1 \in 0..Days /\ k - 1 \in last..Days
      /\ ~(k <= k - 1) /\ k > last /\ k \in Nat
  BY <1>0, <1>2, <1>3
<1>5. Good(k - 1)
  <2>1. k - 1 \notin Bad
    <3> HIDE DEF Bad
    <3> QED
      BY <1>1, <1>4
  <2> QED
    BY <1>4, <2>1
<1> DEFINE a == Accounts(f)[k - 1]
<1>6. Accounts(f)[k] = IF k \in f.index THEN Bar(f, a, k) ELSE a
  BY <1>4, AccountsFacts
<1>7. CASE k \notin f.index
  <2>1. Accounts(f)[k] = a
    BY <1>6, <1>7
  <2> QED
    BY <1>2, <1>5, <2>1
<1>8. CASE k \in f.index
  <2>1. Lived(f, a, k - 1)
    BY <1>4, AccountsLive
  <2>2. a.fills \subseteq Bar(f, a, k).fills /\ \A x \in Bar(f, a, k).fills \ a.fills : x.day = k
    <3> HIDE DEF a
    <3> QED
      BY <1>4, <2>1, BarFacts
  <2>3. ~(k <= last)
    BY <1>0, <1>4
  <2>4. FillsUpTo(Bar(f, a, k).fills, last) = FillsUpTo(a.fills, last)
    <3> HIDE DEF a
    <3> QED
      BY <2>2, <2>3 DEF FillsUpTo
  <2>5. Good(k)
    BY <1>5, <1>6, <1>8, <2>3, <2>4
  <2> QED
    BY <1>2, <2>5
<1> QED
  BY <1>7, <1>8

\* A report is repeated by a later run over more bars.
LEMMA ReportsRepeat ==
    ASSUME NEW h, NEW b, NEW last, Extends(h, b, last)
    PROVE  FillsUpTo(Accounts(h)[Days].fills, last) = Accounts(b)[Days].fills
<1>1. /\ Days \in Nat /\ last \in 0..Days /\ Days \in last..Days
      /\ IsFrame(h) /\ IsFrame(b) /\ \A k \in b.index : k <= last
  BY StoreAssumption DEF Extends
<1>2. FillsUpTo(Accounts(h)[Days].fills, last) = Accounts(h)[last].fills
  BY <1>1, LaterFills
<1>3. Accounts(b)[Days] = Accounts(b)[last]
  BY <1>1, LaterFills
<1> QED
  BY <1>2, <1>3, SameFills

\* A backtest that read final bars only, against the one in hindsight.
LEMMA FinalReads ==
    ASSUME history \in Histories, NEW what \in Studies,
           NEW opens, IsTable(opens), NEW closes, IsTable(closes),
           \A s \in Symbols : DaysOf(opens[s]) \subseteq Traded(s)
                              /\ DaysOf(closes[s]) \subseteq Traded(s),
           NEW b, b = Frame(what, opens, closes), NEW h, h = Frame(what, history, history),
           b.columns = h.columns, ReadFinalBars(b)
    PROVE  Extends(h, b, LastDay(b))
<1> DEFINE last == LastDay(b)
<1>1. IsTable(history) /\ \A s \in Symbols : \A d \in 1..Days :
          history[s][d] = NoBar \/ history[s][d].open > 0
  BY SyncAssumption DEF IsTable
<1>2. IsFrame(h) /\ IsFrame(b)
  BY <1>1, FrameFacts
<1>3. /\ b.strategy = h.strategy /\ b.country = h.country
      /\ b.opens = opens /\ b.closes = closes /\ h.opens = history /\ h.closes = history
      /\ b.index = Dates(opens) \cap Dates(closes) /\ h.index = Dates(history)
      /\ h.columns = Columns(history)
  BY DEF Frame
<1>4. /\ last \in 0..Days /\ (\A d \in b.index : d <= last)
      /\ b.index # {} => last \in b.index
  <2>1. b.index \subseteq 1..Days /\ Days \in Nat
    BY <1>2, StoreAssumption DEF IsFrame
  <2> DEFINE T == b.index \cup {0}
  <2>2. T \subseteq 0..Days /\ T # {}
    BY <2>1
  <2>3. Greatest(T, Max(T))
    <3> HIDE DEF T
    <3> QED
      BY <2>1, <2>2, MaxIsGreatest
  <2>4. last = Max(T)
    BY DEF LastDay
  <2>5. last \in T /\ \A d \in T : d <= last
    BY <2>3, <2>4 DEF Greatest
  <2>6. ASSUME b.index # {} PROVE last \in b.index
    <3>1. PICK d \in b.index : TRUE
      BY <2>6
    <3>2. last # 0
      BY <2>1, <2>5, <3>1
    <3> QED
      BY <2>5, <3>2
  <2> QED
    BY <2>1, <2>2, <2>5, <2>6
<1> HIDE DEF last
<1>5. ASSUME NEW s \in b.columns, NEW d \in Traded(s), d <= last
      PROVE  /\ opens[s][d].open = history[s][d].open
             /\ d < last => closes[s][d] = history[s][d]
  BY <1>3, <1>5 DEF ReadFinalBars, Traded, last
<1>6. \A t, s : \A d \in 1..Days : d \in DaysOf(t[s]) <=> t[s][d] # NoBar
  BY DEF DaysOf
<1>7. b.columns \subseteq Symbols /\ b.index \subseteq 1..Days
  BY <1>2 DEF IsFrame
<1>8. b.index = {d \in h.index : d <= last}
  <2>1. ASSUME NEW d \in b.index PROVE d \in h.index /\ d <= last
    <3>1. PICK s \in Symbols : d \in DaysOf(opens[s])
      BY <1>3 DEF Dates
    <3> QED
      BY <1>3, <1>4, <3>1 DEF Dates, Traded
  <2>2. ASSUME NEW d \in h.index, d <= last PROVE d \in b.index
    <3>1. PICK s \in Symbols : d \in DaysOf(history[s])
      BY <1>3 DEF Dates
    <3>2. d \in 1..Days /\ d \in Traded(s) /\ history[s][d] # NoBar
      BY <3>1 DEF DaysOf, Traded
    <3>3. s \in b.columns
      BY <1>3, <3>1 DEF Columns
    <3>4. d \in Dates(opens)
      <4>1. opens[s][d].open = history[s][d].open /\ history[s][d].open > 0
        BY <1>1, <1>5, <2>2, <3>2, <3>3
      <4>2. opens[s][d] # NoBar
        BY <4>1 DEF NoBar
      <4> QED
        BY <1>6, <3>2, <4>2 DEF Dates
    <3>5. CASE d < last
      <4>1. closes[s][d] = history[s][d]
        BY <1>5, <2>2, <3>2, <3>3, <3>5
      <4>2. d \in Dates(closes)
        BY <1>6, <3>2, <4>1 DEF Dates
      <4> QED
        BY <1>3, <3>4, <4>2
    <3>6. CASE d = last
      <4>1. last # 0
        BY <3>2, <3>6
      <4>2. last \in b.index
        <5>1. b.index = {} => last = Max({0})
          <6>1. b.index = {} => b.index \cup {0} = {0}
            OBVIOUS
          <6> QED
            BY <6>1 DEF last, LastDay
        <5>2. Max({0}) = 0
          <6>1. {0} \subseteq 0..0 /\ {0} # {} /\ 0 \in Nat
            OBVIOUS
          <6>2. Greatest({0}, Max({0}))
            BY <6>1, MaxIsGreatest
          <6> QED
            BY <6>2 DEF Greatest
        <5> QED
          BY <1>4, <4>1, <5>1, <5>2
      <4> QED
        BY <3>6, <4>2
    <3> QED
      BY <1>4, <2>2, <3>2, <3>5, <3>6
  <2> QED
    BY <2>1, <2>2
<1>9. ASSUME NEW s \in Symbols, NEW d \in 1..Days, d \notin Traded(s)
      PROVE  opens[s][d] = NoBar /\ closes[s][d] = NoBar /\ history[s][d] = NoBar
  BY <1>6, <1>9 DEF Traded
<1>10. ASSUME NEW d \in b.index PROVE OpenPrices(b, d) = OpenPrices(h, d)
  <2>1. d \in 1..Days /\ d <= last
    BY <1>4, <1>7
  <2>2. \A s \in b.columns : opens[s][d].open = history[s][d].open
    BY <1>5, <1>7, <1>9, <2>1
  <2> QED
    BY <1>3, <2>2 DEF OpenPrices
<1>11. ASSUME NEW d \in b.index, d < last PROVE HistoryTo(b, d) = HistoryTo(h, d)
  <2>1. d \in 1..Days /\ last \in Int /\ Days \in Nat
    BY <1>4, <1>7, StoreAssumption
  <2>2. \A k \in 1..d : k \in 1..Days /\ k < last /\ k <= last
    BY <1>11, <2>1
  <2>3. \A k \in 1..d : k \in b.index <=> k \in h.index
    BY <1>8, <2>2
  <2>4. \A s \in b.columns : \A k \in 1..d : closes[s][k] = history[s][k]
    BY <1>5, <1>7, <1>9, <2>2
  <2>5. ASSUME NEW s \in b.columns
        PROVE  [k \in 1..d |-> IF k \in b.index THEN closes[s][k].close ELSE 0]
               = [k \in 1..d |-> IF k \in h.index THEN history[s][k].close ELSE 0]
    BY <2>3, <2>4
  <2> QED
    BY <1>3, <2>5 DEF HistoryTo
<1> QED
  BY <1>2, <1>3, <1>4, <1>8, <1>10, <1>11 DEF Extends, last

--------------------------------------------------------------------------------
\* What holds of every state, whatever the limit on the length of a walk: the
\* store and what a walk has in hand are bars of the history ...
Records ==
    /\ history \in Histories
    /\ day \in 1..Days /\ phase \in {"open", "after"}
    /\ IsTable(stored) /\ \A s \in Symbols : Held(s) \subseteq Traded(s)
    /\ SyncRecord(sync)
    /\ syncs \in 0..SyncsPerDay /\ failures \in 0..MaxFailures

InHand ==
    sync.pc # "idle" /\ sync.sym \in Symbols =>
        /\ sync.batch \in [1..Days -> Bars]
        /\ DaysOf(sync.batch) \subseteq Traded(sync.sym)

\* ... and so are the opens a backtest has read; its reports are good.
Reading ==
    /\ study \in Studies
    /\ bt.pc \in {"idle", "closes"}
    /\ IsTable(bt.opens) /\ \A s \in Symbols : DaysOf(bt.opens[s]) \subseteq Traded(s)
    /\ runs \in 0..MaxRuns

Reported ==
    /\ hindsight = Report(Frame(study, history, history), TRUE)
    /\ \A r \in reports : GoodReport(r)
    /\ ResultsAreStable

Sound == Records /\ InHand /\ Reading /\ Reported

LEMMA NoTableFacts == IsTable(NoTable) /\ \A s \in Symbols : DaysOf(NoTable[s]) = {}
BY NoBarsFacts DEF NoTable, IsTable

LEMMA SoundAtFirst == Init => Sound
<1> SUFFICES ASSUME Init PROVE Sound
  OBVIOUS
<1>1. /\ history \in Histories /\ day = FirstDay /\ phase = "open" /\ sync = Idle
      /\ syncs = 0 /\ failures = 0 /\ stored = NoTable
      /\ study \in Studies /\ bt = AtRest /\ runs = 0 /\ reports = {}
      /\ hindsight = Report(Frame(study, history, history), TRUE)
  BY DEF Init, SyncInit, StoreInit, BacktestInit, NoTable
<1>2. Records
  <2>1. /\ FirstDay \in 1..Days /\ 0 \in 0..SyncsPerDay /\ 0 \in 0..MaxFailures
        /\ SyncRecord(Idle)
    BY SyncAssumption DEF SyncRecord, Idle
  <2> QED
    BY <1>1, <2>1, NoTableFacts DEF Records, Held
<1>3. InHand
  BY <1>1 DEF InHand, Idle
<1>4. Reading
  <2>1. bt.pc = "idle" /\ bt.opens = NoTable /\ 0 \in 0..MaxRuns
    BY <1>1, BacktestAssumption DEF AtRest
  <2> QED
    BY <1>1, <2>1, NoTableFacts DEF Reading
<1>5. Reported
  BY <1>1 DEF Reported, ResultsAreStable
<1> QED
  BY <1>2, <1>3, <1>4, <1>5 DEF Sound

\* A walk that begins has nothing in hand.
LEMMA FreshHand ==
    ASSUME NEW full, NEW todo, sync' = NextSymbol(full, todo)
    PROVE  SyncRecord(sync)' /\ InHand'
<1>1. /\ SyncRecord(sync)' /\ sync'.pc \in {"idle", "walk"}
      /\ sync'.pc = "walk" => sync'.batch = NoBars
  BY NextSymbolFacts DEF SyncRecord
<1> QED
  BY <1>1, NoBarsFacts DEF InHand

LEMMA FetchedIsTraded ==
    ASSUME Records, InHand, FetchPage PROVE SyncRecord(sync)' /\ InHand'
<1> DEFINE s == sync.sym
           page == Page(s, sync.before, PageCount(sync.fetched))
           batch == [d \in 1..Days |-> IF d \in page THEN BarNow(s, d) ELSE sync.batch[d]]
<1>1. sync.pc = "walk" /\ history' = history /\ SyncRecord(sync)
  BY DEF FetchPage, Records
<1>2. \/ sync' = [sync EXCEPT !.pc = "write"]
      \/ sync' = [sync EXCEPT !.pc = IF Walked(page) THEN "write" ELSE "walk",
                              !.before = Min(page),
                              !.batch = [d \in 1..Days |->
                                  IF d \in page THEN BarNow(s, d) ELSE @[d]],
                              !.fetched = @ + Cardinality(page)]
  BY DEF FetchPage
<1>3. page \subseteq Traded(s)
  BY DEF Page, Offered, Traded
<1> HIDE DEF page
<1>4. /\ SyncRecord(sync)' /\ sync'.sym = s /\ sync'.pc # "idle"
      /\ sync'.batch \in {sync.batch, batch}
  <2> DEFINE pc == IF Walked(page) THEN "write" ELSE "walk"
  <2>1. pc \in {"write", "walk"}
    OBVIOUS
  <2> HIDE DEF pc
  <2> QED
    BY <1>1, <1>2, <2>1 DEF SyncRecord, pc
<1>5. ASSUME s \in Symbols
      PROVE  /\ batch \in [1..Days -> Bars] /\ DaysOf(batch) \subseteq Traded(s)
             /\ sync.batch \in [1..Days -> Bars] /\ DaysOf(sync.batch) \subseteq Traded(s)
  <2>1. sync.batch \in [1..Days -> Bars] /\ DaysOf(sync.batch) \subseteq Traded(s)
    BY <1>1, <1>5 DEF InHand
  <2>2. \A d \in 1..Days : history[s][d] \in Bars
    <3>1. history \in [Symbols -> [1..Days -> Bars]]
      BY SyncAssumption DEF Records
    <3> QED
      BY <1>5, <3>1
  <2>3. \A d \in 1..Days : BarNow(s, d) \in Bars
    BY <2>2 DEF BarNow, Bars
  <2>4. batch \in [1..Days -> Bars]
    BY <2>1, <2>3
  <2>5. ASSUME NEW d \in DaysOf(batch) PROVE d \in Traded(s)
    <3>1. d \in 1..Days /\ batch[d] # NoBar
      BY DEF DaysOf
    <3>2. CASE d \in page
      BY <1>3, <3>2
    <3>3. CASE d \notin page
      <4>1. sync.batch[d] # NoBar
        BY <3>1, <3>3
      <4> QED
        BY <2>1, <3>1, <4>1 DEF DaysOf
    <3> QED
      BY <3>2, <3>3
  <2> QED
    BY <2>1, <2>4, <2>5
<1> HIDE DEF batch
<1>6. InHand'
  <2>1. SUFFICES ASSUME s \in Symbols
                 PROVE  sync'.batch \in [1..Days -> Bars]
                        /\ DaysOf(sync'.batch) \subseteq Traded(s)
    BY <1>1, <1>4 DEF InHand, Traded
  <2> QED
    BY <1>4, <1>5, <2>1
<1> QED
  BY <1>4, <1>6

LEMMA WrittenIsTraded ==
    ASSUME Records, InHand, WriteBatch
    PROVE  IsTable(stored)' /\ \A s \in Symbols : Held(s)' \subseteq Traded(s)
<1>1. /\ sync.pc = "write"
      /\ stored' = [stored EXCEPT ![sync.sym] = [d \in 1..Days |->
                        IF sync.batch[d] # NoBar THEN sync.batch[d] ELSE @[d]]]
  BY DEF WriteBatch, UpsertCandles
<1>2. IsTable(stored) /\ \A s \in Symbols : Held(s) \subseteq Traded(s)
  BY DEF Records
<1>3. CASE sync.sym \notin Symbols
  <2>1. stored' = stored
    BY <1>1, <1>2, <1>3 DEF IsTable
  <2> QED
    BY <1>2, <2>1 DEF Held
<1>4. CASE sync.sym \in Symbols
  <2>1. PICK s \in Symbols : s = sync.sym
    BY <1>4
  <2> DEFINE new == [d \in 1..Days |->
                        IF sync.batch[d] # NoBar THEN sync.batch[d] ELSE stored[s][d]]
  <2>2. sync.batch \in [1..Days -> Bars] /\ DaysOf(sync.batch) \subseteq Traded(s)
    BY <1>1, <2>1 DEF InHand
  <2>3. \A d \in 1..Days : stored[s][d] \in Bars
    BY <1>2 DEF IsTable
  <2>4. new \in [1..Days -> Bars]
    BY <2>2, <2>3
  <2>5. DaysOf(new) \subseteq Traded(s)
    BY <1>2, <2>2 DEF DaysOf, Held
  <2>6. stored' = [stored EXCEPT ![s] = new]
    BY <1>1, <2>1
  <2> HIDE DEF new
  <2>7. IsTable(stored)'
    BY <1>2, <2>4, <2>6 DEF IsTable
  <2>8. \A t \in Symbols : stored'[t] = IF t = s THEN new ELSE stored[t]
    BY <1>2, <2>6 DEF IsTable
  <2>9. \A t \in Symbols : Held(t)' \subseteq Traded(t)
    BY <1>2, <2>5, <2>8 DEF Held
  <2> QED
    BY <2>7, <2>9
<1> QED
  BY <1>3, <1>4

\* The sync leaves the backtests alone, and the store in order.
LEMMA SyncSound == ASSUME Sound, SyncNext, UNCHANGED <<backtestVars, hindsight>> PROVE Sound'
<1>1. /\ history' = history
      /\ UNCHANGED <<study, bt, runs, reports, hindsight>>
      /\ Records /\ InHand /\ Reading /\ Reported
  BY DEF SyncNext, SyncStep, NextDayOrPhase, StartSync, FetchPage, WriteBatch, PageFails,
         SyncDies, backtestVars, Sound
<1>2. Reading' /\ Reported'
  BY <1>1 DEF Reading, Reported, ResultsAreStable, Traded
<1>3. /\ day \in 1..Days /\ Days \in Nat
      /\ syncs \in 0..SyncsPerDay /\ failures \in 0..MaxFailures
      /\ SyncsPerDay \in Nat /\ MaxFailures \in Nat
  BY <1>1, StoreAssumption, SyncAssumption DEF Records
<1>4. /\ day' \in 1..Days /\ phase' \in {"open", "after"}
      /\ syncs' \in 0..SyncsPerDay /\ failures' \in 0..MaxFailures
  <2>1. CASE NextDayOrPhase
    BY <1>3, <2>1 DEF NextDayOrPhase
  <2>2. ASSUME NEW full, StartSync(full)
        PROVE  /\ UNCHANGED <<day, phase, failures>> /\ syncs' \in 0..SyncsPerDay
    <3>1. /\ UNCHANGED <<day, phase, failures>>
          /\ syncs' = syncs \/ (syncs < SyncsPerDay /\ syncs' = syncs + 1)
      BY <2>2 DEF StartSync
    <3>2. syncs' \in 0..SyncsPerDay
      BY <1>3, <3>1
    <3> QED
      BY <3>1, <3>2
  <2>3. CASE SyncStep
    BY <1>1, <2>3 DEF SyncStep, FetchPage, WriteBatch, Records
  <2>4. CASE PageFails \/ SyncDies
    <3>1. failures < MaxFailures /\ failures' = failures + 1 /\ UNCHANGED <<day, phase, syncs>>
      BY <2>4 DEF PageFails, SyncDies
    <3> QED
      BY <1>1, <1>3, <3>1 DEF Records
  <2> QED
    BY <1>1, <1>3, <2>1, <2>2, <2>3, <2>4 DEF SyncNext, Records
<1>5. SyncRecord(sync)' /\ InHand'
  <2>1. CASE NextDayOrPhase
    <3>1. sync' = sync
      BY <2>1 DEF NextDayOrPhase
    <3> QED
      BY <1>1, <3>1 DEF Records, SyncRecord, InHand, Traded
  <2>2. ASSUME NEW full, StartSync(full) PROVE SyncRecord(sync)' /\ InHand'
    BY <2>2, FreshHand DEF StartSync
  <2>3. CASE FetchPage
    BY <1>1, <2>3, FetchedIsTraded
  <2>4. CASE WriteBatch
    BY <2>4, FreshHand DEF WriteBatch
  <2>5. CASE PageFails
    BY <2>5, FreshHand DEF PageFails
  <2>6. CASE SyncDies
    <3>1. sync' = Idle
      BY <2>6 DEF SyncDies
    <3> QED
      BY <3>1 DEF SyncRecord, Idle, InHand
  <2> QED
    BY <2>1, <2>2, <2>3, <2>4, <2>5, <2>6 DEF SyncNext, SyncStep
<1>6. IsTable(stored)' /\ \A s \in Symbols : Held(s)' \subseteq Traded(s)
  <2>1. CASE WriteBatch
    BY <1>1, <2>1, WrittenIsTraded
  <2>2. CASE ~WriteBatch
    <3>1. stored' = stored
      BY <2>2 DEF SyncNext, SyncStep, NextDayOrPhase, StartSync, FetchPage, PageFails, SyncDies
    <3> QED
      BY <1>1, <3>1 DEF Records, Held
  <2> QED
    BY <2>1, <2>2
<1>7. Records'
  BY <1>1, <1>4, <1>5, <1>6 DEF Records, Traded
<1> QED
  BY <1>2, <1>5, <1>7 DEF Sound

\* A backtest that reports.
LEMMA ReportSound ==
    ASSUME Sound, LoadClosesAndRun(ReadFinalBars(JustLoaded)), UNCHANGED <<syncVars, hindsight>>
    PROVE  Sound'
<1> DEFINE b == JustLoaded
           h == Frame(study, history, history)
           final == ReadFinalBars(b)
           r == Report(b, final)
<1>1. /\ bt' = AtRest /\ UNCHANGED <<study, runs>>
      /\ reports' \in {reports, reports \cup {r}}
      /\ UNCHANGED <<history, day, phase, stored, sync, syncs, failures, hindsight>>
  BY DEF LoadClosesAndRun, syncVars
<1>2. /\ Records /\ InHand /\ Reading /\ Reported
  BY DEF Sound
<1>3. Records' /\ InHand'
  BY <1>1, <1>2 DEF Records, InHand, Held, Traded, SyncRecord
<1>4. Reading'
  <2>1. bt'.pc = "idle" /\ bt'.opens = NoTable
    BY <1>1 DEF AtRest
  <2> QED
    BY <1>1, <1>2, <2>1, NoTableFacts DEF Reading
<1>5. /\ study \in Studies /\ history \in Histories
      /\ IsTable(bt.opens) /\ IsTable(stored)
      /\ \A s \in Symbols : DaysOf(bt.opens[s]) \subseteq Traded(s)
                            /\ DaysOf(stored[s]) \subseteq Traded(s)
  BY <1>2 DEF Records, Reading, Held
<1>6. b = Frame(study, bt.opens, stored)
  BY DEF JustLoaded
<1>7. IsFrame(b) /\ IsFrame(h)
  <2>1. IsTable(history)
    BY <1>5, SyncAssumption DEF IsTable
  <2> QED
    BY <1>5, <1>6, <2>1, FrameFacts
<1> HIDE DEF b, h
<1>8. /\ GoodReport(r) /\ r.fills = Accounts(b)[Days].fills /\ r.final = final
      /\ r.columns = b.columns /\ r.upTo = LastDay(b)
  BY <1>7, ReportFacts
<1>9. /\ hindsight = Report(h, TRUE)
      /\ hindsight.fills = Accounts(h)[Days].fills /\ hindsight.columns = h.columns
  BY <1>2, <1>7, ReportFacts DEF Reported, h
<1>10. r.final /\ r.columns = hindsight.columns
       => FillsUpTo(hindsight.fills, r.upTo) = r.fills
  <2>1. SUFFICES ASSUME final, b.columns = h.columns
                 PROVE  FillsUpTo(Accounts(h)[Days].fills, LastDay(b)) = Accounts(b)[Days].fills
    BY <1>8, <1>9
  <2>2. Extends(h, b, LastDay(b))
    BY <1>5, <1>6, <2>1, FinalReads DEF h
  <2> QED
    BY <2>2, ReportsRepeat
<1> HIDE DEF r
<1>11. Reported'
  <2>1. hindsight' = Report(Frame(study', history', history'), TRUE)
    BY <1>1, <1>2 DEF Reported
  <2>2. \A x \in reports' : GoodReport(x)
    BY <1>1, <1>2, <1>8 DEF Reported
  <2>3. ResultsAreStable'
    <3>1. \A x \in reports' : x.final /\ x.columns = hindsight.columns
                              => FillsUpTo(hindsight.fills, x.upTo) = x.fills
      BY <1>1, <1>2, <1>10 DEF Reported, ResultsAreStable
    <3> QED
      BY <1>1, <3>1 DEF ResultsAreStable
  <2> QED
    BY <2>1, <2>2, <2>3 DEF Reported
<1> QED
  BY <1>3, <1>4, <1>11 DEF Sound

LEMMA StartSound ==
    ASSUME Sound, StartBacktest, UNCHANGED <<syncVars, hindsight>> PROVE Sound'
<1>1. /\ runs < MaxRuns /\ runs' = runs + 1
      /\ bt' = [pc |-> "closes", opens |-> stored]
      /\ UNCHANGED <<study, reports, history, day, phase, stored, sync, syncs, failures, hindsight>>
  BY DEF StartBacktest, syncVars
<1>2. /\ Records /\ InHand /\ Reading /\ Reported
  BY DEF Sound
<1>3. Records' /\ InHand' /\ Reported'
  BY <1>1, <1>2 DEF Records, InHand, Reported, ResultsAreStable, Held, Traded, SyncRecord
<1>4. Reading'
  <2>1. runs \in 0..MaxRuns /\ MaxRuns \in Nat
    BY <1>2, BacktestAssumption DEF Reading
  <2>2. runs' \in 0..MaxRuns
    BY <1>1, <2>1
  <2>3. bt'.pc = "closes" /\ bt'.opens = stored
    BY <1>1
  <2> QED
    BY <1>1, <1>2, <2>2, <2>3 DEF Records, Reading, Held, Traded
<1> QED
  BY <1>3, <1>4 DEF Sound

LEMMA SoundNext == Sound /\ [Next]_vars => Sound'
<1> SUFFICES ASSUME Sound, [Next]_vars PROVE Sound'
  OBVIOUS
<1>1. CASE SyncNext /\ UNCHANGED <<backtestVars, hindsight>>
  BY <1>1, SyncSound
<1>2. CASE BacktestNext /\ UNCHANGED <<syncVars, hindsight>>
  BY <1>2, StartSound, ReportSound DEF BacktestNext
<1>3. CASE UNCHANGED vars
  <2>1. UNCHANGED <<history, day, phase, stored, sync, syncs, failures, study, bt, runs,
                    reports, hindsight>>
    BY <1>3 DEF vars, syncVars, backtestVars
  <2> QED
    BY <2>1 DEF Sound, Records, InHand, Reading, Reported, ResultsAreStable, Held, Traded,
                SyncRecord
<1> QED
  BY <1>1, <1>2, <1>3 DEF Next

LEMMA SoundAlways == Spec => []Sound
BY SoundAtFirst, SoundNext, PTL DEF Spec

--------------------------------------------------------------------------------
\* The store, the sync and the backtest keep their types, whatever fails or dies.
THEOREM ResearchTyped == Spec => []TypeOK
<1>1. Sound => TypeOK
  BY DEF Sound, Records, Reading, TypeOK, SyncRecord, Held, Traded
<1> QED
  BY <1>1, SoundAlways, PTL

\* With any rates, slippage, prices and weights, a run never borrows, never
\* sells short, and holds whole shares on the KRX (engine._rebalance).
THEOREM NeverLeveraged == Spec => []NoLeverage
<1>1. Sound => NoLeverage
  BY DEF Sound, Reported, GoodReport, GoodBar, NoLeverage, Positions
<1> QED
  BY <1>1, SoundAlways, PTL

\* With any orders a rebalance is made of, the account is worth no more after it.
THEOREM RebalancingCosts == Spec => []TradesOnlyCost
<1>1. Sound => TradesOnlyCost
  BY DEF Sound, Reported, GoodReport, GoodBar, TradesOnlyCost
<1> QED
  BY <1>1, SoundAlways, PTL

\* Whatever history is missing, no strategy targets more than the account, or short.
THEOREM WeightsWithinWhole == Spec => []WholeAccountAtMost
<1>1. Sound => WholeAccountAtMost
  <2> SUFFICES ASSUME Sound PROVE WholeAccountAtMost
    OBVIOUS
  <2>1. \A r \in reports : \A bar \in r.bars : IsWeights(bar.weights)
    BY DEF Sound, Reported, GoodReport, GoodBar
  <2>2. \A w : IsWeights(w) => (\A s \in DOMAIN w : w[s] >= 0) /\ SumFunction(w) <= Whole
    BY DEF IsWeights
  <2> QED
    BY <2>1, <2>2 DEF WholeAccountAtMost
<1> QED
  BY <1>1, SoundAlways, PTL

\* However the orders are sorted, a rebalance sells what is not targeted, down
\* to what is too small to trade or has no price that day.
THEOREM UntargetedIsSold == Spec => []NothingUntargeted
<1>1. Sound => NothingUntargeted
  BY DEF Sound, Reported, GoodReport, GoodBar, NothingUntargeted
<1> QED
  BY <1>1, SoundAlways, PTL

\* Bars that come later change no fill that was reported on final ones: no
\* decision is made on a close it could not know (engine.run).
THEOREM LaterBarsRewriteNothing == Spec => []ResultsAreStable
<1>1. Sound => ResultsAreStable
  BY DEF Sound, Reported
<1> QED
  BY <1>1, SoundAlways, PTL

================================================================================
