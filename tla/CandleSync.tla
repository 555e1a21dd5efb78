-------------------------------- MODULE CandleSync --------------------------------
(***************************************************************************)
(* The nightly sync (data/ingest.py, the client's iter_candles): it walks  *)
(* each symbol's history backwards page by page, as far as a bar it holds, *)
(* and writes what it read in one transaction.                             *)
(*                                                                         *)
(* Toss's history is external: `history` is what the bars will be once     *)
(* their day is over, and a bar read during its session has not its close. *)
(***************************************************************************)
EXTENDS CandleStore, Sequences, SequencesExt

CONSTANTS Histories,     \* the histories Toss may come to hold
          FirstDay,      \* the day the system is installed
          PageSize,      \* MAX_CANDLES_PER_CALL
          MaxBars,       \* max_bars
          SyncsPerDay,   \* bound: syncs started in a day, until the last session is over
          MaxFailures    \* bound: pages that fail and crashes

Bars == [open : Nat, close : Nat]

\* A price is never zero.
ASSUME SyncAssumption ==
    /\ \A h \in Histories :
           /\ h \in [Symbols -> [1..Days -> Bars]]
           /\ \A s \in Symbols : \A d \in 1..Days : h[s][d] = NoBar \/ h[s][d].open > 0
    /\ FirstDay \in 1..Days
    /\ PageSize \in Nat \ {0}
    /\ MaxBars \in Nat \ {0}
    /\ SyncsPerDay \in Nat \ {0}
    /\ MaxFailures \in Nat

VARIABLES history,   \* external: the final bars
          day,       \* today
          phase,     \* of today: its session is "open", or it is "after" it
          sync,      \* the sync process
          syncs,     \* syncs started today
          failures   \* failures so far

syncVars == <<history, day, phase, stored, sync, syncs, failures>>

Idle == [pc |-> "idle", full |-> FALSE, todo |-> <<>>, sym |-> 0, stopAt |-> 0,
         before |-> 0, batch |-> NoBars, fetched |-> 0]

SyncInit ==
    /\ StoreInit
    /\ history \in Histories
    /\ day = FirstDay
    /\ phase = "open"
    /\ sync = Idle
    /\ syncs = 0
    /\ failures = 0

--------------------------------------------------------------------------------
\* Days Toss has a bar for (the night before a session is as the evening after
\* the last one), and the bar as it is now: until the close, its
\* close is the last trade, which may be the first.
Offered(s) == {d \in DaysOf(history[s]) : d <= day}
BarNow(s, d) == IF d = day /\ phase = "open"
                THEN [open |-> history[s][d].open, close |-> history[s][d].open]
                ELSE history[s][d]

\* candles: the newest days before the cursor, as many as asked for.
Page(s, before, count) ==
    LET older == {d \in Offered(s) : d < before}
    IN  {d \in older : Cardinality({e \in older : e > d}) < count}

\* nextBefore: none when the page reached the first bar.
LastPage(s, page) == ~\E d \in Offered(s) : d < Min(page)

PageCount(fetched) == Min({PageSize, MaxBars - fetched})

NextDayOrPhase ==
    /\ \/ phase = "open" /\ phase' = "after" /\ day' = day
          /\ UNCHANGED syncs
       \/ phase = "after" /\ day < Days /\ phase' = "open" /\ day' = day + 1 /\ syncs' = 0
    /\ UNCHANGED <<history, stored, sync, failures>>

--------------------------------------------------------------------------------
Over == day = Days /\ phase = "after"

\* Mutant of StopAt: it stops one bar early, above the newest bar held.
StopAboveNewest(s, full) ==
    IF full \/ Newest(s) = 0 THEN 0 ELSE Newest(s) + 1

\* 0 when the walk must go to the end.
StopAt(s, full) == IF full THEN 0 ELSE Newest(s)

\* The walk of the next symbol starts, or the sync is over.  Only a sync writes
\* the bars, so the newest one held can be read when the last write is done.
NextSymbol(full, todo) ==
    IF todo = <<>> THEN Idle
    ELSE [pc |-> "walk", full |-> full, todo |-> Tail(todo), sym |-> Head(todo),
          stopAt |-> StopAt(Head(todo), full), before |-> Days + 1,
          batch |-> NoBars, fetched |-> 0]

\* Mutant of StartSync: the timer fires without end.
StartSyncAgain(full) ==
    /\ sync.pc = "idle"
    /\ syncs' = syncs + 1
    /\ sync' = NextSymbol(full, SetToSortSeq(Symbols, <))
    /\ UNCHANGED <<history, day, phase, stored, failures>>

\* `tqt data sync`, by the timer or by hand; --full walks everything again.
StartSync(full) ==
    /\ sync.pc = "idle"
    /\ IF Over THEN UNCHANGED syncs ELSE syncs < SyncsPerDay /\ syncs' = syncs + 1
    /\ sync' = NextSymbol(full, SetToSortSeq(Symbols, <))
    /\ UNCHANGED <<history, day, phase, stored, failures>>

\* The walk ends at a bar it holds, at the first bar, or at max_bars.
Walked(page) ==
    \/ sync.stopAt # 0 /\ Min(page) <= sync.stopAt
    \/ LastPage(sync.sym, page)
    \/ sync.fetched + Cardinality(page) >= MaxBars

\* Mutant of FetchPage: a page is written as soon as it is read.
FetchPageAndWrite ==
    /\ sync.pc = "walk"
    /\ LET page == Page(sync.sym, sync.before, PageCount(sync.fetched))
           batch == [d \in 1..Days |-> IF d \in page THEN BarNow(sync.sym, d) ELSE NoBar]
       IN  /\ UpsertCandles(sync.sym, batch)
           /\ sync' = IF page = {} \/ Walked(page) THEN NextSymbol(sync.full, sync.todo)
                      ELSE [sync EXCEPT !.before = Min(page),
                                        !.fetched = @ + Cardinality(page)]
    /\ UNCHANGED <<history, day, phase, syncs, failures>>

FetchPage ==
    /\ sync.pc = "walk"
    /\ LET page == Page(sync.sym, sync.before, PageCount(sync.fetched))
       IN  \/ page = {} /\ sync' = [sync EXCEPT !.pc = "write"]
           \/ /\ page # {}
              /\ sync' = [sync EXCEPT !.pc = IF Walked(page) THEN "write" ELSE "walk",
                                      !.before = Min(page),
                                      !.batch = [d \in 1..Days |->
                                          IF d \in page THEN BarNow(sync.sym, d) ELSE @[d]],
                                      !.fetched = @ + Cardinality(page)]
    /\ UNCHANGED <<history, day, phase, stored, syncs, failures>>

\* A TossError drops what was read of this symbol; the next one goes on.
PageFails ==
    /\ sync.pc = "walk"
    /\ failures < MaxFailures
    /\ failures' = failures + 1
    /\ sync' = NextSymbol(sync.full, sync.todo)
    /\ UNCHANGED <<history, day, phase, stored, syncs>>

WriteBatch ==
    /\ sync.pc = "write"
    /\ UpsertCandles(sync.sym, sync.batch)
    /\ sync' = NextSymbol(sync.full, sync.todo)
    /\ UNCHANGED <<history, day, phase, syncs, failures>>

\* Killed, or any other exception: the whole run ends.
SyncDies ==
    /\ sync.pc # "idle"
    /\ failures < MaxFailures
    /\ failures' = failures + 1
    /\ sync' = Idle
    /\ UNCHANGED <<history, day, phase, stored, syncs>>

SyncStep == FetchPage \/ WriteBatch

SyncNext ==
    \/ NextDayOrPhase
    \/ \E full \in BOOLEAN : StartSync(full)
    \/ SyncStep
    \/ PageFails
    \/ SyncDies

--------------------------------------------------------------------------------
Complete(s) == stored[s] = history[s]

\* The store has no hole: a day between two stored bars of a symbol, on which
\* it traded, is stored.  A hole would stay, since the next sync stops at the
\* newest bar (sync_symbol reads every page before it writes one).
NoHoles ==
    \A s \in Symbols :
        \A d, e \in DaysOf(stored[s]) : \A b \in d..e :
            history[s][b] # NoBar => stored[s][b] # NoBar

\* Only the newest stored bar can be one that was read during its session:
\* the next sync reads it again before it stores a newer one.
OnlyNewestIsPartial ==
    \A s \in Symbols : \A d \in DaysOf(stored[s]) :
        d < Newest(s) => stored[s][d] = history[s][d]

\* Once the last session is over the timer's syncs bring the store up to date,
\* whatever failed before.
SyncCatchesUp == Over ~> \A s \in Symbols : Complete(s)

================================================================================
