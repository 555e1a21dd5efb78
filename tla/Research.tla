--------------------------------- MODULE Research ---------------------------------
(***************************************************************************)
(* The research side of the system: the nightly sync fills the store while *)
(* `tqt backtest` may read it, in separate processes over one database.    *)
(***************************************************************************)
EXTENDS CandleSync, Backtest

VARIABLE hindsight   \* history: what the study reports on every final bar

vars == <<syncVars, backtestVars, hindsight>>

Init ==
    /\ SyncInit
    /\ BacktestInit
    /\ hindsight = Report(Frame(study, history, history), TRUE)

\* What a backtest read is final: no bar was missing when it read, and only
\* the close of its last day may still have been moving.
ReadFinalBars(f) ==
    \A s \in f.columns : \A d \in DaysOf(history[s]) :
        d <= LastDay(f) => /\ f.opens[s][d].open = history[s][d].open
                           /\ d < LastDay(f) => f.closes[s][d] = history[s][d]

BacktestNext == StartBacktest \/ LoadClosesAndRun(ReadFinalBars(JustLoaded))

Next ==
    \/ SyncNext /\ UNCHANGED <<backtestVars, hindsight>>
    \/ BacktestNext /\ UNCHANGED <<syncVars, hindsight>>

\* The timer starts a sync each day, and a running sync goes on unless killed.
Fairness ==
    /\ WF_vars(StartSync(FALSE) /\ UNCHANGED <<backtestVars, hindsight>>)
    /\ WF_vars(SyncStep /\ UNCHANGED <<backtestVars, hindsight>>)

Spec == Init /\ [][Next]_vars /\ Fairness

TypeOK ==
    /\ history \in Histories
    /\ day \in 1..Days
    /\ phase \in {"open", "after"}
    /\ \A s \in Symbols : DaysOf(stored[s]) \subseteq DaysOf(history[s])
    /\ sync.pc \in {"idle", "walk", "write"}
    /\ bt.pc \in {"idle", "closes"}
    /\ syncs \in 0..SyncsPerDay /\ failures \in 0..MaxFailures /\ runs \in 0..MaxRuns

--------------------------------------------------------------------------------
FillsUpTo(fills, d) == {f \in fills : f.day <= d}

\* A result is not rewritten by later data: a backtest of the same symbols on
\* every final bar repeats each fill it reported.  So no decision uses a close
\* it could not know, a bar still forming decides nothing, and a decision on
\* the last bar is not filled (engine.run).
ResultsAreStable ==
    \A r \in reports :
        r.final /\ r.columns = hindsight.columns
        => FillsUpTo(hindsight.fills, r.upTo) = r.fills

================================================================================
