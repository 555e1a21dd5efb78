------------------------------- MODULE CandleStore -------------------------------
(***************************************************************************)
(* The table of daily candles (data/store.py): one bar per symbol and day, *)
(* written by the sync and read by the plan and the backtester.  Of a bar  *)
(* only the open and the close are used.                                   *)
(***************************************************************************)
EXTENDS Integers, FiniteSets, FiniteSetsExt

CONSTANTS Symbols,   \* numbered in the order of their codes
          Days       \* bound: trading days

ASSUME StoreAssumption ==
    /\ IsFiniteSet(Symbols) /\ Symbols \subseteq Nat
    /\ Days \in Nat \ {0}

VARIABLE stored   \* table candles: the bar of a symbol on a day

NoBar == [open |-> 0, close |-> 0]
NoBars == [d \in 1..Days |-> NoBar]

StoreInit == stored = [s \in Symbols |-> NoBars]

DaysOf(bars) == {d \in 1..Days : bars[d] # NoBar}

\* candle_range: the newest day held, 0 when the symbol has no bar.
Newest(s) == Max(DaysOf(stored[s]) \cup {0})

\* One transaction: a bar of the batch replaces the stored one.
UpsertCandles(s, batch) ==
    stored' = [stored EXCEPT ![s] = [d \in 1..Days |->
                  IF batch[d] # NoBar THEN batch[d] ELSE @[d]]]

\* The index of a frame: every day some symbol has a bar.
Dates(table) == UNION {DaysOf(table[s]) : s \in Symbols}

\* Its columns: every symbol with a bar on some day.
Columns(table) == {s \in Symbols : DaysOf(table[s]) # {}}

================================================================================
