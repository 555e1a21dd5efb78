--------------------------------- MODULE Backtest ---------------------------------
(***************************************************************************)
(* The event-driven backtester (backtest/engine.py), on the candles the    *)
(* store held when `tqt backtest` read them: two reads, opens then closes. *)
(* On each bar it fills yesterday's decision at the open, one symbol after *)
(* the other, and decides on the closes so far.  The run itself reads and  *)
(* writes nothing that is shared, so it is one step.                       *)
(*                                                                         *)
(* Cash is counted in 1/Den^2 of the unit of a price, a fill price in      *)
(* 1/Den; a quantity in the smallest fraction, Share of them to a share.   *)
(***************************************************************************)
EXTENDS Costs, CandleStore, Strategies

CONSTANTS InitialCash,  \* initial_cash
          Share,        \* smallest quantities in a whole share
          Dust,         \* dust_threshold
          Band,         \* rebalance_band, in parts of Den
          Etfs,         \* etf_symbols
          Warmup,       \* warmup_days, by strategy
          MonthOf,      \* the month of a day
          YearOf,       \* and its year
          Studies,      \* bound: the strategies and countries a study is made of
          MaxRuns       \* bound: backtests run

ASSUME BacktestAssumption ==
    /\ {InitialCash, Share} \subseteq Nat \ {0}
    /\ {Dust, Band, MaxRuns} \subseteq Nat
    /\ Etfs \subseteq Symbols
    /\ Studies \subseteq [strategy : Strategies, country : Countries]
    /\ Warmup \in [Strategies -> Nat]
    /\ \A period \in {MonthOf, YearOf} :
           /\ period \in [1..Days -> Nat]
           /\ \A d, e \in 1..Days : d <= e => period[d] <= period[e]
    /\ Risk \cup ToSet(Safe) = Symbols

VARIABLES study,  \* what is backtested, once and again later
          bt,     \* the backtest that runs: the opens it has read
          runs,   \* backtests started
          reports \* history: what the backtests reported

backtestVars == <<study, bt, runs, reports>>

NoTable == [s \in Symbols |-> NoBars]
AtRest == [pc |-> "idle", opens |-> NoTable]

BacktestInit ==
    /\ study \in Studies
    /\ bt = AtRest
    /\ runs = 0
    /\ reports = {}

--------------------------------------------------------------------------------
\* Backtester: both frames cut to their common dates and columns.
Frame(what, opens, closes) ==
    [strategy |-> what.strategy, country |-> what.country, opens |-> opens, closes |-> closes,
     index |-> Dates(opens) \cap Dates(closes), columns |-> Columns(opens) \cap Columns(closes)]

\* opens.loc[ts]: 0 for what has no bar that day.
OpenPrices(f, d) == [s \in Symbols |-> IF s \in f.columns THEN f.opens[s][d].open ELSE 0]

\* Mutant of HistoryTo: the strategy sees the whole frame.
HistoryBeyond(f, d) ==
    [s \in f.columns |->
        [k \in 1..Days |-> IF k \in f.index THEN f.closes[s][k].close ELSE 0]]

\* closes.iloc[: i + 1], and every column the frame has.
HistoryTo(f, d) ==
    [s \in f.columns |-> [k \in 1..d |-> IF k \in f.index THEN f.closes[s][k].close ELSE 0]]

\* rebalance_dates: the last day of its month, or of its year, in the index.
RebalanceDay(f, d) ==
    LET period == IF f.strategy = "buy-and-hold" THEN YearOf ELSE MonthOf
    IN  \A e \in f.index : e > d => period[e] # period[d]

\* A decision needs a later bar, the warm-up behind it and a rebalance day.
Decides(f, d) ==
    /\ \E e \in f.index : e > d
    /\ Cardinality({e \in f.index : e <= d}) > Warmup[f.strategy]
    /\ RebalanceDay(f, d)

\* Today's close: the decision for tomorrow.
Decision(f, d) == IF Decides(f, d) THEN TargetWeights(f.strategy, HistoryTo(f, d)) ELSE NoWeights

--------------------------------------------------------------------------------
\* The account of a run: its cash, its positions, its orders for the next open
\* and its fills.  `bars` is history: what each bar did, for the properties.
Funded == [cash |-> InitialCash, pos |-> [s \in Symbols |-> 0], pending |-> NoWeights,
           fills |-> {}, bars |-> {}]

\* _equity: a symbol without a price counts for nothing.
Equity(a, prices) ==
    a.cash + Den * Den * SumFunction([s \in Symbols |-> a.pos[s] * prices[s]])

\* Decimal(int(raw)) unless fractional.
Lots(country, qty) == IF country = "US" THEN qty ELSE (qty \div Share) * Share

\* What the weight of a symbol buys at today's open; 0 for what is held and not
\* targeted, and for what cannot be traded.
Desired(country, prices, equity, targets, s) ==
    IF s \in DOMAIN targets /\ prices[s] > 0 /\ targets[s] > 0
    THEN Lots(country, (equity * targets[s]) \div (Whole * prices[s] * Den * Den))
    ELSE 0

\* A rebalance, planned at the open.
Plan(country, d, prices, a) ==
    LET equity == Equity(a, prices)
    IN  [country |-> country, day |-> d, prices |-> prices, equity |-> equity,
         want |-> [s \in Symbols |-> Desired(country, prices, equity, a.pending, s)]]

\* Mutant of Concerned: what is held and not targeted is forgotten.
Targeted(a) == DOMAIN a.pending

Concerned(a) == DOMAIN a.pending \cup {s \in Symbols : a.pos[s] > 0}

\* Sells first: sorted by the change of quantity.
InOrder(p, a, s, t) ==
    LET ds == p.want[s] - a.pos[s]
        dt == p.want[t] - a.pos[t]
    IN  ds < dt \/ (ds = dt /\ s < t)

FillPrice(side, country, price) ==
    price * (IF side = "BUY" THEN Den + Slippage[country] ELSE Den - Slippage[country])

Spend(country, fill, qty, etf) ==
    fill * qty * Den + Total(CostOf("BUY", country, fill, qty, etf))

\* Mutant of Proceeds: the costs of a sale are paid out.
ProceedsAndCosts(country, fill, qty, etf) ==
    fill * qty * Den + Total(CostOf("SELL", country, fill, qty, etf))

Proceeds(country, fill, qty, etf) ==
    fill * qty * Den - Total(CostOf("SELL", country, fill, qty, etf))

\* Mutant of Affordable: commission and FX are left out of the price.
AffordableGross(country, fill, cash) == cash \div (fill * Den)

\* max_qty: cash over the price with commission and FX.
Affordable(country, fill, cash) ==
    (cash * Den) \div (fill * (Den + Commission[country]) * (Den + FxRate(country)))

\* The quantity bought: what is wanted, or what the cash allows, or nothing.
Bought(country, fill, qty, etf, cash) ==
    LET less == Lots(country, Affordable(country, fill, cash))
    IN  IF Spend(country, fill, qty, etf) <= cash THEN qty
        ELSE IF less <= 0 \/ fill * less < Dust * Den THEN 0 ELSE less

\* Too small to trade: dust, or inside the band of a position already held.
TooSmall(p, held, s, qty) ==
    LET notional == p.prices[s] * qty
    IN  \/ notional < Dust
        \/ p.equity > 0 /\ notional * Den * Den * Den < Band * p.equity /\ held > 0

\* One order of the rebalance.
AfterBuy(p, a, s, qty) ==
    LET fill == FillPrice("BUY", p.country, p.prices[s])
        bought == Bought(p.country, fill, qty, s \in Etfs, a.cash)
    IN  IF bought = 0 THEN a
        ELSE [a EXCEPT !.cash = @ - Spend(p.country, fill, bought, s \in Etfs),
                       !.pos[s] = @ + bought,
                       !.fills = @ \cup {[day |-> p.day, sym |-> s, side |-> "BUY",
                                          qty |-> bought]}]

AfterSale(p, a, s, qty) ==
    LET fill == FillPrice("SELL", p.country, p.prices[s])
        sold == Min({qty, a.pos[s]})
    IN  IF sold <= 0 THEN a
        ELSE [a EXCEPT !.cash = @ + Proceeds(p.country, fill, sold, s \in Etfs),
                       !.pos[s] = @ - sold,
                       !.fills = @ \cup {[day |-> p.day, sym |-> s, side |-> "SELL",
                                          qty |-> sold]}]

AfterOrder(p, a, s) ==
    LET delta == p.want[s] - a.pos[s]
        size == IF delta < 0 THEN -delta ELSE delta
    IN  IF delta = 0 \/ p.prices[s] = 0 \/ TooSmall(p, a.pos[s], s, size) THEN a
        ELSE IF delta > 0 THEN AfterBuy(p, a, s, size) ELSE AfterSale(p, a, s, size)

\* The orders, one after the other: the last one on what the others left.
Ordered(p, a) ==
    MapThenFoldSet(LAMBDA s, b : AfterOrder(p, b, s), a, LAMBDA s : s,
                   LAMBDA todo : CHOOSE s \in todo : \A t \in todo \ {s} : InOrder(p, a, t, s),
                   Concerned(a))

\* Yesterday's decision meets today's open.
Rebalanced(p, a) == IF DOMAIN a.pending = {} THEN a ELSE Ordered(p, a)

\* History: what a bar did, for the properties.
Noted(p, before, after, weights) ==
    [cash |-> after.cash, pos |-> after.pos,
     equity |-> <<p.equity, Equity(after, p.prices)>>,
     weights |-> weights,
     left |-> {s \in Symbols : /\ DOMAIN before.pending # {}
                               /\ p.want[s] = 0 /\ after.pos[s] > 0
                               /\ p.prices[s] > 0
                               /\ ~TooSmall(p, after.pos[s], s, after.pos[s])}]

\* One bar of the loop: the open, then the close.
Bar(f, a, d) ==
    LET plan == Plan(f.country, d, OpenPrices(f, d), a)
        traded == Rebalanced(plan, a)
        weights == Decision(f, d)
    IN  [traded EXCEPT !.pending = weights,
                       !.bars = @ \cup {Noted(plan, a, traded, weights)}]

\* The loop of `run`: the account after each day, changed on those of the index.
Accounts(f) ==
    LET after[d \in 0..Days] == IF d = 0 THEN Funded
                                ELSE IF d \in f.index THEN Bar(f, after[d - 1], d)
                                ELSE after[d - 1]
    IN  after

--------------------------------------------------------------------------------
LastDay(f) == Max(f.index \cup {0})

Report(f, final) ==
    LET a == Accounts(f)[Days]
    IN  [final |-> final, country |-> f.country, columns |-> f.columns, upTo |-> LastDay(f),
         fills |-> a.fills, bars |-> a.bars]

\* `tqt backtest` starts and reads its opens.
StartBacktest ==
    /\ bt.pc = "idle"
    /\ runs < MaxRuns
    /\ runs' = runs + 1
    /\ bt' = [pc |-> "closes", opens |-> stored]
    /\ UNCHANGED <<study, reports>>

\* The opens that were read, with the closes that are read now.
JustLoaded == Frame(study, bt.opens, stored)

\* Nothing stored: exit.  `final` is a history: what was read was final.
LoadClosesAndRun(final) ==
    /\ bt.pc = "closes"
    /\ bt' = AtRest
    /\ reports' = IF Dates(stored) = {} \/ Dates(bt.opens) = {} THEN reports
                  ELSE reports \cup {Report(JustLoaded, final)}
    /\ UNCHANGED <<study, runs>>

--------------------------------------------------------------------------------
\* The engine never borrows and never sells short, whatever the rates, and a
\* KRX position is whole shares (_rebalance scales a buy down to its cash).
NoLeverage ==
    \A r \in reports : \A bar \in r.bars :
        /\ bar.cash >= 0
        /\ \A s \in Symbols : /\ bar.pos[s] >= 0
                              /\ r.country = "KR" => bar.pos[s] % Share = 0

\* A rebalance never makes money: valued at the open its orders are filled
\* around, the account is worth no more after it (slippage and costs are paid).
TradesOnlyCost ==
    \A r \in reports : \A bar \in r.bars : bar.equity[2] <= bar.equity[1]

\* "Weights ... should sum to <= 1" (strategy/base.py:11): whatever history is
\* missing, the safe asset is given the slots that were not filled and no more,
\* and nothing is targeted short.
WholeAccountAtMost ==
    \A r \in reports : \A bar \in r.bars :
        /\ \A s \in DOMAIN bar.weights : bar.weights[s] >= 0
        /\ SumFunction(bar.weights) <= Whole

\* When a rebalance is over, what was held and not targeted is sold, down to
\* what is too small to trade or has no price today.
NothingUntargeted == \A r \in reports : \A bar \in r.bars : bar.left = {}

================================================================================
