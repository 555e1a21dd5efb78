-------------------------------- MODULE Strategies --------------------------------
(***************************************************************************)
(* The four strategies (strategy/base.py, strategy/momentum.py): weights   *)
(* for a sleeve from the closes up to the day of the decision.             *)
(*                                                                         *)
(* A series is a sequence of closes, oldest first, 0 where the symbol has  *)
(* no bar; `closes` gives the series of each column of the frame.  Weights *)
(* are in parts of Whole, a multiple of every number of assets they are    *)
(* divided by; returns are in parts of PriceScale, a multiple of every     *)
(* price, so both are exact.                                               *)
(***************************************************************************)
EXTENDS Integers, Sequences, FiniteSets, FiniteSetsExt, SequencesExt, Functions

CONSTANTS Risk,          \* the sleeve's risk symbols
          Safe,          \* its safe symbols, a sequence
          Whole,         \* a weight of 1
          PriceScale,    \* a return of 1
          SafeLookback,  \* 126 bars
          Lookback,      \* dual momentum's lookback
          Floor,         \* its min_momentum
          TopN,          \* top_n
          SmaDays,       \* Faber's sma_days
          Terms          \* 13612W: pairs of a lookback and its weight

ASSUME StrategyAssumption ==
    /\ IsFiniteSet(Risk) /\ Risk \subseteq Nat
    /\ Safe \in Seq(Nat)
    /\ {Whole, PriceScale, TopN, SmaDays} \subseteq Nat \ {0}
    /\ {SafeLookback, Lookback} \subseteq Nat
    /\ Floor \in Int
    /\ IsFiniteSet(Terms) /\ Terms \subseteq Nat \X Nat

NoWeights == [s \in {} |-> 0]

--------------------------------------------------------------------------------
\* dropna: the positions that have a close, and the close n of them back.
Known(series) == {k \in DOMAIN series : series[k] # 0}
Back(series, n) ==
    series[CHOOSE k \in Known(series) : Cardinality({j \in Known(series) : j > k}) = n]

\* total_return: known when the history is longer than the lookback.
HasReturn(series, lookback) == Cardinality(Known(series)) > lookback
TotalReturn(series, lookback) ==
    ((PriceScale * Back(series, 0)) \div Back(series, lookback)) - PriceScale

\* momentum_13612w, without the common divisor.
HasMomentum(series) == \A t \in Terms : HasReturn(series, t[1])
Momentum(series) == SumFunction([t \in Terms |-> t[2] * TotalReturn(series, t[1])])

\* Reverse sort of (score, symbol).
Beats(score, a, b) == score[a] > score[b] \/ (score[a] = score[b] /\ a > b)
Top(score, n) ==
    {s \in DOMAIN score : Cardinality({r \in DOMAIN score : Beats(score, r, s)}) < n}

Equal(symbols, each) == [s \in symbols |-> each]

\* _safe_weights: the best safe asset, or the first when none has a history.
SafeWeights(closes, weight) ==
    LET held == {i \in DOMAIN Safe : Safe[i] \in DOMAIN closes}
        scored == {s \in ToSet(Safe) \cap DOMAIN closes : HasReturn(closes[s], SafeLookback)}
        score == [s \in scored |-> TotalReturn(closes[s], SafeLookback)]
    IN  IF weight <= 0 \/ held = {} THEN NoWeights
        ELSE IF scored = {} THEN Equal({Safe[Min(held)]}, weight)
        ELSE Equal(Top(score, 1), weight)

\* weights.update: the safe asset's weight wins.
Updated(weights, safe) ==
    [s \in DOMAIN safe \cup DOMAIN weights |->
        IF s \in DOMAIN safe THEN safe[s] ELSE weights[s]]

\* Mutant of WithSafe: the safe asset gets every slot.
WithSafeWhole(weights, closes) == Updated(weights, SafeWeights(closes, Whole))

WithSafe(weights, closes) ==
    Updated(weights, SafeWeights(closes, Whole - SumFunction(weights)))

--------------------------------------------------------------------------------
BuyAndHold(closes) ==
    LET available == {s \in Risk \cap DOMAIN closes : Known(closes[s]) # {}}
    IN  IF available = {} THEN NoWeights
        ELSE Equal(available, Whole \div Cardinality(available))

\* Absolute momentum: a top asset at or under the floor leaves its slot to the safe one.
DualMomentum(closes) ==
    LET scored == {s \in Risk \cap DOMAIN closes : HasReturn(closes[s], Lookback)}
        score == [s \in scored |-> TotalReturn(closes[s], Lookback)]
        picked == {s \in Top(score, TopN) : score[s] > Floor}
    IN  IF scored = {} THEN NoWeights
        ELSE WithSafe(Equal(picked, Whole \div TopN), closes)

\* _breadth_threshold: n/3 rounded, at least 1.
Breadth(n) == Max({1, (2 * n + 3) \div 6})

VAA(closes) ==
    LET scored == {s \in Risk \cap DOMAIN closes : HasMomentum(closes[s])}
        score == [s \in scored |-> Momentum(closes[s])]
        falling == {s \in scored : score[s] <= 0}
        picked == Top(score, TopN)
    IN  IF scored = {} THEN NoWeights
        ELSE IF Cardinality(falling) >= Breadth(Cardinality(scored))
        THEN SafeWeights(closes, Whole)
        ELSE Equal(picked, Whole \div Cardinality(picked))

\* An asset is held above its moving average; each column has a slot.
Faber(closes) ==
    LET candidates == Risk \cap DOMAIN closes
        average(s) == SumFunction([n \in 0..(SmaDays - 1) |-> Back(closes[s], n)])
        inTrend == {s \in candidates : /\ HasReturn(closes[s], SmaDays - 1)
                                       /\ SmaDays * Back(closes[s], 0) > average(s)}
    IN  IF candidates = {} THEN NoWeights
        ELSE WithSafe(Equal(inTrend, Whole \div Cardinality(candidates)), closes)

Strategies == {"buy-and-hold", "dual-momentum", "vaa", "faber"}

TargetWeights(strategy, closes) ==
    CASE strategy = "buy-and-hold"  -> BuyAndHold(closes)
      [] strategy = "dual-momentum" -> DualMomentum(closes)
      [] strategy = "vaa"           -> VAA(closes)
      [] strategy = "faber"         -> Faber(closes)

================================================================================
