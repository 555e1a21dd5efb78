---------------------------------- MODULE Costs ----------------------------------
(***************************************************************************)
(* What one fill costs (backtest/costs.py), for the paper broker and the   *)
(* backtester, which both take slippage out of the price and call cost_of  *)
(* with include_slippage=False.                                            *)
(*                                                                         *)
(* A rate is a number of parts in Den, so a cost is exact in 1/Den of the  *)
(* unit its price is in: the code's Decimals are exact in the same way.    *)
(***************************************************************************)
EXTENDS Integers

CONSTANTS Den,           \* a rate of Den is 100%
          Commission,    \* commission_rate, by country
          Slippage,      \* slippage_rate, by country
          StockTax,      \* kr_stock_sell_tax
          EtfTax,        \* kr_etf_sell_tax
          SecFee,        \* us_sec_fee_rate
          TafPerShare,   \* us_taf_per_share
          TafCap,        \* US_TAF_CAP
          FxSpread,      \* fx_spread_rate
          ChargeFx       \* charge_fx_on_us_trades

Countries == {"KR", "US"}

\* __post_init__ refuses negative rates.  The rates of a sale together stay
\* under 100% as long as prices are at least one unit.
ASSUME CostsAssumption ==
    /\ Den \in Nat \ {0}
    /\ Commission \in [Countries -> Nat]
    /\ Slippage \in [Countries -> 0..(Den - 1)]
    /\ StockTax \in Nat /\ EtfTax \in Nat /\ SecFee \in Nat
    /\ TafPerShare \in Nat /\ TafCap \in Nat /\ FxSpread \in Nat
    /\ ChargeFx \in BOOLEAN
    /\ \A c \in Countries :
           Commission[c] + StockTax + EtfTax + SecFee + TafPerShare + FxSpread <= Den

NoCost == [commission |-> 0, tax |-> 0, regulatory |-> 0, fx |-> 0]

\* TradeCost.total
Total(cost) == cost.commission + cost.tax + cost.regulatory + cost.fx

SellTaxRate(country, etf) ==
    IF country # "KR" THEN 0 ELSE IF etf THEN EtfTax ELSE StockTax

Taf(qty) == IF qty * TafPerShare < TafCap THEN qty * TafPerShare ELSE TafCap

\* charges_fx
ChargesFx(country) == country = "US" /\ ChargeFx

FxRate(country) == IF ChargesFx(country) THEN FxSpread ELSE 0

CostOf(side, country, price, qty, etf) ==
    LET notional == price * qty
    IN  IF notional = 0 THEN NoCost
        ELSE [commission |-> notional * Commission[country],
              tax |-> IF side = "SELL" THEN notional * SellTaxRate(country, etf) ELSE 0,
              regulatory |-> IF side = "SELL" /\ country = "US"
                             THEN notional * SecFee + Taf(qty) ELSE 0,
              fx |-> notional * FxRate(country)]

================================================================================
