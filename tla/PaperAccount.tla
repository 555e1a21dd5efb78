------------------------------- MODULE PaperAccount -------------------------------
(***************************************************************************)
(* What the paper broker promises: one account of cash and whole positions *)
(* that an order changes in one piece, out of the cash and shares it has.  *)
(***************************************************************************)
EXTENDS Costs

CONSTANTS Symbols,    \* what is traded
          CountryOf,  \* country_of
          Etfs,       \* etf_symbols
          Share,      \* smallest quantities in a whole share
          Prices,     \* prices of a smallest quantity
          Rates,      \* what USD/KRW may be
          MaxQuantity, \* bound: the quantity an order asks for
          Amounts     \* starting cash

ASSUME PaperAssumption ==
    /\ CountryOf \in [Symbols -> Countries]
    /\ Symbols # {} /\ Prices # {} /\ Amounts # {}
    /\ Share \in Nat \ {0}
    /\ MaxQuantity \in Nat \ {0}
    /\ Prices \subseteq Nat \ {0} /\ Rates \subseteq Nat \ {0}
    /\ Amounts \subseteq Nat \ {0}

VARIABLES funded,  \* the row of the account's cash exists
          cash,    \* and its amount, in 1/Den of a unit
          held     \* table positions: the quantity of a symbol

account == <<funded, cash, held>>

Sides == {"BUY", "SELL"}
Orders == [sym : Symbols, side : Sides, qty : 1..MaxQuantity, px : Prices, fx : Rates \cup {1}]

NoShares == [s \in Symbols |-> 0]

AccountInit ==
    /\ funded = FALSE
    /\ cash = 0
    /\ held = NoShares

\* Mutant of Lots: a Korean order keeps its fraction.
AnyLots(sym, qty) == qty

\* Whole shares for KR, fractional allowed for US.
Lots(sym, qty) == IF CountryOf[sym] = "KR" THEN (qty \div Share) * Share ELSE qty

Cost(o) == Total(CostOf(o.side, CountryOf[o.sym], o.px, o.qty, o.sym \in Etfs))

\* What a buy takes out of the cash, and what a sell brings in.
Needed(o) == (o.px * o.qty * Den + Cost(o)) * o.fx
Received(o) == (o.px * o.qty * Den - Cost(o)) * o.fx

CashAfter(c, o) == IF o.side = "BUY" THEN c - Needed(o) ELSE c + Received(o)
SharesAfter(q, o) == IF o.side = "BUY" THEN q + o.qty ELSE q - o.qty

\* An order that the account can pay, or deliver.
Trade(o) ==
    /\ funded
    /\ IF o.side = "BUY" THEN Needed(o) <= cash ELSE o.qty <= held[o.sym]
    /\ cash' = CashAfter(cash, o)
    /\ held' = [held EXCEPT ![o.sym] = SharesAfter(@, o)]
    /\ UNCHANGED funded

\* A new account holds its starting cash and no share.
Open(amount) ==
    /\ ~funded
    /\ held = NoShares
    /\ funded' = TRUE
    /\ cash' = amount * Den
    /\ UNCHANGED held

Wipe ==
    /\ funded' = FALSE
    /\ cash' = 0
    /\ held' = NoShares

AccountNext ==
    \/ \E o \in Orders : Trade(o)
    \/ \E amount \in Amounts : Open(amount)
    \/ Wipe

================================================================================
