------------------------------- MODULE Rebalancing -------------------------------
(***************************************************************************)
(* The figures of a rebalance: the target weights of a portfolio plan      *)
(* (portfolio.py), the orders they come to (_build_intents) and the loop   *)
(* that checks and submits them (_cycle, runner.py; check_order, risk.py), *)
(* on an account whose prices move and whose orders may be left open.      *)
(* Switches, budget and ledger are LiveTrading's.                          *)
(*                                                                         *)
(* A quantity is in the smallest fraction, Share of them to a share; a     *)
(* price is a fraction's, in won; weights are in parts of Whole.           *)
(***************************************************************************)
EXTENDS Integers, FiniteSets, FiniteSetsExt, Functions

CONSTANTS Symbols,       \* numbered in the order of their codes
          CountryOf,     \* country_of
          Share,         \* smallest fractions in a whole share
          Whole,         \* a weight of 1
          Band,          \* drift that is left alone
          Limit,         \* weight_limit_for, by symbol
          Gross,         \* max_gross_exposure
          Sleeves,       \* the number of allocations of the plan
          Budget,        \* their weights
          Tolerance,     \* what these may come to beyond Whole
          Answers,       \* the weights each one's strategy may answer
          Prices,        \* prices a symbol may have, by symbol
          Fees,          \* what a fill may cost, slippage included
          StartCash, StartHeld,
          Dollars,       \* what the part of the cash in dollars may come to, in won
          MaxCycles      \* bound: cycles

Countries == {"KR", "US"}

ASSUME RebalancingAssumption ==
    /\ IsFiniteSet(Symbols) /\ Symbols \subseteq Nat
    /\ CountryOf \in [Symbols -> Countries]
    /\ {Share, Whole, Band} \subseteq Nat \ {0}
    /\ DOMAIN Prices = Symbols /\ \A s \in Symbols : Prices[s] \subseteq Nat \ {0}
    /\ Fees \subseteq Nat /\ 0 \in Fees
    /\ Dollars \subseteq Nat /\ 0 \in Dollars
    /\ Limit \in [Symbols -> Nat]
    /\ {Gross, Tolerance, StartCash, MaxCycles} \subseteq Nat
    /\ StartHeld \in [Symbols -> Nat]
    /\ Sleeves \in Nat \ {0}
    /\ Budget \in [1..Sleeves -> Nat] /\ SumFunction(Budget) <= Whole + Tolerance
    /\ DOMAIN Answers = 1..Sleeves
    /\ \A n \in 1..Sleeves : \A w \in Answers[n] :
           /\ DOMAIN w \subseteq Symbols /\ w \in [DOMAIN w -> Nat]
           /\ SumFunction(w) <= Whole

VARIABLES price,   \* what each symbol trades at
          cash,    \* buying power
          held,    \* holdings
          open,    \* orders left open at Toss
          run,     \* the cycle under way: Runner._cycle's local state
          cycles,  \* cycles started
          book     \* history: the last cycle, for the properties

account == <<cash, held, open>>
vars == <<price, account, run, cycles, book>>

PriceLists == {px \in [Symbols -> UNION {Prices[s] : s \in Symbols}] :
                  \A s \in Symbols : px[s] \in Prices[s]}

NoHolding == [s \in Symbols |-> 0]
NoAnswer == [s \in {} |-> 0]

\* AccountSnapshot: what it is worth.
Value(pos, px) == SumFunction([s \in Symbols |-> pos[s] * px[s]])
Equity(snap) == snap.cash + Value(snap.pos, snap.px)
Now == [cash |-> cash, pos |-> held, px |-> price]

Unread == [cash |-> 0, pos |-> NoHolding, px |-> NoHolding]
NoTargets == [named |-> {}, parts |-> NoHolding, of |-> Whole * Whole]
Idle == [pc |-> "idle", markets |-> {}, snap |-> Unread, sleeve |-> 1,
         targets |-> NoTargets, todo |-> {}]
NoBook == [opening |-> 0, bought |-> {}, steady |-> FALSE, alone |-> FALSE,
           planned |-> FALSE, exact |-> FALSE, snap |-> Unread, targets |-> NoTargets,
           orders |-> {}, markets |-> {}]

--------------------------------------------------------------------------------
\* Mutant of Scaled: more than the account is targeted.
Unscaled(parts) == Whole * Whole

\* target_weights: a sleeve's weights, times its share, are added up; what is
\* over the whole is scaled down.  A weight is parts[s] / of.
Scaled(parts) == Max({Whole * Whole, SumFunction(parts)})

Blended(targets, n, w) ==
    LET parts == [s \in Symbols |->
                     targets.parts[s] + (IF s \in DOMAIN w THEN w[s] * Budget[n] ELSE 0)]
    IN  [named |-> targets.named \cup DOMAIN w, parts |-> parts, of |-> Scaled(parts)]

\* Quantity of a symbol: whole shares in Korea.
Lots(s, qty) == IF CountryOf[s] = "KR" THEN (qty \div Share) * Share ELSE qty

\* drift: want - have, times targets.of and the equity.
Drift(targets, snap, s) ==
    targets.parts[s] * Equity(snap) - snap.pos[s] * snap.px[s] * targets.of
Size(drift) == IF drift < 0 THEN -drift ELSE drift

\* Mutant of Quantity: the quantity is rounded up.
QuantityUp(targets, snap, quote, s) ==
    LET drift == Drift(targets, snap, s)
        raw == Lots(s, Size(drift) \div (targets.of * quote) + 1)
    IN  IF drift > 0 THEN raw ELSE Lots(s, Min({raw, snap.pos[s]}))

\* What the drift comes to at the price of the day; a sell is cut to what is held.
Quantity(targets, snap, quote, s) ==
    LET drift == Drift(targets, snap, s)
        raw == Lots(s, Size(drift) \div (targets.of * quote))
    IN  IF drift > 0 THEN raw ELSE Lots(s, Min({raw, snap.pos[s]}))

\* _build_intents: an order for what drifted by the band or more, has an open
\* market and a price, and does not round to nothing.
Traded(targets, snap, quotes, markets) ==
    {s \in Symbols : /\ CountryOf[s] \in markets
                     /\ Whole * Size(Drift(targets, snap, s)) >= Band * targets.of * Equity(snap)
                     /\ quotes[s] > 0
                     /\ Quantity(targets, snap, quotes[s], s) > 0}

OrderFor(targets, snap, quotes, s) ==
    LET drift == Drift(targets, snap, s)
    IN  [sym |-> s, side |-> IF drift > 0 THEN "BUY" ELSE "SELL",
         qty |-> Quantity(targets, snap, quotes[s], s), quote |-> quotes[s], drift |-> drift]

Orders(targets, snap, quotes, markets) ==
    {OrderFor(targets, snap, quotes, s) : s \in Traded(targets, snap, quotes, markets)}

\* Sorted by drift: sells first.
Before(o, p) == o.drift < p.drift \/ (o.drift = p.drift /\ o.sym < p.sym)
IsNext(o) == o \in run.todo /\ \A p \in run.todo \ {o} : Before(o, p)

--------------------------------------------------------------------------------
Init ==
    /\ price \in PriceLists
    /\ cash = StartCash /\ held = StartHeld /\ open = {}
    /\ run = Idle
    /\ cycles = 0
    /\ book = NoBook

\* The market.
MovePrice(s, px) ==
    /\ px # price[s]
    /\ price' = [price EXCEPT ![s] = px]
    /\ book' = [book EXCEPT !.steady = FALSE]
    /\ UNCHANGED <<account, run, cycles>>

\* The cycle begins: the first of the snapshot's two calls.
StartCycle(markets) ==
    /\ run.pc = "idle"
    /\ cycles < MaxCycles
    /\ cycles' = cycles + 1
    /\ run' = [Idle EXCEPT !.pc = "cash", !.markets = markets,
                           !.snap.pos = held, !.snap.px = price]
    /\ book' = [NoBook EXCEPT !.opening = Equity(Now), !.steady = TRUE, !.alone = (open = {})]
    /\ UNCHANGED <<price, account>>

\* The snapshot after a fill ...
ReadHoldings ==
    /\ run.pc = "refresh"
    /\ run' = [run EXCEPT !.pc = "cash", !.snap.pos = held, !.snap.px = price]
    /\ UNCHANGED <<price, account, cycles, book>>

\* ... or the first one is completed with the buying power.  The dollars have a
\* call of their own: what of them cannot be read is left out, and the cycle
\* goes on.
ReadCash(lost) ==
    /\ run.pc = "cash"
    /\ lost <= cash
    /\ run' = [run EXCEPT !.pc = IF book.planned THEN "trade" ELSE "blend",
                          !.snap.cash = cash - lost]
    /\ UNCHANGED <<price, account, cycles, book>>

\* target_weights, one allocation: a sleeve without data, or whose strategy
\* fails, answers nothing.
BlendSleeve(w) ==
    /\ run.pc = "blend"
    /\ w \in Answers[run.sleeve] \cup {NoAnswer}
    /\ run' = [run EXCEPT !.pc = IF run.sleeve = Sleeves THEN "plan" ELSE "blend",
                          !.sleeve = IF run.sleeve = Sleeves THEN run.sleeve ELSE @ + 1,
                          !.targets = Blended(@, run.sleeve, w)]
    /\ UNCHANGED <<price, account, cycles, book>>

\* _build_intents, on fresh prices; those of `missing` cannot be had.
PlanOrders(missing) ==
    LET quotes == [s \in Symbols |-> IF s \in missing THEN 0 ELSE price[s]]
        orders == Orders(run.targets, run.snap, quotes, run.markets)
    IN  /\ run.pc = "plan"
        /\ run.targets.named # {} /\ Equity(run.snap) > 0
        /\ run' = [run EXCEPT !.pc = "trade", !.todo = orders]
        /\ book' = [book EXCEPT !.planned = TRUE, !.exact = (missing = {} /\ run.snap = Now),
                                !.snap = run.snap, !.targets = run.targets,
                                !.orders = orders, !.markets = run.markets]
        /\ UNCHANGED <<price, account, cycles>>

\* The cycle is over: every order was dealt with.
EndCycle ==
    /\ run.pc = "trade" /\ run.todo = {}
    /\ run' = Idle
    /\ UNCHANGED <<price, account, cycles, book>>

\* Or it ends early: the risk gate, no targets, an account worth nothing, a
\* call that fails, a crash.
StopCycle ==
    /\ run.pc # "idle"
    /\ run' = Idle
    /\ book' = NoBook
    /\ UNCHANGED <<price, account, cycles>>

--------------------------------------------------------------------------------
\* check_order of a buy: concentration and exposure after it ...
WithinLimits(o, snap) ==
    /\ Whole * (snap.pos[o.sym] * snap.px[o.sym] + o.quote * o.qty)
           <= Limit[o.sym] * Equity(snap)
    /\ Whole * (Value(snap.pos, snap.px) + o.quote * o.qty) <= Gross * Equity(snap)

\* ... and the cash for it; a sell is of what is held.
Allowed(o, snap) ==
    /\ Equity(snap) > 0
    /\ o.side = "BUY" => WithinLimits(o, snap) /\ o.quote * o.qty <= snap.cash
    /\ o.side = "SELL" => o.qty <= snap.pos[o.sym]

\* Blocked by check_order (a limit, the order budget, a warning) or refused by
\* submit (nothing sellable, Toss): the loop goes on with the snapshot it has.
DropOrder(o) ==
    /\ run.pc = "trade" /\ IsNext(o)
    /\ run' = [run EXCEPT !.todo = @ \ {o}]
    /\ book' = [book EXCEPT !.exact = FALSE]
    /\ UNCHANGED <<price, account, cycles>>

\* sellable_quantity: what is held and not promised to an open sell.
SellsOf(orders, s) == {o \in orders : o.sym = s /\ o.side = "SELL"}
Promised(orders, s) == SumFunction([o \in SellsOf(orders, s) |-> o.qty])
Sellable(s) == held[s] - Promised(open, s)

\* Mutant of Submitted: shares promised to an open sell are sold again.
SubmittedAll(o) == o.qty

\* What is submitted: a sell is trimmed to what is sellable.
Submitted(o) == IF o.side = "SELL" /\ o.qty > Sellable(o.sym)
                THEN Lots(o.sym, Sellable(o.sym)) ELSE o.qty

\* A fill of n at the present price.
Settle(s, side, n, fee) ==
    /\ n = Lots(s, n)
    /\ n = 0 => fee = 0
    /\ IF side = "BUY"
       THEN /\ n * price[s] + fee <= cash
            /\ cash' = cash - n * price[s] - fee
            /\ held' = [held EXCEPT ![s] = @ + n]
       ELSE /\ fee <= n * price[s]
            /\ cash' = cash + n * price[s] - fee
            /\ held' = [held EXCEPT ![s] = @ - n]

\* Terminal while it is polled, filled or not.
Filled(o, n, fee, pc) ==
    /\ run.pc = "trade" /\ IsNext(o) /\ Allowed(o, run.snap)
    /\ Submitted(o) > 0 /\ n <= Submitted(o)
    /\ Settle(o.sym, o.side, n, fee)
    /\ run' = [run EXCEPT !.pc = pc, !.todo = @ \ {o}]
    /\ book' = [book EXCEPT !.exact = @ /\ n = o.qty /\ fee = 0,
                            !.bought = IF o.side = "BUY" THEN @ \cup {o.sym} ELSE @]
    /\ UNCHANGED <<price, open, cycles>>

\* Mutant of FillOrder: the snapshot is not read again.
FillOnly(o, n, fee) == Filled(o, n, fee, "trade")

\* After a fill the snapshot is read again.
FillOrder(o, n, fee) == Filled(o, n, fee, IF n > 0 THEN "refresh" ELSE "trade")

\* Still open when polling ends: the loop goes on with the snapshot it has.
LeaveOpen(o) ==
    /\ run.pc = "trade" /\ IsNext(o) /\ Allowed(o, run.snap)
    /\ Submitted(o) > 0
    /\ open' = open \cup {[cycle |-> cycles, sym |-> o.sym, side |-> o.side,
                           qty |-> Submitted(o)]}
    /\ run' = [run EXCEPT !.todo = @ \ {o}]
    /\ book' = [book EXCEPT !.exact = FALSE, !.alone = FALSE,
                            !.bought = IF o.side = "BUY" THEN @ \cup {o.sym} ELSE @]
    /\ UNCHANGED <<price, cash, held, cycles>>

\* Toss fills an open order, in part or in full, or ends it.
FillOpen(o, n, fee) ==
    /\ o \in open
    /\ n <= o.qty
    /\ Settle(o.sym, o.side, n, fee)
    /\ \/ open' = open \ {o}
       \/ n \in 1..o.qty-1 /\ open' = (open \ {o}) \cup {[o EXCEPT !.qty = @ - n]}
    /\ UNCHANGED <<price, run, cycles, book>>

Next ==
    \/ \E s \in Symbols : \E px \in Prices[s] : MovePrice(s, px)
    \/ \E markets \in SUBSET Countries \ {{}} : StartCycle(markets)
    \/ ReadHoldings
    \/ \E lost \in Dollars : ReadCash(lost)
    \/ \E w \in UNION {Answers[n] : n \in 1..Sleeves} \cup {NoAnswer} : BlendSleeve(w)
    \/ \E missing \in SUBSET Symbols : PlanOrders(missing)
    \/ EndCycle
    \/ StopCycle
    \/ \E o \in run.todo : \/ DropOrder(o)
                           \/ \E n \in 0..o.qty, fee \in Fees : FillOrder(o, n, fee)
                           \/ LeaveOpen(o)
    \/ \E o \in open : \E n \in 0..o.qty, fee \in Fees : FillOpen(o, n, fee)

Spec == Init /\ [][Next]_vars

TypeOK ==
    /\ price \in PriceLists
    /\ cash \in Nat /\ held \in [Symbols -> Nat]
    /\ \A o \in open : o.sym \in Symbols /\ o.side \in {"BUY", "SELL"} /\ o.qty \in Nat \ {0}
    /\ run.pc \in {"idle", "cash", "blend", "plan", "trade", "refresh"}
    /\ run.markets \subseteq Countries
    /\ run.snap.cash \in Nat /\ run.snap.pos \in [Symbols -> Nat]
    /\ \A s \in Symbols : run.snap.px[s] \in Prices[s] \cup {0}
    /\ run.todo \subseteq book.orders
    /\ \A o \in book.orders : o.sym \in Symbols /\ o.qty \in Nat \ {0} /\ o.quote \in Prices[o.sym]
    /\ cycles \in 0..MaxCycles

--------------------------------------------------------------------------------
\* check_order looks at a snapshot, and an order changes the account: while
\* prices stay and nothing is open, every buy of a cycle leaves its symbol within
\* its weight and the account within its exposure, whatever was sold and bought
\* before it (risk.py:9-13).  The equity is that of the cycle's start, which the
\* costs of its orders lessen.
LimitsHold ==
    book.steady /\ book.alone =>
        /\ \A s \in book.bought : Whole * held[s] * price[s] <= Limit[s] * book.opening
        /\ book.bought # {} => Whole * Value(held, price) <= Gross * book.opening

\* The code plans every buy before it has sold anything (_build_intents): what
\* the buys of a plan come to is never more than the cash and what the account
\* holds beyond its targets, even if the plan's sleeves ask for more than there is.
SpentOn(orders, s) ==
    LET buys == {o \in orders : o.sym = s /\ o.side = "BUY"}
    IN  IF buys = {} THEN 0 ELSE LET o == CHOOSE o \in buys : TRUE IN o.quote * o.qty
Released(targets, snap, s) == Max({0, -Drift(targets, snap, s)})

Funded(targets, snap, orders) ==
    targets.of * SumFunction([s \in Symbols |-> SpentOn(orders, s)])
        <= targets.of * snap.cash + SumFunction([s \in Symbols |-> Released(targets, snap, s)])

BuysFunded == Funded(book.targets, book.snap, book.orders)

\* A rebalance of the whole account that was filled to the letter is over: at
\* the same prices and targets the next one has nothing to trade, however
\* quantities were rounded.  One that was planned without the dollars, which
\* _cycle does when they cannot be read, is not: it sells towards less than
\* there is, and the next cycle buys back (book.exact).
NoChurn ==
    run.pc = "idle" /\ book.exact /\ book.steady /\ book.alone =>
        Orders(book.targets, Now, price, book.markets) = {}

================================================================================
