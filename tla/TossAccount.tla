------------------------------ MODULE TossAccount ------------------------------
(***************************************************************************)
(* The brokerage account behind the Toss API, as execution/live.py uses it: *)
(* buying power, holdings and orders.  It is outside the repository; what  *)
(* is assumed of it is what the client's calls and their tests rely on.    *)
(* One share costs one unit of cash.  A buy sets its cash aside when it is *)
(* accepted; an order fills in any number of parts and then, or before, is *)
(* terminal and never changes again (toss/models.py, is_terminal).         *)
(***************************************************************************)
EXTENDS Integers, FiniteSets, FiniteSetsExt

CONSTANTS Symbols,    \* the symbols traded: numbers, in the order of their codes
          OrderIds,   \* the order ids Toss can hand out: a bound, 1..n
          StartHeld,  \* shares held at the start, by symbol
          StartCash   \* buying power at the start

ASSUME AccountAssumption ==
    /\ Symbols \subseteq Int /\ IsFiniteSet(Symbols)
    /\ OrderIds \subseteq Nat /\ IsFiniteSet(OrderIds)
    /\ StartHeld \in [Symbols -> Nat]
    /\ StartCash \in Nat

VARIABLES cash,    \* cash_buying_power
          held,    \* shares held, by symbol
          orders   \* Toss's orders, by id

account == <<cash, held, orders>>

Sides == {"BUY", "SELL"}
OpenStatuses == {"PENDING", "PARTIAL_FILLED", "PENDING_CANCEL", "PENDING_REPLACE"}

\* A trading cycle neither cancels nor modifies an order: one of the model ends
\* FILLED, CANCELED or REJECTED.
RejectedStatuses == {"REJECTED", "CANCEL_REJECTED", "REPLACE_REJECTED"}
TerminalStatuses == {"FILLED", "CANCELED", "REPLACED"} \cup RejectedStatuses

NoOrder == [status |-> "NONE", sym |-> 0, side |-> "BUY", qty |-> 0, filled |-> 0]

Placed == {id \in OrderIds : orders[id].status # "NONE"}
IsOpen(id) == orders[id].status \in OpenStatuses
IsTerminal(id) == orders[id].status \in TerminalStatuses
Remaining(id) == orders[id].qty - orders[id].filled

OpenQty(sym, side) ==
    MapThenSumSet(Remaining, {id \in Placed :
        IsOpen(id) /\ orders[id].sym = sym /\ orders[id].side = side})

\* sellable_quantity: what is held and not promised to an open sell.
Sellable(sym) == held[sym] - OpenQty(sym, "SELL")

--------------------------------------------------------------------------------
AccountInit ==
    /\ cash = StartCash
    /\ held = StartHeld
    /\ orders = [id \in OrderIds |-> NoOrder]

\* A new order gets the next id.
IsNextId(id) ==
    /\ id \in OrderIds \ Placed
    /\ \A j \in OrderIds : j < id => j \in Placed

\* POST /orders is accepted; otherwise it changes nothing.
Accept(id, sym, side, qty) ==
    /\ IsNextId(id)
    /\ qty \in Nat \ {0}
    /\ \/ side = "BUY" /\ qty <= cash /\ cash' = cash - qty
       \/ side = "SELL" /\ qty <= Sellable(sym) /\ UNCHANGED cash
    /\ orders' = [orders EXCEPT ![id] =
           [status |-> "PENDING", sym |-> sym, side |-> side, qty |-> qty, filled |-> 0]]
    /\ UNCHANGED held

\* The exchange fills n more shares of an open order.
Fill(id, n) ==
    /\ IsOpen(id)
    /\ n \in 1..Remaining(id)
    /\ LET o == orders[id]
       IN  /\ orders' = [orders EXCEPT ![id].filled = @ + n,
                  ![id].status = IF n = Remaining(id) THEN "FILLED" ELSE "PARTIAL_FILLED"]
           /\ \/ /\ o.side = "BUY"
                 /\ held' = [held EXCEPT ![o.sym] = @ + n]
                 /\ UNCHANGED cash
              \/ /\ o.side = "SELL"
                 /\ held' = [held EXCEPT ![o.sym] = @ - n]
                 /\ cash' = cash + n

\* The exchange ends an open order short of its quantity, as one whose symbol
\* is suspended is: REJECTED when nothing was filled, CANCELED at any point.
Close(id, status) ==
    /\ IsOpen(id)
    /\ status = "CANCELED" \/ (status = "REJECTED" /\ orders[id].filled = 0)
    /\ orders' = [orders EXCEPT ![id].status = status]
    /\ cash' = IF orders[id].side = "BUY" THEN cash + Remaining(id) ELSE cash
    /\ UNCHANGED held

AccountNext ==
    \/ \E id \in OrderIds : \E n \in 1..Remaining(id) : Fill(id, n)
    \/ \E id \in OrderIds, status \in {"CANCELED", "REJECTED"} : Close(id, status)

================================================================================
