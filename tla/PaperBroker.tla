------------------------------- MODULE PaperBroker -------------------------------
(***************************************************************************)
(* The paper broker (execution/paper.py): simulated fills at live prices,  *)
(* in the tables the live broker uses.                                     *)
(*                                                                         *)
(* A process is the service, `tqt cycle` or `tqt paper reset`.  In each    *)
(* one cycle runs at a time (Runner._lock), so one order is submitted at a *)
(* time; nothing serialises two processes.  An order is a read of the      *)
(* position, a read of the cash and a transaction, each a step of its own. *)
(***************************************************************************)
EXTENDS PaperAccount

CONSTANTS Processes,
          MaxOrders,  \* bound: orders quoted
          MaxStarts   \* bound: processes started

ASSUME BrokerAssumption == MaxOrders \in Nat /\ MaxStarts \in Nat

VARIABLES fills,   \* table fills (and orders, a row of each in one transaction): its sums
          opened,  \* history: the amount the account was opened with
          proc,    \* where each process is
          quotes,  \* orders quoted
          starts,  \* processes started
          clash    \* history: an order was committed on an account it had not read

vars == <<account, fills, opened, proc, quotes, starts, clash>>

NoFills == [flow |-> 0, shares |-> NoShares]

NoOrder == [sym |-> CHOOSE s \in Symbols : TRUE, side |-> "BUY", qty |-> 1,
            px |-> CHOOSE p \in Prices : TRUE, fx |-> 1]
Down == [pc |-> "down", task |-> "trade", amount |-> CHOOSE a \in Amounts : TRUE,
         order |-> NoOrder, held |-> 0, cash |-> 0, stale |-> FALSE]
Idle == [Down EXCEPT !.pc = "idle"]

Init ==
    /\ AccountInit
    /\ fills = NoFills
    /\ opened = 0
    /\ proc = [p \in Processes |-> Down]
    /\ quotes = 0
    /\ starts = 0
    /\ clash = FALSE

\* History: what the others read before a write of p is stale.
Wrote(p, next) ==
    proc' = [q \in Processes |-> IF q = p THEN next ELSE [proc[q] EXCEPT !.stale = TRUE]]
EndOrder(p) == proc' = [proc EXCEPT ![p] = Idle]
Keep == UNCHANGED <<account, fills, opened, quotes, starts, clash>>

--------------------------------------------------------------------------------
\* PaperBroker is built by `tqt run`, by `tqt cycle` and by `tqt paper reset`.
Start(p, task, amount) ==
    /\ proc[p].pc = "down"
    /\ starts < MaxStarts
    /\ starts' = starts + 1
    /\ proc' = [proc EXCEPT ![p] = [Down EXCEPT !.pc = "check", !.task = task,
                                                !.amount = amount]]
    /\ UNCHANGED <<account, fills, opened, quotes, clash>>

\* Once the cash is there: a trader trades, a reset wipes, or is over.
Ready(q) ==
    CASE q.task = "trade" -> Idle
      [] q.task = "reset" -> [q EXCEPT !.pc = "wipe"]
      [] q.task = "refill" -> Down

\* _ensure_cash looks for the row ...
CheckCash(p) ==
    /\ proc[p].pc = "check"
    /\ proc' = [proc EXCEPT ![p] = IF funded THEN Ready(@) ELSE [@ EXCEPT !.pc = "insert"]]
    /\ Keep

\* Mutant of InsertCash: it replaces a row that is there by now.
ReplaceCash(p) ==
    /\ proc[p].pc = "insert"
    /\ funded' = TRUE
    /\ cash' = proc[p].amount * Den
    /\ opened' = cash'
    /\ Wrote(p, Ready(proc[p]))
    /\ UNCHANGED <<held, fills, quotes, starts, clash>>

\* ... and inserts it: the key refuses a second one, and the process fails.
InsertCash(p) ==
    /\ proc[p].pc = "insert"
    /\ \/ /\ funded
          /\ proc' = [proc EXCEPT ![p] = Down]
          /\ UNCHANGED <<account, opened>>
       \/ /\ ~funded
          /\ funded' = TRUE
          /\ cash' = proc[p].amount * Den
          /\ opened' = cash'
          /\ Wrote(p, Ready(proc[p]))
          /\ UNCHANGED held
    /\ UNCHANGED <<fills, quotes, starts, clash>>

\* Mutant of WipeAccount: the positions are kept.
WipeCash(p) ==
    /\ proc[p].pc = "wipe"
    /\ funded' = FALSE
    /\ cash' = 0
    /\ fills' = NoFills
    /\ opened' = 0
    /\ Wrote(p, [proc[p] EXCEPT !.pc = "check", !.task = "refill"])
    /\ UNCHANGED <<held, quotes, starts, clash>>

\* reset: the rows go in one transaction; the cash comes back after it.
WipeAccount(p) ==
    /\ proc[p].pc = "wipe"
    /\ Wipe
    /\ fills' = NoFills
    /\ opened' = 0
    /\ Wrote(p, [proc[p] EXCEPT !.pc = "check", !.task = "refill"])
    /\ UNCHANGED <<quotes, starts, clash>>

--------------------------------------------------------------------------------
\* Mutant of Quote: an order that rounds to nothing goes on.
QuoteAnyway(p, sym, side, qty, px, fx) ==
    /\ proc[p].pc = "idle"
    /\ quotes < MaxOrders
    /\ quotes' = quotes + 1
    /\ proc' = [proc EXCEPT ![p].pc = "quoted", ![p].stale = FALSE,
                   ![p].order = [sym |-> sym, side |-> side, qty |-> Lots(sym, qty), px |-> px,
                                 fx |-> IF CountryOf[sym] = "KR" THEN 1 ELSE fx]]
    /\ UNCHANGED <<account, fills, opened, starts, clash>>

\* submit: the price comes from the book, or from the last trade, and the rate
\* from Toss, or from the last time.  Without a price, or with a quantity that
\* rounds to zero, the order is refused: nothing happens.
Quote(p, sym, side, qty, px, fx) ==
    /\ proc[p].pc = "idle"
    /\ quotes < MaxOrders
    /\ Lots(sym, qty) > 0
    /\ quotes' = quotes + 1
    /\ proc' = [proc EXCEPT ![p].pc = "quoted", ![p].stale = FALSE,
                   ![p].order = [sym |-> sym, side |-> side, qty |-> Lots(sym, qty), px |-> px,
                                 fx |-> IF CountryOf[sym] = "KR" THEN 1 ELSE fx]]
    /\ UNCHANGED <<account, fills, opened, starts, clash>>

\* positions: a sell is cut to what is held, and refused when that is nothing.
ReadPosition(p) ==
    /\ proc[p].pc = "quoted"
    /\ LET o == proc[p].order
           have == held[o.sym]
           qty == IF o.side = "SELL" /\ have < o.qty THEN have ELSE o.qty
       IN  \/ qty = 0 /\ EndOrder(p)
           \/ /\ qty > 0
              /\ proc' = [proc EXCEPT ![p].pc = "priced", ![p].order.qty = qty,
                                      ![p].held = have, ![p].stale = FALSE]
    /\ Keep

\* Mutant of ReadCash: the order is not compared with the cash.
ReadCashOnly(p) ==
    /\ proc[p].pc = "priced"
    /\ proc' = [proc EXCEPT ![p].pc = "decided", ![p].cash = cash]
    /\ Keep

\* cash: 0 without a row.  A buy is refused when it needs more than there is.
ReadCash(p) ==
    /\ proc[p].pc = "priced"
    /\ LET o == proc[p].order
       IN  \/ o.side = "BUY" /\ Needed(o) > cash /\ EndOrder(p)
           \/ /\ o.side = "SELL" \/ Needed(o) <= cash
              /\ proc' = [proc EXCEPT ![p].pc = "decided", ![p].cash = cash]
    /\ Keep

\* The transaction: _set_cash is an UPDATE, and without a row updates nothing.
Commit(p) ==
    /\ proc[p].pc = "decided"
    /\ LET o == proc[p].order
           signed == IF o.side = "BUY" THEN o.qty ELSE -o.qty
       IN  /\ cash' = IF funded THEN CashAfter(proc[p].cash, o) ELSE cash
           /\ held' = [held EXCEPT ![o.sym] = SharesAfter(proc[p].held, o)]
           /\ fills' = [flow |-> CashAfter(fills.flow, o),
                        shares |-> [fills.shares EXCEPT ![o.sym] = @ + signed]]
    /\ clash' = (clash \/ proc[p].stale)
    /\ Wrote(p, Idle)
    /\ UNCHANGED <<funded, opened, quotes, starts>>

\* The process ends or is killed; what it had not committed never happened.
Die(p) ==
    /\ proc[p].pc # "down"
    /\ proc' = [proc EXCEPT ![p] = Down]
    /\ Keep

Next ==
    \E p \in Processes :
        \/ \E task \in {"trade", "reset"}, amount \in Amounts : Start(p, task, amount)
        \/ CheckCash(p)
        \/ InsertCash(p)
        \/ WipeAccount(p)
        \/ \E sym \in Symbols, side \in Sides, qty \in 1..MaxQuantity, px \in Prices, fx \in Rates :
               Quote(p, sym, side, qty, px, fx)
        \/ ReadPosition(p)
        \/ ReadCash(p)
        \/ Commit(p)
        \/ Die(p)

Spec == Init /\ [][Next]_vars

--------------------------------------------------------------------------------
Places == {"down", "check", "insert", "wipe", "idle", "quoted", "priced", "decided"}
ProcStates == [pc : Places, task : {"trade", "reset", "refill"}, amount : Amounts,
               order : Orders, held : Int, cash : Int, stale : BOOLEAN]

\* The types of the tables and of the processes; an order is of at least one
\* smallest quantity.
TypeOK ==
    /\ funded \in BOOLEAN /\ clash \in BOOLEAN
    /\ cash \in Int /\ opened \in Int
    /\ held \in [Symbols -> Int]
    /\ fills \in [flow : Int, shares : [Symbols -> Int]]
    /\ proc \in [Processes -> ProcStates]
    /\ quotes \in 0..MaxOrders /\ starts \in 0..MaxStarts

\* The paper account never goes into debt and never sells what it has not,
\* whatever processes trade, reset or die at the same time: an order is paid
\* out of the cash it read (submit's check of needed > cash).
NoDebt == cash >= 0 /\ \A s \in Symbols : held[s] >= 0

\* "Whole shares for KR, fractional allowed for US" (paper.py:9).
WholeShares ==
    \A s \in Symbols : CountryOf[s] = "KR" => \E n \in 0..held[s] : held[s] = n * Share

\* As long as no order was committed on an account another process had changed
\* under it, the account is what its fills say: the cash is what it was opened
\* with and what they paid, the positions are what they bought and sold.
FillsExplainAccount ==
    ~clash => /\ cash = opened + fills.flow
              /\ \A s \in Symbols : held[s] = fills.shares[s]

\* And until then the broker is the account it promises: each order changes the
\* cash and the position in one piece, out of what they were at that moment.
AccountUntilClash ==
    AccountInit /\ [][clash' \/ AccountNext]_account

================================================================================
