------------------------------ MODULE LiveTrading ------------------------------
(***************************************************************************)
(* A rebalance in live mode, from the snapshot to the last order: the      *)
(* runner's cycle (runner.py), the risk gate before it and before each     *)
(* order (risk.py), the live broker (execution/live.py), the audit ledger  *)
(* and the Toss account.                                                   *)
(*                                                                         *)
(* A runner is a process with a Runner object: the service (`tqt run`),    *)
(* or `tqt cycle` on the command line.  Runner._lock lets one cycle run    *)
(* in each, so a runner is here wherever its one cycle is.  All of them    *)
(* share one database and one account.  Any runner may crash at any step;  *)
(* the service is then restarted and reconciles the ledger.                *)
(*                                                                         *)
(* Every call over the network and every commit is a step of its own.      *)
(***************************************************************************)
EXTENDS TossAccount, Ledger, Sequences

CONSTANTS Runners,       \* processes that trade
          Targets,       \* what the strategies can ask for: parts of equity
          Parts,         \* equity is counted in this many parts
          WeightLimit,   \* max_position_weight, in parts
          MaxOrders,     \* max_orders_per_day
          PollAttempts,  \* FILL_POLL_ATTEMPTS
          MaxCycles,     \* bound: cycles started
          MaxCrashes     \* bound: crashes

ASSUME TradingAssumption ==
    /\ OrderIds = LedgerIds
    /\ IsFiniteSet(Runners) /\ Runners # {}
    /\ Parts \in Nat \ {0}
    /\ Targets \subseteq [Symbols -> 0..Parts]
    /\ WeightLimit \in Nat
    /\ MaxOrders \in Nat
    /\ PollAttempts \in Nat \ {0}
    /\ MaxCycles \in Nat
    /\ MaxCrashes \in Nat

VARIABLES
    halted,       \* STATE_HALTED: the operator's stop
    haltedToday,  \* STATE_HALTED_DATE is today: the automatic stop
    run,          \* where each runner's cycle is
    cycles,       \* cycles started
    crashes,      \* crashes so far
    missed        \* history: live orders whose submit ended without a row

tradingVars == <<halted, haltedToday, run, cycles, crashes, missed>>
vars == <<account, ledger, tradingVars>>

--------------------------------------------------------------------------------
\* Mutant of IsHalted: the automatic stop is forgotten.
IsHaltedByOperator == halted

IsHalted == halted \/ haltedToday

\* orders_today: every row counts, whatever its status.
OrdersToday == Cardinality(Recorded)

PositionValue(snap) == MapThenSumSet(LAMBDA s : snap.held[s], Symbols)
Equity(snap) == snap.cash + PositionValue(snap)

Abs(n) == IF n < 0 THEN -n ELSE n

\* The drift of a symbol from its target, in parts of equity-shares.
Drift(want, snap, s) == want[s] * Equity(snap) - snap.held[s] * Parts

\* Whole shares: the notional of the drift, and no more than is held to sell.
IntentFor(want, snap, s) ==
    LET drift == Drift(want, snap, s)
        qty   == Abs(drift) \div Parts
    IN  [sym |-> s, side |-> IF drift > 0 THEN "BUY" ELSE "SELL",
         qty |-> IF drift > 0 \/ qty <= snap.held[s] THEN qty ELSE snap.held[s]]

\* _build_intents: one for each target or holding that can be traded now (its
\* market is in the cycle's list, it drifted by more than the band and it has
\* a price).
Intents(want, snap, tradable) ==
    IF Equity(snap) <= 0 THEN {}
    ELSE {i \in {IntentFor(want, snap, s) : s \in tradable} : i.qty \in Nat \ {0}}

\* planned.sort: by drift, so sells come first; ties keep the order of codes.
Before(want, snap, i, j) ==
    LET di == Drift(want, snap, i.sym)
        dj == Drift(want, snap, j.sym)
    IN  di < dj \/ (di = dj /\ i.sym < j.sym)

Schedules(want, snap, tradable) ==
    LET S == Intents(want, snap, tradable)
    IN  {q \in [1..Cardinality(S) -> S] :
             \A m, n \in DOMAIN q : m < n => Before(want, snap, q[m], q[n])}

\* Mutant of WithinBudget: the check is off by one.
WithinBudgetOrOne == OrdersToday <= MaxOrders

WithinBudget == OrdersToday < MaxOrders

\* check_order, on the snapshot the cycle has (warnings on the stock apart).
AllowedBy(i, snap) ==
    /\ Equity(snap) > 0
    /\ WithinBudget
    /\ \/ /\ i.side = "BUY"
          /\ (snap.held[i.sym] + i.qty) * Parts <= WeightLimit * Equity(snap)
          /\ PositionValue(snap) + i.qty <= Equity(snap)
          /\ i.qty <= snap.cash
       \/ /\ i.side = "SELL"
          /\ i.qty <= snap.held[i.sym]

--------------------------------------------------------------------------------
NoSnap == [cash |-> 0, held |-> [s \in Symbols |-> 0]]
AtRest(pc) == [pc |-> pc, then |-> "gate", snap |-> NoSnap, todo |-> <<>>,
               id |-> 0, polls |-> 0, sync |-> {}, late |-> FALSE]

Init ==
    /\ AccountInit
    /\ LedgerInit
    /\ halted = FALSE
    /\ haltedToday = FALSE
    /\ run = [r \in Runners |-> AtRest("idle")]
    /\ cycles = 0
    /\ crashes = 0
    /\ missed = {}

Goto(r, pc) == run' = [run EXCEPT ![r].pc = pc]
EndCycle(r) == run' = [run EXCEPT ![r] = AtRest("idle")]
NextIntent(r) == run' = [run EXCEPT ![r].pc = "loop", ![r].todo = Tail(@), ![r].id = 0,
                                    ![r].polls = 0]

\* A cycle past its gate, on the way to its orders.
PastGate(r) ==
    \/ run[r].pc \in {"plan", "loop", "submit", "acked", "poll", "final"}
    \/ run[r].pc \in {"holdings", "cash"} /\ run[r].then = "loop"

\* History: a cycle already past its gate when the switch is thrown is late.
MarkLate(q) == [run[q] EXCEPT !.late = @ \/ PastGate(q)]

Keep == UNCHANGED <<account, ledger, halted, haltedToday, cycles, crashes, missed>>

--------------------------------------------------------------------------------
\* cycle, _cycle: a schedule, /rebalance or the command line starts one.
StartCycle(r) ==
    /\ run[r].pc = "idle"
    /\ cycles < MaxCycles
    /\ cycles' = cycles + 1
    /\ Goto(r, "holdings")
    /\ UNCHANGED <<account, ledger, halted, haltedToday, crashes, missed>>

\* snapshot reads the holdings and then the buying power ...
ReadHoldings(r) ==
    /\ run[r].pc = "holdings"
    /\ run' = [run EXCEPT ![r].pc = "cash", ![r].snap.held = held]
    /\ Keep

\* ... of which the dollars are left out when they cannot be read: what is seen
\* is the cash or a part of it.
Seen == {cash} \cup 0..cash

ReadCash(r, seen) ==
    /\ run[r].pc = "cash"
    /\ run' = [run EXCEPT ![r].pc = run[r].then, ![r].snap.cash = seen]
    /\ Keep

\* A read that fails raises out of the cycle, whatever is still to do.
SnapshotFails(r) ==
    /\ run[r].pc \in {"holdings", "cash"}
    /\ EndCycle(r)
    /\ Keep

\* check_cycle.  Prices move outside the model: a daily loss is a choice.
Gate(r, loss) ==
    /\ run[r].pc = "gate"
    /\ \/ /\ IsHalted
          /\ EndCycle(r)
          /\ UNCHANGED haltedToday
       \/ /\ ~IsHalted
          /\ loss \/ ~WithinBudget
          /\ haltedToday' = TRUE
          /\ run' = [q \in Runners |-> IF q = r THEN AtRest("idle") ELSE MarkLate(q)]
       \/ /\ ~IsHalted /\ ~loss /\ WithinBudget
          /\ Goto(r, "plan")
          /\ UNCHANGED haltedToday
    /\ UNCHANGED <<account, ledger, halted, cycles, crashes, missed>>

\* No market open, not the rebalance day, or no targets.
NothingToDo(r) ==
    /\ run[r].pc = "plan"
    /\ EndCycle(r)
    /\ Keep

Plan(r, want, tradable) ==
    /\ run[r].pc = "plan"
    /\ \E q \in Schedules(want, run[r].snap, tradable) :
           run' = [run EXCEPT ![r].pc = "loop", ![r].todo = q]
    /\ Keep

\* A buy may also be refused for a warning on the stock; a warning that cannot
\* be read refuses nothing.
CheckOrder(r) ==
    /\ run[r].pc = "loop"
    /\ run[r].todo # <<>>
    /\ LET i == Head(run[r].todo)
       IN  \/ AllowedBy(i, run[r].snap) /\ Goto(r, "submit")
           \/ ~AllowedBy(i, run[r].snap) /\ NextIntent(r)
           \/ i.side = "BUY" /\ NextIntent(r)
    /\ Keep

FinishCycle(r) ==
    /\ run[r].pc = "loop"
    /\ run[r].todo = <<>>
    /\ EndCycle(r)
    /\ Keep

--------------------------------------------------------------------------------
\* submit trims a sell to what Toss calls sellable.
OrderQty(i) ==
    IF i.side = "SELL" /\ i.qty > Sellable(i.sym) THEN Sellable(i.sym) ELSE i.qty

Create(r, id) ==
    LET i == Head(run[r].todo)
    IN  Accept(id, i.sym, i.side, OrderQty(i))

\* create_order returns the order's id.
Submit(r, id) ==
    /\ run[r].pc = "submit"
    /\ Create(r, id)
    /\ run' = [run EXCEPT ![r].pc = "acked", ![r].id = id]
    /\ UNCHANGED <<ledger, halted, haltedToday, cycles, crashes, missed>>

\* Nothing sellable, a rejection, or a request that never arrived.
SubmitRefused(r) ==
    /\ run[r].pc = "submit"
    /\ NextIntent(r)
    /\ Keep

\* Toss takes the order and every answer is lost: submit logs order_failed
\* and returns ok=False, without a row.
SubmitLost(r, id) ==
    /\ run[r].pc = "submit"
    /\ Create(r, id)
    /\ NextIntent(r)
    /\ missed' = missed \cup {id}
    /\ UNCHANGED <<ledger, halted, haltedToday, cycles, crashes>>

Record(r) ==
    /\ run[r].pc = "acked"
    /\ RecordSubmission(run[r].id)
    /\ Goto(r, "poll")
    /\ UNCHANGED <<account, halted, haltedToday, cycles, crashes, missed>>

\* Mutant of PollTerminal: the first answer is taken for the outcome.
PollAny(r) ==
    /\ run[r].pc = "poll"
    /\ Goto(r, "final")
    /\ Keep

\* _await_fill: a terminal order ends the polling ...
PollTerminal(r) ==
    /\ run[r].pc = "poll"
    /\ IsTerminal(run[r].id)
    /\ Goto(r, "final")
    /\ Keep

\* Mutant of PollOpen: the last attempt starts the count again.
PollForever(r) ==
    /\ run[r].pc = "poll"
    /\ IsOpen(run[r].id)
    /\ run' = [run EXCEPT ![r].polls = (@ + 1) % PollAttempts]
    /\ Keep

\* ... an open one is asked again, up to the last attempt: then it is left
\* PENDING and the cycle goes on with the snapshot it had.
PollOpen(r) ==
    /\ run[r].pc = "poll"
    /\ IsOpen(run[r].id)
    /\ \/ run[r].polls + 1 = PollAttempts /\ NextIntent(r)
       \/ /\ run[r].polls + 1 < PollAttempts
          /\ run' = [run EXCEPT ![r].polls = @ + 1]
    /\ Keep

\* A poll that fails leaves the order PENDING at once.
PollFails(r) ==
    /\ run[r].pc = "poll"
    /\ NextIntent(r)
    /\ Keep

\* _record_final, and the fresh snapshot when shares were filled.
Finalise(r) ==
    /\ run[r].pc = "final"
    /\ LET o == orders[run[r].id]
       IN  /\ RecordFinal(run[r].id, o.status, o.filled)
           /\ IF o.status \notin RejectedStatuses /\ o.filled > 0
              THEN run' = [run EXCEPT ![r].pc = "holdings", ![r].then = "loop",
                                      ![r].todo = Tail(@), ![r].id = 0, ![r].polls = 0]
              ELSE NextIntent(r)
    /\ UNCHANGED <<account, halted, haltedToday, cycles, crashes, missed>>

--------------------------------------------------------------------------------
\* The process dies; an order acknowledged and not yet recorded is missed.
Crash(r) ==
    /\ run[r].pc # "down"
    /\ crashes < MaxCrashes
    /\ crashes' = crashes + 1
    /\ run' = [run EXCEPT ![r] = AtRest("down")]
    /\ missed' = IF run[r].pc = "acked" THEN missed \cup {run[r].id} ELSE missed
    /\ UNCHANGED <<account, ledger, halted, haltedToday, cycles>>

\* build: the closed orders of Toss's history are read, then written one by one.
Restart(r) ==
    /\ run[r].pc = "down"
    /\ run' = [run EXCEPT ![r].pc = "sync", ![r].sync = {id \in OrderIds : IsTerminal(id)}]
    /\ Keep

Sync(r) ==
    /\ run[r].pc = "sync"
    /\ \/ /\ run[r].sync = {}
          /\ Goto(r, "idle")
          /\ UNCHANGED ledger
       \/ \E id \in run[r].sync :
              /\ SyncOrder(id, orders[id].status, orders[id].filled)
              /\ run' = [run EXCEPT ![r].sync = @ \ {id}]
    /\ UNCHANGED <<account, halted, haltedToday, cycles, crashes, missed>>

\* RiskManager.halt and resume, from the dashboard, Telegram or the CLI.
Halt ==
    /\ halted' = TRUE
    /\ run' = [q \in Runners |-> MarkLate(q)]
    /\ UNCHANGED <<account, ledger, haltedToday, cycles, crashes, missed>>

Resume ==
    /\ halted' = FALSE
    /\ haltedToday' = FALSE
    /\ run' = [q \in Runners |-> [run[q] EXCEPT !.late = FALSE]]
    /\ UNCHANGED <<account, ledger, cycles, crashes, missed>>

--------------------------------------------------------------------------------
\* One step of a runner's own cycle, or of its recovery.
Advance(r) ==
    \/ ReadHoldings(r)
    \/ \E seen \in Seen : ReadCash(r, seen)
    \/ SnapshotFails(r)
    \/ \E loss \in BOOLEAN : Gate(r, loss)
    \/ NothingToDo(r)
    \/ \E want \in Targets, tradable \in SUBSET Symbols : Plan(r, want, tradable)
    \/ CheckOrder(r)
    \/ FinishCycle(r)
    \/ \E id \in OrderIds : Submit(r, id)
    \/ SubmitRefused(r)
    \/ \E id \in OrderIds : SubmitLost(r, id)
    \/ Record(r)
    \/ PollTerminal(r)
    \/ PollOpen(r)
    \/ PollFails(r)
    \/ Finalise(r)
    \/ Restart(r)
    \/ Sync(r)

Next ==
    \/ \E r \in Runners : Advance(r)
    \/ \E r \in Runners : StartCycle(r)
    \/ \E r \in Runners : Crash(r)
    \/ Halt
    \/ Resume
    \/ AccountNext /\ UNCHANGED <<ledger, tradingVars>>

Spec == Init /\ [][Next]_vars

\* A running process keeps running and the service manager restarts one that
\* died; nobody has to start a cycle, and nothing makes an order fill.  A step of
\* a runner always changes its own state.
FairSpec == Spec /\ \A r \in Runners : WF_<<run[r]>>(Advance(r))

--------------------------------------------------------------------------------
Places == {"idle", "holdings", "cash", "gate", "plan", "loop", "submit", "acked",
           "poll", "final", "down", "sync"}
Intent == [sym : Symbols, side : Sides, qty : Nat]
RunStates == [pc : Places, then : {"gate", "loop"},
              snap : [cash : Int, held : [Symbols -> Int]],
              todo : Seq(Intent), id : OrderIds \cup {0}, polls : Nat,
              sync : SUBSET OrderIds, late : BOOLEAN]
OrderStatuses == {"NONE"} \cup OpenStatuses \cup TerminalStatuses
RowStatuses == {"NONE", "SUBMITTED"} \cup TerminalStatuses

\* The types of the account, the tables, the switches and the cycles.
TypeOK ==
    /\ cash \in Int
    /\ held \in [Symbols -> Int]
    /\ orders \in [OrderIds -> [status : OrderStatuses, sym : Int, side : Sides,
                                qty : Int, filled : Nat]]
    /\ rows \in [LedgerIds -> [status : RowStatuses, filled : Nat]]
    /\ fills \in [LedgerIds -> Nat]
    /\ halted \in BOOLEAN /\ haltedToday \in BOOLEAN
    /\ run \in [Runners -> RunStates]
    /\ cycles \in Nat /\ crashes \in Nat
    /\ missed \subseteq OrderIds

\* "Fills are confirmed, not assumed" (live.py:11): whatever crashed, and
\* whichever processes polled or reconciled the same order, a row that says an
\* order ended says what Toss says, and its shares were recorded as fills at
\* most once, only after it ended.
LedgerTruthful ==
    \A id \in OrderIds :
        /\ rows[id].status \in TerminalStatuses =>
               /\ rows[id].status = orders[id].status
               /\ rows[id].filled = orders[id].filled
        /\ fills[id] # 0 => IsTerminal(id) /\ fills[id] = orders[id].filled

\* "Hard cap per day" (risk.py:10): but for orders Toss took and the bot never
\* learned of, the orders placed exceed the budget by at most one for each
\* process beyond the first.
BudgetBound ==
    Cardinality(Placed \ missed) <= MaxOrders + Cardinality(Runners) - 1

\* The kill switch survives crashes and restarts, and no cycle gets past its
\* gate while it is on: what still trades then was past it already.
OnlyLateCyclesTrade ==
    halted \/ haltedToday => \A r \in Runners : PastGate(r) => run[r].late

\* Every cycle ends, whether or not its orders fill, and so does recovery: a
\* runner is at rest again and again.
CycleEnds == \A r \in Runners : []<>(run[r].pc = "idle")

\* "/halt: stop trading at once" (runner.py:498), "Checked first, always"
\* (risk.py:7): no order is placed while the switch is on.
HaltStopsOrders ==
    [][Placed' # Placed => ~IsHalted]_vars

\* The shares of a symbol that the targets call for, at most (prices are fixed).
Share(s) ==
    Max({StartHeld[s]} \cup {(want[s] * Equity([cash |-> StartCash, held |-> StartHeld]))
                             \div Parts : want \in Targets})

\* An order still pending is left for the next cycle, which "reconciles it"
\* (live.py:212-214), and reconciling at startup avoids "the state that makes
\* a bot double-buy on restart" (live.py:299-301): as long as the ledger knows
\* of every order, what is held and on order together is within target.
NoDoubleBuy ==
    missed = {} => \A s \in Symbols : held[s] + OpenQty(s, "BUY") <= Share(s)

================================================================================
