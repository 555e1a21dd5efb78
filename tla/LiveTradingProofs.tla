--------------------------- MODULE LiveTradingProofs ---------------------------
(***************************************************************************)
(* For every set of runners, symbols and targets, every budget and every   *)
(* number of crashes: the ledger is truthful, the daily budget holds up to *)
(* one order per concurrent process, and only cycles past their gate trade *)
(* after the kill switch is thrown.                                        *)
(***************************************************************************)
EXTENDS LiveTrading, FiniteSetTheorems, TLAPS

\* A runner between the acknowledgement of its order and its last row.
Following(r) == run[r].pc \in {"acked", "poll", "final"}

\* What a cycle has in hand at each place, and what it may rely on there.
CycleOK(r) ==
    /\ run[r].pc \in {"submit", "acked", "poll", "final"} => run[r].todo # <<>>
    /\ Following(r) => run[r].id \in Placed
    /\ run[r].pc = "final" => IsTerminal(run[r].id)
    /\ \A id \in run[r].sync : IsTerminal(id)
    /\ run[r].pc \in {"idle", "down", "sync"} => run[r].then = "gate"

CycleInv == \A r \in Runners : CycleOK(r)

\* No two runners follow the same order.
OwnInv ==
    \A r, q \in Runners : r # q /\ Following(r) /\ Following(q) => run[r].id # run[q].id

\* The ledger knows nothing of an order that was not placed, and has no fill of
\* one a runner still follows.
LedgerInv ==
    \A id \in OrderIds :
        /\ id \notin Placed => rows[id].status = "NONE" /\ fills[id] = 0
        /\ \A r \in Runners : Following(r) /\ run[r].id = id => fills[id] = 0

\* The runners about to place an order, and those whose order has no row yet.
Submitting == {r \in Runners : run[r].pc = "submit"}
Unrecorded == {r \in Runners : run[r].pc = "acked"}

\* Every order the bot knows of has a row or a runner about to write it, and
\* the orders placed and about to be placed are within the bound.
BudgetInv ==
    /\ \A id \in Placed \ missed :
           id \in Recorded \/ \E r \in Unrecorded : run[r].id = id
    /\ Cardinality(Placed \ missed) + Cardinality(Submitting)
           <= MaxOrders + Cardinality(Runners) - 1

--------------------------------------------------------------------------------
\* The types of an order's fields.
LEMMA OrderTypes ==
    ASSUME TypeOK, NEW id \in OrderIds
    PROVE  /\ orders[id].status \in OrderStatuses /\ orders[id].qty \in Int
           /\ orders[id].filled \in Nat /\ Remaining(id) \in Int
  BY DEF TypeOK, Remaining

\* An accepted order is a well-typed one, and was not placed before.
LEMMA AcceptEffect ==
    ASSUME TypeOK, NEW id \in OrderIds, NEW i \in Intent, NEW qty,
           Accept(id, i.sym, i.side, qty)
    PROVE  /\ id \notin Placed
           /\ orders' = [orders EXCEPT ![id] =
                  [status |-> "PENDING", sym |-> i.sym, side |-> i.side,
                   qty |-> qty, filled |-> 0]]
           /\ cash' \in Int /\ held' = held
           /\ orders' \in [OrderIds -> [status : OrderStatuses, sym : Int,
                                        side : Sides, qty : Int, filled : Nat]]
<1>1. i.sym \in Int /\ i.side \in Sides /\ qty \in Nat
  BY AccountAssumption DEF Intent, Accept
<1>2. id \notin Placed
  BY DEF Accept, IsNextId
<1>3. cash' \in Int
  BY <1>1 DEF Accept, TypeOK
<1>4. QED
  BY <1>1, <1>2, <1>3 DEF Accept, TypeOK, OrderStatuses, OpenStatuses

\* A runner that places an order adds it to the placed ones.
LEMMA CreateEffect ==
    ASSUME TypeOK, CycleInv, NEW id \in OrderIds, NEW r \in Runners,
           run[r].pc = "submit", Create(r, id)
    PROVE  /\ id \notin Placed
           /\ \A j \in OrderIds \ {id} : orders'[j] = orders[j]
           /\ id \in Placed' /\ Placed' = Placed \cup {id}
           /\ cash' \in Int /\ held' = held
           /\ orders' \in [OrderIds -> [status : OrderStatuses, sym : Int,
                                        side : Sides, qty : Int, filled : Nat]]
<1> DEFINE i == Head(run[r].todo)
<1>1. i \in Intent
  BY DEF CycleInv, CycleOK, TypeOK, RunStates
<1>2. Accept(id, i.sym, i.side, OrderQty(i))
  BY DEF Create
<1> HIDE DEF i
<1>3. /\ id \notin Placed
      /\ orders' = [orders EXCEPT ![id] =
             [status |-> "PENDING", sym |-> i.sym, side |-> i.side,
              qty |-> OrderQty(i), filled |-> 0]]
      /\ cash' \in Int /\ held' = held
      /\ orders' \in [OrderIds -> [status : OrderStatuses, sym : Int,
                                   side : Sides, qty : Int, filled : Nat]]
  BY <1>1, <1>2, AcceptEffect
<1>4. /\ \A j \in OrderIds \ {id} : orders'[j] = orders[j]
      /\ orders'[id].status # "NONE"
  BY <1>3 DEF TypeOK
<1>5. QED
  BY <1>3, <1>4 DEF Placed

\* What the exchange does to an order keeps the account's types, and only an
\* open order is touched, which stays placed.
LEMMA ExchangeEffect ==
    ASSUME TypeOK, AccountNext
    PROVE  /\ cash' \in Int /\ held' \in [Symbols -> Int]
           /\ orders' \in [OrderIds -> [status : OrderStatuses, sym : Int,
                                        side : Sides, qty : Int, filled : Nat]]
           /\ \A id \in OrderIds : ~IsOpen(id) => orders'[id] = orders[id]
           /\ \A id \in OrderIds : IsOpen(id) => orders'[id].status # "NONE"
<1>1. ASSUME NEW id \in OrderIds, NEW n \in 1..Remaining(id), Fill(id, n)
      PROVE  /\ cash' \in Int /\ held' \in [Symbols -> Int]
             /\ orders' \in [OrderIds -> [status : OrderStatuses, sym : Int,
                                          side : Sides, qty : Int, filled : Nat]]
             /\ \A j \in OrderIds : ~IsOpen(j) => orders'[j] = orders[j]
             /\ \A j \in OrderIds : IsOpen(j) => orders'[j].status # "NONE"
  <2>1. n \in Nat /\ orders[id].filled + n \in Nat
    BY OrderTypes
  <2> DEFINE st == IF n = Remaining(id) THEN "FILLED" ELSE "PARTIAL_FILLED"
  <2>2. orders' = [orders EXCEPT ![id] = [orders[id] EXCEPT !.filled = @ + n, !.status = st]]
    BY <1>1 DEF Fill, TypeOK
  <2>3. cash' \in Int /\ held' \in [Symbols -> Int]
    BY <1>1, <2>1 DEF Fill, TypeOK
  <2>4. QED
    BY <1>1, <2>1, <2>2, <2>3
       DEF Fill, TypeOK, IsOpen, OrderStatuses, OpenStatuses, TerminalStatuses,
           RejectedStatuses
<1>2. ASSUME NEW id \in OrderIds, NEW status \in {"CANCELED", "REJECTED"},
             Close(id, status)
      PROVE  /\ cash' \in Int /\ held' \in [Symbols -> Int]
             /\ orders' \in [OrderIds -> [status : OrderStatuses, sym : Int,
                                          side : Sides, qty : Int, filled : Nat]]
             /\ \A j \in OrderIds : ~IsOpen(j) => orders'[j] = orders[j]
             /\ \A j \in OrderIds : IsOpen(j) => orders'[j].status # "NONE"
  <2>1. cash' \in Int
    BY <1>2, OrderTypes DEF Close, TypeOK
  <2>2. QED
    BY <1>2, <2>1
       DEF Close, TypeOK, IsOpen, OrderStatuses, OpenStatuses, TerminalStatuses,
           RejectedStatuses
<1>3. QED
  BY <1>1, <1>2 DEF AccountNext

\* Only the exchange and a submission change the account.
LEMMA AccountChange ==
    ASSUME [Next]_vars
    PROVE  \/ UNCHANGED account
           \/ AccountNext
           \/ \E r \in Runners, id \in OrderIds : Submit(r, id) \/ SubmitLost(r, id)
<1>1. ASSUME NEW r \in Runners, Advance(r),
             ~ \E id \in OrderIds : Submit(r, id) \/ SubmitLost(r, id)
      PROVE  UNCHANGED account
  BY <1>1
     DEF Advance, ReadHoldings, ReadCash, SnapshotFails, Gate, NothingToDo, Plan,
         CheckOrder, FinishCycle, SubmitRefused, Record, PollTerminal, PollOpen,
         PollFails, Finalise, Restart, Sync, Keep
<1>2. ASSUME NEW r \in Runners, StartCycle(r) \/ Crash(r)
      PROVE  UNCHANGED account
  BY <1>2 DEF StartCycle, Crash
<1>3. CASE Halt \/ Resume \/ UNCHANGED vars
  BY <1>3 DEF Halt, Resume, vars
<1>4. QED
  BY <1>1, <1>2, <1>3 DEF Next

\* A terminal order never changes again, and a placed one stays placed.
LEMMA OrdersStep ==
    ASSUME TypeOK, CycleInv, [Next]_vars
    PROVE  /\ \A id \in OrderIds : IsTerminal(id) => orders'[id] = orders[id]
           /\ \A id \in OrderIds : id \in Placed => id \in Placed'
<1>1. ASSUME NEW id \in OrderIds, NEW r \in Runners, Create(r, id), run[r].pc = "submit"
      PROVE  /\ id \notin Placed
             /\ \A j \in OrderIds \ {id} : orders'[j] = orders[j]
             /\ id \in Placed'
  BY <1>1, CreateEffect
<1>2. CASE AccountNext
  BY <1>2, ExchangeEffect
     DEF IsOpen, IsTerminal, Placed, OpenStatuses, TerminalStatuses, RejectedStatuses
<1>3. CASE \E r \in Runners, id \in OrderIds : Submit(r, id) \/ SubmitLost(r, id)
  BY <1>1, <1>3
     DEF Submit, SubmitLost, Placed, IsTerminal, TerminalStatuses, RejectedStatuses
<1>4. CASE UNCHANGED account
  BY <1>4 DEF account, Placed
<1>5. QED
  BY <1>2, <1>3, <1>4, AccountChange

--------------------------------------------------------------------------------
\* A runner whose place and work in hand do not change still relies on the
\* same facts, whatever the others and the exchange do.
LEMMA OthersKeep ==
    ASSUME TypeOK, CycleInv, [Next]_vars, NEW q \in Runners,
           run'[q].pc = run[q].pc, run'[q].todo = run[q].todo, run'[q].id = run[q].id,
           run'[q].sync = run[q].sync, run'[q].then = run[q].then
    PROVE  CycleOK(q)'
<1>1. CycleOK(q)
  BY DEF CycleInv
<1>2. run[q].sync \subseteq OrderIds
  BY DEF TypeOK, RunStates
<1>3. \A id \in OrderIds : IsTerminal(id) => IsTerminal(id)'
  BY OrdersStep DEF IsTerminal
<1>4. \A id \in OrderIds : id \in Placed => id \in Placed'
  BY OrdersStep
<1>5. Placed \subseteq OrderIds
  BY DEF Placed
<1>6. (run[q].pc = "final" => IsTerminal(run[q].id))'
  BY <1>1, <1>3, <1>5 DEF CycleOK, Following, IsTerminal
<1>7. QED
  BY <1>1, <1>2, <1>3, <1>4, <1>5, <1>6 DEF CycleOK, Following

\* One runner moves to a state x that it may be in.
LEMMA RunnerMoves ==
    ASSUME TypeOK, CycleInv, [Next]_vars, NEW r \in Runners, NEW x \in RunStates,
           run' = [run EXCEPT ![r] = x], CycleOK(r)'
    PROVE  run' \in [Runners -> RunStates] /\ CycleInv'
<1>1. run' \in [Runners -> RunStates]
  BY DEF TypeOK
<1>2. ASSUME NEW q \in Runners, q # r
      PROVE  CycleOK(q)'
  <2>1. run'[q] = run[q]
    BY <1>2 DEF TypeOK
  <2>2. QED
    BY <2>1, OthersKeep
<1>3. QED
  BY <1>1, <1>2 DEF CycleInv

\* A move to another place of the same cycle.
LEMMA GotoKeeps ==
    ASSUME TypeOK, CycleInv, [Next]_vars, NEW r \in Runners, NEW pc \in Places,
           Goto(r, pc), CycleOK(r)'
    PROVE  run' \in [Runners -> RunStates] /\ CycleInv'
<1>1. [run[r] EXCEPT !.pc = pc] \in RunStates
  BY DEF TypeOK, RunStates
<1>2. QED
  BY <1>1, RunnerMoves DEF Goto

\* A runner at rest has no cycle in hand.
LEMMA AtRestKeeps ==
    ASSUME TypeOK, CycleInv, [Next]_vars, NEW r \in Runners, NEW pc \in {"idle", "down"},
           run' = [run EXCEPT ![r] = AtRest(pc)]
    PROVE  run' \in [Runners -> RunStates] /\ CycleInv'
<1>1. AtRest(pc) \in RunStates
  BY DEF AtRest, NoSnap, RunStates, Places
<1>2. CycleOK(r)'
  BY DEF AtRest, CycleOK, Following, TypeOK
<1>3. QED
  BY <1>1, <1>2, RunnerMoves

\* The next intent of the list: the one in hand is dropped.
LEMMA NextIntentKeeps ==
    ASSUME TypeOK, CycleInv, [Next]_vars, NEW r \in Runners, run[r].todo # <<>>,
           run[r].pc \notin {"sync"}, NextIntent(r)
    PROVE  run' \in [Runners -> RunStates] /\ CycleInv'
<1> DEFINE x == [run[r] EXCEPT !.pc = "loop", !.todo = Tail(@), !.id = 0, !.polls = 0]
<1>1. x \in RunStates
  <2>1. run[r].todo \in Seq(Intent) /\ run[r] \in RunStates
    BY DEF TypeOK, RunStates
  <2>2. Tail(run[r].todo) \in Seq(Intent)
    BY <2>1
  <2> HIDE DEF Intent
  <2>3. QED
    BY <2>1, <2>2 DEF RunStates, Places
<1>2. run' = [run EXCEPT ![r] = x]
  BY DEF NextIntent, TypeOK, RunStates
<1>3. x.pc = "loop" /\ x.sync = run[r].sync
  BY DEF TypeOK, RunStates
<1>4. CycleOK(r)'
  <2>1. run'[r].pc = "loop" /\ run'[r].sync = run[r].sync
    BY <1>2, <1>3 DEF TypeOK
  <2>2. \A id \in run[r].sync : IsTerminal(id)'
    BY OrdersStep DEF CycleInv, CycleOK, TypeOK, RunStates, IsTerminal
  <2>3. QED
    BY <2>1, <2>2 DEF CycleOK, Following
<1> HIDE DEF x
<1>5. QED
  BY <1>1, <1>2, <1>4, RunnerMoves

--------------------------------------------------------------------------------
\* A cycle's list of orders is a finite sequence of well-typed intents.
LEMMA ScheduleType ==
    ASSUME NEW want \in Targets, NEW r \in Runners, TypeOK,
           NEW tradable \in SUBSET Symbols,
           NEW q \in Schedules(want, run[r].snap, tradable)
    PROVE  q \in Seq(Intent)
<1> DEFINE S == Intents(want, run[r].snap, tradable)
<1>1. S \subseteq Intent
  BY DEF Intents, IntentFor, Intent, Sides
<1>2. IsFiniteSet(tradable)
  BY AccountAssumption, FS_Subset
<1>3. IsFiniteSet({IntentFor(want, run[r].snap, s) : s \in tradable})
  <2> DEFINE f == [s \in tradable |-> IntentFor(want, run[r].snap, s)]
  <2> DEFINE T == {f[s] : s \in tradable}
  <2>1. f \in Surjection(tradable, T)
    BY DEF Surjection
  <2>2. IsFiniteSet(T)
    BY <1>2, <2>1, FS_Surjection
  <2>3. T = {IntentFor(want, run[r].snap, s) : s \in tradable}
    OBVIOUS
  <2>4. QED
    BY <2>2, <2>3
<1>4. IsFiniteSet(S)
  BY <1>3, FS_Subset, FS_EmptySet DEF Intents
<1>5. Cardinality(S) \in Nat
  BY <1>4, FS_CardinalityType
<1>6. q \in [1..Cardinality(S) -> S]
  BY DEF Schedules
<1> HIDE DEF S
<1>7. q \in [1..Cardinality(S) -> Intent]
  BY <1>1, <1>6
<1>8. QED
  BY <1>5, <1>7

\* Steps of a runner that leave the account, the ledger and the switches alone.
LEMMA QuietStep ==
    ASSUME TypeOK, CycleInv, [Next]_vars, NEW r \in Runners,
           \/ ReadHoldings(r) \/ \E seen \in Seen : ReadCash(r, seen)
           \/ SnapshotFails(r) \/ NothingToDo(r)
           \/ CheckOrder(r) \/ FinishCycle(r) \/ SubmitRefused(r)
           \/ PollTerminal(r) \/ PollOpen(r) \/ PollFails(r) \/ Restart(r)
           \/ \E want \in Targets, tradable \in SUBSET Symbols : Plan(r, want, tradable)
    PROVE  run' \in [Runners -> RunStates] /\ CycleInv'
<1>0. run[r] \in RunStates /\ CycleOK(r)
  BY DEF TypeOK, CycleInv
<1>s. \A id \in run[r].sync : IsTerminal(id)'
  BY <1>0, OrdersStep DEF CycleOK, RunStates, IsTerminal
<1>1. ASSUME ReadHoldings(r)
      PROVE  run' \in [Runners -> RunStates] /\ CycleInv'
  <2> DEFINE x == [run[r] EXCEPT !.pc = "cash", !.snap.held = held]
  <2>1. x \in RunStates /\ run' = [run EXCEPT ![r] = x]
    BY <1>0, <1>1 DEF ReadHoldings, TypeOK, RunStates, Places
  <2>2. x.pc = "cash" /\ x.sync = run[r].sync
    BY <1>0 DEF RunStates
  <2> HIDE DEF x
  <2>3. CycleOK(r)'
    BY <2>1, <2>2, <1>s DEF CycleOK, Following, TypeOK
  <2>4. QED
    BY <2>1, <2>3, RunnerMoves
<1>2. ASSUME NEW seen \in Seen, ReadCash(r, seen)
      PROVE  run' \in [Runners -> RunStates] /\ CycleInv'
  <2> DEFINE x == [run[r] EXCEPT !.pc = run[r].then, !.snap.cash = seen]
  <2>0. seen \in Int
    BY DEF Seen, TypeOK
  <2>1. x \in RunStates /\ run' = [run EXCEPT ![r] = x]
    BY <1>0, <1>2, <2>0 DEF ReadCash, TypeOK, RunStates, Places
  <2>2. x.pc \in {"gate", "loop"} /\ x.sync = run[r].sync
    BY <1>0 DEF RunStates
  <2> HIDE DEF x
  <2>3. CycleOK(r)'
    BY <2>1, <2>2, <1>s DEF CycleOK, Following, TypeOK
  <2>4. QED
    BY <2>1, <2>3, RunnerMoves
<1>3. ASSUME SnapshotFails(r) \/ NothingToDo(r) \/ FinishCycle(r)
      PROVE  run' \in [Runners -> RunStates] /\ CycleInv'
  BY <1>3, AtRestKeeps DEF SnapshotFails, NothingToDo, FinishCycle, EndCycle
<1>4. ASSUME run[r].pc = "loop", run[r].todo # <<>>, Goto(r, "submit")
      PROVE  run' \in [Runners -> RunStates] /\ CycleInv'
  <2>1. run'[r].pc = "submit" /\ run'[r].sync = run[r].sync /\ run'[r].todo # <<>>
    BY <1>0, <1>4 DEF Goto, TypeOK, RunStates
  <2>2. CycleOK(r)'
    BY <2>1, <1>s DEF CycleOK, Following
  <2>3. QED
    BY <1>4, <2>2, GotoKeeps DEF Places
<1>5. ASSUME CheckOrder(r)
      PROVE  run' \in [Runners -> RunStates] /\ CycleInv'
  BY <1>4, <1>5, NextIntentKeeps DEF CheckOrder
<1>6. ASSUME SubmitRefused(r) \/ PollFails(r)
      PROVE  run' \in [Runners -> RunStates] /\ CycleInv'
  BY <1>0, <1>6, NextIntentKeeps DEF SubmitRefused, PollFails, CycleOK
<1>7. ASSUME PollTerminal(r)
      PROVE  run' \in [Runners -> RunStates] /\ CycleInv'
  <2>1. /\ run'[r].pc = "final" /\ run'[r].sync = run[r].sync
        /\ run'[r].todo = run[r].todo /\ run'[r].id = run[r].id
    BY <1>0, <1>7 DEF PollTerminal, Goto, TypeOK, RunStates
  <2>2. /\ run[r].todo # <<>> /\ run[r].id \in Placed'
        /\ orders'[run[r].id] = orders[run[r].id]
    BY <1>0, <1>7, OrdersStep DEF PollTerminal, CycleOK, Following, IsTerminal, Placed
  <2>3. orders'[run'[r].id].status \in TerminalStatuses
    BY <1>7, <2>1, <2>2 DEF PollTerminal, IsTerminal
  <2>4. CycleOK(r)'
    BY <2>1, <2>2, <2>3, <1>s DEF CycleOK, Following, IsTerminal
  <2>5. QED
    BY <1>7, <2>4, GotoKeeps DEF PollTerminal, Places
<1>8. ASSUME PollOpen(r)
      PROVE  run' \in [Runners -> RunStates] /\ CycleInv'
  <2> DEFINE x == [run[r] EXCEPT !.polls = @ + 1]
  <2>1. CASE NextIntent(r)
    BY <1>0, <1>8, <2>1, NextIntentKeeps DEF PollOpen, CycleOK
  <2>2. CASE run' = [run EXCEPT ![r] = x]
    <3>1. x \in RunStates
      <4>1. run[r].polls + 1 \in Nat
        BY <1>0 DEF RunStates
      <4>2. \A y \in RunStates, n \in Nat : [y EXCEPT !.polls = n] \in RunStates
        BY DEF RunStates
      <4> QED
        BY <1>0, <4>1, <4>2
    <3>2. /\ x.pc = run[r].pc /\ x.todo = run[r].todo /\ x.id = run[r].id
          /\ x.sync = run[r].sync /\ x.then = run[r].then
      BY <1>0 DEF RunStates
    <3> HIDE DEF x
    <3>3. run'[r] = x
      BY <2>2 DEF TypeOK
    <3>4. CycleOK(r)'
      BY <3>2, <3>3, OthersKeep
    <3>5. QED
      BY <2>2, <3>1, <3>4, RunnerMoves
  <2>3. run' = [run EXCEPT ![r].polls = @ + 1] => run' = [run EXCEPT ![r] = x]
    BY DEF TypeOK
  <2>4. QED
    BY <1>8, <2>1, <2>2, <2>3 DEF PollOpen
<1>9. ASSUME Restart(r)
      PROVE  run' \in [Runners -> RunStates] /\ CycleInv'
  <2> DEFINE S == {id \in OrderIds : IsTerminal(id)}
  <2> DEFINE x == [run[r] EXCEPT !.pc = "sync", !.sync = S]
  <2>1. S \subseteq OrderIds /\ \A id \in S : IsTerminal(id)'
    BY OrdersStep DEF IsTerminal
  <2>2. run' = [run EXCEPT ![r] = [run[r] EXCEPT !.pc = "sync", !.sync = S]]
    BY <1>9 DEF Restart, TypeOK
  <2> HIDE DEF S
  <2>3. x \in RunStates /\ x.pc = "sync" /\ x.sync = S /\ x.then = run[r].then
    BY <1>0, <2>1 DEF RunStates, Places
  <2> HIDE DEF x
  <2>4. run' = [run EXCEPT ![r] = x]
    BY <2>2 DEF x
  <2>5. run[r].then = "gate"
    BY <1>0, <1>9 DEF CycleOK, Restart
  <2>6. CycleOK(r)'
    BY <2>1, <2>3, <2>4, <2>5 DEF CycleOK, Following, TypeOK
  <2>7. QED
    BY <2>3, <2>4, <2>6, RunnerMoves
<1>10. ASSUME NEW want \in Targets, NEW tradable \in SUBSET Symbols, Plan(r, want, tradable)
       PROVE  run' \in [Runners -> RunStates] /\ CycleInv'
  <2>1. PICK q \in Schedules(want, run[r].snap, tradable) :
            run' = [run EXCEPT ![r].pc = "loop", ![r].todo = q]
    BY <1>10 DEF Plan
  <2>2. q \in Seq(Intent)
    BY <1>0, ScheduleType, <1>10
  <2> DEFINE x == [run[r] EXCEPT !.pc = "loop", !.todo = q]
  <2>3. x \in RunStates /\ x.pc = "loop" /\ x.sync = run[r].sync
    BY <1>0, <2>2 DEF RunStates, Places
  <2>4. run' = [run EXCEPT ![r] = x]
    BY <2>1 DEF TypeOK
  <2> HIDE DEF x
  <2>5. CycleOK(r)'
    BY <2>3, <2>4, <1>s DEF CycleOK, Following, TypeOK
  <2>6. QED
    BY <2>3, <2>4, <2>5, RunnerMoves
<1>11. QED
  BY <1>1, <1>2, <1>3, <1>5, <1>6, <1>7, <1>8, <1>9, <1>10

\* Steps of the switches and of the clockwork around a cycle.
LEMMA SwitchStep ==
    ASSUME TypeOK, CycleInv, [Next]_vars,
           \/ \E r \in Runners : StartCycle(r) \/ Crash(r)
           \/ \E r \in Runners, loss \in BOOLEAN : Gate(r, loss)
           \/ Halt \/ Resume
    PROVE  run' \in [Runners -> RunStates] /\ CycleInv'
<1>1. ASSUME NEW r \in Runners, NEW pc \in {"holdings", "plan"},
             run[r].pc \in {"idle", "gate"}, Goto(r, pc)
      PROVE  run' \in [Runners -> RunStates] /\ CycleInv'
  <2>1. run'[r].pc = pc /\ run'[r].sync = run[r].sync
    BY <1>1 DEF Goto, TypeOK, RunStates
  <2>2. \A id \in run[r].sync : IsTerminal(id)'
    BY OrdersStep DEF CycleInv, CycleOK, TypeOK, RunStates, IsTerminal
  <2>3. CycleOK(r)'
    BY <2>1, <2>2 DEF CycleOK, Following
  <2>4. QED
    BY <1>1, <2>3, GotoKeeps DEF Places
<1>2. ASSUME NEW R \in SUBSET Runners,
             \A q \in R : run'[q] = MarkLate(q),
             \A q \in Runners \ R : run'[q] = AtRest("idle"),
             DOMAIN run' = Runners, run' = [q \in Runners |-> run'[q]]
      PROVE  run' \in [Runners -> RunStates] /\ CycleInv'
  <2>1. AtRest("idle") \in RunStates
    BY DEF AtRest, NoSnap, RunStates, Places
  <2>2. ASSUME NEW q \in Runners
        PROVE  MarkLate(q) \in RunStates
    <3>1. PastGate(q) \in BOOLEAN
      BY DEF PastGate
    <3>2. QED
      BY <3>1, <2>2 DEF MarkLate, TypeOK, RunStates
  <2>3. ASSUME NEW q \in R
        PROVE  CycleOK(q)'
    <3>1. run[q] \in RunStates
      BY DEF TypeOK
    <3>2. /\ run'[q].pc = run[q].pc /\ run'[q].todo = run[q].todo
          /\ run'[q].id = run[q].id /\ run'[q].sync = run[q].sync
          /\ run'[q].then = run[q].then
      BY <1>2, <3>1 DEF MarkLate, RunStates
    <3>3. QED
      BY <3>2, OthersKeep
  <2>4. ASSUME NEW q \in Runners \ R
        PROVE  CycleOK(q)'
    BY <1>2 DEF AtRest, CycleOK, Following
  <2>5. QED
    BY <1>2, <2>1, <2>2, <2>3, <2>4 DEF CycleInv
<1>3. CASE \E r \in Runners : StartCycle(r)
  BY <1>1, <1>3 DEF StartCycle
<1>4. CASE \E r \in Runners : Crash(r)
  BY <1>4, AtRestKeeps DEF Crash
<1>5. ASSUME NEW r \in Runners, NEW loss \in BOOLEAN, Gate(r, loss)
      PROVE  run' \in [Runners -> RunStates] /\ CycleInv'
  <2>1. CASE EndCycle(r)
    BY <2>1, AtRestKeeps DEF EndCycle
  <2>2. CASE run' = [q \in Runners |-> IF q = r THEN AtRest("idle") ELSE MarkLate(q)]
    <3> DEFINE R == Runners \ {r}
    <3>1. /\ \A q \in R : run'[q] = MarkLate(q)
          /\ \A q \in Runners \ R : run'[q] = AtRest("idle")
          /\ DOMAIN run' = Runners /\ run' = [q \in Runners |-> run'[q]]
      BY <2>2
    <3> HIDE DEF R
    <3>2. R \in SUBSET Runners
      BY DEF R
    <3>3. QED
      BY <3>1, <3>2, <1>2
  <2>3. CASE Goto(r, "plan")
    BY <1>1, <1>5, <2>3 DEF Gate
  <2>4. QED
    BY <1>5, <2>1, <2>2, <2>3 DEF Gate
<1>6. CASE Halt
  BY <1>2, <1>6 DEF Halt
<1>7. CASE Resume
  <2> DEFINE x(q) == [run[q] EXCEPT !.late = FALSE]
  <2>1. ASSUME NEW q \in Runners
        PROVE  /\ run'[q] \in RunStates
               /\ run'[q].pc = run[q].pc /\ run'[q].todo = run[q].todo
               /\ run'[q].id = run[q].id /\ run'[q].sync = run[q].sync
               /\ run'[q].then = run[q].then
    <3>1. run[q] \in RunStates /\ run'[q] = x(q)
      BY <1>7 DEF Resume, TypeOK
    <3>2. QED
      BY <3>1 DEF RunStates
  <2>2. run' \in [Runners -> RunStates]
    <3>1. run' = [q \in Runners |-> run'[q]]
      BY <1>7 DEF Resume
    <3>2. QED
      BY <2>1, <3>1
  <2>3. ASSUME NEW q \in Runners
        PROVE  CycleOK(q)'
    BY <2>1, OthersKeep
  <2>4. QED
    BY <2>2, <2>3 DEF CycleInv
<1>8. QED
  BY <1>3, <1>4, <1>5, <1>6, <1>7

\* Steps of a runner that change the account or the ledger.
LEMMA TradeStep ==
    ASSUME TypeOK, CycleInv, [Next]_vars, NEW r \in Runners,
           \/ \E id \in OrderIds : Submit(r, id) \/ SubmitLost(r, id)
           \/ Record(r) \/ Finalise(r) \/ Sync(r)
    PROVE  run' \in [Runners -> RunStates] /\ CycleInv'
<1>0. run[r] \in RunStates /\ CycleOK(r)
  BY DEF TypeOK, CycleInv
<1>s. \A id \in run[r].sync : IsTerminal(id)'
  BY <1>0, OrdersStep DEF CycleOK, RunStates, IsTerminal
<1>1. ASSUME NEW id \in OrderIds, Submit(r, id)
      PROVE  run' \in [Runners -> RunStates] /\ CycleInv'
  <2> DEFINE x == [run[r] EXCEPT !.pc = "acked", !.id = id]
  <2>1. run' = [run EXCEPT ![r] = x]
    BY <1>1 DEF Submit, TypeOK
  <2>2. /\ x \in RunStates /\ x.pc = "acked" /\ x.id = id
        /\ x.sync = run[r].sync /\ x.todo = run[r].todo
    BY <1>0 DEF RunStates, Places
  <2> HIDE DEF x
  <2>3. id \in Placed' /\ run[r].todo # <<>>
    BY <1>0, <1>1, CreateEffect DEF Submit, CycleOK
  <2>4. run'[r] = x
    BY <2>1 DEF TypeOK
  <2>5. CycleOK(r)'
    BY <2>2, <2>3, <2>4, <1>s DEF CycleOK, Following
  <2>6. QED
    BY <2>1, <2>2, <2>5, RunnerMoves
<1>2. ASSUME NEW id \in OrderIds, SubmitLost(r, id)
      PROVE  run' \in [Runners -> RunStates] /\ CycleInv'
  BY <1>0, <1>2, NextIntentKeeps DEF SubmitLost, CycleOK
<1>3. ASSUME Record(r)
      PROVE  run' \in [Runners -> RunStates] /\ CycleInv'
  <2>1. /\ run'[r].pc = "poll" /\ run'[r].sync = run[r].sync
        /\ run'[r].todo = run[r].todo /\ run'[r].id = run[r].id
    BY <1>0, <1>3 DEF Record, Goto, TypeOK, RunStates
  <2>2. run[r].todo # <<>> /\ run[r].id \in Placed'
    BY <1>0, <1>3, OrdersStep DEF Record, CycleOK, Following, Placed
  <2>3. CycleOK(r)'
    BY <2>1, <2>2, <1>s DEF CycleOK, Following
  <2>4. QED
    BY <1>3, <2>3, GotoKeeps DEF Record, Places
<1>4. ASSUME Finalise(r)
      PROVE  run' \in [Runners -> RunStates] /\ CycleInv'
  <2> DEFINE x == [run[r] EXCEPT !.pc = "holdings", !.then = "loop",
                                 !.todo = Tail(@), !.id = 0, !.polls = 0]
  <2>1. CASE NextIntent(r)
    BY <1>0, <1>4, <2>1, NextIntentKeeps DEF Finalise, CycleOK
  <2>2. CASE run' = [run EXCEPT ![r].pc = "holdings", ![r].then = "loop",
                                ![r].todo = Tail(@), ![r].id = 0, ![r].polls = 0]
    <3>1. run[r].todo \in Seq(Intent) /\ run[r].todo # <<>>
      BY <1>0, <1>4 DEF Finalise, CycleOK, RunStates
    <3>2. Tail(run[r].todo) \in Seq(Intent)
      BY <3>1
    <3>3. run' = [run EXCEPT ![r] = x]
      BY <2>2 DEF TypeOK, RunStates
    <3>4. x \in RunStates /\ x.pc = "holdings" /\ x.sync = run[r].sync
      <4> HIDE DEF Intent
      <4>1. QED
        BY <1>0, <3>2 DEF RunStates, Places
    <3> HIDE DEF x
    <3>5. CycleOK(r)'
      BY <3>3, <3>4, <1>s DEF CycleOK, Following, TypeOK
    <3>6. QED
      BY <3>3, <3>4, <3>5, RunnerMoves
  <2>3. QED
    BY <1>4, <2>1, <2>2 DEF Finalise
<1>5. ASSUME Sync(r)
      PROVE  run' \in [Runners -> RunStates] /\ CycleInv'
  <2>0. run[r].then = "gate"
    BY <1>0, <1>5 DEF Sync, CycleOK
  <2>1. CASE Goto(r, "idle")
    <3>1. run'[r].pc = "idle" /\ run'[r].sync = run[r].sync /\ run'[r].then = "gate"
      BY <1>0, <2>0, <2>1 DEF Goto, TypeOK, RunStates
    <3>2. CycleOK(r)'
      BY <3>1, <1>s DEF CycleOK, Following
    <3>3. QED
      BY <2>1, <3>2, GotoKeeps DEF Places
  <2>2. ASSUME NEW id \in run[r].sync, run' = [run EXCEPT ![r].sync = @ \ {id}]
        PROVE  run' \in [Runners -> RunStates] /\ CycleInv'
    <3> DEFINE x == [run[r] EXCEPT !.sync = @ \ {id}]
    <3>1. run' = [run EXCEPT ![r] = x]
      BY <2>2 DEF TypeOK
    <3>2. /\ x \in RunStates /\ x.pc = "sync" /\ x.then = "gate"
          /\ x.sync \subseteq run[r].sync
      BY <1>0, <1>5, <2>0 DEF Sync, RunStates
    <3> HIDE DEF x
    <3>3. CycleOK(r)'
      BY <3>1, <3>2, <1>s DEF CycleOK, Following, TypeOK
    <3>4. QED
      BY <3>1, <3>2, <3>3, RunnerMoves
  <2>3. QED
    BY <1>5, <2>1, <2>2 DEF Sync
<1>6. QED
  BY <1>1, <1>2, <1>3, <1>4, <1>5

\* What each step does to the ledger: nothing, or one row of an order that is
\* followed, or that the recovery read as terminal.
LEMMA LedgerSteps ==
    ASSUME TypeOK, CycleInv, [Next]_vars
    PROVE  \/ UNCHANGED ledger
           \/ \E r \in Runners : Record(r) /\ run[r].id \in OrderIds
           \/ \E r \in Runners : Finalise(r) /\ run[r].id \in OrderIds
           \/ \E r \in Runners : \E id \in run[r].sync :
                  /\ run[r].pc = "sync"
                  /\ SyncOrder(id, orders[id].status, orders[id].filled)
                  /\ run' = [run EXCEPT ![r].sync = @ \ {id}]
                  /\ UNCHANGED account
<1>1. ASSUME NEW r \in Runners, Advance(r)
      PROVE  UNCHANGED ledger \/ Record(r) \/ Finalise(r) \/ Sync(r)
  BY <1>1 DEF Advance, ReadHoldings, ReadCash, SnapshotFails, Gate, NothingToDo, Plan,
         CheckOrder, FinishCycle, Submit, SubmitRefused, SubmitLost, PollTerminal,
         PollOpen, PollFails, Restart, Keep, ledger
<1>2. ASSUME NEW r \in Runners, StartCycle(r) \/ Crash(r)
      PROVE  UNCHANGED ledger
  BY <1>2 DEF StartCycle, Crash
<1>3. CASE Halt \/ Resume \/ UNCHANGED vars
  BY <1>3 DEF Halt, Resume, vars
<1>4. CASE AccountNext /\ UNCHANGED <<ledger, tradingVars>>
  BY <1>4
<1>5. ASSUME NEW r \in Runners, Record(r) \/ Finalise(r)
      PROVE  run[r].id \in OrderIds
  BY <1>5 DEF CycleInv, CycleOK, Following, Record, Finalise, Placed
<1>6. ASSUME NEW r \in Runners, Sync(r), ~UNCHANGED ledger
      PROVE  \E id \in run[r].sync :
                 /\ run[r].pc = "sync"
                 /\ SyncOrder(id, orders[id].status, orders[id].filled)
                 /\ run' = [run EXCEPT ![r].sync = @ \ {id}]
                 /\ UNCHANGED account
  BY <1>6 DEF Sync
<1>7. QED
  BY <1>1, <1>2, <1>3, <1>4, <1>5, <1>6, Zenon DEF Next

\* TypeOK, in parts.
AccountTypes ==
    /\ cash \in Int /\ held \in [Symbols -> Int]
    /\ orders \in [OrderIds -> [status : OrderStatuses, sym : Int,
                                side : Sides, qty : Int, filled : Nat]]
LedgerTypes ==
    /\ rows \in [LedgerIds -> [status : RowStatuses, filled : Nat]]
    /\ fills \in [LedgerIds -> Nat]
SwitchTypes ==
    /\ halted \in BOOLEAN /\ haltedToday \in BOOLEAN
    /\ cycles \in Nat /\ crashes \in Nat /\ missed \subseteq OrderIds

\* The types and the facts a cycle relies on are kept by every step.
LEMMA TypeStep ==
    ASSUME TypeOK, CycleInv, [Next]_vars
    PROVE  TypeOK' /\ CycleInv'
<1>1. run' \in [Runners -> RunStates] /\ CycleInv'
  <2>1. CASE UNCHANGED run
    BY <2>1, OthersKeep DEF TypeOK, CycleInv
  <2>2. ASSUME NEW r \in Runners, Advance(r)
        PROVE  run' \in [Runners -> RunStates] /\ CycleInv'
    BY <2>2, QuietStep, SwitchStep, TradeStep DEF Advance
  <2>3. QED
    BY <2>1, <2>2, SwitchStep DEF Next, vars, tradingVars
<1>2. AccountTypes'
  <2>1. CASE UNCHANGED account
    BY <2>1 DEF account, TypeOK, AccountTypes
  <2>2. CASE AccountNext
    BY <2>2, ExchangeEffect DEF AccountTypes
  <2>3. ASSUME NEW r \in Runners, NEW id \in OrderIds, Submit(r, id) \/ SubmitLost(r, id)
        PROVE  AccountTypes'
    BY <2>3, CreateEffect DEF Submit, SubmitLost, TypeOK, AccountTypes
  <2>4. QED
    BY <2>1, <2>2, <2>3, AccountChange
<1>3. LedgerTypes'
  <2>1. ASSUME NEW r \in Runners, Record(r), run[r].id \in OrderIds
        PROVE  LedgerTypes'
    BY <2>1, TradingAssumption DEF Record, RecordSubmission, TypeOK, RowStatuses,
           LedgerTypes
  <2>2. ASSUME NEW id \in OrderIds, IsTerminal(id)
        PROVE  /\ orders[id].status \in RowStatuses /\ orders[id].filled \in Nat
    BY <2>2 DEF TypeOK, IsTerminal, RowStatuses
  <2>3. ASSUME NEW r \in Runners, Finalise(r), run[r].id \in OrderIds
        PROVE  LedgerTypes'
    <3>1. IsTerminal(run[r].id)
      BY <2>3 DEF CycleInv, CycleOK, Finalise
    <3>2. RecordFinal(run[r].id, orders[run[r].id].status, orders[run[r].id].filled)
      BY <2>3 DEF Finalise
    <3>3. QED
      BY <2>2, <2>3, <3>1, <3>2, TradingAssumption DEF RecordFinal, TypeOK, LedgerTypes
  <2>4. ASSUME NEW r \in Runners, NEW id \in run[r].sync,
               SyncOrder(id, orders[id].status, orders[id].filled)
        PROVE  LedgerTypes'
    <3>1. id \in OrderIds /\ IsTerminal(id)
      BY <2>4 DEF CycleInv, CycleOK, TypeOK, RunStates
    <3>2. QED
      BY <2>2, <2>4, <3>1, TradingAssumption DEF SyncOrder, TypeOK, ledger, LedgerTypes
  <2>5. CASE UNCHANGED ledger
    BY <2>5 DEF ledger, TypeOK, LedgerTypes
  <2>6. QED
    BY <2>1, <2>3, <2>4, <2>5, LedgerSteps
<1>4. SwitchTypes'
  <2>1. ASSUME NEW r \in Runners, Advance(r)
        PROVE  SwitchTypes'
    BY <2>1 DEF Advance, ReadHoldings, ReadCash, SnapshotFails, Gate, NothingToDo,
         Plan, CheckOrder, FinishCycle, Submit, SubmitRefused, SubmitLost, Record,
         PollTerminal, PollOpen, PollFails, Finalise, Restart, Sync, Keep, TypeOK,
         SwitchTypes
  <2>2. ASSUME NEW r \in Runners, Crash(r)
        PROVE  SwitchTypes'
    <3>1. run[r].pc = "acked" => run[r].id \in OrderIds
      BY DEF CycleInv, CycleOK, Following, Placed
    <3>2. QED
      BY <2>2, <3>1 DEF Crash, TypeOK, SwitchTypes
  <2>3. ASSUME NEW r \in Runners, StartCycle(r)
        PROVE  SwitchTypes'
    BY <2>3 DEF StartCycle, TypeOK, SwitchTypes
  <2>4. CASE Halt \/ Resume \/ UNCHANGED tradingVars
    BY <2>4 DEF Halt, Resume, tradingVars, TypeOK, SwitchTypes
  <2>5. QED
    BY <2>1, <2>2, <2>3, <2>4 DEF Next, vars
<1>5. QED
  BY <1>1, <1>2, <1>3, <1>4 DEF TypeOK, AccountTypes, LedgerTypes, SwitchTypes

\* The types hold at the start, when no cycle is under way.
LEMMA TypeInit ==
    ASSUME Init
    PROVE  TypeOK /\ CycleInv
<1>1. AtRest("idle") \in RunStates
  BY DEF AtRest, NoSnap, RunStates, Places
<1>2. /\ cash \in Int /\ held \in [Symbols -> Int]
      /\ orders \in [OrderIds -> [status : OrderStatuses, sym : Int,
                                  side : Sides, qty : Int, filled : Nat]]
  BY AccountAssumption DEF Init, AccountInit, NoOrder, OrderStatuses, Sides
<1>3. /\ rows \in [LedgerIds -> [status : RowStatuses, filled : Nat]]
      /\ fills \in [LedgerIds -> Nat]
  BY DEF Init, LedgerInit, NoRow, RowStatuses
<1>4. TypeOK
  BY <1>1, <1>2, <1>3 DEF Init, TypeOK
<1>5. CycleInv
  BY DEF Init, CycleInv, CycleOK, AtRest, Following
<1>6. QED
  BY <1>4, <1>5

\* The account, the tables, the switches and the cycles keep their types; in
\* particular a row never gets a status that only an order in work has.
THEOREM TypeCorrect == Spec => []TypeOK
<1>1. Init => TypeOK /\ CycleInv
  BY TypeInit
<1>2. TypeOK /\ CycleInv /\ [Next]_vars => TypeOK' /\ CycleInv'
  BY TypeStep
<1>3. QED
  BY <1>1, <1>2, PTL DEF Spec

--------------------------------------------------------------------------------
\* A step of a runner that is not its gate touches no switch and no other
\* runner, and gets past no gate.
LEMMA AdvanceStaysPast ==
    ASSUME TypeOK, CycleInv, NEW r \in Runners, Advance(r),
           ~ \E loss \in BOOLEAN : Gate(r, loss)
    PROVE  /\ UNCHANGED <<halted, haltedToday>>
           /\ \A q \in Runners \ {r} : run'[q] = run[q]
           /\ PastGate(r)' => PastGate(r) /\ run'[r].late = run[r].late
<1> DEFINE Goal == /\ UNCHANGED <<halted, haltedToday>>
                   /\ \A q \in Runners \ {r} : run'[q] = run[q]
                   /\ PastGate(r)' => PastGate(r) /\ run'[r].late = run[r].late
<1>0. run \in [Runners -> RunStates] /\ run[r] \in RunStates
  BY DEF TypeOK
<1>1. CASE ReadHoldings(r) \/ \E seen \in Seen : ReadCash(r, seen)
  BY <1>0, <1>1 DEF ReadHoldings, ReadCash, Keep, PastGate, RunStates
<1>2. CASE SnapshotFails(r) \/ NothingToDo(r) \/ FinishCycle(r)
  BY <1>0, <1>2 DEF SnapshotFails, NothingToDo, FinishCycle, EndCycle, Keep,
                    PastGate, AtRest
<1>3. ASSUME NEW want \in Targets, NEW tradable \in SUBSET Symbols, Plan(r, want, tradable)
      PROVE  Goal
  BY <1>0, <1>3 DEF Plan, Keep, PastGate, RunStates
<1>4. ASSUME NextIntent(r), PastGate(r), UNCHANGED <<halted, haltedToday>>
      PROVE  Goal
  BY <1>0, <1>4 DEF NextIntent, PastGate, RunStates
<1>5. ASSUME NEW pc \in Places, Goto(r, pc), PastGate(r), UNCHANGED <<halted, haltedToday>>
      PROVE  Goal
  BY <1>0, <1>5 DEF Goto, PastGate, RunStates
<1>6. CASE CheckOrder(r)
  BY <1>4, <1>5, <1>6 DEF CheckOrder, Keep, PastGate, Places
<1>7. CASE SubmitRefused(r) \/ PollFails(r) \/ \E id \in OrderIds : SubmitLost(r, id)
  BY <1>4, <1>7 DEF SubmitRefused, PollFails, SubmitLost, Keep, PastGate
<1>8. CASE \E id \in OrderIds : Submit(r, id)
  BY <1>0, <1>8 DEF Submit, PastGate, RunStates
<1>9. CASE Record(r) \/ PollTerminal(r)
  BY <1>5, <1>9 DEF Record, PollTerminal, Keep, PastGate, Places
<1>10. CASE PollOpen(r)
  <2>1. UNCHANGED <<halted, haltedToday>> /\ PastGate(r)
    BY <1>10 DEF PollOpen, Keep, PastGate
  <2>2. CASE run' = [run EXCEPT ![r].polls = @ + 1]
    BY <1>0, <2>1, <2>2 DEF PastGate, RunStates
  <2>3. QED
    BY <1>4, <1>10, <2>1, <2>2 DEF PollOpen
<1>11. CASE Finalise(r)
  <2>1. UNCHANGED <<halted, haltedToday>> /\ PastGate(r)
    BY <1>11 DEF Finalise, PastGate
  <2>2. CASE run' = [run EXCEPT ![r].pc = "holdings", ![r].then = "loop",
                                ![r].todo = Tail(@), ![r].id = 0, ![r].polls = 0]
    BY <1>0, <2>1, <2>2 DEF PastGate, RunStates
  <2>3. QED
    BY <1>4, <1>11, <2>1, <2>2 DEF Finalise
<1>12. CASE Restart(r)
  BY <1>0, <1>12 DEF Restart, Keep, PastGate, RunStates
<1>13. CASE Sync(r)
  <2>1. UNCHANGED <<halted, haltedToday>>
    BY <1>13 DEF Sync
  <2>2. CASE Goto(r, "idle")
    BY <1>0, <2>1, <2>2 DEF Goto, PastGate, RunStates
  <2>3. ASSUME NEW id \in run[r].sync, run' = [run EXCEPT ![r].sync = @ \ {id}]
        PROVE  Goal
    BY <1>0, <1>13, <2>1, <2>3 DEF Sync, PastGate, RunStates
  <2>4. QED
    BY <1>13, <2>2, <2>3 DEF Sync
<1>14. QED
  BY <1>1, <1>2, <1>3, <1>6, <1>7, <1>8, <1>9, <1>10, <1>11, <1>12, <1>13 DEF Advance

\* Marking keeps a runner where it is, and marks it if it is past its gate.
LEMMA MarkLateMarks ==
    ASSUME TypeOK, NEW q \in Runners, run'[q] = MarkLate(q)
    PROVE  PastGate(q)' => PastGate(q) /\ run'[q].late
<1>1. run[q] \in RunStates
  BY DEF TypeOK
<1>2. run'[q].pc = run[q].pc /\ run'[q].then = run[q].then
  BY <1>1 DEF MarkLate, RunStates
<1>3. PastGate(q) => run'[q].late = TRUE
  BY <1>1 DEF MarkLate, RunStates
<1>4. QED
  BY <1>2, <1>3 DEF PastGate

\* The kill switch: whatever crashes and restarts, a cycle that is past its
\* gate while the switch is on was past it when the switch was thrown.
THEOREM HaltStopsGates == Spec => []OnlyLateCyclesTrade
<1>1. Init => OnlyLateCyclesTrade
  BY DEF Init, OnlyLateCyclesTrade
<1>2. TypeOK /\ CycleInv /\ OnlyLateCyclesTrade /\ [Next]_vars => OnlyLateCyclesTrade'
  <2> SUFFICES ASSUME TypeOK, CycleInv, OnlyLateCyclesTrade, [Next]_vars,
                      (halted \/ haltedToday)', NEW q \in Runners, PastGate(q)'
               PROVE  run'[q].late
    BY DEF OnlyLateCyclesTrade
  <2>0. run \in [Runners -> RunStates]
    BY DEF TypeOK
  <2>1. ASSUME NEW r \in Runners, Advance(r), ~ \E loss \in BOOLEAN : Gate(r, loss)
        PROVE  run'[q].late
    BY <2>1, AdvanceStaysPast DEF OnlyLateCyclesTrade, PastGate
  <2>2. ASSUME NEW r \in Runners, NEW loss \in BOOLEAN, Gate(r, loss)
        PROVE  run'[q].late
    <3>1. CASE IsHalted
      BY <2>0, <2>2, <3>1 DEF Gate, EndCycle, AtRest, IsHalted, OnlyLateCyclesTrade, PastGate
    <3>2. CASE ~IsHalted /\ (loss \/ ~WithinBudget)
      <4>1. run'[q] = IF q = r THEN AtRest("idle") ELSE MarkLate(q)
        BY <2>2, <3>2 DEF Gate
      <4>2. q # r
        BY <4>1 DEF AtRest, PastGate
      <4>3. QED
        BY <4>1, <4>2, MarkLateMarks
    <3>3. CASE ~IsHalted /\ ~loss /\ WithinBudget
      BY <2>2, <3>3 DEF Gate, IsHalted
    <3>4. QED
      BY <3>1, <3>2, <3>3
  <2>3. ASSUME NEW r \in Runners, StartCycle(r)
        PROVE  run'[q].late
    <3>1. run[r].pc = "idle" /\ run[r].then = "gate"
      BY <2>3 DEF StartCycle, CycleInv, CycleOK
    <3>2. run'[r].pc = "holdings" /\ run'[r].then = "gate"
      BY <2>0, <2>3, <3>1 DEF StartCycle, Goto, RunStates
    <3>3. q # r
      BY <3>2 DEF PastGate
    <3>4. run'[q] = run[q] /\ UNCHANGED <<halted, haltedToday>>
      BY <2>0, <2>3, <3>3 DEF StartCycle, Goto
    <3>5. QED
      BY <3>4 DEF OnlyLateCyclesTrade, PastGate
  <2>4. ASSUME NEW r \in Runners, Crash(r)
        PROVE  run'[q].late
    BY <2>0, <2>4 DEF Crash, AtRest, PastGate, OnlyLateCyclesTrade
  <2>5. CASE Halt
    BY <2>5, MarkLateMarks DEF Halt
  <2>6. CASE Resume
    BY <2>6 DEF Resume
  <2>7. CASE UNCHANGED tradingVars
    BY <2>7 DEF tradingVars, OnlyLateCyclesTrade, PastGate
  <2>8. QED
    BY <2>1, <2>2, <2>3, <2>4, <2>5, <2>6, <2>7 DEF Next, vars
<1>3. QED
  BY <1>1, <1>2, TypeInit, TypeStep, PTL DEF Spec

--------------------------------------------------------------------------------
\* A runner either makes the step or stays in its place with its order.
LEMMA Bystander ==
    ASSUME TypeOK, CycleInv, [Next]_vars, NEW q \in Runners
    PROVE  \/ Advance(q) \/ StartCycle(q) \/ Crash(q)
           \/ run'[q].pc = run[q].pc /\ run'[q].id = run[q].id
<1>0. run \in [Runners -> RunStates] /\ run[q] \in RunStates
  BY DEF TypeOK
<1>1. ASSUME NEW r \in Runners, r # q, Advance(r) \/ StartCycle(r) \/ Crash(r)
      PROVE  run'[q].pc = run[q].pc /\ run'[q].id = run[q].id
  <2>1. run'[q] = run[q] \/ run'[q] = MarkLate(q)
    <3>1. CASE \E loss \in BOOLEAN : Gate(r, loss)
      BY <1>0, <1>1, <3>1 DEF Gate, EndCycle, Goto
    <3>2. CASE Advance(r) /\ ~ \E loss \in BOOLEAN : Gate(r, loss)
      BY <1>1, <3>2, AdvanceStaysPast
    <3>3. CASE StartCycle(r) \/ Crash(r)
      BY <1>0, <1>1, <3>3 DEF StartCycle, Crash, Goto
    <3>4. QED
      BY <1>1, <3>1, <3>2, <3>3
  <2>2. QED
    BY <1>0, <2>1 DEF MarkLate, RunStates
<1>2. CASE Halt \/ Resume \/ UNCHANGED run
  BY <1>0, <1>2 DEF Halt, Resume, MarkLate, RunStates
<1>3. QED
  BY <1>1, <1>2 DEF Next, vars, tradingVars

\* A runner follows an order because it followed it before or places it now.
LEMMA FollowersStep ==
    ASSUME TypeOK, CycleInv, [Next]_vars, NEW q \in Runners, Following(q)'
    PROVE  \/ Following(q) /\ run'[q].id = run[q].id /\ ~Finalise(q)
           \/ \E id \in OrderIds : Submit(q, id) /\ run'[q].id = id
<1> DEFINE Goal(r) ==
        \/ Following(r) /\ run'[r].id = run[r].id /\ ~Finalise(r)
        \/ \E id \in OrderIds : Submit(r, id) /\ run'[r].id = id
<1>0. run \in [Runners -> RunStates] /\ run[q] \in RunStates
  BY DEF TypeOK
<1>1. ASSUME NEW pc \in Places \ {"acked", "poll", "final"}, run'[q].pc = pc
      PROVE  Goal(q)
  BY <1>1 DEF Following
<1>2. CASE NextIntent(q) \/ EndCycle(q)
  BY <1>0, <1>2 DEF NextIntent, EndCycle, AtRest, Following, RunStates
<1>3. CASE ReadHoldings(q) \/ \E seen \in Seen : ReadCash(q, seen)
  BY <1>0, <1>3 DEF ReadHoldings, ReadCash, Following, RunStates
<1>4. CASE SnapshotFails(q) \/ NothingToDo(q) \/ FinishCycle(q) \/ SubmitRefused(q)
           \/ PollFails(q) \/ \E id \in OrderIds : SubmitLost(q, id)
  BY <1>2, <1>4 DEF SnapshotFails, NothingToDo, FinishCycle, SubmitRefused, PollFails,
                    SubmitLost
<1>5. ASSUME NEW loss \in BOOLEAN, Gate(q, loss)
      PROVE  Goal(q)
  BY <1>0, <1>5 DEF Gate, EndCycle, Goto, AtRest, Following, RunStates
<1>6. ASSUME NEW want \in Targets, NEW tradable \in SUBSET Symbols, Plan(q, want, tradable)
      PROVE  Goal(q)
  BY <1>0, <1>6 DEF Plan, Following, RunStates
<1>7. CASE CheckOrder(q)
  <2>1. CASE Goto(q, "submit")
    BY <1>0, <2>1 DEF Goto, Following, RunStates
  <2>2. QED
    BY <1>2, <1>7, <2>1 DEF CheckOrder
<1>8. ASSUME NEW id \in OrderIds, Submit(q, id)
      PROVE  Goal(q)
  BY <1>0, <1>8 DEF Submit, RunStates
<1>9. CASE Record(q) \/ PollTerminal(q)
  BY <1>0, <1>9 DEF Record, PollTerminal, Goto, Following, Finalise, RunStates
<1>10. CASE PollOpen(q)
  <2>1. CASE run' = [run EXCEPT ![q].polls = @ + 1]
    BY <1>0, <1>10, <2>1 DEF PollOpen, Following, Finalise, RunStates
  <2>2. QED
    BY <1>2, <1>10, <2>1 DEF PollOpen
<1>11. CASE Finalise(q)
  <2>1. CASE run' = [run EXCEPT ![q].pc = "holdings", ![q].then = "loop",
                                ![q].todo = Tail(@), ![q].id = 0, ![q].polls = 0]
    BY <1>0, <2>1 DEF Following, RunStates
  <2>2. QED
    BY <1>2, <1>11, <2>1 DEF Finalise
<1>12. CASE Restart(q) \/ Sync(q)
  BY <1>0, <1>12 DEF Restart, Sync, Goto, Following, RunStates
<1>13. CASE StartCycle(q) \/ Crash(q)
  BY <1>0, <1>13 DEF StartCycle, Crash, Goto, AtRest, Following, RunStates
<1>14. ASSUME run'[q].pc = run[q].pc, run'[q].id = run[q].id
       PROVE  Goal(q)
  <2>1. Finalise(q) => run'[q].pc \in {"holdings", "loop"}
    BY <1>0 DEF Finalise, NextIntent, RunStates
  <2>2. QED
    BY <1>14, <2>1 DEF Following
<1>15. ASSUME Advance(q)
       PROVE  Goal(q)
  BY <1>3, <1>4, <1>5, <1>6, <1>7, <1>8, <1>9, <1>10, <1>11, <1>12, <1>15 DEF Advance
<1>16. QED
  BY <1>13, <1>14, <1>15, Bystander

\* What the ledger's proof carries: the types, the cycles, the followers.
LedgerIInv == TypeOK /\ CycleInv /\ OwnInv /\ LedgerInv /\ LedgerTruthful

\* Two runners never come to follow the same order.
LEMMA OwnStep ==
    ASSUME LedgerIInv, [Next]_vars
    PROVE  OwnInv'
<1> SUFFICES ASSUME NEW r \in Runners, NEW q \in Runners, r # q,
                    Following(r)', Following(q)'
             PROVE  run'[r].id # run'[q].id
  BY DEF OwnInv, Following
<1>0. TypeOK /\ CycleInv /\ OwnInv
  BY DEF LedgerIInv
<1>1. ASSUME NEW p \in Runners, NEW o \in Runners, p # o, NEW id \in OrderIds,
             Submit(p, id), run'[p].id = id, Following(o)'
      PROVE  run'[o].id \in Placed /\ id \notin Placed
  <2>1. run'[o] = run[o]
    BY <1>0, <1>1 DEF Submit, TypeOK
  <2>2. Following(o)
    BY <1>1, <2>1 DEF Following
  <2>3. run[o].id \in Placed
    BY <1>0, <2>2 DEF CycleInv, CycleOK
  <2>4. id \notin Placed
    BY <1>0, <1>1, CreateEffect DEF Submit
  <2>5. QED
    BY <2>1, <2>3, <2>4
<1>2. CASE Following(r) /\ run'[r].id = run[r].id /\ Following(q) /\ run'[q].id = run[q].id
  BY <1>0, <1>2 DEF OwnInv
<1>3. CASE \E id \in OrderIds : Submit(r, id) /\ run'[r].id = id
  BY <1>1, <1>3
<1>4. CASE \E id \in OrderIds : Submit(q, id) /\ run'[q].id = id
  BY <1>1, <1>4
<1>5. QED
  BY <1>0, <1>2, <1>3, <1>4, FollowersStep

\* A row changes only for a placed order, a fill only for a followed one that
\* its follower lets go of.
LEMMA LedgerTouches ==
    ASSUME LedgerIInv, [Next]_vars, NEW id \in OrderIds
    PROVE  /\ rows'[id] # rows[id] => id \in Placed
           /\ fills'[id] # fills[id] =>
                  \E r \in Runners : Finalise(r) /\ run[r].id = id
<1>0. TypeOK /\ CycleInv /\ LedgerIds = OrderIds
  BY TradingAssumption DEF LedgerIInv
<1>1. CASE UNCHANGED ledger
  BY <1>1 DEF ledger
<1>2. ASSUME NEW r \in Runners, Record(r), run[r].id \in OrderIds
      PROVE  /\ UNCHANGED fills /\ \A j \in OrderIds \ {run[r].id} : rows'[j] = rows[j]
             /\ run[r].id \in Placed
  BY <1>0, <1>2 DEF Record, RecordSubmission, TypeOK, CycleInv, CycleOK, Following
<1>3. ASSUME NEW r \in Runners, Finalise(r), run[r].id \in OrderIds
      PROVE  /\ \A j \in OrderIds \ {run[r].id} : rows'[j] = rows[j] /\ fills'[j] = fills[j]
             /\ run[r].id \in Placed
  BY <1>0, <1>3 DEF Finalise, RecordFinal, TypeOK, CycleInv, CycleOK, Following
<1>4. ASSUME NEW r \in Runners, NEW j \in run[r].sync,
             SyncOrder(j, orders[j].status, orders[j].filled)
      PROVE  /\ UNCHANGED fills /\ \A k \in OrderIds \ {j} : rows'[k] = rows[k]
             /\ j \in Placed
  <2>1. j \in OrderIds /\ IsTerminal(j)
    BY <1>0, <1>4 DEF CycleInv, CycleOK, TypeOK, RunStates
  <2>2. QED
    BY <1>0, <1>4, <2>1
       DEF SyncOrder, ledger, TypeOK, IsTerminal, Placed, TerminalStatuses,
           RejectedStatuses
<1>5. QED
  BY <1>0, <1>1, <1>2, <1>3, <1>4, LedgerSteps

\* Nothing is written of an order that is not placed, and no fill of one that
\* is still followed.
LEMMA LedgerInvStep ==
    ASSUME LedgerIInv, [Next]_vars
    PROVE  LedgerInv'
<1>0. TypeOK /\ CycleInv /\ OwnInv /\ LedgerInv
  BY DEF LedgerIInv
<1>1. ASSUME NEW id \in OrderIds, ~(id \in Placed)'
      PROVE  rows'[id].status = "NONE" /\ fills'[id] = 0
  <2>1. id \notin Placed
    BY <1>0, <1>1, OrdersStep
  <2>2. rows[id].status = "NONE" /\ fills[id] = 0 /\ rows'[id] = rows[id]
    BY <1>0, <2>1, LedgerTouches DEF LedgerInv
  <2>3. fills'[id] = fills[id]
    <3>1. \A r \in Runners : Finalise(r) => run[r].id \in Placed
      BY <1>0 DEF Finalise, CycleInv, CycleOK, Following
    <3>2. QED
      BY <2>1, <3>1, LedgerTouches
  <2>4. QED
    BY <2>2, <2>3
<1>2. ASSUME NEW id \in OrderIds, NEW q \in Runners, Following(q)', run'[q].id = id
      PROVE  fills'[id] = 0
  <2>1. CASE Following(q) /\ run'[q].id = run[q].id /\ ~Finalise(q)
    <3>1. fills[id] = 0
      BY <1>0, <1>2, <2>1 DEF LedgerInv
    <3>2. ASSUME NEW r \in Runners, Finalise(r), run[r].id = id
          PROVE  FALSE
      <4>1. Following(r)
        BY <3>2 DEF Finalise, Following
      <4>2. r = q
        BY <1>0, <1>2, <2>1, <3>2, <4>1 DEF OwnInv
      <4>3. QED
        BY <2>1, <3>2, <4>2
    <3>3. QED
      BY <3>1, <3>2, LedgerTouches
  <2>2. CASE \E j \in OrderIds : Submit(q, j) /\ run'[q].id = j
    <3>1. Submit(q, id)
      BY <1>2, <2>2
    <3>2. id \notin Placed /\ fills' = fills
      BY <1>0, <3>1, CreateEffect DEF Submit, ledger
    <3>3. QED
      BY <1>0, <3>2 DEF LedgerInv
  <2>3. QED
    BY <1>0, <1>2, <2>1, <2>2, FollowersStep
<1>3. QED
  BY <1>1, <1>2 DEF LedgerInv, Following

\* A row that says an order ended says what Toss says, and so does its fill.
LEMMA LedgerTruthfulStep ==
    ASSUME LedgerIInv, [Next]_vars
    PROVE  LedgerTruthful'
<1>0. TypeOK /\ CycleInv /\ OwnInv /\ LedgerInv /\ LedgerTruthful /\ LedgerIds = OrderIds
  BY TradingAssumption DEF LedgerIInv
<1> SUFFICES ASSUME NEW id \in OrderIds
             PROVE  /\ rows'[id].status \in TerminalStatuses =>
                           /\ rows'[id].status = orders'[id].status
                           /\ rows'[id].filled = orders'[id].filled
                    /\ fills'[id] # 0 => IsTerminal(id)' /\ fills'[id] = orders'[id].filled
  BY DEF LedgerTruthful
<1>1. IsTerminal(id) => orders'[id] = orders[id] /\ IsTerminal(id)'
  BY <1>0, OrdersStep DEF IsTerminal
<1>2. rows[id].status \in TerminalStatuses => IsTerminal(id)
  BY <1>0 DEF LedgerTruthful, IsTerminal
<1>3. ASSUME rows'[id] = rows[id], fills'[id] = fills[id]
      PROVE  /\ rows'[id].status \in TerminalStatuses =>
                    /\ rows'[id].status = orders'[id].status
                    /\ rows'[id].filled = orders'[id].filled
             /\ fills'[id] # 0 => IsTerminal(id)' /\ fills'[id] = orders'[id].filled
  BY <1>0, <1>1, <1>2, <1>3 DEF LedgerTruthful
<1>4. CASE UNCHANGED ledger
  BY <1>3, <1>4 DEF ledger
<1>5. ASSUME NEW r \in Runners, Record(r), run[r].id = id
      PROVE  rows'[id].status \notin TerminalStatuses /\ fills' = fills
  BY <1>0, <1>5 DEF Record, RecordSubmission, TypeOK, TerminalStatuses, RejectedStatuses
<1>6. ASSUME NEW r \in Runners, Finalise(r), run[r].id = id
      PROVE  /\ rows'[id].status = orders[id].status
             /\ rows'[id].filled = orders[id].filled
             /\ fills'[id] = orders[id].filled /\ IsTerminal(id)
  <2>1. fills[id] = 0 /\ IsTerminal(id)
    BY <1>0, <1>6 DEF Finalise, Following, CycleInv, CycleOK, LedgerInv
  <2>2. RecordFinal(id, orders[id].status, orders[id].filled)
    BY <1>6 DEF Finalise
  <2>3. QED
    BY <1>0, <2>1, <2>2 DEF RecordFinal, TypeOK
<1>7. ASSUME NEW r \in Runners, id \in run[r].sync,
             SyncOrder(id, orders[id].status, orders[id].filled)
      PROVE  /\ \/ rows'[id] = rows[id]
                \/ /\ rows'[id].status = orders[id].status
                   /\ rows'[id].filled = orders[id].filled
                   /\ IsTerminal(id)
             /\ fills' = fills
  <2>1. IsTerminal(id)
    BY <1>0, <1>7 DEF CycleInv, CycleOK
  <2>2. QED
    BY <1>0, <1>7, <2>1 DEF SyncOrder, ledger, TypeOK
<1>8. ASSUME NEW r \in Runners, Record(r) \/ Finalise(r), run[r].id \in OrderIds \ {id}
      PROVE  rows'[id] = rows[id] /\ fills'[id] = fills[id]
  BY <1>0, <1>8 DEF Record, RecordSubmission, Finalise, RecordFinal, TypeOK
<1>9. ASSUME NEW r \in Runners, NEW j \in run[r].sync \ {id},
             SyncOrder(j, orders[j].status, orders[j].filled)
      PROVE  rows'[id] = rows[id] /\ fills'[id] = fills[id]
  <2>1. j \in OrderIds
    BY <1>0 DEF TypeOK, RunStates
  <2>2. QED
    BY <1>0, <1>9, <2>1 DEF SyncOrder, ledger, TypeOK
<1>10. CASE \E r \in Runners : Record(r) /\ run[r].id \in OrderIds
  BY <1>0, <1>1, <1>3, <1>5, <1>8, <1>10 DEF LedgerTruthful
<1>11. CASE \E r \in Runners : Finalise(r) /\ run[r].id \in OrderIds
  BY <1>1, <1>3, <1>6, <1>8, <1>11
<1>12. ASSUME NEW r \in Runners, NEW j \in run[r].sync,
              SyncOrder(j, orders[j].status, orders[j].filled)
       PROVE  /\ rows'[id].status \in TerminalStatuses =>
                     /\ rows'[id].status = orders'[id].status
                     /\ rows'[id].filled = orders'[id].filled
              /\ fills'[id] # 0 => IsTerminal(id)' /\ fills'[id] = orders'[id].filled
  <2>1. CASE j = id
    BY <1>0, <1>1, <1>3, <1>7, <1>12, <2>1 DEF LedgerTruthful
  <2>2. CASE j # id
    BY <1>3, <1>9, <1>12, <2>2
  <2>3. QED
    BY <2>1, <2>2
<1>13. QED
  BY <1>0, <1>4, <1>10, <1>11, <1>12, LedgerSteps

\* "Fills are confirmed, not assumed": for any number of runners and crashes, a
\* row that says an order ended says what Toss says, and its shares are recorded
\* as filled at most once, only after it ended.
THEOREM LedgerIsTruthful == Spec => []LedgerTruthful
<1>1. Init => LedgerIInv
  <2> SUFFICES ASSUME Init PROVE LedgerIInv
    OBVIOUS
  <2>1. OwnInv /\ LedgerInv
    BY TradingAssumption
       DEF Init, LedgerInit, NoRow, OwnInv, LedgerInv, Following, AtRest
  <2>2. LedgerTruthful
    BY TradingAssumption
       DEF Init, LedgerInit, NoRow, LedgerTruthful, TerminalStatuses, RejectedStatuses
  <2>3. QED
    BY <2>1, <2>2, TypeInit DEF LedgerIInv
<1>2. LedgerIInv /\ [Next]_vars => LedgerIInv'
  BY TypeStep, OwnStep, LedgerInvStep, LedgerTruthfulStep DEF LedgerIInv
<1>3. LedgerIInv => LedgerTruthful
  BY DEF LedgerIInv
<1>4. QED
  BY <1>1, <1>2, <1>3, PTL DEF Spec

--------------------------------------------------------------------------------
\* A runner comes to place an order through the check of the budget, and an
\* acknowledged order is let go of by its row or by a crash.
LEMMA PlaceStep ==
    ASSUME TypeOK, CycleInv, [Next]_vars, NEW q \in Runners
    PROVE  /\ run'[q].pc = "submit" =>
                  \/ run[q].pc = "submit"
                  \/ run[q].pc = "loop" /\ WithinBudget /\ UNCHANGED <<orders, missed>>
           /\ run[q].pc = "acked" =>
                  \/ run'[q].pc = "acked" /\ run'[q].id = run[q].id
                  \/ Record(q) \/ Crash(q)
<1>0. run \in [Runners -> RunStates] /\ run[q] \in RunStates
  BY DEF TypeOK
<1>1. CASE run'[q].pc = run[q].pc /\ run'[q].id = run[q].id
  BY <1>1
<1>2. CASE StartCycle(q) \/ Crash(q)
  BY <1>0, <1>2 DEF StartCycle, Crash, Goto, AtRest, RunStates
<1>3. CASE Advance(q) /\ run'[q].pc = "submit" /\ run[q].pc # "submit"
  <2>2. CheckOrder(q) =>
            run[q].pc = "loop" /\ WithinBudget /\ UNCHANGED <<orders, missed>>
    BY <1>0, <1>3 DEF CheckOrder, NextIntent, RunStates, AllowedBy, Keep, account
  <2>3. CASE \/ ReadHoldings(q) \/ \E seen \in Seen : ReadCash(q, seen)
             \/ SnapshotFails(q) \/ NothingToDo(q) \/ FinishCycle(q)
             \/ SubmitRefused(q) \/ PollFails(q)
             \/ \E id \in OrderIds : Submit(q, id) \/ SubmitLost(q, id)
    BY <1>0, <1>3, <2>3
       DEF ReadHoldings, ReadCash, SnapshotFails, NothingToDo, FinishCycle,
           SubmitRefused, PollFails, Submit, SubmitLost, EndCycle, NextIntent, AtRest,
           RunStates
  <2>4. CASE \E loss \in BOOLEAN : Gate(q, loss)
    BY <1>0, <1>3, <2>4 DEF Gate, EndCycle, Goto, AtRest, RunStates
  <2>5. CASE \E want \in Targets, tradable \in SUBSET Symbols : Plan(q, want, tradable)
    BY <1>0, <1>3, <2>5 DEF Plan, RunStates
  <2>6. CASE Record(q) \/ PollTerminal(q) \/ PollOpen(q)
    BY <1>0, <1>3, <2>6 DEF Record, PollTerminal, PollOpen, Goto, NextIntent, RunStates
  <2>7. CASE Finalise(q)
    BY <1>0, <1>3, <2>7 DEF Finalise, NextIntent, RunStates
  <2>8. CASE Restart(q) \/ Sync(q)
    BY <1>0, <1>3, <2>8 DEF Restart, Sync, Goto, RunStates
  <2>9. QED
    BY <1>3, <2>2, <2>3, <2>4, <2>5, <2>6, <2>7, <2>8 DEF Advance
<1>4. ASSUME Advance(q), run[q].pc = "acked"
      PROVE  Record(q)
  <2>1. /\ ~ReadHoldings(q) /\ ~ \E seen \in Seen : ReadCash(q, seen)
        /\ ~SnapshotFails(q) /\ ~NothingToDo(q)
        /\ ~CheckOrder(q) /\ ~FinishCycle(q) /\ ~SubmitRefused(q)
    BY <1>4 DEF ReadHoldings, ReadCash, SnapshotFails, NothingToDo, CheckOrder,
                FinishCycle, SubmitRefused
  <2>2. /\ ~PollTerminal(q) /\ ~PollOpen(q) /\ ~PollFails(q) /\ ~Finalise(q)
        /\ ~Restart(q) /\ ~Sync(q)
    BY <1>4 DEF PollTerminal, PollOpen, PollFails, Finalise, Restart, Sync
  <2>3. /\ ~ \E loss \in BOOLEAN : Gate(q, loss)
        /\ ~ \E want \in Targets, tradable \in SUBSET Symbols : Plan(q, want, tradable)
        /\ ~ \E id \in OrderIds : Submit(q, id)
        /\ ~ \E id \in OrderIds : SubmitLost(q, id)
    BY <1>4 DEF Gate, Plan, Submit, SubmitLost
  <2>4. QED
    BY <1>4, <2>1, <2>2, <2>3 DEF Advance
<1>5. QED
  BY <1>1, <1>2, <1>3, <1>4, Bystander

\* At most one runner at a time gets as far as placing an order.
LEMMA OneSubmitter ==
    ASSUME TypeOK, CycleInv, [Next]_vars, NEW r \in Runners, NEW q \in Runners, q # r,
           run[r].pc = "loop", run'[r].pc = "submit", run'[q].pc = "submit"
    PROVE  run[q].pc = "submit"
<1>1. run'[r].pc # run[r].pc
  OBVIOUS
<1>2. Advance(r)
  BY <1>1, Bystander DEF StartCycle, Crash, Goto, AtRest, TypeOK, RunStates
<1>3. CASE \E loss \in BOOLEAN : Gate(r, loss)
  BY <1>3 DEF Gate
<1>4. CASE ~ \E loss \in BOOLEAN : Gate(r, loss)
  BY <1>2, <1>4, AdvanceStaysPast
<1>5. QED
  BY <1>3, <1>4

\* Only a submission changes which orders are placed.
LEMMA PlacedStep ==
    ASSUME TypeOK, CycleInv, [Next]_vars
    PROVE  \/ Placed' = Placed
           \/ \E r \in Runners, id \in OrderIds : Submit(r, id) \/ SubmitLost(r, id)
<1>1. CASE AccountNext
  <2>1. \A id \in OrderIds : id \in Placed <=> id \in Placed'
    BY <1>1, ExchangeEffect DEF Placed, IsOpen, OpenStatuses
  <2>2. QED
    BY <2>1 DEF Placed
<1>2. CASE UNCHANGED account
  BY <1>2 DEF account, Placed
<1>3. QED
  BY <1>1, <1>2, AccountChange

\* A missed order stays missed, and a row once written stays.
LEMMA RecordsStay ==
    ASSUME TypeOK, CycleInv, [Next]_vars
    PROVE  missed \subseteq missed' /\ Recorded \subseteq Recorded'
<1>0. LedgerIds = OrderIds
  BY TradingAssumption
<1>1. missed \subseteq missed'
  <2>1. ASSUME NEW r \in Runners, Advance(r)
        PROVE  missed \subseteq missed'
    BY <2>1 DEF Advance, ReadHoldings, ReadCash, SnapshotFails, Gate, NothingToDo,
         Plan, CheckOrder, FinishCycle, Submit, SubmitRefused, SubmitLost, Record,
         PollTerminal, PollOpen, PollFails, Finalise, Restart, Sync, Keep
  <2>2. ASSUME NEW r \in Runners, StartCycle(r) \/ Crash(r)
        PROVE  missed \subseteq missed'
    BY <2>2 DEF StartCycle, Crash
  <2>3. QED
    BY <2>1, <2>2 DEF Next, Halt, Resume, vars, tradingVars
<1>2. Recorded \subseteq Recorded'
  <2>1. CASE UNCHANGED ledger
    BY <2>1 DEF ledger, Recorded
  <2>2. CASE \E r \in Runners : Record(r)
    BY <2>2 DEF Record, RecordSubmission, Recorded, TypeOK
  <2>3. ASSUME NEW id \in OrderIds, IsTerminal(id),
               \/ RecordFinal(id, orders[id].status, orders[id].filled)
               \/ SyncOrder(id, orders[id].status, orders[id].filled)
        PROVE  Recorded \subseteq Recorded'
    <3>1. orders[id].status # "NONE"
      BY <2>3 DEF IsTerminal, TerminalStatuses, RejectedStatuses
    <3>2. QED
      BY <2>3, <3>1 DEF RecordFinal, SyncOrder, ledger, Recorded, TypeOK
  <2>4. CASE \E r \in Runners : Finalise(r) /\ run[r].id \in OrderIds
    BY <2>3, <2>4 DEF Finalise, CycleInv, CycleOK
  <2>5. CASE \E r \in Runners : \E id \in run[r].sync :
                 SyncOrder(id, orders[id].status, orders[id].filled)
    BY <2>3, <2>5 DEF CycleInv, CycleOK, TypeOK, RunStates
  <2>6. QED
    BY <2>1, <2>2, <2>4, <2>5, LedgerSteps
<1>3. QED
  BY <1>1, <1>2

\* The sets that are counted are finite.
LEMMA CountedSets ==
    ASSUME TypeOK, NEW S, S \subseteq OrderIds \/ S \subseteq Runners
    PROVE  IsFiniteSet(S) /\ Cardinality(S) \in Nat
<1>1. IsFiniteSet(S)
  BY AccountAssumption, TradingAssumption, FS_Subset
<1>2. QED
  BY <1>1, FS_CardinalityType

\* The orders the bot knows of have a row, or a runner each about to write it.
LEMMA KnownOrders ==
    ASSUME TypeOK, CycleInv, BudgetInv
    PROVE  Cardinality(Placed \ missed) <= Cardinality(Recorded) + Cardinality(Unrecorded)
<1> DEFINE f == [q \in Unrecorded |-> run[q].id]
<1> DEFINE Ids == {f[q] : q \in Unrecorded}
<1>1. Recorded \subseteq OrderIds /\ Placed \ missed \subseteq OrderIds
      /\ Unrecorded \subseteq Runners
  BY TradingAssumption DEF Recorded, Placed, Unrecorded
<1>2. /\ IsFiniteSet(Recorded) /\ Cardinality(Recorded) \in Nat
      /\ IsFiniteSet(Unrecorded) /\ Cardinality(Unrecorded) \in Nat
  BY <1>1, CountedSets
<1>3. f \in Surjection(Unrecorded, Ids)
  BY DEF Surjection
<1>4. Placed \ missed \subseteq Recorded \cup Ids
  BY DEF BudgetInv
<1> HIDE DEF f, Ids
<1>5. IsFiniteSet(Ids) /\ Cardinality(Ids) <= Cardinality(Unrecorded)
  BY <1>2, <1>3, FS_Surjection
<1>6. /\ IsFiniteSet(Recorded \cup Ids)
      /\ Cardinality(Recorded \cup Ids) =
             Cardinality(Recorded) + Cardinality(Ids) - Cardinality(Recorded \cap Ids)
  BY <1>2, <1>5, FS_Union
<1>7. Cardinality(Recorded \cap Ids) \in Nat /\ Cardinality(Ids) \in Nat
  BY <1>2, <1>5, FS_Intersection, FS_CardinalityType
<1>8. Cardinality(Placed \ missed) <= Cardinality(Recorded \cup Ids)
  BY <1>4, <1>6, FS_Subset
<1>9. Cardinality(Placed \ missed) \in Nat /\ Cardinality(Recorded \cup Ids) \in Nat
  BY <1>1, <1>6, CountedSets, FS_CardinalityType
<1>10. QED
  BY <1>2, <1>5, <1>6, <1>7, <1>8, <1>9

\* A runner whose check found the budget not used up leaves room for the others.
LEMMA BudgetRoom ==
    ASSUME TypeOK, CycleInv, BudgetInv, WithinBudget, NEW r \in Runners,
           run[r].pc = "loop"
    PROVE  Cardinality(Placed \ missed) + Cardinality(Submitting \cup {r})
               <= MaxOrders + Cardinality(Runners) - 1
<1> DEFINE S == Submitting \cup {r}
<1>1. S \subseteq Runners /\ Unrecorded \subseteq Runners
  BY DEF Submitting, Unrecorded
<1>2. S \cap Unrecorded = {}
  BY DEF Submitting, Unrecorded
<1>3. S \cup Unrecorded \subseteq Runners
  BY <1>1
<1> HIDE DEF S
<1>4. /\ IsFiniteSet(S) /\ Cardinality(S) \in Nat
      /\ IsFiniteSet(Unrecorded) /\ Cardinality(Unrecorded) \in Nat
  BY <1>1, CountedSets
<1>5. Cardinality(S \cup Unrecorded) = Cardinality(S) + Cardinality(Unrecorded)
  <2>1. Cardinality(S \cap Unrecorded) = 0
    BY <1>2, FS_EmptySet
  <2>2. Cardinality(S \cup Unrecorded) =
            Cardinality(S) + Cardinality(Unrecorded) - Cardinality(S \cap Unrecorded)
    BY <1>4, FS_Union
  <2>3. QED
    BY <1>4, <2>1, <2>2
<1>6. /\ IsFiniteSet(Runners) /\ Cardinality(Runners) \in Nat
      /\ Cardinality(S \cup Unrecorded) <= Cardinality(Runners)
  BY <1>3, TradingAssumption, FS_Subset, FS_CardinalityType
<1>7. Cardinality(Placed \ missed) <= Cardinality(Recorded) + Cardinality(Unrecorded)
  BY KnownOrders
<1>8. Cardinality(Recorded) \in Nat /\ Cardinality(Recorded) < MaxOrders
  BY TradingAssumption, CountedSets DEF Recorded, WithinBudget, OrdersToday
<1>9. Cardinality(Placed \ missed) \in Nat /\ MaxOrders \in Nat
  BY TradingAssumption, CountedSets DEF Placed
<1>10. QED
  BY <1>4, <1>5, <1>6, <1>7, <1>8, <1>9 DEF S

\* Every order the bot knows of keeps its row or the runner about to write it.
LEMMA KnownStep ==
    ASSUME TypeOK, CycleInv, BudgetInv, [Next]_vars,
           NEW id \in (Placed \ missed)'
    PROVE  (id \in Recorded \/ \E r \in Unrecorded : run[r].id = id)'
<1>0. /\ missed \subseteq missed' /\ Recorded \subseteq Recorded' /\ id \in OrderIds
      /\ LedgerIds = OrderIds /\ run \in [Runners -> RunStates]
  BY RecordsStay, TradingAssumption DEF Placed, TypeOK
<1>1. ASSUME id \in Placed
      PROVE  (id \in Recorded \/ \E r \in Unrecorded : run[r].id = id)'
  <2>1. id \in Recorded \/ \E r \in Unrecorded : run[r].id = id
    BY <1>0, <1>1 DEF BudgetInv
  <2>2. ASSUME NEW r \in Unrecorded, run[r].id = id
        PROVE  (id \in Recorded \/ \E q \in Unrecorded : run[q].id = id)'
    <3>1. r \in Runners /\ run[r].pc = "acked"
      BY <2>2 DEF Unrecorded
    <3>2. CASE run'[r].pc = "acked" /\ run'[r].id = run[r].id
      BY <2>2, <3>1, <3>2 DEF Unrecorded
    <3>3. CASE Record(r)
      BY <1>0, <2>2, <3>3 DEF Record, RecordSubmission, Recorded, TypeOK
    <3>4. CASE Crash(r)
      BY <2>2, <3>1, <3>4 DEF Crash
    <3>5. QED
      BY <3>1, <3>2, <3>3, <3>4, PlaceStep
  <2>3. QED
    BY <1>0, <2>1, <2>2
<1>2. ASSUME id \notin Placed
      PROVE  (id \in Recorded \/ \E r \in Unrecorded : run[r].id = id)'
  <2>1. PICK r \in Runners, j \in OrderIds : Submit(r, j) \/ SubmitLost(r, j)
    BY <1>2, PlacedStep
  <2>2. j = id
    BY <1>2, <2>1, CreateEffect DEF Submit, SubmitLost
  <2>3. CASE Submit(r, id)
    <3>1. run'[r].pc = "acked" /\ run'[r].id = id
      BY <1>0, <2>3 DEF Submit, RunStates
    <3>2. QED
      BY <3>1 DEF Unrecorded
  <2>4. CASE SubmitLost(r, id)
    BY <2>4 DEF SubmitLost
  <2>5. QED
    BY <2>1, <2>2, <2>3, <2>4
<1>3. QED
  BY <1>1, <1>2

\* The orders placed and about to be placed stay within the bound.
LEMMA CountStep ==
    ASSUME TypeOK, TypeOK', CycleInv, BudgetInv, [Next]_vars
    PROVE  (Cardinality(Placed \ missed) + Cardinality(Submitting)
                <= MaxOrders + Cardinality(Runners) - 1)'
<1> DEFINE Known == Placed \ missed
<1>0. /\ run \in [Runners -> RunStates] /\ missed \subseteq missed'
      /\ Known \subseteq OrderIds /\ Known' \subseteq OrderIds
      /\ Submitting \subseteq Runners /\ Submitting' \subseteq Runners
  BY RecordsStay DEF Placed, Submitting, TypeOK
<1>1. /\ Cardinality(Known) \in Nat /\ Cardinality(Known') \in Nat
      /\ Cardinality(Submitting) \in Nat /\ Cardinality(Submitting') \in Nat
      /\ IsFiniteSet(Known) /\ IsFiniteSet(Submitting) /\ IsFiniteSet(Known')
      /\ IsFiniteSet(Submitting')
      /\ MaxOrders \in Nat /\ Cardinality(Runners) \in Nat
  BY <1>0, CountedSets, TradingAssumption
<1>2. Cardinality(Known) + Cardinality(Submitting) <= MaxOrders + Cardinality(Runners) - 1
  BY DEF BudgetInv
<1>3. ASSUME Known' \subseteq Known, Submitting' \subseteq Submitting
      PROVE  Cardinality(Known') + Cardinality(Submitting')
                 <= MaxOrders + Cardinality(Runners) - 1
  <2>1. Cardinality(Known') <= Cardinality(Known)
    BY <1>1, <1>3, FS_Subset
  <2>2. Cardinality(Submitting') <= Cardinality(Submitting)
    BY <1>1, <1>3, FS_Subset
  <2> HIDE DEF Known
  <2>3. QED
    BY <1>1, <1>2, <2>1, <2>2
<1>4. ASSUME NEW r \in Runners, run[r].pc = "loop", run'[r].pc = "submit", WithinBudget,
             UNCHANGED <<orders, missed>>
      PROVE  Cardinality(Known') + Cardinality(Submitting')
                 <= MaxOrders + Cardinality(Runners) - 1
  <2>1. Known' = Known
    BY <1>4 DEF Placed
  <2>2. Submitting' \subseteq Submitting \cup {r}
    <3>1. ASSUME NEW q \in Runners, q # r, run'[q].pc = "submit"
          PROVE  run[q].pc = "submit"
      BY <1>4, <3>1, OneSubmitter
    <3>2. QED
      BY <3>1 DEF Submitting
  <2>3. /\ Cardinality(Submitting') <= Cardinality(Submitting \cup {r})
        /\ Cardinality(Submitting \cup {r}) \in Nat
    BY <1>0, <1>1, <2>2, FS_Subset, CountedSets
  <2>4. Cardinality(Known) + Cardinality(Submitting \cup {r})
            <= MaxOrders + Cardinality(Runners) - 1
    BY <1>4, BudgetRoom
  <2> HIDE DEF Known
  <2>5. QED
    BY <1>1, <2>1, <2>3, <2>4
<1>5. ASSUME NEW r \in Runners, NEW id \in OrderIds, Submit(r, id)
      PROVE  Cardinality(Known') + Cardinality(Submitting')
                 <= MaxOrders + Cardinality(Runners) - 1
  <2>1. Known' \subseteq Known \cup {id}
    BY <1>0, <1>5, CreateEffect DEF Submit
  <2>2. r \in Submitting /\ Submitting' \subseteq Submitting \ {r}
    <3>1. run'[r].pc = "acked" /\ \A q \in Runners \ {r} : run'[q] = run[q]
      BY <1>0, <1>5 DEF Submit, RunStates
    <3>2. QED
      BY <1>5, <3>1 DEF Submitting, Submit
  <2>3. /\ IsFiniteSet(Known \cup {id})
        /\ Cardinality(Known \cup {id}) <= Cardinality(Known) + 1
    <3> HIDE DEF Known
    <3>1. /\ IsFiniteSet(Known \cup {id})
          /\ Cardinality(Known \cup {id}) =
                 IF id \in Known THEN Cardinality(Known) ELSE Cardinality(Known) + 1
      BY <1>1, FS_AddElement
    <3>2. QED
      BY <1>1, <3>1
  <2>4. /\ IsFiniteSet(Submitting \ {r})
        /\ Cardinality(Submitting \ {r}) = Cardinality(Submitting) - 1
    BY <1>1, <2>2, FS_RemoveElement
  <2>5. /\ Cardinality(Known') <= Cardinality(Known \cup {id})
        /\ Cardinality(Known \cup {id}) \in Nat
    BY <2>1, <2>3, FS_Subset, FS_CardinalityType
  <2>6. /\ Cardinality(Submitting') <= Cardinality(Submitting \ {r})
    BY <2>2, <2>4, FS_Subset
  <2> HIDE DEF Known
  <2>7. QED
    BY <1>1, <1>2, <2>3, <2>4, <2>5, <2>6
<1>6. ASSUME NEW r \in Runners, NEW id \in OrderIds, SubmitLost(r, id)
      PROVE  Known' \subseteq Known
  BY <1>6, CreateEffect DEF SubmitLost
<1>7. CASE Submitting' \subseteq Submitting
  <2>1. CASE Placed' = Placed
    BY <1>0, <1>3, <1>7, <2>1
  <2>2. CASE \E r \in Runners, id \in OrderIds : SubmitLost(r, id)
    BY <1>3, <1>6, <1>7, <2>2
  <2>3. QED
    BY <1>5, <2>1, <2>2, PlacedStep
<1>8. CASE ~(Submitting' \subseteq Submitting)
  <2>1. PICK r \in Runners : run'[r].pc = "submit" /\ run[r].pc # "submit"
    BY <1>8 DEF Submitting
  <2>2. QED
    BY <1>4, <2>1, PlaceStep
<1>9. QED
  BY <1>7, <1>8

\* "Hard cap per day": but for orders Toss took and the bot never learned of,
\* the orders placed exceed the budget by at most one for each process beyond
\* the first, however many processes and crashes there are.
THEOREM BudgetHolds == Spec => []BudgetBound
<1>1. Init => TypeOK /\ CycleInv /\ BudgetInv
  <2> SUFFICES ASSUME Init PROVE BudgetInv
    BY TypeInit
  <2>1. Placed \ missed = {} /\ Submitting = {}
    BY DEF Init, AccountInit, NoOrder, Placed, Submitting, AtRest
  <2>2. Cardinality(Runners) \in Nat \ {0}
    BY TradingAssumption, FS_CardinalityType, FS_EmptySet
  <2>3. QED
    BY <2>1, <2>2, FS_EmptySet, TradingAssumption DEF BudgetInv
<1>2. TypeOK /\ CycleInv /\ BudgetInv /\ [Next]_vars => TypeOK' /\ CycleInv' /\ BudgetInv'
  BY TypeStep, KnownStep, CountStep DEF BudgetInv
<1>3. TypeOK /\ BudgetInv => BudgetBound
  <2> SUFFICES ASSUME TypeOK, BudgetInv PROVE BudgetBound
    OBVIOUS
  <2>1. Cardinality(Submitting) \in Nat /\ Cardinality(Placed \ missed) \in Nat
    BY CountedSets DEF Submitting, Placed
  <2>2. Cardinality(Runners) \in Nat /\ MaxOrders \in Nat
    BY TradingAssumption, CountedSets
  <2>3. QED
    BY <2>1, <2>2 DEF BudgetInv, BudgetBound
<1>4. QED
  BY <1>1, <1>2, <1>3, PTL DEF Spec

===============================================================================
