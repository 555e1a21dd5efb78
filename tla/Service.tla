---------------------------------- MODULE Service ----------------------------------
(***************************************************************************)
(* The service (`tqt run`): the scheduler's cycles and equity marks, the   *)
(* Telegram command thread, and an operator at the dashboard or at the     *)
(* command line, around one kill switch and one set of daily limits        *)
(* (runner.py, risk.py, ops.py).                                           *)
(*                                                                         *)
(* A cycle runs under Runner._lock from its first line to its last.  Each  *)
(* statement on the database and each look at the calendar cache is a step *)
(* of its own: threads of one process, and an operator in another, come    *)
(* between them.                                                           *)
(***************************************************************************)
EXTENDS KillSwitch, TradingDay, Telegram, FiniteSets

CONSTANTS MaxEvents  \* bound: crashes, losses of Telegram and acts of the operator

ASSUME ServiceAssumption == MaxEvents \in Nat

VARIABLES thread,     \* where each thread is
          lock,       \* Runner._lock: who holds it
          cache,      \* MarketClock._cache: the calendars it holds
          ran,        \* the last day each job was started
          crashes, operations,
          stopOwed,   \* history: a stop was ordered, and no resume since or across it
          goOwed      \* history: a resume was ordered, and no stop since or across it

serviceVars == <<thread, lock, cache, ran, crashes, operations, stopOwed, goOwed>>
vars == <<switch, dayVars, telegram, serviceVars>>

Jobs == {"KR", "US"}                  \* the two cycles, by their market
Cyclers == Jobs \cup {"telegram"}     \* who runs cycles
Switchers == {"operator", "telegram"} \* who works the switch
Threads == Cyclers \cup Switchers
NoOne == "none"

\* update: the command; force: the cycle is forced; equity: what the snapshot
\* said; stopped, clean: history, the stop that was owed
\* when the cycle began, and a resume that no stop has crossed.
Idle == [pc |-> "idle", update |-> 0, force |-> FALSE, equity |-> 0,
         stopped |-> FALSE, clean |-> FALSE]

Init ==
    /\ SwitchInit
    /\ DayInit
    /\ TelegramInit
    /\ thread = [t \in Threads |-> Idle]
    /\ lock = NoOne
    /\ cache = {}
    /\ ran = [j \in Jobs |-> 0]
    /\ crashes = 0
    /\ operations = 0
    /\ stopOwed = FALSE
    /\ goOwed = FALSE

At(t, pc) == thread[t].pc = pc
Goto(t, pc) == thread' = [thread EXCEPT ![t].pc = pc]

\* Where a thread goes when its cycle or its command is over.
Over(t) == IF t = "telegram" THEN [Idle EXCEPT !.pc = "reply", !.update = thread[t].update]
                             ELSE Idle

\* The lock is released with the cycle.
EndCycle(t) ==
    /\ thread' = [thread EXCEPT ![t] = Over(t)]
    /\ lock' = NoOne

KeepBounds == UNCHANGED <<ran, crashes, operations>>
KeepHistory == UNCHANGED <<stopOwed, goOwed>>
MayHappen == crashes + losses + operations < MaxEvents

--------------------------------------------------------------------------------
\* The scheduler: KR at 15:00, US at 04:30, in Seoul.
StartJob(j) ==
    /\ At(j, "idle")
    /\ ran[j] < day
    /\ part = (IF j = "KR" THEN "day" ELSE "night")
    /\ ran' = [ran EXCEPT ![j] = day]
    /\ Goto(j, "lock")
    /\ UNCHANGED <<switch, dayVars, telegram, lock, cache, crashes, operations>>
    /\ KeepHistory

\* mark_equity, every half hour, without the lock.
MarkEquity ==
    /\ \E e \in Equities : RecordEquity(e)
    /\ UNCHANGED <<switch, telegram, serviceVars>>

\* The snapshot is taken and its equity recorded, or a read fails.
TakeSnapshot(t) ==
    \/ \E e \in Equities :
           /\ RecordEquity(e)
           /\ lock' = t
           /\ thread' = [thread EXCEPT ![t].pc = "switch", ![t].equity = e,
                                       ![t].stopped = stopOwed]
    \/ EndCycle(t) /\ UNCHANGED dayVars

\* Mutant of TakeLock: the lock is not waited for.
TakeNoLock(t) ==
    /\ At(t, "lock")
    /\ cache' = {}
    /\ TakeSnapshot(t)
    /\ UNCHANGED <<switch, telegram>> /\ KeepBounds /\ KeepHistory

\* cycle: under the lock, the calendars are forgotten first.
TakeLock(t) ==
    /\ At(t, "lock")
    /\ lock = NoOne
    /\ cache' = {}
    /\ TakeSnapshot(t)
    /\ UNCHANGED <<switch, telegram>> /\ KeepBounds /\ KeepHistory

\* check_cycle: the operator's stop is read, then the automatic one ...
ReadHalted(t) ==
    /\ At(t, "switch")
    /\ \/ HaltedByOperator /\ EndCycle(t)
       \/ ~HaltedByOperator /\ Goto(t, "today") /\ UNCHANGED lock
    /\ UNCHANGED <<switch, dayVars, telegram, cache>> /\ KeepBounds /\ KeepHistory

ReadHaltedDate(t) ==
    /\ At(t, "today")
    /\ \/ HaltedOn(day) /\ EndCycle(t)
       \/ ~HaltedOn(day) /\ Goto(t, "limits") /\ UNCHANGED lock
    /\ UNCHANGED <<switch, dayVars, telegram, cache>> /\ KeepBounds /\ KeepHistory

\* History: a stop crosses the resumes under way.
Cross == [u \in Threads |-> [thread[u] EXCEPT !.clean = FALSE]]

\* ... then the daily loss and the budget, which stop for today.
CheckLimits(t) ==
    /\ At(t, "limits")
    /\ \/ /\ LossToday(thread[t].equity) \/ ~BudgetLeft
          /\ HaltForToday(day)
          /\ thread' = [Cross EXCEPT ![t] = Over(t)]
          /\ lock' = NoOne
          /\ goOwed' = FALSE
       \/ /\ ~LossToday(thread[t].equity) /\ BudgetLeft
          /\ thread' = [thread EXCEPT ![t].pc = IF thread[t].force THEN "trade" ELSE "calendar"]
          /\ UNCHANGED <<switch, lock, goOwed>>
    /\ UNCHANGED <<dayVars, telegram, cache, stopOwed>> /\ KeepBounds

\* is_rebalance_day asks _calendar, which fills the cache when the key is not
\* in it; a calendar that cannot be fetched means no rebalance.
LookUpCalendar(t) ==
    /\ At(t, "calendar")
    /\ \/ /\ cache' = cache \cup {t}
          /\ Goto(t, "read")
          /\ UNCHANGED lock
       \/ /\ t \notin cache
          /\ EndCycle(t)
          /\ UNCHANGED cache
    /\ UNCHANGED <<switch, dayVars, telegram>> /\ KeepBounds /\ KeepHistory

\* ... and then reads it out of the cache: without the key it is an error, and
\* no rebalance.  Today may or may not be the day.
ReadCalendar(t) ==
    /\ At(t, "read")
    /\ \/ t \in cache /\ Goto(t, "trade") /\ UNCHANGED lock
       \/ EndCycle(t)
    /\ UNCHANGED <<switch, dayVars, telegram, cache>> /\ KeepBounds /\ KeepHistory

\* check_order lets an order pass ...
CheckOrder(t) ==
    /\ At(t, "trade")
    /\ BudgetLeft
    /\ Goto(t, "submit")
    /\ UNCHANGED <<switch, dayVars, telegram, lock, cache>> /\ KeepBounds /\ KeepHistory

\* ... and its row is written once the broker has taken it.
PlaceOrder(t) ==
    /\ At(t, "submit")
    /\ PlaceOne
    /\ Goto(t, "trade")
    /\ UNCHANGED <<switch, telegram, lock, cache>> /\ KeepBounds /\ KeepHistory

\* The last order is done, or an exception ends the cycle.
FinishCycle(t) ==
    /\ At(t, "trade")
    /\ EndCycle(t)
    /\ UNCHANGED <<switch, dayVars, telegram, cache>> /\ KeepBounds /\ KeepHistory

--------------------------------------------------------------------------------
\* halt, by an operator, at the dashboard, the command line or by Telegram.
Halt(t) ==
    /\ At(t, "halt")
    /\ HaltByOperator(day)
    /\ thread' = [Cross EXCEPT ![t] = Over(t)]
    /\ stopOwed' = (stopOwed \/ \A u \in Switchers : ~At(u, "date"))
    /\ goOwed' = FALSE
    /\ UNCHANGED <<dayVars, telegram, lock, cache>> /\ KeepBounds

\* resume clears one key, then the other.
Resume(t) ==
    /\ At(t, "resume")
    /\ ClearHalted
    /\ thread' = [u \in Threads |->
          IF u = t THEN [thread[t] EXCEPT !.pc = "date", !.clean = TRUE]
                   ELSE [thread[u] EXCEPT !.stopped = FALSE]]
    /\ stopOwed' = FALSE
    /\ UNCHANGED <<dayVars, telegram, lock, cache, goOwed>> /\ KeepBounds

ResumeToday(t) ==
    /\ At(t, "date")
    /\ ClearDate
    /\ thread' = [thread EXCEPT ![t] = Over(t)]
    /\ goOwed' = (goOwed \/ thread[t].clean)
    /\ UNCHANGED <<dayVars, telegram, lock, cache, stopOwed>> /\ KeepBounds

\* A cycle the scheduler starts is over hours before its part of the day ends;
\* one that /rebalance asks for may be under way at midnight.
Wait ==
    /\ \A j \in Jobs : At(j, "idle")
    /\ TimePasses
    /\ UNCHANGED <<switch, telegram, serviceVars>>

\* The dashboard's buttons and the command line.
Operate ==
    /\ At("operator", "idle")
    /\ MayHappen
    /\ operations' = operations + 1
    /\ \E order \in {"halt", "resume"} : Goto("operator", order)
    /\ UNCHANGED <<switch, dayVars, telegram, lock, cache, ran, crashes>> /\ KeepHistory

--------------------------------------------------------------------------------
\* The command thread polls when it has nothing to handle.
PollCommands ==
    /\ At("telegram", "idle")
    /\ Poll \/ (MayHappen /\ PollFails)
    /\ UNCHANGED <<switch, dayVars, serviceVars>>

\* A command goes to its handler; what is no command of the chat is skipped, and
\* left out here.  /rebalance looks for open markets before it waits for the lock: a calendar
\* that cannot be read, or is cleared under the thread, is a closed market.
HandleUpdate(u) ==
    /\ At("telegram", "idle")
    /\ Take(u)
    /\ \/ /\ Script[u] = "rebalance"
          /\ \E known \in {{}, Jobs}, pc \in {"reply", "lock"} :
                 /\ cache' = cache \cup known
                 /\ thread' = [thread EXCEPT !["telegram"].pc = pc,
                                             !["telegram"].update = u,
                                             !["telegram"].force = (pc = "lock")]
       \/ /\ Script[u] # "rebalance"
          /\ thread' = [thread EXCEPT !["telegram"].pc =
                            IF Script[u] = "other" THEN "reply" ELSE Script[u],
                                      !["telegram"].update = u]
          /\ UNCHANGED cache
    /\ UNCHANGED <<switch, dayVars, handled, lock>> /\ KeepBounds /\ KeepHistory

\* A reply that cannot be sent ends poll_once; the next poll asks from the
\* offset on.
SendReply ==
    /\ At("telegram", "reply")
    /\ Handled(thread["telegram"].update)
    /\ Reply \/ (MayHappen /\ ReplyFails)
    /\ thread' = [thread EXCEPT !["telegram"] = Idle]
    /\ UNCHANGED <<switch, dayVars, sent, confirmed, offset, lock, cache>>
    /\ KeepBounds /\ KeepHistory

\* The service is killed and started again: the database is as it was.
CrashAndRestart ==
    /\ MayHappen
    /\ crashes' = crashes + 1
    /\ thread' = [t \in Threads |-> IF t = "operator" THEN thread[t] ELSE Idle]
    /\ lock' = NoOne
    /\ cache' = {}
    /\ Forget
    /\ UNCHANGED <<switch, dayVars, ran, operations>> /\ KeepHistory

--------------------------------------------------------------------------------
CycleStep(t) ==
    \/ TakeLock(t)
    \/ ReadHalted(t)
    \/ ReadHaltedDate(t)
    \/ CheckLimits(t)
    \/ LookUpCalendar(t)
    \/ ReadCalendar(t)
    \/ CheckOrder(t)
    \/ PlaceOrder(t)
    \/ FinishCycle(t)

SwitchStep(t) == Halt(t) \/ Resume(t) \/ ResumeToday(t)

CommandStep ==
    \/ PollCommands
    \/ \E u \in DOMAIN Script : HandleUpdate(u)
    \/ SendReply

Next ==
    \/ \E j \in Jobs : StartJob(j)
    \/ MarkEquity
    \/ \E t \in Cyclers : CycleStep(t)
    \/ \E t \in Switchers : SwitchStep(t)
    \/ Operate
    \/ CommandStep
    \/ CrashAndRestart
    \/ SendUpdate /\ UNCHANGED <<switch, dayVars, serviceVars>>
    \/ Wait

Spec == Init /\ [][Next]_vars

\* A thread that can go on does, and the command loop goes on polling.
FairSpec ==
    /\ Spec
    /\ \A j \in Jobs : WF_vars(CycleStep(j))
    /\ WF_vars(CycleStep("telegram") \/ SwitchStep("telegram") \/ CommandStep)

--------------------------------------------------------------------------------
InCycle == {"switch", "today", "limits", "calendar", "read", "trade", "submit"}
Places == InCycle \cup {"idle", "lock", "halt", "resume", "date", "reply"}

\* The types; the lock is held by the thread that is in a cycle, and by no other.
TypeOK ==
    /\ halted \in BOOLEAN /\ haltedDate \in 0..Days
    /\ day \in 1..Days /\ part \in {"night", "day"}
    /\ cache \subseteq Jobs
    /\ \A t \in Threads :
           /\ thread[t].pc \in Places
           /\ (thread[t].pc \in InCycle) = (lock = t)

\* A stop survives a restart (risk.py:21) and midnight: a cycle that began under
\* one comes to no order, unless an operator resumes.
StopHolds == \A t \in Cyclers : At(t, "trade") => ~thread[t].stopped

\* A resume that was ordered, and that no stop followed or crossed, lets the
\* bot trade: neither the operator's stop nor today's is left.
ResumeHolds == goOwed => ~HaltedByOperator /\ ~HaltedOn(day)

\* Hard cap per day (risk.py:10): no date has more orders than the budget, though
\* an order is counted only after the check that let it pass, and the scheduler
\* and /rebalance ask for cycles at the same time.
BudgetHolds == \A u \in DOMAIN placed : placed[u] <= MaxOrders

\* Under the lock, nobody clears a calendar between the look-up and the read:
\* a rebalance day is not missed for it.
CalendarStays == \A t \in Jobs : At(t, "read") => t \in cache

\* "Everything stops until tomorrow" (risk.py:9): once a limit stopped a cycle,
\* no cycle places an order before the next day, unless an operator resumes.
AutoStopHolds == [][placed' # placed => ~HaltedOn(day)]_vars

\* A command is handled once, but for what a restart makes Telegram send again.
OnceUnlessRestarted == \A u \in DOMAIN Script : handled[u] <= 1 + crashes

\* And every command is handled: a failed poll, a reply that cannot be sent and
\* a restart lose none, and a cycle that holds the lock lets it go.
EveryCommandIsHandled == \A u \in DOMAIN Script : sent >= u ~> handled[u] > 0

\* "Today's return vs the first equity mark of the day" (risk.py:145): no cycle
\* trades that found the account below the limit from the first mark of its day.
DailyLossStops ==
    \A t \in Cyclers : At(t, "trade") => ~Lost(opening, thread[t].equity)

================================================================================
