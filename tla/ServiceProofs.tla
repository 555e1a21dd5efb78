------------------------------ MODULE ServiceProofs ------------------------------
(***************************************************************************)
(* Theorems about the service, for any days, limits, script of commands    *)
(* and number of crashes, losses and acts of the operator.  They rest on   *)
(* the lock: what a cycle has found out at one step still holds at the     *)
(* next, since only the thread that holds the lock can change it.          *)
(***************************************************************************)
EXTENDS Service, TLAPS

USE DayAssumption, TelegramAssumption, ServiceAssumption

ThreadStates == [pc : Places, update : Nat, force : BOOLEAN, equity : Nat,
                 stopped : BOOLEAN, clean : BOOLEAN]

\* The types, with the thread the lock belongs to.  The day that follows in
\* UTC has no order yet.
TypeInv ==
    /\ halted \in BOOLEAN /\ haltedDate \in 0..day
    /\ day \in 1..Days /\ part \in {"night", "day"} /\ (part = "night" => day > 1)
    /\ placed \in [1..Days -> Nat]
    /\ \A u \in 1..Days : u > UtcDate => placed[u] = 0
    /\ thread \in [Threads -> ThreadStates]
    /\ lock \in Cyclers \cup {NoOne}
    /\ \A t \in Threads : thread[t].pc \in InCycle <=> lock = t
    /\ {stopOwed, goOwed} \subseteq BOOLEAN

\* What a cycle knows at its places; /rebalance is always forced, and never
\* asks for the calendar.
CycleInv ==
    /\ \A t \in Cyclers :
           /\ At(t, "submit") => placed[UtcDate] < MaxOrders
           /\ thread[t].pc \in {"limits", "calendar", "read", "trade", "submit"} => ~HaltedOn(day)
    /\ cache \subseteq Jobs
    /\ \A j \in Jobs : At(j, "read") => j \in cache
    /\ thread["telegram"].pc \in {"lock"} \cup InCycle =>
           thread["telegram"].force /\ thread["telegram"].pc \notin {"calendar", "read"}

\* A stop that is owed is still in the switch, and a cycle that began under it
\* gets no further than reading it.
StopInv ==
    /\ stopOwed => halted
    /\ \A t \in Cyclers : thread[t].stopped => halted /\ At(t, "switch")

\* A resume that is owed, or half done with no stop since, left the switch clear.
GoInv ==
    /\ goOwed => ~halted /\ haltedDate # day
    /\ \A t \in Switchers : thread[t].clean => ~halted /\ At(t, "date")

\* An update is before the offset and handled, in the hands of the thread, or
\* past the offset and yet to come: one of them, once for each run of the service.
Due(u) == IF u > offset THEN 1 ELSE 0
Held(u) == IF ~At("telegram", "idle") /\ thread["telegram"].update = u THEN 1 ELSE 0
OnceInv ==
    /\ sent \in 0..Len(Script) /\ {offset, confirmed, crashes} \subseteq Nat
    /\ batch \subseteq {u \in DOMAIN Script : u > offset}
    /\ handled \in [DOMAIN Script -> Nat]
    /\ ~At("telegram", "idle") => thread["telegram"].update \in DOMAIN Script
                                  /\ thread["telegram"].update <= offset
    /\ \A u \in DOMAIN Script : handled[u] + Due(u) + Held(u) <= 1 + crashes

--------------------------------------------------------------------------------
LEMMA Names ==
    /\ Jobs \subseteq Cyclers /\ Cyclers \subseteq Threads /\ Switchers \subseteq Threads
    /\ "telegram" \in Cyclers /\ "telegram" \in Switchers /\ "telegram" \notin Jobs
    /\ "operator" \in Switchers /\ "operator" \notin Cyclers
    /\ NoOne \notin Threads
    /\ Idle \in ThreadStates /\ InCycle \subseteq Places
BY DEF Jobs, Cyclers, Switchers, Threads, NoOne, Idle, ThreadStates, Places, InCycle

LEMMA UtcDateType == ASSUME TypeInv PROVE UtcDate \in 1..Days
BY DEF TypeInv, UtcDate

LEMMA StateFields ==
    ASSUME NEW x \in ThreadStates
    PROVE  /\ x.pc \in Places /\ x.update \in Nat /\ x.force \in BOOLEAN
           /\ x.equity \in Nat /\ x.stopped \in BOOLEAN /\ x.clean \in BOOLEAN
BY DEF ThreadStates

\* The record of a thread with another place.
LEMMA PcChange ==
    ASSUME NEW x \in ThreadStates, NEW pc \in Places
    PROVE  LET y == [x EXCEPT !.pc = pc]
           IN  /\ y \in ThreadStates /\ y.pc = pc /\ y.update = x.update /\ y.force = x.force
               /\ y.equity = x.equity /\ y.stopped = x.stopped /\ y.clean = x.clean
BY DEF ThreadStates

LEMMA OverFields ==
    ASSUME thread \in [Threads -> ThreadStates], NEW t \in Threads
    PROVE  /\ Over(t) \in ThreadStates
           /\ Over(t).pc = (IF t = "telegram" THEN "reply" ELSE "idle")
           /\ t = "telegram" => Over(t).update = thread[t].update
           /\ Over(t).force = FALSE /\ Over(t).stopped = FALSE /\ Over(t).clean = FALSE
<1>1. CASE t = "telegram"
  <2> DEFINE n == thread[t].update
             x == [Idle EXCEPT !.pc = "reply"]
             y == [x EXCEPT !.update = n]
  <2>1. n \in Nat
    BY StateFields
  <2>2. Over(t) = y
    BY <1>1 DEF Over
  <2>3. /\ x \in ThreadStates /\ x.pc = "reply"
        /\ x.force = FALSE /\ x.stopped = FALSE /\ x.clean = FALSE
    <3>1. "reply" \in Places
      BY DEF Places
    <3>2. Idle.force = FALSE /\ Idle.stopped = FALSE /\ Idle.clean = FALSE
      BY DEF Idle
    <3> QED
      BY <3>1, <3>2, Names, PcChange
  <2> HIDE DEF n, x
  <2>4. y \in ThreadStates /\ y.pc = x.pc /\ y.update = n
        /\ y.force = x.force /\ y.stopped = x.stopped /\ y.clean = x.clean
    BY <2>1, <2>3 DEF ThreadStates
  <2> HIDE DEF y
  <2> QED
    BY <1>1, <2>2, <2>3, <2>4 DEF n
<1>2. CASE t # "telegram"
  BY <1>2, Names DEF Over, Idle
<1> QED
  BY <1>1, <1>2

\* A thread moves and keeps the rest of its record; the others stay.
LEMMA GotoFields ==
    ASSUME thread \in [Threads -> ThreadStates], NEW t \in Threads, NEW pc \in Places,
           Goto(t, pc)
    PROVE  /\ thread' \in [Threads -> ThreadStates]
           /\ \A u \in Threads : u # t => thread'[u] = thread[u]
           /\ LET x == thread[t]  y == thread'[t]
              IN  /\ y.pc = pc /\ y.update = x.update /\ y.force = x.force
                  /\ y.equity = x.equity /\ y.stopped = x.stopped /\ y.clean = x.clean
<1> DEFINE y == [thread[t] EXCEPT !.pc = pc]
<1>1. thread' = [thread EXCEPT ![t] = y]
  BY DEF Goto
<1>2. thread[t] \in ThreadStates
  OBVIOUS
<1>3. /\ y \in ThreadStates /\ y.pc = pc /\ y.update = thread[t].update
      /\ y.force = thread[t].force /\ y.equity = thread[t].equity
      /\ y.stopped = thread[t].stopped /\ y.clean = thread[t].clean
  BY <1>2, PcChange
<1> HIDE DEF y
<1>4. thread'[t] = y
  BY <1>1
<1> QED
  BY <1>1, <1>3, <1>4

\* A thread's cycle or command is over; the others stay.
LEMMA EndFields ==
    ASSUME thread \in [Threads -> ThreadStates], NEW t \in Threads,
           thread' = [thread EXCEPT ![t] = Over(t)]
    PROVE  /\ thread' \in [Threads -> ThreadStates]
           /\ \A u \in Threads : u # t => thread'[u] = thread[u]
           /\ thread'[t].pc = (IF t = "telegram" THEN "reply" ELSE "idle")
           /\ t = "telegram" => thread'[t].update = thread[t].update
           /\ ~thread'[t].stopped /\ ~thread'[t].clean
<1>1. thread'[t] = Over(t) /\ thread' \in [Threads -> ThreadStates]
  BY OverFields
<1>2. \A u \in Threads : u # t => thread'[u] = thread[u]
  OBVIOUS
<1>3. /\ Over(t).pc = (IF t = "telegram" THEN "reply" ELSE "idle")
      /\ t = "telegram" => Over(t).update = thread[t].update
      /\ Over(t).stopped = FALSE /\ Over(t).clean = FALSE
  BY OverFields
<1> QED
  BY <1>1, <1>2, <1>3

\* The same, crossing the resumes under way.
LEMMA CrossFields ==
    ASSUME thread \in [Threads -> ThreadStates], NEW t \in Threads,
           thread' = [Cross EXCEPT ![t] = Over(t)]
    PROVE  /\ thread' \in [Threads -> ThreadStates]
           /\ thread'[t].pc = (IF t = "telegram" THEN "reply" ELSE "idle")
           /\ t = "telegram" => thread'[t].update = thread[t].update
           /\ ~thread'[t].stopped /\ ~thread'[t].clean
           /\ \A u \in Threads : u # t =>
                  LET x == thread[u]  y == thread'[u]
                  IN  /\ y.pc = x.pc /\ y.update = x.update /\ y.force = x.force
                      /\ y.equity = x.equity /\ y.stopped = x.stopped /\ y.clean = FALSE
<1>1. ASSUME NEW x \in ThreadStates
      PROVE  LET y == [x EXCEPT !.clean = FALSE]
             IN  /\ y \in ThreadStates /\ y.pc = x.pc /\ y.update = x.update
                 /\ y.force = x.force /\ y.equity = x.equity
                 /\ y.stopped = x.stopped /\ y.clean = FALSE
  BY DEF ThreadStates
<1> DEFINE C(u) == [thread[u] EXCEPT !.clean = FALSE]
<1>2. \A u \in Threads :
          /\ C(u) \in ThreadStates /\ C(u).pc = thread[u].pc /\ C(u).update = thread[u].update
          /\ C(u).force = thread[u].force /\ C(u).equity = thread[u].equity
          /\ C(u).stopped = thread[u].stopped /\ C(u).clean = FALSE
  BY <1>1
<1>3. Cross = [u \in Threads |-> C(u)]
  BY DEF Cross
<1> HIDE DEF C
<1>4. thread' = [u \in Threads |-> IF u = t THEN Over(t) ELSE C(u)]
  BY <1>3
<1>5. /\ thread' \in [Threads -> ThreadStates]
      /\ thread'[t] = Over(t)
      /\ \A u \in Threads : u # t => thread'[u] = C(u)
  BY <1>2, <1>4, OverFields
<1>6. /\ Over(t).pc = (IF t = "telegram" THEN "reply" ELSE "idle")
      /\ t = "telegram" => Over(t).update = thread[t].update
      /\ Over(t).stopped = FALSE /\ Over(t).clean = FALSE
  BY OverFields
<1>7. /\ thread'[t].pc = (IF t = "telegram" THEN "reply" ELSE "idle")
      /\ t = "telegram" => thread'[t].update = thread[t].update
      /\ ~thread'[t].stopped /\ ~thread'[t].clean
  BY <1>5, <1>6
<1> QED
  BY <1>2, <1>5, <1>7

--------------------------------------------------------------------------------
Inv == TypeInv /\ CycleInv /\ StopInv /\ GoInv /\ OnceInv
Gated == {"limits", "calendar", "read", "trade", "submit"}

\* Nothing Telegram knows changes, nor what its thread has in hand.
LEMMA OnceFrame ==
    ASSUME OnceInv, UNCHANGED <<telegram, crashes>>,
           thread'["telegram"].pc = "idle" <=> thread["telegram"].pc = "idle",
           thread["telegram"].pc # "idle" =>
               thread'["telegram"].update = thread["telegram"].update
    PROVE  OnceInv'
<1> DEFINE p == thread["telegram"].pc
           q == thread'["telegram"].pc
           m == thread["telegram"].update
           n == thread'["telegram"].update
<1>1. \A u \in DOMAIN Script : Due(u)' = Due(u) /\ Held(u)' = Held(u)
  BY DEF telegram, Due, Held, At
<1>2. UNCHANGED <<sent, offset, confirmed, batch, handled, crashes>>
  BY DEF telegram
<1>3. ~At("telegram", "idle")' <=> ~At("telegram", "idle")
  BY DEF At
<1> QED
  BY <1>1, <1>2, <1>3 DEF OnceInv, At

\* A cycle goes on from step to step, or ends.
LEMMA CycleMove ==
    ASSUME Inv, NEW t \in Cyclers, thread[t].pc \in InCycle,
           UNCHANGED <<switch, dayVars, telegram, crashes, stopOwed, goOwed>>,
           cache' = cache \/ (t \in Jobs /\ cache' = cache \cup {t}),
           \/ EndCycle(t)
           \/ \E pc \in InCycle :
                  /\ Goto(t, pc)
                  /\ UNCHANGED lock
                  /\ pc # "switch" /\ ~thread[t].stopped
                  /\ pc = "submit" => placed[UtcDate] < MaxOrders
                  /\ pc \in Gated => ~HaltedOn(day)
                  /\ pc = "read" => t \in cache'
                  /\ pc \in {"calendar", "read"} => t # "telegram"
    PROVE  Inv'
<1> USE Names
<1>1. /\ UNCHANGED <<halted, haltedDate, day, part, placed>>
      /\ UtcDate' = UtcDate
  BY DEF switch, dayVars, UtcDate
<1>2. thread \in [Threads -> ThreadStates] /\ lock = t /\ t \in Threads
  BY DEF Inv, TypeInv
<1>3. CASE EndCycle(t)
  <2>1. thread' \in [Threads -> ThreadStates] /\ lock' = NoOne
        /\ \A u \in Threads : u # t => thread'[u] = thread[u]
    BY <1>2, <1>3, EndFields DEF EndCycle
  <2>2. /\ thread'[t].pc = (IF t = "telegram" THEN "reply" ELSE "idle")
        /\ t = "telegram" => thread'[t].update = thread[t].update
        /\ ~thread'[t].stopped /\ ~thread'[t].clean
    BY <1>2, <1>3, EndFields DEF EndCycle
  <2>3. TypeInv'
    BY <1>1, <1>2, <2>1, <2>2 DEF Inv, TypeInv, InCycle
  <2>3a. cache \subseteq Jobs /\ cache' \subseteq Jobs /\ cache \subseteq cache'
    BY DEF Inv, CycleInv
  <2>4. CycleInv'
    <3>1. \A u \in Cyclers : At(u, "submit")' => (placed[UtcDate] < MaxOrders)'
      BY <1>1, <1>2, <2>1, <2>2 DEF Inv, CycleInv, At
    <3>2. \A u \in Cyclers : thread'[u].pc \in Gated => ~HaltedOn(day)'
      BY <1>1, <1>2, <2>1, <2>2 DEF Inv, CycleInv, HaltedOn, Gated
    <3>3. \A j \in Jobs : At(j, "read")' => j \in cache'
      BY <1>2, <2>1, <2>2, <2>3a DEF Inv, CycleInv, At
    <3>4. thread'["telegram"].pc \in {"lock"} \cup InCycle =>
              thread'["telegram"].force /\ thread'["telegram"].pc \notin {"calendar", "read"}
      BY <1>2, <2>1, <2>2 DEF Inv, CycleInv, InCycle
    <3> QED
      BY <2>3a, <3>1, <3>2, <3>3, <3>4 DEF CycleInv, Gated
  <2>5. StopInv'
    BY <1>1, <1>2, <2>1, <2>2 DEF Inv, StopInv, At
  <2>6. GoInv'
    BY <1>1, <1>2, <2>1, <2>2 DEF Inv, GoInv, At
  <2>7. OnceInv'
    BY <1>2, <2>1, <2>2, OnceFrame DEF Inv, InCycle
  <2> QED
    BY <2>3, <2>4, <2>5, <2>6, <2>7 DEF Inv
<1>4. ASSUME NEW pc \in InCycle,
             Goto(t, pc), UNCHANGED lock, pc # "switch", ~thread[t].stopped,
             pc = "submit" => placed[UtcDate] < MaxOrders,
             pc \in Gated => ~HaltedOn(day),
             pc = "read" => t \in cache',
             pc \in {"calendar", "read"} => t # "telegram"
      PROVE  Inv'
  <2>1. /\ thread' \in [Threads -> ThreadStates]
        /\ \A u \in Threads : u # t => thread'[u] = thread[u]
        /\ thread'[t].pc = pc /\ thread'[t].update = thread[t].update
        /\ thread'[t].force = thread[t].force
        /\ thread'[t].stopped = thread[t].stopped /\ thread'[t].clean = thread[t].clean
    BY <1>2, <1>4, GotoFields
  <2>2. pc # "idle" /\ thread[t].pc # "idle"
    BY <1>4 DEF InCycle
  <2>3. TypeInv'
    BY <1>1, <1>2, <1>4, <2>1 DEF Inv, TypeInv
  <2>4. CycleInv'
    BY <1>1, <1>2, <1>4, <2>1 DEF Inv, CycleInv, At, InCycle, HaltedOn, Gated
  <2>5. StopInv'
    BY <1>1, <1>2, <1>4, <2>1 DEF Inv, StopInv, At
  <2>6. GoInv'
    BY <1>1, <1>2, <1>4, <2>1 DEF Inv, GoInv, At, InCycle
  <2>7. OnceInv'
    BY <1>2, <2>1, <2>2, OnceFrame DEF Inv
  <2> QED
    BY <2>3, <2>4, <2>5, <2>6, <2>7 DEF Inv
<1> QED
  BY <1>3, <1>4

\* A thread outside its cycle goes to a place that is outside as well.
LEMMA OutsideMove ==
    ASSUME Inv, NEW t \in Threads, NEW pc \in Places \ InCycle, Goto(t, pc),
           thread[t].pc \notin InCycle \cup {"date"},
           UNCHANGED <<switch, dayVars, telegram, lock, cache, crashes, stopOwed, goOwed>>,
           t # "telegram"
    PROVE  Inv'
<1> USE Names
<1>1. /\ UNCHANGED <<halted, haltedDate, day, part, placed>>
      /\ UtcDate' = UtcDate
  BY DEF switch, dayVars, UtcDate
<1>2. thread \in [Threads -> ThreadStates] /\ lock # t
  BY DEF Inv, TypeInv
<1>3. /\ thread' \in [Threads -> ThreadStates]
      /\ \A u \in Threads : u # t => thread'[u] = thread[u]
      /\ thread'[t].pc = pc
      /\ thread'[t].stopped = thread[t].stopped /\ thread'[t].clean = thread[t].clean
  BY <1>2, GotoFields
<1>4. TypeInv'
  BY <1>1, <1>2, <1>3 DEF Inv, TypeInv
<1>5. CycleInv'
  BY <1>1, <1>2, <1>3 DEF Inv, CycleInv, At, InCycle, HaltedOn
<1>6. StopInv'
  BY <1>1, <1>2, <1>3 DEF Inv, StopInv, At, InCycle
<1>7. GoInv'
  BY <1>1, <1>2, <1>3 DEF Inv, GoInv, At
<1>8. OnceInv'
  BY <1>2, <1>3, OnceFrame DEF Inv
<1> QED
  BY <1>4, <1>5, <1>6, <1>7, <1>8 DEF Inv

LEMMA MarkEquityStep == Inv /\ MarkEquity => Inv'
<1> SUFFICES ASSUME Inv, MarkEquity PROVE Inv'
  OBVIOUS
<1>1. /\ UNCHANGED <<halted, haltedDate, day, part, placed>> /\ UtcDate' = UtcDate
      /\ UNCHANGED <<thread, lock, cache, crashes, stopOwed, goOwed, telegram>>
  BY DEF MarkEquity, RecordEquity, switch, serviceVars, UtcDate
<1>2. TypeInv' /\ StopInv' /\ GoInv'
  BY <1>1 DEF Inv, TypeInv, StopInv, GoInv, At
<1>3. CycleInv'
  BY <1>1 DEF Inv, CycleInv, At, HaltedOn
<1>4. OnceInv'
  BY <1>1, OnceFrame DEF Inv
<1> QED
  BY <1>2, <1>3, <1>4 DEF Inv

LEMMA TakeLockStep == ASSUME Inv, NEW t \in Cyclers, TakeLock(t) PROVE Inv'
<1> USE Names
<1>1. /\ UNCHANGED <<halted, haltedDate, day, part, placed>> /\ UtcDate' = UtcDate
      /\ UNCHANGED <<crashes, stopOwed, goOwed, telegram>>
      /\ thread[t].pc = "lock" /\ lock = NoOne /\ cache' = {}
  BY DEF TakeLock, TakeSnapshot, RecordEquity, switch, dayVars, UtcDate, KeepBounds, KeepHistory, At
<1>0. thread \in [Threads -> ThreadStates] /\ t \in Threads
  BY DEF Inv, TypeInv
<1>2. thread \in [Threads -> ThreadStates] /\ t \in Threads
      /\ \A u \in Threads : thread[u].pc \notin InCycle
  BY <1>1 DEF Inv, TypeInv
<1>3. CASE EndCycle(t)
  <2>1. thread' \in [Threads -> ThreadStates] /\ lock' = NoOne
        /\ \A u \in Threads : u # t => thread'[u] = thread[u]
    BY <1>0, <1>3, EndFields DEF EndCycle
  <2>2. /\ thread'[t].pc = (IF t = "telegram" THEN "reply" ELSE "idle")
        /\ t = "telegram" => thread'[t].update = thread[t].update
        /\ ~thread'[t].stopped /\ ~thread'[t].clean
    BY <1>0, <1>3, EndFields DEF EndCycle
  <2>3. TypeInv'
    <3>1. \A u \in Threads : thread'[u].pc \notin InCycle /\ lock' # u
      BY <1>2, <2>1, <2>2 DEF InCycle
    <3> QED
      BY <1>1, <2>1, <3>1 DEF Inv, TypeInv
  <2>4. CycleInv'
    BY <1>1, <1>2, <2>1, <2>2 DEF Inv, CycleInv, At, InCycle, HaltedOn
  <2>5. StopInv' /\ GoInv'
    BY <1>1, <1>2, <2>1, <2>2 DEF Inv, StopInv, GoInv, At
  <2>6. OnceInv'
    BY <1>1, <1>2, <2>1, <2>2, OnceFrame DEF Inv
  <2> QED
    BY <2>3, <2>4, <2>5, <2>6 DEF Inv
<1>4. ASSUME NEW e \in Equities, lock' = t,
             thread' = [thread EXCEPT ![t].pc = "switch", ![t].equity = e, ![t].stopped = stopOwed]
      PROVE  Inv'
  <2> DEFINE x == thread[t]
             y == [x EXCEPT !.pc = "switch", !.equity = e, !.stopped = stopOwed]
  <2>1. thread' = [thread EXCEPT ![t] = y]
    BY <1>4
  <2>2. x \in ThreadStates /\ e \in Nat /\ stopOwed \in BOOLEAN /\ "switch" \in Places
    BY <1>2, <1>4 DEF Inv, TypeInv, Places, InCycle
  <2> HIDE DEF x
  <2>3. /\ y \in ThreadStates /\ y.pc = "switch" /\ y.update = x.update /\ y.force = x.force
        /\ y.stopped = stopOwed /\ y.clean = x.clean
    <3> DEFINE a == [x EXCEPT !.pc = "switch"]
               b == [a EXCEPT !.equity = e]
               c == [b EXCEPT !.stopped = stopOwed]
    <3>1. /\ a \in ThreadStates /\ a.pc = "switch" /\ a.update = x.update
          /\ a.force = x.force /\ a.clean = x.clean
      BY <2>2, PcChange
    <3> HIDE DEF a
    <3>2. /\ b \in ThreadStates /\ b.pc = a.pc /\ b.update = a.update
          /\ b.force = a.force /\ b.clean = a.clean
      BY <2>2, <3>1 DEF ThreadStates
    <3> HIDE DEF b
    <3>3. /\ c \in ThreadStates /\ c.pc = b.pc /\ c.update = b.update
          /\ c.force = b.force /\ c.clean = b.clean /\ c.stopped = stopOwed
      BY <2>2, <3>2 DEF ThreadStates
    <3>4. y = c
      BY DEF a, b
    <3> QED
      BY <3>1, <3>2, <3>3, <3>4
  <2> HIDE DEF y
  <2>4. thread' \in [Threads -> ThreadStates]
        /\ thread'[t] = y /\ \A u \in Threads : u # t => thread'[u] = thread[u]
    BY <1>2, <2>1, <2>3
  <2>5. TypeInv'
    BY <1>1, <1>2, <1>4, <2>3, <2>4 DEF Inv, TypeInv, InCycle
  <2>6. CycleInv'
    BY <1>1, <1>2, <2>3, <2>4 DEF Inv, CycleInv, At, InCycle, HaltedOn, x
  <2>7. StopInv'
    BY <1>1, <1>2, <2>3, <2>4 DEF Inv, StopInv, At
  <2>8. GoInv'
    BY <1>1, <1>2, <2>3, <2>4 DEF Inv, GoInv, At, x
  <2>9. OnceInv'
    BY <1>1, <1>2, <2>3, <2>4, OnceFrame DEF Inv, x
  <2> QED
    BY <2>5, <2>6, <2>7, <2>8, <2>9 DEF Inv
<1> QED
  BY <1>3, <1>4 DEF TakeLock, TakeSnapshot

\* A limit stops the bot for the day: the cycle ends, and so does what the
\* resumes under way have earned.
LEMMA StopTodayStep ==
    ASSUME Inv, NEW t \in Cyclers, At(t, "limits"), HaltForToday(day),
           thread' = [Cross EXCEPT ![t] = Over(t)], lock' = NoOne, goOwed' = FALSE,
           UNCHANGED <<dayVars, telegram, cache, crashes, stopOwed>>
    PROVE  Inv'
<1> USE Names
<1>1. /\ UNCHANGED <<halted, day, part, placed>> /\ UtcDate' = UtcDate
      /\ haltedDate' = day
  BY DEF HaltForToday, dayVars, UtcDate
<1>2. thread \in [Threads -> ThreadStates] /\ t \in Threads
  BY DEF Inv, TypeInv
<1>3. lock = t /\ thread[t].pc = "limits"
  BY <1>2 DEF Inv, TypeInv, At, InCycle
<1>4. /\ thread' \in [Threads -> ThreadStates]
      /\ thread'[t].pc = (IF t = "telegram" THEN "reply" ELSE "idle")
      /\ t = "telegram" => thread'[t].update = thread[t].update
      /\ ~thread'[t].stopped /\ ~thread'[t].clean
  BY <1>2, CrossFields
<1>5. \A u \in Threads : u # t =>
          /\ thread'[u].pc = thread[u].pc /\ thread'[u].update = thread[u].update
          /\ thread'[u].force = thread[u].force /\ thread'[u].stopped = thread[u].stopped
          /\ ~thread'[u].clean
  BY <1>2, CrossFields
<1>6. TypeInv'
  <2>1. \A u \in Threads : thread'[u].pc \notin InCycle /\ lock' # u
    BY <1>3, <1>4, <1>5 DEF Inv, TypeInv, InCycle
  <2>2. halted' \in BOOLEAN /\ {stopOwed', goOwed'} \subseteq BOOLEAN
    BY <1>1, Zenon DEF Inv, TypeInv
  <2>3. haltedDate' \in 0..day
    BY <1>1 DEF Inv, TypeInv
  <2> QED
    BY <1>1, <1>4, <2>1, <2>2, <2>3 DEF Inv, TypeInv
<1>7. CycleInv'
  <2>1. \A u \in Cyclers : thread'[u].pc \notin InCycle
    BY <1>3, <1>4, <1>5 DEF Inv, TypeInv, InCycle
  <2>2. thread'["telegram"].pc = "lock" => thread'["telegram"].force
    BY <1>4, <1>5 DEF Inv, CycleInv, InCycle
  <2> QED
    BY <2>1, <2>2 DEF Inv, CycleInv, At, InCycle
<1>8. StopInv'
  BY <1>1, <1>3, <1>4, <1>5 DEF Inv, StopInv, At
<1>9. GoInv'
  BY <1>4, <1>5 DEF GoInv
<1>10. OnceInv'
  BY <1>3, <1>4, <1>5, OnceFrame DEF Inv
<1> QED
  BY <1>6, <1>7, <1>8, <1>9, <1>10 DEF Inv

LEMMA PlaceOrderStep == ASSUME Inv, NEW t \in Cyclers, PlaceOrder(t) PROVE Inv'
<1> USE Names
<1>1. /\ UNCHANGED <<halted, haltedDate, day, part>> /\ UtcDate' = UtcDate
      /\ UNCHANGED <<lock, cache, crashes, stopOwed, goOwed, telegram>>
      /\ placed' = [placed EXCEPT ![UtcDate] = @ + 1]
  BY DEF PlaceOrder, PlaceOne, switch, UtcDate, KeepBounds, KeepHistory
<1>2. thread \in [Threads -> ThreadStates] /\ t \in Threads /\ thread[t].pc = "submit"
  BY DEF Inv, TypeInv, PlaceOrder, At
<1>3. /\ thread' \in [Threads -> ThreadStates]
      /\ \A u \in Threads : u # t => thread'[u] = thread[u]
      /\ thread'[t].pc = "trade" /\ thread'[t].update = thread[t].update
      /\ thread'[t].force = thread[t].force
      /\ thread'[t].stopped = thread[t].stopped /\ thread'[t].clean = thread[t].clean
  <2>1. "trade" \in Places /\ Goto(t, "trade")
    BY DEF PlaceOrder, Places, InCycle
  <2> QED
    BY <1>2, <2>1, GotoFields
<1>4. lock = t /\ UtcDate \in 1..Days
  BY <1>2, UtcDateType DEF Inv, TypeInv, InCycle
<1>5. TypeInv'
  <2>1. placed' \in [1..Days -> Nat] /\ \A u \in 1..Days : u > UtcDate => placed'[u] = 0
    BY <1>1, <1>4 DEF Inv, TypeInv
  <2> QED
    BY <1>1, <1>2, <1>3, <1>4, <2>1 DEF Inv, TypeInv, InCycle
<1>6. CycleInv'
  <2>1. \A u \in Cyclers : ~At(u, "submit")'
    BY <1>2, <1>3, <1>4 DEF Inv, TypeInv, At, InCycle
  <2>2. \A u \in Cyclers : thread'[u].pc \in {"limits", "calendar", "read", "trade", "submit"}
            => ~HaltedOn(day)'
    BY <1>1, <1>2, <1>3 DEF Inv, CycleInv, HaltedOn
  <2> QED
    BY <1>1, <1>2, <1>3, <2>1, <2>2 DEF Inv, CycleInv, At, InCycle
<1>7. StopInv'
  BY <1>1, <1>2, <1>3 DEF Inv, StopInv, At
<1>8. GoInv'
  BY <1>1, <1>2, <1>3 DEF Inv, GoInv, At
<1>9. OnceInv'
  BY <1>1, <1>2, <1>3, OnceFrame DEF Inv
<1> QED
  BY <1>5, <1>6, <1>7, <1>8, <1>9 DEF Inv

LEMMA CycleStepKeeps == ASSUME Inv, NEW t \in Cyclers, CycleStep(t) PROVE Inv'
<1> DEFINE Frame == UNCHANGED <<switch, dayVars, telegram, crashes, stopOwed, goOwed>>
           Known == cache' = cache \/ (t \in Jobs /\ cache' = cache \cup {t})
           On(pc) == /\ Goto(t, pc)
                     /\ UNCHANGED lock
                     /\ pc # "switch" /\ ~thread[t].stopped
                     /\ pc = "submit" => placed[UtcDate] < MaxOrders
                     /\ pc \in Gated => ~HaltedOn(day)
                     /\ pc = "read" => t \in cache'
                     /\ pc \in {"calendar", "read"} => t # "telegram"
           Moves == EndCycle(t) \/ \E pc \in InCycle : On(pc)
<1>1. ASSUME thread[t].pc \in InCycle, Frame, Known, Moves PROVE Inv'
  BY <1>1, CycleMove
<1>2. /\ thread[t].stopped => halted /\ thread[t].pc = "switch"
      /\ thread[t].pc \in Gated => ~HaltedOn(day)
      /\ t \in Jobs \/ t = "telegram"
      /\ t = "telegram" /\ thread[t].pc \in InCycle =>
             thread[t].force /\ thread[t].pc \notin {"calendar", "read"}
  BY Names DEF Inv, StopInv, CycleInv, At, Gated, Cyclers
<1> USE DEF At, KeepBounds, KeepHistory
<1>3. CASE ReadHalted(t)
  <2>1. thread[t].pc \in InCycle /\ Frame /\ Known
    BY <1>3 DEF ReadHalted, InCycle
  <2>2. EndCycle(t) \/ On("today")
    BY <1>2, <1>3 DEF ReadHalted, HaltedByOperator, Gated
  <2> QED
    BY <1>1, <2>1, <2>2 DEF InCycle
<1>4. CASE ReadHaltedDate(t)
  <2>1. thread[t].pc \in InCycle /\ Frame /\ Known
    BY <1>4 DEF ReadHaltedDate, InCycle
  <2>2. EndCycle(t) \/ On("limits")
    BY <1>2, <1>4 DEF ReadHaltedDate
  <2> QED
    BY <1>1, <2>1, <2>2 DEF InCycle
<1>5. CASE CheckLimits(t)
  <2>1. CASE HaltForToday(day) /\ thread' = [Cross EXCEPT ![t] = Over(t)]
             /\ lock' = NoOne /\ goOwed' = FALSE
    BY <1>5, <2>1, StopTodayStep DEF CheckLimits
  <2>2. ASSUME thread' = [thread EXCEPT ![t].pc = IF thread[t].force THEN "trade" ELSE "calendar"],
               UNCHANGED <<switch, lock, goOwed>>
        PROVE  Inv'
    <3>1. thread[t].pc \in InCycle /\ Frame /\ Known
      BY <1>5, <2>2 DEF CheckLimits, InCycle
    <3>2. On("trade") \/ On("calendar")
      BY <1>2, <1>5, <2>2 DEF CheckLimits, Goto, Gated, InCycle
    <3> QED
      BY <1>1, <3>1, <3>2 DEF InCycle
  <2> QED
    BY <1>5, <2>1, <2>2 DEF CheckLimits
<1>6. CASE LookUpCalendar(t)
  <2>1. thread[t].pc \in InCycle /\ Frame /\ Known
    BY <1>2, <1>6 DEF LookUpCalendar, InCycle
  <2>2. EndCycle(t) \/ On("read")
    BY <1>2, <1>6 DEF LookUpCalendar, Gated, InCycle
  <2> QED
    BY <1>1, <2>1, <2>2 DEF InCycle
<1>7. CASE ReadCalendar(t)
  <2>1. thread[t].pc \in InCycle /\ Frame /\ Known
    BY <1>7 DEF ReadCalendar, InCycle
  <2>2. EndCycle(t) \/ On("trade")
    BY <1>2, <1>7 DEF ReadCalendar, Gated
  <2> QED
    BY <1>1, <2>1, <2>2 DEF InCycle
<1>8. CASE CheckOrder(t)
  <2>1. thread[t].pc \in InCycle /\ Frame /\ Known
    BY <1>8 DEF CheckOrder, InCycle
  <2>2. On("submit")
    BY <1>2, <1>8 DEF CheckOrder, Gated, BudgetLeft
  <2> QED
    BY <1>1, <2>1, <2>2 DEF InCycle
<1>9. CASE FinishCycle(t)
  <2>1. thread[t].pc \in InCycle /\ Frame /\ Known /\ EndCycle(t)
    BY <1>9 DEF FinishCycle, InCycle
  <2> QED
    BY <1>1, <2>1
<1> QED
  BY <1>3, <1>4, <1>5, <1>6, <1>7, <1>8, <1>9, TakeLockStep, PlaceOrderStep DEF CycleStep

--------------------------------------------------------------------------------
LEMMA HaltStep == ASSUME Inv, NEW t \in Switchers, Halt(t) PROVE Inv'
<1> USE Names
<1>1. /\ UNCHANGED <<haltedDate, day, part, placed, lock, cache, crashes, telegram>>
      /\ UtcDate' = UtcDate /\ halted' = TRUE /\ goOwed' = FALSE
      /\ stopOwed' = (stopOwed \/ \A u \in Switchers : ~At(u, "date"))
  BY DEF Halt, HaltByOperator, dayVars, UtcDate, KeepBounds
<1>2. thread \in [Threads -> ThreadStates] /\ t \in Threads /\ thread[t].pc = "halt"
  BY DEF Inv, TypeInv, Halt, At
<1>3. thread' = [Cross EXCEPT ![t] = Over(t)]
  BY DEF Halt
<1>4. /\ thread' \in [Threads -> ThreadStates]
      /\ thread'[t].pc = (IF t = "telegram" THEN "reply" ELSE "idle")
      /\ t = "telegram" => thread'[t].update = thread[t].update
      /\ ~thread'[t].stopped /\ ~thread'[t].clean
  BY <1>2, <1>3, CrossFields
<1>5. \A u \in Threads : u # t =>
          /\ thread'[u].pc = thread[u].pc /\ thread'[u].update = thread[u].update
          /\ thread'[u].force = thread[u].force /\ thread'[u].stopped = thread[u].stopped
          /\ ~thread'[u].clean
  BY <1>2, <1>3, CrossFields
<1>6. TypeInv'
  <2>1. \A u \in Threads : thread'[u].pc \in InCycle <=> lock' = u
    BY <1>1, <1>2, <1>4, <1>5 DEF Inv, TypeInv, InCycle
  <2>2. halted' \in BOOLEAN /\ {stopOwed', goOwed'} \subseteq BOOLEAN
    BY <1>1, Zenon DEF Inv, TypeInv
  <2> QED
    BY <1>1, <1>4, <2>1, <2>2 DEF Inv, TypeInv
<1>7. CycleInv'
  <2>1. thread'["telegram"].pc \in {"lock"} \cup InCycle =>
            thread'["telegram"].force /\ thread'["telegram"].pc \notin {"calendar", "read"}
    BY <1>2, <1>4, <1>5 DEF Inv, CycleInv, InCycle
  <2>2. \A u \in Cyclers :
            /\ thread'[u].pc = "submit" => placed[UtcDate] < MaxOrders
            /\ thread'[u].pc \in {"limits", "calendar", "read", "trade", "submit"}
               => ~HaltedOn(day)'
            /\ u \in Jobs /\ thread'[u].pc = "read" => u \in cache
    BY <1>1, <1>4, <1>5 DEF Inv, CycleInv, At, HaltedOn
  <2>3. cache' = cache /\ cache \subseteq Jobs /\ (placed[UtcDate])' = placed[UtcDate]
    BY <1>1 DEF Inv, CycleInv
  <2> QED
    BY <2>1, <2>2, <2>3 DEF CycleInv, At
<1>8. StopInv'
  BY <1>1, <1>2, <1>4, <1>5 DEF Inv, StopInv, At
<1>9. GoInv'
  BY <1>1, <1>4, <1>5 DEF GoInv
<1>10. OnceInv'
  BY <1>1, <1>2, <1>4, <1>5, OnceFrame DEF Inv
<1> QED
  BY <1>6, <1>7, <1>8, <1>9, <1>10 DEF Inv

\* One key cleared: the thread goes to the other, and no cycle is under a stop.
LEMMA ResumeFields ==
    ASSUME thread \in [Threads -> ThreadStates], NEW t \in Switchers, Resume(t)
    PROVE  /\ thread' \in [Threads -> ThreadStates]
           /\ thread'[t].pc = "date" /\ thread'[t].update = thread[t].update
           /\ thread'[t].stopped = thread[t].stopped
           /\ \A u \in Threads : u # t =>
                  /\ thread'[u].pc = thread[u].pc /\ thread'[u].update = thread[u].update
                  /\ thread'[u].force = thread[u].force /\ ~thread'[u].stopped
                  /\ thread'[u].clean = thread[u].clean
<1> DEFINE R == [thread[t] EXCEPT !.pc = "date", !.clean = TRUE]
           S(u) == [thread[u] EXCEPT !.stopped = FALSE]
<1>1. ASSUME NEW x \in ThreadStates
      PROVE  LET y == [x EXCEPT !.stopped = FALSE]
             IN  /\ y \in ThreadStates /\ y.pc = x.pc /\ y.update = x.update
                 /\ y.force = x.force /\ ~y.stopped /\ y.clean = x.clean
  BY DEF ThreadStates
<1>2. \A u \in Threads :
          /\ S(u) \in ThreadStates /\ S(u).pc = thread[u].pc /\ S(u).update = thread[u].update
          /\ S(u).force = thread[u].force /\ ~S(u).stopped /\ S(u).clean = thread[u].clean
  BY <1>1
<1>3. R \in ThreadStates /\ R.pc = "date" /\ R.update = thread[t].update
      /\ R.stopped = thread[t].stopped
  <2> DEFINE x == thread[t]
             a == [x EXCEPT !.pc = "date"]
             b == [a EXCEPT !.clean = TRUE]
  <2>1. x \in ThreadStates /\ "date" \in Places
    BY Names DEF Places
  <2> HIDE DEF x
  <2>2. a \in ThreadStates /\ a.pc = "date" /\ a.update = x.update /\ a.stopped = x.stopped
    BY <2>1, PcChange
  <2> HIDE DEF a
  <2>3. b \in ThreadStates /\ b.pc = a.pc /\ b.update = a.update /\ b.stopped = a.stopped
    BY <2>2 DEF ThreadStates
  <2>4. R = b
    BY DEF x, a
  <2> HIDE DEF b, R
  <2> QED
    BY <2>2, <2>3, <2>4 DEF x
<1>4. thread' = [u \in Threads |-> IF u = t THEN R ELSE S(u)]
  BY DEF Resume
<1> HIDE DEF R, S
<1>5. /\ thread' \in [Threads -> ThreadStates] /\ thread'[t] = R
      /\ \A u \in Threads : u # t => thread'[u] = S(u)
  BY <1>2, <1>3, <1>4, Names
<1> QED
  BY <1>2, <1>3, <1>5

LEMMA ResumeStep == ASSUME Inv, NEW t \in Switchers, Resume(t) PROVE Inv'
<1> USE Names
<1>1. /\ UNCHANGED <<haltedDate, day, part, placed, lock, cache, crashes, telegram, goOwed>>
      /\ UtcDate' = UtcDate /\ halted' = FALSE /\ stopOwed' = FALSE
  BY DEF Resume, ClearHalted, dayVars, UtcDate, KeepBounds
<1>2. thread \in [Threads -> ThreadStates] /\ t \in Threads /\ thread[t].pc = "resume"
  BY DEF Inv, TypeInv, Resume, At
<1>3. /\ thread' \in [Threads -> ThreadStates]
      /\ thread'[t].pc = "date" /\ thread'[t].update = thread[t].update
      /\ thread'[t].stopped = thread[t].stopped
      /\ \A u \in Threads : u # t =>
             /\ thread'[u].pc = thread[u].pc /\ thread'[u].update = thread[u].update
             /\ thread'[u].force = thread[u].force /\ ~thread'[u].stopped
             /\ thread'[u].clean = thread[u].clean
  BY <1>2, ResumeFields
<1>6. TypeInv'
  <2>1. \A u \in Threads : thread'[u].pc \in InCycle <=> lock' = u
    BY <1>1, <1>2, <1>3 DEF Inv, TypeInv, InCycle
  <2>2. halted' \in BOOLEAN /\ {stopOwed', goOwed'} \subseteq BOOLEAN
    BY <1>1, Zenon DEF Inv, TypeInv
  <2> QED
    BY <1>1, <1>3, <2>1, <2>2 DEF Inv, TypeInv
<1>7. CycleInv'
  <2>1. thread'["telegram"].pc \in {"lock"} \cup InCycle =>
            thread'["telegram"].force /\ thread'["telegram"].pc \notin {"calendar", "read"}
    BY <1>2, <1>3 DEF Inv, CycleInv, InCycle
  <2>2. \A u \in Cyclers :
            /\ thread'[u].pc = "submit" => placed[UtcDate] < MaxOrders
            /\ thread'[u].pc \in {"limits", "calendar", "read", "trade", "submit"}
               => ~HaltedOn(day)'
            /\ u \in Jobs /\ thread'[u].pc = "read" => u \in cache
    BY <1>1, <1>3 DEF Inv, CycleInv, At, HaltedOn
  <2>3. cache' = cache /\ cache \subseteq Jobs /\ (placed[UtcDate])' = placed[UtcDate]
    BY <1>1 DEF Inv, CycleInv
  <2> QED
    BY <2>1, <2>2, <2>3 DEF CycleInv, At
<1>8. StopInv'
  BY <1>1, <1>2, <1>3 DEF Inv, StopInv, At
<1>9. GoInv'
  BY <1>1, <1>2, <1>3 DEF Inv, GoInv, At
<1>10. OnceInv'
  BY <1>1, <1>2, <1>3, OnceFrame DEF Inv
<1> QED
  BY <1>6, <1>7, <1>8, <1>9, <1>10 DEF Inv

LEMMA ResumeTodayStep == ASSUME Inv, NEW t \in Switchers, ResumeToday(t) PROVE Inv'
<1> USE Names
<1>1. /\ UNCHANGED <<halted, day, part, placed, lock, cache, crashes, telegram, stopOwed>>
      /\ UtcDate' = UtcDate /\ haltedDate' = 0 /\ goOwed' = (goOwed \/ thread[t].clean)
  BY DEF ResumeToday, ClearDate, dayVars, UtcDate, KeepBounds
<1>2. thread \in [Threads -> ThreadStates] /\ t \in Threads /\ thread[t].pc = "date"
  BY DEF Inv, TypeInv, ResumeToday, At
<1>3. /\ thread' \in [Threads -> ThreadStates]
      /\ \A u \in Threads : u # t => thread'[u] = thread[u]
      /\ thread'[t].pc = (IF t = "telegram" THEN "reply" ELSE "idle")
      /\ t = "telegram" => thread'[t].update = thread[t].update
      /\ ~thread'[t].stopped /\ ~thread'[t].clean
  BY <1>2, EndFields DEF ResumeToday
<1>4. day \in Nat \ {0} /\ thread[t].clean \in BOOLEAN
  BY <1>2, StateFields DEF Inv, TypeInv
<1>6. TypeInv'
  <2>1. \A u \in Threads : thread'[u].pc \in InCycle <=> lock' = u
    BY <1>1, <1>2, <1>3 DEF Inv, TypeInv, InCycle
  <2>2. halted' \in BOOLEAN /\ {stopOwed', goOwed'} \subseteq BOOLEAN
    BY <1>1, <1>4, Zenon DEF Inv, TypeInv
  <2> QED
    BY <1>1, <1>3, <1>4, <2>1, <2>2 DEF Inv, TypeInv
<1>7. CycleInv'
  <2>1. thread'["telegram"].pc \in {"lock"} \cup InCycle =>
            thread'["telegram"].force /\ thread'["telegram"].pc \notin {"calendar", "read"}
    BY <1>2, <1>3 DEF Inv, CycleInv, InCycle
  <2>2. \A u \in Cyclers :
            /\ thread'[u].pc = "submit" => placed[UtcDate] < MaxOrders
            /\ ~HaltedOn(day)'
            /\ u \in Jobs /\ thread'[u].pc = "read" => u \in cache
    BY <1>1, <1>3, <1>4 DEF Inv, CycleInv, At, HaltedOn
  <2>3. cache' = cache /\ cache \subseteq Jobs /\ (placed[UtcDate])' = placed[UtcDate]
    BY <1>1 DEF Inv, CycleInv
  <2> QED
    BY <2>1, <2>2, <2>3 DEF CycleInv, At
<1>8. StopInv'
  BY <1>1, <1>2, <1>3 DEF Inv, StopInv, At
<1>9. GoInv'
  BY <1>1, <1>2, <1>3, <1>4 DEF Inv, GoInv, At
<1>10. OnceInv'
  BY <1>1, <1>2, <1>3, OnceFrame DEF Inv
<1> QED
  BY <1>6, <1>7, <1>8, <1>9, <1>10 DEF Inv

LEMMA StartJobStep == ASSUME Inv, NEW j \in Jobs, StartJob(j) PROVE Inv'
<1>1. "lock" \in Places \ InCycle /\ thread[j].pc = "idle" /\ Goto(j, "lock")
  BY DEF StartJob, At, Places, InCycle
<1>2. UNCHANGED <<switch, dayVars, telegram, lock, cache, crashes, stopOwed, goOwed>>
  BY DEF StartJob, KeepHistory
<1>3. j \in Threads /\ j # "telegram" /\ thread[j].pc \notin InCycle \cup {"date"}
  BY <1>1, Names DEF InCycle
<1> QED
  BY <1>1, <1>2, <1>3, OutsideMove

LEMMA OperateStep == Inv /\ Operate => Inv'
<1> SUFFICES ASSUME Inv, Operate PROVE Inv'
  OBVIOUS
<1>1. UNCHANGED <<switch, dayVars, telegram, lock, cache, crashes, stopOwed, goOwed>>
  BY DEF Operate, KeepHistory
<1>2. PICK order \in {"halt", "resume"} : Goto("operator", order)
  BY DEF Operate
<1>3. order \in Places \ InCycle /\ thread["operator"].pc \notin InCycle \cup {"date"}
  BY DEF Operate, At, Places, InCycle
<1>4. "operator" \in Threads /\ "operator" # "telegram"
  BY Names
<1> QED
  BY <1>1, <1>2, <1>3, <1>4, OutsideMove

\* Steps of Telegram and of the clock that move no thread.
LEMMA StillInv ==
    ASSUME Inv, UNCHANGED <<switch, dayVars, thread, lock, cache, stopOwed, goOwed>>
    PROVE  TypeInv' /\ CycleInv' /\ StopInv' /\ GoInv'
<1>1. /\ UNCHANGED <<halted, haltedDate, day, part, placed>> /\ UtcDate' = UtcDate
  BY DEF switch, dayVars, UtcDate
<1>2. TypeInv' /\ StopInv' /\ GoInv'
  BY <1>1 DEF Inv, TypeInv, StopInv, GoInv, At
<1>3. CycleInv'
  BY <1>1 DEF Inv, CycleInv, At, HaltedOn
<1> QED
  BY <1>2, <1>3

LEMMA ScriptLength == Len(Script) \in Nat /\ DOMAIN Script = 1..Len(Script)
OBVIOUS

LEMMA PollStep == Inv /\ PollCommands => Inv'
<1> SUFFICES ASSUME Inv, PollCommands PROVE Inv'
  OBVIOUS
<1>1. UNCHANGED <<switch, dayVars, thread, lock, cache, crashes, stopOwed, goOwed>>
  BY DEF PollCommands, serviceVars
<1>2. UNCHANGED <<sent, offset, handled>> /\ offset \in Nat /\ confirmed \in Nat /\ sent \in Nat
      /\ sent <= Len(Script)
  BY ScriptLength DEF PollCommands, Poll, PollFails, Inv, OnceInv
<1>3. confirmed' \in Nat /\ batch' \subseteq {u \in DOMAIN Script : u > offset}
  <2>1. CASE Poll
    <3>1. confirmed' \in Nat /\ confirmed' >= offset /\ batch' = (confirmed' + 1)..sent
      BY <1>2, <2>1 DEF Poll
    <3>2. ASSUME NEW c \in Nat, NEW o \in Nat, NEW s \in Nat, NEW n \in Nat, c >= o, s <= n
          PROVE  (c + 1)..s \subseteq {u \in 1..n : u > o}
      BY <3>2
    <3> QED
      BY <1>2, <3>1, <3>2, ScriptLength
  <2>2. CASE PollFails
    BY <1>2, <2>2 DEF PollFails, Inv, OnceInv
  <2> QED
    BY <2>1, <2>2 DEF PollCommands
<1>4. \A u \in DOMAIN Script : Due(u)' = Due(u) /\ Held(u)' = Held(u)
  BY <1>1, <1>2 DEF Due, Held, At
<1>5. OnceInv'
  BY <1>1, <1>2, <1>3, <1>4 DEF Inv, OnceInv, At
<1> QED
  BY <1>1, <1>5, StillInv DEF Inv

LEMMA SendUpdateStep ==
    Inv /\ SendUpdate /\ UNCHANGED <<switch, dayVars, serviceVars>> => Inv'
<1> SUFFICES ASSUME Inv, SendUpdate, UNCHANGED <<switch, dayVars, serviceVars>> PROVE Inv'
  OBVIOUS
<1>1. UNCHANGED <<switch, dayVars, thread, lock, cache, crashes, stopOwed, goOwed>>
  BY DEF serviceVars
<1>2. UNCHANGED <<confirmed, offset, batch, handled>> /\ sent' \in 0..Len(Script)
  BY ScriptLength DEF SendUpdate, Inv, OnceInv
<1>3. \A u \in DOMAIN Script : Due(u)' = Due(u) /\ Held(u)' = Held(u)
  BY <1>1, <1>2 DEF Due, Held, At
<1>4. OnceInv'
  BY <1>1, <1>2, <1>3 DEF Inv, OnceInv, At
<1> QED
  BY <1>1, <1>4, StillInv DEF Inv

LEMMA WaitStep == Inv /\ Wait => Inv'
<1> SUFFICES ASSUME Inv, Wait PROVE Inv'
  OBVIOUS
<1>1. UNCHANGED <<halted, haltedDate, placed, thread, lock, cache, crashes, stopOwed, goOwed, telegram>>
  BY DEF Wait, TimePasses, switch, serviceVars
<1>2. /\ day' \in 1..Days /\ part' \in {"night", "day"} /\ (part' = "night" => day' > 1)
      /\ day \in Nat /\ day' >= day /\ haltedDate <= day
      /\ haltedDate # day => haltedDate # day'
      /\ UtcDate' >= UtcDate /\ UtcDate \in 1..Days /\ UtcDate' \in 1..Days
      /\ UtcDate' = UtcDate \/ UtcDate' = UtcDate + 1
  BY UtcDateType DEF Wait, TimePasses, UtcDate, Inv, TypeInv
<1>3. TypeInv'
  <2>1. \A u \in 1..Days : u > UtcDate' => placed'[u] = 0
    BY <1>1, <1>2 DEF Inv, TypeInv
  <2>2. haltedDate' \in 0..day'
    BY <1>1, <1>2 DEF Inv, TypeInv
  <2> QED
    BY <1>1, <1>2, <2>1, <2>2 DEF Inv, TypeInv
<1>4. CycleInv'
  <2>1. \A u \in Cyclers : At(u, "submit")' => (placed[UtcDate] < MaxOrders)'
    <3>1. placed[UtcDate] < MaxOrders => placed'[UtcDate'] < MaxOrders
      <4>1. CASE UtcDate' = UtcDate
        BY <1>1, <4>1
      <4>2. CASE UtcDate' = UtcDate + 1
        <5>1. placed[UtcDate'] = 0 /\ placed[UtcDate] \in Nat
          BY <1>2, <4>2 DEF Inv, TypeInv
        <5> QED
          BY <1>1, <5>1
      <4> QED
        BY <1>2, <4>1, <4>2
    <3> QED
      BY <1>1, <3>1 DEF Inv, CycleInv, At
  <2>2. \A u \in Cyclers : thread'[u].pc \in {"limits", "calendar", "read", "trade", "submit"}
            => ~HaltedOn(day)'
    BY <1>1, <1>2 DEF Inv, CycleInv, HaltedOn
  <2> QED
    BY <1>1, <2>1, <2>2 DEF Inv, CycleInv, At
<1>5. StopInv' /\ GoInv'
  BY <1>1, <1>2 DEF Inv, StopInv, GoInv, At
<1>6. OnceInv'
  BY <1>1, OnceFrame DEF Inv
<1> QED
  BY <1>3, <1>4, <1>5, <1>6 DEF Inv

LEMMA TakeFields ==
    ASSUME thread \in [Threads -> ThreadStates], NEW u \in Nat,
           NEW pc \in Places, NEW f \in BOOLEAN,
           \/ thread' = [thread EXCEPT !["telegram"].pc = pc, !["telegram"].update = u,
                                      !["telegram"].force = f]
           \/ /\ thread' = [thread EXCEPT !["telegram"].pc = pc, !["telegram"].update = u]
              /\ f = thread["telegram"].force
    PROVE  /\ thread' \in [Threads -> ThreadStates]
           /\ \A v \in Threads : v # "telegram" => thread'[v] = thread[v]
           /\ LET x == thread["telegram"]  y == thread'["telegram"]
              IN  /\ y.pc = pc /\ y.update = u /\ y.force = f
                  /\ y.stopped = x.stopped /\ y.clean = x.clean
<1> DEFINE x == thread["telegram"]
           a == [x EXCEPT !.pc = pc]
           b == [a EXCEPT !.update = u]
           c == [b EXCEPT !.force = f]
<1>1. x \in ThreadStates
  BY Names
<1>0. x.force = f => thread["telegram"].force = f
  OBVIOUS
<1>2. thread' = [thread EXCEPT !["telegram"] = c]
      \/ (thread' = [thread EXCEPT !["telegram"] = b] /\ x.force = f)
  OBVIOUS
<1> HIDE DEF x
<1>3. a \in ThreadStates /\ a.pc = pc /\ a.force = x.force /\ a.stopped = x.stopped
      /\ a.clean = x.clean
  BY <1>1, PcChange
<1> HIDE DEF a
<1>4. b \in ThreadStates /\ b.pc = pc /\ b.update = u /\ b.force = x.force
      /\ b.stopped = x.stopped /\ b.clean = x.clean
  BY <1>3 DEF ThreadStates
<1> HIDE DEF b
<1>5. c \in ThreadStates /\ c.pc = pc /\ c.update = u /\ c.force = f
      /\ c.stopped = x.stopped /\ c.clean = x.clean
  BY <1>4 DEF ThreadStates
<1> HIDE DEF c
<1>6. \E y \in ThreadStates :
          /\ thread' = [thread EXCEPT !["telegram"] = y]
          /\ y.pc = pc /\ y.update = u /\ y.force = f
          /\ y.stopped = x.stopped /\ y.clean = x.clean
  BY <1>2, <1>4, <1>5
<1> QED
  BY <1>6, Names DEF x

LEMMA HandleUpdateStep == ASSUME Inv, NEW u \in DOMAIN Script, HandleUpdate(u) PROVE Inv'
<1> USE Names
<1>1. /\ UNCHANGED <<halted, haltedDate, day, part, placed, lock, crashes, stopOwed, goOwed,
                    handled, sent, confirmed>>
      /\ UtcDate' = UtcDate /\ offset' = u /\ u \in batch /\ batch' = batch \ {u}
      /\ thread["telegram"].pc = "idle" /\ \A v \in batch : u <= v
  BY DEF HandleUpdate, Take, Oldest, At, switch, dayVars, UtcDate, KeepBounds, KeepHistory
<1>2. u \in Nat /\ Script[u] \in Commands
  BY ScriptLength
<1>3. thread \in [Threads -> ThreadStates] /\ thread["telegram"].force \in BOOLEAN
  BY StateFields DEF Inv, TypeInv
<1>4. PICK pc \in {"reply", "lock", "halt", "resume"}, f \in BOOLEAN :
          /\ \/ thread' = [thread EXCEPT !["telegram"].pc = pc, !["telegram"].update = u,
                                         !["telegram"].force = f]
             \/ /\ thread' = [thread EXCEPT !["telegram"].pc = pc, !["telegram"].update = u]
                /\ f = thread["telegram"].force
          /\ pc = "lock" => f
          /\ cache' = cache \/ cache' = cache \cup {} \/ cache' = cache \cup Jobs
  <2>1. CASE Script[u] = "rebalance"
    <3>1. PICK known \in {{}, Jobs}, pc \in {"reply", "lock"} :
              /\ cache' = cache \cup known
              /\ thread' = [thread EXCEPT !["telegram"].pc = pc, !["telegram"].update = u,
                                         !["telegram"].force = (pc = "lock")]
      BY <2>1 DEF HandleUpdate
    <3> DEFINE f == (pc = "lock")
    <3>2. f \in BOOLEAN /\ (pc = "lock" => f)
      OBVIOUS
    <3>3. thread' = [thread EXCEPT !["telegram"].pc = pc, !["telegram"].update = u,
                                   !["telegram"].force = f]
      BY <3>1
    <3>4. cache' = cache \cup {} \/ cache' = cache \cup Jobs
      BY <3>1
    <3> HIDE DEF f
    <3> QED
      BY <3>2, <3>3, <3>4
  <2>2. CASE Script[u] # "rebalance"
    <3> DEFINE pc == IF Script[u] = "other" THEN "reply" ELSE Script[u]
               f == thread["telegram"].force
    <3>1. pc \in {"reply", "halt", "resume"}
      BY <1>2, <2>2 DEF Commands
    <3>2. cache' = cache /\ thread' = [thread EXCEPT !["telegram"].pc = pc, !["telegram"].update = u]
      BY <2>2 DEF HandleUpdate
    <3>3. pc # "lock"
      BY <3>1
    <3> HIDE DEF pc
    <3> QED
      BY <1>3, <3>1, <3>2, <3>3
  <2> QED
    BY <2>1, <2>2
<1>5. pc \in Places /\ pc \notin InCycle \cup {"idle", "date"}
  BY <1>4 DEF Places, InCycle
<1>6. /\ thread' \in [Threads -> ThreadStates]
      /\ \A v \in Threads : v # "telegram" => thread'[v] = thread[v]
      /\ thread'["telegram"].pc = pc /\ thread'["telegram"].update = u
      /\ thread'["telegram"].force = f
      /\ thread'["telegram"].stopped = thread["telegram"].stopped
      /\ thread'["telegram"].clean = thread["telegram"].clean
  <2>1. CASE thread' = [thread EXCEPT !["telegram"].pc = pc, !["telegram"].update = u,
                                      !["telegram"].force = f]
    BY <1>2, <1>3, <1>5, <2>1, TakeFields
  <2>2. CASE thread' = [thread EXCEPT !["telegram"].pc = pc, !["telegram"].update = u]
             /\ f = thread["telegram"].force
    BY <1>2, <1>3, <1>5, <2>2, TakeFields
  <2> QED
    BY <1>4, <2>1, <2>2
<1>7. TypeInv'
  <2>1. \A v \in Threads : thread'[v].pc \in InCycle <=> lock' = v
    BY <1>1, <1>5, <1>6 DEF Inv, TypeInv, InCycle
  <2> QED
    BY <1>1, <1>6, <2>1 DEF Inv, TypeInv
<1>8. CycleInv'
  <2>1. thread'["telegram"].pc \in {"lock"} \cup InCycle =>
            thread'["telegram"].force /\ thread'["telegram"].pc \notin {"calendar", "read"}
    BY <1>4, <1>5, <1>6 DEF InCycle
  <2>2. \A v \in Cyclers :
            /\ thread'[v].pc = "submit" => placed[UtcDate] < MaxOrders
            /\ thread'[v].pc \in {"limits", "calendar", "read", "trade", "submit"}
               => ~HaltedOn(day)'
            /\ v \in Jobs /\ thread'[v].pc = "read" => v \in cache
    BY <1>1, <1>5, <1>6 DEF Inv, CycleInv, At, HaltedOn, InCycle
  <2>3. cache \subseteq cache' /\ cache' \subseteq Jobs /\ (placed[UtcDate])' = placed[UtcDate]
    BY <1>1, <1>4 DEF Inv, CycleInv
  <2> QED
    BY <2>1, <2>2, <2>3 DEF CycleInv, At
<1>9. StopInv'
  BY <1>1, <1>6 DEF Inv, StopInv, At
<1>10. GoInv'
  BY <1>1, <1>6 DEF Inv, GoInv, At
<1>11. OnceInv'
  <2>1. offset \in Nat /\ u > offset /\ batch \subseteq {v \in DOMAIN Script : v > offset}
        /\ handled \in [DOMAIN Script -> Nat] /\ crashes \in Nat
    BY <1>1 DEF Inv, OnceInv
  <2>2. batch' \subseteq {v \in DOMAIN Script : v > offset'}
    BY <1>1, <1>2, <2>1, ScriptLength
  <2>3. ASSUME NEW v \in DOMAIN Script
        PROVE  handled[v] + Due(v)' + Held(v)' <= 1 + crashes
    <3>1. handled[v] + Due(v) + Held(v) <= 1 + crashes /\ handled[v] \in Nat /\ v \in Nat
      BY <2>1, ScriptLength DEF Inv, OnceInv
    <3>2. Held(v) = 0
      BY <1>1 DEF Held, At
    <3>3. CASE v = u
      <4>1. Due(v) = 1
        BY <2>1, <3>3 DEF Due
      <4>2. Due(v)' = 0
        BY <1>1, <3>1, <3>3 DEF Due
      <4>3. Held(v)' \in 0..1
        BY DEF Held
      <4> QED
        BY <2>1, <3>1, <3>2, <4>1, <4>2, <4>3
    <3>4. CASE v # u
      <4>1. Held(v)' = 0
        BY <1>6, <3>4 DEF Held
      <4>2. Due(v)' <= Due(v) /\ Due(v) \in Nat /\ Due(v)' \in Nat
        BY <1>1, <1>2, <2>1, <3>1 DEF Due
      <4> QED
        BY <2>1, <3>1, <3>2, <4>1, <4>2
    <3> QED
      BY <3>3, <3>4
  <2> QED
    BY <1>1, <1>2, <1>6, <2>1, <2>2, <2>3 DEF Inv, OnceInv
<1> QED
  BY <1>7, <1>8, <1>9, <1>10, <1>11 DEF Inv

LEMMA SendReplyStep == Inv /\ SendReply => Inv'
<1> SUFFICES ASSUME Inv, SendReply PROVE Inv'
  OBVIOUS
<1> USE Names
<1> DEFINE n == thread["telegram"].update
<1>1. /\ UNCHANGED <<halted, haltedDate, day, part, placed, lock, cache, crashes,
                    stopOwed, goOwed, sent, confirmed, offset>>
      /\ UtcDate' = UtcDate /\ thread["telegram"].pc = "reply"
      /\ handled' = [handled EXCEPT ![n] = @ + 1] /\ batch' \in {batch, {}}
      /\ thread' = [thread EXCEPT !["telegram"] = Idle]
  BY DEF SendReply, Handled, Reply, ReplyFails, At, switch, dayVars, UtcDate, KeepBounds, KeepHistory
<1>2. thread \in [Threads -> ThreadStates]
  BY DEF Inv, TypeInv
<1>3. /\ thread' \in [Threads -> ThreadStates]
      /\ \A v \in Threads : v # "telegram" => thread'[v] = thread[v]
      /\ thread'["telegram"].pc = "idle"
      /\ ~thread'["telegram"].stopped /\ ~thread'["telegram"].clean
  BY <1>1, <1>2 DEF Idle
<1>7. TypeInv'
  <2>1. \A v \in Threads : thread'[v].pc \in InCycle <=> lock' = v
    BY <1>1, <1>3 DEF Inv, TypeInv, InCycle
  <2> QED
    BY <1>1, <1>3, <2>1 DEF Inv, TypeInv
<1>8. CycleInv'
  <2>2. \A v \in Cyclers :
            /\ thread'[v].pc = "submit" => placed[UtcDate] < MaxOrders
            /\ thread'[v].pc \in {"limits", "calendar", "read", "trade", "submit"}
               => ~HaltedOn(day)'
            /\ v \in Jobs /\ thread'[v].pc = "read" => v \in cache
    BY <1>1, <1>3 DEF Inv, CycleInv, At, HaltedOn
  <2>3. cache' = cache /\ cache \subseteq Jobs /\ (placed[UtcDate])' = placed[UtcDate]
    BY <1>1 DEF Inv, CycleInv
  <2> QED
    BY <1>3, <2>2, <2>3 DEF CycleInv, At, InCycle
<1>9. StopInv' /\ GoInv'
  BY <1>1, <1>3 DEF Inv, StopInv, GoInv, At
<1>11. OnceInv'
  <2>1. offset \in Nat /\ batch \subseteq {v \in DOMAIN Script : v > offset}
        /\ handled \in [DOMAIN Script -> Nat] /\ crashes \in Nat /\ n \in DOMAIN Script
    BY <1>1 DEF Inv, OnceInv, At
  <2>2. handled' \in [DOMAIN Script -> Nat] /\ batch' \subseteq {v \in DOMAIN Script : v > offset}
    BY <1>1, <2>1
  <2>3. ASSUME NEW v \in DOMAIN Script
        PROVE  handled'[v] + Due(v)' + Held(v)' <= 1 + crashes
    <3>1. handled[v] + Due(v) + Held(v) <= 1 + crashes /\ handled[v] \in Nat
      BY <2>1 DEF Inv, OnceInv
    <3>2. Due(v)' = Due(v) /\ Due(v) \in Nat /\ Held(v)' = 0
      BY <1>1, <1>3 DEF Due, Held, At
    <3>3. CASE v = n
      <4>1. Held(v) = 1 /\ handled'[v] = handled[v] + 1
        BY <1>1, <2>1, <3>3 DEF Held, At
      <4> QED
        BY <2>1, <3>1, <3>2, <4>1
    <3>4. CASE v # n
      <4>1. handled'[v] = handled[v] /\ Held(v) \in Nat
        BY <1>1, <2>1, <3>4 DEF Held
      <4> QED
        BY <2>1, <3>1, <3>2, <4>1
    <3> QED
      BY <3>3, <3>4
  <2> QED
    BY <1>1, <1>3, <2>1, <2>2, <2>3 DEF Inv, OnceInv, At
<1> QED
  BY <1>7, <1>8, <1>9, <1>11 DEF Inv

LEMMA CrashStep == Inv /\ CrashAndRestart => Inv'
<1> SUFFICES ASSUME Inv, CrashAndRestart PROVE Inv'
  OBVIOUS
<1> USE Names
<1>1. /\ UNCHANGED <<halted, haltedDate, day, part, placed, stopOwed, goOwed, sent,
                    confirmed, handled>>
      /\ UtcDate' = UtcDate /\ crashes' = crashes + 1 /\ lock' = NoOne /\ cache' = {}
      /\ offset' = 0 /\ batch' = {}
      /\ thread' = [t \in Threads |-> IF t = "operator" THEN thread[t] ELSE Idle]
  BY DEF CrashAndRestart, Forget, switch, dayVars, UtcDate, KeepHistory
<1>2. thread \in [Threads -> ThreadStates]
      /\ thread["operator"].pc \notin InCycle
  BY DEF Inv, TypeInv
<1>3. /\ thread' \in [Threads -> ThreadStates]
      /\ thread'["operator"] = thread["operator"]
      /\ \A v \in Threads : v # "operator" => thread'[v] = Idle
  BY <1>1, <1>2
<1>4. Idle.pc = "idle" /\ ~Idle.stopped /\ ~Idle.clean /\ "idle" \notin InCycle
  BY DEF Idle, InCycle
<1>5. \A v \in Threads : thread'[v].pc \notin InCycle
  BY <1>2, <1>3, <1>4
<1>7. TypeInv'
  BY <1>1, <1>3, <1>5 DEF Inv, TypeInv
<1>8. CycleInv'
  <2>1. \A v \in Cyclers : thread'[v].pc \notin InCycle
    BY <1>5
  <2>2. thread'["telegram"].pc = "idle"
    BY <1>3, <1>4
  <2> QED
    BY <1>1, <2>1, <2>2 DEF CycleInv, At, InCycle
<1>9. StopInv'
  BY <1>1, <1>3, <1>4 DEF Inv, StopInv, At
<1>10. GoInv'
  BY <1>1, <1>3, <1>4 DEF Inv, GoInv, At
<1>11. OnceInv'
  <2>1. crashes \in Nat /\ handled \in [DOMAIN Script -> Nat] /\ sent \in 0..Len(Script)
        /\ confirmed \in Nat
    BY DEF Inv, OnceInv
  <2>2. At("telegram", "idle")'
    BY <1>3, <1>4 DEF At
  <2>3. ASSUME NEW v \in DOMAIN Script
        PROVE  handled[v] + Due(v)' + Held(v)' <= 1 + crashes'
    <3>1. handled[v] + Due(v) + Held(v) <= 1 + crashes /\ handled[v] \in Nat
      BY <2>1 DEF Inv, OnceInv
    <3>2. Due(v) \in Nat /\ Held(v) \in Nat /\ Due(v)' \in 0..1 /\ Held(v)' = 0
      BY <2>2 DEF Due, Held
    <3> QED
      BY <1>1, <2>1, <3>1, <3>2
  <2> QED
    BY <1>1, <2>1, <2>2, <2>3 DEF OnceInv
<1> QED
  BY <1>7, <1>8, <1>9, <1>10, <1>11 DEF Inv

--------------------------------------------------------------------------------
LEMMA InvInit == Init => Inv
<1> SUFFICES ASSUME Init PROVE Inv
  OBVIOUS
<1> USE Names
<1>1. /\ halted = FALSE /\ haltedDate = 0 /\ day = 1 /\ part = "day"
      /\ placed = [u \in 1..Days |-> 0] /\ cache = {} /\ lock = NoOne
      /\ stopOwed = FALSE /\ goOwed = FALSE /\ crashes = 0
      /\ sent = 0 /\ confirmed = 0 /\ offset = 0 /\ batch = {}
      /\ handled = [u \in DOMAIN Script |-> 0]
      /\ thread = [t \in Threads |-> Idle]
  BY DEF Init, SwitchInit, DayInit, TelegramInit
<1>2. Idle.pc = "idle" /\ ~Idle.stopped /\ ~Idle.clean /\ "idle" \notin InCycle \cup {"lock"}
  BY DEF Idle, InCycle
<1>3. thread \in [Threads -> ThreadStates] /\ \A t \in Threads : thread[t] = Idle
  BY <1>1
<1>4. TypeInv
  <2>1. \A t \in Threads : thread[t].pc \notin InCycle /\ lock # t
    BY <1>1, <1>2, <1>3
  <2>2. part = "night" => day > 1
    BY <1>1
  <2>3. placed \in [1..Days -> Nat] /\ \A u \in 1..Days : placed[u] = 0
    BY <1>1
  <2>4. halted \in BOOLEAN /\ {stopOwed, goOwed} \subseteq BOOLEAN
    BY <1>1, Zenon
  <2>5. haltedDate \in 0..day /\ day \in 1..Days
    BY <1>1
  <2>6. part \in {"night", "day"} /\ lock \in Cyclers \cup {NoOne}
    BY <1>1
  <2> QED
    BY <1>3, <2>1, <2>2, <2>3, <2>4, <2>5, <2>6, Zenon DEF TypeInv
<1>5. CycleInv
  <2>1. \A t \in Cyclers : thread[t].pc \notin InCycle
    BY <1>2, <1>3
  <2>2. thread["telegram"].pc \notin {"lock"} \cup InCycle
    BY <1>2, <1>3
  <2> QED
    BY <1>1, <2>1, <2>2 DEF CycleInv, At, InCycle
<1>6. StopInv /\ GoInv
  BY <1>1, <1>2, <1>3 DEF StopInv, GoInv
<1>7. OnceInv
  <2>1. At("telegram", "idle")
    BY <1>2, <1>3 DEF At
  <2>2. \A u \in DOMAIN Script : Due(u) \in 0..1 /\ Held(u) = 0 /\ handled[u] = 0
    BY <1>1, <2>1 DEF Due, Held
  <2>3. 0 \in 0..Len(Script)
    BY ScriptLength
  <2> QED
    BY <1>1, <2>1, <2>2, <2>3 DEF OnceInv
<1> QED
  BY <1>4, <1>5, <1>6, <1>7 DEF Inv

LEMMA SwitchStepKeeps == ASSUME Inv, NEW t \in Switchers, SwitchStep(t) PROVE Inv'
BY HaltStep, ResumeStep, ResumeTodayStep DEF SwitchStep

LEMMA InvNext == Inv /\ [Next]_vars => Inv'
<1> SUFFICES ASSUME Inv, [Next]_vars PROVE Inv'
  OBVIOUS
<1>1. ASSUME NEW j \in Jobs, StartJob(j) PROVE Inv'
  BY <1>1, StartJobStep
<1>2. CASE MarkEquity
  BY <1>2, MarkEquityStep
<1>3. ASSUME NEW t \in Cyclers, CycleStep(t) PROVE Inv'
  BY <1>3, CycleStepKeeps
<1>4. ASSUME NEW t \in Switchers, SwitchStep(t) PROVE Inv'
  BY <1>4, SwitchStepKeeps
<1>5. CASE Operate
  BY <1>5, OperateStep
<1>6. CASE CommandStep
  BY <1>6, PollStep, HandleUpdateStep, SendReplyStep DEF CommandStep
<1>7. CASE CrashAndRestart
  BY <1>7, CrashStep
<1>8. CASE SendUpdate /\ UNCHANGED <<switch, dayVars, serviceVars>>
  BY <1>8, SendUpdateStep
<1>9. CASE Wait
  BY <1>9, WaitStep
<1>10. CASE UNCHANGED vars
  <2>1. UNCHANGED <<switch, dayVars, thread, lock, cache, stopOwed, goOwed, telegram, crashes>>
    BY <1>10 DEF vars, serviceVars
  <2> QED
    BY <2>1, StillInv, OnceFrame DEF Inv
<1> QED
  BY <1>1, <1>2, <1>3, <1>4, <1>5, <1>6, <1>7, <1>8, <1>9, <1>10 DEF Next

LEMMA InvHolds == Spec => []Inv
<1>1. Init => Inv
  BY InvInit
<1>2. Inv /\ [Next]_vars => Inv'
  BY InvNext
<1> QED
  BY <1>1, <1>2, PTL DEF Spec

\* The switch, the day and the lock stay within their types: the lock belongs to
\* the one thread that is in a cycle.
THEOREM TypesHold == Spec => []TypeOK
<1>1. Inv => TypeOK
  <2> SUFFICES ASSUME Inv PROVE TypeOK
    OBVIOUS
  <2>1. haltedDate \in 0..Days
    BY DEF Inv, TypeInv
  <2>2. \A t \in Threads :
            thread[t].pc \in Places /\ (thread[t].pc \in InCycle) = (lock = t)
    BY StateFields DEF Inv, TypeInv
  <2> QED
    BY <2>1, <2>2 DEF Inv, TypeInv, CycleInv, TypeOK
<1> QED
  BY <1>1, InvHolds, PTL

\* A stop outlasts midnight, restarts of the service and everything else but a
\* resume: no cycle that begins under it reaches its orders.
THEOREM StopsHold == Spec => []StopHolds
<1>1. Inv => StopHolds
  BY DEF Inv, StopInv, StopHolds, At
<1> QED
  BY <1>1, InvHolds, PTL

\* A resume that no stop crosses or follows clears the switch, though it does so
\* in two statements.
THEOREM ResumesHold == Spec => []ResumeHolds
<1>1. Inv => ResumeHolds
  BY DEF Inv, GoInv, ResumeHolds, HaltedByOperator, HaltedOn
<1> QED
  BY <1>1, InvHolds, PTL

\* Only an order changes the table of orders, and the lock keeps the check next to it.
LEMMA BudgetInv ==
    ASSUME Inv, BudgetHolds, [Next]_vars PROVE BudgetHolds'
<1> USE Names
<1>1. CASE UNCHANGED placed
  BY <1>1 DEF BudgetHolds
<1>2. ASSUME NEW t \in Cyclers, PlaceOrder(t) PROVE BudgetHolds'
  <2>1. /\ placed' = [placed EXCEPT ![UtcDate] = @ + 1]
        /\ placed[UtcDate] < MaxOrders /\ UtcDate \in 1..Days
        /\ placed \in [1..Days -> Nat]
    BY <1>2, UtcDateType DEF PlaceOrder, PlaceOne, Inv, TypeInv, CycleInv
  <2>2. \A u \in 1..Days : placed[u] <= MaxOrders
    BY <2>1 DEF BudgetHolds
  <2>3. \A u \in 1..Days : placed'[u] <= MaxOrders /\ DOMAIN placed' = 1..Days
    BY <2>1, <2>2
  <2> QED
    BY <2>1, <2>3 DEF BudgetHolds
<1>3. ASSUME NEW t \in Cyclers, CycleStep(t), ~PlaceOrder(t) PROVE UNCHANGED placed
  BY <1>3 DEF CycleStep, TakeLock, TakeSnapshot, RecordEquity, ReadHalted, ReadHaltedDate,
     CheckLimits, LookUpCalendar, ReadCalendar, CheckOrder, FinishCycle, dayVars
<1>4. ASSUME NEW t \in Switchers, SwitchStep(t) PROVE UNCHANGED placed
  BY <1>4 DEF SwitchStep, Halt, Resume, ResumeToday, dayVars
<1>5. ASSUME CommandStep PROVE UNCHANGED placed
  BY <1>5 DEF CommandStep, PollCommands, HandleUpdate, SendReply, dayVars
<1> QED
  BY <1>1, <1>2, <1>3, <1>4, <1>5 DEF Next, StartJob, MarkEquity, RecordEquity, Operate,
     CrashAndRestart, Wait, TimePasses, dayVars, vars

\* The service never places more orders on a UTC date than the budget allows: a
\* check that let an order pass is still true when its row is written (_cycle).
THEOREM BudgetKept == Spec => []BudgetHolds
<1>1. Init => BudgetHolds
  BY DEF Init, DayInit, BudgetHolds
<1>2. Inv /\ BudgetHolds /\ [Next]_vars => BudgetHolds'
  BY BudgetInv
<1> QED
  BY <1>1, <1>2, InvHolds, PTL DEF Spec

\* What the calendar lookup found is still in the cache when it is read.
THEOREM CalendarKept == Spec => []CalendarStays
<1>1. Inv => CalendarStays
  BY DEF Inv, CycleInv, CalendarStays
<1> QED
  BY <1>1, InvHolds, PTL

\* A command is handled at most once for each run of the service, whatever is
\* lost of polls and replies.
THEOREM HandledOnce == Spec => []OnceUnlessRestarted
<1>1. Inv => OnceUnlessRestarted
  <2> SUFFICES ASSUME Inv, NEW u \in DOMAIN Script PROVE handled[u] <= 1 + crashes
    BY DEF OnceUnlessRestarted
  <2>1. handled[u] + Due(u) + Held(u) <= 1 + crashes /\ handled[u] \in Nat /\ crashes \in Nat
    BY DEF Inv, OnceInv
  <2>2. Due(u) \in Nat /\ Held(u) \in Nat
    BY DEF Due, Held
  <2> QED
    BY <2>1, <2>2
<1> QED
  BY <1>1, InvHolds, PTL

\* After a limit has stopped a cycle no order is placed on that day, unless an
\* operator resumes.
THEOREM AutoStopsHold == Spec => AutoStopHolds
<1>1. Inv /\ [Next]_vars => [placed' # placed => ~HaltedOn(day)]_vars
  <2> SUFFICES ASSUME Inv, Next, placed' # placed PROVE ~HaltedOn(day)
    OBVIOUS
  <2>1. ASSUME NEW t \in Cyclers, PlaceOrder(t) PROVE ~HaltedOn(day)
    BY <2>1 DEF PlaceOrder, At, Inv, CycleInv
  <2>2. ASSUME NEW t \in Cyclers, CycleStep(t), ~PlaceOrder(t) PROVE UNCHANGED placed
    BY <2>2 DEF CycleStep, TakeLock, TakeSnapshot, RecordEquity, ReadHalted, ReadHaltedDate,
       CheckLimits, LookUpCalendar, ReadCalendar, CheckOrder, FinishCycle, dayVars, EndCycle
  <2>3. ASSUME NEW t \in Switchers, SwitchStep(t) PROVE UNCHANGED placed
    BY <2>3 DEF SwitchStep, Halt, Resume, ResumeToday, dayVars
  <2>4. ASSUME CommandStep PROVE UNCHANGED placed
    BY <2>4 DEF CommandStep, PollCommands, HandleUpdate, SendReply, dayVars
  <2> QED
    BY <2>1, <2>2, <2>3, <2>4 DEF Next, StartJob, MarkEquity, RecordEquity, Operate,
       CrashAndRestart, Wait, TimePasses, dayVars
<1> QED
  BY <1>1, InvHolds, PTL DEF Spec, AutoStopHolds

================================================================================
