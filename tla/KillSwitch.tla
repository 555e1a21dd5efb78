-------------------------------- MODULE KillSwitch --------------------------------
(***************************************************************************)
(* The kill switch (risk.py): two keys of the state table, the operator's  *)
(* stop and the day of the automatic one.  Each key is written and read in *)
(* a statement of its own.  The reason and the event that go with a stop   *)
(* are written after it and decide nothing.                                *)
(***************************************************************************)
EXTENDS Integers

VARIABLES halted,     \* STATE_HALTED
          haltedDate  \* STATE_HALTED_DATE, 0 for none

switch == <<halted, haltedDate>>

SwitchInit ==
    /\ halted = FALSE
    /\ haltedDate = 0

\* The two reads of is_halted, in their order.
HaltedByOperator == halted
HaltedOn(day) == haltedDate = day

\* Mutant of HaltByOperator: it stops for the day only.
HaltToday(day) ==
    /\ haltedDate' = day
    /\ UNCHANGED halted

\* halt, by an operator.
HaltByOperator(day) ==
    /\ halted' = TRUE
    /\ UNCHANGED haltedDate

\* halt(for_today_only=True), by check_cycle.
HaltForToday(day) ==
    /\ haltedDate' = day
    /\ UNCHANGED halted

ClearHalted ==
    /\ halted' = FALSE
    /\ UNCHANGED haltedDate

\* Mutant of ClearDate: the automatic stop is forgotten.
ClearNothing == UNCHANGED switch

ClearDate ==
    /\ haltedDate' = 0
    /\ UNCHANGED halted

================================================================================
