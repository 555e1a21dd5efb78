-------------------------------- MODULE TradingDay --------------------------------
(***************************************************************************)
(* What a day is.  The switch and the daily loss go by the date in Seoul   *)
(* (today_kst); rows are stamped in UTC (utcnow), and orders_today counts  *)
(* by them.  A day in Seoul is a "night", 00:00 to 09:00, when UTC is      *)
(* still on the day before (the US cycle is at 04:30), and a "day", when   *)
(* both agree (the KR cycle is at 15:00).                                  *)
(***************************************************************************)
EXTENDS Integers

CONSTANTS Days,       \* bound: days in Seoul, the first from 09:00 on
          Equities,   \* what the account may be worth
          LossLimit,  \* max_daily_loss_pct, in parts of 100
          MaxOrders,  \* max_orders_per_day
          Watched     \* bound: whether the history of the day's opening is kept

ASSUME DayAssumption ==
    /\ Days \in Nat \ {0}
    /\ Equities \subseteq Nat \ {0}
    /\ {LossLimit, MaxOrders} \subseteq Nat
    /\ Watched \in BOOLEAN

VARIABLES day, part,  \* the date in Seoul and the part of it
          first,      \* table equity: the first row stamped with a UTC date, 0 for none
          placed,     \* table orders: the rows stamped with a UTC date
          opening     \* history, if watched: today's first mark in Seoul, 0 for none

dayVars == <<day, part, first, placed, opening>>

DayInit ==
    /\ day = 1
    /\ part = "day"
    /\ first = [u \in 1..Days |-> 0]
    /\ placed = [u \in 1..Days |-> 0]
    /\ opening = 0

UtcDate == IF part = "night" THEN day - 1 ELSE day

TimePasses ==
    /\ \/ part = "night" /\ part' = "day" /\ UNCHANGED <<day, opening>>
       \/ part = "day" /\ day < Days /\ part' = "night" /\ day' = day + 1 /\ opening' = 0
    /\ UNCHANGED <<first, placed>>

\* record_equity, of what the account is worth at that moment: of the rows of
\* a date the first one counts.
RecordEquity(equity) ==
    /\ first' = IF first[UtcDate] = 0 THEN [first EXCEPT ![UtcDate] = equity] ELSE first
    /\ opening' = IF Watched /\ opening = 0 THEN equity ELSE opening
    /\ UNCHANGED <<day, part, placed>>

\* The loss from a baseline is over the limit; no baseline, no loss.
Lost(baseline, now) == baseline > 0 /\ (now - baseline) * 100 <= -LossLimit * baseline

\* daily_loss: first_equity_of_day takes the rows whose UTC date is today's
\* date in Seoul.
LossToday(now) == Lost(first[day], now)

\* remaining_order_budget
BudgetLeft == placed[UtcDate] < MaxOrders

PlaceOne ==
    /\ placed' = [placed EXCEPT ![UtcDate] = @ + 1]
    /\ UNCHANGED <<day, part, first, opening>>

================================================================================
