--------------------------------- MODULE Ledger ---------------------------------
(***************************************************************************)
(* The audit tables the live broker writes: `orders` and `fills`           *)
(* (data/store.py's schema; execution/live.py's _record_submission,        *)
(* _record_final and sync_orders).  Each operator is one SQLite            *)
(* transaction or one autocommitted statement, so it is one step.          *)
(***************************************************************************)
EXTENDS Integers

CONSTANT LedgerIds   \* ids an order row can have

VARIABLES rows,   \* table orders: status and filled quantity, by order id
          fills   \* table fills: the total filled quantity recorded, by order id

ledger == <<rows, fills>>

NoRow == [status |-> "NONE", filled |-> 0]
Recorded == {id \in LedgerIds : rows[id].status # "NONE"}

LedgerInit ==
    /\ rows = [id \in LedgerIds |-> NoRow]
    /\ fills = [id \in LedgerIds |-> 0]

\* INSERT OR REPLACE: whatever the row said before is gone.
RecordSubmission(id) ==
    /\ rows' = [rows EXCEPT ![id] = [status |-> "SUBMITTED", filled |-> 0]]
    /\ UNCHANGED fills

\* One transaction: the order's row, and a fill row when shares were filled.
RecordFinal(id, status, filled) ==
    /\ rows' = [rows EXCEPT ![id] = [status |-> status, filled |-> filled]]
    /\ fills' = [fills EXCEPT ![id] = @ + filled]

\* Mutant of SyncOrder: reconciling writes the missing fill row as well.
SyncOrderWithFill(id, status, filled) ==
    \/ rows[id].status = status /\ UNCHANGED ledger
    \/ rows[id].status # status /\ RecordFinal(id, status, filled)

\* An upsert of one closed order of Toss's history; fills are left alone.
SyncOrder(id, status, filled) ==
    \/ rows[id].status = status /\ UNCHANGED ledger
    \/ /\ rows[id].status # status
       /\ rows' = [rows EXCEPT ![id] = [status |-> status, filled |-> filled]]
       /\ UNCHANGED fills

================================================================================
