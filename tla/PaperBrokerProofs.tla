---------------------------- MODULE PaperBrokerProofs ----------------------------
(***************************************************************************)
(* Theorems about the paper broker, for any processes, symbols, prices and *)
(* rates.  The inductive invariant says what a submission knows at each of *)
(* its places: what it will leave behind is never negative and whole, and  *)
(* what it read is still so unless it is stale.                            *)
(***************************************************************************)
EXTENDS PaperBroker, TLAPS

USE CostsAssumption, PaperAssumption, BrokerAssumption DEF Countries

IsWhole(q) == \E n \in Int : q = n * Share

\* An order under way asks for whole shares; past the reads it can be paid or
\* delivered out of what was read.
Sound(q) ==
    LET o == q.order
    IN  /\ q.pc \in {"quoted", "priced", "decided"} =>
               (CountryOf[o.sym] = "KR" => IsWhole(o.qty))
        /\ q.pc \in {"priced", "decided"} =>
               /\ q.held >= 0
               /\ CountryOf[o.sym] = "KR" => IsWhole(q.held)
               /\ o.side = "SELL" => o.qty <= q.held
        /\ q.pc = "decided" =>
               /\ q.cash >= 0
               /\ o.side = "BUY" => Needed(o) <= q.cash

\* What it read is so until another process writes.
Fresh(q) ==
    ~q.stale =>
        /\ q.pc \in {"priced", "decided"} => q.held = held[q.order.sym]
        /\ q.pc = "decided" => q.cash = cash

WholeInv == \A s \in Symbols : CountryOf[s] = "KR" => IsWhole(held[s])
Empty == ~funded => cash = 0 /\ (~clash => held = NoShares /\ fills = NoFills /\ opened = 0)

IInv ==
    /\ TypeOK
    /\ NoDebt
    /\ WholeInv
    /\ FillsExplainAccount
    /\ Empty
    /\ \A p \in Processes : Sound(proc[p]) /\ Fresh(proc[p])

--------------------------------------------------------------------------------
LEMMA MulMono == ASSUME NEW a \in Nat, NEW b \in Nat, NEW c \in Nat, b <= c
                 PROVE  a * b <= a * c /\ b * a <= c * a
<1>1. PICK d \in Nat : c = b + d
  BY c - b \in Nat, c = b + (c - b)
<1>2. a * c = a * b + a * d /\ c * a = b * a + d * a
  BY <1>1, SMT
<1>3. a * d \in Nat /\ d * a \in Nat /\ a * b \in Nat /\ b * a \in Nat
  BY SMT
<1> QED
  BY <1>2, <1>3

LEMMA OrderTypes ==
    ASSUME NEW o \in Orders
    PROVE  /\ o.sym \in Symbols /\ o.side \in {"BUY", "SELL"}
           /\ o.px \in Nat \ {0} /\ o.qty \in Nat \ {0} /\ o.fx \in Nat \ {0}
           /\ CountryOf[o.sym] \in {"KR", "US"}
<1>1. /\ o.sym \in Symbols /\ o.side \in Sides /\ o.qty \in 1..MaxQuantity
      /\ o.px \in Prices /\ o.fx \in Rates \cup {1}
  BY DEF Orders
<1>2. o.qty \in Nat \ {0}
  BY <1>1
<1>3. o.px \in Nat \ {0} /\ o.fx \in Nat \ {0}
  <2>1. 1 \in Nat \ {0}
    BY SMT
  <2>2. Prices \subseteq Nat \ {0} /\ Rates \subseteq Nat \ {0}
    OBVIOUS
  <2> QED
    BY <1>1, <2>1, <2>2, Zenon
<1>4. CountryOf[o.sym] \in {"KR", "US"}
  BY <1>1
<1> QED
  BY <1>1, <1>2, <1>3, <1>4 DEF Sides

\* What CostOf charges is a natural number and at most the notional.
LEMMA CostBound ==
    ASSUME NEW o \in Orders
    PROVE  Cost(o) \in Nat /\ Cost(o) <= o.px * o.qty * Den /\ o.px * o.qty * Den \in Nat \ {0}
<1> DEFINE n == o.px * o.qty
           c == CountryOf[o.sym]
           etf == o.sym \in Etfs
           cost == CostOf(o.side, c, o.px, o.qty, etf)
<1>1. /\ o.px \in Nat \ {0} /\ o.qty \in Nat \ {0} /\ o.sym \in Symbols
      /\ o.side \in {"BUY", "SELL"} /\ c \in {"KR", "US"}
  BY OrderTypes
<1>2. n \in Nat \ {0} /\ o.qty <= n
  <2>1. o.qty * 1 <= o.qty * o.px
    BY <1>1, MulMono, 1 \in Nat, 1 <= o.px
  <2>2. o.qty * o.px = o.px * o.qty /\ o.qty * 1 = o.qty /\ o.px * o.qty \in Nat
    BY <1>1, SMT
  <2> QED
    BY <1>1, <2>1, <2>2
<1>3. PICK k \in Nat, t \in Nat, f \in Nat, x \in Nat :
          /\ k = Commission[c] /\ t <= StockTax + EtfTax /\ x <= FxSpread
          /\ t = (IF o.side = "SELL" THEN SellTaxRate(c, etf) ELSE 0)
          /\ x = FxRate(c)
          /\ f = (IF o.side = "SELL" /\ c = "US" THEN n * SecFee + Taf(o.qty) ELSE 0)
          /\ f <= n * SecFee + n * TafPerShare
  <2>1. Commission[c] \in Nat
    BY <1>1
  <2>2. /\ SellTaxRate(c, etf) \in Nat
        /\ SellTaxRate(c, etf) <= StockTax + EtfTax
    BY <1>1 DEF SellTaxRate
  <2>3. FxRate(c) \in Nat /\ FxRate(c) <= FxSpread
    BY <1>1 DEF FxRate
  <2>4. Taf(o.qty) \in Nat /\ Taf(o.qty) <= o.qty * TafPerShare
    <3>1. o.qty * TafPerShare \in Nat
      BY <1>1, SMT
    <3> QED
      BY <3>1 DEF Taf
  <2>5. o.qty * TafPerShare <= n * TafPerShare
    BY <1>1, <1>2, MulMono
  <2>6. n * SecFee \in Nat /\ n * TafPerShare \in Nat
    BY <1>2, SMT
  <2> DEFINE ff == IF o.side = "SELL" /\ c = "US" THEN n * SecFee + Taf(o.qty) ELSE 0
             tt == IF o.side = "SELL" THEN SellTaxRate(c, etf) ELSE 0
  <2>7. ff \in Nat /\ ff <= n * SecFee + n * TafPerShare
    <3> HIDE DEF n, c
    <3>1. o.qty * TafPerShare \in Nat
      BY <1>1, SMT
    <3> QED
      BY <2>4, <2>5, <2>6, <3>1
  <2>8. tt \in Nat /\ tt <= StockTax + EtfTax
    BY <2>2
  <2> HIDE DEF ff, tt, n, c, etf
  <2>9. \E k \in Nat, t \in Nat, f \in Nat, x \in Nat :
            /\ k = Commission[c] /\ t <= StockTax + EtfTax /\ x <= FxSpread
            /\ t = tt /\ x = FxRate(c) /\ f = ff /\ f <= n * SecFee + n * TafPerShare
    BY <2>1, <2>3, <2>7, <2>8
  <2> QED
    BY <2>9 DEF ff, tt
<1>4. Cost(o) = n * k + n * t + f + n * x
  <2>1. n * k \in Nat /\ n * t \in Nat /\ n * x \in Nat /\ n * 0 = 0
    BY <1>2, SMT
  <2>2. cost = [commission |-> n * k, tax |-> n * t, regulatory |-> f, fx |-> n * x]
    BY <1>2, <1>3, <2>1 DEF CostOf
  <2>3. Total(cost) = n * k + n * t + f + n * x
    BY <2>1, <2>2 DEF Total
  <2> QED
    BY <2>3 DEF Cost
<1> HIDE DEF n, c
<1>5. /\ n * k + n * t + n * SecFee + n * TafPerShare + n * x
           = n * (k + t + SecFee + TafPerShare + x)
      /\ n * k \in Nat /\ n * t \in Nat /\ n * x \in Nat
      /\ n * SecFee \in Nat /\ n * TafPerShare \in Nat
  BY <1>2, SMT
<1>6. k + t + SecFee + TafPerShare + x <= Den
  <2>1. Commission[c] + StockTax + EtfTax + SecFee + TafPerShare + FxSpread <= Den
    BY <1>1
  <2> QED
    BY <1>3, <2>1
<1>7. n * (k + t + SecFee + TafPerShare + x) <= n * Den
  BY <1>2, <1>6, MulMono, k + t + SecFee + TafPerShare + x \in Nat
<1>8. n * Den \in Nat \ {0}
  <2>1. n * 1 <= n * Den
    BY <1>2, MulMono, 1 \in Nat, 1 <= Den
  <2>2. n * 1 = n /\ n * Den \in Nat
    BY <1>2, SMT
  <2> QED
    BY <1>2, <2>1, <2>2
<1>9. n * k + n * t + f + n * x \in Nat /\ n * k + n * t + f + n * x <= n * Den
  BY <1>3, <1>5, <1>7, <1>8
<1> QED
  BY <1>4, <1>8, <1>9 DEF n

\* A buy needs something, and a sale brings in nothing negative.
LEMMA Flows ==
    ASSUME NEW o \in Orders
    PROVE  Needed(o) \in Nat \ {0} /\ Received(o) \in Nat
<1> DEFINE gross == o.px * o.qty * Den
<1>1. Cost(o) \in Nat /\ Cost(o) <= gross /\ gross \in Nat \ {0}
  BY CostBound
<1>2. o.fx \in Nat \ {0}
  BY OrderTypes
<1> HIDE DEF gross
<1>3. gross + Cost(o) \in Nat \ {0} /\ gross - Cost(o) \in Nat
  BY <1>1
<1>4. (gross + Cost(o)) * o.fx \in Nat \ {0} /\ (gross - Cost(o)) * o.fx \in Nat
  <2>1. \A a, b \in Nat : a * b \in Nat
    BY SMT
  <2>2. \A a, b \in Nat \ {0} : a * 1 <= a * b /\ a * 1 = a
    BY MulMono, 1 \in Nat, SMT
  <2>3. (gross + Cost(o)) * 1 <= (gross + Cost(o)) * o.fx /\ (gross + Cost(o)) * 1 = gross + Cost(o)
    BY <1>2, <1>3, <2>2
  <2>4. (gross + Cost(o)) * o.fx \in Nat
    BY <1>2, <1>3, <2>1
  <2>5. (gross - Cost(o)) * o.fx \in Nat
    BY <1>2, <1>3, <2>1
  <2> QED
    BY <1>3, <2>3, <2>4, <2>5
<1> QED
  BY <1>4 DEF Needed, Received, gross

LEMMA LotsBound ==
    ASSUME NEW sym \in Symbols, NEW qty \in 1..MaxQuantity
    PROVE  /\ Lots(sym, qty) \in Nat /\ Lots(sym, qty) <= qty
           /\ CountryOf[sym] = "KR" => IsWhole(Lots(sym, qty))
<1>1. /\ qty \div Share \in Nat
      /\ (qty \div Share) * Share \in Nat
      /\ (qty \div Share) * Share <= qty
  <2>1. qty = Share * (qty \div Share) + (qty % Share) /\ qty % Share \in 0..(Share - 1)
        /\ qty \div Share \in Int
    BY SMT
  <2>2. qty \div Share \in Nat
    BY SMT
  <2>3. Share * (qty \div Share) = (qty \div Share) * Share /\ (qty \div Share) * Share \in Nat
    BY <2>2, SMT
  <2> QED
    BY <2>1, <2>2, <2>3
<1>2. CASE CountryOf[sym] = "KR"
  <2>1. Lots(sym, qty) = (qty \div Share) * Share
    BY <1>2 DEF Lots
  <2> QED
    BY <1>1, <2>1 DEF IsWhole
<1>3. CASE CountryOf[sym] # "KR"
  BY <1>3 DEF Lots
<1> QED
  BY <1>2, <1>3

LEMMA WholeSum ==
    ASSUME NEW a \in Int, NEW b \in Int, IsWhole(a), IsWhole(b)
    PROVE  IsWhole(a + b) /\ IsWhole(a - b)
<1>1. PICK m \in Int, n \in Int : a = m * Share /\ b = n * Share
  BY DEF IsWhole
<1>2. a + b = (m + n) * Share /\ a - b = (m - n) * Share /\ m + n \in Int /\ m - n \in Int
  BY <1>1, SMT
<1> QED
  BY <1>2 DEF IsWhole

--------------------------------------------------------------------------------
\* A step of p that writes no table.
LEMMA KeepStep ==
    ASSUME IInv, NEW p \in Processes, NEW r \in ProcStates, Sound(r), Fresh(r),
           proc' = [proc EXCEPT ![p] = r],
           UNCHANGED <<account, fills, opened, clash>>,
           quotes' \in 0..MaxOrders, starts' \in 0..MaxStarts
    PROVE  IInv'
<1>1. TypeOK'
  BY DEF IInv, TypeOK, account
<1>2. /\ NoDebt' /\ WholeInv' /\ FillsExplainAccount' /\ Empty'
  BY DEF IInv, NoDebt, WholeInv, FillsExplainAccount, Empty, account
<1>3. ASSUME NEW q \in Processes
      PROVE  (Sound(proc[q]) /\ Fresh(proc[q]))'
  <2>1. proc'[q] = IF q = p THEN r ELSE proc[q]
    BY DEF IInv, TypeOK
  <2>2. Sound(proc'[q]) /\ Fresh(proc'[q])
    BY <2>1 DEF IInv
  <2>3. held' = held /\ cash' = cash
    BY DEF account
  <2> QED
    BY <2>2, <2>3 DEF Sound, Fresh
<1> QED
  BY <1>1, <1>2, <1>3 DEF IInv

\* A step of p that writes a table.
LEMMA WriteStep ==
    ASSUME IInv, NEW p \in Processes, NEW r \in ProcStates, Sound(r),
           r.pc \notin {"priced", "decided"}, Wrote(p, r),
           funded' \in BOOLEAN, cash' \in Int, held' \in [Symbols -> Int], opened' \in Int,
           fills' \in [flow : Int, shares : [Symbols -> Int]], clash' \in BOOLEAN,
           UNCHANGED <<quotes, starts>>,
           NoDebt', WholeInv', FillsExplainAccount', Empty'
    PROVE  IInv'
<1> DEFINE ThenOf(q) == IF q = p THEN r ELSE [proc[q] EXCEPT !.stale = TRUE]
<1>1. proc' = [q \in Processes |-> ThenOf(q)]
  BY DEF Wrote
<1>2. ASSUME NEW q \in Processes
      PROVE  ThenOf(q) \in ProcStates
  <2>1. proc[q] \in ProcStates
    BY DEF IInv, TypeOK
  <2>2. [proc[q] EXCEPT !.stale = TRUE] \in ProcStates
    BY <2>1 DEF ProcStates
  <2> QED
    BY <2>2
<1>3. proc' \in [Processes -> ProcStates]
  BY <1>1, <1>2
<1>4. TypeOK'
  BY <1>3 DEF IInv, TypeOK
<1>5. ASSUME NEW q \in Processes
      PROVE  (Sound(proc[q]) /\ Fresh(proc[q]))'
  <2>1. proc'[q] = ThenOf(q)
    BY <1>1
  <2>2. Sound(ThenOf(q))
    <3>1. CASE q = p
      BY <3>1
    <3>2. CASE q # p
      <4>1. proc[q] \in ProcStates /\ Sound(proc[q])
        BY DEF IInv, TypeOK
      <4>2. LET n == [proc[q] EXCEPT !.stale = TRUE]
            IN  n.pc = proc[q].pc /\ n.order = proc[q].order /\ n.held = proc[q].held
                /\ n.cash = proc[q].cash
        BY <4>1 DEF ProcStates
      <4> QED
        BY <3>2, <4>1, <4>2 DEF Sound
    <3> QED
      BY <3>1, <3>2
  <2>3. q = p \/ proc'[q].stale
    <3>1. proc[q] \in ProcStates
      BY DEF IInv, TypeOK
    <3> QED
      BY <2>1, <3>1 DEF ProcStates
  <2>4. Fresh(proc[q])'
    BY <2>1, <2>3 DEF Fresh
  <2>5. Sound(proc[q])'
    BY <2>1, <2>2 DEF Sound
  <2> QED
    BY <2>4, <2>5
<1> QED
  BY <1>4, <1>5 DEF IInv

LEMMA RestTypes ==
    /\ NoOrder \in Orders
    /\ Down \in ProcStates /\ Idle \in ProcStates
    /\ Down.pc = "down" /\ Idle.pc = "idle"
    /\ Sound(Down) /\ Sound(Idle) /\ Fresh(Down) /\ Fresh(Idle)
<1>1. NoOrder \in Orders
  <2>1. (CHOOSE s \in Symbols : TRUE) \in Symbols
    OBVIOUS
  <2>2. (CHOOSE p \in Prices : TRUE) \in Prices
    OBVIOUS
  <2>3. 1 \in 1..MaxQuantity
    OBVIOUS
  <2> QED
    BY <2>1, <2>2, <2>3 DEF NoOrder, Orders, Sides
<1>2. Down \in ProcStates /\ Down.pc = "down"
  <2>1. (CHOOSE a \in Amounts : TRUE) \in Amounts
    OBVIOUS
  <2> QED
    BY <1>1, <2>1 DEF Down, ProcStates, Places
<1>3. Idle \in ProcStates /\ Idle.pc = "idle"
  BY <1>2 DEF Idle, ProcStates, Places
<1> QED
  BY <1>1, <1>2, <1>3 DEF Sound, Fresh

LEMMA ReadyTypes ==
    ASSUME NEW q \in ProcStates
    PROVE  Ready(q) \in ProcStates /\ Ready(q).pc \in {"idle", "wipe", "down"}
<1>1. q.task \in {"trade", "reset", "refill"}
  BY DEF ProcStates
<1>2. [q EXCEPT !.pc = "wipe"] \in ProcStates /\ [q EXCEPT !.pc = "wipe"].pc = "wipe"
  BY DEF ProcStates, Places
<1> QED
  BY <1>1, <1>2, RestTypes DEF Ready

\* A process that knows of no order is sound.
LEMMA NoOrderSound ==
    ASSUME NEW q \in ProcStates, q.pc \notin {"quoted", "priced", "decided"}
    PROVE  Sound(q) /\ Fresh(q)
BY DEF Sound, Fresh

LEMMA ProcTyped ==
    ASSUME IInv, NEW p \in Processes
    PROVE  /\ proc[p] \in ProcStates /\ proc[p].order \in Orders
           /\ Sound(proc[p]) /\ Fresh(proc[p])
BY DEF IInv, TypeOK, ProcStates

LEMMA InitInv == Init => IInv
<1> SUFFICES ASSUME Init
             PROVE  IInv
  OBVIOUS
<1> USE DEF Init, AccountInit
<1>1. TypeOK
  <2>1. proc \in [Processes -> ProcStates]
    BY RestTypes
  <2>2. 0 \in 0..MaxOrders /\ 0 \in 0..MaxStarts
    OBVIOUS
  <2>3. NoShares \in [Symbols -> Int] /\ NoFills \in [flow : Int, shares : [Symbols -> Int]]
    BY DEF NoShares, NoFills
  <2>4. funded \in BOOLEAN /\ clash \in BOOLEAN
    BY Zenon
  <2>5. cash \in Int /\ opened \in Int
    OBVIOUS
  <2> QED
    BY <2>1, <2>2, <2>3, <2>4, <2>5 DEF TypeOK
<1>2. NoDebt /\ FillsExplainAccount /\ Empty
  BY DEF NoDebt, FillsExplainAccount, Empty, NoFills, NoShares
<1>3. WholeInv
  <2>1. IsWhole(0)
    <3>1. 0 = 0 * Share /\ 0 \in Int
      BY SMT
    <3> QED
      BY <3>1 DEF IsWhole
  <2> QED
    BY <2>1 DEF WholeInv, NoShares
<1>4. ASSUME NEW p \in Processes
      PROVE  Sound(proc[p]) /\ Fresh(proc[p])
  <2>1. proc[p] = Down
    OBVIOUS
  <2>2. proc[p].pc = "down"
    BY <2>1, RestTypes
  <2> QED
    BY <2>2 DEF Sound, Fresh
<1> QED
  BY <1>1, <1>2, <1>3, <1>4 DEF IInv

--------------------------------------------------------------------------------
LEMMA StartInv ==
    ASSUME IInv, NEW p \in Processes, NEW task \in {"trade", "reset"}, NEW amount \in Amounts,
           Start(p, task, amount)
    PROVE  IInv'
<1> DEFINE r == [Down EXCEPT !.pc = "check", !.task = task, !.amount = amount]
<1>1. r \in ProcStates /\ r.pc = "check"
  BY RestTypes DEF ProcStates, Places
<1>2. Sound(r) /\ Fresh(r)
  BY <1>1, NoOrderSound
<1>3. starts' \in 0..MaxStarts /\ quotes' \in 0..MaxOrders
  BY DEF Start, IInv, TypeOK
<1> HIDE DEF r
<1>4. proc' = [proc EXCEPT ![p] = r] /\ UNCHANGED <<account, fills, opened, clash>>
  BY DEF Start, r
<1> QED
  BY <1>1, <1>2, <1>3, <1>4, KeepStep

LEMMA CheckCashInv ==
    ASSUME IInv, NEW p \in Processes, CheckCash(p)
    PROVE  IInv'
<1> DEFINE r == IF funded THEN Ready(proc[p]) ELSE [proc[p] EXCEPT !.pc = "insert"]
<1>1. r \in ProcStates /\ r.pc \notin {"quoted", "priced", "decided"}
  <2>1. [proc[p] EXCEPT !.pc = "insert"] \in ProcStates
        /\ [proc[p] EXCEPT !.pc = "insert"].pc = "insert"
    BY ProcTyped DEF ProcStates, Places
  <2> QED
    BY <2>1, ProcTyped, ReadyTypes
<1>2. Sound(r) /\ Fresh(r)
  BY <1>1, NoOrderSound
<1>3. proc' = [proc EXCEPT ![p] = r] /\ UNCHANGED <<account, fills, opened, clash>>
      /\ quotes' \in 0..MaxOrders /\ starts' \in 0..MaxStarts
  BY DEF CheckCash, Keep, IInv, TypeOK
<1> HIDE DEF r
<1> QED
  BY <1>1, <1>2, <1>3, KeepStep

LEMMA InsertCashInv ==
    ASSUME IInv, NEW p \in Processes, InsertCash(p)
    PROVE  IInv'
<1>1. CASE funded
  <2>1. proc' = [proc EXCEPT ![p] = Down] /\ UNCHANGED <<account, fills, opened, clash>>
        /\ quotes' \in 0..MaxOrders /\ starts' \in 0..MaxStarts
    BY <1>1 DEF InsertCash, account, IInv, TypeOK
  <2> QED
    BY <2>1, RestTypes, KeepStep
<1>2. CASE ~funded
  <2> DEFINE r == Ready(proc[p])
  <2>1. /\ funded' = TRUE /\ cash' = proc[p].amount * Den /\ opened' = cash' /\ Wrote(p, r)
        /\ held' = held /\ UNCHANGED <<fills, quotes, starts, clash>>
    BY <1>2 DEF InsertCash
  <2>2. r \in ProcStates /\ r.pc \notin {"quoted", "priced", "decided"}
    BY ProcTyped, ReadyTypes
  <2>3. Sound(r)
    BY <2>2, NoOrderSound
  <2> HIDE DEF r
  <2>4. cash' \in Nat
    <3>1. proc[p].amount \in Nat
      <4>1. proc[p].amount \in Amounts
        BY ProcTyped DEF ProcStates
      <4> QED
        BY <4>1
    <3> QED
      BY <2>1, <3>1, SMT
  <2>5. funded' \in BOOLEAN /\ held' \in [Symbols -> Int]
        /\ fills' \in [flow : Int, shares : [Symbols -> Int]] /\ clash' \in BOOLEAN
    BY <2>1 DEF IInv, TypeOK
  <2>6. NoDebt'
    BY <2>1, <2>4 DEF IInv, NoDebt
  <2>7. WholeInv' /\ Empty'
    BY <2>1 DEF IInv, WholeInv, Empty
  <2>8. FillsExplainAccount'
    BY <1>2, <2>1, <2>4 DEF IInv, FillsExplainAccount, Empty, NoFills
  <2> QED
    BY <2>1, <2>2, <2>3, <2>4, <2>5, <2>6, <2>7, <2>8, WriteStep
<1> QED
  BY <1>1, <1>2 DEF IInv, TypeOK

LEMMA WipeAccountInv ==
    ASSUME IInv, NEW p \in Processes, WipeAccount(p)
    PROVE  IInv'
<1> DEFINE r == [proc[p] EXCEPT !.pc = "check", !.task = "refill"]
<1>1. /\ funded' = FALSE /\ cash' = 0 /\ held' = NoShares /\ fills' = NoFills /\ opened' = 0
      /\ Wrote(p, r) /\ UNCHANGED <<quotes, starts, clash>>
  BY DEF WipeAccount, Wipe
<1>2. r \in ProcStates /\ r.pc = "check"
  BY ProcTyped DEF ProcStates, Places
<1>3. Sound(r)
  BY <1>2, NoOrderSound
<1> HIDE DEF r
<1>4. held' \in [Symbols -> Int] /\ fills' \in [flow : Int, shares : [Symbols -> Int]]
      /\ clash' \in BOOLEAN
  <2>1. clash' \in BOOLEAN
    BY <1>1 DEF IInv, TypeOK
  <2>2. NoShares \in [Symbols -> Int] /\ NoFills \in [flow : Int, shares : [Symbols -> Int]]
    BY DEF NoShares, NoFills
  <2> QED
    BY <1>1, <2>1, <2>2
<1>5. NoDebt' /\ FillsExplainAccount' /\ Empty'
  <2>1. NoDebt' /\ Empty'
    BY <1>1 DEF NoDebt, Empty, NoShares
  <2>2. NoFills.flow = 0 /\ NoFills.shares = NoShares
    BY DEF NoFills
  <2>3. FillsExplainAccount'
    BY <1>1, <2>2 DEF FillsExplainAccount
  <2> QED
    BY <2>1, <2>3
<1>6. WholeInv'
  <2>1. 0 = 0 * Share /\ 0 \in Int
    BY SMT
  <2> QED
    BY <1>1, <2>1 DEF WholeInv, IsWhole, NoShares
<1>7. funded' \in BOOLEAN
  BY <1>1, Zenon
<1>8. cash' \in Int /\ opened' \in Int /\ r.pc \notin {"priced", "decided"}
      /\ UNCHANGED <<quotes, starts>>
  BY <1>1, <1>2
<1> QED
  BY <1>1, <1>2, <1>3, <1>4, <1>5, <1>6, <1>7, <1>8, WriteStep

LEMMA QuoteInv ==
    ASSUME IInv, NEW p \in Processes, NEW sym \in Symbols, NEW side \in Sides,
           NEW qty \in 1..MaxQuantity, NEW px \in Prices, NEW fx \in Rates,
           Quote(p, sym, side, qty, px, fx)
    PROVE  IInv'
<1> DEFINE o == [sym |-> sym, side |-> side, qty |-> Lots(sym, qty), px |-> px,
                 fx |-> IF CountryOf[sym] = "KR" THEN 1 ELSE fx]
           r == [proc[p] EXCEPT !.pc = "quoted", !.stale = FALSE, !.order = o]
<1>1. o \in Orders /\ (CountryOf[o.sym] = "KR" => IsWhole(o.qty))
  <2>1. Lots(sym, qty) \in 1..MaxQuantity /\ (CountryOf[sym] = "KR" => IsWhole(Lots(sym, qty)))
    BY LotsBound DEF Quote
  <2> QED
    BY <2>1 DEF Orders
<1> HIDE DEF o
<1>2. r \in ProcStates /\ r.pc = "quoted" /\ r.order = o
  BY <1>1, ProcTyped DEF ProcStates, Places
<1>3. Sound(r) /\ Fresh(r)
  BY <1>1, <1>2 DEF Sound, Fresh
<1>4. proc' = [proc EXCEPT ![p] = r]
  BY DEF Quote, o, IInv, TypeOK
<1>5. UNCHANGED <<account, fills, opened, clash>>
      /\ quotes' \in 0..MaxOrders /\ starts' \in 0..MaxStarts
  BY DEF Quote, IInv, TypeOK
<1> HIDE DEF r
<1> QED
  BY <1>2, <1>3, <1>4, <1>5, KeepStep

LEMMA EndOrderInv ==
    ASSUME IInv, NEW p \in Processes, EndOrder(p), Keep
    PROVE  IInv'
<1>1. proc' = [proc EXCEPT ![p] = Idle] /\ UNCHANGED <<account, fills, opened, clash>>
      /\ quotes' \in 0..MaxOrders /\ starts' \in 0..MaxStarts
  BY DEF EndOrder, Keep, IInv, TypeOK
<1> QED
  BY <1>1, RestTypes, KeepStep

LEMMA ReadPositionInv ==
    ASSUME IInv, NEW p \in Processes, ReadPosition(p)
    PROVE  IInv'
<1> DEFINE o == proc[p].order
           have == held[o.sym]
           qty == IF o.side = "SELL" /\ have < o.qty THEN have ELSE o.qty
           r == [proc[p] EXCEPT !.pc = "priced", !.order = [o EXCEPT !.qty = qty],
                                !.held = have, !.stale = FALSE]
<1>1. CASE qty = 0 /\ EndOrder(p)
  BY <1>1, EndOrderInv DEF ReadPosition
<1>2. CASE qty > 0 /\ proc' = [proc EXCEPT ![p].pc = "priced", ![p].order.qty = qty,
                                          ![p].held = have, ![p].stale = FALSE]
  <2>1. o \in Orders /\ o.sym \in Symbols /\ o.qty \in 1..MaxQuantity /\ have \in Int
        /\ have >= 0 /\ proc[p] \in ProcStates
    <3>1. o \in Orders /\ proc[p] \in ProcStates
      BY ProcTyped
    <3>2. o.sym \in Symbols /\ o.qty \in 1..MaxQuantity
      BY <3>1 DEF Orders
    <3> QED
      BY <3>1, <3>2 DEF IInv, TypeOK, NoDebt
  <2>2. qty \in 1..MaxQuantity
    BY <1>2, <2>1
  <2>3. CountryOf[o.sym] = "KR" => IsWhole(have) /\ IsWhole(qty)
    <3>1. CountryOf[o.sym] = "KR" => IsWhole(have)
      BY <2>1 DEF IInv, WholeInv
    <3>2. CountryOf[o.sym] = "KR" => IsWhole(o.qty)
      BY ProcTyped DEF ReadPosition, Sound
    <3> QED
      BY <3>1, <3>2
  <2>4. o.side = "SELL" => qty <= have
    BY <2>1
  <2> HIDE DEF qty
  <2>5. [o EXCEPT !.qty = qty] \in Orders
        /\ [o EXCEPT !.qty = qty].sym = o.sym /\ [o EXCEPT !.qty = qty].side = o.side
        /\ [o EXCEPT !.qty = qty].qty = qty
    BY <2>1, <2>2 DEF Orders
  <2> HIDE DEF o
  <2>6. r \in ProcStates /\ r.pc = "priced" /\ r.order = [o EXCEPT !.qty = qty] /\ r.held = have
    BY <2>1, <2>5 DEF ProcStates, Places
  <2>7. proc' = [proc EXCEPT ![p] = r]
    BY <1>2, <2>1 DEF IInv, TypeOK, ProcStates, o
  <2> HIDE DEF r
  <2>8. Sound(r)
    BY <2>1, <2>3, <2>4, <2>5, <2>6 DEF Sound
  <2>9. Fresh(r)
    BY <2>5, <2>6 DEF Fresh
  <2>10. UNCHANGED <<account, fills, opened, clash>>
         /\ quotes' \in 0..MaxOrders /\ starts' \in 0..MaxStarts
    BY DEF ReadPosition, Keep, IInv, TypeOK
  <2> QED
    BY <2>6, <2>7, <2>8, <2>9, <2>10, KeepStep
<1> QED
  BY <1>1, <1>2 DEF ReadPosition

LEMMA ReadCashInv ==
    ASSUME IInv, NEW p \in Processes, ReadCash(p)
    PROVE  IInv'
<1> DEFINE o == proc[p].order
           r == [proc[p] EXCEPT !.pc = "decided", !.cash = cash]
<1>1. CASE EndOrder(p)
  BY <1>1, EndOrderInv DEF ReadCash
<1>2. CASE /\ o.side = "SELL" \/ Needed(o) <= cash
           /\ proc' = [proc EXCEPT ![p].pc = "decided", ![p].cash = cash]
  <2>1. proc[p] \in ProcStates /\ Sound(proc[p]) /\ Fresh(proc[p]) /\ proc[p].pc = "priced"
    BY ProcTyped DEF ReadCash
  <2>2. cash \in Int /\ cash >= 0
    BY DEF IInv, TypeOK, NoDebt
  <2>3. r \in ProcStates /\ r.pc = "decided" /\ r.order = proc[p].order /\ r.held = proc[p].held
        /\ r.cash = cash /\ r.stale = proc[p].stale
    BY <2>1, <2>2 DEF ProcStates, Places
  <2>4. proc' = [proc EXCEPT ![p] = r]
    BY <1>2, <2>1 DEF IInv, TypeOK, ProcStates
  <2> HIDE DEF r
  <2>5. Sound(r)
    BY <1>2, <2>1, <2>2, <2>3 DEF Sound
  <2>6. Fresh(r)
    BY <2>1, <2>3 DEF Fresh
  <2>7. UNCHANGED <<account, fills, opened, clash>>
        /\ quotes' \in 0..MaxOrders /\ starts' \in 0..MaxStarts
    BY DEF ReadCash, Keep, IInv, TypeOK
  <2> QED
    BY <2>3, <2>4, <2>5, <2>6, <2>7, KeepStep
<1> QED
  BY <1>1, <1>2 DEF ReadCash

LEMMA DieInv ==
    ASSUME IInv, NEW p \in Processes, Die(p)
    PROVE  IInv'
<1>1. proc' = [proc EXCEPT ![p] = Down] /\ UNCHANGED <<account, fills, opened, clash>>
      /\ quotes' \in 0..MaxOrders /\ starts' \in 0..MaxStarts
  BY DEF Die, Keep, IInv, TypeOK
<1> QED
  BY <1>1, RestTypes, KeepStep

\* What an order leaves behind.
LEMMA AfterTypes ==
    ASSUME NEW o \in Orders, NEW c \in Int, NEW q \in Int
    PROVE  /\ CashAfter(c, o) \in Int
           /\ SharesAfter(q, o) \in Int
           /\ (o.side = "BUY" /\ Needed(o) <= c) \/ (o.side = "SELL" /\ c >= 0)
                  => CashAfter(c, o) >= 0
           /\ (o.side = "BUY" /\ q >= 0) \/ (o.side = "SELL" /\ o.qty <= q)
                  => SharesAfter(q, o) >= 0
BY Flows, OrderTypes DEF CashAfter, SharesAfter

LEMMA CommitInv ==
    ASSUME IInv, NEW p \in Processes, Commit(p)
    PROVE  IInv'
<1> DEFINE o == proc[p].order
           q == proc[p].held
           c == proc[p].cash
           signed == IF o.side = "BUY" THEN o.qty ELSE -o.qty
<1>1. /\ o \in Orders /\ q \in Int /\ c \in Int /\ Sound(proc[p]) /\ Fresh(proc[p])
      /\ proc[p].pc = "decided" /\ proc[p].stale \in BOOLEAN
  BY ProcTyped DEF ProcStates, Commit
<1>2. /\ o.sym \in Symbols /\ o.side \in {"BUY", "SELL"} /\ o.qty \in Nat \ {0}
  BY <1>1, OrderTypes
<1>3. /\ q >= 0 /\ (CountryOf[o.sym] = "KR" => IsWhole(q) /\ IsWhole(o.qty))
      /\ (o.side = "SELL" => o.qty <= q) /\ c >= 0 /\ (o.side = "BUY" => Needed(o) <= c)
  BY <1>1 DEF Sound
<1>4. /\ cash' = (IF funded THEN CashAfter(c, o) ELSE cash)
      /\ held' = [held EXCEPT ![o.sym] = SharesAfter(q, o)]
      /\ fills' = [flow |-> CashAfter(fills.flow, o),
                   shares |-> [fills.shares EXCEPT ![o.sym] = @ + signed]]
      /\ clash' = (clash \/ proc[p].stale)
      /\ Wrote(p, Idle)
      /\ UNCHANGED <<funded, opened, quotes, starts>>
  BY DEF Commit
<1>5. /\ CashAfter(c, o) \in Int /\ CashAfter(c, o) >= 0
      /\ SharesAfter(q, o) \in Int /\ SharesAfter(q, o) >= 0
  BY <1>1, <1>2, <1>3, AfterTypes
<1>6. ~proc[p].stale => q = held[o.sym] /\ c = cash
  BY <1>1 DEF Fresh
<1>7. signed \in Int /\ SharesAfter(q, o) = q + signed
  BY <1>1, <1>2 DEF SharesAfter
<1> HIDE DEF o, q, c, signed
<1>8. /\ cash' \in Int /\ held' \in [Symbols -> Int] /\ opened' \in Int
      /\ NoDebt'
  BY <1>2, <1>4, <1>5 DEF IInv, TypeOK, NoDebt
<1>9. funded' \in BOOLEAN /\ clash' \in BOOLEAN
  BY <1>1, <1>4 DEF IInv, TypeOK
<1>10. /\ fills.flow \in Int /\ CashAfter(fills.flow, o) \in Int
       /\ fills.shares \in [Symbols -> Int]
  <2>1. fills.flow \in Int /\ fills.shares \in [Symbols -> Int]
    BY DEF IInv, TypeOK
  <2> QED
    BY <1>1, <2>1, AfterTypes, 0 \in Int
<1>11. fills' \in [flow : Int, shares : [Symbols -> Int]]
  BY <1>2, <1>4, <1>7, <1>10
<1>12. WholeInv'
  <2>1. CountryOf[o.sym] = "KR" => IsWhole(SharesAfter(q, o))
    <3>1. o.qty \in Int
      BY <1>2
    <3> QED
      BY <1>1, <1>2, <1>3, <3>1, WholeSum DEF SharesAfter
  <2> QED
    BY <1>2, <1>4, <2>1 DEF IInv, WholeInv, TypeOK
\* Without a row there is no cash and, but for a clash, nothing to sell.
<1>13. ~funded /\ ~clash' => FALSE
  <2> SUFFICES ASSUME ~funded, ~clash'
               PROVE  FALSE
    OBVIOUS
  <2>1. ~clash /\ ~proc[p].stale
    BY <1>1, <1>4 DEF IInv, TypeOK
  <2>2. c = 0 /\ q = 0
    BY <1>2, <1>6, <2>1 DEF IInv, Empty, NoShares
  <2>3. Needed(o) \in Nat \ {0}
    BY <1>1, Flows
  <2> QED
    BY <1>2, <1>3, <2>2, <2>3
<1>14. Empty'
  BY <1>4, <1>13 DEF IInv, Empty
<1>15. FillsExplainAccount'
  <2> SUFFICES ASSUME ~clash'
               PROVE  /\ cash' = opened' + fills'.flow
                      /\ \A s \in Symbols : held'[s] = fills'.shares[s]
    BY DEF FillsExplainAccount
  <2>1. ~clash /\ ~proc[p].stale /\ funded
    BY <1>1, <1>4, <1>13 DEF IInv, TypeOK
  <2>2. cash = opened + fills.flow /\ \A s \in Symbols : held[s] = fills.shares[s]
    BY <2>1 DEF IInv, FillsExplainAccount
  <2>3. CashAfter(cash, o) = opened + CashAfter(fills.flow, o)
    <3>1. Needed(o) \in Int /\ Received(o) \in Int /\ opened \in Int
      BY <1>1, Flows DEF IInv, TypeOK
    <3> QED
      BY <1>10, <2>2, <3>1 DEF CashAfter
  <2>4. cash' = opened' + fills'.flow
    BY <1>4, <1>6, <2>1, <2>3
  <2>5. held' = [held EXCEPT ![o.sym] = held[o.sym] + signed]
        /\ fills'.shares = [fills.shares EXCEPT ![o.sym] = fills.shares[o.sym] + signed]
    BY <1>4, <1>6, <1>7, <2>1
  <2>6. ASSUME NEW s \in Symbols
        PROVE  held'[s] = fills'.shares[s]
    BY <1>2, <1>10, <2>2, <2>5 DEF IInv, TypeOK
  <2> QED
    BY <2>4, <2>6
<1>16. Idle \in ProcStates /\ Sound(Idle) /\ Idle.pc \notin {"priced", "decided"}
  BY RestTypes
<1>17. UNCHANGED <<quotes, starts>> /\ Wrote(p, Idle)
  BY <1>4
<1> QED
  BY <1>8, <1>9, <1>11, <1>12, <1>14, <1>15, <1>16, <1>17, WriteStep

LEMMA NextInv == IInv /\ [Next]_vars => IInv'
<1> SUFFICES ASSUME IInv, [Next]_vars
             PROVE  IInv'
  OBVIOUS
<1>1. CASE UNCHANGED vars
  BY <1>1 DEF vars, account, IInv, TypeOK, NoDebt, WholeInv, FillsExplainAccount, Empty,
              Sound, Fresh
<1>2. CASE Next
  <2>1. PICK p \in Processes :
            \/ \E task \in {"trade", "reset"}, amount \in Amounts : Start(p, task, amount)
            \/ CheckCash(p)
            \/ InsertCash(p)
            \/ WipeAccount(p)
            \/ \E sym \in Symbols, side \in Sides, qty \in 1..MaxQuantity,
                  px \in Prices, fx \in Rates : Quote(p, sym, side, qty, px, fx)
            \/ ReadPosition(p)
            \/ ReadCash(p)
            \/ Commit(p)
            \/ Die(p)
    BY <1>2 DEF Next
  <2> QED
    BY <2>1, StartInv, CheckCashInv, InsertCashInv, WipeAccountInv, QuoteInv,
       ReadPositionInv, ReadCashInv, CommitInv, DieInv
<1> QED
  BY <1>1, <1>2

LEMMA Invariance == Spec => []IInv
BY InitInv, NextInv, PTL DEF Spec

--------------------------------------------------------------------------------
\* The types of the tables and of the processes.
THEOREM TypesHold == Spec => []TypeOK
<1>1. IInv => TypeOK
  BY DEF IInv
<1> QED
  BY <1>1, Invariance, PTL

\* The paper account is never in debt and never short, whatever processes
\* trade, reset or die at the same time.
THEOREM NeverInDebt == Spec => []NoDebt
<1>1. IInv => NoDebt
  BY DEF IInv
<1> QED
  BY <1>1, Invariance, PTL

\* A position in a Korean stock is a number of whole shares.
THEOREM KoreanSharesAreWhole == Spec => []WholeShares
<1>1. IInv => WholeShares
  <2> SUFFICES ASSUME IInv, NEW s \in Symbols, CountryOf[s] = "KR"
               PROVE  \E n \in 0..held[s] : held[s] = n * Share
    BY DEF WholeShares
  <2>1. PICK n \in Int : held[s] = n * Share
    BY DEF IInv, WholeInv, IsWhole
  <2>2. held[s] \in Nat
    BY DEF IInv, TypeOK, NoDebt
  <2>3. n >= 0
    <3> SUFFICES ASSUME n < 0
                 PROVE  FALSE
      BY <2>1
    <3>1. -n \in Nat /\ 1 <= Share /\ Share \in Nat
      BY <2>1
    <3>2. (-n) * 1 <= (-n) * Share
      BY <3>1, MulMono, 1 \in Nat
    <3>3. (-n) * 1 = -n /\ (-n) * Share = -(n * Share)
      BY <3>1, SMT
    <3> QED
      BY <2>1, <2>2, <3>2, <3>3
  <2>4. n * 1 <= n * Share
    BY <2>3, MulMono, 1 \in Nat, 1 <= Share
  <2>5. n * 1 = n
    OBVIOUS
  <2> QED
    BY <2>1, <2>2, <2>3, <2>4, <2>5
<1> QED
  BY <1>1, Invariance, PTL

\* Until a submission commits on an account it had not read, the account is
\* its opening cash and its fills.
THEOREM AccountIsItsFills == Spec => []FillsExplainAccount
<1>1. IInv => FillsExplainAccount
  BY DEF IInv
<1> QED
  BY <1>1, Invariance, PTL

LEMMA StepIsAtomic == IInv /\ [Next]_vars => [clash' \/ AccountNext]_account
<1> SUFFICES ASSUME IInv, [Next]_vars, ~clash', account' # account
             PROVE  AccountNext
  OBVIOUS
<1>1. ~UNCHANGED vars
  BY DEF vars, account
<1>2. PICK p \in Processes : InsertCash(p) \/ WipeAccount(p) \/ Commit(p)
  <2>1. PICK p \in Processes :
            \/ \E task \in {"trade", "reset"}, amount \in Amounts : Start(p, task, amount)
            \/ CheckCash(p)
            \/ InsertCash(p)
            \/ WipeAccount(p)
            \/ \E sym \in Symbols, side \in Sides, qty \in 1..MaxQuantity,
                  px \in Prices, fx \in Rates : Quote(p, sym, side, qty, px, fx)
            \/ ReadPosition(p)
            \/ ReadCash(p)
            \/ Commit(p)
            \/ Die(p)
    BY <1>1 DEF Next
  <2>2. ~(\E task \in {"trade", "reset"}, amount \in Amounts : Start(p, task, amount))
        /\ ~CheckCash(p) /\ ~ReadPosition(p) /\ ~ReadCash(p) /\ ~Die(p)
    BY DEF Start, CheckCash, ReadPosition, ReadCash, Die, Keep
  <2>3. ~(\E sym \in Symbols, side \in Sides, qty \in 1..MaxQuantity,
             px \in Prices, fx \in Rates : Quote(p, sym, side, qty, px, fx))
    BY DEF Quote
  <2> QED
    BY <2>1, <2>2, <2>3
<1>3. CASE InsertCash(p)
  <2>1. ~funded /\ funded' = TRUE /\ cash' = proc[p].amount * Den /\ held' = held /\ ~clash
    BY <1>3 DEF InsertCash, account
  <2>2. held = NoShares
    BY <2>1 DEF IInv, Empty
  <2>3. proc[p].amount \in Amounts
    BY ProcTyped DEF ProcStates
  <2>4. Open(proc[p].amount)
    BY <2>1, <2>2, <2>3 DEF Open
  <2> QED
    BY <2>3, <2>4 DEF AccountNext
<1>4. CASE WipeAccount(p)
  BY <1>4 DEF WipeAccount, AccountNext
\* A commit that is not stale is the trade itself.
<1>5. CASE Commit(p)
  <2> DEFINE o == proc[p].order
  <2>1. /\ o \in Orders /\ Sound(proc[p]) /\ Fresh(proc[p]) /\ proc[p].pc = "decided"
        /\ ~proc[p].stale /\ o.sym \in Symbols /\ o.side \in {"BUY", "SELL"} /\ ~clash
        /\ o.qty \in Nat \ {0}
    BY <1>5, ProcTyped, OrderTypes DEF Commit
  <2>2. proc[p].held = held[o.sym] /\ proc[p].cash = cash
    BY <2>1 DEF Fresh
  <2>3. (o.side = "SELL" => o.qty <= held[o.sym]) /\ (o.side = "BUY" => Needed(o) <= cash)
    BY <2>1, <2>2 DEF Sound
  <2>4. funded
    <3> SUFFICES ASSUME ~funded
                 PROVE  FALSE
      OBVIOUS
    <3>1. cash = 0 /\ held[o.sym] = 0
      BY <2>1 DEF IInv, Empty, NoShares
    <3>2. Needed(o) \in Nat \ {0}
      BY <2>1, Flows
    <3> QED
      BY <2>1, <2>3, <3>1, <3>2
  <2>5. /\ cash' = CashAfter(cash, o) /\ UNCHANGED funded
        /\ held' = [held EXCEPT ![o.sym] = SharesAfter(held[o.sym], o)]
    BY <1>5, <2>2, <2>4 DEF Commit
  <2>6. Trade(o)
    BY <2>1, <2>3, <2>4, <2>5 DEF Trade
  <2> QED
    BY <2>1, <2>6 DEF AccountNext
<1> QED
  BY <1>2, <1>3, <1>4, <1>5

\* Until then the broker implements the account it promises: every step is one
\* whole trade, an opening or a wipe, or changes nothing of the account.
THEOREM BrokerImplementsAccount == Spec => AccountUntilClash
<1>1. Init => AccountInit
  BY DEF Init
<1> QED
  BY <1>1, Invariance, StepIsAtomic, PTL DEF Spec, AccountUntilClash

================================================================================
