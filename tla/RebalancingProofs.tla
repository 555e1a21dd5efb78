--------------------------- MODULE RebalancingProofs ---------------------------
(***************************************************************************)
(* Theorems about the figures of a rebalance, for any symbols, prices,     *)
(* weights, limits, costs and orders left open: what an account and an     *)
(* order may never be, what a cycle may never buy beyond, what the buys of *)
(* a plan may never come to, and that a rebalance of the whole account     *)
(* that is filled to the letter leaves nothing to trade.                   *)
(***************************************************************************)
EXTENDS Rebalancing, FoldProofs

\* What the assumption says of each constant.
LEMMA Constants ==
    /\ IsFiniteSet(Symbols) /\ Symbols \subseteq Nat
    /\ Share \in Nat \ {0} /\ Whole \in Nat \ {0} /\ Band \in Nat \ {0}
    /\ Fees \subseteq Nat /\ Limit \in [Symbols -> Nat] /\ Gross \in Nat
    /\ StartCash \in Nat /\ StartHeld \in [Symbols -> Nat] /\ MaxCycles \in Nat
    /\ Sleeves \in Nat \ {0} /\ Budget \in [1..Sleeves -> Nat]
    /\ Dollars \subseteq Nat
BY RebalancingAssumption

LEMMA PriceConstants == \A s \in Symbols : Prices[s] \subseteq Nat \ {0}
BY RebalancingAssumption

LEMMA AnswerConstants ==
    ASSUME NEW n \in 1..Sleeves, NEW w \in Answers[n] \cup {NoAnswer}
    PROVE  DOMAIN w \subseteq Symbols /\ \A s \in DOMAIN w : w[s] \in Nat
<1>1. w \in Answers[n] => DOMAIN w \subseteq Symbols /\ w \in [DOMAIN w -> Nat]
  BY RebalancingAssumption
<1>2. DOMAIN NoAnswer = {}
  BY DEF NoAnswer
<1> QED
  BY <1>1, <1>2

--------------------------------------------------------------------------------
\* The least and the greatest of two numbers.
LEMMA MaxOfTwo ==
    ASSUME NEW a \in Int, NEW b \in Int
    PROVE  Max({a, b}) = IF a <= b THEN b ELSE a
<1> DEFINE m == IF a <= b THEN b ELSE a
<1>1. m \in {a, b} /\ \A y \in {a, b} : m >= y
  OBVIOUS
<1>2. \A k \in {a, b} : (\A y \in {a, b} : k >= y) => k = m
  OBVIOUS
<1>3. Max({a, b}) \in {a, b} /\ \A y \in {a, b} : Max({a, b}) >= y
  <2> HIDE DEF m
  <2> QED
    BY <1>1 DEF Max
<1> QED
  BY <1>2, <1>3

LEMMA MinOfTwo ==
    ASSUME NEW a \in Int, NEW b \in Int
    PROVE  Min({a, b}) = IF a <= b THEN a ELSE b
<1> DEFINE m == IF a <= b THEN a ELSE b
<1>1. m \in {a, b} /\ \A y \in {a, b} : m <= y
  OBVIOUS
<1>2. \A k \in {a, b} : (\A y \in {a, b} : k <= y) => k = m
  OBVIOUS
<1>3. Min({a, b}) \in {a, b} /\ \A y \in {a, b} : Min({a, b}) <= y
  <2> HIDE DEF m
  <2> QED
    BY <1>1 DEF Min
<1> QED
  BY <1>2, <1>3

\* A quotient and what it leaves.
LEMMA Remainder ==
    ASSUME NEW a \in Nat, NEW b \in Nat \ {0}
    PROVE  /\ a \div b \in Nat /\ a = b * (a \div b) + (a % b)
           /\ a % b \in Nat /\ a % b < b
BY SMT

\* What is less than the divisor comes to nothing.
LEMMA Nothing == ASSUME NEW a \in Nat, NEW b \in Nat \ {0}, a < b PROVE a \div b = 0
BY SMT

\* After some multiples of the divisor are taken away, that many are missing.
LEMMA QuotientLess ==
    ASSUME NEW a \in Nat, NEW b \in Nat \ {0}, NEW q \in Nat, q <= a \div b
    PROVE  a - q * b \in Nat /\ (a - q * b) \div b = a \div b - q
<1> DEFINE n == a \div b
           r == a % b
<1>1. n \in Nat /\ r \in Nat /\ r < b /\ a = b * n + r
  BY Remainder
<1>2. \A x, y \in Int : b * (x - y) = b * x - y * b
  BY SMT
<1> DEFINE m == n - q
<1>3. m \in Nat
  BY <1>1
<1> HIDE DEF n, r
<1>4. a - q * b = b * m + r
  BY <1>1, <1>2
<1>5. b * m \in Nat
  BY <1>3, MulNat
<1> HIDE DEF m
<1>6. (b * m + r) \div b = m
  BY <1>1, <1>3, SMT
<1> QED
  BY <1>1, <1>3, <1>4, <1>5, <1>6 DEF m, n

LEMMA ExactQuotient ==
    ASSUME NEW k \in Nat, NEW b \in Nat \ {0}
    PROVE  (k * b) \div b = k
<1>1. b * k = k * b /\ k * b \in Nat
  BY MulNat, SMT
<1>2. (k * b) % b = 0
  BY NoRemainder
<1> DEFINE q == (k * b) \div b
<1>3. q \in Nat /\ b * q = b * k
  BY <1>1, <1>2, Remainder
<1> HIDE DEF q
<1>4. b * q <= b * k /\ b * k <= b * q
  BY <1>1, <1>3
<1> QED
  BY <1>3, <1>4, Cancel DEF q

--------------------------------------------------------------------------------
\* Whole shares: what is cut off is less than a share, and cut off once.
LEMMA LotsFacts ==
    ASSUME NEW s \in Symbols, NEW q \in Nat
    PROVE  /\ Lots(s, q) \in Nat /\ Lots(s, q) <= q
           /\ Lots(s, Lots(s, q)) = Lots(s, q)
           /\ \A r \in Nat : r <= q - Lots(s, q) => Lots(s, r) = 0
<1>1. Share \in Nat \ {0}
  BY Constants
<1> DEFINE k == q \div Share
<1>2. CASE CountryOf[s] = "KR"
  <2>1. k \in Nat /\ q = Share * k + (q % Share) /\ q % Share \in Nat /\ q % Share < Share
    BY <1>1, Remainder
  <2>2. Share * k = k * Share /\ k * Share \in Nat
    BY <1>1, <2>1, MulNat, SMT
  <2>3. \A x : Lots(s, x) = (x \div Share) * Share
    BY <1>2 DEF Lots
  <2>4. Lots(s, q) = k * Share
    BY <2>3
  <2>5. (k * Share) \div Share = k
    BY <1>1, <2>1, ExactQuotient
  <2>6. Lots(s, k * Share) = k * Share
    BY <2>3, <2>5
  <2>7. ASSUME NEW r \in Nat, r <= q - k * Share PROVE Lots(s, r) = 0
    <3>1. r < Share
      <4> DEFINE c == Share * k
                 l == q % Share
      <4>1. c \in Nat /\ l \in Nat /\ l < Share /\ q = c + l /\ r <= q - c
        BY <2>1, <2>2, <2>7
      <4> HIDE DEF c, l
      <4> QED
        BY <1>1, <4>1
    <3>2. r \div Share = 0
      BY <1>1, <3>1, Nothing
    <3>3. 0 * Share = 0
      BY <1>1
    <3> QED
      BY <2>3, <3>2, <3>3
  <2>8. k * Share <= q
    <3> DEFINE c == Share * k
               l == q % Share
    <3>1. c \in Nat /\ l \in Nat /\ q = c + l
      BY <2>1, <2>2
    <3> HIDE DEF c, l
    <3> QED
      BY <2>2, <3>1 DEF c
  <2> HIDE DEF k
  <2> QED
    BY <2>2, <2>4, <2>6, <2>7, <2>8
<1>3. CASE CountryOf[s] # "KR"
  BY <1>3 DEF Lots
<1> QED
  BY <1>2, <1>3

LEMMA NoLots == \A s \in Symbols : Lots(s, 0) = 0
<1> TAKE s \in Symbols
<1>1. 0 \in Nat /\ Lots(s, 0) \in Nat /\ Lots(s, 0) <= 0
  BY LotsFacts
<1> QED
  BY <1>1

--------------------------------------------------------------------------------
Amounts == [Symbols -> Nat]
Snapshots == [cash : Nat, pos : Amounts, px : Amounts]
TargetLists == [named : SUBSET Symbols, parts : Amounts, of : Nat \ {0}]

\* What positions are worth.
LEMMA ValueTerms ==
    ASSUME NEW pos \in Amounts, NEW px \in Amounts
    PROVE  \A s \in Symbols : pos[s] * px[s] \in Nat /\ pos[s] \in Nat /\ px[s] \in Nat
<1>1. \A s \in Symbols : pos[s] \in Nat /\ px[s] \in Nat
  BY DEF Amounts
<1> QED
  BY <1>1, MulNat

LEMMA ValueNat ==
    ASSUME NEW pos \in Amounts, NEW px \in Amounts
    PROVE  Value(pos, px) \in Nat
<1> DEFINE f == [s \in Symbols |-> pos[s] * px[s]]
<1>1. \A s \in Symbols : f[s] \in Nat
  BY ValueTerms
<1>2. DOMAIN f = Symbols
  OBVIOUS
<1>3. Value(pos, px) = SumFunctionOnSet(f, Symbols)
  BY <1>2 DEF Value, SumFunction
<1> HIDE DEF f
<1> QED
  BY <1>1, <1>3, Constants, SumNat

LEMMA EquityNat ==
    ASSUME NEW snap \in Snapshots
    PROVE  /\ Value(snap.pos, snap.px) \in Nat /\ snap.cash \in Nat
           /\ Equity(snap) \in Nat /\ Equity(snap) = snap.cash + Value(snap.pos, snap.px)
<1>1. snap.cash \in Nat /\ snap.pos \in Amounts /\ snap.px \in Amounts
  BY DEF Snapshots
<1>2. Value(snap.pos, snap.px) \in Nat
  BY <1>1, ValueNat
<1> QED
  BY <1>1, <1>2 DEF Equity

\* When one position changes, their worth changes by as much.
LEMMA ValueChange ==
    ASSUME NEW pos \in Amounts, NEW px \in Amounts, NEW s \in Symbols, NEW n \in Int,
           pos[s] + n \in Nat
    PROVE  /\ [pos EXCEPT ![s] = @ + n] \in Amounts
           /\ Value([pos EXCEPT ![s] = @ + n], px) = Value(pos, px) + n * px[s]
<1> DEFINE new == [pos EXCEPT ![s] = @ + n]
           f == [t \in Symbols |-> pos[t] * px[t]]
           g == [t \in Symbols |-> new[t] * px[t]]
<1>1. new \in Amounts /\ new[s] = pos[s] + n /\ \A t \in Symbols : t # s => new[t] = pos[t]
  BY DEF Amounts
<1> HIDE DEF new
<1>2. \A t \in Symbols : f[t] \in Int /\ g[t] \in Int /\ (t # s => f[t] = g[t])
  <2>1. \A t \in Symbols : f[t] \in Nat /\ g[t] \in Nat
    BY <1>1, ValueTerms
  <2> QED
    BY <1>1, <2>1
<1>3. /\ DOMAIN f = Symbols /\ DOMAIN g = Symbols
      /\ f[s] = pos[s] * px[s] /\ g[s] = new[s] * px[s]
  OBVIOUS
<1>4. Value(pos, px) = SumFunctionOnSet(f, Symbols)
  BY <1>3 DEF Value, SumFunction
<1>5. Value(new, px) = SumFunctionOnSet(g, Symbols)
  BY <1>3 DEF Value, SumFunction
<1> HIDE DEF f, g
<1>6. SumFunctionOnSet(g, Symbols) = SumFunctionOnSet(f, Symbols) + g[s] - f[s]
  <2>1. IsFiniteSet(Symbols)
    BY Constants
  <2> QED
    BY <1>2, <2>1, SumChange
<1>7. Value(pos, px) \in Nat /\ pos[s] \in Nat /\ px[s] \in Nat
  BY ValueNat, ValueTerms
<1>8. (pos[s] + n) * px[s] = pos[s] * px[s] + n * px[s]
  <2>1. \A x, y, z \in Int : (x + y) * z = x * z + y * z
    BY SMT
  <2> QED
    BY <1>7, <2>1
<1>9. pos[s] * px[s] \in Nat /\ n * px[s] \in Int
  BY <1>7, MulNat, SMT
<1> QED
  BY <1>1, <1>3, <1>4, <1>5, <1>6, <1>7, <1>8, <1>9 DEF new

--------------------------------------------------------------------------------
\* The quantity of an order: no more than what drifted, or than what is held.
LEMMA DriftFacts ==
    ASSUME NEW targets \in TargetLists, NEW snap \in Snapshots, NEW s \in Symbols
    PROVE  /\ Drift(targets, snap, s) \in Int
           /\ Size(Drift(targets, snap, s)) \in Nat
           /\ targets.of \in Nat \ {0} /\ targets.parts[s] \in Nat
           /\ snap.pos[s] \in Nat /\ snap.px[s] \in Nat
<1>1. /\ targets.of \in Nat \ {0} /\ targets.parts[s] \in Nat
      /\ snap.pos[s] \in Nat /\ snap.px[s] \in Nat
  BY DEF TargetLists, Snapshots, Amounts
<1>2. Equity(snap) \in Nat
  BY EquityNat
<1>3. targets.parts[s] * Equity(snap) \in Int /\ snap.pos[s] * snap.px[s] * targets.of \in Int
  BY <1>1, <1>2, SMT
<1>4. Drift(targets, snap, s) \in Int
  BY <1>3 DEF Drift
<1> QED
  BY <1>1, <1>4 DEF Size

LEMMA QuantityFacts ==
    ASSUME NEW targets \in TargetLists, NEW snap \in Snapshots, NEW s \in Symbols,
           NEW quote \in Nat \ {0}
    PROVE  LET d == Drift(targets, snap, s)
               b == targets.of * quote
               q == Quantity(targets, snap, quote, s)
               n == Size(d) \div b
           IN  /\ b \in Nat \ {0} /\ n \in Nat /\ q \in Nat
               /\ q <= n /\ b * q <= Size(d)
               /\ d > 0 => q = Lots(s, n)
               /\ ~(d > 0) => q <= snap.pos[s] /\ q = Lots(s, Min({Lots(s, n), snap.pos[s]}))
<1> DEFINE d == Drift(targets, snap, s)
           b == targets.of * quote
           q == Quantity(targets, snap, quote, s)
           n == Size(d) \div b
           have == snap.pos[s]
<1>1. d \in Int /\ Size(d) \in Nat /\ targets.of \in Nat \ {0} /\ have \in Nat
  BY DriftFacts
<1>2. b \in Nat \ {0}
  BY <1>1, MulPositive
<1>3. q = IF d > 0 THEN Lots(s, n) ELSE Lots(s, Min({Lots(s, n), have}))
  BY DEF Quantity
<1> HIDE DEF d, b, q, have
<1>4. n \in Nat /\ b * n <= Size(d)
  BY <1>1, <1>2, Quotient
<1> HIDE DEF n
<1>5. Lots(s, n) \in Nat /\ Lots(s, n) <= n
  BY <1>4, LotsFacts
<1> DEFINE m == Min({Lots(s, n), have})
<1>6. m \in Nat /\ m <= Lots(s, n) /\ m <= have
  BY <1>1, <1>5, MinOfTwo
<1> HIDE DEF m
<1>7. Lots(s, m) \in Nat /\ Lots(s, m) <= m
  BY <1>6, LotsFacts
<1>8. /\ q \in Nat /\ q <= n
      /\ d > 0 => q = Lots(s, n)
      /\ ~(d > 0) => q <= have /\ q = Lots(s, m)
  BY <1>1, <1>3, <1>4, <1>5, <1>6, <1>7 DEF m
<1>9. b * q <= b * n
  BY <1>2, <1>4, <1>8, MulGrows
<1>10. b * q \in Int /\ b * n \in Int
  BY <1>2, <1>4, <1>8, SMT
<1>11. b * q <= Size(d)
  BY <1>1, <1>4, <1>9, <1>10
<1> QED
  BY <1>2, <1>4, <1>8, <1>11 DEF d, b, q, n, have, m

--------------------------------------------------------------------------------
\* The state, in sets.
Sides == {"BUY", "SELL"}
OrderSet == [sym : Symbols, side : Sides, qty : Nat \ {0}, quote : Nat \ {0}, drift : Int]
OpenSet == [cycle : Nat, sym : Symbols, side : Sides, qty : Nat \ {0}]
Runs == [pc : {"idle", "cash", "blend", "plan", "trade", "refresh"},
         markets : SUBSET Countries, snap : Snapshots, sleeve : 1..Sleeves,
         targets : TargetLists, todo : SUBSET OrderSet]
Books == [opening : Nat, bought : SUBSET Symbols, steady : BOOLEAN, alone : BOOLEAN,
          planned : BOOLEAN, exact : BOOLEAN, snap : Snapshots, targets : TargetLists,
          orders : SUBSET OrderSet, markets : SUBSET Countries]

StateInv ==
    /\ price \in PriceLists
    /\ cash \in Nat /\ held \in Amounts
    /\ open \in SUBSET OpenSet /\ IsFiniteSet(open)
    /\ run \in Runs /\ book \in Books
    /\ cycles \in 0..MaxCycles

OrdersInv ==
    /\ \A s \in Symbols : run.snap.px[s] \in Prices[s] \cup {0}
    /\ run.todo \subseteq book.orders
    /\ \A o \in book.orders : o.quote \in Prices[o.sym]
    /\ \A o, p \in book.orders : o.sym = p.sym => o = p
    /\ run.pc = "idle" => run.todo = {}

\* Open sells are of what is held.
SellsHeld == \A s \in Symbols : Promised(open, s) <= held[s]

\* Targets are scaled to what there is.
TargetsFit == SumFunction(run.targets.parts) <= run.targets.of

\* Undisturbed, a cycle knows what the account it trades holds, and its cash or
\* less than that; and an order costs.
Known == run.snap.pos = held /\ run.snap.px = price
SnapshotInv ==
    /\ open = {}
    /\ run.pc \in {"cash", "blend", "plan", "trade"} => Known
    /\ run.pc \in {"blend", "plan", "trade"} => run.snap.cash <= cash
    /\ run.pc # "idle" => Equity(Now) <= book.opening
    /\ \A o \in run.todo : o.quote = price[o.sym]

\* Filled to the letter, the account is the planned one as far as the loop got.
Done == book.orders \ run.todo
Change(o) == IF o.side = "BUY" THEN o.qty ELSE -o.qty
ExactInv ==
    /\ book.snap.px = price
    /\ Equity(Now) = Equity(book.snap)
    /\ book.orders = Orders(book.targets, book.snap, price, book.markets)
    /\ \A o \in Done : held[o.sym] = book.snap.pos[o.sym] + Change(o)
    /\ \A s \in Symbols : (\A o \in Done : o.sym # s) => held[s] = book.snap.pos[s]

Undisturbed == book.steady /\ book.alone

Inv ==
    /\ StateInv /\ OrdersInv /\ SellsHeld /\ TargetsFit /\ BuysFunded
    /\ Undisturbed => SnapshotInv /\ LimitsHold
    /\ Undisturbed /\ book.exact => ExactInv

--------------------------------------------------------------------------------
\* What the helpers give.
LEMMA PriceFacts ==
    ASSUME NEW px \in PriceLists
    PROVE  /\ px \in Amounts
           /\ \A s \in Symbols : px[s] \in Prices[s] /\ px[s] \in Nat \ {0}
<1>1. px \in [Symbols -> UNION {Prices[s] : s \in Symbols}] /\ \A s \in Symbols : px[s] \in Prices[s]
  BY DEF PriceLists
<1>2. \A s \in Symbols : px[s] \in Nat \ {0}
  BY <1>1, PriceConstants
<1> QED
  BY <1>1, <1>2 DEF Amounts

LEMMA NothingFacts ==
    /\ NoHolding \in Amounts /\ Unread \in Snapshots /\ NoTargets \in TargetLists
    /\ \A px \in Amounts : Value(NoHolding, px) = 0
    /\ SumFunction(NoTargets.parts) = 0
<1>1. NoHolding \in Amounts /\ Unread \in Snapshots
  BY DEF NoHolding, Unread, Amounts, Snapshots
<1>2. Whole * Whole \in Nat \ {0}
  BY Constants, MulPositive
<1>3. NoTargets \in TargetLists
  BY <1>1, <1>2 DEF NoTargets, TargetLists
<1>4. ASSUME NEW f, DOMAIN f = Symbols, \A s \in Symbols : f[s] = 0 PROVE SumFunction(f) = 0
  <2>1. SumFunction(f) = SumFunctionOnSet(f, Symbols)
    BY <1>4 DEF SumFunction
  <2>2. IsFiniteSet(Symbols)
    BY Constants
  <2>3. 0 \in Int
    OBVIOUS
  <2>4. SumFunctionOnSet(f, Symbols) = Cardinality(Symbols) * 0
    BY <1>4, <2>2, <2>3, SumConstant
  <2>5. Cardinality(Symbols) \in Nat
    BY <2>2, FS_CardinalityType
  <2> QED
    BY <2>1, <2>4, <2>5
<1>5. ASSUME NEW px \in Amounts PROVE Value(NoHolding, px) = 0
  <2> DEFINE f == [s \in Symbols |-> NoHolding[s] * px[s]]
  <2>1. \A s \in Symbols : NoHolding[s] = 0 /\ px[s] \in Nat
    BY DEF NoHolding, Amounts
  <2>2. DOMAIN f = Symbols /\ \A s \in Symbols : f[s] = 0
    BY <2>1
  <2> HIDE DEF f
  <2>3. SumFunction(f) = 0
    BY <1>4, <2>2
  <2> QED
    BY <2>3 DEF Value, f
<1>6. DOMAIN NoHolding = Symbols /\ \A s \in Symbols : NoHolding[s] = 0
  BY DEF NoHolding
<1>7. SumFunction(NoHolding) = 0
  BY <1>4, <1>6
<1> QED
  BY <1>1, <1>3, <1>5, <1>7 DEF NoTargets

\* Targets add up to what there is at most.
LEMMA BlendedFacts ==
    ASSUME NEW targets \in TargetLists, NEW n \in 1..Sleeves, NEW w \in Answers[n] \cup {NoAnswer}
    PROVE  /\ Blended(targets, n, w) \in TargetLists
           /\ SumFunction(Blended(targets, n, w).parts) <= Blended(targets, n, w).of
<1> DEFINE parts == [s \in Symbols |->
                        targets.parts[s] + (IF s \in DOMAIN w THEN w[s] * Budget[n] ELSE 0)]
<1>1. DOMAIN w \subseteq Symbols /\ \A s \in DOMAIN w : w[s] \in Nat
  BY AnswerConstants
<1>2. Budget[n] \in Nat
  BY Constants
<1>3. targets.parts \in Amounts /\ targets.named \subseteq Symbols
  BY DEF TargetLists
<1>4. \A s \in Symbols : parts[s] \in Nat
  <2> TAKE s \in Symbols
  <2> DEFINE x == IF s \in DOMAIN w THEN w[s] * Budget[n] ELSE 0
  <2>1. x \in Nat
    BY <1>1, <1>2, MulNat
  <2>2. targets.parts[s] \in Nat
    BY <1>3 DEF Amounts
  <2>3. parts[s] = targets.parts[s] + x
    OBVIOUS
  <2> HIDE DEF parts, x
  <2> QED
    BY <2>1, <2>2, <2>3
<1>5. parts \in Amounts /\ DOMAIN parts = Symbols
  BY <1>4 DEF Amounts
<1>6. Blended(targets, n, w) = [named |-> targets.named \cup DOMAIN w, parts |-> parts,
                                of |-> Scaled(parts)]
  BY DEF Blended
<1> HIDE DEF parts
<1>7. SumFunction(parts) \in Nat
  <2>1. SumFunction(parts) = SumFunctionOnSet(parts, Symbols)
    BY <1>5 DEF SumFunction
  <2>2. IsFiniteSet(Symbols)
    BY Constants
  <2> QED
    BY <1>4, <2>1, <2>2, SumNat
<1>8. Whole * Whole \in Nat \ {0}
  BY Constants, MulPositive
<1> DEFINE all == Whole * Whole
           sum == SumFunction(parts)
<1>9. Scaled(parts) = Max({all, sum})
  BY DEF Scaled
<1> HIDE DEF all, sum
<1>10. Scaled(parts) \in Nat \ {0} /\ sum <= Scaled(parts)
  <2>1. all \in Nat \ {0} /\ sum \in Nat
    BY <1>7, <1>8 DEF all, sum
  <2> QED
    BY <1>9, <2>1, MaxOfTwo
<1> QED
  BY <1>1, <1>3, <1>5, <1>6, <1>10 DEF TargetLists, sum

\* The orders of a plan: one to a symbol at most, at its quote.
Quotes == {q \in [Symbols -> Nat] : \A s \in Symbols : q[s] \in Prices[s] \cup {0}}

LEMMA OrderFacts ==
    ASSUME NEW targets \in TargetLists, NEW snap \in Snapshots, NEW quotes \in Quotes,
           NEW markets
    PROVE  /\ Orders(targets, snap, quotes, markets) \in SUBSET OrderSet
           /\ \A o \in Orders(targets, snap, quotes, markets) :
                  /\ o.sym \in Traded(targets, snap, quotes, markets)
                  /\ o = OrderFor(targets, snap, quotes, o.sym)
                  /\ o.quote = quotes[o.sym] /\ o.quote \in Prices[o.sym]
           /\ \A s \in Traded(targets, snap, quotes, markets) :
                  \E o \in Orders(targets, snap, quotes, markets) : o.sym = s
           /\ \A o, p \in Orders(targets, snap, quotes, markets) : o.sym = p.sym => o = p
<1> DEFINE T == Traded(targets, snap, quotes, markets)
           O == Orders(targets, snap, quotes, markets)
           F(s) == OrderFor(targets, snap, quotes, s)
<1>1. O = {F(s) : s \in T}
  BY DEF Orders
<1>2. ASSUME NEW s \in T
      PROVE  /\ s \in Symbols /\ quotes[s] \in Prices[s] /\ quotes[s] \in Nat \ {0}
             /\ Quantity(targets, snap, quotes[s], s) \in Nat \ {0}
  <2>1. s \in Symbols /\ quotes[s] > 0 /\ Quantity(targets, snap, quotes[s], s) > 0
    BY <1>2 DEF Traded
  <2>2. quotes[s] \in Nat /\ quotes[s] \in Prices[s] \cup {0}
    BY <2>1 DEF Quotes
  <2>3. quotes[s] \in Nat \ {0} /\ quotes[s] \in Prices[s]
    BY <2>1, <2>2
  <2>4. Quantity(targets, snap, quotes[s], s) \in Nat
    BY <2>1, <2>3, QuantityFacts
  <2> QED
    BY <2>1, <2>3, <2>4
<1>3. ASSUME NEW s \in T
      PROVE  F(s) \in OrderSet /\ F(s).sym = s /\ F(s).quote = quotes[s]
  <2>1. Drift(targets, snap, s) \in Int
    BY <1>2, <1>3, DriftFacts
  <2>2. s \in Symbols /\ quotes[s] \in Nat \ {0} /\ Quantity(targets, snap, quotes[s], s) \in Nat \ {0}
    BY <1>2, <1>3
  <2> HIDE DEF T
  <2> QED
    BY <2>1, <2>2 DEF OrderFor, OrderSet, Sides
<1> HIDE DEF T, F
<1>4. \A o \in O : o \in OrderSet /\ o.sym \in T /\ o = F(o.sym) /\ o.quote = quotes[o.sym]
  BY <1>1, <1>3
<1>5. \A s \in T : F(s) \in O /\ F(s).sym = s
  BY <1>1, <1>3
<1> HIDE DEF O
<1>6. \A o \in O : o.quote \in Prices[o.sym]
  BY <1>2, <1>4
<1>7. \A o, p \in O : o.sym = p.sym => o = p
  BY <1>4
<1> QED
  BY <1>4, <1>5, <1>6, <1>7 DEF O, T, F

--------------------------------------------------------------------------------
\* What a symbol's buy costs is no more than what the symbol lacks.
LEMMA SpentFacts ==
    ASSUME NEW targets \in TargetLists, NEW snap \in Snapshots, NEW quotes \in Quotes,
           NEW markets, NEW s \in Symbols
    PROVE  LET n == SpentOn(Orders(targets, snap, quotes, markets), s)
               d == Drift(targets, snap, s)
           IN  n \in Nat /\ targets.of * n <= (IF d > 0 THEN d ELSE 0)
<1> DEFINE O == Orders(targets, snap, quotes, markets)
           buys == {o \in O : o.sym = s /\ o.side = "BUY"}
           d == Drift(targets, snap, s)
           n == SpentOn(O, s)
<1> SUFFICES n \in Nat /\ targets.of * n <= (IF d > 0 THEN d ELSE 0)
  OBVIOUS
<1>1. d \in Int /\ targets.of \in Nat \ {0}
  BY DriftFacts
<1>2. CASE buys = {}
  <2>1. n = 0
    BY <1>2 DEF SpentOn
  <2>2. targets.of * 0 = 0
    BY <1>1
  <2> HIDE DEF n, d
  <2> QED
    BY <1>1, <2>1, <2>2
<1>3. CASE buys # {}
  <2> DEFINE o == CHOOSE x \in buys : TRUE
  <2>1. n = o.quote * o.qty
    BY <1>3 DEF SpentOn
  <2>2. o \in buys
    BY <1>3
  <2> HIDE DEF o, n
  <2>3. o \in O /\ o.sym = s /\ o.side = "BUY"
    BY <2>2
  <2>4. o = OrderFor(targets, snap, quotes, s) /\ o \in OrderSet /\ o.quote = quotes[s]
    BY <2>3, OrderFacts
  <2>5. d > 0 /\ o.qty = Quantity(targets, snap, o.quote, s)
    BY <2>3, <2>4 DEF OrderFor
  <2>6. o.quote \in Nat \ {0} /\ o.qty \in Nat \ {0}
    BY <2>4 DEF OrderSet
  <2> DEFINE q == o.quote
             m == o.qty
  <2>7. targets.of * q * m <= Size(d)
    BY <2>5, <2>6, QuantityFacts
  <2>8. Size(d) = d
    BY <1>1, <2>5 DEF Size
  <2>9. n = q * m /\ q \in Nat /\ m \in Nat
    BY <2>1, <2>6
  <2> HIDE DEF q, m, d
  <2>10. \A x, y, z \in Int : x * (y * z) = x * y * z
    BY SMT
  <2>11. targets.of * (q * m) = targets.of * q * m
    BY <1>1, <2>9, <2>10
  <2>12. n \in Nat
    BY <2>9, MulNat
  <2> QED
    BY <2>5, <2>7, <2>8, <2>9, <2>11, <2>12
<1> QED
  BY <1>2, <1>3

\* What drifts adds up to the cash at most: targets are of no more than there is.
LEMMA DriftsWithinCash ==
    ASSUME NEW targets \in TargetLists, NEW snap \in Snapshots, NEW f,
           SumFunction(targets.parts) <= targets.of,
           \A s \in Symbols : f[s] = Drift(targets, snap, s)
    PROVE  /\ SumFunctionOnSet(f, Symbols) \in Int
           /\ SumFunctionOnSet(f, Symbols) <= targets.of * snap.cash
<1> DEFINE E == Equity(snap)
           V == Value(snap.pos, snap.px)
           of == targets.of
           parts == targets.parts
           w == [s \in Symbols |-> snap.pos[s] * snap.px[s]]
           pe == [s \in Symbols |-> E * parts[s]]
           vo == [s \in Symbols |-> (-of) * w[s]]
<1>1. /\ E \in Nat /\ V \in Nat /\ snap.cash \in Nat /\ E = snap.cash + V
      /\ of \in Nat \ {0} /\ parts \in Amounts
  BY EquityNat DEF TargetLists
<1>2. IsFiniteSet(Symbols)
  BY Constants
<1>3. \A s \in Symbols : parts[s] \in Nat /\ w[s] \in Nat
  <2>1. snap.pos \in Amounts /\ snap.px \in Amounts
    BY DEF Snapshots
  <2> QED
    BY <1>1, <2>1, ValueTerms DEF Amounts
<1>4. SumFunctionOnSet(parts, Symbols) = SumFunction(parts) /\ SumFunctionOnSet(w, Symbols) = V
  <2>1. DOMAIN parts = Symbols /\ DOMAIN w = Symbols
    BY <1>1 DEF Amounts
  <2> QED
    BY <2>1 DEF Value, SumFunction
<1>5. \A s \in Symbols : f[s] = parts[s] * E - w[s] * of
  BY DEF Drift
<1>6. \A s \in Symbols : pe[s] = E * parts[s] /\ vo[s] = (-of) * w[s]
  OBVIOUS
<1> HIDE DEF w, pe, vo, parts, of, E, V
<1>7. ASSUME NEW s \in Symbols
      PROVE  pe[s] \in Int /\ vo[s] \in Int /\ f[s] = pe[s] + vo[s]
  <2>1. \A x, y, z, u \in Int : /\ x * y - z * u = y * x + (-u) * z
                                /\ y * x \in Int /\ (-u) * z \in Int
    BY SMT
  <2>2. parts[s] \in Int /\ w[s] \in Int /\ E \in Int /\ of \in Int
    BY <1>1, <1>3
  <2>3. /\ parts[s] * E - w[s] * of = E * parts[s] + (-of) * w[s]
        /\ E * parts[s] \in Int /\ (-of) * w[s] \in Int
    BY <2>1, <2>2
  <2> QED
    BY <1>5, <1>6, <2>3
<1>8. SumFunctionOnSet(f, Symbols) = SumFunctionOnSet(pe, Symbols) + SumFunctionOnSet(vo, Symbols)
  BY <1>2, <1>7, SumAdds
<1>9. SumFunctionOnSet(pe, Symbols) = E * SumFunctionOnSet(parts, Symbols)
  <2>1. E \in Int /\ \A s \in Symbols : parts[s] \in Int /\ pe[s] = E * parts[s]
    BY <1>1, <1>3, <1>6
  <2> QED
    BY <1>2, <2>1, SumScales
<1>10. SumFunctionOnSet(vo, Symbols) = (-of) * SumFunctionOnSet(w, Symbols)
  <2>1. -of \in Int /\ \A s \in Symbols : w[s] \in Int /\ vo[s] = (-of) * w[s]
    BY <1>1, <1>3, <1>6
  <2> QED
    BY <1>2, <2>1, SumScales
<1> DEFINE P == SumFunctionOnSet(parts, Symbols)
<1>11. P \in Nat /\ P <= of
  <2>1. SumFunctionOnSet(parts, Symbols) \in Nat
    BY <1>2, <1>3, SumNat
  <2> QED
    BY <1>4, <2>1 DEF parts, of
<1> HIDE DEF P
<1>12. E * P <= E * of
  BY <1>1, <1>11, MulGrows
<1>13. E * of = of * snap.cash + of * V /\ (-of) * V = -(of * V)
  <2>1. \A x, y, z \in Int : (x + y) * z = z * x + z * y /\ (-z) * y = -(z * y)
    BY SMT
  <2> QED
    BY <1>1, <2>1
<1>14. E * P \in Int /\ of * snap.cash \in Int /\ of * V \in Int
  BY <1>1, <1>11, SMT
<1>15. SumFunctionOnSet(f, Symbols) = E * P - of * V
  BY <1>4, <1>8, <1>9, <1>10, <1>13, <1>14 DEF P
<1> QED
  BY <1>12, <1>13, <1>14, <1>15 DEF of

\* So the buys of a plan come to no more than the cash and what it releases.
LEMMA PlanFunded ==
    ASSUME NEW targets \in TargetLists, NEW snap \in Snapshots, NEW quotes \in Quotes,
           NEW markets, SumFunction(targets.parts) <= targets.of
    PROVE  Funded(targets, snap, Orders(targets, snap, quotes, markets))
<1> DEFINE O == Orders(targets, snap, quotes, markets)
           of == targets.of
           f == [s \in Symbols |-> Drift(targets, snap, s)]
           r == [s \in Symbols |-> Released(targets, snap, s)]
           x == [s \in Symbols |-> SpentOn(O, s)]
           ox == [s \in Symbols |-> of * x[s]]
           fr == [s \in Symbols |-> f[s] + r[s]]
<1>1. of \in Nat \ {0} /\ IsFiniteSet(Symbols)
  BY Constants DEF TargetLists
<1>2. ASSUME NEW s \in Symbols
      PROVE  /\ f[s] \in Int /\ r[s] \in Int /\ x[s] \in Int /\ ox[s] \in Int
             /\ ox[s] <= fr[s] /\ fr[s] \in Int
  <2> DEFINE d == Drift(targets, snap, s)
             n == SpentOn(O, s)
  <2>1. d \in Int
    BY DriftFacts
  <2>2. n \in Nat /\ of * n <= (IF d > 0 THEN d ELSE 0)
    BY SpentFacts
  <2>3. f[s] = d /\ x[s] = n /\ r[s] = Released(targets, snap, s)
    OBVIOUS
  <2>4. ox[s] = of * x[s] /\ fr[s] = f[s] + r[s]
    OBVIOUS
  <2>5. Released(targets, snap, s) = Max({0, -d})
    BY DEF Released
  <2> HIDE DEF d, n, f, x, r, ox, fr
  <2>6. r[s] = IF 0 <= -d THEN -d ELSE 0
    BY <2>1, <2>3, <2>5, MaxOfTwo
  <2>7. of * n \in Int
    BY <1>1, <2>2, SMT
  <2> QED
    BY <2>1, <2>2, <2>3, <2>4, <2>6, <2>7
<1>3. SumFunctionOnSet(f, Symbols) \in Int /\ SumFunctionOnSet(f, Symbols) <= of * snap.cash
  <2>1. \A s \in Symbols : f[s] = Drift(targets, snap, s)
    OBVIOUS
  <2> HIDE DEF f
  <2> QED
    BY <2>1, DriftsWithinCash
<1>4. /\ SumFunction(x) = SumFunctionOnSet(x, Symbols)
      /\ SumFunction(r) = SumFunctionOnSet(r, Symbols)
  <2>1. DOMAIN x = Symbols /\ DOMAIN r = Symbols
    OBVIOUS
  <2> QED
    BY <2>1 DEF SumFunction
<1>5. \A s \in Symbols : ox[s] = of * x[s] /\ fr[s] = f[s] + r[s]
  OBVIOUS
<1> SUFFICES of * SumFunction(x) <= of * snap.cash + SumFunction(r)
  BY DEF Funded
<1> HIDE DEF f, r, x, ox, fr
<1>6. SumFunctionOnSet(ox, Symbols) <= SumFunctionOnSet(fr, Symbols)
  BY <1>1, <1>2, SumMonotone
<1>7. SumFunctionOnSet(ox, Symbols) = of * SumFunctionOnSet(x, Symbols)
  <2>1. of \in Int /\ \A s \in Symbols : x[s] \in Int /\ ox[s] = of * x[s]
    BY <1>1, <1>2, <1>5
  <2> HIDE DEF of
  <2> QED
    BY <1>1, <2>1, SumScales
<1>8. SumFunctionOnSet(fr, Symbols) = SumFunctionOnSet(f, Symbols) + SumFunctionOnSet(r, Symbols)
  BY <1>1, <1>2, <1>5, SumAdds
<1>9. snap.cash \in Nat /\ SumFunctionOnSet(r, Symbols) \in Int /\ SumFunctionOnSet(x, Symbols) \in Int
  BY <1>1, <1>2, EquityNat, SumFirst
<1>10. of * snap.cash \in Int /\ of * SumFunctionOnSet(x, Symbols) \in Int
  BY <1>1, <1>9, SMT
<1> QED
  BY <1>3, <1>4, <1>6, <1>7, <1>8, <1>9, <1>10

--------------------------------------------------------------------------------
\* Once its order is filled, a symbol is not traded at the same prices: what is
\* left of its drift does not come to a lot, or what is left to sell is none.
LEMMA NoLotLeft ==
    ASSUME NEW targets \in TargetLists, NEW snap \in Snapshots, NEW now \in Snapshots,
           NEW s \in Symbols, NEW p \in Nat \ {0}, snap.px[s] = p, now.px[s] = p,
           Equity(now) = Equity(snap),
           now.pos[s] = snap.pos[s] + (IF Drift(targets, snap, s) > 0
                                       THEN Quantity(targets, snap, p, s)
                                       ELSE -Quantity(targets, snap, p, s))
    PROVE  Quantity(targets, now, p, s) = 0
<1> DEFINE d == Drift(targets, snap, s)
           e == Drift(targets, now, s)
           q == Quantity(targets, snap, p, s)
           of == targets.of
           b == of * p
           n == Size(d) \div b
           k == Size(e) \div b
           have == snap.pos[s]
           left == now.pos[s]
           change == IF d > 0 THEN q ELSE -q
           x == targets.parts[s] * Equity(snap)
<1> SUFFICES Quantity(targets, now, p, s) = 0
  OBVIOUS
<1>1. /\ d \in Int /\ Size(d) \in Nat /\ e \in Int /\ Size(e) \in Nat
      /\ of \in Nat \ {0} /\ have \in Nat /\ left \in Nat /\ targets.parts[s] \in Nat
  BY DriftFacts
<1>2. /\ b \in Nat \ {0} /\ n \in Nat /\ q \in Nat /\ q <= n
      /\ d > 0 => q = Lots(s, n)
      /\ ~(d > 0) => q <= have /\ q = Lots(s, Min({Lots(s, n), have}))
  BY ONLY snap \in Snapshots, targets \in TargetLists, s \in Symbols, p \in Nat \ {0},
          QuantityFacts
<1>3. /\ k \in Nat
      /\ e > 0 => Quantity(targets, now, p, s) = Lots(s, k)
      /\ ~(e > 0) => Quantity(targets, now, p, s) = Lots(s, Min({Lots(s, k), left}))
  BY ONLY now \in Snapshots, targets \in TargetLists, s \in Symbols, p \in Nat \ {0},
          QuantityFacts
<1>4. e = d - change * b
  <2>1. left = have + change
    OBVIOUS
  <2>2. d = x - have * p * of /\ e = x - left * p * of
    BY DEF Drift
  <2>3. x \in Int
    <3>1. Equity(snap) \in Nat
      BY EquityNat
    <3> QED
      BY <1>1, <3>1, MulNat
  <2>4. change \in Int
    BY <1>1, <1>2
  <2>5. \A t, u, v, w \in Int : /\ (t + u) * v * w = t * v * w + u * (w * v)
                                /\ t * v * w \in Int /\ u * (w * v) \in Int
    BY SMT
  <2> HIDE DEF x, change, have, left, of, d, e
  <2>6. (have + change) * p * of = have * p * of + change * (of * p)
    BY <1>1, <2>4, <2>5
  <2>7. have * p * of \in Int /\ change * (of * p) \in Int
    BY <1>1, <2>4, <2>5
  <2> QED
    BY <2>1, <2>2, <2>3, <2>6, <2>7
<1>5. Size(d) - q * b \in Nat /\ (Size(d) - q * b) \div b = n - q
  <2> DEFINE size == Size(d)
  <2>1. size \in Nat /\ b \in Nat \ {0} /\ q \in Nat /\ q <= size \div b
    BY <1>1, <1>2
  <2> HIDE DEF size, q, b
  <2>2. size - q * b \in Nat /\ (size - q * b) \div b = size \div b - q
    BY ONLY <2>1, QuotientLess
  <2> QED
    BY <2>2 DEF size
<1>6. /\ Size(e) = Size(d) - q * b
      /\ e > 0 => d > 0
      /\ d > 0 => e >= 0
  <2>1. q * b \in Int /\ (-q) * b = -(q * b)
    <3>1. \A t, u \in Int : t * u \in Int /\ (-t) * u = -(t * u)
      BY SMT
    <3> QED
      BY <1>2, <3>1
  <2> DEFINE c == q * b
  <2>2. e = IF d > 0 THEN d - c ELSE d + c
    <3>1. CASE d > 0
      BY <1>1, <1>4, <2>1, <3>1
    <3>2. CASE ~(d > 0)
      <4>1. change = -q
        BY <3>2
      <4> HIDE DEF change
      <4> QED
        BY <1>1, <1>4, <2>1, <3>2, <4>1
    <3> QED
      BY <3>1, <3>2
  <2>3. c \in Int /\ Size(d) - c \in Nat
    BY <1>5, <2>1
  <2> HIDE DEF c, d, e
  <2>4. /\ Size(e) = Size(d) - c
        /\ e > 0 => d > 0
        /\ d > 0 => e >= 0
    BY <1>1, <2>2, <2>3 DEF Size
  <2> QED
    BY <2>4 DEF c
<1>7. k = n - q
  BY <1>5, <1>6
<1>8. CASE q = Lots(s, n)
  <2>1. Lots(s, k) = 0
    BY <1>2, <1>3, <1>7, <1>8, LotsFacts
  <2>2. Min({0, left}) = 0
    BY <1>1, MinOfTwo
  <2> HIDE DEF k, e, left
  <2> QED
    BY <1>3, <2>1, <2>2, NoLots
<1>9. CASE ~(q = Lots(s, n))
  <2> DEFINE m == Min({Lots(s, n), have})
             m2 == Min({Lots(s, k), left})
  <2>1. Lots(s, n) \in Nat /\ Lots(s, Lots(s, n)) = Lots(s, n) /\ Lots(s, k) \in Nat
    BY <1>2, <1>3, LotsFacts
  <2>2. ~(d > 0) /\ q = Lots(s, m)
    BY <1>2, <1>9
  <2>3. m = have
    <3>1. m = IF Lots(s, n) <= have THEN Lots(s, n) ELSE have
      BY <1>1, <2>1, MinOfTwo
    <3> QED
      BY <1>9, <2>1, <2>2, <3>1
  <2>4. q = Lots(s, have) /\ left = have - q
    BY <1>1, <1>2, <2>2, <2>3
  <2>5. m2 \in Nat /\ m2 <= left
    BY <1>1, <2>1, MinOfTwo
  <2>6. Lots(s, m2) = 0
    <3> HIDE DEF m2
    <3> QED
      BY <1>1, <2>4, <2>5, LotsFacts
  <2>7. ~(e > 0)
    BY <1>6, <2>2
  <2> QED
    BY <1>3, <2>6, <2>7
<1> QED
  BY <1>8, <1>9

\* What was not traded is not traded when nothing of it changed.
LEMMA NothingTraded ==
    ASSUME NEW targets \in TargetLists, NEW snap \in Snapshots, NEW now \in Snapshots,
           NEW px \in PriceLists, NEW markets, NEW s \in Symbols,
           snap.px = px, now.px = px, Equity(now) = Equity(snap),
           s \in Traded(targets, snap, px, markets)
               => now.pos[s] = snap.pos[s] + (IF Drift(targets, snap, s) > 0
                                              THEN Quantity(targets, snap, px[s], s)
                                              ELSE -Quantity(targets, snap, px[s], s)),
           s \notin Traded(targets, snap, px, markets) => now.pos[s] = snap.pos[s]
    PROVE  s \notin Traded(targets, now, px, markets)
<1>1. px[s] \in Nat \ {0} /\ snap.px[s] = px[s] /\ now.px[s] = px[s]
  BY PriceFacts
<1>2. CASE s \in Traded(targets, snap, px, markets)
  <2>1. Quantity(targets, now, px[s], s) = 0
    BY <1>1, <1>2, NoLotLeft
  <2> QED
    BY <2>1 DEF Traded
<1>3. CASE s \notin Traded(targets, snap, px, markets)
  <2>1. now.pos[s] = snap.pos[s]
    BY <1>3
  <2>2. Drift(targets, now, s) = Drift(targets, snap, s)
    BY <2>1, <1>1 DEF Drift
  <2>3. Quantity(targets, now, px[s], s) = Quantity(targets, snap, px[s], s)
    BY <2>1, <2>2 DEF Quantity
  <2> QED
    BY <1>3, <2>2, <2>3 DEF Traded
<1> QED
  BY <1>2, <1>3

--------------------------------------------------------------------------------
\* What open sells promise changes with the orders.
Qty == [o \in OpenSet |-> o.qty]

LEMMA PromisedFacts ==
    ASSUME NEW orders \in SUBSET OpenSet, IsFiniteSet(orders), NEW s \in Symbols
    PROVE  /\ Promised(orders, s) = SumFunctionOnSet(Qty, SellsOf(orders, s))
           /\ Promised(orders, s) \in Nat
           /\ SellsOf(orders, s) \subseteq OpenSet /\ IsFiniteSet(SellsOf(orders, s))
<1> DEFINE S == SellsOf(orders, s)
           f == [o \in S |-> o.qty]
<1>1. S \subseteq orders /\ S \subseteq OpenSet
  BY DEF SellsOf
<1>2. IsFiniteSet(S)
  BY <1>1, FS_Subset
<1>3. \A o \in S : f[o] = Qty[o] /\ f[o] \in Nat
  BY <1>1 DEF Qty, OpenSet
<1>4. DOMAIN f = S /\ Promised(orders, s) = SumFunction(f)
  BY DEF Promised
<1>5. Promised(orders, s) = SumFunctionOnSet(f, S)
  BY <1>4 DEF SumFunction
<1> HIDE DEF S, f
<1>6. \A o \in S : f[o] \in Int /\ f[o] = Qty[o]
  BY <1>3
<1>7. SumFunctionOnSet(f, S) = SumFunctionOnSet(Qty, S)
  BY <1>2, <1>6, SumSame
<1>8. SumFunctionOnSet(f, S) \in Nat
  BY <1>2, <1>3, SumNat
<1> QED
  BY <1>1, <1>2, <1>5, <1>7, <1>8 DEF S

LEMMA PromisedLess ==
    ASSUME NEW orders \in SUBSET OpenSet, IsFiniteSet(orders), NEW o \in orders, NEW s \in Symbols
    PROVE  Promised(orders \ {o}, s)
           = Promised(orders, s) - (IF o.sym = s /\ o.side = "SELL" THEN o.qty ELSE 0)
<1> DEFINE S == SellsOf(orders, s)
           R == SellsOf(orders \ {o}, s)
           rest == orders \ {o}
<1>1. rest \in SUBSET OpenSet /\ IsFiniteSet(rest)
  BY FS_Subset
<1>2. /\ Promised(orders, s) = SumFunctionOnSet(Qty, S) /\ S \subseteq OpenSet /\ IsFiniteSet(S)
      /\ Promised(orders, s) \in Nat
  BY PromisedFacts
<1>3. Promised(rest, s) = SumFunctionOnSet(Qty, R) /\ Promised(rest, s) \in Nat
  <2> HIDE DEF rest
  <2>1. Promised(rest, s) = SumFunctionOnSet(Qty, SellsOf(rest, s)) /\ Promised(rest, s) \in Nat
    BY <1>1, PromisedFacts
  <2> QED
    BY <2>1 DEF rest
<1>4. CASE o \in S
  <2>1. R = S \ {o} /\ o.sym = s /\ o.side = "SELL"
    BY <1>4 DEF SellsOf
  <2>2. \A x \in S : Qty[x] \in Int /\ Qty[x] = x.qty
    BY <1>2 DEF Qty, OpenSet
  <2> HIDE DEF S, R
  <2>3. SumFunctionOnSet(Qty, S) = Qty[o] + SumFunctionOnSet(Qty, S \ {o})
    BY <1>2, <1>4, <2>2, SumRemove
  <2>4. o.qty \in Int /\ Qty[o] = o.qty
    BY <1>4, <2>2
  <2> QED
    BY <1>2, <1>3, <2>1, <2>3, <2>4
<1>5. CASE o \notin S
  <2>1. R = S /\ ~(o.sym = s /\ o.side = "SELL")
    BY <1>5 DEF SellsOf
  <2> QED
    BY <1>2, <1>3, <2>1
<1> QED
  BY <1>4, <1>5

LEMMA PromisedMore ==
    ASSUME NEW orders \in SUBSET OpenSet, IsFiniteSet(orders), NEW o \in OpenSet, NEW s \in Symbols
    PROVE  Promised(orders \cup {o}, s)
           <= Promised(orders, s) + (IF o.sym = s /\ o.side = "SELL" THEN o.qty ELSE 0)
<1> DEFINE all == orders \cup {o}
           n == IF o.sym = s /\ o.side = "SELL" THEN o.qty ELSE 0
<1>1. all \in SUBSET OpenSet /\ IsFiniteSet(all) /\ n \in Nat
  BY FS_AddElement DEF OpenSet
<1>2. Promised(all, s) \in Nat /\ Promised(orders, s) \in Nat
  <2> HIDE DEF all
  <2> QED
    BY <1>1, PromisedFacts
<1>3. CASE o \in orders
  <2>1. all = orders
    BY <1>3
  <2> QED
    BY <1>1, <1>2, <2>1
<1>4. CASE o \notin orders
  <2>1. all \ {o} = orders /\ o \in all
    BY <1>4
  <2>2. Promised(all \ {o}, s) = Promised(all, s) - n
    <3> HIDE DEF all
    <3> QED
      BY <1>1, <2>1, PromisedLess
  <2> HIDE DEF all, n
  <2>3. Promised(all, s) = Promised(orders, s) + n
    BY <1>1, <1>2, <2>1, <2>2
  <2> QED
    BY <1>1, <1>2, <2>3 DEF all, n
<1> QED
  BY <1>3, <1>4

--------------------------------------------------------------------------------
\* A fill: shares against cash, at the price, and its fee.
LEMMA NowFacts ==
    ASSUME price \in PriceLists, cash \in Nat, held \in Amounts
    PROVE  /\ price \in Amounts /\ Now \in Snapshots
           /\ Now.cash = cash /\ Now.pos = held /\ Now.px = price
           /\ Value(held, price) \in Nat /\ Equity(Now) \in Nat
           /\ Equity(Now) = cash + Value(held, price)
<1>1. price \in Amounts
  BY PriceFacts
<1>2. Now \in Snapshots /\ Now.cash = cash /\ Now.pos = held /\ Now.px = price
  BY <1>1 DEF Now, Snapshots
<1> QED
  BY <1>1, <1>2, EquityNat

LEMMA Settling ==
    ASSUME price \in PriceLists, cash \in Nat, held \in Amounts, UNCHANGED price,
           NEW s \in Symbols, NEW side \in Sides, NEW n \in Nat, NEW fee \in Nat,
           Settle(s, side, n, fee), side = "SELL" => n <= held[s]
    PROVE  /\ cash' \in Nat /\ held' \in Amounts
           /\ held'[s] = held[s] + (IF side = "BUY" THEN n ELSE -n)
           /\ \A t \in Symbols : t # s => held'[t] = held[t]
           /\ Value(held, price)' = Value(held, price)
                                    + (IF side = "BUY" THEN n ELSE -n) * price[s]
           /\ Equity(Now)' = Equity(Now) - fee
           /\ n = 0 => cash' = cash /\ held' = held
<1> DEFINE c == IF side = "BUY" THEN n ELSE -n
           new == [held EXCEPT ![s] = @ + c]
           p == price[s]
<1>1. /\ price \in Amounts /\ p \in Nat /\ held[s] \in Nat
      /\ Value(held, price) \in Nat /\ Equity(Now) = cash + Value(held, price)
  BY NowFacts DEF Amounts
<1>2. c \in Int /\ held[s] + c \in Nat
  BY <1>1 DEF Sides
<1>3. n * p \in Nat /\ c * p = IF side = "BUY" THEN n * p ELSE -(n * p)
  <2>1. \A x, y \in Int : (-x) * y = -(x * y)
    BY SMT
  <2>2. n * p \in Nat /\ (-n) * p = -(n * p)
    BY <1>1, <2>1, MulNat
  <2> QED
    BY <2>2
<1>4. held' = new
  <2>1. CASE side = "BUY"
    BY <2>1 DEF Settle
  <2>2. CASE side # "BUY"
    <3>1. held' = [held EXCEPT ![s] = @ - n]
      BY <2>2 DEF Settle
    <3>2. held[s] - n = held[s] + c
      BY <1>1, <2>2
    <3> QED
      BY <3>1, <3>2
  <2> QED
    BY <2>1, <2>2
<1>5. cash' = cash - c * p - fee /\ cash' \in Nat
  <2>1. CASE side = "BUY"
    <3>1. n * p + fee <= cash /\ cash' = cash - n * p - fee
      BY <2>1 DEF Settle
    <3> QED
      BY <1>3, <2>1, <3>1
  <2>2. CASE side # "BUY"
    <3>1. fee <= n * p /\ cash' = cash + n * p - fee
      BY <2>2 DEF Settle
    <3> DEFINE m == n * p
               k == c * p
    <3>2. m \in Nat /\ k = -m /\ fee <= m /\ cash' = cash + m - fee
      BY <1>3, <2>2, <3>1
    <3> HIDE DEF m, k
    <3>3. cash' = cash - k - fee /\ cash' \in Nat
      BY <3>2
    <3> QED
      BY <3>3 DEF k
  <2> QED
    BY <2>1, <2>2
<1>13. n = 0 => c = 0
  <2>1. c = n \/ c + n = 0
    OBVIOUS
  <2> HIDE DEF c
  <2> QED
    BY <1>2, <2>1
<1> HIDE DEF c
<1>6. new \in Amounts /\ Value(new, price) = Value(held, price) + c * p
  BY <1>1, <1>2, ValueChange
<1>7. Value(held, price)' = Value(new, price)
  <2>1. Value(held, price)' = Value(held', price')
    BY DEF Value
  <2> QED
    BY <1>4, <2>1
<1>8. new[s] = held[s] + c /\ \A t \in Symbols : t # s => new[t] = held[t]
  BY DEF Amounts
<1>9. Equity(Now)' = cash' + Value(held, price)'
  <2>1. price' \in PriceLists /\ held' \in Amounts
    BY <1>4, <1>6
  <2>2. Now' \in Snapshots /\ Now'.cash = cash' /\ Now'.pos = held' /\ Now'.px = price'
    <3>1. price' \in Amounts
      BY <1>1
    <3> QED
      BY <1>5, <2>1, <3>1 DEF Now, Snapshots
  <2> QED
    BY <2>2 DEF Equity
<1>10. c * p \in Int
  BY <1>1, <1>2, SMT
<1>11. Equity(Now)' = Equity(Now) - fee
  BY <1>1, <1>5, <1>6, <1>7, <1>9, <1>10
<1>12. n = 0 => cash' = cash /\ held' = held
  <2> SUFFICES ASSUME n = 0 PROVE cash' = cash /\ held' = held
    OBVIOUS
  <2>1. fee = 0 /\ c = 0
    BY <1>13 DEF Settle
  <2>2. new = held
    <3>1. held[s] + c = held[s]
      BY <1>1, <2>1
    <3> QED
      BY <3>1 DEF Amounts
  <2>3. 0 * p = 0
    BY <1>1
  <2>4. cash' = cash - 0 - 0
    BY <1>5, <2>1, <2>3
  <2> QED
    BY <1>4, <2>2, <2>4
<1> HIDE DEF new
<1> QED
  BY <1>4, <1>5, <1>6, <1>7, <1>8, <1>11, <1>12 DEF c, p

--------------------------------------------------------------------------------
\* Before the first cycle, and after one that stopped, nothing is planned.
LEMMA NothingPlanned ==
    /\ Idle \in Runs /\ NoBook \in Books
    /\ Idle.pc = "idle" /\ Idle.todo = {} /\ Idle.snap.px = NoHolding
    /\ SumFunction(Idle.targets.parts) <= Idle.targets.of
    /\ NoBook.orders = {} /\ ~NoBook.steady
    /\ Funded(NoBook.targets, NoBook.snap, NoBook.orders)
<1>1. NoHolding \in Amounts /\ Unread \in Snapshots /\ NoTargets \in TargetLists
  BY NothingFacts
<1>2. 1 \in 1..Sleeves
  BY Constants
<1>3. Idle \in Runs /\ Idle.pc = "idle" /\ Idle.todo = {} /\ Idle.snap.px = NoHolding
  BY <1>1, <1>2 DEF Idle, Runs, Unread
<1>4. NoBook \in Books /\ NoBook.orders = {} /\ ~NoBook.steady
  BY <1>1 DEF NoBook, Books
<1>5. SumFunction(NoTargets.parts) = 0 /\ NoTargets.of \in Nat
  BY <1>1, NothingFacts DEF TargetLists
<1>6. Idle.targets = NoTargets /\ NoBook.targets = NoTargets /\ NoBook.snap = Unread
  BY DEF Idle, NoBook
<1>7. SumFunction(NoTargets.parts) <= NoTargets.of
  BY <1>5
<1>8. NoHolding \in Quotes
  BY <1>1 DEF Quotes, NoHolding
<1>9. Orders(NoTargets, Unread, NoHolding, {}) = {}
  BY DEF Orders, Traded
<1>10. Funded(NoTargets, Unread, {})
  BY <1>1, <1>7, <1>8, <1>9, PlanFunded
<1> QED
  BY <1>3, <1>4, <1>6, <1>7, <1>10

LEMMA NoOrders == \A s \in Symbols : Promised({}, s) = 0
<1> TAKE s \in Symbols
<1>1. {} \in SUBSET OpenSet /\ IsFiniteSet({})
  BY FS_EmptySet
<1>2. Promised({}, s) = SumFunctionOnSet(Qty, SellsOf({}, s))
  BY <1>1, PromisedFacts
<1>3. SellsOf({}, s) = {}
  BY DEF SellsOf
<1>4. SumFunctionOnSet(Qty, {}) = 0
  <2>1. \A o \in {} : Qty[o] \in Int
    OBVIOUS
  <2> QED
    BY <1>1, <2>1, SumFirst
<1> QED
  BY <1>2, <1>3, <1>4

LEMMA Initially == Init => Inv
<1> SUFFICES ASSUME Init PROVE Inv
  OBVIOUS
<1>1. /\ price \in PriceLists /\ cash = StartCash /\ held = StartHeld /\ open = {}
      /\ run = Idle /\ cycles = 0 /\ book = NoBook
  BY DEF Init
<1>2. StateInv
  <2>1. cash \in Nat /\ held \in Amounts /\ 0 \in 0..MaxCycles
    BY <1>1, Constants DEF Amounts
  <2>2. open \in SUBSET OpenSet /\ IsFiniteSet(open)
    BY <1>1, FS_EmptySet
  <2> QED
    BY <1>1, <2>1, <2>2, NothingPlanned DEF StateInv
<1>3. OrdersInv
  BY <1>1, NothingPlanned DEF OrdersInv, NoHolding
<1>4. SellsHeld
  BY <1>1, <1>2, NoOrders DEF SellsHeld, StateInv, Amounts
<1>5. TargetsFit /\ BuysFunded /\ ~Undisturbed
  BY <1>1, NothingPlanned DEF TargetsFit, BuysFunded, Undisturbed
<1> QED
  BY <1>2, <1>3, <1>4, <1>5 DEF Inv

LEMMA Resting == Inv /\ UNCHANGED vars => Inv'
BY DEF Inv, StateInv, OrdersInv, SellsHeld, TargetsFit, BuysFunded, Undisturbed, SnapshotInv,
       Known, LimitsHold, ExactInv, Done, Now, Equity, Value, vars, account

LEMMA Moving == ASSUME Inv, NEW s \in Symbols, NEW px \in Prices[s], MovePrice(s, px) PROVE Inv'
<1>1. /\ price' = [price EXCEPT ![s] = px] /\ UNCHANGED <<cash, held, open, run, cycles>>
      /\ book' = [book EXCEPT !.steady = FALSE]
  BY DEF MovePrice, account
<1>2. /\ book' \in Books /\ ~book'.steady /\ book'.orders = book.orders
      /\ book'.targets = book.targets /\ book'.snap = book.snap
  BY <1>1 DEF Inv, StateInv, Books
<1>3. price' \in PriceLists
  BY <1>1 DEF Inv, StateInv, PriceLists
<1>4. StateInv'
  BY <1>1, <1>2, <1>3 DEF Inv, StateInv
<1>5. OrdersInv' /\ SellsHeld' /\ TargetsFit' /\ BuysFunded'
  BY <1>1, <1>2 DEF Inv, OrdersInv, SellsHeld, TargetsFit, BuysFunded
<1> QED
  BY <1>2, <1>4, <1>5 DEF Inv, Undisturbed

LEMMA Starting == ASSUME Inv, NEW m \in SUBSET Countries, StartCycle(m) PROVE Inv'
<1> DEFINE snap == [cash |-> 0, pos |-> held, px |-> price]
<1>1. /\ run' = [Idle EXCEPT !.pc = "cash", !.markets = m, !.snap.pos = held, !.snap.px = price]
      /\ cycles < MaxCycles /\ cycles' = cycles + 1
      /\ book' = [NoBook EXCEPT !.opening = Equity(Now), !.steady = TRUE, !.alone = (open = {})]
      /\ UNCHANGED <<price, cash, held, open>>
  BY DEF StartCycle, account
<1>2. /\ price \in PriceLists /\ price \in Amounts /\ held \in Amounts /\ Equity(Now) \in Nat
  BY NowFacts DEF Inv, StateInv
<1>3. Idle \in Runs /\ NoBook \in Books /\ snap \in Snapshots
  BY <1>2, NothingPlanned DEF Snapshots
<1>4. /\ run' = [pc |-> "cash", markets |-> m, snap |-> snap, sleeve |-> 1,
                 targets |-> NoTargets, todo |-> {}]
      /\ book'.opening = Equity(Now) /\ book'.alone = (open = {}) /\ book'.bought = {}
      /\ book'.exact = FALSE /\ book'.orders = NoBook.orders
      /\ book'.targets = NoBook.targets /\ book'.snap = NoBook.snap
  BY <1>1 DEF Idle, NoBook, Unread
<1>5. run' \in Runs /\ book' \in Books
  <2>1. run' \in Runs
    BY <1>3, <1>4, NothingFacts, Constants DEF Runs
  <2>2. (open = {}) \in BOOLEAN
    OBVIOUS
  <2>3. book' \in Books
    BY <1>1, <1>2, <1>3, <2>2 DEF Books
  <2> QED
    BY <2>1, <2>3
<1>6. StateInv'
  <2>1. cycles' \in 0..MaxCycles
    BY <1>1, Constants DEF Inv, StateInv
  <2> QED
    BY <1>1, <1>5, <2>1 DEF Inv, StateInv
<1>7. OrdersInv'
  <2>1. \A s \in Symbols : price[s] \in Prices[s]
    BY <1>2, PriceFacts
  <2> QED
    BY <1>4, <2>1, NothingPlanned DEF OrdersInv
<1>8. SellsHeld'
  BY <1>1 DEF Inv, SellsHeld
<1>9. TargetsFit' /\ BuysFunded'
  <2>1. Idle.targets = NoTargets
    BY DEF Idle
  <2> QED
    BY <1>4, <2>1, NothingPlanned DEF TargetsFit, BuysFunded
<1>10. Equity(Now)' = Equity(Now)
  BY <1>1 DEF Now, Equity, Value
<1>11. Undisturbed' => (SnapshotInv /\ LimitsHold)'
  <2>1. Undisturbed' => open' = {}
    BY <1>1, <1>4 DEF Undisturbed
  <2>2. open' = {} => SnapshotInv'
    <3>1. run'.pc = "cash" /\ run'.snap.pos = held' /\ run'.snap.px = price' /\ run'.todo = {}
      <4>1. held' = held /\ price' = price
        BY <1>1
      <4> QED
        BY <1>4, <4>1
    <3>2. Equity(Now)' <= book'.opening
      BY <1>2, <1>4, <1>10
    <3> QED
      BY <3>1, <3>2 DEF SnapshotInv, Known
  <2>3. LimitsHold'
    BY <1>4 DEF LimitsHold
  <2> QED
    BY <2>1, <2>2, <2>3
<1> QED
  BY <1>4, <1>6, <1>7, <1>8, <1>9, <1>11 DEF Inv

\* A reading of the account changes only what the cycle knows.
LEMMA ReadingHoldings == Inv /\ ReadHoldings => Inv'
<1> SUFFICES ASSUME Inv, ReadHoldings PROVE Inv'
  OBVIOUS
<1>1. /\ run' = [run EXCEPT !.pc = "cash", !.snap.pos = held, !.snap.px = price]
      /\ run.pc = "refresh" /\ UNCHANGED <<price, cash, held, open, cycles, book>>
  BY DEF ReadHoldings, account
<1>2. price \in PriceLists /\ price \in Amounts /\ held \in Amounts /\ run \in Runs
  BY NowFacts DEF Inv, StateInv
<1>3. run.snap \in Snapshots
  BY <1>2 DEF Runs
<1> DEFINE snap == [run.snap EXCEPT !.pos = held, !.px = price]
<1>4. snap \in Snapshots /\ snap.pos = held /\ snap.px = price
  BY <1>2, <1>3 DEF Snapshots
<1>5. run' = [run EXCEPT !.pc = "cash", !.snap = snap]
  BY <1>1, <1>2 DEF Runs
<1> HIDE DEF snap
<1>6. /\ run' \in Runs /\ run'.pc = "cash" /\ run'.todo = run.todo /\ run'.snap = snap
      /\ run'.targets = run.targets
  BY <1>2, <1>4, <1>5 DEF Runs
<1>7. StateInv'
  BY <1>1, <1>6 DEF Inv, StateInv
<1>8. OrdersInv'
  <2>1. \A s \in Symbols : price[s] \in Prices[s]
    BY <1>2, PriceFacts
  <2> QED
    BY <1>1, <1>4, <1>6, <2>1 DEF Inv, OrdersInv
<1>9. SellsHeld' /\ TargetsFit' /\ BuysFunded'
  BY <1>1, <1>6 DEF Inv, SellsHeld, TargetsFit, BuysFunded
<1>10. /\ Equity(Now)' = Equity(Now) /\ Undisturbed' = Undisturbed /\ LimitsHold' = LimitsHold
  BY <1>1 DEF Now, Equity, Value, Undisturbed, LimitsHold
<1>11. Undisturbed /\ SnapshotInv => SnapshotInv'
  <2> SUFFICES ASSUME SnapshotInv PROVE SnapshotInv'
    OBVIOUS
  <2>1. Equity(Now) <= book.opening
    BY <1>1 DEF SnapshotInv
  <2>2. Equity(Now)' <= book'.opening
    BY <1>1, <1>10, <2>1
  <2>3. open' = {} /\ \A o \in run'.todo : o.quote = price'[o.sym]
    BY <1>1, <1>6 DEF SnapshotInv
  <2>4. run'.pc = "cash" /\ Known'
    BY <1>1, <1>4, <1>6 DEF Known
  <2> QED
    BY <2>2, <2>3, <2>4 DEF SnapshotInv
<1>12. ExactInv => ExactInv'
  BY <1>1, <1>6, <1>10 DEF ExactInv, Done
<1> QED
  BY <1>1, <1>7, <1>8, <1>9, <1>10, <1>11, <1>12 DEF Inv

LEMMA ReadingCash == ASSUME Inv, NEW lost \in Nat, ReadCash(lost) PROVE Inv'
<1> DEFINE pc == IF book.planned THEN "trade" ELSE "blend"
           snap == [run.snap EXCEPT !.cash = cash - lost]
<1>1. /\ run' = [run EXCEPT !.pc = pc, !.snap.cash = cash - lost]
      /\ run.pc = "cash" /\ lost <= cash /\ UNCHANGED <<price, cash, held, open, cycles, book>>
  BY DEF ReadCash, account
<1>2. price \in PriceLists /\ cash \in Nat /\ held \in Amounts /\ run \in Runs
  BY DEF Inv, StateInv
<1>3. run.snap \in Snapshots
  BY <1>2 DEF Runs
<1>4. /\ snap \in Snapshots /\ snap.cash <= cash
      /\ snap.pos = run.snap.pos /\ snap.px = run.snap.px
  <2>1. cash - lost \in Nat /\ cash - lost <= cash
    BY <1>1, <1>2
  <2> QED
    BY <1>3, <2>1 DEF Snapshots
<1>5. run' = [run EXCEPT !.pc = pc, !.snap = snap]
  BY <1>1, <1>2 DEF Runs
<1> HIDE DEF snap
<1>6. /\ run' \in Runs /\ run'.pc = pc /\ run'.todo = run.todo /\ run'.snap = snap
      /\ run'.targets = run.targets
  BY <1>2, <1>4, <1>5 DEF Runs
<1>7. StateInv'
  BY <1>1, <1>6 DEF Inv, StateInv
<1>8. OrdersInv'
  BY <1>1, <1>4, <1>6 DEF Inv, OrdersInv
<1>9. SellsHeld' /\ TargetsFit' /\ BuysFunded'
  BY <1>1, <1>6 DEF Inv, SellsHeld, TargetsFit, BuysFunded
<1>10. /\ Equity(Now)' = Equity(Now) /\ Undisturbed' = Undisturbed /\ LimitsHold' = LimitsHold
       /\ Now' = Now
  BY <1>1 DEF Now, Equity, Value, Undisturbed, LimitsHold
<1>11. SnapshotInv => SnapshotInv'
  <2> SUFFICES ASSUME SnapshotInv PROVE SnapshotInv'
    OBVIOUS
  <2>1. Equity(Now) <= book.opening /\ Known
    BY <1>1 DEF SnapshotInv
  <2>2. Equity(Now)' <= book'.opening
    BY <1>1, <1>10, <2>1
  <2>3. open' = {} /\ \A o \in run'.todo : o.quote = price'[o.sym]
    BY <1>1, <1>6 DEF SnapshotInv
  <2>4. Known' /\ run'.snap.cash <= cash'
    BY <1>1, <1>4, <1>6, <2>1 DEF Known
  <2> QED
    BY <2>2, <2>3, <2>4 DEF SnapshotInv
<1>12. ExactInv => ExactInv'
  BY <1>1, <1>6, <1>10 DEF ExactInv, Done
<1> QED
  BY <1>1, <1>7, <1>8, <1>9, <1>10, <1>11, <1>12 DEF Inv

LEMMA Blending ==
    ASSUME Inv, NEW w, BlendSleeve(w)
    PROVE  Inv'
<1> DEFINE targets == Blended(run.targets, run.sleeve, w)
           pc == IF run.sleeve = Sleeves THEN "plan" ELSE "blend"
           next == IF run.sleeve = Sleeves THEN run.sleeve ELSE run.sleeve + 1
<1>1. /\ run' = [run EXCEPT !.pc = pc, !.sleeve = next, !.targets = targets]
      /\ run.pc = "blend" /\ w \in Answers[run.sleeve] \cup {NoAnswer}
      /\ UNCHANGED <<price, cash, held, open, cycles, book>>
  BY DEF BlendSleeve, account
<1>2. run \in Runs /\ run.targets \in TargetLists /\ run.sleeve \in 1..Sleeves
  BY DEF Inv, StateInv, Runs
<1>3. targets \in TargetLists /\ SumFunction(targets.parts) <= targets.of
  BY <1>1, <1>2, BlendedFacts
<1>4. next \in 1..Sleeves
  BY <1>2, Constants
<1> HIDE DEF targets, next
<1>5. /\ run' \in Runs /\ run'.pc = pc /\ run'.todo = run.todo /\ run'.snap = run.snap
      /\ run'.targets = targets
  BY <1>1, <1>2, <1>3, <1>4 DEF Runs
<1>6. StateInv'
  BY <1>1, <1>5 DEF Inv, StateInv
<1>7. OrdersInv' /\ SellsHeld' /\ TargetsFit' /\ BuysFunded'
  BY <1>1, <1>3, <1>5 DEF Inv, OrdersInv, SellsHeld, TargetsFit, BuysFunded
<1>8. /\ Equity(Now)' = Equity(Now) /\ Undisturbed' = Undisturbed /\ LimitsHold' = LimitsHold
      /\ Now' = Now
  BY <1>1 DEF Now, Equity, Value, Undisturbed, LimitsHold
<1>9. SnapshotInv => SnapshotInv'
  BY <1>1, <1>5, <1>8 DEF SnapshotInv, Known
<1>10. ExactInv => ExactInv'
  BY <1>1, <1>5, <1>8 DEF ExactInv, Done
<1> QED
  BY <1>1, <1>6, <1>7, <1>8, <1>9, <1>10 DEF Inv

\* The end of a cycle.
LEMMA Ending == Inv /\ (EndCycle \/ StopCycle) => Inv'
<1> SUFFICES ASSUME Inv, EndCycle \/ StopCycle PROVE Inv'
  OBVIOUS
<1>1. /\ run' = Idle /\ UNCHANGED <<price, cash, held, open, cycles>>
      /\ (book' = book /\ run.todo = {}) \/ book' = NoBook
  BY DEF EndCycle, StopCycle, account
<1>2. StateInv'
  BY <1>1, NothingPlanned DEF Inv, StateInv
<1>3. OrdersInv'
  BY <1>1, NothingPlanned DEF Inv, OrdersInv, NoHolding
<1>4. SellsHeld' /\ TargetsFit' /\ BuysFunded'
  BY <1>1, NothingPlanned DEF Inv, SellsHeld, TargetsFit, BuysFunded
<1>5. CASE book' = NoBook
  <2>1. ~Undisturbed'
    BY <1>5, NothingPlanned DEF Undisturbed
  <2> QED
    BY <1>2, <1>3, <1>4, <2>1 DEF Inv
<1>6. CASE book' = book /\ run.todo = {}
  <2>1. /\ Equity(Now)' = Equity(Now) /\ Undisturbed' = Undisturbed /\ LimitsHold' = LimitsHold
    BY <1>1, <1>6 DEF Now, Equity, Value, Undisturbed, LimitsHold
  <2>2. SnapshotInv => SnapshotInv'
    BY <1>1, NothingPlanned DEF SnapshotInv
  <2>3. ExactInv => ExactInv'
    BY <1>1, <1>6, <2>1, NothingPlanned DEF ExactInv, Done
  <2> QED
    BY <1>2, <1>3, <1>4, <1>6, <2>1, <2>2, <2>3 DEF Inv
<1> QED
  BY <1>1, <1>5, <1>6

\* Planning: from here on the orders are those of one snapshot.
LEMMA Planning == ASSUME Inv, NEW missing \in SUBSET Symbols, PlanOrders(missing) PROVE Inv'
<1> DEFINE quotes == [s \in Symbols |-> IF s \in missing THEN 0 ELSE price[s]]
           orders == Orders(run.targets, run.snap, quotes, run.markets)
<1>1. /\ run.pc = "plan" /\ run' = [run EXCEPT !.pc = "trade", !.todo = orders]
      /\ book' = [book EXCEPT !.planned = TRUE, !.exact = (missing = {} /\ run.snap = Now),
                              !.snap = run.snap, !.targets = run.targets,
                              !.orders = orders, !.markets = run.markets]
      /\ UNCHANGED <<price, cash, held, open, cycles>>
  BY DEF PlanOrders, account
<1>2. /\ run \in Runs /\ book \in Books /\ price \in PriceLists
      /\ run.targets \in TargetLists /\ run.snap \in Snapshots /\ run.markets \in SUBSET Countries
  BY DEF Inv, StateInv, Runs
<1>3. price \in Amounts /\ \A s \in Symbols : price[s] \in Prices[s] /\ price[s] \in Nat \ {0}
  BY <1>2, PriceFacts
<1>4. quotes \in Quotes
  BY <1>3 DEF Quotes
<1>5. /\ orders \in SUBSET OrderSet
      /\ \A o \in orders : o.quote = quotes[o.sym] /\ o.quote \in Prices[o.sym]
      /\ \A o, p \in orders : o.sym = p.sym => o = p
  <2> HIDE DEF quotes
  <2> QED
    BY <1>2, <1>4, OrderFacts
<1>6. \A o \in orders : o.quote = price[o.sym]
  <2> SUFFICES ASSUME NEW o \in orders PROVE o.quote = price[o.sym]
    OBVIOUS
  <2> HIDE DEF orders
  <2>1. o.sym \in Symbols /\ o.quote # 0 /\ o.quote = quotes[o.sym]
    BY <1>5 DEF OrderSet
  <2> QED
    BY <2>1
<1>7. missing = {} => quotes = price
  BY <1>3 DEF Amounts
<1>8. Funded(run.targets, run.snap, orders)
  <2>1. SumFunction(run.targets.parts) <= run.targets.of
    BY DEF Inv, TargetsFit
  <2> HIDE DEF quotes
  <2> QED
    BY <1>2, <1>4, <2>1, PlanFunded
<1> HIDE DEF orders, quotes
<1>9. /\ run' \in Runs /\ run'.pc = "trade" /\ run'.todo = orders /\ run'.snap = run.snap
      /\ run'.targets = run.targets
  BY <1>1, <1>2, <1>5 DEF Runs
<1>10. /\ book' \in Books /\ book'.exact = (missing = {} /\ run.snap = Now)
       /\ book'.snap = run.snap
       /\ book'.targets = run.targets /\ book'.orders = orders /\ book'.markets = run.markets
       /\ book'.steady = book.steady /\ book'.alone = book.alone
       /\ book'.opening = book.opening /\ book'.bought = book.bought
  <2>1. (missing = {} /\ run.snap = Now) \in BOOLEAN
    OBVIOUS
  <2> QED
    BY <1>1, <1>2, <1>5, <2>1 DEF Books
<1>11. StateInv'
  BY <1>1, <1>9, <1>10 DEF Inv, StateInv
<1>12. OrdersInv'
  BY <1>5, <1>9, <1>10 DEF Inv, OrdersInv
<1>13. SellsHeld' /\ TargetsFit' /\ BuysFunded'
  BY <1>1, <1>8, <1>9, <1>10 DEF Inv, SellsHeld, TargetsFit, BuysFunded
<1>14. /\ Now' = Now /\ Equity(Now)' = Equity(Now) /\ Undisturbed' = Undisturbed
       /\ LimitsHold' = LimitsHold
  BY <1>1, <1>10 DEF Now, Equity, Value, Undisturbed, LimitsHold
<1>15. SnapshotInv => SnapshotInv'
  <2> SUFFICES ASSUME SnapshotInv PROVE SnapshotInv'
    OBVIOUS
  <2>1. open = {} /\ Known /\ run.snap.cash <= cash /\ Equity(Now) <= book.opening
    BY <1>1 DEF SnapshotInv
  <2>2. Equity(Now)' <= book'.opening
    BY <1>10, <1>14, <2>1
  <2>3. \A o \in run'.todo : o.quote = price'[o.sym]
    BY <1>1, <1>6, <1>9
  <2> QED
    BY <1>1, <1>9, <2>1, <2>2, <2>3 DEF SnapshotInv, Known
<1>16. book'.exact => ExactInv'
  <2> SUFFICES ASSUME run.snap = Now, missing = {} PROVE ExactInv'
    BY <1>10
  <2>1. book'.snap = Now /\ Now.px = price /\ Now.pos = held
    BY <1>10 DEF Now
  <2>2. Equity(Now)' = Equity(book'.snap)
    BY <1>14, <2>1
  <2>3. book'.orders = Orders(book'.targets, book'.snap, price', book'.markets)
    BY <1>1, <1>7, <1>10 DEF orders
  <2>4. Done' = {}
    BY <1>9, <1>10 DEF Done
  <2> QED
    BY <1>1, <2>1, <2>2, <2>3, <2>4 DEF ExactInv
<1> QED
  BY <1>11, <1>12, <1>13, <1>14, <1>15, <1>16 DEF Inv

\* What run and book are while an order is dealt with.
LEMMA TodoFacts ==
    ASSUME Inv, NEW o \in run.todo
    PROVE  /\ o \in OrderSet /\ o.sym \in Symbols /\ o.side \in Sides
           /\ o.qty \in Nat \ {0} /\ o.quote \in Nat \ {0} /\ o \in book.orders
           /\ run \in Runs /\ book \in Books /\ run.snap \in Snapshots
           /\ price \in PriceLists /\ cash \in Nat /\ held \in Amounts
           /\ open \in SUBSET OpenSet /\ IsFiniteSet(open)
<1>1. run \in Runs /\ book \in Books /\ run.todo \subseteq book.orders
  BY DEF Inv, StateInv, OrdersInv
<1>2. o \in OrderSet /\ run.snap \in Snapshots
  BY <1>1 DEF Runs
<1> QED
  BY <1>1, <1>2 DEF OrderSet, Inv, StateInv

LEMMA Dropping == ASSUME Inv, NEW o \in run.todo, DropOrder(o) PROVE Inv'
<1>1. /\ run' = [run EXCEPT !.todo = @ \ {o}] /\ book' = [book EXCEPT !.exact = FALSE]
      /\ run.pc = "trade" /\ UNCHANGED <<price, cash, held, open, cycles>>
  BY DEF DropOrder, account
<1>2. run \in Runs /\ book \in Books
  BY TodoFacts
<1>3. /\ run' \in Runs /\ run'.pc = "trade" /\ run'.todo = run.todo \ {o}
      /\ run'.snap = run.snap /\ run'.targets = run.targets
  BY <1>1, <1>2 DEF Runs
<1>4. /\ book' \in Books /\ book'.exact = FALSE /\ book'.snap = book.snap
      /\ book'.targets = book.targets /\ book'.orders = book.orders
      /\ book'.steady = book.steady /\ book'.alone = book.alone
      /\ book'.opening = book.opening /\ book'.bought = book.bought
  BY <1>1, <1>2 DEF Books
<1>5. StateInv'
  BY <1>1, <1>3, <1>4 DEF Inv, StateInv
<1>6. OrdersInv' /\ SellsHeld' /\ TargetsFit' /\ BuysFunded'
  BY <1>1, <1>3, <1>4 DEF Inv, OrdersInv, SellsHeld, TargetsFit, BuysFunded
<1>7. /\ Now' = Now /\ Equity(Now)' = Equity(Now) /\ Undisturbed' = Undisturbed
      /\ LimitsHold' = LimitsHold
  BY <1>1, <1>4 DEF Now, Equity, Value, Undisturbed, LimitsHold
<1>8. SnapshotInv => SnapshotInv'
  BY <1>1, <1>3, <1>4, <1>7 DEF SnapshotInv, Known
<1> QED
  BY <1>4, <1>5, <1>6, <1>7, <1>8 DEF Inv

\* What is submitted is no more than the order, nor a sell more than is sellable.
LEMMA SubmittedFacts ==
    ASSUME Inv, NEW o \in run.todo, Submitted(o) > 0
    PROVE  /\ Submitted(o) \in Nat \ {0} /\ Submitted(o) <= o.qty
           /\ Promised(open, o.sym) \in Nat /\ held[o.sym] \in Nat
           /\ o.side = "SELL" => Submitted(o) <= held[o.sym] - Promised(open, o.sym)
<1> DEFINE s == o.sym
           p == Promised(open, s)
           have == held[s]
           can == Sellable(s)
<1>1. s \in Symbols /\ o.qty \in Nat \ {0} /\ have \in Nat
  BY TodoFacts DEF Amounts
<1>2. p \in Nat
  BY TodoFacts, PromisedFacts
<1>3. p <= have
  BY <1>1 DEF Inv, SellsHeld
<1>4. can = have - p /\ can \in Nat
  BY <1>1, <1>2, <1>3 DEF Sellable
<1>5. Submitted(o) = IF o.side = "SELL" /\ o.qty > can THEN Lots(s, can) ELSE o.qty
  BY DEF Submitted
<1> HIDE DEF s, p, have, can
<1>6. Lots(s, can) \in Nat /\ Lots(s, can) <= can
  BY <1>1, <1>4, LotsFacts
<1> QED
  BY <1>1, <1>2, <1>4, <1>5, <1>6 DEF s, p, have

LEMMA Leaving == ASSUME Inv, NEW o \in run.todo, LeaveOpen(o) PROVE Inv'
<1> DEFINE new == [cycle |-> cycles, sym |-> o.sym, side |-> o.side, qty |-> Submitted(o)]
           bought == IF o.side = "BUY" THEN book.bought \cup {o.sym} ELSE book.bought
<1>1. /\ run' = [run EXCEPT !.todo = @ \ {o}]
      /\ book' = [book EXCEPT !.exact = FALSE, !.alone = FALSE, !.bought = bought]
      /\ open' = open \cup {new} /\ Submitted(o) > 0
      /\ UNCHANGED <<price, cash, held, cycles>>
  BY DEF LeaveOpen
<1>2. /\ run \in Runs /\ book \in Books /\ o.sym \in Symbols /\ o.side \in Sides
      /\ open \in SUBSET OpenSet /\ IsFiniteSet(open) /\ held \in Amounts
  BY TodoFacts
<1>3. /\ Submitted(o) \in Nat \ {0} /\ Promised(open, o.sym) \in Nat /\ held[o.sym] \in Nat
      /\ o.side = "SELL" => Submitted(o) <= held[o.sym] - Promised(open, o.sym)
  BY <1>1, SubmittedFacts
<1>4. new \in OpenSet
  <2>1. cycles \in Nat
    BY Constants DEF Inv, StateInv
  <2> QED
    BY <1>2, <1>3, <2>1 DEF OpenSet
<1>5. run' \in Runs /\ run'.pc = run.pc /\ run'.todo = run.todo \ {o} /\ run'.snap = run.snap
      /\ run'.targets = run.targets
  BY <1>1, <1>2 DEF Runs
<1>6. bought \subseteq Symbols
  BY <1>2 DEF Books
<1> HIDE DEF new, bought
<1>7. /\ book' \in Books /\ book'.alone = FALSE /\ book'.snap = book.snap
      /\ book'.targets = book.targets /\ book'.orders = book.orders
  BY <1>1, <1>2, <1>6 DEF Books
<1>8. open' \in SUBSET OpenSet /\ IsFiniteSet(open')
  BY <1>1, <1>2, <1>4, FS_AddElement
<1>9. StateInv'
  BY <1>1, <1>5, <1>7, <1>8 DEF Inv, StateInv
<1>10. OrdersInv' /\ TargetsFit' /\ BuysFunded'
  <2>1. run.todo # {}
    OBVIOUS
  <2>2. run.pc # "idle"
    BY <2>1 DEF Inv, OrdersInv
  <2> QED
    BY <1>5, <1>7, <2>2 DEF Inv, OrdersInv, TargetsFit, BuysFunded
<1>11. SellsHeld'
  <2> SUFFICES ASSUME NEW s \in Symbols PROVE Promised(open', s) <= held[s]
    BY <1>1 DEF SellsHeld
  <2> DEFINE n == IF new.sym = s /\ new.side = "SELL" THEN new.qty ELSE 0
  <2>1. Promised(open', s) <= Promised(open, s) + n
    BY <1>1, <1>2, <1>4, PromisedMore
  <2>2. Promised(open, s) \in Nat /\ Promised(open', s) \in Nat
    BY <1>2, <1>8, PromisedFacts
  <2>3. Promised(open, s) <= held[s] /\ held[s] \in Nat
    BY <1>2 DEF Inv, SellsHeld, Amounts
  <2>4. new.sym = o.sym /\ new.side = o.side /\ new.qty = Submitted(o)
    BY DEF new
  <2>5. n \in Nat /\ Promised(open, s) + n <= held[s]
    <3>1. CASE o.sym = s /\ o.side = "SELL"
      BY <1>3, <2>2, <2>3, <2>4, <3>1
    <3>2. CASE ~(o.sym = s /\ o.side = "SELL")
      BY <2>2, <2>3, <2>4, <3>2
    <3> QED
      BY <3>1, <3>2
  <2> HIDE DEF n
  <2> QED
    BY <2>1, <2>2, <2>3, <2>5
<1>12. ~Undisturbed'
  BY <1>7 DEF Undisturbed
<1> QED
  BY <1>9, <1>10, <1>11, <1>12 DEF Inv

\* Toss fills an open order: the cycle was not alone.
LEMMA FillingOpen ==
    ASSUME Inv, NEW o \in open, NEW n \in Nat, NEW fee \in Nat, FillOpen(o, n, fee)
    PROVE  Inv'
<1> DEFINE less == [o EXCEPT !.qty = @ - n]
<1>1. /\ n <= o.qty /\ Settle(o.sym, o.side, n, fee)
      /\ UNCHANGED <<price, run, cycles, book>>
      /\ \/ open' = open \ {o}
         \/ n \in 1..(o.qty - 1) /\ open' = (open \ {o}) \cup {less}
  BY DEF FillOpen
<1>2. /\ open \in SUBSET OpenSet /\ IsFiniteSet(open) /\ held \in Amounts
      /\ price \in PriceLists /\ cash \in Nat
  BY DEF Inv, StateInv
<1>3. o \in OpenSet /\ o.sym \in Symbols /\ o.side \in Sides /\ o.qty \in Nat \ {0}
  BY <1>2 DEF OpenSet
<1>4. open \ {o} \in SUBSET OpenSet /\ IsFiniteSet(open \ {o})
  BY <1>2, FS_Subset
<1>5. n \in 1..(o.qty - 1) => /\ less \in OpenSet /\ less.qty = o.qty - n
                              /\ less.sym = o.sym /\ less.side = o.side
  BY <1>3 DEF OpenSet
<1> HIDE DEF less
<1>6. ASSUME NEW s \in Symbols
      PROVE  /\ Promised(open, s) \in Nat /\ Promised(open \ {o}, s) \in Nat
             /\ Promised(open \ {o}, s)
                = Promised(open, s) - (IF o.sym = s /\ o.side = "SELL" THEN o.qty ELSE 0)
             /\ Promised(open, s) <= held[s] /\ held[s] \in Nat
  <2>1. Promised(open, s) \in Nat /\ Promised(open \ {o}, s) \in Nat
    BY <1>2, <1>4, PromisedFacts
  <2>2. Promised(open, s) <= held[s] /\ held[s] \in Nat
    BY <1>2 DEF Inv, SellsHeld, Amounts
  <2> QED
    BY <1>2, <2>1, <2>2, PromisedLess
<1>7. o.side = "SELL" => n <= held[o.sym]
  BY <1>1, <1>3, <1>6
<1>8. /\ cash' \in Nat /\ held' \in Amounts
      /\ held'[o.sym] = held[o.sym] + (IF o.side = "BUY" THEN n ELSE -n)
      /\ \A t \in Symbols : t # o.sym => held'[t] = held[t]
  BY <1>1, <1>2, <1>3, <1>7, Settling
<1>9. open' \in SUBSET OpenSet /\ IsFiniteSet(open')
  <2>1. CASE open' = open \ {o}
    BY <1>4, <2>1
  <2>2. CASE n \in 1..(o.qty - 1) /\ open' = (open \ {o}) \cup {less}
    <3>1. less \in OpenSet
      BY <1>5, <2>2
    <3>2. IsFiniteSet((open \ {o}) \cup {less})
      BY <1>4, FS_AddElement
    <3> QED
      BY <1>4, <2>2, <3>1, <3>2
  <2> QED
    BY <1>1, <2>1, <2>2
<1>10. StateInv'
  BY <1>1, <1>8, <1>9 DEF Inv, StateInv
<1>11. OrdersInv' /\ TargetsFit' /\ BuysFunded'
  BY <1>1 DEF Inv, OrdersInv, TargetsFit, BuysFunded
<1>12. SellsHeld'
  <2> SUFFICES ASSUME NEW s \in Symbols PROVE Promised(open', s) <= held'[s]
    BY DEF SellsHeld
  <2> DEFINE sold == IF o.sym = s /\ o.side = "SELL" THEN n ELSE 0
  <2>1. Promised(open', s) \in Nat /\ held'[s] \in Nat
    BY <1>8, <1>9, PromisedFacts DEF Amounts
  <2>2. Promised(open', s) <= Promised(open, s) - sold
    <3>1. CASE open' = open \ {o}
      <4>1. n <= o.qty
        BY <1>1
      <4>2. Promised(open', s) = Promised(open \ {o}, s)
        BY <3>1
      <4> DEFINE a == Promised(open, s)
                 b == Promised(open \ {o}, s)
                 q == IF o.sym = s /\ o.side = "SELL" THEN o.qty ELSE 0
      <4>3. a \in Nat /\ b = a - q
        BY <1>6
      <4>4. sold \in Nat /\ q \in Nat /\ sold <= q
        BY <1>3, <4>1
      <4> HIDE DEF a, b, q, sold
      <4>5. b <= a - sold
        BY <4>3, <4>4
      <4> QED
        BY <4>2, <4>5 DEF a, b
    <3>2. CASE n \in 1..(o.qty - 1) /\ open' = (open \ {o}) \cup {less}
      <4>1. Promised(open', s) <= Promised(open \ {o}, s)
                                  + (IF less.sym = s /\ less.side = "SELL" THEN less.qty ELSE 0)
        BY <1>4, <1>5, <3>2, PromisedMore
      <4> QED
        BY <1>3, <1>5, <1>6, <2>1, <3>2, <4>1
    <3> QED
      BY <1>1, <3>1, <3>2
  <2>3. held'[s] >= held[s] - sold
    BY <1>3, <1>6, <1>8 DEF Sides
  <2> QED
    BY <1>6, <2>1, <2>2, <2>3
<1>13. ~Undisturbed'
  <2>1. open # {}
    OBVIOUS
  <2> QED
    BY <1>1, <2>1 DEF Inv, Undisturbed, SnapshotInv
<1> QED
  BY <1>10, <1>11, <1>12, <1>13 DEF Inv

--------------------------------------------------------------------------------
\* A buy that passed the gate on the present account, filled up to its quantity,
\* leaves the symbol and the account within their limits.
LEMMA BuyWithinLimits ==
    ASSUME NEW o \in OrderSet, price \in PriceLists, cash \in Nat, held \in Amounts,
           NEW snap \in Snapshots, snap.pos = held, snap.px = price, snap.cash <= cash,
           WithinLimits(o, snap), o.quote = price[o.sym],
           NEW n \in Nat, n <= o.qty, NEW opening \in Nat, Equity(Now) <= opening
    PROVE  /\ Whole * (held[o.sym] + n) * price[o.sym] <= Limit[o.sym] * opening
           /\ Whole * (Value(held, price) + n * price[o.sym]) <= Gross * opening
<1> DEFINE s == o.sym
           p == price[s]
           h == held[s]
           V == Value(held, price)
           E == Equity(snap)
           q == o.qty
           L == Limit[s]
<1>0. E \in Nat /\ E <= opening
  <2>1. snap.cash \in Nat /\ V \in Nat /\ E = snap.cash + V
    BY EquityNat
  <2>2. Equity(Now) = cash + V
    BY NowFacts
  <2> HIDE DEF E, V
  <2> QED
    BY <2>1, <2>2
<1>1. /\ s \in Symbols /\ q \in Nat /\ p \in Nat /\ h \in Nat /\ V \in Nat /\ E \in Nat
      /\ L \in Nat /\ Gross \in Nat /\ Whole \in Nat
  <2>1. s \in Symbols /\ q \in Nat
    BY DEF OrderSet
  <2> QED
    BY <1>0, <2>1, NowFacts, Constants DEF Amounts
<1>2. Whole * (h * p + p * q) <= L * E /\ Whole * (V + p * q) <= Gross * E
  BY DEF WithinLimits
<1> HIDE DEF s, p, h, V, E, q, L
<1>3. n * p <= p * q /\ n * p \in Nat /\ p * q \in Nat /\ n * p = p * n
  <2>1. p * n <= p * q
    BY <1>1, MulGrows, q \in Int, n <= q DEF q
  <2>2. n * p = p * n /\ p * n \in Nat /\ p * q \in Nat
    BY <1>1, MulNat, SMT
  <2> QED
    BY <2>1, <2>2
<1>4. h * p \in Nat /\ (h + n) * p = h * p + n * p
  <2>1. \A x, y, z \in Int : (x + y) * z = x * z + y * z
    BY SMT
  <2> QED
    BY <1>1, <2>1, MulNat
<1>5. L * E <= L * opening /\ Gross * E <= Gross * opening
  BY <1>0, <1>1, MulGrows
<1>6. (h + n) * p <= h * p + p * q /\ V + n * p <= V + p * q
  BY <1>1, <1>3, <1>4
<1>7. /\ Whole * ((h + n) * p) <= Whole * (h * p + p * q)
      /\ Whole * (V + n * p) <= Whole * (V + p * q)
  <2>1. (h + n) * p \in Int /\ h * p + p * q \in Int /\ V + n * p \in Int /\ V + p * q \in Int
    BY <1>1, <1>3, <1>4
  <2> QED
    BY <1>1, <1>6, <2>1, MulGrows
<1>8. Whole * (h + n) * p = Whole * ((h + n) * p)
  <2>1. \A x, y, z \in Int : x * y * z = x * (y * z)
    BY SMT
  <2> QED
    BY <1>1, <2>1
<1>9. /\ Whole * ((h + n) * p) \in Int /\ Whole * (h * p + p * q) \in Int
      /\ Whole * (V + n * p) \in Int /\ Whole * (V + p * q) \in Int
      /\ L * E \in Int /\ L * opening \in Int /\ Gross * E \in Int /\ Gross * opening \in Int
  <2>1. \A x, y \in Int : x * y \in Int
    BY SMT
  <2>2. (h + n) * p \in Int /\ h * p + p * q \in Int /\ V + n * p \in Int /\ V + p * q \in Int
    BY <1>1, <1>3, <1>4
  <2> QED
    BY <1>1, <2>1, <2>2
<1> DEFINE a == Whole * ((h + n) * p)
           b == Whole * (h * p + p * q)
           c == Whole * (V + n * p)
           d == Whole * (V + p * q)
           le == L * E
           lo == L * opening
           ge == Gross * E
           go == Gross * opening
<1>10. /\ a \in Int /\ b \in Int /\ c \in Int /\ d \in Int
       /\ le \in Int /\ lo \in Int /\ ge \in Int /\ go \in Int
       /\ a <= b /\ b <= le /\ le <= lo /\ c <= d /\ d <= ge /\ ge <= go
  BY <1>2, <1>5, <1>7, <1>9
<1> HIDE DEF a, b, c, d, le, lo, ge, go
<1>11. a <= lo /\ c <= go
  BY <1>10
<1> QED
  BY <1>8, <1>11 DEF a, c, lo, go, s, p, h, V, L

\* Selling lessens what is held.
LEMMA LessWithinLimits ==
    ASSUME NEW x \in Nat, NEW y \in Nat, y <= x, NEW p \in Nat, NEW b \in Int,
           Whole * x * p <= b
    PROVE  Whole * y * p <= b
<1>1. Whole \in Nat
  BY Constants
<1>2. \A u, v, w \in Int : u * v * w = (u * w) * v /\ (u * w) * v \in Int
  BY SMT
<1>3. Whole * p \in Nat
  BY <1>1, MulNat
<1> DEFINE c == Whole * p
<1>4. Whole * x * p = c * x /\ Whole * y * p = c * y /\ c * x \in Int /\ c * y \in Int
  BY <1>1, <1>2
<1>5. c * y <= c * x
  BY <1>3, MulGrows
<1> HIDE DEF c
<1> QED
  BY <1>4, <1>5

\* The loop fills an order.
LEMMA Filling ==
    ASSUME Inv, NEW o \in run.todo, NEW n \in Nat, NEW fee \in Nat, FillOrder(o, n, fee)
    PROVE  Inv'
<1> DEFINE pc == IF n > 0 THEN "refresh" ELSE "trade"
           exact == book.exact /\ n = o.qty /\ fee = 0
           bought == IF o.side = "BUY" THEN book.bought \cup {o.sym} ELSE book.bought
           s == o.sym
           change == IF o.side = "BUY" THEN n ELSE -n
<1>1. /\ run' = [run EXCEPT !.pc = pc, !.todo = @ \ {o}]
      /\ book' = [book EXCEPT !.exact = exact, !.bought = bought]
      /\ run.pc = "trade" /\ Allowed(o, run.snap)
      /\ Submitted(o) > 0 /\ n <= Submitted(o) /\ Settle(s, o.side, n, fee)
      /\ UNCHANGED <<price, open, cycles>>
  BY DEF FillOrder, Filled
<1>2. /\ o \in OrderSet /\ s \in Symbols /\ o.side \in Sides /\ o.qty \in Nat \ {0}
      /\ run \in Runs /\ book \in Books /\ o \in book.orders
      /\ price \in PriceLists /\ cash \in Nat /\ held \in Amounts
      /\ open \in SUBSET OpenSet /\ IsFiniteSet(open)
  BY TodoFacts
<1>3. /\ Submitted(o) \in Nat /\ Submitted(o) <= o.qty
      /\ Promised(open, s) \in Nat /\ held[s] \in Nat
      /\ o.side = "SELL" => Submitted(o) <= held[s] - Promised(open, s)
  BY <1>1, SubmittedFacts
<1>4. n <= o.qty /\ (o.side = "SELL" => n <= held[s] - Promised(open, s) /\ n <= held[s])
  BY <1>1, <1>2, <1>3
<1>5. /\ cash' \in Nat /\ held' \in Amounts
      /\ held'[s] = held[s] + change
      /\ \A t \in Symbols : t # s => held'[t] = held[t]
      /\ Value(held, price)' = Value(held, price) + change * price[s]
      /\ Equity(Now)' = Equity(Now) - fee
      /\ n = 0 => cash' = cash /\ held' = held
  BY <1>1, <1>2, <1>4, Settling
<1>6. bought \subseteq Symbols /\ exact \in BOOLEAN
  BY <1>2 DEF Books
<1>7. /\ run' \in Runs /\ run'.pc = pc /\ run'.todo = run.todo \ {o} /\ run'.snap = run.snap
      /\ run'.targets = run.targets
  BY <1>1, <1>2 DEF Runs
<1>8. /\ book' \in Books /\ book'.exact = exact /\ book'.bought = bought
      /\ book'.snap = book.snap /\ book'.targets = book.targets /\ book'.orders = book.orders
      /\ book'.markets = book.markets /\ book'.opening = book.opening
      /\ book'.steady = book.steady /\ book'.alone = book.alone
  <2> HIDE DEF exact, bought
  <2> QED
    BY <1>1, <1>2, <1>6 DEF Books
<1>9. StateInv'
  BY <1>1, <1>5, <1>7, <1>8 DEF Inv, StateInv
<1>10. OrdersInv' /\ TargetsFit' /\ BuysFunded'
  BY <1>7, <1>8 DEF Inv, OrdersInv, TargetsFit, BuysFunded
<1>11. SellsHeld'
  <2> SUFFICES ASSUME NEW t \in Symbols PROVE Promised(open, t) <= held'[t]
    BY <1>1 DEF SellsHeld
  <2>1. Promised(open, t) \in Nat
    BY <1>2, PromisedFacts
  <2>2. Promised(open, t) <= held[t] /\ held[t] \in Nat
    BY <1>2 DEF Inv, SellsHeld, Amounts
  <2>3. CASE t # s
    BY <1>5, <2>2, <2>3
  <2>4. CASE t = s /\ o.side = "BUY"
    BY <1>5, <2>1, <2>2, <2>4
  <2>5. CASE t = s /\ o.side = "SELL"
    <3>1. held'[t] = held[t] - n
      BY <1>3, <1>5, <2>5
    <3> QED
      BY <1>4, <2>1, <2>2, <2>5, <3>1
  <2> QED
    BY <1>2, <2>3, <2>4, <2>5 DEF Sides
<1>12. Undisturbed' = Undisturbed
  BY <1>8 DEF Undisturbed
<1>13. Equity(Now) \in Nat /\ Value(held, price) \in Nat /\ price[s] \in Nat
  BY <1>2, NowFacts DEF Amounts
<1>14. ASSUME Undisturbed
       PROVE  /\ open = {} /\ Equity(Now) <= book.opening
              /\ run.snap.pos = held /\ run.snap.px = price /\ run.snap.cash <= cash
              /\ \A x \in run.todo : x.quote = price[x.sym]
              /\ LimitsHold
  BY <1>1, <1>14 DEF Inv, SnapshotInv, Known
<1>15. Undisturbed => SnapshotInv'
  <2> SUFFICES ASSUME Undisturbed PROVE SnapshotInv'
    OBVIOUS
  <2>1. Equity(Now)' <= book'.opening
    <3>1. book.opening \in Nat
      BY <1>2 DEF Books
    <3> QED
      BY <1>5, <1>8, <1>13, <1>14, <3>1
  <2>2. open' = {} /\ \A x \in run'.todo : x.quote = price'[x.sym]
    BY <1>1, <1>7, <1>14
  <2>3. n = 0 => Known' /\ run'.snap.cash <= cash'
    BY <1>1, <1>5, <1>7, <1>14 DEF Known
  <2>4. run'.pc \in {"refresh", "trade"} /\ (run'.pc = "trade" => n = 0)
    BY <1>2, <1>7
  <2> QED
    BY <2>1, <2>2, <2>3, <2>4 DEF SnapshotInv
<1>16. Undisturbed => LimitsHold'
  <2> SUFFICES ASSUME Undisturbed PROVE LimitsHold'
    OBVIOUS
  <2> DEFINE opening == book.opening
             V == Value(held, price)
  <2>1. /\ \A t \in book.bought : Whole * held[t] * price[t] <= Limit[t] * opening
        /\ book.bought # {} => Whole * V <= Gross * opening
    BY <1>14 DEF LimitsHold, Undisturbed
  <2>2. opening \in Nat /\ book.bought \subseteq Symbols
    BY <1>2 DEF Books
  <2>3. price' = price /\ book'.opening = opening
    BY <1>1, <1>8
  <2>4. CASE o.side = "BUY"
    <3>1. WithinLimits(o, run.snap) /\ run.snap \in Snapshots /\ o.quote = price[s]
      BY <1>1, <1>14, <2>4, TodoFacts DEF Allowed
    <3>2. /\ Whole * (held[s] + n) * price[s] <= Limit[s] * opening
          /\ Whole * (V + n * price[s]) <= Gross * opening
      BY <1>2, <1>4, <1>14, <2>2, <3>1, BuyWithinLimits
    <3>3. held'[s] = held[s] + n /\ Value(held, price)' = V + n * price[s]
      BY <1>5, <2>4
    <3>4. \A t \in bought : Whole * held'[t] * price[t] <= Limit[t] * opening
      <4> TAKE t \in bought
      <4>1. CASE t = s
        BY <3>2, <3>3, <4>1
      <4>2. CASE t # s
        <5>1. t \in book.bought /\ held'[t] = held[t]
          BY <1>5, <1>6, <4>2
        <5> QED
          BY <2>1, <5>1
      <4> QED
        BY <4>1, <4>2
    <3> QED
      BY <1>8, <2>3, <3>2, <3>3, <3>4 DEF LimitsHold
  <2>5. CASE o.side = "SELL"
    <3>1. bought = book.bought /\ held'[s] = held[s] - n /\ n <= held[s]
      BY <1>3, <1>4, <1>5, <2>5
    <3>2. \A t \in bought : Whole * held'[t] * price[t] <= Limit[t] * opening
      <4> TAKE t \in bought
      <4>1. t \in Symbols /\ Whole * held[t] * price[t] <= Limit[t] * opening
        BY <2>1, <2>2, <3>1
      <4>2. held'[t] \in Nat /\ held[t] \in Nat /\ held'[t] <= held[t]
        BY <1>2, <1>3, <1>5, <3>1, <4>1 DEF Amounts
      <4>3. price[t] \in Nat
        BY <1>2, <4>1, NowFacts DEF Amounts
      <4>4. Limit[t] * opening \in Int
        <5>1. Limit[t] \in Nat
          BY <4>1, Constants
        <5> QED
          BY <2>2, <5>1, MulNat
      <4> QED
        BY <4>1, <4>2, <4>3, <4>4, LessWithinLimits
    <3>3. bought # {} => Whole * Value(held, price)' <= Gross * opening
      <4> DEFINE W == Value(held, price)'
                 m == n * price[s]
                 a == Whole * W
                 b == Whole * V
                 g == Gross * opening
      <4>1. m \in Nat
        BY <1>13, MulNat
      <4>2. W = V - m
        <5>1. \A x, y \in Int : (-x) * y = -(x * y)
          BY SMT
        <5>2. (-n) * price[s] = -m
          BY <1>13, <5>1
        <5>3. W = V + (-n) * price[s]
          BY <1>5, <2>5
        <5> HIDE DEF W, m, V
        <5> QED
          BY <1>13, <4>1, <5>2, <5>3 DEF V
      <4>3. W \in Int /\ W <= V /\ V \in Int
        <5> HIDE DEF W, m
        <5> QED
          BY <1>13, <4>1, <4>2
      <4>4. Whole \in Nat /\ Gross \in Nat
        BY Constants
      <4> HIDE DEF W, V, m
      <4>5. a <= b
        BY <4>3, <4>4, MulGrows
      <4>6. a \in Int /\ b \in Int /\ g \in Int
        BY <2>2, <4>3, <4>4, SMT
      <4>7. bought # {} => b <= g
        BY <2>1, <3>1
      <4> HIDE DEF a, b, g
      <4>8. bought # {} => a <= g
        BY <4>5, <4>6, <4>7
      <4> QED
        BY <4>8 DEF a, g, W
    <3> QED
      BY <1>8, <2>3, <3>2, <3>3 DEF LimitsHold
  <2> QED
    BY <1>2, <2>4, <2>5 DEF Sides
<1>17. Undisturbed /\ book'.exact => ExactInv'
  <2> SUFFICES ASSUME Undisturbed, exact PROVE ExactInv'
    BY <1>8
  <2>1. ExactInv /\ n = o.qty /\ fee = 0
    BY DEF Inv
  <2>2. Done' = Done \cup {o} /\ o \notin Done
    BY <1>2, <1>7, <1>8 DEF Done
  <2>3. \A x \in Done : x.sym # s /\ x.sym \in Symbols
    <3>1. \A x \in Done : x \in book.orders /\ x # o
      BY <2>2 DEF Done
    <3>2. \A x \in book.orders : x.sym \in Symbols
      BY <1>2 DEF Books, OrderSet
    <3> QED
      BY <1>2, <3>1, <3>2 DEF Inv, OrdersInv
  <2>4. Equity(Now)' = Equity(book'.snap)
    <3>1. Equity(Now)' = Equity(Now)
      BY <1>5, <1>13, <2>1
    <3> QED
      BY <1>8, <2>1, <3>1 DEF ExactInv
  <2>5. book'.snap.px = price' /\ book'.orders = Orders(book'.targets, book'.snap, price', book'.markets)
    BY <1>1, <1>8, <2>1 DEF ExactInv
  <2>6. held[s] = book.snap.pos[s]
    BY <1>2, <2>1, <2>3 DEF ExactInv
  <2>7. held'[s] = book'.snap.pos[s] + Change(o)
    BY <1>5, <1>8, <2>1, <2>6 DEF Change
  <2>8. \A x \in Done : held'[x.sym] = book'.snap.pos[x.sym] + Change(x)
    BY <1>5, <1>8, <2>1, <2>3 DEF ExactInv
  <2>9. \A t \in Symbols : (\A x \in Done' : x.sym # t) => held'[t] = book'.snap.pos[t]
    <3> SUFFICES ASSUME NEW t \in Symbols, \A x \in Done' : x.sym # t
                 PROVE  held'[t] = book'.snap.pos[t]
      OBVIOUS
    <3>1. t # s /\ \A x \in Done : x.sym # t
      BY <2>2
    <3> QED
      BY <1>5, <1>8, <2>1, <3>1 DEF ExactInv
  <2>10. \A x \in Done' : held'[x.sym] = book'.snap.pos[x.sym] + Change(x)
    BY <2>2, <2>7, <2>8
  <2> QED
    BY <2>4, <2>5, <2>9, <2>10 DEF ExactInv
<1> QED
  BY <1>9, <1>10, <1>11, <1>12, <1>15, <1>16, <1>17 DEF Inv

--------------------------------------------------------------------------------
LEMMA Keeps == Inv /\ [Next]_vars => Inv'
<1> SUFFICES ASSUME Inv, [Next]_vars PROVE Inv'
  OBVIOUS
<1>1. Fees \subseteq Nat
  BY Constants
<1>2. CASE \E s \in Symbols : \E px \in Prices[s] : MovePrice(s, px)
  BY <1>2, Moving
<1>3. CASE \E markets \in SUBSET Countries \ {{}} : StartCycle(markets)
  BY <1>3, Starting
<1>4. CASE ReadHoldings \/ \E lost \in Dollars : ReadCash(lost)
  <2>1. CASE \E lost \in Dollars : ReadCash(lost)
    <3> PICK lost \in Dollars : ReadCash(lost)
      BY <2>1
    <3>1. lost \in Nat
      BY Constants
    <3> QED
      BY <3>1, ReadingCash
  <2> QED
    BY <1>4, <2>1, ReadingHoldings
<1>5. CASE \E w \in UNION {Answers[n] : n \in 1..Sleeves} \cup {NoAnswer} : BlendSleeve(w)
  BY <1>5, Blending
<1>6. CASE \E missing \in SUBSET Symbols : PlanOrders(missing)
  BY <1>6, Planning
<1>7. CASE EndCycle \/ StopCycle
  BY <1>7, Ending
<1>8. CASE \E o \in run.todo : \/ DropOrder(o)
                               \/ \E n \in 0..o.qty, fee \in Fees : FillOrder(o, n, fee)
                               \/ LeaveOpen(o)
  <2> PICK o \in run.todo : \/ DropOrder(o)
                            \/ \E n \in 0..o.qty, fee \in Fees : FillOrder(o, n, fee)
                            \/ LeaveOpen(o)
    BY <1>8
  <2>1. CASE DropOrder(o)
    BY <2>1, Dropping
  <2>2. CASE \E n \in 0..o.qty, fee \in Fees : FillOrder(o, n, fee)
    <3> PICK n \in 0..o.qty, fee \in Fees : FillOrder(o, n, fee)
      BY <2>2
    <3>1. n \in Nat /\ fee \in Nat
      BY <1>1
    <3> QED
      BY <3>1, Filling
  <2>3. CASE LeaveOpen(o)
    BY <2>3, Leaving
  <2> QED
    BY <2>1, <2>2, <2>3
<1>9. CASE \E o \in open : \E n \in 0..o.qty, fee \in Fees : FillOpen(o, n, fee)
  <2> PICK o \in open : \E n \in 0..o.qty, fee \in Fees : FillOpen(o, n, fee)
    BY <1>9
  <2> PICK n \in 0..o.qty, fee \in Fees : FillOpen(o, n, fee)
    OBVIOUS
  <2>1. n \in Nat /\ fee \in Nat
    BY <1>1
  <2> QED
    BY <2>1, FillingOpen
<1>10. CASE UNCHANGED vars
  BY <1>10, Resting
<1> QED
  BY <1>2, <1>3, <1>4, <1>5, <1>6, <1>7, <1>8, <1>9, <1>10 DEF Next

LEMMA Invariance == Spec => []Inv
<1>1. Init => Inv
  BY Initially
<1>2. Inv /\ [Next]_vars => Inv'
  BY Keeps
<1> QED
  BY <1>1, <1>2, PTL DEF Spec

\* Types, and no account that owes shares or cash: an order is never of more
\* than there is, whatever is left open (live.py:134-144).
THEOREM RebalancingTyped == Spec => []TypeOK
<1>1. Inv => TypeOK
  <2> SUFFICES ASSUME Inv PROVE TypeOK
    OBVIOUS
  <2>1. /\ price \in PriceLists /\ cash \in Nat /\ held \in [Symbols -> Nat]
        /\ open \in SUBSET OpenSet /\ run \in Runs /\ book \in Books /\ cycles \in 0..MaxCycles
    BY DEF Inv, StateInv, Amounts
  <2>2. \A o \in open : o.sym \in Symbols /\ o.side \in {"BUY", "SELL"} /\ o.qty \in Nat \ {0}
    BY <2>1 DEF OpenSet, Sides
  <2>3. /\ run.pc \in {"idle", "cash", "blend", "plan", "trade", "refresh"}
        /\ run.markets \subseteq Countries /\ run.snap \in Snapshots
    BY <2>1 DEF Runs
  <2>4. run.snap.cash \in Nat /\ run.snap.pos \in [Symbols -> Nat]
    BY <2>3 DEF Snapshots, Amounts
  <2>5. \A o \in book.orders : o.sym \in Symbols /\ o.qty \in Nat \ {0}
    BY <2>1 DEF Books, OrderSet
  <2>6. /\ \A s \in Symbols : run.snap.px[s] \in Prices[s] \cup {0}
        /\ run.todo \subseteq book.orders
        /\ \A o \in book.orders : o.quote \in Prices[o.sym]
    BY DEF Inv, OrdersInv
  <2> QED
    BY <2>1, <2>2, <2>3, <2>4, <2>5, <2>6 DEF TypeOK
<1> QED
  BY <1>1, Invariance, PTL

\* While prices stay and nothing is left open, every buy of a cycle leaves its
\* symbol and the account within their limits (risk.py:182-204).
THEOREM BuysWithinLimits == Spec => []LimitsHold
<1>1. Inv => LimitsHold
  BY DEF Inv, Undisturbed, LimitsHold
<1> QED
  BY <1>1, Invariance, PTL

\* The buys of a plan come to no more than the cash and what its targets
\* release (portfolio.py:125-130, runner.py:288-292).
THEOREM PlansAreFunded == Spec => []BuysFunded
<1>1. Inv => BuysFunded
  BY DEF Inv
<1> QED
  BY <1>1, Invariance, PTL

\* A rebalance of the whole account, its dollars read, that was filled to the
\* letter leaves nothing to trade at the same prices and targets
\* (runner.py:288-304).
THEOREM RebalancingSettles == Spec => []NoChurn
<1>1. Inv => NoChurn
  <2> SUFFICES ASSUME Inv, run.pc = "idle", book.exact, book.steady, book.alone
               PROVE  Orders(book.targets, Now, price, book.markets) = {}
    BY DEF NoChurn
  <2>1. ExactInv /\ run.todo = {} /\ book \in Books
    BY DEF Inv, OrdersInv, StateInv, Undisturbed
  <2>2. /\ price \in PriceLists /\ Now \in Snapshots /\ Now.px = price /\ Now.pos = held
        /\ book.targets \in TargetLists /\ book.snap \in Snapshots
    BY <2>1, NowFacts DEF Inv, StateInv, Books
  <2>3. book.snap.px = price /\ Equity(Now) = Equity(book.snap)
    BY <2>1 DEF ExactInv
  <2> DEFINE T == Traded(book.targets, book.snap, price, book.markets)
             O == Orders(book.targets, book.snap, price, book.markets)
             d(s) == Drift(book.targets, book.snap, s)
             q(s) == Quantity(book.targets, book.snap, price[s], s)
  <2>4. Done = O
    BY <2>1 DEF ExactInv, Done
  <2>5. price \in Quotes
    BY <2>2, PriceFacts DEF Quotes, Amounts
  <2>6. /\ \A o \in O : o.sym \in T /\ o = OrderFor(book.targets, book.snap, price, o.sym)
        /\ \A s \in T : \E o \in O : o.sym = s
    BY <2>2, <2>5, OrderFacts
  <2>7. ASSUME NEW s \in Symbols, s \in T
        PROVE  held[s] = book.snap.pos[s] + (IF d(s) > 0 THEN q(s) ELSE -q(s))
    <3>1. PICK o \in O : o.sym = s
      BY <2>6, <2>7
    <3>2. held[s] = book.snap.pos[s] + Change(o)
      BY <2>1, <2>4, <3>1 DEF ExactInv
    <3>3. o = OrderFor(book.targets, book.snap, price, s)
      BY <2>6, <3>1
    <3>4. Change(o) = IF d(s) > 0 THEN q(s) ELSE -q(s)
      BY <3>3 DEF Change, OrderFor
    <3> QED
      BY <3>2, <3>4
  <2>8. ASSUME NEW s \in Symbols, s \notin T PROVE held[s] = book.snap.pos[s]
    BY <2>1, <2>4, <2>6, <2>8 DEF ExactInv
  <2>9. ASSUME NEW s \in Symbols PROVE s \notin Traded(book.targets, Now, price, book.markets)
    BY <2>2, <2>3, <2>7, <2>8, NothingTraded
  <2>10. Traded(book.targets, Now, price, book.markets) = {}
    BY <2>9 DEF Traded
  <2> QED
    BY <2>10 DEF Orders
<1> QED
  BY <1>1, Invariance, PTL

================================================================================
