--------------------------- MODULE RateLimiterProofs ---------------------------
(***************************************************************************)
(* For every set of threads, every rate and every burst: acquire never     *)
(* grants more in any window than a burst plus the safe rate times its     *)
(* length (WindowBound), and a thread that slept undisturbed finds a token *)
(* when it wakes (SleepSuffices).                                          *)
(***************************************************************************)
EXTENDS RateLimiter, TLAPS

--------------------------------------------------------------------------------
\* Facts about the arithmetic the bucket is built from.

\* Integer division keeps a natural number natural.
LEMMA SafeNat ==
    ASSUME NEW limit \in Nat
    PROVE  Safe(limit) \in Nat
<1>1. limit * SafetyNum \in Nat
  BY LimiterAssumption
<1>2. QED
  BY <1>1, LimiterAssumption DEF Safe

\* The refill rate is a natural number (and positive: MinRate is).
LEMMA RateNat ==
    ASSUME NEW limit \in Nat
    PROVE  Rate(limit) \in Nat
  BY SafeNat, LimiterAssumption DEF Rate, Max2

\* The burst is a natural number, at least one token.
LEMMA CapacityNat ==
    ASSUME NEW limit \in Nat
    PROVE  Capacity(limit) \in Nat
  BY LimiterAssumption DEF Capacity, Max2

\* The limit in force is one of the positive limits.
LEMMA LimitNat ==
    ASSUME NEW doc \in DocLimits, NEW server \in ServerLimits \cup {0}
    PROVE  Limit(doc, server) \in Nat
  BY LimiterAssumption DEF Limit, Min2

\* Multiplication by a natural number is monotone.
LEMMA MulMonotone ==
    ASSUME NEW a \in Nat, NEW b \in Nat, NEW r \in Nat, a <= b
    PROVE  r * a <= r * b
<1>1. (b - a) * r >= 0
  OBVIOUS
<1>2. QED
  BY <1>1

\* The refill at a moment: a natural number, below the burst, and at most
\* the tokens left plus the time since `updated` at the present rate.
LEMMA RefilledBounds ==
    ASSUME TypeOK
    PROVE  LET limit == Limit(docLimit, serverLimit)
           IN  /\ Refilled \in Nat
               /\ Refilled <= Capacity(limit)
               /\ Refilled <= tokens + Max2(now - updated, 0) * Rate(limit)
<1> DEFINE limit == Limit(docLimit, serverLimit)
<1> DEFINE lapse == Max2(now - updated, 0)
<1>1. limit \in Nat
  BY LimitNat DEF TypeOK
<1>2. Rate(limit) \in Nat /\ Capacity(limit) \in Nat
  BY <1>1, RateNat, CapacityNat
<1>3. lapse \in Nat
  BY DEF TypeOK, Max2
<1>4. lapse * Rate(limit) \in Nat
  BY <1>2, <1>3
<1>5. tokens \in Nat
  BY DEF TypeOK
<1>6. Refilled = Min2(Capacity(limit), tokens + lapse * Rate(limit))
  BY DEF Refilled
<1> HIDE DEF limit, lapse
<1>7. /\ Refilled \in Nat
      /\ Refilled <= Capacity(limit)
      /\ Refilled <= tokens + lapse * Rate(limit)
  BY <1>2, <1>4, <1>5, <1>6 DEF Min2
<1>8. QED
  BY <1>7 DEF limit, lapse

--------------------------------------------------------------------------------
\* The bucket, the threads and the history variables keep their types: in
\* particular acquire never leaves a negative amount in the bucket.
THEOREM TypeCorrect == Spec => []TypeOK
<1>1. Init => TypeOK
  <2> SUFFICES ASSUME Init PROVE TypeOK
    OBVIOUS
  <2>1. docLimit \in Nat
    BY LimiterAssumption DEF Init
  <2>2. Rate(docLimit) \in Nat /\ Capacity(docLimit) \in Nat
    BY <2>1, RateNat, CapacityNat
  <2>3. window \in [start : Nat, grants : Nat, rate : Nat, cap : Nat]
    BY <2>2 DEF Init, Window
  <2>4. thread \in [Threads -> [at : Places, until : Nat, retry : Nat]]
    BY DEF Init, Idle, At, Places
  <2>5. QED
    BY <2>1, <2>3, <2>4 DEF Init, TypeOK
<1>2. TypeOK /\ [Next]_vars => TypeOK'
  <2> SUFFICES ASSUME TypeOK, [Next]_vars PROVE TypeOK'
    OBVIOUS
  <2> DEFINE limit == Limit(docLimit, serverLimit)
  <2> DEFINE T == [at : Places, until : Nat, retry : Nat]
  <2> DEFINE W == [start : Nat, grants : Nat, rate : Nat, cap : Nat]
  <2>0. /\ limit \in Nat /\ Rate(limit) \in Nat \ {0} /\ Capacity(limit) \in Nat
        /\ Refilled \in Nat
    <3>1. limit \in Nat
      BY LimitNat DEF TypeOK
    <3>2. Rate(limit) # 0
      BY <3>1, SafeNat, LimiterAssumption DEF Rate, Max2
    <3>3. QED
      BY <3>1, <3>2, RateNat, CapacityNat, RefilledBounds
  <2>1. ASSUME NEW t \in Threads, Grant(t)
        PROVE  TypeOK'
    <3>1. Refilled - Unit \in Nat
      BY <2>0, <2>1, LimiterAssumption DEF Grant, Enough
    <3>2. thread' \in [Threads -> T]
      BY <2>1 DEF Grant, TypeOK, At, Places
    <3>3. window' \in W
      BY <2>1 DEF Grant, TypeOK
    <3>4. QED
      BY <2>1, <3>1, <3>2, <3>3 DEF Grant, TypeOK
  <2>2. ASSUME NEW t \in Threads, Wait(t)
        PROVE  TypeOK'
    <3>1. SleepFor(Unit - Refilled, Rate(limit)) \in Nat
      <4>1. Unit - Refilled \in Nat
        BY <2>0, <2>2, LimiterAssumption DEF Wait, Enough
      <4>2. (Unit - Refilled) + Rate(limit) - 1 \in Nat
        BY <2>0, <4>1
      <4>3. ((Unit - Refilled) + Rate(limit) - 1) \div Rate(limit) \in Nat
        BY <2>0, <4>2
      <4>4. QED
        BY <4>3 DEF SleepFor, Max2
    <3>2. now + SleepFor(Unit - Refilled, Rate(limit)) \in Nat
      BY <3>1 DEF TypeOK
    <3>3. thread' \in [Threads -> T]
      BY <2>2, <3>2 DEF Wait, TypeOK, At, Places
    <3>4. QED
      BY <2>0, <2>2, <3>3 DEF Wait, TypeOK
  <2>3. ASSUME NEW t \in Threads, NEW l \in ServerLimits \cup {0},
               NEW rejected \in BOOLEAN, NEW retry \in Nat,
               Respond(t, l, rejected, retry)
        PROVE  TypeOK'
    <3>1. thread' \in [Threads -> T]
      BY <2>3 DEF Respond, TypeOK, At, Idle, Places
    <3>2. CASE l = 0
      BY <2>3, <3>1, <3>2 DEF Respond, TypeOK
    <3>3. CASE l # 0
      <4>1. l \in Nat /\ Limit(docLimit, l) \in Nat
        BY LimitNat, LimiterAssumption DEF TypeOK
      <4>2. Min2(tokens, Safe(l)) \in Nat
        BY <4>1, SafeNat DEF Min2, TypeOK
      <4>3. Widened(Limit(docLimit, l)) \in W
        BY <4>1, RateNat, CapacityNat DEF Widened, Max2, TypeOK
      <4>4. QED
        BY <2>3, <3>1, <3>3, <4>2, <4>3 DEF Respond, TypeOK
    <3>4. QED
      BY <3>2, <3>3
  <2>4. ASSUME NEW t \in Threads, Penalize(t)
        PROVE  TypeOK'
    <3>1. thread[t].retry \in Nat
      BY DEF TypeOK
    <3>2. /\ now + Max2(thread[t].retry, 1) \in Nat
          /\ now + thread[t].retry \in Nat
          /\ Max2(pausedUntil, now + thread[t].retry) \in Nat
      BY <3>1 DEF Max2, TypeOK
    <3>3. thread' \in [Threads -> T]
      BY <2>4, <3>2 DEF Penalize, TypeOK, At, Places
    <3>4. updated' \in Nat /\ pausedUntil' \in Nat
      BY <2>4, <3>2 DEF Penalize, TypeOK
    <3>5. QED
      BY <2>4, <3>3, <3>4 DEF Penalize, TypeOK
  <2>5. ASSUME NEW l \in DocLimits, ChangeDocLimit(l)
        PROVE  TypeOK'
    <3>1. Limit(l, serverLimit) \in Nat
      BY LimitNat DEF TypeOK
    <3>2. Widened(Limit(l, serverLimit)) \in W
      BY <3>1, RateNat, CapacityNat DEF Widened, Max2, TypeOK
    <3>3. QED
      BY <2>5, <3>2 DEF ChangeDocLimit, bucket, TypeOK
  <2>6. CASE Tick
    BY <2>6 DEF Tick, bucket, TypeOK
  <2>7. CASE OpenWindow
    <3>1. Window(now, limit) \in W
      BY <2>0 DEF Window, TypeOK
    <3>2. QED
      BY <2>7, <3>1 DEF OpenWindow, bucket, TypeOK
  <2>8. CASE UNCHANGED vars
    BY <2>8 DEF vars, bucket, TypeOK
  <2>9. QED
    BY <2>1, <2>2, <2>3, <2>4, <2>5, <2>6, <2>7, <2>8, LimiterAssumption DEF Next
<1>3. QED
  BY <1>1, <1>2, PTL DEF Spec

--------------------------------------------------------------------------------
(***************************************************************************)
(* WindowBound is not inductive: it says nothing of what the bucket may    *)
(* still grant.  The invariant splits on whether acquire has run since the *)
(* window opened.  If not, nothing was granted.  If so, what was granted   *)
(* and what is left together come from the burst and the time up to        *)
(* `updated` (or `now`, when a penalty pushed `updated` past it).  What is *)
(* left counts up to the burst only: the next refill cuts it down anyway.  *)
(***************************************************************************)
Credited == Min2(updated, now)

WindowInv ==
    LET limit == Limit(docLimit, serverLimit)
    IN  /\ window.start <= now
        /\ Rate(limit) <= window.rate
        /\ Capacity(limit) <= window.cap
        /\ updated < window.start => window.grants = 0
        /\ updated >= window.start =>
               window.grants * Unit + Min2(tokens, window.cap)
                   <= window.cap + window.rate * (Credited - window.start)

\* The heart of the bound: a refill credits at most rate * (now - updated).
LEMMA RefillWithinWindow ==
    ASSUME TypeOK, WindowInv
    PROVE  window.grants * Unit + Refilled
               <= window.cap + window.rate * (now - window.start)
<1> DEFINE limit == Limit(docLimit, serverLimit)
<1> DEFINE lapse == Max2(now - updated, 0)
<1> DEFINE G == window.grants * Unit
<1>1. /\ Rate(limit) \in Nat /\ Capacity(limit) \in Nat
      /\ window.rate \in Nat /\ window.cap \in Nat /\ window.start \in Nat
      /\ window.grants \in Nat /\ now \in Nat /\ updated \in Nat /\ tokens \in Nat
  BY LimitNat, RateNat, CapacityNat DEF TypeOK
<1>2. /\ Refilled \in Nat /\ Refilled <= window.cap
      /\ Refilled <= tokens + lapse * Rate(limit)
  <2>1. Refilled <= Capacity(limit)
    BY RefilledBounds
  <2>2. QED
    BY <1>1, <2>1, RefilledBounds DEF WindowInv
<1>3. now - window.start \in Nat
  BY <1>1 DEF WindowInv
<1>4. window.rate * (now - window.start) \in Nat
  BY <1>1, <1>3
<1>5. CASE updated < window.start
  <2>1. window.grants = 0
    BY <1>5 DEF WindowInv
  <2>2. QED
    BY <1>1, <1>2, <1>4, <2>1, LimiterAssumption
<1>6. CASE updated >= window.start
  <2>1. lapse \in Nat /\ Credited - window.start \in Nat
    BY <1>1, <1>3, <1>6 DEF Max2, Credited, Min2
  <2>2. lapse = now - Credited
    BY <1>1 DEF Max2, Credited, Min2
  <2>3. lapse * Rate(limit) <= window.rate * lapse
    <3>1. Rate(limit) <= window.rate
      BY DEF WindowInv
    <3>2. lapse * Rate(limit) <= lapse * window.rate
      BY <1>1, <2>1, <3>1, MulMonotone
    <3>3. QED
      BY <1>1, <2>1, <3>2
  <2>4. window.rate * lapse + window.rate * (Credited - window.start)
            = window.rate * (now - window.start)
    <3>1. lapse + (Credited - window.start) = now - window.start
      BY <1>1, <2>1, <2>2 DEF Credited, Min2
    <3>2. QED
      BY <1>1, <2>1, <3>1
  <2>5. G + Min2(tokens, window.cap)
            <= window.cap + window.rate * (Credited - window.start)
    BY <1>6 DEF WindowInv
  <2>6. Refilled <= Min2(tokens, window.cap) + window.rate * lapse
    <3>1. window.rate * lapse \in Nat /\ lapse * Rate(limit) \in Nat
      BY <1>1, <2>1
    <3>2. Refilled <= tokens + window.rate * lapse
      BY <1>1, <1>2, <2>3, <3>1
    <3>3. QED
      BY <1>1, <1>2, <3>1, <3>2 DEF Min2
  <2>7. /\ G \in Nat /\ Min2(tokens, window.cap) \in Nat
        /\ window.rate * lapse \in Nat
        /\ window.rate * (Credited - window.start) \in Nat
    BY <1>1, <2>1, LimiterAssumption DEF Min2
  <2> HIDE DEF limit, lapse, G
  <2>8. G + Refilled <= window.cap + window.rate * (now - window.start)
    BY <1>1, <1>2, <1>4, <2>4, <2>5, <2>6, <2>7
  <2>9. QED
    BY <2>8 DEF G
<1>7. QED
  BY <1>1, <1>5, <1>6

\* In every window, over every interleaving of the threads and every change
\* of limit, acquire grants at most one burst plus the safe rate times the
\* window's length (ratelimit.py's acquire, _rate and _capacity).
THEOREM WindowBounded == Spec => []WindowBound
<1> DEFINE limit == Limit(docLimit, serverLimit)
<1>1. Init => WindowInv
  <2> SUFFICES ASSUME Init PROVE WindowInv
    OBVIOUS
  <2>1. docLimit \in Nat /\ limit = docLimit /\ limit \in Nat
    BY LimiterAssumption DEF Init, Limit
  <2>2. Rate(limit) \in Nat /\ Capacity(limit) \in Nat
    BY <2>1, RateNat, CapacityNat
  <2>3. /\ window.start = 0 /\ window.grants = 0 /\ window.rate = Rate(limit)
        /\ window.cap = Capacity(limit)
    BY <2>1 DEF Init, Window
  <2>4. Min2(tokens, window.cap) <= window.cap
    BY <2>1, <2>2, <2>3 DEF Init, Min2
  <2>5. Credited - window.start = 0
    BY <2>3 DEF Init, Credited, Min2
  <2>6. 0 * Unit = 0 /\ window.rate * 0 = 0 /\ Min2(tokens, window.cap) \in Nat
    BY <2>1, <2>2, <2>3, LimiterAssumption DEF Init, Min2
  <2> HIDE DEF limit
  <2>7. QED
    BY <2>2, <2>3, <2>4, <2>5, <2>6 DEF Init, WindowInv, limit
<1>2. TypeOK /\ TypeOK' /\ WindowInv /\ [Next]_vars => WindowInv'
  <2> SUFFICES ASSUME TypeOK, TypeOK', WindowInv, [Next]_vars
               PROVE  WindowInv'
    OBVIOUS
  <2> DEFINE G == window.grants * Unit
  <2>0. /\ limit \in Nat /\ Rate(limit) \in Nat /\ Capacity(limit) \in Nat
        /\ window.rate \in Nat /\ window.cap \in Nat /\ window.start \in Nat
        /\ window.grants \in Nat /\ now \in Nat /\ updated \in Nat /\ tokens \in Nat
        /\ G \in Nat /\ Refilled \in Nat
    BY LimitNat, RateNat, CapacityNat, RefilledBounds, LimiterAssumption DEF TypeOK
  <2>1. ASSUME NEW t \in Threads, Grant(t)
        PROVE  WindowInv'
    <3>1. /\ updated' = now /\ now' = now /\ limit' = limit
          /\ window'.start = window.start /\ window'.rate = window.rate
          /\ window'.cap = window.cap /\ window'.grants = window.grants + 1
          /\ tokens' = Refilled - Unit /\ Refilled >= Unit
      BY <2>1 DEF Grant, Enough, TypeOK
    <3>2. Credited' = now
      BY <2>0, <3>1 DEF Credited, Min2
    <3>3. window'.grants * Unit + tokens' = G + Refilled
      BY <2>0, <3>1, LimiterAssumption
    <3>4. G + Refilled <= window.cap + window.rate * (now - window.start)
      BY RefillWithinWindow
    <3>5. Min2(tokens', window.cap) <= tokens'
      BY <2>0, <3>1, LimiterAssumption DEF Min2
    <3>6. window'.grants * Unit + Min2(tokens', window.cap)
              <= window.cap + window.rate * (now - window.start)
      <4>1. /\ window'.grants * Unit \in Nat /\ tokens' \in Nat
            /\ Min2(tokens', window.cap) \in Nat
        BY <2>0, <3>1, LimiterAssumption DEF Min2
      <4>2. window.rate * (now - window.start) \in Int
        BY <2>0
      <4> HIDE DEF G
      <4>3. QED
        BY <2>0, <3>3, <3>4, <3>5, <4>1, <4>2
    <3>7. QED
      BY <2>0, <3>1, <3>2, <3>6 DEF WindowInv
  <2>2. ASSUME NEW t \in Threads, Wait(t)
        PROVE  WindowInv'
    <3>1. /\ updated' = now /\ now' = now /\ limit' = limit /\ window' = window
          /\ tokens' = Refilled
      BY <2>2 DEF Wait
    <3>2. Credited' = now
      BY <2>0, <3>1 DEF Credited, Min2
    <3>3. G + Refilled <= window.cap + window.rate * (now - window.start)
      BY RefillWithinWindow
    <3>4. G + Min2(tokens', window.cap)
              <= window.cap + window.rate * (now - window.start)
      <4>1. Min2(tokens', window.cap) \in Nat /\ Min2(tokens', window.cap) <= Refilled
        BY <2>0, <3>1 DEF Min2
      <4>2. window.rate * (now - window.start) \in Int
        BY <2>0
      <4> HIDE DEF G
      <4>3. QED
        BY <2>0, <3>3, <4>1, <4>2
    <3>5. QED
      BY <2>0, <3>1, <3>2, <3>4 DEF WindowInv
  <2>3. ASSUME NEW l, NEW c \in Nat, NEW r \in Nat,
               /\ limit' = l /\ l \in Nat /\ Rate(l) <= r /\ Capacity(l) <= c,
               window.rate <= r, window.cap <= c,
               window'.start = window.start, window'.grants = window.grants,
               window'.rate = r, window'.cap = c,
               updated' = updated, now' = now, tokens' \in Nat, tokens' <= tokens
        PROVE  WindowInv'
    <3>1. Credited' = Credited
      BY <2>3 DEF Credited
    <3>2. CASE updated < window.start
      BY <2>0, <2>3, <3>2 DEF WindowInv
    <3>3. CASE updated >= window.start
      <4>1. Credited - window.start \in Nat
        BY <2>0, <3>3 DEF Credited, Min2, WindowInv
      <4>2. G + Min2(tokens, window.cap)
                <= window.cap + window.rate * (Credited - window.start)
        BY <3>3 DEF WindowInv
      <4>3. G + Min2(tokens', c) <= c + r * (Credited - window.start)
        <5> DEFINE D == Credited - window.start
        <5>1. D \in Nat /\ G + Min2(tokens, window.cap) <= window.cap + window.rate * D
          BY <4>1, <4>2
        <5>2. /\ G \in Nat /\ tokens \in Nat /\ tokens' \in Nat /\ tokens' <= tokens
              /\ window.cap \in Nat /\ window.cap <= c
              /\ window.rate \in Nat /\ window.rate <= r
          BY <2>0, <2>3
        <5>3. window.rate * D <= r * D
          <6>1. D * window.rate <= D * r
            BY <2>3, <5>1, <5>2, MulMonotone
          <6>2. QED
            BY <2>3, <5>1, <5>2, <6>1
        <5>4. window.rate * D \in Nat /\ r * D \in Nat
          BY <2>3, <5>1, <5>2
        <5> HIDE DEF G, D
        <5>5. G + Min2(tokens', c) <= c + r * D
          BY <2>3, <5>1, <5>2, <5>3, <5>4 DEF Min2
        <5>6. QED
          BY <5>5 DEF D
      <4>4. QED
        BY <2>3, <3>1, <3>3, <4>3 DEF WindowInv
    <3>4. QED
      BY <2>0, <3>2, <3>3
  <2>4. ASSUME NEW t \in Threads, NEW l \in ServerLimits \cup {0},
               NEW rejected \in BOOLEAN, NEW retry \in Nat,
               Respond(t, l, rejected, retry)
        PROVE  WindowInv'
    <3>1. CASE l = 0
      BY <2>4, <3>1 DEF Respond, WindowInv, Credited
    <3>2. CASE l # 0
      <4> DEFINE l2 == Limit(docLimit, l)
      <4>1. l \in Nat /\ l2 \in Nat /\ Rate(l2) \in Nat /\ Capacity(l2) \in Nat
        BY LimitNat, RateNat, CapacityNat, LimiterAssumption DEF TypeOK
      <4>2. limit' = l2 /\ window' = Widened(l2)
        BY <2>4, <3>2 DEF Respond
      <4>3. tokens' \in Nat /\ tokens' <= tokens
        <5>1. Safe(l) \in Nat
          BY <4>1, SafeNat
        <5>2. QED
          BY <2>0, <2>4, <3>2, <5>1 DEF Respond, Min2
      <4> HIDE DEF l2
      <4> DEFINE r == Max2(window.rate, Rate(l2))
      <4> DEFINE c == Max2(window.cap, Capacity(l2))
      <4>4. /\ r \in Nat /\ c \in Nat /\ Rate(l2) <= r /\ Capacity(l2) <= c
            /\ window.rate <= r /\ window.cap <= c
        BY <2>0, <4>1 DEF Max2
      <4>5. /\ window'.start = window.start /\ window'.grants = window.grants
            /\ window'.rate = r /\ window'.cap = c
        BY <4>2 DEF Widened, TypeOK
      <4>6. updated' = updated /\ now' = now
        BY <2>4 DEF Respond
      <4> HIDE DEF r, c, limit
      <4>7. QED
        BY <2>3, <4>1, <4>2, <4>3, <4>4, <4>5, <4>6
    <3>3. QED
      BY <3>1, <3>2
  <2>5. ASSUME NEW t \in Threads, Penalize(t)
        PROVE  WindowInv'
    <3>1. /\ now' = now /\ limit' = limit /\ window' = window /\ tokens' = 0
          /\ updated' = updated \/ updated' > now
      BY <2>0, <2>5 DEF Penalize, TypeOK
    <3>2. CASE updated' = updated
      <4>1. Credited' = Credited
        BY <3>1, <3>2 DEF Credited
      <4>2. Min2(tokens', window.cap) <= Min2(tokens, window.cap)
        BY <2>0, <3>1 DEF Min2
      <4>3. Min2(tokens', window.cap) \in Nat /\ Min2(tokens, window.cap) \in Nat
        BY <2>0, <3>1 DEF Min2
      <4>4. window.rate * (Credited - window.start) \in Int
        BY <2>0 DEF Credited, Min2
      <4>5. updated >= window.start =>
                G + Min2(tokens', window.cap)
                    <= window.cap + window.rate * (Credited - window.start)
        <5>1. updated >= window.start =>
                  G + Min2(tokens, window.cap)
                      <= window.cap + window.rate * (Credited - window.start)
          BY DEF WindowInv
        <5> HIDE DEF G
        <5>2. QED
          BY <2>0, <4>2, <4>3, <4>4, <5>1
      <4>6. QED
        BY <2>0, <3>1, <3>2, <4>1, <4>5 DEF WindowInv
    <3>3. CASE updated' > now
      <4>1. Credited' = now /\ updated' >= window.start /\ updated' \in Nat
        BY <2>0, <3>1, <3>3 DEF Credited, Min2, WindowInv, TypeOK
      <4>2. G + Refilled <= window.cap + window.rate * (now - window.start)
        BY RefillWithinWindow
      <4>3. Min2(tokens', window.cap) = 0
        BY <2>0, <3>1 DEF Min2
      <4>4. G + 0 <= window.cap + window.rate * (now - window.start)
        <5>1. window.rate * (now - window.start) \in Int
          BY <2>0
        <5> HIDE DEF G
        <5>2. QED
          BY <2>0, <4>2, <5>1
      <4>5. G + Min2(tokens', window.cap)
                <= window.cap + window.rate * (now - window.start)
        BY <4>3, <4>4
      <4>6. /\ window.start <= now
            /\ Rate(limit) <= window.rate /\ Capacity(limit) <= window.cap
        BY DEF WindowInv
      <4>7. /\ window'.start <= now'
            /\ Rate(limit') <= window'.rate /\ Capacity(limit') <= window'.cap
        BY <3>1, <4>6
      <4>8. window'.grants * Unit + Min2(tokens', window'.cap)
                <= window'.cap + window'.rate * (Credited' - window'.start)
        BY <3>1, <4>1, <4>5
      <4>9. ~(updated' < window'.start)
        BY <2>0, <3>1, <4>1, <3>3, <4>6
      <4>10. QED
        BY <4>7, <4>8, <4>9, Zenon DEF WindowInv
    <3>4. QED
      BY <3>1, <3>2, <3>3
  <2>6. ASSUME NEW l \in DocLimits, ChangeDocLimit(l)
        PROVE  WindowInv'
    <3> DEFINE l2 == Limit(l, serverLimit)
    <3>1. l2 \in Nat /\ Rate(l2) \in Nat /\ Capacity(l2) \in Nat
      BY LimitNat, RateNat, CapacityNat DEF TypeOK
    <3>2. /\ limit' = l2 /\ window' = Widened(l2)
          /\ updated' = updated /\ now' = now /\ tokens' \in Nat /\ tokens' <= tokens
      BY <2>0, <2>6 DEF ChangeDocLimit, bucket
    <3> HIDE DEF l2
    <3> DEFINE r == Max2(window.rate, Rate(l2))
    <3> DEFINE c == Max2(window.cap, Capacity(l2))
    <3>3. /\ r \in Nat /\ c \in Nat /\ Rate(l2) <= r /\ Capacity(l2) <= c
          /\ window.rate <= r /\ window.cap <= c
      BY <2>0, <3>1 DEF Max2
    <3>4. /\ window'.start = window.start /\ window'.grants = window.grants
          /\ window'.rate = r /\ window'.cap = c
      BY <3>2 DEF Widened, TypeOK
    <3> HIDE DEF r, c, limit
    <3>5. QED
      BY <2>3, <3>1, <3>2, <3>3, <3>4
  <2>7. CASE Tick
    <3>1. now' = now + 1 /\ limit' = limit /\ window' = window
          /\ updated' = updated /\ tokens' = tokens
      BY <2>7 DEF Tick, bucket
    <3>2. CASE updated < window.start
      BY <2>0, <3>1, <3>2 DEF WindowInv
    <3>3. CASE updated >= window.start
      <4>1. /\ Credited - window.start \in Nat /\ (Credited - window.start)' \in Nat
            /\ Credited - window.start <= (Credited - window.start)'
        BY <2>0, <3>1, <3>3 DEF Credited, Min2, WindowInv
      <4>2. window.rate * (Credited - window.start)
                <= window.rate * (Credited - window.start)'
        BY <2>0, <4>1, MulMonotone
      <4>3. (Credited - window.start)' = Credited' - window.start
        BY <3>1
      <4>4. G + Min2(tokens, window.cap)
                <= window.cap + window.rate * (Credited - window.start)
        BY <3>3 DEF WindowInv
      <4>5. G + Min2(tokens, window.cap)
                <= window.cap + window.rate * (Credited - window.start)'
        <5>1. /\ Min2(tokens, window.cap) \in Nat
              /\ window.rate * (Credited - window.start) \in Int
              /\ window.rate * (Credited - window.start)' \in Int
          BY <2>0, <4>1 DEF Min2
        <5> HIDE DEF G
        <5>2. QED
          BY <2>0, <4>2, <4>4, <5>1
      <4>6. QED
        BY <2>0, <3>1, <3>3, <4>3, <4>5 DEF WindowInv
    <3>4. QED
      BY <2>0, <3>2, <3>3
  <2>8. CASE OpenWindow
    <3>1. /\ now' = now /\ limit' = limit /\ updated' = updated /\ tokens' = tokens
          /\ window'.start = now /\ window'.grants = 0
          /\ window'.rate = Rate(limit) /\ window'.cap = Capacity(limit)
      BY <2>8 DEF OpenWindow, Window, bucket
    <3>2. Min2(tokens, Capacity(limit)) <= Capacity(limit)
      BY <2>0 DEF Min2
    <3>3. updated >= now => Credited' - now = 0
      BY <2>0, <3>1 DEF Credited, Min2
    <3>4. 0 * Unit = 0 /\ Rate(limit) * 0 = 0 /\ Min2(tokens, Capacity(limit)) \in Nat
      BY <2>0, LimiterAssumption DEF Min2
    <3> HIDE DEF limit
    <3>5. QED
      BY <2>0, <3>1, <3>2, <3>3, <3>4 DEF WindowInv, limit
  <2>9. CASE UNCHANGED vars
    BY <2>9 DEF vars, bucket, WindowInv, Credited
  <2>10. QED
    BY <2>1, <2>2, <2>4, <2>5, <2>6, <2>7, <2>8, <2>9, LimiterAssumption DEF Next
<1>3. TypeOK /\ WindowInv => WindowBound
  <2> SUFFICES ASSUME TypeOK, WindowInv PROVE WindowBound
    OBVIOUS
  <2>1. window.grants * Unit + Refilled
            <= window.cap + window.rate * (now - window.start)
    BY RefillWithinWindow
  <2>2. /\ Refilled \in Nat /\ window.grants * Unit \in Nat
        /\ window.cap + window.rate * (now - window.start) \in Int
    BY RefilledBounds, LimiterAssumption DEF TypeOK
  <2>3. QED
    BY <2>1, <2>2 DEF WindowBound
<1>4. QED
  BY <1>1, <1>2, <1>3, TypeCorrect, PTL DEF Spec

--------------------------------------------------------------------------------
\* What a sleeping thread waits for: by the time it wakes, the refill at the
\* present rate makes up a whole token.
CalmInv ==
    LET rate == Rate(Limit(docLimit, serverLimit))
    IN  /\ calm # {} => updated <= now
        /\ \A t \in calm : thread[t].at = "waiting" =>
               /\ updated <= thread[t].until
               /\ Unit <= tokens + (thread[t].until - updated) * rate

\* The refill rate is never zero, and the burst at least one token.
LEMMA Floors ==
    ASSUME NEW limit \in Nat
    PROVE  Rate(limit) >= 1 /\ Capacity(limit) >= Unit
<1>1. Safe(limit) \in Nat
  BY SafeNat
<1>2. QED
  BY <1>1, LimiterAssumption DEF Rate, Capacity, Max2

\* A sleep is long enough for its deficit.
LEMMA SleepCovers ==
    ASSUME NEW d \in Nat, NEW r \in Nat, r >= 1
    PROVE  SleepFor(d, r) \in Nat /\ d <= SleepFor(d, r) * r
<1> DEFINE q == (d + r - 1) \div r
<1>1. q \in Nat /\ d + r - 1 < q * r + r
  OBVIOUS
<1> HIDE DEF q
<1>2. SleepFor(d, r) = Max2(q, 1)
  BY DEF SleepFor, q
<1>3. SleepFor(d, r) \in Nat /\ q <= SleepFor(d, r)
  BY <1>1, <1>2 DEF Max2
<1>4. q * r <= SleepFor(d, r) * r
  BY <1>1, <1>3, MulMonotone
<1>5. d <= q * r
  BY <1>1
<1>6. q * r \in Nat /\ SleepFor(d, r) * r \in Nat
  BY <1>1, <1>3
<1> HIDE DEF q
<1>7. QED
  BY <1>3, <1>4, <1>5, <1>6

\* Without a whole token the bucket is below its burst, so nothing is capped.
LEMMA RefillExact ==
    ASSUME TypeOK, CalmInv, calm # {}, ~Enough
    PROVE  Refilled = tokens + (now - updated) * Rate(Limit(docLimit, serverLimit))
<1> DEFINE limit == Limit(docLimit, serverLimit)
<1>1. limit \in Nat
  BY LimitNat DEF TypeOK
<1>2. Capacity(limit) \in Nat /\ Capacity(limit) >= Unit /\ Unit \in Nat
  BY <1>1, CapacityNat, Floors, LimiterAssumption
<1>3. updated <= now /\ now \in Nat /\ updated \in Nat /\ tokens \in Nat
  BY DEF TypeOK, CalmInv
<1>4. Max2(now - updated, 0) = now - updated
  BY <1>3 DEF Max2
<1>5. Refilled = Min2(Capacity(limit), tokens + (now - updated) * Rate(limit))
  BY <1>4 DEF Refilled
<1> HIDE DEF limit
<1>6. Refilled < Unit /\ Refilled \in Nat
  BY <1>2, RefilledBounds DEF Enough
<1>7. QED
  BY <1>2, <1>5, <1>6 DEF Min2, limit

LEMMA CalmIsEnough == TypeOK /\ CalmInv => SleepSuffices
<1> SUFFICES ASSUME TypeOK, CalmInv, NEW t \in calm,
                    thread[t].at = "waiting", thread[t].until <= now, ~Enough
             PROVE  FALSE
  BY DEF SleepSuffices
<1> DEFINE rate == Rate(Limit(docLimit, serverLimit))
           until == thread[t].until
<1>1. rate \in Nat
  BY LimitNat, RateNat DEF TypeOK
<1>2. /\ now \in Nat /\ updated \in Nat /\ tokens \in Nat /\ until \in Nat
      /\ Unit \in Nat
  BY LimiterAssumption DEF TypeOK
<1>3. updated <= until /\ Unit <= tokens + (until - updated) * rate /\ until <= now
  BY DEF CalmInv
<1>4. Refilled = tokens + (now - updated) * rate
  BY RefillExact
<1> HIDE DEF rate, until
<1>5. rate * (until - updated) <= rate * (now - updated)
  <2>1. until - updated \in Nat /\ now - updated \in Nat /\ until - updated <= now - updated
    BY <1>2, <1>3
  <2> QED
    BY <1>1, <2>1, MulMonotone
<1>6. Refilled >= Unit
  <2>1. rate * (until - updated) = (until - updated) * rate
        /\ rate * (now - updated) = (now - updated) * rate
    BY <1>1, <1>2
  <2>2. (until - updated) * rate \in Int /\ (now - updated) * rate \in Int
    BY <1>1, <1>2
  <2> QED
    BY <1>2, <1>3, <1>4, <1>5, <2>1, <2>2
<1> QED
  BY <1>6 DEF Enough

\* A thread that goes to sleep, and what that does to those asleep already.
LEMMA WaitStep ==
    ASSUME TypeOK, CalmInv, NEW t \in Threads, Wait(t)
    PROVE  CalmInv'
<1> DEFINE rate == Rate(Limit(docLimit, serverLimit))
           sleep == SleepFor(Unit - Refilled, rate)
<1>1. rate \in Nat /\ rate >= 1
  BY LimitNat, RateNat, Floors DEF TypeOK
<1>2. /\ ~Enough /\ tokens' = Refilled /\ updated' = now /\ now' = now
      /\ docLimit' = docLimit /\ serverLimit' = serverLimit
      /\ thread' = [thread EXCEPT ![t] = At("waiting", now + sleep, 0)]
      /\ calm' = calm \cup {t}
  BY DEF Wait
<1>3. /\ Refilled \in Nat /\ Refilled < Unit /\ Unit \in Nat
      /\ now \in Nat /\ updated \in Nat /\ tokens \in Nat
  BY <1>2, RefilledBounds, LimiterAssumption DEF TypeOK, Enough
<1>4. sleep \in Nat /\ Unit - Refilled <= sleep * rate
  <2>1. Unit - Refilled \in Nat
    BY <1>3
  <2> QED
    BY <1>1, <2>1, SleepCovers
<1> HIDE DEF rate, sleep
<1>5. thread'[t] = At("waiting", now + sleep, 0)
  BY <1>2 DEF TypeOK
<1>6. rate' = rate
  BY <1>2 DEF rate
<1>7. now <= now + sleep /\ Unit <= Refilled + ((now + sleep) - now) * rate
  <2>1. (now + sleep) - now = sleep /\ sleep * rate \in Int
    BY <1>1, <1>3, <1>4
  <2> QED
    BY <1>3, <1>4, <2>1
<1>8. ASSUME NEW u \in calm, u # t, thread[u].at = "waiting"
      PROVE  now <= thread[u].until /\ Unit <= Refilled + (thread[u].until - now) * rate
  <2> DEFINE until == thread[u].until
  <2>1. until \in Nat
    BY <1>8 DEF TypeOK
  <2>2. updated <= now /\ updated <= until /\ Unit <= tokens + (until - updated) * rate
    BY <1>8 DEF CalmInv, rate
  <2>3. ~(until <= now)
    BY <1>2, <1>8, CalmIsEnough DEF SleepSuffices
  <2>4. Refilled = tokens + (now - updated) * rate
    BY <1>2, <1>8, RefillExact DEF rate
  <2> HIDE DEF until
  <2>5. (until - updated) * rate = (now - updated) * rate + (until - now) * rate
    <3>1. until - updated = (now - updated) + (until - now)
      BY <1>3, <2>1
    <3> QED
      BY <1>1, <1>3, <2>1, <3>1
  <2>6. (now - updated) * rate \in Int /\ (until - now) * rate \in Int
    BY <1>1, <1>3, <2>1
  <2> QED
    BY <1>3, <2>1, <2>2, <2>3, <2>4, <2>5, <2>6 DEF until
<1>9. \A u \in calm : u # t => thread'[u] = thread[u]
  BY <1>2 DEF TypeOK
<1>10. ASSUME NEW u \in calm', thread'[u].at = "waiting"
       PROVE  updated' <= thread'[u].until
              /\ Unit <= tokens' + (thread'[u].until - updated') * rate'
  <2>1. CASE u = t
    BY <1>2, <1>5, <1>6, <1>7, <2>1 DEF At
  <2>2. CASE u # t
    BY <1>2, <1>6, <1>8, <1>9, <1>10, <2>2
  <2> QED
    BY <2>1, <2>2
<1>11. updated' <= now'
  BY <1>2, <1>3
<1> QED
  BY <1>10, <1>11 DEF CalmInv, rate

\* acquire's sleep is never too short: unless a grant, a penalty or a change of
\* limit came in between, a thread that wakes finds its token, for any limits,
\* down to less than one call a second (RateLimiter.acquire).
THEOREM SleepsSuffice == Spec => []SleepSuffices
<1>1. Init => CalmInv
  BY DEF Init, CalmInv
<1>2. TypeOK /\ CalmInv /\ [Next]_vars => CalmInv'
  <2> SUFFICES ASSUME TypeOK, CalmInv, [Next]_vars PROVE CalmInv'
    OBVIOUS
  <2>1. ASSUME calm' = {} PROVE CalmInv'
    BY <2>1 DEF CalmInv
  <2>2. ASSUME NEW t \in Threads, Grant(t) \/ Penalize(t) PROVE CalmInv'
    BY <2>1, <2>2 DEF Grant, Penalize
  <2>3. ASSUME NEW limit \in DocLimits, ChangeDocLimit(limit) PROVE CalmInv'
    BY <2>1, <2>3 DEF ChangeDocLimit
  <2>4. ASSUME NEW t \in Threads, Wait(t) PROVE CalmInv'
    BY <2>4, WaitStep
  <2>5. ASSUME NEW t \in Threads, NEW limit, NEW rejected, NEW retry,
               Respond(t, limit, rejected, retry)
        PROVE  CalmInv'
    <3>1. CASE limit # 0
      BY <2>1, <2>5, <3>1 DEF Respond
    <3>2. CASE limit = 0
      <4>1. UNCHANGED <<now, docLimit, serverLimit, tokens, updated, calm>>
        BY <2>5, <3>2 DEF Respond
      <4>2. \A u \in calm : u # t => thread'[u] = thread[u]
        BY <2>5 DEF Respond, TypeOK
      <4>3. thread'[t].at # "waiting"
        BY <2>5 DEF Respond, TypeOK, At, Idle
      <4> QED
        BY <4>1, <4>2, <4>3 DEF CalmInv
    <3> QED
      BY <3>1, <3>2
  <2>6. CASE Tick
    <3>1. updated <= now => updated <= now + 1
      BY DEF TypeOK
    <3> QED
      BY <2>6, <3>1 DEF Tick, CalmInv, bucket
  <2>7. CASE OpenWindow \/ UNCHANGED vars
    BY <2>7 DEF OpenWindow, CalmInv, bucket, vars
  <2> QED
    BY <2>2, <2>3, <2>4, <2>5, <2>6, <2>7 DEF Next
<1> QED
  BY <1>1, <1>2, CalmIsEnough, TypeCorrect, PTL DEF Spec

================================================================================
