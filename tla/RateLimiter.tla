------------------------------ MODULE RateLimiter ------------------------------
(***************************************************************************)
(* One bucket of toss/ratelimit.py's RateLimiter and the threads that send *)
(* API calls through it (toss/client.py, TossClient._request): acquire, the *)
(* limit the server advertises, and the penalty after a 429.               *)
(*                                                                         *)
(* Amounts are in parts of a token, Unit parts to a token; limits are in   *)
(* parts per second and the clock ticks in seconds.  Each body the code    *)
(* runs under the bucket's lock is one action; sleeping is outside it.     *)
(* Groups share nothing, so one bucket is the general case.                *)
(***************************************************************************)
EXTENDS Integers

CONSTANTS Threads,                \* threads of the bot that call the API
          Unit,                   \* parts of a token
          SafetyNum, SafetyDen,   \* SAFETY_FACTOR, as a fraction
          MinRate,                \* the floor of the refill rate (0.05/s)
          DocLimits,              \* limit_at's values: off-peak and peak tps
          ServerLimits,           \* X-RateLimit-Limit values
          RetryAfters,            \* Retry-After values, in seconds; 0 is none
          MaxTime                 \* bound of the clock

ASSUME LimiterAssumption ==
    /\ Unit \in Nat \ {0}
    /\ SafetyNum \in Nat
    /\ SafetyDen \in Nat \ {0}
    /\ SafetyNum <= SafetyDen
    /\ MinRate \in Nat \ {0}
    /\ DocLimits \subseteq Nat \ {0}
    /\ ServerLimits \subseteq Nat \ {0}
    /\ RetryAfters \subseteq Nat
    /\ MaxTime \in Nat

VARIABLES
    now,          \* time.monotonic()
    docLimit,     \* the documented limit at this hour (Group.limit_at)
    serverLimit,  \* _Bucket.server_limit; 0 is None
    tokens,       \* _Bucket.tokens
    updated,      \* _Bucket.updated
    thread,       \* where each thread is, and until when it sleeps
    pausedUntil,  \* history: the end of the last pause a 429 asked for
    calm,         \* history: waiting threads nothing has disturbed
    window        \* history: an observation window, see OpenWindow

bucket == <<serverLimit, tokens, updated>>
vars == <<now, docLimit, bucket, thread, pausedUntil, calm, window>>

--------------------------------------------------------------------------------
Min2(a, b) == IF a <= b THEN a ELSE b
Max2(a, b) == IF a >= b THEN a ELSE b

\* The limit in force: the documented one, narrowed by the server's.
Limit(doc, server) == IF server = 0 THEN doc ELSE Min2(doc, server)

Safe(limit) == (limit * SafetyNum) \div SafetyDen
Rate(limit) == Max2(Safe(limit), MinRate)

\* Mutant of Capacity: no floor, as if a limit below 1/s were a ceiling too.
CapacityUnfloored(limit) == limit

Capacity(limit) == Max2(limit, Unit)

\* Mutant of Refilled: an idle night is credited in full.
RefilledUncapped ==
    tokens + Max2(now - updated, 0) * Rate(Limit(docLimit, serverLimit))

\* What the bucket holds once acquire has credited the time since `updated`.
Refilled ==
    LET limit == Limit(docLimit, serverLimit)
    IN  Min2(Capacity(limit), tokens + Max2(now - updated, 0) * Rate(limit))

\* Mutant of Enough: any part of a token will do.
EnoughForPart == Refilled > 0

Enough == Refilled >= Unit

\* Whole seconds a thread sleeps for a deficit: deficit / rate, at least one.
SleepFor(deficit, rate) == Max2((deficit + rate - 1) \div rate, 1)

At(place, until, retry) == [at |-> place, until |-> until, retry |-> retry]
Idle == At("idle", 0, 0)

--------------------------------------------------------------------------------
Window(start, limit) ==
    [start |-> start, grants |-> 0, rate |-> Rate(limit), cap |-> Capacity(limit)]

\* The window remembers the largest rate and burst in force since it opened.
Widened(limit) ==
    [window EXCEPT !.rate = Max2(@, Rate(limit)), !.cap = Max2(@, Capacity(limit))]

Init ==
    /\ now = 0
    /\ docLimit \in DocLimits
    /\ serverLimit = 0
    /\ tokens = docLimit
    /\ updated = 0
    /\ thread = [t \in Threads |-> Idle]
    /\ pausedUntil = 0
    /\ calm = {}
    /\ window = Window(0, docLimit)

\* acquire's loop body may run: on the first call, or after a sleep.
MayTry(t) ==
    \/ thread[t].at = "idle"
    \/ thread[t].at \in {"waiting", "backoff"} /\ thread[t].until <= now

Grant(t) ==
    /\ MayTry(t)
    /\ Enough
    /\ tokens' = Refilled - Unit
    /\ updated' = now
    /\ thread' = [thread EXCEPT ![t] = At("calling", 0, 0)]
    /\ calm' = {}
    /\ window' = [window EXCEPT !.grants = @ + 1]
    /\ UNCHANGED <<now, docLimit, serverLimit, pausedUntil>>

Wait(t) ==
    /\ MayTry(t)
    /\ ~Enough
    /\ tokens' = Refilled
    /\ updated' = now
    /\ LET sleep == SleepFor(Unit - Refilled, Rate(Limit(docLimit, serverLimit)))
       IN  thread' = [thread EXCEPT ![t] = At("waiting", now + sleep, 0)]
    /\ calm' = calm \cup {t}
    /\ UNCHANGED <<now, docLimit, serverLimit, pausedUntil, window>>

\* observe_headers, on a response with (limit) or without (0) the header.
\* A 429 then goes on to penalize; any other answer ends the call.
Respond(t, limit, rejected, retry) ==
    /\ thread[t].at = "calling"
    /\ \/ limit = 0 /\ UNCHANGED <<serverLimit, tokens, calm, window>>
       \/ /\ limit # 0
          /\ serverLimit' = limit
          /\ tokens' = Min2(tokens, Safe(limit))
          /\ calm' = {}
          /\ window' = Widened(Limit(docLimit, limit))
    /\ thread' = [thread EXCEPT ![t] =
                     IF rejected THEN At("rejected", 0, retry) ELSE Idle]
    /\ UNCHANGED <<now, docLimit, updated, pausedUntil>>

\* penalize, then the client's own backoff before it tries again (at least a
\* second, at least the Retry-After).
Penalize(t) ==
    /\ thread[t].at = "rejected"
    /\ LET retry == thread[t].retry
       IN  /\ tokens' = 0
           /\ updated' = IF retry > 0 THEN now + retry ELSE updated
           /\ pausedUntil' = IF retry > 0 THEN Max2(pausedUntil, now + retry)
                                          ELSE pausedUntil
           /\ thread' = [thread EXCEPT ![t] =
                            At("backoff", now + Max2(retry, 1), 0)]
    /\ calm' = {}
    /\ UNCHANGED <<now, docLimit, serverLimit, window>>

\* 09:00 and 09:10 KST: the documented limit changes under the bucket.
ChangeDocLimit(limit) ==
    /\ limit # docLimit
    /\ docLimit' = limit
    /\ calm' = {}
    /\ window' = Widened(Limit(limit, serverLimit))
    /\ UNCHANGED <<now, bucket, thread, pausedUntil>>

Tick ==
    /\ now < MaxTime
    /\ now' = now + 1
    /\ UNCHANGED <<docLimit, bucket, thread, pausedUntil, calm, window>>

\* An observer starts counting grants, at any moment.
OpenWindow ==
    /\ window' = Window(now, Limit(docLimit, serverLimit))
    /\ UNCHANGED <<now, docLimit, bucket, thread, pausedUntil, calm>>

Next ==
    \/ \E t \in Threads : Grant(t)
    \/ \E t \in Threads : Wait(t)
    \/ \E t \in Threads, limit \in ServerLimits \cup {0} :
           Respond(t, limit, FALSE, 0)
    \/ \E t \in Threads, limit \in ServerLimits \cup {0}, retry \in RetryAfters :
           Respond(t, limit, TRUE, retry)
    \/ \E t \in Threads : Penalize(t)
    \/ \E limit \in DocLimits : ChangeDocLimit(limit)
    \/ Tick
    \/ OpenWindow

Spec == Init /\ [][Next]_vars

--------------------------------------------------------------------------------
Places == {"idle", "waiting", "calling", "rejected", "backoff"}

\* The types of the bucket, the threads and the history variables.
TypeOK ==
    /\ now \in Nat
    /\ docLimit \in DocLimits
    /\ serverLimit \in ServerLimits \cup {0}
    /\ tokens \in Nat
    /\ updated \in Nat
    /\ thread \in [Threads -> [at : Places, until : Nat, retry : Nat]]
    /\ pausedUntil \in Nat
    /\ calm \subseteq Threads
    /\ window \in [start : Nat, grants : Nat, rate : Nat, cap : Nat]

\* However the threads interleave, and whatever limits the server or the
\* clock bring in, acquire grants in any window at most one burst plus the
\* safe rate times its length, at the largest limit in force meanwhile.
WindowBound ==
    window.grants * Unit <= window.cap + window.rate * (now - window.start)

\* The sleep acquire computes is long enough: a thread that wakes after it,
\* when no grant, penalty or change of limit came in between, finds its token
\* (_capacity: "every single-token acquire would block forever" otherwise).
SleepSuffices ==
    \A t \in calm :
        thread[t].at = "waiting" /\ thread[t].until <= now => Enough

\* "Push `updated` into the future: refill won't start until then"
\* (ratelimit.py:165): no token is granted before the Retry-After has passed.
RetryAfterHonoured ==
    [][\A t \in Threads : Grant(t) => now >= pausedUntil]_vars

================================================================================
