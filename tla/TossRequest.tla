------------------------------ MODULE TossRequest ------------------------------
(***************************************************************************)
(* The retry loop of toss/client.py (TossClient._request): calls made by   *)
(* threads of their own, sharing the token manager, against an endpoint    *)
(* reached over a network that delays and loses requests and answers.      *)
(*                                                                         *)
(* Keyed calls are orders (create_order: idempotent by clientOrderId);     *)
(* plain ones modify or cancel (idempotent=False).  Waiting for the rate   *)
(* limiter and for a backoff takes time and nothing else: RateLimiter has  *)
(* the one, and here both are part of the step that follows.               *)
(***************************************************************************)
EXTENDS TokenManager, OrderEndpoint

CONSTANTS Keyed, Plain,  \* the calls of either kind
          MaxRetries     \* max_retries of the client

Calls == Keyed \cup Plain

ASSUME RequestAssumption ==
    /\ Keyed \cap Plain = {}
    /\ NoOne \notin Calls
    /\ NoKey \notin Calls
    /\ MaxRetries \in Nat

VARIABLES
    call,    \* the local state of each call, and the tokens it was denied (history)
    errors   \* history: the transient errors each plain call was answered

vars == <<tokens, endpoint, call, errors>>

--------------------------------------------------------------------------------
NoAnswer == "none"
Outside(place) == [at |-> place, attempt |-> 0, token |-> 0, answer |-> NoAnswer,
                   denied |-> {}]

Init ==
    /\ TokenInit
    /\ EndpointInit(Calls)
    /\ call = [c \in Calls |-> Outside("new")]
    /\ errors = [c \in Plain |-> 0]

Goto(c, place) == call' = [call EXCEPT ![c].at = place]
End(c, place) == call' = [call EXCEPT ![c] = Outside(place)]

\* The top of the loop: one more attempt, and a token for it.
NextAttempt(c) ==
    call' = [call EXCEPT ![c].at = "token", ![c].attempt = @ + 1,
                              ![c].token = 0, ![c].answer = NoAnswer]

\* Mutant of Key: a fresh one for each attempt.
KeyPerAttempt(c, attempt) == IF c \in Keyed THEN <<c, attempt>> ELSE NoKey

\* The key is in the body, made before the loop: all attempts carry the same.
Key(c, attempt) == IF c \in Keyed THEN c ELSE NoKey

\* Mutant of MayResend: the flag is ignored.
MayResendAny(c) == call[c].attempt <= MaxRetries

\* After a transport error: only a call that may safely be sent again.
MayResend(c) == c \in Keyed /\ call[c].attempt <= MaxRetries

\* Mutant of MayRetry: a conflict is waited out however long it takes.
MayRetryConflict(c) ==
    \/ call[c].answer = "in-progress"
    \/ call[c].answer \in {"transient", "auth"} /\ call[c].attempt <= MaxRetries

\* After an answer: what the error classes call retryable, and the conflict
\* with our own earlier request.
MayRetry(c) ==
    /\ call[c].answer \in {"transient", "auth", "in-progress"}
    /\ call[c].attempt <= MaxRetries

--------------------------------------------------------------------------------
Start(c) ==
    /\ call[c].at = "new"
    /\ NextAttempt(c)
    /\ UNCHANGED <<tokens, endpoint, errors>>

\* token(), under the manager's lock.
TakeToken(c) ==
    /\ call[c].at = "token"
    /\ \/ /\ UseCached
          /\ call' = [call EXCEPT ![c].at = "ready", ![c].token = cached]
       \/ StartIssue(c) /\ Goto(c, "issue")
    /\ UNCHANGED <<endpoint, errors>>

GetToken(c) ==
    /\ call[c].at = "issue"
    /\ Issue(c)
    /\ call' = [call EXCEPT ![c].at = "ready", ![c].token = issued + 1]
    /\ UNCHANGED <<endpoint, errors>>

\* The error of the token request ends the call: it is raised outside the try.
TokenFails(c) ==
    /\ call[c].at = "issue"
    /\ IssueFails(c)
    /\ End(c, "error")
    /\ UNCHANGED <<endpoint, errors>>

\* So does the error of the account lookup that account_seq may still need.
LookupFails(c) ==
    /\ call[c].at = "ready"
    /\ End(c, "error")
    /\ UNCHANGED <<tokens, endpoint, errors>>

Send(c) ==
    /\ call[c].at = "ready"
    /\ wire' = wire \cup {[call |-> c, attempt |-> call[c].attempt,
                           key |-> Key(c, call[c].attempt), token |-> call[c].token]}
    /\ Goto(c, "wait")
    /\ UNCHANGED <<tokens, working, done, effects, errors>>

\* No answer in time, or no connection: nobody knows what became of it.
TransportError(c) ==
    /\ call[c].at = "wait"
    /\ \/ MayResend(c) /\ NextAttempt(c)
       \/ ~MayResend(c) /\ End(c, "error")
    /\ UNCHANGED <<tokens, endpoint, errors>>

Succeed(c) ==
    /\ call[c].at = "answered"
    /\ call[c].answer = "success"
    /\ End(c, "ok")
    /\ UNCHANGED <<tokens, endpoint, errors>>

\* After a 401 the token is invalidated before the next attempt.
Retry(c) ==
    /\ call[c].at = "answered"
    /\ MayRetry(c)
    /\ \/ call[c].answer = "auth" /\ Invalidate
       \/ call[c].answer # "auth" /\ UNCHANGED tokens
    /\ NextAttempt(c)
    /\ UNCHANGED <<endpoint, errors>>

Raise(c) ==
    /\ call[c].at = "answered"
    /\ call[c].answer # "success"
    /\ ~MayRetry(c)
    /\ End(c, "error")
    /\ UNCHANGED <<tokens, endpoint, errors>>

--------------------------------------------------------------------------------
\* An answer reaches its call if that still waits for it; otherwise it is lost.
Answer(q, status) ==
    LET c == q.call
    IN  \/ UNCHANGED <<call, errors>>
        \/ /\ call[c].at = "wait"
           /\ call[c].attempt = q.attempt
           /\ call' = [call EXCEPT ![c].at = "answered", ![c].answer = status,
                  ![c].denied = IF status = "auth" THEN @ \cup {q.token} ELSE @]
           /\ errors' = IF status = "transient" /\ c \in Plain
                        THEN [errors EXCEPT ![c] = @ + 1] ELSE errors

Serve(q, status) ==
    /\ \/ Refuse(q, status, valid)
       \/ Complete(q, status)
       \/ Abandon(q, status)
       \/ Replay(q, status, valid)
    /\ Answer(q, status)
    /\ UNCHANGED tokens

TakeUp(q) ==
    /\ Begin(q, valid)
    /\ UNCHANGED <<tokens, call, errors>>

Expire(token) ==
    /\ Revoke(token)
    /\ UNCHANGED <<endpoint, call, errors>>

--------------------------------------------------------------------------------
Statuses == {"success", "transient", "auth", "in-progress", "final"}

\* One step of a call that has started.
Advance(c) ==
    \/ TakeToken(c)
    \/ GetToken(c)
    \/ TokenFails(c)
    \/ LookupFails(c)
    \/ Send(c)
    \/ TransportError(c)
    \/ Succeed(c)
    \/ Retry(c)
    \/ Raise(c)

Next ==
    \/ \E c \in Calls : Start(c)
    \/ \E c \in Calls : Advance(c)
    \/ \E q \in wire \cup working, status \in Statuses : Serve(q, status)
    \/ \E q \in wire : TakeUp(q)
    \/ \E token \in valid : Expire(token)

Spec == Init /\ [][Next]_vars

\* A thread keeps running, and every request it waits for has a timeout.
FairSpec == Spec /\ \A c \in Calls : WF_vars(Advance(c))

--------------------------------------------------------------------------------
Places == {"new", "token", "issue", "ready", "wait", "answered", "ok", "error"}
Attempts == 1..(MaxRetries + 1)

\* The types; in particular a call makes at most max_retries + 1 attempts, and
\* the token lock is held by the one call that asks for a token.
TypeOK ==
    /\ issued \in Nat
    /\ cached \in Nat
    /\ valid \subseteq Nat
    /\ call \in [Calls -> [at : Places, attempt : {0} \cup Attempts, token : Nat,
                           answer : {NoAnswer} \cup Statuses, denied : SUBSET Nat]]
    /\ \A c \in Calls : call[c].at = "issue" <=> holder = c
    /\ \A q \in wire \cup working :
           /\ q.call \in Calls /\ q.attempt \in Attempts /\ q.token \in Nat
           /\ q.key = Key(q.call, q.attempt)
    /\ effects \in [Calls -> Nat]
    /\ errors \in [Plain -> Nat]

Told(c) == IF call[c].at \in {"ok", "error"} THEN call[c].at ELSE "none"

\* "Retrying a timed-out request cannot create a second order" (client.py:611):
\* however requests are delayed, lost and repeated, each order is placed at
\* most once, and no caller is told of success without it.
Once == INSTANCE CallOnce WITH Calls <- Keyed,
                               effects <- [c \in Keyed |-> effects[c]],
                               answer <- [c \in Keyed |-> Told(c)]
OrderedOnce == Once!Spec

\* "Transport-level failures are surfaced rather than retried" (client.py:158):
\* a call that is not idempotent is executed again only if Toss itself answered
\* a server error to what it had already executed.
PlainOnce == \A c \in Plain : effects[c] <= 1 + errors[c]

\* A retry after a 401 never presents a token it was told is no longer good,
\* whatever the other threads do to the cache meanwhile.
RetryHasNewToken == \A c \in Calls : call[c].at = "ready" => call[c].token \notin call[c].denied

\* Every call returns or raises, and so gives its thread back.
CallReturns == \A c \in Calls : call[c].at # "new" ~> call[c].at \in {"ok", "error"}

\* "401. Token missing, malformed, or expired -> re-issue and retry once"
\* (errors.py:60): after a second 401 a call is not sent again.
AuthRetriedOnce ==
    [][\A c \in Calls : Send(c) => Cardinality(call[c].denied) <= 1]_vars

================================================================================
