--------------------------- MODULE TossRequestProofs ---------------------------
(***************************************************************************)
(* For every set of concurrent calls and every number of retries: an order *)
(* is placed at most once and never reported without being placed (the     *)
(* retry loop implements CallOnce), a call that is not idempotent is not   *)
(* executed again behind Toss's back, and a retry after a 401 has a token   *)
(* the call was not denied before.                                         *)
(***************************************************************************)
EXTENDS TossRequest, TLAPS

Active == {"token", "issue", "ready", "wait", "answered"}

\* The attempts a call has made, and the answer it acts on.
CallInv ==
    \A c \in Calls :
        /\ call[c].at \in Active => call[c].attempt \in Attempts
        /\ call[c].at \notin Active => call[c].attempt = 0
        /\ call[c].at = "answered" => call[c].answer \in Statuses

TypeInv == TypeOK /\ CallInv

CallType == [at : Places, attempt : {0} \cup Attempts, token : Nat,
             answer : {NoAnswer} \cup Statuses, denied : SUBSET Nat]

--------------------------------------------------------------------------------
\* A step that changes the state of one call, and leaves the requests and the
\* lock as they are, keeps the types if it does for that call.
LEMMA OneCall ==
    ASSUME TypeInv, NEW c \in Calls, NEW new \in CallType,
           call' = [call EXCEPT ![c] = new],
           new.at \in Active => new.attempt \in Attempts,
           new.at \notin Active => new.attempt = 0,
           new.at = "answered" => new.answer \in Statuses
    PROVE  /\ call' \in [Calls -> CallType]
           /\ CallInv'
           /\ call'[c] = new
           /\ \A d \in Calls \ {c} : call'[d] = call[d]
  BY DEF TypeInv, TypeOK, CallInv, CallType

\* The next attempt, when there is one left, is a legal one.
LEMMA NextAttemptType ==
    ASSUME TypeInv, NEW c \in Calls, NextAttempt(c), call[c].attempt \in 0..MaxRetries
    PROVE  /\ call' \in [Calls -> CallType]
           /\ CallInv'
           /\ call'[c].at = "token"
           /\ call'[c].denied = call[c].denied
           /\ \A d \in Calls \ {c} : call'[d] = call[d]
<1> DEFINE new == [call[c] EXCEPT !.at = "token", !.attempt = @ + 1, !.token = 0,
                                  !.answer = NoAnswer]
<1>1. call[c] \in CallType
  BY DEF TypeInv, TypeOK, CallType
<1>2. call[c].attempt + 1 \in Attempts
  BY RequestAssumption DEF Attempts
<1>3. new \in CallType /\ new.at = "token" /\ new.attempt \in Attempts
      /\ new.denied = call[c].denied
  BY <1>1, <1>2 DEF CallType, Places
<1>4. call' = [call EXCEPT ![c] = new]
  BY DEF NextAttempt, TypeInv, TypeOK
<1> HIDE DEF new
<1>5. QED
  BY <1>3, <1>4, OneCall DEF Active

\* A call moves to another place, or ends.
LEMMA GotoType ==
    ASSUME TypeInv, NEW c \in Calls, NEW place \in Active \ {"answered"}, Goto(c, place),
           call[c].at \in Active
    PROVE  /\ call' \in [Calls -> CallType]
           /\ CallInv'
           /\ call'[c] = [call[c] EXCEPT !.at = place]
           /\ \A d \in Calls \ {c} : call'[d] = call[d]
<1> DEFINE new == [call[c] EXCEPT !.at = place]
<1>1. call[c] \in CallType
  BY DEF TypeInv, TypeOK, CallType
<1>2. new \in CallType /\ new.at = place /\ new.attempt = call[c].attempt
  BY <1>1 DEF CallType, Places, Active
<1>3. call' = [call EXCEPT ![c] = new]
  BY DEF Goto
<1>4. new.attempt \in Attempts
  BY <1>2 DEF TypeInv, CallInv
<1> HIDE DEF new
<1>5. /\ call' \in [Calls -> CallType] /\ CallInv' /\ call'[c] = new
      /\ \A d \in Calls \ {c} : call'[d] = call[d]
  BY <1>2, <1>3, <1>4, OneCall
<1>6. QED
  BY <1>5 DEF new

LEMMA EndType ==
    ASSUME TypeInv, NEW c \in Calls, NEW place \in {"ok", "error"}, End(c, place)
    PROVE  /\ call' \in [Calls -> CallType]
           /\ CallInv'
           /\ call'[c] = Outside(place)
           /\ \A d \in Calls \ {c} : call'[d] = call[d]
<1>1. Outside(place) \in CallType
  BY DEF Outside, CallType, Places
<1>2. Outside(place).at = place /\ Outside(place).attempt = 0
  BY DEF Outside
<1>3. QED
  BY <1>1, <1>2, OneCall DEF End, Active

\* The attempts a call has made leave room for one more when it may go on.
LEMMA RoomForOneMore ==
    ASSUME TypeInv, NEW c \in Calls, call[c].at \in Active, MayResend(c) \/ MayRetry(c)
    PROVE  call[c].attempt \in 0..MaxRetries
  BY RequestAssumption DEF TypeInv, CallInv, MayResend, MayRetry, Attempts

\* What an answer may change.
LEMMA AnswerType ==
    ASSUME TypeInv, NEW q \in wire \cup working, NEW status \in Statuses, Answer(q, status)
    PROVE  /\ q.call \in Calls
           /\ call' \in [Calls -> CallType]
           /\ CallInv'
           /\ \A d \in Calls :
                  \/ call'[d] = call[d]
                  \/ /\ d = q.call /\ call[d].at = "wait"
                     /\ call'[d].at = "answered" /\ call'[d].answer = status
                     /\ status = "auth" => call'[d].denied = call[d].denied \cup {q.token}
                     /\ status # "auth" => call'[d].denied = call[d].denied
           /\ errors' \in [Plain -> Nat]
<1> DEFINE c == q.call
           new == [call[c] EXCEPT !.at = "answered", !.answer = status,
                      !.denied = IF status = "auth" THEN @ \cup {q.token} ELSE @]
<1>1. c \in Calls /\ q.token \in Nat
  BY DEF TypeInv, TypeOK
<1>2. CASE UNCHANGED <<call, errors>>
  BY <1>1, <1>2 DEF TypeInv, TypeOK, CallInv, CallType
<1>3. CASE /\ call[c].at = "wait"
           /\ call' = [call EXCEPT ![c] = new]
           /\ errors' = IF status = "transient" /\ c \in Plain
                        THEN [errors EXCEPT ![c] = @ + 1] ELSE errors
  <2>1. call[c] \in CallType
    BY <1>1 DEF TypeInv, TypeOK, CallType
  <2>2. /\ new \in CallType /\ new.at = "answered" /\ new.answer = status
        /\ new.attempt = call[c].attempt
        /\ new.denied = IF status = "auth" THEN call[c].denied \cup {q.token}
                                           ELSE call[c].denied
    BY <1>1, <2>1 DEF CallType, Places
  <2>3. new.attempt \in Attempts
    BY <1>1, <1>3, <2>2 DEF TypeInv, CallInv, Active
  <2>4. errors' \in [Plain -> Nat]
    BY <1>3 DEF TypeInv, TypeOK
  <2> HIDE DEF new
  <2>5. /\ call' \in [Calls -> CallType] /\ CallInv' /\ call'[c] = new
        /\ \A d \in Calls \ {c} : call'[d] = call[d]
    BY <1>1, <1>3, <2>2, <2>3, OneCall DEF Active
  <2>6. QED
    BY <1>1, <1>3, <2>2, <2>4, <2>5
<1>4. QED
  BY <1>1, <1>2, <1>3 DEF Answer, TypeInv, TypeOK

--------------------------------------------------------------------------------
LEMMA TypeInit == Init => TypeInv
  BY RequestAssumption
     DEF Init, TokenInit, EndpointInit, Outside, NoAnswer, TypeInv, TypeOK, CallInv,
         Places, Active, Attempts

LEMMA TypeStep ==
    ASSUME TypeInv, [Next]_vars
    PROVE  TypeInv'
<1> USE DEF CallType
<1>1. CASE \E c \in Calls : Start(c)
  <2> PICK c \in Calls : Start(c)
    BY <1>1
  <2>1. call[c].attempt = 0
    BY DEF Start, TypeInv, CallInv, Active
  <2>2. call[c].attempt \in 0..MaxRetries
    BY <2>1, RequestAssumption
  <2> QED
    BY <2>2, NextAttemptType DEF Start, TypeInv, TypeOK, tokens, endpoint
<1>2. CASE \E c \in Calls : TakeToken(c)
  <2> PICK c \in Calls : TakeToken(c)
    BY <1>2
  <2>1. CASE UseCached /\ call' = [call EXCEPT ![c].at = "ready", ![c].token = cached]
    <3> DEFINE new == [call[c] EXCEPT !.at = "ready", !.token = cached]
    <3>1. new \in CallType /\ new.at = "ready" /\ new.attempt = call[c].attempt
      BY DEF TypeInv, TypeOK, Places
    <3>2. new.attempt \in Attempts
      BY <3>1 DEF TypeInv, CallInv, TakeToken, Active
    <3>3. call' = [call EXCEPT ![c] = new]
      BY <2>1
    <3> HIDE DEF new
    <3>4. /\ call' \in [Calls -> CallType] /\ CallInv' /\ call'[c] = new
          /\ \A d \in Calls \ {c} : call'[d] = call[d]
      BY <3>1, <3>2, <3>3, OneCall DEF Active
    <3> QED
      BY <2>1, <3>1, <3>4 DEF TakeToken, UseCached, TypeInv, TypeOK, tokens, endpoint
  <2>2. CASE StartIssue(c) /\ Goto(c, "issue")
    <3>1. /\ call' \in [Calls -> CallType] /\ CallInv'
          /\ call'[c] = [call[c] EXCEPT !.at = "issue"]
          /\ \A d \in Calls \ {c} : call'[d] = call[d]
      BY <2>2, GotoType DEF TakeToken, Active
    <3>2. call'[c].at = "issue"
      BY <3>1 DEF TypeInv, TypeOK
    <3> QED
      BY <2>2, <3>1, <3>2, RequestAssumption
         DEF TakeToken, StartIssue, Free, TypeInv, TypeOK, endpoint
  <2> QED
    BY <2>1, <2>2 DEF TakeToken
<1>3. CASE \E c \in Calls : GetToken(c)
  <2> PICK c \in Calls : GetToken(c)
    BY <1>3
  <2> DEFINE new == [call[c] EXCEPT !.at = "ready", !.token = issued + 1]
  <2>0. call[c] \in CallType /\ issued + 1 \in Nat
    BY DEF TypeInv, TypeOK
  <2>1. new \in CallType /\ new.at = "ready" /\ new.attempt = call[c].attempt
    BY <2>0 DEF Places
  <2>2. new.attempt \in Attempts
    BY <2>1 DEF TypeInv, CallInv, GetToken, Active
  <2>3. call' = [call EXCEPT ![c] = new]
    BY DEF GetToken
  <2> HIDE DEF new
  <2>4. /\ call' \in [Calls -> CallType] /\ CallInv' /\ call'[c] = new
        /\ \A d \in Calls \ {c} : call'[d] = call[d]
    BY <2>1, <2>2, <2>3, OneCall DEF Active
  <2>5. /\ issued' \in Nat /\ cached' \in Nat /\ valid' \subseteq Nat
        /\ holder = c /\ holder' = NoOne
    BY DEF GetToken, Issue, TypeInv, TypeOK
  <2> QED
    BY <2>1, <2>4, <2>5, RequestAssumption DEF GetToken, TypeInv, TypeOK, endpoint
<1>4. CASE \E c \in Calls : TokenFails(c) \/ LookupFails(c)
  <2> PICK c \in Calls : TokenFails(c) \/ LookupFails(c)
    BY <1>4
  <2>1. /\ call' \in [Calls -> CallType] /\ CallInv' /\ call'[c] = Outside("error")
        /\ \A d \in Calls \ {c} : call'[d] = call[d]
    BY EndType DEF TokenFails, LookupFails
  <2>2. call'[c].at = "error"
    BY <2>1 DEF Outside
  <2> QED
    BY <2>1, <2>2, RequestAssumption
       DEF TokenFails, LookupFails, IssueFails, TypeInv, TypeOK, tokens, endpoint
<1>5. CASE \E c \in Calls : Send(c)
  <2> PICK c \in Calls : Send(c)
    BY <1>5
  <2>1. /\ call' \in [Calls -> CallType] /\ CallInv'
        /\ call'[c] = [call[c] EXCEPT !.at = "wait"]
        /\ \A d \in Calls \ {c} : call'[d] = call[d]
    BY GotoType DEF Send, Active
  <2>2. call'[c].at = "wait" /\ call[c].attempt \in Attempts /\ call[c].token \in Nat
    BY <2>1 DEF Send, TypeInv, TypeOK, CallInv, Active
  <2>3. \A q \in wire' \cup working' :
            /\ q.call \in Calls /\ q.attempt \in Attempts /\ q.token \in Nat
            /\ q.key = Key(q.call, q.attempt)
    BY <2>2 DEF Send, TypeInv, TypeOK
  <2> QED
    BY <2>1, <2>2, <2>3 DEF Send, TypeInv, TypeOK, tokens, Key
<1>6. CASE \E c \in Calls : TransportError(c) \/ Retry(c)
  <2> PICK c \in Calls : TransportError(c) \/ Retry(c)
    BY <1>6
  <2>1. CASE NextAttempt(c) /\ (MayResend(c) \/ MayRetry(c))
    <3>1. call[c].at \in Active /\ call[c].at # "issue"
      BY DEF TransportError, Retry, Active
    <3>2. /\ call' \in [Calls -> CallType] /\ CallInv' /\ call'[c].at = "token"
          /\ \A d \in Calls \ {c} : call'[d] = call[d]
      BY <2>1, <3>1, RoomForOneMore, NextAttemptType
    <3>3. /\ issued' = issued /\ cached' \in Nat /\ valid' = valid /\ holder' = holder
          /\ UNCHANGED <<wire, working, effects, errors>>
      BY DEF TransportError, Retry, Invalidate, TypeInv, TypeOK, tokens, endpoint
    <3> QED
      BY <3>1, <3>2, <3>3 DEF TypeInv, TypeOK, Key
  <2>2. CASE TransportError(c) /\ End(c, "error")
    <3>1. /\ call' \in [Calls -> CallType] /\ CallInv' /\ call'[c] = Outside("error")
          /\ \A d \in Calls \ {c} : call'[d] = call[d]
      BY <2>2, EndType
    <3>2. call'[c].at = "error"
      BY <3>1 DEF Outside
    <3> QED
      BY <2>2, <3>1, <3>2 DEF TransportError, TypeInv, TypeOK, tokens, endpoint
  <2> QED
    BY <2>1, <2>2 DEF TransportError, Retry
<1>7. CASE \E c \in Calls : Succeed(c) \/ Raise(c)
  <2> PICK c \in Calls, place \in {"ok", "error"} :
          /\ call[c].at = "answered" /\ End(c, place)
          /\ UNCHANGED <<tokens, endpoint, errors>>
    BY <1>7 DEF Succeed, Raise
  <2>1. /\ call' \in [Calls -> CallType] /\ CallInv' /\ call'[c] = Outside(place)
        /\ \A d \in Calls \ {c} : call'[d] = call[d]
    BY EndType
  <2>2. call'[c].at = place
    BY <2>1 DEF Outside
  <2> QED
    BY <2>1, <2>2 DEF TypeInv, TypeOK, tokens, endpoint
<1>8. CASE \E q \in wire \cup working, status \in Statuses : Serve(q, status)
  <2> PICK q \in wire \cup working, status \in Statuses : Serve(q, status)
    BY <1>8
  <2>1. /\ q.call \in Calls /\ call' \in [Calls -> CallType] /\ CallInv'
        /\ errors' \in [Plain -> Nat]
        /\ \A d \in Calls : \/ call'[d] = call[d]
                            \/ call[d].at = "wait" /\ call'[d].at = "answered"
    <3>1. Answer(q, status)
      BY DEF Serve
    <3>2. /\ q.call \in Calls /\ call' \in [Calls -> CallType] /\ CallInv'
          /\ errors' \in [Plain -> Nat]
      BY <3>1, AnswerType
    <3>3. \A d \in Calls : \/ call'[d] = call[d]
                           \/ call[d].at = "wait" /\ call'[d].at = "answered"
      BY <3>1, AnswerType
    <3> QED
      BY <3>2, <3>3
  <2>2. wire' \cup working' \subseteq wire \cup working /\ effects' \in [Calls -> Nat]
    BY <2>1 DEF Serve, Refuse, Complete, Abandon, Replay, TypeInv, TypeOK
  <2> QED
    BY <2>1, <2>2 DEF Serve, TypeInv, TypeOK, tokens, Key
<1>9. CASE \E q \in wire : TakeUp(q)
  BY <1>9 DEF TakeUp, Begin, TypeInv, TypeOK, CallInv, tokens, Key
<1>10. CASE \E token \in valid : Expire(token)
  BY <1>10 DEF Expire, Revoke, TypeInv, TypeOK, CallInv, endpoint, Key
<1>11. CASE UNCHANGED vars
  BY <1>11 DEF vars, tokens, endpoint, TypeInv, TypeOK, CallInv, Key
<1>12. QED
  BY <1>1, <1>2, <1>3, <1>4, <1>5, <1>6, <1>7, <1>8, <1>9, <1>10, <1>11 DEF Next, Advance

\* The types hold throughout; in particular no call makes more than
\* max_retries + 1 attempts.
THEOREM TypeCorrect == Spec => []TypeOK
<1>1. Spec => []TypeInv
  BY TypeInit, TypeStep, PTL DEF Spec
<1>2. TypeInv => TypeOK
  BY DEF TypeInv
<1>3. QED
  BY <1>1, <1>2, PTL

--------------------------------------------------------------------------------
\* The steps of a call that has started, and what they have in common: they
\* leave the endpoint alone (but for Send) and the other calls as they are.
ClientStep(c) == Start(c) \/ Advance(c)

LEMMA ClientEffect ==
    ASSUME TypeInv, NEW c \in Calls, ClientStep(c)
    PROVE  /\ UNCHANGED <<working, done, effects, errors>>
           /\ \A d \in Calls \ {c} : call'[d] = call[d]
           /\ call'[c].at \notin {"new", "answered"}
           /\ call'[c].at \in {"ok", "error"} => call[c].at \in Active
           /\ call[c].at \notin {"ok", "error"}
           /\ call'[c].at = "ok" =>
                  call[c].at = "answered" /\ call[c].answer = "success"
<1> USE DEF TypeInv, TypeOK, Places, Active, endpoint
<1>1. CASE Start(c)
  BY <1>1 DEF Start, NextAttempt
<1>2. CASE TakeToken(c) \/ GetToken(c) \/ Send(c)
  BY <1>2 DEF TakeToken, GetToken, Send, Goto
<1>3. CASE TokenFails(c) \/ LookupFails(c) \/ Succeed(c) \/ Raise(c)
  BY <1>3 DEF TokenFails, LookupFails, Succeed, Raise, End, Outside
<1>4. CASE TransportError(c)
  BY <1>4 DEF TransportError, NextAttempt, End, Outside
<1>5. CASE Retry(c)
  BY <1>5 DEF Retry, NextAttempt
<1>6. QED
  BY <1>1, <1>2, <1>3, <1>4, <1>5 DEF ClientStep, Advance

\* The steps of the next-state relation, by who takes them.
LEMMA NextSteps ==
    ASSUME Next
    PROVE  \/ \E c \in Calls : ClientStep(c)
           \/ \E q \in wire \cup working, status \in Statuses : Serve(q, status)
           \/ \E q \in wire : TakeUp(q)
           \/ \E token \in valid : Expire(token)
  BY DEF Next, ClientStep

--------------------------------------------------------------------------------
\* At most one request of an order is being executed, none once the order
\* exists, and success is answered only then.
OnceInv ==
    \A c \in Keyed :
        /\ effects[c] = IF c \in done THEN 1 ELSE 0
        /\ c \in done => \A w \in working : w.key # c
        /\ \A v, w \in working : v.key = c /\ w.key = c => v = w
        /\ call[c].at = "answered" /\ call[c].answer = "success" => c \in done

\* A request carries its order's key, and only its own requests do.
LEMMA KeyOfCall ==
    ASSUME TypeInv, NEW q \in wire \cup working, NEW c \in Keyed
    PROVE  q.key = c <=> q.call = c
  BY RequestAssumption DEF TypeInv, TypeOK, Key, Calls

LEMMA OnceInit == Init => OnceInv
  BY DEF Init, EndpointInit, OnceInv, Calls, Outside

\* An execution that completes is the first one of its order.
LEMMA CompleteOnce ==
    ASSUME TypeInv, OnceInv, NEW q \in working, NEW status, Complete(q, status)
    PROVE  \A c \in Keyed :
               /\ c # q.call => effects'[c] = effects[c] /\ (c \in done' <=> c \in done)
               /\ c = q.call => effects[c] = 0 /\ effects'[c] = 1 /\ c \in done'
<1> SUFFICES ASSUME NEW c \in Keyed
             PROVE  /\ c # q.call => effects'[c] = effects[c] /\ (c \in done' <=> c \in done)
                    /\ c = q.call => effects[c] = 0 /\ effects'[c] = 1 /\ c \in done'
  OBVIOUS
<1>1. q.key = c <=> q.call = c
  BY KeyOfCall
<1>2. c \in Calls /\ q.call \in Calls /\ c # NoKey
  BY RequestAssumption DEF Calls, TypeInv, TypeOK
<1>3. CASE c # q.call
  BY <1>1, <1>2, <1>3 DEF Complete, TypeInv, TypeOK
<1>4. CASE c = q.call
  <2>1. c \notin done /\ effects[c] = 0
    BY <1>1, <1>4 DEF OnceInv
  <2>2. QED
    BY <1>1, <1>2, <1>4, <2>1 DEF Complete, TypeInv, TypeOK
<1>5. QED
  BY <1>3, <1>4

LEMMA OnceStep ==
    ASSUME TypeInv, OnceInv, [Next]_vars
    PROVE  OnceInv'
<1> SUFFICES ASSUME NEW c \in Keyed
             PROVE  /\ effects'[c] = IF c \in done' THEN 1 ELSE 0
                    /\ c \in done' => \A w \in working' : w.key # c
                    /\ \A v, w \in working' : v.key = c /\ w.key = c => v = w
                    /\ call'[c].at = "answered" /\ call'[c].answer = "success" => c \in done'
  BY DEF OnceInv
<1>0. c \in Calls /\ c # NoKey
  BY RequestAssumption DEF Calls
<1>1. ASSUME NEW d \in Calls, ClientStep(d)
      PROVE  /\ UNCHANGED <<working, done, effects>>
             /\ call'[c] = call[c] \/ call'[c].at # "answered"
  BY <1>0, <1>1, ClientEffect
<1>2. ASSUME NEW q \in wire \cup working, NEW status \in Statuses, Serve(q, status)
      PROVE  /\ effects'[c] = IF c \in done' THEN 1 ELSE 0
             /\ c \in done' => \A w \in working' : w.key # c
             /\ working' \subseteq working
             /\ call'[c].at = "answered" /\ call'[c].answer = "success" => c \in done'
  <2>1. \/ call'[c] = call[c]
        \/ c = q.call /\ call'[c].answer = status
    <3>1. Answer(q, status)
      BY <1>2 DEF Serve
    <3>2. \A d \in Calls :
              \/ call'[d] = call[d]
              \/ /\ d = q.call /\ call[d].at = "wait"
                 /\ call'[d].at = "answered" /\ call'[d].answer = status
      BY <3>1, AnswerType
    <3>3. QED
      BY <1>0, <3>2
  <2>2. q.key = c <=> q.call = c
    BY KeyOfCall
  <2>3. CASE Refuse(q, status, valid) \/ Abandon(q, status) \/ Replay(q, status, valid)
    <3>1. done' = done /\ effects' = effects /\ working' \subseteq working
      BY <2>3 DEF Refuse, Abandon, Replay
    <3>2. status = "success" => q.key \in done
      BY <2>3 DEF Refuse, Refusals, Abandon, Replay
    <3>3. QED
      BY <2>1, <2>2, <3>1, <3>2 DEF OnceInv
  <2>4. CASE Complete(q, status)
    <3>1. q \in working /\ working' = working \ {q}
      BY <2>4 DEF Complete
    <3>2. /\ c # q.call => effects'[c] = effects[c] /\ (c \in done' <=> c \in done)
          /\ c = q.call => effects[c] = 0 /\ effects'[c] = 1 /\ c \in done'
      BY <2>4, <3>1, CompleteOnce
    <3>3. QED
      BY <2>1, <2>2, <3>1, <3>2 DEF OnceInv
  <2>5. QED
    BY <1>2, <2>3, <2>4 DEF Serve
<1>3. ASSUME NEW q \in wire, TakeUp(q)
      PROVE  /\ UNCHANGED <<done, effects, call>>
             /\ c \in done => \A w \in working' : w.key # c
             /\ \A v, w \in working' : v.key = c /\ w.key = c => v = w
  BY <1>0, <1>3 DEF TakeUp, Begin, InProgress, OnceInv
<1>4. CASE \E token \in valid : Expire(token)
  BY <1>4 DEF Expire, endpoint, OnceInv
<1>5. CASE UNCHANGED vars
  BY <1>5 DEF vars, endpoint, OnceInv
<1>6. CASE \E d \in Calls : ClientStep(d)
  BY <1>1, <1>6 DEF OnceInv
<1>7. CASE \E q \in wire \cup working, status \in Statuses : Serve(q, status)
  <2>1. \A v, w \in working : v.key = c /\ w.key = c => v = w
    BY DEF OnceInv
  <2>2. QED
    BY <1>2, <1>7, <2>1
<1>8. CASE \E q \in wire : TakeUp(q)
  BY <1>3, <1>8 DEF OnceInv
<1>9. QED
  BY <1>4, <1>5, <1>6, <1>7, <1>8, NextSteps

\* A call that has ended, or waits for an answer, is told nothing new by one.
LEMMA AnswerTellsNothing ==
    ASSUME TypeInv, NEW q \in wire \cup working, NEW status \in Statuses,
           Answer(q, status), NEW c \in Keyed
    PROVE  Told(c)' = Told(c)
  BY AnswerType DEF Told, Calls

\* Every step of the retry loop is a step of CallOnce, or none.
LEMMA RefinementStep ==
    ASSUME TypeInv, OnceInv, [Next]_vars
    PROVE  [Once!Next]_(Once!vars)
<1> DEFINE E == [c \in Keyed |-> effects[c]]
           A == [c \in Keyed |-> Told(c)]
<1>1. ASSUME NEW c \in Calls, ClientStep(c)
      PROVE  [Once!Next]_(Once!vars)
  <2>1. E' = E
    BY <1>1, ClientEffect
  <2>2. \A d \in Keyed \ {c} : Told(d)' = Told(d)
    BY <1>1, ClientEffect DEF Told, Calls
  <2>3. CASE c \notin Keyed \/ call'[c].at \notin {"ok", "error"}
    <3>1. A' = A
      BY <1>1, <2>2, <2>3, ClientEffect DEF Told
    <3>2. QED
      BY <2>1, <3>1 DEF Once!vars
  <2>4. CASE c \in Keyed /\ call'[c].at = "ok"
    <3>1. Told(c) = "none" /\ Told(c)' = "ok" /\ effects[c] = 1
      BY <1>1, <2>4, ClientEffect DEF Told, OnceInv
    <3>2. A' = [A EXCEPT ![c] = "ok"]
      BY <2>2, <2>4, <3>1
    <3>3. Once!Succeed(c)
      BY <2>1, <2>4, <3>1, <3>2 DEF Once!Succeed
    <3>4. QED
      BY <2>4, <3>3 DEF Once!Next
  <2>5. CASE c \in Keyed /\ call'[c].at = "error"
    <3>1. Told(c) = "none" /\ Told(c)' = "error"
      BY <1>1, <2>5, ClientEffect DEF Told
    <3>2. A' = [A EXCEPT ![c] = "error"]
      BY <2>2, <2>5, <3>1
    <3>3. Once!Fail(c)
      BY <2>1, <2>5, <3>1, <3>2 DEF Once!Fail
    <3>4. QED
      BY <2>5, <3>3 DEF Once!Next
  <2>6. QED
    BY <2>3, <2>4, <2>5
<1>2. ASSUME NEW q \in wire \cup working, NEW status \in Statuses, Serve(q, status)
      PROVE  [Once!Next]_(Once!vars)
  <2>1. A' = A
    BY <1>2, AnswerTellsNothing DEF Serve
  <2>2. CASE Complete(q, status) /\ q.call \in Keyed
    <3>1. q \in working
      BY <2>2 DEF Complete
    <3>2. /\ effects[q.call] = 0 /\ effects'[q.call] = 1
          /\ \A c \in Keyed \ {q.call} : effects'[c] = effects[c]
      BY <2>2, <3>1, CompleteOnce
    <3>3. E' = [E EXCEPT ![q.call] = 1]
      BY <2>2, <3>2
    <3>4. Once!TakeEffect(q.call)
      BY <2>1, <2>2, <3>2, <3>3 DEF Once!TakeEffect
    <3>5. QED
      BY <2>2, <3>4 DEF Once!Next
  <2>3. CASE ~(Complete(q, status) /\ q.call \in Keyed)
    <3>1. \A c \in Keyed : effects'[c] = effects[c]
      BY <1>2, <2>3
         DEF Serve, Refuse, Complete, Abandon, Replay, TypeInv, TypeOK, Calls
    <3>2. QED
      BY <2>1, <3>1 DEF Once!vars
  <2>4. QED
    BY <2>2, <2>3
<1>3. CASE \/ \E q \in wire : TakeUp(q)
           \/ \E token \in valid : Expire(token)
           \/ UNCHANGED vars
  <2>1. E' = E /\ A' = A
    BY <1>3 DEF TakeUp, Begin, Expire, vars, endpoint, Told
  <2>2. QED
    BY <2>1 DEF Once!vars
<1>4. QED
  BY <1>1, <1>2, <1>3, NextSteps

\* However requests are delayed, lost and repeated, and whatever the other
\* calls do, an order is placed at most once and reported only when placed.
THEOREM OrdersOnce == Spec => OrderedOnce
<1>1. Init => TypeInv /\ OnceInv
  BY TypeInit, OnceInit
<1>2. TypeInv /\ OnceInv /\ [Next]_vars => TypeInv' /\ OnceInv'
  BY TypeStep, OnceStep
<1>3. Init => Once!Init
  BY DEF Init, EndpointInit, Once!Init, Calls, Told, Outside
<1>4. TypeInv /\ OnceInv /\ [Next]_vars => [Once!Next]_(Once!vars)
  BY RefinementStep
<1>5. QED
  BY <1>1, <1>2, <1>3, <1>4, PTL DEF Spec, OrderedOnce, Once!Spec

--------------------------------------------------------------------------------
\* What a call knows of tokens: the cached one has not been denied to it, unless
\* it is about to invalidate it.
TokenOK(c) ==
    /\ call[c].denied \subseteq 1..issued
    /\ call[c].at \in {"ready", "wait"} => call[c].token \in 1..issued
    /\ call[c].at = "ready" => call[c].token \notin call[c].denied
    /\ cached \in call[c].denied => call[c].at = "answered" /\ call[c].answer = "auth"

\* Tokens are numbered as they are issued.
TokenInv ==
    /\ cached <= issued
    /\ \A q \in wire \cup working : q.token \in 1..issued
    /\ \A c \in Calls : TokenOK(c)

LEMMA TokenStart == Init => TokenInv
  BY DEF Init, TokenInit, EndpointInit, Outside, TokenInv, TokenOK

\* A step of a call keeps the invariant.
LEMMA TokenClient ==
    ASSUME TypeInv, TypeInv', TokenInv, NEW c \in Calls, ClientStep(c)
    PROVE  TokenInv'
<1> USE DEF TypeInv, TypeOK, endpoint, tokens
<1>0. /\ \A d \in Calls : TokenOK(d)
      /\ cached \in Nat /\ issued \in Nat
  BY DEF TokenInv, TokenOK
<1>1. CASE Start(c)
  BY <1>0, <1>1 DEF Start, NextAttempt, TokenInv, TokenOK
<1>2. CASE TakeToken(c)
  <2>1. CASE UseCached /\ call' = [call EXCEPT ![c].at = "ready", ![c].token = cached]
    <3>1. cached \in 1..issued /\ cached \notin call[c].denied
      BY <1>0, <1>2, <2>1 DEF TakeToken, UseCached, TokenInv, TokenOK
    <3>2. UNCHANGED <<wire, working, issued, cached>>
      BY <1>2, <2>1 DEF TakeToken, UseCached
    <3>3. QED
      BY <1>0, <2>1, <3>1, <3>2 DEF TokenInv, TokenOK
  <2>2. CASE StartIssue(c) /\ Goto(c, "issue")
    BY <1>0, <1>2, <2>2 DEF TakeToken, StartIssue, Goto, TokenInv, TokenOK
  <2>3. QED
    BY <1>2, <2>1, <2>2 DEF TakeToken
<1>3. CASE GetToken(c)
  <2>1. /\ issued' = issued + 1 /\ cached' = issued + 1
        /\ UNCHANGED <<wire, working>>
        /\ call' = [call EXCEPT ![c].at = "ready", ![c].token = issued + 1]
    BY <1>3 DEF GetToken, Issue
  <2>2. \A d \in Calls : issued + 1 \notin call[d].denied /\ call'[d].denied = call[d].denied
    BY <1>0, <2>1 DEF TokenOK
  <2>3. \A d \in Calls : TokenOK(d)'
    BY <1>0, <2>1, <2>2 DEF TokenOK
  <2>4. QED
    BY <1>0, <2>1, <2>3 DEF TokenInv, TokenOK
<1>4. CASE TokenFails(c) \/ LookupFails(c) \/ Succeed(c) \/ Raise(c)
  <2>1. /\ UNCHANGED <<wire, working, issued, cached>>
        /\ call' = [call EXCEPT ![c] = Outside("error")] \/ call' = [call EXCEPT ![c] = Outside("ok")]
    BY <1>4 DEF TokenFails, LookupFails, Succeed, Raise, IssueFails, End
  <2>2. QED
    BY <1>0, <2>1 DEF Outside, TokenInv, TokenOK
<1>5. CASE Send(c)
  BY <1>0, <1>5 DEF Send, Goto, TokenInv, TokenOK
<1>6. CASE TransportError(c)
  BY <1>0, <1>6 DEF TransportError, NextAttempt, End, Outside, TokenInv, TokenOK
<1>7. CASE Retry(c)
  BY <1>0, <1>7 DEF Retry, Invalidate, NextAttempt, TokenInv, TokenOK
<1>8. QED
  BY <1>1, <1>2, <1>3, <1>4, <1>5, <1>6, <1>7 DEF ClientStep, Advance

LEMMA TokenStep ==
    ASSUME TypeInv, TypeInv', TokenInv, [Next]_vars
    PROVE  TokenInv'
<1>1. CASE \E c \in Calls : ClientStep(c)
  BY <1>1, TokenClient
<1>2. ASSUME NEW q \in wire \cup working, NEW status \in Statuses, Serve(q, status)
      PROVE  TokenInv'
  <2>1. UNCHANGED <<cached, issued>> /\ wire' \cup working' \subseteq wire \cup working
    BY <1>2 DEF Serve, Refuse, Complete, Abandon, Replay, tokens
  <2>2. Answer(q, status)
    BY <1>2 DEF Serve
  <2>3. ASSUME NEW d \in Calls
        PROVE  \/ call'[d] = call[d]
               \/ /\ call'[d].at = "answered" /\ call'[d].answer = status
                  /\ status = "auth" => call'[d].denied = call[d].denied \cup {q.token}
                  /\ status # "auth" => call'[d].denied = call[d].denied
                  /\ call[d].at = "wait"
    BY <2>2, AnswerType
  <2>4. q.token \in 1..issued
    BY DEF TokenInv
  <2>5. ASSUME NEW d \in Calls PROVE TokenOK(d)'
    <3>1. TokenOK(d)
      BY DEF TokenInv, TokenOK
    <3>2. QED
      BY <2>1, <2>3, <2>4, <3>1 DEF TokenOK
  <2>6. QED
    BY <2>1, <2>5 DEF TokenInv, TokenOK
<1>3. CASE \E q \in wire : TakeUp(q)
  BY <1>3 DEF TakeUp, Begin, TokenInv, TokenOK, tokens
<1>4. CASE \E token \in valid : Expire(token)
  BY <1>4 DEF Expire, Revoke, TokenInv, TokenOK, endpoint
<1>5. CASE UNCHANGED vars
  BY <1>5 DEF vars, tokens, endpoint, TokenInv, TokenOK
<1>6. QED
  BY <1>1, <1>2, <1>3, <1>4, <1>5, NextSteps

\* A retry after a 401 never presents a token its call was denied, whatever
\* other calls do to the shared cache.
THEOREM RetriesHaveNewTokens == Spec => []RetryHasNewToken
<1>1. Init => TypeInv /\ TokenInv
  BY TypeInit, TokenStart
<1>2. TypeInv /\ TokenInv /\ [Next]_vars => TypeInv' /\ TokenInv'
  BY TypeStep, TokenStep
<1>3. TokenInv => RetryHasNewToken
  BY DEF TokenInv, TokenOK, RetryHasNewToken
<1>4. QED
  BY <1>1, <1>2, <1>3, PTL DEF Spec

--------------------------------------------------------------------------------
Out(c) == {q \in wire \cup working : q.call = c}

\* A call that is not idempotent has at most one request that may still take
\* effect, and none while it prepares the next one or acts on an answer.
PlainOK(c) ==
    /\ \A q, r \in Out(c) : q = r
    /\ \A q \in Out(c) : ~(q \in wire /\ q \in working)
    /\ call[c].at \notin {"wait", "ok", "error"} => Out(c) = {}
    /\ effects[c] <= 1 + errors[c]
    /\ Out(c) # {} => effects[c] <= errors[c]
    /\ call[c].at \in {"new", "token", "issue", "ready"} => effects[c] <= errors[c]
    /\ call[c].at = "answered" /\ call[c].answer \in {"transient", "auth", "in-progress"}
           => effects[c] <= errors[c]

PlainInv == \A c \in Plain : PlainOK(c)

LEMMA PlainStart == Init => PlainInv
  BY DEF Init, EndpointInit, Calls, Outside, PlainInv, PlainOK, Out

\* How an answer is counted.
LEMMA AnswerCounts ==
    ASSUME TypeInv, NEW q \in wire \cup working, NEW status \in Statuses,
           Answer(q, status), NEW c \in Plain
    PROVE  \/ call'[c] = call[c] /\ errors'[c] = errors[c]
           \/ /\ c = q.call /\ call[c].at = "wait"
              /\ call'[c].at = "answered" /\ call'[c].answer = status
              /\ status = "transient" => errors'[c] = errors[c] + 1
              /\ status # "transient" => errors'[c] = errors[c]
<1>1. c \in Calls /\ q.call \in Calls
  BY DEF Calls, TypeInv, TypeOK
<1>2. CASE UNCHANGED <<call, errors>>
  BY <1>2
<1>3. CASE /\ call[q.call].at = "wait"
           /\ call' = [call EXCEPT ![q.call].at = "answered", ![q.call].answer = status,
                  ![q.call].denied = IF status = "auth" THEN @ \cup {q.token} ELSE @]
           /\ errors' = IF status = "transient" /\ q.call \in Plain
                        THEN [errors EXCEPT ![q.call] = @ + 1] ELSE errors
  <2>1. /\ q.call # c => call'[c] = call[c]
        /\ call'[q.call].at = "answered" /\ call'[q.call].answer = status
    BY <1>1, <1>3 DEF TypeInv, TypeOK
  <2>2. /\ q.call # c \/ status # "transient" => errors'[c] = errors[c]
        /\ q.call = c /\ status = "transient" => errors'[c] = errors[c] + 1
    BY <1>3 DEF TypeInv, TypeOK
  <2>3. QED
    BY <1>3, <2>1, <2>2
<1>4. QED
  BY <1>2, <1>3 DEF Answer

\* A step of the call itself.
LEMMA PlainClient ==
    ASSUME TypeInv, PlainInv, NEW d \in Calls, ClientStep(d), NEW c \in Plain
    PROVE  PlainOK(c)'
<1>1. c \in Calls /\ c \notin Keyed /\ PlainOK(c)
  BY RequestAssumption DEF Calls, PlainInv
<1>2. effects' = effects /\ errors' = errors /\ working' = working
  BY ClientEffect
<1>3. CASE Send(d)
  <2>1. \A q \in wire' \cup working : q \in wire \cup working \/ q.call = d
    BY <1>3 DEF Send
  <2>2. CASE d # c
    <3>1. Out(c)' = Out(c) /\ \A q \in Out(c) : q \in wire' => q \in wire
      BY <1>2, <1>3, <2>2 DEF Send, Out
    <3>2. call'[c] = call[c]
      BY <1>1, <2>2, ClientEffect
    <3>3. QED
      BY <1>1, <1>2, <3>1, <3>2 DEF PlainOK
  <2>3. CASE d = c
    <3> DEFINE new == [call |-> c, attempt |-> call[c].attempt,
                       key |-> Key(c, call[c].attempt), token |-> call[c].token]
    <3>1. Out(c) = {} /\ effects[c] <= errors[c]
      BY <1>1, <1>3, <2>3 DEF Send, PlainOK
    <3>2. wire' = wire \cup {new} /\ new.call = c
      BY <1>3, <2>3 DEF Send
    <3>3. Out(c)' = {new} /\ new \notin working
      BY <1>2, <3>1, <3>2 DEF Out
    <3>4. call'[c].at = "wait"
      BY <1>1, <1>3, <2>3 DEF Send, Goto, TypeInv, TypeOK
    <3>5. effects[c] \in Nat /\ errors[c] \in Nat
      BY <1>1 DEF TypeInv, TypeOK
    <3> HIDE DEF new
    <3>6. QED
      BY <1>2, <3>1, <3>3, <3>4, <3>5 DEF PlainOK
  <2>4. QED
    BY <2>2, <2>3
<1>4. CASE ~Send(d)
  <2>1. wire' = wire
    BY <1>4 DEF ClientStep, Advance, Start, TakeToken, GetToken, TokenFails, LookupFails,
                TransportError, Succeed, Retry, Raise, endpoint
  <2>2. Out(c)' = Out(c)
    BY <1>2, <2>1 DEF Out
  <2>3. CASE d # c
    <3>1. call'[c] = call[c]
      BY <1>1, <2>3, ClientEffect
    <3>2. QED
      BY <1>1, <1>2, <2>1, <2>2, <3>1 DEF PlainOK
  <2>4. CASE d = c
    <3>1. \/ call'[c].at \in {"ok", "error"}
          \/ /\ call'[c].at \in {"token", "issue", "ready"}
             /\ \/ call[c].at \in {"new", "token", "issue"}
                \/ /\ call[c].at = "answered"
                   /\ call[c].answer \in {"transient", "auth", "in-progress"}
      <4> USE DEF TypeInv, TypeOK
      <4>1. CASE Start(c)
        BY <1>1, <4>1 DEF Start, NextAttempt
      <4>2. CASE TakeToken(c) \/ GetToken(c)
        BY <1>1, <4>2 DEF TakeToken, GetToken, Goto
      <4>3. CASE TokenFails(c) \/ LookupFails(c) \/ Succeed(c) \/ Raise(c)
        BY <1>1, <4>3 DEF TokenFails, LookupFails, Succeed, Raise, End, Outside
      <4>4. CASE TransportError(c)
        BY <1>1, <4>4 DEF TransportError, MayResend, End, Outside
      <4>5. CASE Retry(c)
        BY <1>1, <4>5 DEF Retry, MayRetry, NextAttempt
      <4>6. QED
        BY <1>4, <2>4, <4>1, <4>2, <4>3, <4>4, <4>5 DEF ClientStep, Advance
    <3>2. QED
      BY <1>1, <1>2, <2>1, <2>2, <3>1 DEF PlainOK
  <2>5. QED
    BY <2>3, <2>4
<1>5. QED
  BY <1>3, <1>4

\* A step of the endpoint.
LEMMA PlainServe ==
    ASSUME TypeInv, PlainInv, NEW q \in wire \cup working, NEW status \in Statuses,
           Serve(q, status), NEW c \in Plain
    PROVE  PlainOK(c)'
<1>1. c \in Calls /\ PlainOK(c) /\ effects[c] \in Nat /\ errors[c] \in Nat /\ q.call \in Calls
  BY DEF Calls, PlainInv, TypeInv, TypeOK
<1>2. \/ call'[c] = call[c] /\ errors'[c] = errors[c]
      \/ /\ c = q.call /\ call[c].at = "wait"
         /\ call'[c].at = "answered" /\ call'[c].answer = status
         /\ status = "transient" => errors'[c] = errors[c] + 1
         /\ status # "transient" => errors'[c] = errors[c]
  BY AnswerCounts DEF Serve
<1>3. /\ wire' \subseteq wire /\ working' \subseteq working
      /\ \/ wire' = wire \ {q} /\ working' = working /\ q \in wire
         \/ wire' = wire /\ working' = working \ {q} /\ q \in working
  BY DEF Serve, Refuse, Complete, Abandon, Replay
<1>4. \/ effects'[c] = effects[c]
      \/ /\ q.call = c /\ effects'[c] = effects[c] + 1
         /\ status \in {"success", "transient"}
  BY <1>1 DEF Serve, Refuse, Complete, Abandon, Replay, TypeInv, TypeOK
<1>5. CASE q.call # c
  <2>1. Out(c)' = Out(c)
    BY <1>3, <1>5 DEF Out
  <2>2. QED
    BY <1>1, <1>2, <1>3, <1>4, <1>5, <2>1 DEF PlainOK
<1>6. CASE q.call = c
  <2>1. Out(c) = {q} /\ ~(q \in wire /\ q \in working)
    BY <1>1, <1>6 DEF Out, PlainOK
  <2>2. Out(c)' = {}
    BY <1>3, <2>1 DEF Out
  <2>3. effects[c] <= errors[c] /\ call[c].at \in {"wait", "ok", "error"}
    BY <1>1, <2>1 DEF PlainOK
  <2>4. QED
    BY <1>1, <1>2, <1>4, <2>2, <2>3 DEF PlainOK
<1>7. QED
  BY <1>5, <1>6

LEMMA PlainStep ==
    ASSUME TypeInv, PlainInv, [Next]_vars
    PROVE  PlainInv'
<1>1. CASE \E d \in Calls : ClientStep(d)
  BY <1>1, PlainClient DEF PlainInv
<1>2. CASE \E q \in wire \cup working, status \in Statuses : Serve(q, status)
  BY <1>2, PlainServe DEF PlainInv
<1>3. CASE \E q \in wire : TakeUp(q)
  <2> PICK q \in wire : TakeUp(q)
    BY <1>3
  <2> SUFFICES ASSUME NEW c \in Plain PROVE PlainOK(c)'
    BY DEF PlainInv
  <2>1. PlainOK(c)
    BY DEF PlainInv
  <2>2. /\ wire' = wire \ {q} /\ working' = working \cup {q}
        /\ UNCHANGED <<call, errors, effects>>
    BY DEF TakeUp, Begin
  <2>3. Out(c)' = Out(c)
    BY <2>2 DEF Out
  <2>4. QED
    BY <2>1, <2>2, <2>3 DEF PlainOK
<1>4. CASE (\E token \in valid : Expire(token)) \/ UNCHANGED vars
  BY <1>4 DEF Expire, vars, endpoint, PlainInv, PlainOK, Out
<1>5. QED
  BY <1>1, <1>2, <1>3, <1>4, NextSteps

\* A call that is not idempotent is executed again only when Toss answered a
\* server error to what it had executed.
THEOREM PlainExecutedOnce == Spec => []PlainOnce
<1>1. Init => TypeInv /\ PlainInv
  BY TypeInit, PlainStart
<1>2. TypeInv /\ PlainInv /\ [Next]_vars => TypeInv' /\ PlainInv'
  BY TypeStep, PlainStep
<1>3. PlainInv => PlainOnce
  BY DEF PlainInv, PlainOK, PlainOnce
<1>4. QED
  BY <1>1, <1>2, <1>3, PTL DEF Spec

================================================================================
