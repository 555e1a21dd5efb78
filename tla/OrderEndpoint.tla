------------------------------ MODULE OrderEndpoint ------------------------------
(***************************************************************************)
(* Toss's endpoints and the network before them (external): what           *)
(* toss/client.py and its tests rely on.  A request waits on the wire for  *)
(* as long as it likes, also after its client has given up, and may never  *)
(* arrive.  A request with a key (clientOrderId) is executed once: asked   *)
(* again meanwhile Toss answers 409 request-in-progress, and afterwards    *)
(* the original order.  A rejected order leaves its key unused.            *)
(***************************************************************************)
EXTENDS Naturals, FiniteSets

CONSTANT NoKey   \* the key of a request that has none

VARIABLES wire,     \* requests sent and not yet taken up
          working,  \* requests being executed
          done,     \* keys whose order exists
          effects   \* executions that took effect, by call

endpoint == <<wire, working, done, effects>>

EndpointInit(calls) ==
    /\ wire = {}
    /\ working = {}
    /\ done = {}
    /\ effects = [c \in calls |-> 0]

InProgress(key) == key # NoKey /\ \E w \in working : w.key = key

\* Refusals before anything is executed: 401 for a token that is not valid,
\* 409 while the same order is in progress, and at any time a transient error
\* (429, 5xx) or a final one (any other).
Refusals(q, valid) ==
    {"transient", "final"}
        \cup (IF q.token \notin valid THEN {"auth"} ELSE {})
        \cup (IF InProgress(q.key) THEN {"in-progress"} ELSE {})

Refuse(q, status, valid) ==
    /\ q \in wire
    /\ status \in Refusals(q, valid)
    /\ wire' = wire \ {q}
    /\ UNCHANGED <<working, done, effects>>

Begin(q, valid) ==
    /\ q \in wire
    /\ q.token \in valid
    /\ q.key \notin done /\ ~InProgress(q.key)
    /\ wire' = wire \ {q}
    /\ working' = working \cup {q}
    /\ UNCHANGED <<done, effects>>

\* The order is made; what the client sees is success, or a server error.
Complete(q, status) ==
    /\ q \in working
    /\ status \in {"success", "transient"}
    /\ working' = working \ {q}
    /\ done' = IF q.key = NoKey THEN done ELSE done \cup {q.key}
    /\ effects' = [effects EXCEPT ![q.call] = @ + 1]
    /\ UNCHANGED wire

\* The order is rejected, or its execution fails.
Abandon(q, status) ==
    /\ q \in working
    /\ status \in {"final", "transient"}
    /\ working' = working \ {q}
    /\ UNCHANGED <<wire, done, effects>>

\* The order exists already: it is returned.
Replay(q, status, valid) ==
    /\ q \in wire
    /\ q.token \in valid
    /\ q.key \in done
    /\ status = "success"
    /\ wire' = wire \ {q}
    /\ UNCHANGED <<working, done, effects>>

================================================================================
