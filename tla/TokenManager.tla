------------------------------ MODULE TokenManager ------------------------------
(***************************************************************************)
(* toss/auth.py: one bearer token, cached in memory and shared by all      *)
(* threads under a lock that is held over the request for a new one.       *)
(* Tokens are numbered in the order Toss issues them; 0 is no token.       *)
(***************************************************************************)
EXTENDS Naturals

CONSTANT NoOne   \* the holder of a free lock

VARIABLES cached,  \* _token
          holder,  \* who holds _lock, while it asks for a token
          issued,  \* tokens Toss has issued so far
          valid    \* tokens Toss accepts

tokens == <<cached, holder, issued, valid>>

TokenInit ==
    /\ cached = 0
    /\ holder = NoOne
    /\ issued = 0
    /\ valid = {}

Free == holder = NoOne

\* token: the cached one, unless the clock says that it is about to expire.
UseCached ==
    /\ Free
    /\ cached # 0
    /\ UNCHANGED tokens

\* token: no token, or one near its expiry: the lock is kept while asking.
StartIssue(c) ==
    /\ Free
    /\ holder' = c
    /\ UNCHANGED <<cached, issued, valid>>

\* _issue_locked: a new token; whether that revokes earlier ones is for Revoke.
Issue(c) ==
    /\ holder = c
    /\ issued' = issued + 1
    /\ cached' = issued + 1
    /\ valid' = valid \cup {issued + 1}
    /\ holder' = NoOne

\* Mutant of IssueFails: the lock is not released when the request raises.
IssueFailsLocked(c) == holder = c /\ UNCHANGED tokens

\* The request for a token fails: the cache is as it was.
IssueFails(c) ==
    /\ holder = c
    /\ holder' = NoOne
    /\ UNCHANGED <<cached, issued, valid>>

\* Mutant of Invalidate: the cached token stays.
InvalidateNothing == Free /\ UNCHANGED tokens

\* invalidate: whatever token is cached by now is dropped.
Invalidate ==
    /\ Free
    /\ cached' = 0
    /\ UNCHANGED <<holder, issued, valid>>

\* A token expires, or is revoked, at Toss.
Revoke(token) ==
    /\ token \in valid
    /\ valid' = valid \ {token}
    /\ UNCHANGED <<cached, holder, issued>>

================================================================================
