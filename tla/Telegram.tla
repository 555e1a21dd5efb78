--------------------------------- MODULE Telegram ---------------------------------
(***************************************************************************)
(* The command channel (notify/telegram.py).  Telegram, which is external, *)
(* keeps each update until a poll with a greater offset confirms it; the   *)
(* bot keeps its offset in memory.                                         *)
(***************************************************************************)
EXTENDS Integers, Sequences

CONSTANTS Script     \* bound: the updates that are sent, in order

\* "other" is a command that only answers.
Commands == {"halt", "resume", "rebalance", "other"}

ASSUME TelegramAssumption == Script \in Seq(Commands)

VARIABLES sent,       \* external: updates sent
          confirmed,  \* external: updates Telegram has forgotten
          offset,     \* _offset, less one
          batch,      \* the updates a poll returned and poll_once has not handled
          losses,     \* failures so far
          handled     \* history: how often each update was handled

telegram == <<sent, confirmed, offset, batch, losses, handled>>

TelegramInit ==
    /\ sent = 0 /\ confirmed = 0 /\ offset = 0
    /\ batch = {}
    /\ losses = 0
    /\ handled = [u \in DOMAIN Script |-> 0]

SendUpdate ==
    /\ sent < Len(Script)
    /\ sent' = sent + 1
    /\ UNCHANGED <<confirmed, offset, batch, losses, handled>>

\* getUpdates: what the offset passed is confirmed, the rest is returned.
Poll ==
    /\ batch = {}
    /\ sent > offset \/ offset > confirmed
    /\ confirmed' = IF offset > confirmed THEN offset ELSE confirmed
    /\ batch' = (confirmed' + 1)..sent
    /\ UNCHANGED <<sent, offset, losses, handled>>

\* The poll fails, and the loop waits before the next one.
PollFails ==
    /\ batch = {}
    /\ losses' = losses + 1
    /\ UNCHANGED <<sent, confirmed, offset, batch, handled>>

Oldest(u) == u \in batch /\ \A v \in batch : u <= v

\* Mutant of Take: the offset passes the whole batch at once.
TakeAll(u) ==
    /\ Oldest(u)
    /\ offset' = sent
    /\ batch' = batch \ {u}
    /\ UNCHANGED <<sent, confirmed, losses>>

\* Mutant of Take: the offset is that of the update, not of the next.
TakeNotPast(u) ==
    /\ Oldest(u)
    /\ offset' = u - 1
    /\ batch' = batch \ {u}
    /\ UNCHANGED <<sent, confirmed, losses>>

\* The offset passes an update before it is handled.
Take(u) ==
    /\ Oldest(u)
    /\ offset' = u
    /\ batch' = batch \ {u}
    /\ UNCHANGED <<sent, confirmed, losses>>

Handled(u) == handled' = [handled EXCEPT ![u] = @ + 1]

\* The reply is sent ...
Reply == UNCHANGED <<batch, losses>>

\* ... or that fails, and poll_once ends with the rest of its batch unread.
ReplyFails ==
    /\ losses' = losses + 1
    /\ batch' = {}

\* A new process polls without an offset.
Forget ==
    /\ offset' = 0
    /\ batch' = {}
    /\ UNCHANGED <<sent, confirmed, losses, handled>>

================================================================================
