-------------------------------- MODULE CallOnce --------------------------------
(***************************************************************************)
(* What toss/client.py promises for an order: "retrying a timed-out request *)
(* cannot create a second order" (create_order), and an answer is never     *)
(* success without the order.  An order may still come into being after its *)
(* caller was told of a failure: that is why nobody may take a failure for  *)
(* a proof that nothing was bought.                                         *)
(***************************************************************************)
EXTENDS Naturals

CONSTANT Calls

VARIABLES effects,  \* orders created for each call
          answer    \* what each caller was told

vars == <<effects, answer>>

Init ==
    /\ effects = [c \in Calls |-> 0]
    /\ answer = [c \in Calls |-> "none"]

TakeEffect(c) ==
    /\ effects[c] = 0
    /\ effects' = [effects EXCEPT ![c] = 1]
    /\ UNCHANGED answer

Succeed(c) ==
    /\ answer[c] = "none"
    /\ effects[c] = 1
    /\ answer' = [answer EXCEPT ![c] = "ok"]
    /\ UNCHANGED effects

Fail(c) ==
    /\ answer[c] = "none"
    /\ answer' = [answer EXCEPT ![c] = "error"]
    /\ UNCHANGED effects

Next == \E c \in Calls : TakeEffect(c) \/ Succeed(c) \/ Fail(c)

Spec == Init /\ [][Next]_vars

================================================================================
