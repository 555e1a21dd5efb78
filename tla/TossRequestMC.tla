----------------------------- MODULE TossRequestMC -----------------------------
(***************************************************************************)
(* An order and a cancellation at the same time, each in a thread.         *)
(***************************************************************************)
EXTENDS TossRequest, TLC
================================================================================
