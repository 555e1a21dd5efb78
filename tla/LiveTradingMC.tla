----------------------------- MODULE LiveTradingMC -----------------------------
(***************************************************************************)
(* Two symbols, four shares' worth of account, and strategies that move    *)
(* half of it from the first symbol to the second.                         *)
(***************************************************************************)
EXTENDS LiveTrading

MCSymbols == {1, 2}
MCOrderIds == 1..4
MCStartHeld == [s \in MCSymbols |-> IF s = 1 THEN 2 ELSE 0]
MCTargets == {[s \in MCSymbols |-> IF s = 1 THEN 0 ELSE 2]}

\* An account of cash only, half of which is to go into the first symbol.
MCNothingHeld == [s \in MCSymbols |-> 0]
MCHalfInFirst == {[s \in MCSymbols |-> IF s = 1 THEN 1 ELSE 0]}
================================================================================
