------------------------------ MODULE RebalancingMC ------------------------------
(* Rebalancing with a Korean symbol (1) and an American one (2), in two sleeves *)
(* that ask for a tenth more than there is.                                     *)
EXTENDS Rebalancing, TLC

MCSymbols == {1, 2}
MCCountryOf == <<"KR", "US">>
MCLimit == <<5, 5>>
MCBudget == <<6, 5>>
MCAnswers == <<{1 :> 10}, {2 :> 10}>>
MCPrices == <<{2}, {2, 3}>>
MCFees == {0, 1}
MCDollars == {0, 3}
MCStartHeld == <<2, 2>>
================================================================================
