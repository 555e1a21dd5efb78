------------------------------ MODULE PaperBrokerMC ------------------------------
(* PaperBroker with a Korean stock and a US one, and two processes.         *)
EXTENDS PaperBroker, TLC

CONSTANTS p1, p2

MCProcesses == {p1, p2}
Symmetric == Permutations(MCProcesses)

MCSymbols == {"kr", "us"}
MCCountryOf == [s \in MCSymbols |-> IF s = "kr" THEN "KR" ELSE "US"]
MCRates == [c \in {"KR", "US"} |-> 1]
================================================================================
