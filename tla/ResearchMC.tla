-------------------------------- MODULE ResearchMC --------------------------------
(* Research with one risk asset (1) and one safe asset (2) over four days.  *)
EXTENDS Research

B(o, c) == [open |-> o, close |-> c]

\* The risk asset rises and falls, or lists late; the safe one is halted for
\* a day, or trades every day.
Rising == (1 :> <<B(2, 1), B(2, 3), B(3, 2), B(1, 3)>>) @@
          (2 :> <<B(2, 2), B(2, 2), NoBar, B(2, 1)>>)
Late == (1 :> <<NoBar, B(1, 3), B(3, 2), B(2, 1)>>) @@
        (2 :> <<B(1, 1), B(1, 2), B(2, 2), B(2, 3)>>)
MCHistories == {Rising, Late}

MCSymbols == {1, 2}
MCRisk == {1}
MCSafe == <<2>>
MCEtfs == {2}
MCTerms == {<<1, 2>>, <<2, 1>>}
ByCountry(kr, us) == [c \in Countries |-> IF c = "KR" THEN kr ELSE us]
MCCommission == ByCountry(1, 1)
MCSlippage == ByCountry(1, 2)
MCWarmup == [s \in Strategies |-> IF s = "buy-and-hold" THEN 1 ELSE 0]
Study(strategy, country) == [strategy |-> strategy, country |-> country]
MCStudies == {Study("buy-and-hold", "KR"), Study("dual-momentum", "US"),
              Study("vaa", "KR"), Study("faber", "US")}

\* Each study on the history where it trades most.
MCInit ==
    /\ Init
    /\ (history = Late) = (study.strategy \in {"buy-and-hold", "vaa"})

MCSpec == MCInit /\ [][Next]_vars /\ Fairness

MCMonthOf == <<1, 1, 2, 3>>
MCYearOf == <<1, 1, 2, 2>>
================================================================================
