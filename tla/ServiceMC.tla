-------------------------------- MODULE ServiceMC --------------------------------
(* Service with a forced rebalance and a resume by Telegram.              *)
EXTENDS Service

MCScript == <<"rebalance", "resume">>
================================================================================
