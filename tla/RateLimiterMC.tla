----------------------------- MODULE RateLimiterMC -----------------------------
(***************************************************************************)
(* A small bucket: half-token parts, a documented limit of 2/s that drops  *)
(* to 1/s at the open, and a server that may advertise 1/s or 1 in 2 s.    *)
(***************************************************************************)
EXTENDS RateLimiter, TLC

MCDocLimits == {2, 4}
MCServerLimits == {1, 2}
MCRetryAfters == {0, 2}

ThreadSymmetry == Permutations(Threads)

================================================================================
