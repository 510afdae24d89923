---------------------------- MODULE MCRateLimit -----------------------------
(* TLC instance of RateLimit.                                               *)
EXTENDS RateLimit, TLC

CONSTANTS q1, q2, q3, q4

FourRequests == {q1, q2, q3, q4}
Alike == Permutations(FourRequests)
=============================================================================
