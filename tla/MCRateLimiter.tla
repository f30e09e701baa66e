--------------------------- MODULE MCRateLimiter ---------------------------
(* Instances of RateLimiter for TLC: a bucket of two tokens of two ticks   *)
(* each - that of the echo server of the examples, where a tick is 50 ms - *)
(* with one caller, which is what that server has, or with two.            *)
EXTENDS RateLimiter

CONSTANTS t1, t2
=============================================================================
