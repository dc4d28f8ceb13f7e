--------------------------- MODULE MCRateLimiter ---------------------------
(* Two senders at a limiter of two messages in three ticks.                 *)
EXTENDS RateLimiter

CONSTANTS p, q
TwoSenders == {p, q}
=============================================================================
