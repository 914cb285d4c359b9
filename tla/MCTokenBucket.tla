-------------------------- MODULE MCTokenBucket --------------------------
(* TokenBucket for TLC: a bucket of two tokens, two ticks to refill one.   *)
EXTENDS TokenBucket

MCTimes == 0..5
==========================================================================
