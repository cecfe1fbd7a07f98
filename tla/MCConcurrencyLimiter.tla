------------------------- MODULE MCConcurrencyLimiter -------------------------
(***************************************************************************)
(* Small instances of ConcurrencyLimiter for TLC.                          *)
(***************************************************************************)
EXTENDS ConcurrencyLimiter, TLC

RequestSymmetry == Permutations(Requests)
=============================================================================
