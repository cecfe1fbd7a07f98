----------------------------- MODULE MCBufferPool -----------------------------
(***************************************************************************)
(* Small instances of BufferPool for TLC.                                  *)
(***************************************************************************)
EXTENDS BufferPool, TLC

BufferSymmetry == Permutations(Buffers)
=============================================================================
