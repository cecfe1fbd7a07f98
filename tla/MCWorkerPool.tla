----------------------------- MODULE MCWorkerPool -----------------------------
(***************************************************************************)
(* Small instances of WorkerPool for TLC.                                  *)
(***************************************************************************)
EXTENDS WorkerPool, TLC

(* Calls of the same kind are interchangeable. *)
CallSymmetry == Permutations(Retriers) \cup Permutations(Calls \ Retriers)

(* Calls of the same kind, workers and callers of Stop. *)
FullSymmetry ==
  CallSymmetry \cup Permutations(Workers) \cup Permutations(Stoppers)
=============================================================================
