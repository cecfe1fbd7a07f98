------------------------------- MODULE MCService -------------------------------
(***************************************************************************)
(* Small instances of Service for TLC.                                     *)
(***************************************************************************)
EXTENDS Service, TLC

RequestSymmetry == Permutations(Requests)

Convert(output, maxSize) ==
  [route |-> "convert", output |-> output, full |-> TRUE, quality |-> FALSE,
   maxSize |-> maxSize, fault |-> "none"]

Pooled  == Convert("jpeg", "absent")
Stored  == [Pooled EXCEPT !.route = "store"]
Probe   == [Pooled EXCEPT !.route = "health"]

(* One of each way through the handlers. *)
AllWants ==
  {Pooled, Stored, Probe, Convert("jpeg", "valid"), Convert("webp", "malformed"),
   [Pooled EXCEPT !.fault = "method"], [Stored EXCEPT !.fault = "body"],
   [Convert("jpeg", "valid") EXCEPT !.quality = TRUE]}

PooledWants == {Pooled}

SharedWants == {Convert("jpeg", "malformed"), Convert("webp", "malformed")}
=============================================================================
