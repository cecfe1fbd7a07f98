------------------------------ MODULE TokenBucket ------------------------------
(***************************************************************************)
(* The ideal rate limit: every key owns a bucket that is full at first,    *)
(* gains Rate units at each tick of the clock up to Burst tokens, and pays *)
(* one token of Unit units for a request it grants.  No map, no lazy       *)
(* refill, no cleanup.  RateLimiter implements it.                         *)
(***************************************************************************)
EXTENDS Naturals

CONSTANTS Keys, Rate, Unit, Burst

VARIABLES
  level,    \* the units in each bucket
  verdict   \* the latest decision

vars == <<level, verdict>>

Cap == Burst * Unit

Init ==
  /\ level = [k \in Keys |-> Cap]
  /\ verdict = <<>>

Refill ==
  /\ level' = [k \in Keys |->
                 IF level[k] + Rate > Cap THEN Cap ELSE level[k] + Rate]
  /\ UNCHANGED verdict

Grant(k) ==
  /\ level[k] >= Unit
  /\ level' = [level EXCEPT ![k] = @ - Unit]
  /\ verdict' = <<k, TRUE>>

Refuse(k) ==
  /\ level[k] < Unit
  /\ verdict' = <<k, FALSE>>
  /\ UNCHANGED level

Next == Refill \/ \E k \in Keys : Grant(k) \/ Refuse(k)

Spec == Init /\ [][Next]_vars
=============================================================================
