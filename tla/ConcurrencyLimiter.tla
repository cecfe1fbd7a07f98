-------------------------- MODULE ConcurrencyLimiter --------------------------
(***************************************************************************)
(* The concurrency limit of internal/middleware/concurrency.go: a buffered *)
(* channel used as a semaphore, a counter of active requests under its own *)
(* mutex, and a Prometheus gauge that is set outside that mutex.           *)
(*                                                                         *)
(* A member of Requests is a goroutine of net/http that serves one request *)
(* after another on its connection.                                        *)
(***************************************************************************)
EXTENDS Integers, FiniteSets

CONSTANTS
  Requests,  \* the goroutines that pass through the middleware
  Max        \* ConcurrencyLimit(max)

ASSUME LimiterAssumption ==
  /\ IsFiniteSet(Requests)
  /\ Max \in Nat

VARIABLES
  slots,   \* len(cl.semaphore)
  active,  \* cl.active
  gauge,   \* the value of metrics.ConcurrentRequests
  local,   \* the copy of cl.active a goroutine took under the mutex
  pc       \* where each request is

vars == <<slots, active, gauge, local, pc>>

Stages == {"idle", "acquired", "counted", "serving", "leaving", "freed",
           "uncounted", "refused"}

Init ==
  /\ slots = 0
  /\ active = 0
  /\ gauge = 0
  /\ local = [r \in Requests |-> 0]
  /\ pc = [r \in Requests |-> "idle"]

Goto(r, from, to) == pc[r] = from /\ pc' = [pc EXCEPT ![r] = to]

-----------------------------------------------------------------------------
(* Mutants: definitions that a plausible bug would put in the place of the *)
(* one they precede.  This one lets one request too many in.               *)
TakeSlotOver(r) ==
  /\ Goto(r, "idle", "acquired")
  /\ slots <= Max
  /\ slots' = slots + 1
  /\ UNCHANGED <<active, gauge, local>>

(* case cl.semaphore <- struct{}{} *)
TakeSlot(r) ==
  /\ Goto(r, "idle", "acquired")
  /\ slots < Max
  /\ slots' = slots + 1
  /\ UNCHANGED <<active, gauge, local>>

(* Mutant: Release is deferred before Acquire is tested. *)
RefuseReleases(r) ==
  /\ Goto(r, "idle", "leaving")
  /\ slots >= Max
  /\ UNCHANGED <<slots, active, gauge, local>>

(* default: the middleware answers 503 and the handler is not called. *)
Refuse(r) ==
  /\ Goto(r, "idle", "refused")
  /\ slots >= Max
  /\ UNCHANGED <<slots, active, gauge, local>>

(* Mutant: the counter is set from the copy a goroutine read earlier. *)
CountStale(r, d) ==
  /\ active' = local[r] + d
  /\ local' = [local EXCEPT ![r] = local[r] + d]
  /\ UNCHANGED <<slots, gauge>>

(* cl.mu.Lock(); cl.active += d; active := cl.active; cl.mu.Unlock() *)
Count(r, d) ==
  /\ active' = active + d
  /\ local' = [local EXCEPT ![r] = active + d]
  /\ UNCHANGED <<slots, gauge>>

CountIn(r) == Goto(r, "acquired", "counted") /\ Count(r, 1)

(* metrics.UpdateConcurrency(active), after the mutex has been released. *)
Publish(r) ==
  /\ gauge' = local[r]
  /\ UNCHANGED <<slots, active, local>>

PublishIn(r) == Goto(r, "counted", "serving") /\ Publish(r)

(* Mutant: Release is called after ServeHTTP, and a panic skips it. *)
ServedOrPanicked(r) ==
  /\ Goto(r, "serving", "leaving") \/ Goto(r, "serving", "idle")
  /\ UNCHANGED <<slots, active, gauge, local>>

(* next.ServeHTTP returns or panics: the deferred Release runs either way. *)
Served(r) ==
  /\ Goto(r, "serving", "leaving")
  /\ UNCHANGED <<slots, active, gauge, local>>

(* Mutant: the last token is left in the channel. *)
FreeSlotButOne(r) ==
  /\ Goto(r, "leaving", "freed")
  /\ slots > 1
  /\ slots' = slots - 1
  /\ UNCHANGED <<active, gauge, local>>

(* <-cl.semaphore, which would block on an empty channel. *)
FreeSlot(r) ==
  /\ Goto(r, "leaving", "freed")
  /\ slots > 0
  /\ slots' = slots - 1
  /\ UNCHANGED <<active, gauge, local>>

CountOut(r) == Goto(r, "freed", "uncounted") /\ Count(r, -1)

PublishOut(r) == Goto(r, "uncounted", "idle") /\ Publish(r)

(* The next request on the connection of a refused one. *)
Again(r) ==
  /\ Goto(r, "refused", "idle")
  /\ UNCHANGED <<slots, active, gauge, local>>

-----------------------------------------------------------------------------
Arrive(r) == TakeSlot(r) \/ Refuse(r)

Proceed(r) ==
  \/ CountIn(r)
  \/ PublishIn(r)
  \/ Served(r)
  \/ FreeSlot(r)
  \/ CountOut(r)
  \/ PublishOut(r)
  \/ Again(r)

Next == \E r \in Requests : Arrive(r) \/ Proceed(r)

Spec == Init /\ [][Next]_vars

(* A goroutine that has entered the middleware goes on, and the handler    *)
(* ends; nothing makes a client send a request.                            *)
FairSpec == Spec /\ \A r \in Requests : WF_vars(Proceed(r))

-----------------------------------------------------------------------------
Inside == {r \in Requests : pc[r] \in {"acquired", "counted", "serving", "leaving"}}

Counted == {r \in Requests : pc[r] \in {"counted", "serving", "leaving", "freed"}}

Refused == {r \in Requests : pc[r] = "refused"}

(* Every variable has values of its type; the counters stay between zero   *)
(* and the number of requests.                                             *)
TypeOK ==
  /\ slots \in 0..Max
  /\ active \in 0..Cardinality(Requests)
  /\ gauge \in 0..Cardinality(Requests)
  /\ local \in [Requests -> 0..Cardinality(Requests)]
  /\ pc \in [Requests -> Stages]

(* The tokens in the channel are those of the requests between Acquire and *)
(* Release: no path through the middleware, a panicking handler included,  *)
(* loses one or returns one twice.                                         *)
SlotsAreHeld == slots = Cardinality(Inside)

(* The counter is never torn or lost an update: it is the number of        *)
(* requests between the two critical sections.                             *)
ActiveIsExact == active = Cardinality(Counted)

(* The limiter is a gate: at most Max inside, and nobody refused while     *)
(* there is room.                                                          *)
AbstractGate == INSTANCE Gate WITH inside <- Inside, refused <- Refused

ImplementsGate == AbstractGate!Spec

(* A request that got in leaves, and its slot comes back: Release does not *)
(* block.                                                                  *)
SlotComesBack == \A r \in Requests : r \in Inside ~> r \notin Inside

(* pkg/metrics/metrics.go describes the gauge as "Current number of         *)
(* concurrent requests being processed": with no request in the middleware *)
(* it is zero.                                                             *)
IdleGaugeIsZero == (\A r \in Requests : pc[r] = "idle") => gauge = 0
=============================================================================
