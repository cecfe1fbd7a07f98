------------------------------ MODULE JobService ------------------------------
(***************************************************************************)
(* What the conversion pool promises a caller, with no workers, no channels *)
(* and no scheduling: a call's job is either never accepted or accepted     *)
(* once, an accepted job is converted at most once, a call answers at most  *)
(* once, and an answer that carries a conversion's result carries the       *)
(* result of the call's own job.  WorkerPool implements it.                *)
(***************************************************************************)
CONSTANT Calls

VARIABLES
  stage,   \* of the call's job: "new", "accepted", or the result it had
  answer   \* of the call, "none" until it returns

vars == <<stage, answer>>

Results == {"data", "error"}

Init ==
  /\ stage = [c \in Calls |-> "new"]
  /\ answer = [c \in Calls |-> "none"]

Answer(c, a) ==
  /\ answer[c] = "none"
  /\ answer' = [answer EXCEPT ![c] = a]
  /\ UNCHANGED stage

Accept(c) ==
  /\ stage[c] = "new"
  /\ answer[c] = "none"
  /\ stage' = [stage EXCEPT ![c] = "accepted"]
  /\ UNCHANGED answer

Finish(c) ==
  /\ stage[c] = "accepted"
  /\ \E r \in Results : stage' = [stage EXCEPT ![c] = r]
  /\ UNCHANGED answer

(* The result of the call's own job. *)
Reply(c) == stage[c] \in Results /\ Answer(c, stage[c])

(* The pool is full, or no attempt was allowed: the job was never accepted. *)
Refuse(c) == stage[c] = "new" /\ \E a \in {"busy", "nothing"} : Answer(c, a)

(* The caller's context ended, wherever its job is. *)
GiveUp(c) == Answer(c, "canceled")

Next ==
  \E c \in Calls : Accept(c) \/ Finish(c) \/ Reply(c) \/ Refuse(c) \/ GiveUp(c)

Spec == Init /\ [][Next]_vars
=============================================================================
