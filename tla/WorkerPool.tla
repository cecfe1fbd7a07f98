------------------------------ MODULE WorkerPool ------------------------------
(***************************************************************************)
(* The conversion worker pool of internal/converter/pool.go.               *)
(*                                                                         *)
(* Callers (one goroutine per HTTP request) hand a job to a buffered       *)
(* channel and wait for its result on a channel of their own; a fixed set  *)
(* of worker goroutines drains the job channel.  A caller's context may be *)
(* cancelled at any moment, the job channel may be full, and the pool may  *)
(* be stopped.                                                             *)
(*                                                                         *)
(* A call is one invocation of Submit or, for a member of Retriers, of     *)
(* SubmitWithRetry.  At most one of a call's attempts reaches the job      *)
(* channel (Submit is retried only on ErrPoolBusy), so a call also names   *)
(* its job and its result channel.                                         *)
(***************************************************************************)
EXTENDS Naturals, Sequences, FiniteSets

CONSTANTS
  Calls,       \* the invocations of Submit and SubmitWithRetry
  Retriers,    \* those made through SubmitWithRetry
  MaxRetries,  \* the maxRetries argument of those
  Workers,     \* the worker goroutines, NewWorkerPool(workers)
  Stoppers,    \* the goroutines that call Stop
  Outcomes,    \* what a conversion may do: "data", "error" or "panic"
  NoCall       \* no job in hand

ASSUME PoolAssumption ==
  /\ Retriers \subseteq Calls
  /\ MaxRetries \in Nat
  /\ IsFiniteSet(Workers)
  /\ Outcomes \subseteq {"data", "error", "panic"}
  /\ NoCall \notin Calls

VARIABLES
  started,     \* once: the workers have been spawned
  closed,      \* the job channel has been closed
  jobs,        \* the buffer of the job channel
  phase,       \* where each worker goroutine is
  holding,     \* the job a worker has received
  outcome,     \* the result a worker is about to send
  resultChan,  \* the one-slot result channel of each call
  pc,          \* where each call is
  attempt,     \* the loop counter i of SubmitWithRetry
  cancelled,   \* the call's ctx.Done() is closed
  answer,      \* what the call returned
  stopper      \* where each call of Stop is

poolVars   == <<started, closed, jobs>>
workerVars == <<phase, holding, outcome>>
callVars   == <<pc, attempt, answer>>
vars == <<poolVars, workerVars, resultChan, callVars, cancelled, stopper>>

Results == {"data", "error"}

(* make(chan Job, workers*2) *)
Capacity == 2 * Cardinality(Workers)

(* A panic in a worker goroutine is recovered by nobody: the process ends. *)
Crashed == \E w \in Workers : phase[w] = "panicked"

Init ==
  /\ started = FALSE
  /\ closed = FALSE
  /\ jobs = <<>>
  /\ phase = [w \in Workers |-> "unborn"]
  /\ holding = [w \in Workers |-> NoCall]
  /\ outcome = [w \in Workers |-> "none"]
  /\ resultChan = [c \in Calls |-> "empty"]
  /\ pc = [c \in Calls |-> "idle"]
  /\ attempt = [c \in Calls |-> 0]
  /\ cancelled = [c \in Calls |-> FALSE]
  /\ answer = [c \in Calls |-> "none"]
  /\ stopper = [s \in Stoppers |-> "idle"]

-----------------------------------------------------------------------------
(* The call: Submit, and the retry loop around it.                         *)

Return(c, a) ==
  /\ pc' = [pc EXCEPT ![c] = "returned"]
  /\ answer' = [answer EXCEPT ![c] = a]

(* p.Start(): the first caller spawns the workers. *)
Start ==
  /\ started' = TRUE
  /\ phase' = IF started THEN phase ELSE [w \in Workers |-> "recv"]

(* InitGlobalWorkerPool, at boot: the pool is started before any call. *)
Boot ==
  /\ ~Crashed
  /\ ~started
  /\ Start
  /\ UNCHANGED <<closed, jobs, holding, outcome, resultChan, callVars,
                 cancelled, stopper>>

(* Entry of Submit.  SubmitWithRetry with no attempts to make falls out of *)
(* its loop and returns nil, nil without submitting anything.              *)
Call(c) ==
  /\ ~Crashed
  /\ pc[c] = "idle"
  /\ IF c \in Retriers /\ MaxRetries = 0
       THEN /\ Return(c, "nothing")
            /\ UNCHANGED <<started, phase>>
       ELSE /\ Start
            /\ pc' = [pc EXCEPT ![c] = "select"]
            /\ UNCHANGED answer
  /\ UNCHANGED <<closed, jobs, holding, outcome, resultChan, attempt,
                 cancelled, stopper>>

(* case p.jobs <- job *)
Enqueue(c) ==
  /\ ~Crashed
  /\ pc[c] = "select"
  /\ ~closed
  /\ Len(jobs) < Capacity
  /\ jobs' = Append(jobs, c)
  /\ pc' = [pc EXCEPT ![c] = "wait"]
  /\ UNCHANGED <<started, closed, workerVars, resultChan, attempt,
                 cancelled, answer, stopper>>

(* The same case on a channel that Stop has closed: the send panics, in the *)
(* caller's own goroutine.                                                 *)
EnqueueClosed(c) ==
  /\ ~Crashed
  /\ pc[c] = "select"
  /\ closed
  /\ pc' = [pc EXCEPT ![c] = "panicked"]
  /\ UNCHANGED <<poolVars, workerVars, resultChan, attempt, cancelled,
                 answer, stopper>>

(* Mutants are definitions that a plausible bug would put in the place of  *)
(* the one they precede.  Here the job is queued before the queue is found *)
(* to be full.                                                             *)
BusyKeepsJob(c) ==
  /\ ~Crashed
  /\ pc[c] = "select"
  /\ ~closed
  /\ Len(jobs) >= Capacity
  /\ jobs' = Append(jobs, c)
  /\ Return(c, "busy")
  /\ UNCHANGED <<started, closed, workerVars, resultChan, attempt, cancelled,
                 stopper>>

(* default: no other case is ready.  Submit returns ErrPoolBusy;           *)
(* SubmitWithRetry keeps it as lastErr and backs off.                      *)
Busy(c) ==
  /\ ~Crashed
  /\ pc[c] = "select"
  /\ ~cancelled[c]
  /\ ~closed
  /\ Len(jobs) >= Capacity
  /\ IF c \in Retriers
       THEN /\ pc' = [pc EXCEPT ![c] = "backoff"]
            /\ UNCHANGED answer
       ELSE Return(c, "busy")
  /\ UNCHANGED <<poolVars, workerVars, resultChan, attempt, cancelled,
                 stopper>>

(* case <-time.After(waitTime), and the test of the loop. *)
BackoffOver(c) ==
  /\ ~Crashed
  /\ pc[c] = "backoff"
  /\ attempt' = [attempt EXCEPT ![c] = @ + 1]
  /\ IF attempt[c] + 1 < MaxRetries
       THEN /\ pc' = [pc EXCEPT ![c] = "select"]
            /\ UNCHANGED answer
       ELSE Return(c, "busy")
  /\ UNCHANGED <<poolVars, workerVars, resultChan, cancelled, stopper>>

(* case <-ctx.Done(), ready in each of the three select statements; Go     *)
(* picks at random when another case is ready too.                         *)
ObserveCancel(c) ==
  /\ ~Crashed
  /\ pc[c] \in {"select", "wait", "backoff"}
  /\ cancelled[c]
  /\ Return(c, "canceled")
  /\ UNCHANGED <<poolVars, workerVars, resultChan, attempt, cancelled,
                 stopper>>

(* Mutant: one result channel for all calls. *)
TakeShared(c) ==
  /\ ~Crashed
  /\ pc[c] = "wait"
  /\ \E d \in Calls :
       /\ resultChan[d] # "empty"
       /\ resultChan' = [resultChan EXCEPT ![d] = "empty"]
       /\ Return(c, resultChan[d])
  /\ UNCHANGED <<poolVars, workerVars, attempt, cancelled, stopper>>

(* case result := <-resultChan *)
TakeResult(c) ==
  /\ ~Crashed
  /\ pc[c] = "wait"
  /\ resultChan[c] # "empty"
  /\ resultChan' = [resultChan EXCEPT ![c] = "empty"]
  /\ Return(c, resultChan[c])
  /\ UNCHANGED <<poolVars, workerVars, attempt, cancelled, stopper>>

(* The context of the call ends: its client has gone. *)
Cancel(c) ==
  /\ ~Crashed
  /\ ~cancelled[c]
  /\ pc[c] \in {"idle", "select", "wait", "backoff"}
  /\ cancelled' = [cancelled EXCEPT ![c] = TRUE]
  /\ UNCHANGED <<poolVars, workerVars, resultChan, callVars, stopper>>

-----------------------------------------------------------------------------
(* The worker: for job := range p.jobs { ... }                             *)

(* Mutant: the worker reads the head of the queue without removing it. *)
ReceivePeeks(w) ==
  /\ ~Crashed
  /\ phase[w] = "recv"
  /\ jobs # <<>>
  /\ holding' = [holding EXCEPT ![w] = Head(jobs)]
  /\ phase' = [phase EXCEPT ![w] = "convert"]
  /\ UNCHANGED <<poolVars, outcome, resultChan, callVars, cancelled, stopper>>

Receive(w) ==
  /\ ~Crashed
  /\ phase[w] = "recv"
  /\ jobs # <<>>
  /\ jobs' = Tail(jobs)
  /\ holding' = [holding EXCEPT ![w] = Head(jobs)]
  /\ phase' = [phase EXCEPT ![w] = "convert"]
  /\ UNCHANGED <<started, closed, outcome, resultChan, callVars, cancelled,
                 stopper>>

(* Mutant: the worker exits when the channel is closed, drained or not. *)
ExitOnClose(w) ==
  /\ ~Crashed
  /\ phase[w] = "recv"
  /\ closed
  /\ phase' = [phase EXCEPT ![w] = "exited"]
  /\ UNCHANGED <<poolVars, holding, outcome, resultChan, callVars, cancelled,
                 stopper>>

(* The range loop ends once the channel is closed and drained: wg.Done(). *)
Exit(w) ==
  /\ ~Crashed
  /\ phase[w] = "recv"
  /\ closed
  /\ jobs = <<>>
  /\ phase' = [phase EXCEPT ![w] = "exited"]
  /\ UNCHANGED <<poolVars, holding, outcome, resultChan, callVars, cancelled,
                 stopper>>

(* Mutant: the error of a conversion does not reach the result. *)
ConvertDropsError(w) ==
  /\ ~Crashed
  /\ phase[w] = "convert"
  /\ phase' = [phase EXCEPT ![w] = "send"]
  /\ \E o \in Outcomes \ {"panic"} :
       outcome' = [outcome EXCEPT ![w] = IF o = "error" THEN "none" ELSE o]
  /\ UNCHANGED <<poolVars, holding, resultChan, callVars, cancelled, stopper>>

(* The conversion itself.  It sees neither the caller's context nor whether *)
(* anybody still waits.                                                    *)
Convert(w) ==
  /\ ~Crashed
  /\ phase[w] = "convert"
  /\ \E o \in Outcomes :
       IF o = "panic"
         THEN /\ phase' = [phase EXCEPT ![w] = "panicked"]
              /\ UNCHANGED outcome
         ELSE /\ phase' = [phase EXCEPT ![w] = "send"]
              /\ outcome' = [outcome EXCEPT ![w] = o]
  /\ UNCHANGED <<poolVars, holding, resultChan, callVars, cancelled, stopper>>

(* Mutant: only a successful conversion sends its result. *)
DeliverDataOnly(w) ==
  /\ ~Crashed
  /\ phase[w] = "send"
  /\ resultChan' = IF outcome[w] = "data"
                     THEN [resultChan EXCEPT ![holding[w]] = "data"]
                     ELSE resultChan
  /\ phase' = [phase EXCEPT ![w] = "recv"]
  /\ holding' = [holding EXCEPT ![w] = NoCall]
  /\ outcome' = [outcome EXCEPT ![w] = "none"]
  /\ UNCHANGED <<poolVars, callVars, cancelled, stopper>>

(* select { case job.Result <- result: default: } - a full channel would   *)
(* lose the result.                                                        *)
Deliver(w) ==
  /\ ~Crashed
  /\ phase[w] = "send"
  /\ resultChan' = [resultChan EXCEPT
                      ![holding[w]] = IF @ = "empty" THEN outcome[w] ELSE @]
  /\ phase' = [phase EXCEPT ![w] = "recv"]
  /\ holding' = [holding EXCEPT ![w] = NoCall]
  /\ outcome' = [outcome EXCEPT ![w] = "none"]
  /\ UNCHANGED <<poolVars, callVars, cancelled, stopper>>

-----------------------------------------------------------------------------
(* Mutant: Stop waits for the workers without closing the channel. *)
StopWithoutClose(s) ==
  /\ ~Crashed
  /\ stopper[s] = "idle"
  /\ stopper' = [stopper EXCEPT ![s] = "waiting"]
  /\ UNCHANGED <<poolVars, workerVars, resultChan, callVars, cancelled>>

(* Stop: close(p.jobs), then p.wg.Wait().  Closing twice panics.           *)

StopClose(s) ==
  /\ ~Crashed
  /\ stopper[s] = "idle"
  /\ closed' = TRUE
  /\ stopper' = [stopper EXCEPT ![s] = IF closed THEN "panicked" ELSE "waiting"]
  /\ UNCHANGED <<started, jobs, workerVars, resultChan, callVars, cancelled>>

(* Mutant: Stop does not wait for the workers. *)
StopReturnsAtOnce(s) ==
  /\ ~Crashed
  /\ stopper[s] = "waiting"
  /\ stopper' = [stopper EXCEPT ![s] = "returned"]
  /\ UNCHANGED <<poolVars, workerVars, resultChan, callVars, cancelled>>

StopReturn(s) ==
  /\ ~Crashed
  /\ stopper[s] = "waiting"
  /\ \A w \in Workers : phase[w] \in {"unborn", "exited"}
  /\ stopper' = [stopper EXCEPT ![s] = "returned"]
  /\ UNCHANGED <<poolVars, workerVars, resultChan, callVars, cancelled>>

(* Nothing is left to do: every call and every Stop has ended, or the      *)
(* process has.                                                            *)
Ended ==
  \/ Crashed
  \/ /\ \A c \in Calls : pc[c] \in {"returned", "panicked"}
     /\ \A s \in Stoppers : stopper[s] \in {"returned", "panicked"}

Halt == Ended /\ UNCHANGED vars

-----------------------------------------------------------------------------
CallStep(c) ==
  \/ Enqueue(c)
  \/ EnqueueClosed(c)
  \/ Busy(c)
  \/ BackoffOver(c)
  \/ ObserveCancel(c)
  \/ TakeResult(c)

WorkerStep(w) ==
  \/ Receive(w)
  \/ Exit(w)
  \/ Convert(w)
  \/ Deliver(w)

Next ==
  \/ Boot
  \/ \E c \in Calls : Call(c) \/ CallStep(c) \/ Cancel(c)
  \/ \E w \in Workers : WorkerStep(w)
  \/ \E s \in Stoppers : StopClose(s) \/ StopReturn(s)
  \/ Halt

Spec == Init /\ [][Next]_vars

(* The Go scheduler runs every goroutine that can go on, timers fire, and a *)
(* conversion ends.  Nothing makes a client call, cancel, or stop the pool. *)
Fairness ==
  /\ \A c \in Calls : WF_vars(CallStep(c))
  /\ \A w \in Workers : WF_vars(WorkerStep(w))
  /\ \A s \in Stoppers : WF_vars(StopReturn(s))

FairSpec == Spec /\ Fairness

-----------------------------------------------------------------------------
(* Where a job is.                                                         *)

InQueue(c) == \E i \in 1..Len(jobs) : jobs[i] = c

BusyWorker(w) == phase[w] \in {"convert", "send", "panicked"}

Held(c) == \E w \in Workers : BusyWorker(w) /\ holding[w] = c

Nowhere(c) == ~InQueue(c) /\ ~Held(c) /\ resultChan[c] = "empty"

NotAccepted(c) == pc[c] \in {"idle", "select", "backoff", "panicked"}

BusyWorkers == {w \in Workers : BusyWorker(w)}

(* Every variable has values of its type. *)
TypeOK ==
  /\ started \in BOOLEAN
  /\ closed \in BOOLEAN
  /\ jobs \in Seq(Calls)
  /\ phase \in [Workers -> {"unborn", "recv", "convert", "send", "panicked",
                            "exited"}]
  /\ holding \in [Workers -> Calls \cup {NoCall}]
  /\ outcome \in [Workers -> Results \cup {"none"}]
  /\ resultChan \in [Calls -> Results \cup {"empty"}]
  /\ pc \in [Calls -> {"idle", "select", "wait", "backoff", "returned",
                       "panicked"}]
  /\ attempt \in [Calls -> Nat]
  /\ cancelled \in [Calls -> BOOLEAN]
  /\ answer \in [Calls -> Results \cup {"none", "nothing", "canceled", "busy"}]
  /\ stopper \in [Stoppers -> {"idle", "waiting", "returned", "panicked"}]

(* A job is in one place at a time: once in the queue, or in the hands of  *)
(* one worker, or finished with its result in the channel.                 *)
OnePlace ==
  /\ \A i, j \in 1..Len(jobs) : jobs[i] = jobs[j] => i = j
  /\ \A w \in BusyWorkers : holding[w] \in Calls /\ ~InQueue(holding[w])
  /\ \A v, w \in BusyWorkers : holding[v] = holding[w] => v = w
  /\ \A c \in Calls : resultChan[c] # "empty" => ~InQueue(c) /\ ~Held(c)

(* The worker's non-blocking send never meets a full channel, so the       *)
(* "result channel full or closed" branch of worker() never loses a result. *)
NoResultLost ==
  \A w \in Workers : phase[w] = "send" => resultChan[holding[w]] = "empty"

(* A caller that waits without a cancelled context waits for something:    *)
(* its job is queued, being converted, or its result is in the channel.    *)
WaitIsAnswerable ==
  \A c \in Calls : pc[c] = "wait" =>
    InQueue(c) \/ Held(c) \/ resultChan[c] # "empty"

(* A call told that the pool is busy, or that is still to submit, has no   *)
(* job in the pool: a client that retries a 503 never has two conversions  *)
(* running for it.                                                         *)
RefusedLeavesNothing ==
  \A c \in Calls :
    (NotAccepted(c) \/ answer[c] \in {"busy", "nothing"}) => Nowhere(c)

(* Stop is graceful: once it has returned, every job that was ever accepted *)
(* has been converted and its result is with its caller or in its channel. *)
StopDrains ==
  (\E s \in Stoppers : stopper[s] = "returned") =>
    /\ jobs = <<>>
    /\ BusyWorkers = {}
    /\ \A c \in Calls : pc[c] = "wait" => resultChan[c] # "empty"

(* What the properties above rest on: with TypeOK, the inductive invariant. *)
Spawned ==
  /\ \A w \in Workers : phase[w] = "unborn" <=> ~started
  /\ \A c \in Calls : pc[c] \in {"select", "wait", "backoff"} => started

QueueWhileRunning ==
  /\ Len(jobs) <= Capacity
  /\ jobs # <<>> => started

ResultInHand == \A w \in Workers : phase[w] = "send" => outcome[w] \in Results

ExitedLast ==
  \A w \in Workers : phase[w] = "exited" => closed /\ jobs = <<>>

AnsweredOnce ==
  \A c \in Calls :
    /\ answer[c] # "none" <=> pc[c] = "returned"
    /\ answer[c] \in Results => Nowhere(c)

StoppedIsClosed ==
  \A s \in Stoppers :
    /\ stopper[s] \in {"waiting", "returned"} => closed
    /\ stopper[s] = "returned" => jobs = <<>> /\ BusyWorkers = {}

IInv ==
  /\ TypeOK
  /\ OnePlace
  /\ WaitIsAnswerable
  /\ RefusedLeavesNothing
  /\ Spawned
  /\ QueueWhileRunning
  /\ ResultInHand
  /\ ExitedLast
  /\ AnsweredOnce
  /\ StoppedIsClosed

(* How far the call's job has come, read off the queue, the workers and the *)
(* channels.                                                               *)
HasResult(c, r) ==
  \/ resultChan[c] = r
  \/ answer[c] = r
  \/ \E w \in Workers : phase[w] = "send" /\ holding[w] = c /\ outcome[w] = r

Stage(c) ==
  IF HasResult(c, "data") THEN "data"
  ELSE IF HasResult(c, "error") THEN "error"
  ELSE IF InQueue(c) \/ Held(c) THEN "accepted"
  ELSE "new"

Service == INSTANCE JobService WITH stage <- [c \in Calls |-> Stage(c)]

(* The pool implements the service: a job is converted at most once and     *)
(* only if accepted, a refused call leaves no job behind, and an answer     *)
(* with a result is the result of the call's own job.                      *)
ImplementsService == Service!Spec

(* Every call that reaches the pool returns (or panics on a stopped pool). *)
CallsReturn ==
  \A c \in Calls : pc[c] = "select" ~> pc[c] \in {"returned", "panicked"}

(* Every accepted job is converted, also when its caller has given up, and *)
(* also when the pool is being stopped.                                    *)
AcceptedIsConverted ==
  \A c \in Calls : InQueue(c) ~> ~InQueue(c) /\ ~Held(c)

(* Stop does not hang. *)
StopReturns ==
  \A s \in Stoppers : stopper[s] = "waiting" ~> stopper[s] = "returned"
=============================================================================
