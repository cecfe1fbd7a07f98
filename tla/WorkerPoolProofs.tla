--------------------------- MODULE WorkerPoolProofs ---------------------------
(***************************************************************************)
(* What TLAPS proves of WorkerPool, for any sets of calls, workers and     *)
(* stoppers: IInv is inductive, and the safety properties follow from it.  *)
(***************************************************************************)
EXTENDS WorkerPool, FiniteSetTheorems, TLAPS

-----------------------------------------------------------------------------
(* A worker that receives the head of a queue without duplicates leaves the *)
(* other jobs in it, in order and once each.                               *)
LEMMA TailKeepsOthers ==
  ASSUME NEW S, NEW q \in Seq(S), q # <<>>,
         \A i, j \in 1..Len(q) : q[i] = q[j] => i = j
  PROVE  /\ Tail(q) \in Seq(S)
         /\ Head(q) \in S
         /\ Len(Tail(q)) = Len(q) - 1
         /\ \A i, j \in 1..Len(Tail(q)) : Tail(q)[i] = Tail(q)[j] => i = j
         /\ \A d : (\E i \in 1..Len(Tail(q)) : Tail(q)[i] = d)
                     <=> (\E i \in 1..Len(q) : q[i] = d) /\ d # Head(q)
<1>1. /\ Tail(q) \in Seq(S)
      /\ Head(q) \in S
      /\ Head(q) = q[1]
      /\ Len(q) \in Nat \ {0}
      /\ Len(Tail(q)) = Len(q) - 1
      /\ \A i \in 1..Len(q)-1 : Tail(q)[i] = q[i+1]
  OBVIOUS
<1>2. \A i, j \in 1..Len(Tail(q)) : Tail(q)[i] = Tail(q)[j] => i = j
  <2> TAKE i, j \in 1..Len(Tail(q))
  <2>1. i + 1 \in 1..Len(q) /\ j + 1 \in 1..Len(q)
    BY <1>1
  <2> QED
    BY <1>1, <2>1
<1>3. ASSUME NEW d
      PROVE  (\E i \in 1..Len(Tail(q)) : Tail(q)[i] = d)
               <=> (\E i \in 1..Len(q) : q[i] = d) /\ d # Head(q)
  <2>1. ASSUME NEW i \in 1..Len(Tail(q)), Tail(q)[i] = d
        PROVE  (\E k \in 1..Len(q) : q[k] = d) /\ d # Head(q)
    <3>1. i + 1 \in 1..Len(q) /\ q[i + 1] = d /\ 1 \in 1..Len(q) /\ i + 1 # 1
      BY <1>1, <2>1
    <3> QED
      BY <1>1, <3>1
  <2>2. ASSUME NEW k \in 1..Len(q), q[k] = d, d # Head(q)
        PROVE  \E i \in 1..Len(Tail(q)) : Tail(q)[i] = d
    <3>1. k # 1 /\ k - 1 \in 1..Len(q)-1 /\ (k - 1) + 1 = k
      BY <1>1, <2>2
    <3>2. Tail(q)[k - 1] = d /\ k - 1 \in 1..Len(Tail(q))
      BY <1>1, <2>2, <3>1
    <3> QED
      BY <3>2
  <2> QED
    BY <2>1, <2>2
<1> QED
  BY <1>1, <1>2, <1>3

(* A job appended to a queue it is not in leaves the queue without         *)
(* duplicates.                                                             *)
LEMMA AppendAddsOne ==
  ASSUME NEW S, NEW q \in Seq(S), NEW c \in S,
         ~ \E i \in 1..Len(q) : q[i] = c,
         \A i, j \in 1..Len(q) : q[i] = q[j] => i = j
  PROVE  /\ Append(q, c) \in Seq(S)
         /\ Len(Append(q, c)) = Len(q) + 1
         /\ Append(q, c) # <<>>
         /\ \A i, j \in 1..Len(Append(q, c)) :
              Append(q, c)[i] = Append(q, c)[j] => i = j
         /\ \A d : (\E i \in 1..Len(Append(q, c)) : Append(q, c)[i] = d)
                     <=> (\E i \in 1..Len(q) : q[i] = d) \/ d = c
<1>1. /\ Append(q, c) \in Seq(S)
      /\ Len(q) \in Nat
      /\ Len(Append(q, c)) = Len(q) + 1
      /\ \A i \in 1..Len(q) : Append(q, c)[i] = q[i]
      /\ Append(q, c)[Len(q) + 1] = c
  OBVIOUS
<1>2. \A i \in 1..Len(Append(q, c)) : i \in 1..Len(q) \/ i = Len(q) + 1
  BY <1>1
<1>3. \A i, j \in 1..Len(Append(q, c)) :
        Append(q, c)[i] = Append(q, c)[j] => i = j
  BY <1>1, <1>2
<1>4. ASSUME NEW d
      PROVE  (\E i \in 1..Len(Append(q, c)) : Append(q, c)[i] = d)
               <=> (\E i \in 1..Len(q) : q[i] = d) \/ d = c
  <2>1. \A i \in 1..Len(q) : i \in 1..Len(Append(q, c))
    BY <1>1
  <2>2. Len(q) + 1 \in 1..Len(Append(q, c))
    BY <1>1
  <2> QED
    BY <1>1, <1>2, <2>1, <2>2
<1> QED
  BY <1>1, <1>3, <1>4

-----------------------------------------------------------------------------
(* Type correctness.  Deliver puts outcome[w] into a channel, so the type  *)
(* of the channels rests on ResultInHand.                                  *)
Typed == TypeOK /\ ResultInHand

(* The types are right at the start. *)
LEMMA InitTyped == Init => Typed
<1> SUFFICES ASSUME Init PROVE Typed
  OBVIOUS
<1> USE DEF Init
<1>1. ResultInHand
  BY DEF ResultInHand
<1>2. jobs \in Seq(Calls)
  OBVIOUS
<1>3. cancelled \in [Calls -> BOOLEAN]
  BY Zenon
<1> QED
  BY <1>1, <1>2, <1>3 DEF Typed, TypeOK

(* Every action keeps the types: one step of the proof per action. *)
LEMMA NextTyped == Typed /\ [Next]_vars => Typed'
<1> SUFFICES ASSUME Typed, [Next]_vars PROVE Typed'
  OBVIOUS
<1> USE DEF Typed, TypeOK, ResultInHand, poolVars, workerVars, callVars
<1>0. ASSUME Start
      PROVE  /\ started' \in BOOLEAN
             /\ phase' \in [Workers -> {"unborn", "recv", "convert", "send",
                                       "panicked", "exited"}]
             /\ \A w \in Workers : phase'[w] = "send" => phase[w] = "send"
  BY <1>0 DEF Start
<1>1. CASE Boot
  <2>1. /\ Start
        /\ UNCHANGED <<closed, jobs, holding, outcome, resultChan, pc, attempt,
                       answer, cancelled, stopper>>
    BY <1>1 DEF Boot
  <2> QED
    BY <1>0, <2>1
<1>2. ASSUME NEW c \in Calls, Call(c) PROVE Typed'
  <2>1. UNCHANGED <<closed, jobs, holding, outcome, resultChan, attempt,
                    cancelled, stopper>>
    BY <1>2 DEF Call
  <2>2. CASE c \in Retriers /\ MaxRetries = 0
    <3>1. /\ pc' = [pc EXCEPT ![c] = "returned"]
          /\ answer' = [answer EXCEPT ![c] = "nothing"]
          /\ UNCHANGED <<started, phase>>
      BY <1>2, <2>2 DEF Call, Return
    <3> QED
      BY <2>1, <3>1
  <2>3. CASE ~(c \in Retriers /\ MaxRetries = 0)
    <3>1. /\ Start
          /\ pc' = [pc EXCEPT ![c] = "select"]
          /\ UNCHANGED answer
      BY <1>2, <2>3 DEF Call
    <3> QED
      BY <1>0, <2>1, <3>1
  <2> QED
    BY <2>2, <2>3
<1>3. ASSUME NEW c \in Calls, Enqueue(c) PROVE Typed'
  BY <1>3 DEF Enqueue
<1>4. ASSUME NEW c \in Calls, EnqueueClosed(c) PROVE Typed'
  BY <1>4 DEF EnqueueClosed
<1>5. ASSUME NEW c \in Calls, Busy(c) PROVE Typed'
  <2>1. UNCHANGED <<started, closed, jobs, phase, holding, outcome, resultChan,
                    attempt, cancelled, stopper>>
    BY <1>5 DEF Busy
  <2>2. CASE c \in Retriers
    <3>1. /\ pc' = [pc EXCEPT ![c] = "backoff"]
          /\ UNCHANGED answer
      BY <1>5, <2>2 DEF Busy
    <3> QED
      BY <2>1, <3>1
  <2>3. CASE c \notin Retriers
    <3>1. /\ pc' = [pc EXCEPT ![c] = "returned"]
          /\ answer' = [answer EXCEPT ![c] = "busy"]
      BY <1>5, <2>3 DEF Busy, Return
    <3>2. answer' \in [Calls -> Results \cup {"none", "nothing", "canceled",
                                            "busy"}]
      BY <3>1
    <3> QED
      BY <2>1, <3>1, <3>2
  <2> QED
    BY <2>2, <2>3
<1>6. ASSUME NEW c \in Calls, BackoffOver(c) PROVE Typed'
  <2>1. attempt' \in [Calls -> Nat]
    BY <1>6 DEF BackoffOver
  <2>2. CASE attempt[c] + 1 < MaxRetries
    BY <1>6, <2>1, <2>2 DEF BackoffOver
  <2>3. CASE ~(attempt[c] + 1 < MaxRetries)
    BY <1>6, <2>1, <2>3 DEF BackoffOver, Return
  <2> QED
    BY <2>2, <2>3
<1>7. ASSUME NEW c \in Calls, ObserveCancel(c) PROVE Typed'
  BY <1>7 DEF ObserveCancel, Return
<1>8. ASSUME NEW c \in Calls, TakeResult(c) PROVE Typed'
  BY <1>8 DEF TakeResult, Return
<1>9. ASSUME NEW c \in Calls, Cancel(c) PROVE Typed'
  BY <1>9 DEF Cancel
<1>10. ASSUME NEW w \in Workers, Receive(w) PROVE Typed'
  BY <1>10 DEF Receive
<1>11. ASSUME NEW w \in Workers, Exit(w) PROVE Typed'
  BY <1>11 DEF Exit
<1>12. ASSUME NEW w \in Workers, Convert(w) PROVE Typed'
  <2>1. PICK o \in Outcomes : IF o = "panic"
                              THEN /\ phase' = [phase EXCEPT ![w] = "panicked"]
                                   /\ UNCHANGED outcome
                              ELSE /\ phase' = [phase EXCEPT ![w] = "send"]
                                   /\ outcome' = [outcome EXCEPT ![w] = o]
    BY <1>12 DEF Convert
  <2>2. CASE o = "panic"
    <3>1. /\ phase' = [phase EXCEPT ![w] = "panicked"]
          /\ UNCHANGED <<started, closed, jobs, holding, outcome, resultChan, pc,
                         attempt, answer, cancelled, stopper>>
      BY <1>12, <2>1, <2>2 DEF Convert
    <3> QED
      BY <3>1
  <2>3. CASE o # "panic"
    <3>1. o \in Results
      BY <2>3, PoolAssumption DEF PoolAssumption, Results
    <3>2. /\ phase' = [phase EXCEPT ![w] = "send"]
          /\ outcome' = [outcome EXCEPT ![w] = o]
          /\ UNCHANGED <<started, closed, jobs, holding, resultChan, pc, attempt,
                         answer, cancelled, stopper>>
      BY <1>12, <2>1, <2>3 DEF Convert
    <3>3. ResultInHand'
      BY <3>1, <3>2
    <3>4. TypeOK'
      BY <3>1, <3>2
    <3> QED
      BY <3>3, <3>4
  <2> QED
    BY <2>2, <2>3
<1>13. ASSUME NEW w \in Workers, Deliver(w) PROVE Typed'
  <2>1. resultChan' \in [Calls -> Results \cup {"empty"}]
    BY <1>13 DEF Deliver
  <2>2. /\ phase' = [phase EXCEPT ![w] = "recv"]
        /\ holding' = [holding EXCEPT ![w] = NoCall]
        /\ outcome' = [outcome EXCEPT ![w] = "none"]
        /\ UNCHANGED <<poolVars, callVars, cancelled, stopper>>
    BY <1>13 DEF Deliver
  <2> QED
    BY <2>1, <2>2
<1>14. ASSUME NEW s \in Stoppers, StopClose(s) PROVE Typed'
  BY <1>14 DEF StopClose
<1>15. ASSUME NEW s \in Stoppers, StopReturn(s) PROVE Typed'
  BY <1>15 DEF StopReturn
<1>16. CASE UNCHANGED vars
  BY <1>16 DEF vars
<1> QED
  BY <1>1, <1>2, <1>3, <1>4, <1>5, <1>6, <1>7, <1>8, <1>9, <1>10, <1>11,
     <1>12, <1>13, <1>14, <1>15, <1>16
  DEF Next, CallStep, WorkerStep, Halt

(* Every variable has values of its type in every reachable state. *)
THEOREM PoolType == Spec => []TypeOK
<1>1. Typed => TypeOK
  BY DEF Typed
<1> QED
  BY InitTyped, NextTyped, <1>1, PTL DEF Spec

-----------------------------------------------------------------------------
(* Where the jobs are, before and after a step.                            *)

(* A step that moves no job and no worker into or out of work.             *)
LEMMA NothingMoves ==
  ASSUME jobs' = jobs, holding' = holding,
         \A w \in Workers : BusyWorker(w)' <=> BusyWorker(w)
  PROVE  /\ \A c : InQueue(c)' <=> InQueue(c)
         /\ \A c : Held(c)' <=> Held(c)
         /\ BusyWorkers' = BusyWorkers
  BY DEF InQueue, Held, BusyWorkers

(* The inductive invariant holds at the start. *)
LEMMA InitIInv == Init => IInv
<1> SUFFICES ASSUME Init PROVE IInv
  OBVIOUS
<1>1. TypeOK /\ ResultInHand
  BY InitTyped DEF Typed
<1>2. BusyWorkers = {} /\ \A c : ~InQueue(c) /\ ~Held(c)
  BY DEF Init, BusyWorkers, BusyWorker, InQueue, Held
<1>3. Cardinality(Workers) \in Nat
  BY PoolAssumption, FS_CardinalityType DEF PoolAssumption
<1>4. OnePlace /\ RefusedLeavesNothing /\ AnsweredOnce
  BY <1>2 DEF Init, OnePlace, RefusedLeavesNothing, AnsweredOnce, Nowhere, Results
<1>5. WaitIsAnswerable /\ Spawned /\ ExitedLast /\ StoppedIsClosed
  BY DEF Init, WaitIsAnswerable, Spawned, ExitedLast, StoppedIsClosed
<1>6. QueueWhileRunning
  BY <1>3 DEF Init, QueueWhileRunning, Capacity
<1> QED
  BY <1>1, <1>4, <1>5, <1>6 DEF IInv

(* A step of the caller that submits nothing and takes nothing. *)
LEMMA CallerIInv ==
  ASSUME IInv, Typed', NEW c \in Calls,
         \/ EnqueueClosed(c)
         \/ Busy(c)
         \/ BackoffOver(c)
         \/ ObserveCancel(c)
         \/ Cancel(c)
  PROVE  IInv'
<1> USE DEF poolVars, workerVars, callVars
<1>1. UNCHANGED <<started, closed, jobs, phase, holding, outcome, resultChan,
                  stopper>>
  BY DEF EnqueueClosed, Busy, BackoffOver, ObserveCancel, Cancel
<1>2. /\ \A d : InQueue(d)' <=> InQueue(d)
      /\ \A d : Held(d)' <=> Held(d)
      /\ \A d \in Calls : Nowhere(d)' <=> Nowhere(d)
      /\ BusyWorkers' = BusyWorkers
  BY <1>1, NothingMoves DEF BusyWorker, Nowhere
<1>3. /\ OnePlace'
      /\ QueueWhileRunning'
      /\ ExitedLast'
      /\ StoppedIsClosed'
  BY <1>1, <1>2 DEF IInv, OnePlace, QueueWhileRunning, ExitedLast,
     StoppedIsClosed, Capacity
<1>4. /\ \A d \in Calls : d # c => pc'[d] = pc[d] /\ answer'[d] = answer[d]
      /\ pc'[c] = "wait" => pc[c] = "wait"
      /\ pc'[c] \in {"select", "backoff"} => pc[c] \in {"select", "backoff"}
      /\ NotAccepted(c)' \/ answer'[c] \in {"busy", "nothing"}
           => NotAccepted(c) \/ answer[c] \in {"busy", "nothing"}
      /\ answer'[c] # "none" <=> pc'[c] = "returned"
      /\ answer'[c] \in Results => answer[c] \in Results
  BY DEF IInv, TypeOK, AnsweredOnce, EnqueueClosed, Busy, BackoffOver,
     ObserveCancel, Cancel, Return, NotAccepted, Results
<1>5. WaitIsAnswerable'
  BY <1>1, <1>2, <1>4 DEF IInv, WaitIsAnswerable
<1>6. RefusedLeavesNothing'
  BY <1>1, <1>2, <1>4 DEF IInv, RefusedLeavesNothing, NotAccepted
<1>7. AnsweredOnce'
  BY <1>1, <1>2, <1>4 DEF IInv, AnsweredOnce
<1>8. Spawned'
  BY <1>1, <1>4 DEF IInv, Spawned
<1> QED
  BY <1>3, <1>5, <1>6, <1>7, <1>8 DEF IInv, Typed

(* Starting the pool and entering Submit: workers that were not there wait *)
(* for a first job.                                                        *)
LEMMA StartIInv ==
  ASSUME IInv, Typed', Boot \/ \E c \in Calls : Call(c)
  PROVE  IInv'
<1>1. /\ UNCHANGED <<closed, jobs, holding, outcome, resultChan, stopper>>
      /\ \/ UNCHANGED <<started, phase>>
         \/ Start
      /\ started => started'
  BY DEF Boot, Call, callVars, Start
<1>2. \A w \in Workers :
        phase'[w] = phase[w] \/ (phase[w] = "unborn" /\ phase'[w] = "recv")
  BY <1>1 DEF IInv, TypeOK, Spawned, Start
<1>3. /\ \A d : InQueue(d)' <=> InQueue(d)
      /\ \A d : Held(d)' <=> Held(d)
      /\ \A d \in Calls : Nowhere(d)' <=> Nowhere(d)
      /\ BusyWorkers' = BusyWorkers
  <2>1. \A w \in Workers : BusyWorker(w)' <=> BusyWorker(w)
    BY <1>2 DEF BusyWorker
  <2> QED
    BY <1>1, <2>1, NothingMoves DEF Nowhere
<1>4. /\ OnePlace'
      /\ QueueWhileRunning'
      /\ ExitedLast'
      /\ StoppedIsClosed'
  BY <1>1, <1>2, <1>3 DEF IInv, OnePlace, QueueWhileRunning, ExitedLast,
     StoppedIsClosed, Capacity
<1>5. Spawned'
  <2>1. \A w \in Workers : phase'[w] = "unborn" <=> ~started'
    BY <1>1 DEF IInv, Spawned, Start, TypeOK
  <2>2. \A d \in Calls :
          pc'[d] \in {"select", "wait", "backoff"} => started'
    BY <1>1 DEF IInv, Spawned, TypeOK, Boot, Call, callVars, Return, Start
  <2> QED
    BY <2>1, <2>2 DEF Spawned
<1>6. /\ \A d \in Calls :
           \/ pc'[d] = pc[d] /\ answer'[d] = answer[d]
           \/ /\ pc[d] = "idle"
              /\ pc'[d] = "returned"
              /\ answer'[d] = "nothing"
           \/ /\ pc[d] = "idle"
              /\ pc'[d] = "select"
              /\ answer'[d] = answer[d]
  BY DEF Boot, Call, callVars, Return, IInv, TypeOK
<1>7. WaitIsAnswerable'
  BY <1>1, <1>3, <1>6 DEF IInv, WaitIsAnswerable
<1>8. RefusedLeavesNothing'
  BY <1>1, <1>3, <1>6 DEF IInv, RefusedLeavesNothing, NotAccepted
<1>9. AnsweredOnce'
  BY <1>1, <1>3, <1>6 DEF IInv, AnsweredOnce, Results
<1> QED
  BY <1>4, <1>5, <1>7, <1>8, <1>9 DEF IInv, Typed

(* case p.jobs <- job: the job was nowhere, and is now in the queue. *)
LEMMA EnqueueIInv ==
  ASSUME IInv, Typed', NEW c \in Calls, Enqueue(c)
  PROVE  IInv'
<1> USE DEF poolVars, workerVars, callVars
<1>1. UNCHANGED <<started, closed, phase, holding, outcome, resultChan,
                  cancelled, answer, stopper>>
  BY DEF Enqueue
<1>2. Nowhere(c) /\ pc[c] = "select"
  BY DEF Enqueue, IInv, RefusedLeavesNothing, NotAccepted
<1>3. /\ jobs' # <<>>
      /\ Len(jobs') = Len(jobs) + 1
      /\ \A i, j \in 1..Len(jobs') : jobs'[i] = jobs'[j] => i = j
      /\ \A d : InQueue(d)' <=> InQueue(d) \/ d = c
  BY <1>2, AppendAddsOne DEF Enqueue, IInv, TypeOK, OnePlace, Nowhere, InQueue
<1>4. /\ \A d : Held(d)' <=> Held(d)
      /\ BusyWorkers' = BusyWorkers
  BY <1>1 DEF Held, BusyWorkers, BusyWorker
<1>5. /\ pc'[c] = "wait"
      /\ \A d \in Calls : d # c => pc'[d] = pc[d]
      /\ \A d \in Calls : d # c => (Nowhere(d)' <=> Nowhere(d))
  BY <1>1, <1>3, <1>4 DEF Enqueue, IInv, TypeOK, Nowhere
<1>6. OnePlace'
  <2>1. \A w \in BusyWorkers : holding[w] # c
    BY <1>2 DEF Nowhere, Held, BusyWorkers
  <2> QED
    BY <1>1, <1>2, <1>3, <1>4, <2>1 DEF IInv, OnePlace, Nowhere
<1>7. WaitIsAnswerable'
  BY <1>1, <1>3, <1>4, <1>5 DEF IInv, WaitIsAnswerable
<1>8. RefusedLeavesNothing'
  <2>1. answer[c] = "none"
    BY <1>2 DEF IInv, AnsweredOnce
  <2> QED
    BY <1>1, <1>5, <2>1 DEF IInv, RefusedLeavesNothing, NotAccepted
<1>9. Spawned'
  BY <1>1, <1>2, <1>5 DEF IInv, Spawned
<1>10. QueueWhileRunning'
  <2>1. started
    BY <1>2 DEF IInv, Spawned
  <2>2. Cardinality(Workers) \in Nat
    BY PoolAssumption, FS_CardinalityType DEF PoolAssumption
  <2> QED
    BY <1>1, <1>3, <2>1, <2>2 DEF QueueWhileRunning, Enqueue, Capacity, IInv, TypeOK
<1>11. ExitedLast' /\ StoppedIsClosed'
  BY <1>1 DEF Enqueue, IInv, ExitedLast, StoppedIsClosed
<1>12. AnsweredOnce'
  BY <1>1, <1>2, <1>5 DEF IInv, AnsweredOnce, Results
<1> QED
  BY <1>6, <1>7, <1>8, <1>9, <1>10, <1>11, <1>12 DEF IInv, Typed

(* case result := <-resultChan: the job's last trace leaves the pool. *)
LEMMA TakeIInv ==
  ASSUME IInv, Typed', NEW c \in Calls, TakeResult(c)
  PROVE  IInv'
<1> USE DEF poolVars, workerVars
<1>1. /\ UNCHANGED <<started, closed, jobs, phase, holding, outcome, stopper>>
      /\ pc[c] = "wait" /\ pc'[c] = "returned"
      /\ answer'[c] = resultChan[c] /\ resultChan[c] \in Results
      /\ resultChan'[c] = "empty"
      /\ \A d \in Calls : d # c => /\ pc'[d] = pc[d]
                                  /\ answer'[d] = answer[d]
                                  /\ resultChan'[d] = resultChan[d]
  BY DEF TakeResult, Return, IInv, TypeOK, Results
<1>2. /\ \A d : InQueue(d)' <=> InQueue(d)
      /\ \A d : Held(d)' <=> Held(d)
      /\ BusyWorkers' = BusyWorkers
  BY <1>1, NothingMoves DEF BusyWorker
<1>3. Nowhere(c)'
  BY <1>1, <1>2 DEF IInv, OnePlace, Nowhere, Results
<1>4. OnePlace'
  BY <1>1, <1>2 DEF IInv, OnePlace
<1>5. /\ Spawned'
      /\ QueueWhileRunning'
      /\ ExitedLast'
      /\ StoppedIsClosed'
  BY <1>1, <1>2 DEF IInv, Spawned, QueueWhileRunning, ExitedLast,
     StoppedIsClosed, Capacity
<1>6. WaitIsAnswerable'
  BY <1>1, <1>2 DEF IInv, WaitIsAnswerable
<1>7. RefusedLeavesNothing'
  BY <1>1, <1>2, <1>3 DEF IInv, RefusedLeavesNothing, NotAccepted, Nowhere
<1>8. AnsweredOnce'
  BY <1>1, <1>2, <1>3 DEF IInv, AnsweredOnce, Nowhere, Results
<1> QED
  BY <1>4, <1>5, <1>6, <1>7, <1>8 DEF IInv, Typed

(* A worker takes the first job: it moves from the queue into its hands. *)
LEMMA ReceiveIInv ==
  ASSUME IInv, Typed', NEW w \in Workers, Receive(w)
  PROVE  IInv'
<1> DEFINE c == Head(jobs)
<1>1. /\ UNCHANGED <<started, closed, outcome, resultChan, pc, answer, stopper>>
      /\ phase[w] = "recv" /\ phase'[w] = "convert" /\ holding'[w] = c
      /\ \A v \in Workers : v # w => phase'[v] = phase[v] /\ holding'[v] = holding[v]
  BY DEF Receive, callVars, IInv, TypeOK
<1>2. /\ c \in Calls
      /\ Len(jobs') = Len(jobs) - 1
      /\ \A i, j \in 1..Len(jobs') : jobs'[i] = jobs'[j] => i = j
      /\ \A d : InQueue(d)' <=> InQueue(d) /\ d # c
  <2>1. jobs' = Tail(jobs) /\ jobs # <<>> /\ jobs \in Seq(Calls)
    BY DEF Receive, IInv, TypeOK
  <2>2. \A i, j \in 1..Len(jobs) : jobs[i] = jobs[j] => i = j
    BY DEF IInv, OnePlace
  <2>3. /\ c \in Calls
        /\ Len(Tail(jobs)) = Len(jobs) - 1
        /\ \A i, j \in 1..Len(Tail(jobs)) : Tail(jobs)[i] = Tail(jobs)[j] => i = j
        /\ \A d : (\E i \in 1..Len(Tail(jobs)) : Tail(jobs)[i] = d)
                    <=> (\E i \in 1..Len(jobs) : jobs[i] = d) /\ d # c
    BY <2>1, <2>2, TailKeepsOthers, Zenon
  <2> QED
    BY <2>1, <2>3 DEF InQueue
<1>3. InQueue(c)
  <2>1. 1 \in 1..Len(jobs) /\ jobs[1] = c
    BY DEF Receive, IInv, TypeOK
  <2> QED
    BY <2>1 DEF InQueue
<1>4. BusyWorkers' = BusyWorkers \cup {w} /\ w \notin BusyWorkers
  BY <1>1 DEF BusyWorkers, BusyWorker
<1>5. \A d : Held(d)' <=> Held(d) \/ d = c
  BY <1>1 DEF Held, BusyWorker
<1>6. \A d \in Calls : Nowhere(d)' <=> Nowhere(d)
  BY <1>1, <1>2, <1>3, <1>5 DEF Nowhere
<1>7. OnePlace'
  <2>1. \A v \in BusyWorkers' : holding'[v] \in Calls /\ ~InQueue(holding[v])'
    BY <1>1, <1>2, <1>4 DEF IInv, OnePlace, BusyWorkers
  <2>2. \A u, v \in BusyWorkers' : holding'[u] = holding'[v] => u = v
    BY <1>1, <1>3, <1>4 DEF IInv, OnePlace, BusyWorkers
  <2>3. \A d \in Calls : resultChan'[d] # "empty" => ~InQueue(d)' /\ ~Held(d)'
    BY <1>1, <1>2, <1>3, <1>5 DEF IInv, OnePlace
  <2> QED
    BY <1>2, <2>1, <2>2, <2>3 DEF OnePlace
<1>8. /\ WaitIsAnswerable'
      /\ RefusedLeavesNothing'
      /\ AnsweredOnce'
  BY <1>1, <1>2, <1>5, <1>6 DEF IInv, WaitIsAnswerable, RefusedLeavesNothing,
     AnsweredOnce, NotAccepted
<1>9. started
  BY DEF Receive, IInv, QueueWhileRunning
<1>10. Spawned' /\ ExitedLast'
  <2>1. \A v \in Workers : phase[v] # "exited"
    BY DEF Receive, IInv, ExitedLast
  <2> QED
    BY <1>1, <1>9, <2>1 DEF IInv, Spawned, ExitedLast
<1>11. QueueWhileRunning'
  <2>1. Cardinality(Workers) \in Nat
    BY PoolAssumption, FS_CardinalityType DEF PoolAssumption
  <2> QED
    BY <1>1, <1>2, <1>9, <2>1 DEF IInv, QueueWhileRunning, Capacity, Typed, TypeOK
<1>12. StoppedIsClosed'
  BY <1>1 DEF Receive, IInv, StoppedIsClosed
<1> QED
  BY <1>7, <1>8, <1>10, <1>11, <1>12 DEF IInv, Typed

(* The worker converts, or the conversion panics: the job stays in hand. *)
LEMMA ConvertIInv ==
  ASSUME IInv, Typed', NEW w \in Workers, Convert(w)
  PROVE  IInv'
<1> USE DEF poolVars, callVars
<1>1. /\ UNCHANGED <<started, closed, jobs, holding, resultChan, pc, answer,
                     stopper>>
      /\ phase[w] = "convert" /\ phase'[w] \in {"send", "panicked"}
      /\ \A v \in Workers : v # w => phase'[v] = phase[v]
  BY DEF Convert, IInv, TypeOK
<1>2. /\ \A d : InQueue(d)' <=> InQueue(d)
      /\ \A d : Held(d)' <=> Held(d)
      /\ \A d \in Calls : Nowhere(d)' <=> Nowhere(d)
      /\ BusyWorkers' = BusyWorkers
  <2>1. \A v \in Workers : BusyWorker(v)' <=> BusyWorker(v)
    BY <1>1 DEF BusyWorker
  <2> QED
    BY <1>1, <2>1, NothingMoves DEF Nowhere
<1>3. /\ OnePlace'
      /\ WaitIsAnswerable'
      /\ RefusedLeavesNothing'
      /\ AnsweredOnce'
  BY <1>1, <1>2 DEF IInv, OnePlace, WaitIsAnswerable, RefusedLeavesNothing,
     AnsweredOnce, NotAccepted
<1>4. /\ Spawned'
      /\ QueueWhileRunning'
      /\ ExitedLast'
      /\ StoppedIsClosed'
  BY <1>1, <1>2 DEF IInv, Spawned, QueueWhileRunning, ExitedLast,
     StoppedIsClosed, Capacity
<1> QED
  BY <1>3, <1>4 DEF IInv, Typed

(* The worker sends the result: the channel of its job is empty, because   *)
(* the job is in one place.                                                *)
LEMMA DeliverIInv ==
  ASSUME IInv, Typed', NEW w \in Workers, Deliver(w)
  PROVE  IInv'
<1> USE DEF poolVars, callVars
<1> DEFINE c == holding[w]
<1>1. /\ UNCHANGED <<started, closed, jobs, pc, answer, stopper>>
      /\ phase[w] = "send" /\ phase'[w] = "recv"
      /\ \A v \in Workers : v # w => phase'[v] = phase[v] /\ holding'[v] = holding[v]
  BY DEF Deliver, IInv, TypeOK
<1>2. w \in BusyWorkers /\ Held(c)
  BY <1>1 DEF BusyWorkers, BusyWorker, Held
<1>3. c \in Calls /\ ~InQueue(c) /\ resultChan[c] = "empty"
  BY <1>2 DEF IInv, OnePlace
<1>4. /\ resultChan'[c] # "empty"
      /\ \A d \in Calls : d # c => resultChan'[d] = resultChan[d]
  <2>1. outcome[w] # "empty"
    BY <1>1 DEF IInv, ResultInHand, Results
  <2>2. resultChan' = [resultChan EXCEPT
                         ![c] = IF @ = "empty" THEN outcome[w] ELSE @]
    BY DEF Deliver
  <2>3. DOMAIN resultChan = Calls
    BY DEF IInv, TypeOK
  <2> QED
    BY <1>3, <2>1, <2>2, <2>3
<1>5. /\ \A d : InQueue(d)' <=> InQueue(d)
      /\ BusyWorkers' = BusyWorkers \ {w}
  BY <1>1 DEF InQueue, BusyWorkers, BusyWorker
<1>6. \A v \in BusyWorkers : v # w => holding[v] # c
  BY <1>2 DEF IInv, OnePlace
<1>7. \A d : Held(d)' <=> Held(d) /\ d # c
  <2>1. \A d : Held(d) <=> \E v \in BusyWorkers : holding[v] = d
    BY DEF Held, BusyWorkers
  <2>2. \A d : Held(d)' <=> \E v \in BusyWorkers' : holding'[v] = d
    BY DEF Held, BusyWorkers
  <2>3. \A v \in BusyWorkers' : v \in BusyWorkers /\ v # w /\ holding'[v] = holding[v]
    BY <1>1, <1>5 DEF BusyWorkers
  <2>4. \A v \in BusyWorkers : v # w => v \in BusyWorkers' /\ holding'[v] = holding[v]
    BY <1>1, <1>5 DEF BusyWorkers
  <2> QED
    BY <1>6, <2>1, <2>2, <2>3, <2>4
<1>8. OnePlace'
  <2>1. \A v \in BusyWorkers' : holding'[v] \in Calls /\ ~InQueue(holding[v])'
    BY <1>1, <1>5 DEF IInv, OnePlace, BusyWorkers
  <2>2. \A u, v \in BusyWorkers' : holding'[u] = holding'[v] => u = v
    BY <1>1, <1>5 DEF IInv, OnePlace, BusyWorkers
  <2>3. \A d \in Calls : resultChan'[d] # "empty" => ~InQueue(d)' /\ ~Held(d)'
    BY <1>3, <1>4, <1>5, <1>7 DEF IInv, OnePlace
  <2> QED
    BY <1>1, <2>1, <2>2, <2>3 DEF IInv, OnePlace
<1>9. WaitIsAnswerable'
  BY <1>1, <1>3, <1>4, <1>5, <1>7 DEF IInv, WaitIsAnswerable
<1>10. \A d \in Calls : Nowhere(d) => Nowhere(d)'
  BY <1>2, <1>4, <1>5, <1>7 DEF Nowhere
<1>11. RefusedLeavesNothing' /\ AnsweredOnce'
  BY <1>1, <1>10 DEF IInv, RefusedLeavesNothing, AnsweredOnce, NotAccepted
<1>12. Spawned' /\ ExitedLast' /\ QueueWhileRunning'
  BY <1>1 DEF IInv, Spawned, ExitedLast, QueueWhileRunning, Capacity
<1>13. StoppedIsClosed'
  BY <1>1, <1>5 DEF IInv, StoppedIsClosed
<1> QED
  BY <1>8, <1>9, <1>11, <1>12, <1>13 DEF IInv, Typed

(* A worker exits, Stop closes the channel, or Stop returns. *)
LEMMA ShutdownIInv ==
  ASSUME IInv, Typed',
         \/ \E w \in Workers : Exit(w)
         \/ \E s \in Stoppers : StopClose(s) \/ StopReturn(s)
  PROVE  IInv'
<1> USE DEF poolVars, workerVars, callVars
<1>1. /\ UNCHANGED <<started, jobs, holding, outcome, resultChan, pc, answer>>
      /\ closed => closed'
  BY DEF Exit, StopClose, StopReturn
<1>2. \A w \in Workers :
        \/ phase'[w] = phase[w]
        \/ /\ phase[w] = "recv" /\ phase'[w] = "exited"
           /\ closed /\ jobs = <<>>
  BY DEF Exit, StopClose, StopReturn, IInv, TypeOK
<1>3. /\ \A d : InQueue(d)' <=> InQueue(d)
      /\ \A d : Held(d)' <=> Held(d)
      /\ \A d \in Calls : Nowhere(d)' <=> Nowhere(d)
      /\ BusyWorkers' = BusyWorkers
  <2>1. \A w \in Workers : BusyWorker(w)' <=> BusyWorker(w)
    BY <1>2 DEF BusyWorker
  <2> QED
    BY <1>1, <2>1, NothingMoves DEF Nowhere
<1>4. /\ OnePlace'
      /\ WaitIsAnswerable'
      /\ RefusedLeavesNothing'
      /\ AnsweredOnce'
  BY <1>1, <1>3 DEF IInv, OnePlace, WaitIsAnswerable, RefusedLeavesNothing,
     AnsweredOnce, NotAccepted
<1>5. Spawned' /\ ExitedLast' /\ QueueWhileRunning'
  BY <1>1, <1>2 DEF IInv, Spawned, ExitedLast, QueueWhileRunning, Capacity
<1>6. StoppedIsClosed'
  <2>1. CASE \E w \in Workers : Exit(w)
    BY <1>1, <1>3, <2>1 DEF Exit, IInv, StoppedIsClosed
  <2>2. ASSUME NEW s \in Stoppers, StopClose(s) PROVE StoppedIsClosed'
    BY <1>1, <1>3, <2>2 DEF StopClose, IInv, StoppedIsClosed, TypeOK
  <2>3. ASSUME NEW s \in Stoppers, StopReturn(s) PROVE StoppedIsClosed'
    <3>1. BusyWorkers = {}
      BY <2>3 DEF StopReturn, BusyWorkers, BusyWorker
    <3>2. jobs = <<>>
      <4>1. CASE \E w \in Workers : phase[w] = "exited"
        BY <4>1 DEF IInv, ExitedLast
      <4>2. CASE \A w \in Workers : phase[w] # "exited"
        <5>1. Workers # {} => ~started
          BY <2>3, <4>2 DEF StopReturn, IInv, Spawned
        <5>2. CASE Workers = {}
          BY <5>2, FS_EmptySet DEF IInv, QueueWhileRunning, Capacity, TypeOK
        <5> QED
          BY <5>1, <5>2 DEF IInv, QueueWhileRunning
      <4> QED
        BY <4>1, <4>2
    <3> QED
      BY <1>1, <1>3, <2>3, <3>1, <3>2 DEF StopReturn, IInv, StoppedIsClosed, TypeOK
  <2> QED
    BY <2>1, <2>2, <2>3
<1> QED
  BY <1>4, <1>5, <1>6 DEF IInv, Typed

-----------------------------------------------------------------------------
(* The inductive invariant holds in every reachable state. *)
THEOREM PoolInvariant == Spec => []IInv
<1>1. IInv /\ [Next]_vars => IInv'
  <2> SUFFICES ASSUME IInv, [Next]_vars PROVE IInv'
    OBVIOUS
  <2>1. Typed'
    BY NextTyped DEF IInv, Typed
  <2>2. CASE Boot \/ \E c \in Calls : Call(c)
    BY <2>1, <2>2, StartIInv
  <2>3. ASSUME NEW c \in Calls, CallStep(c) \/ Cancel(c) PROVE IInv'
    <3>1. CASE Enqueue(c)
      BY <2>1, <3>1, EnqueueIInv
    <3>2. CASE TakeResult(c)
      BY <2>1, <3>2, TakeIInv
    <3> QED
      BY <2>1, <2>3, <3>1, <3>2, CallerIInv DEF CallStep
  <2>4. ASSUME NEW w \in Workers, WorkerStep(w) PROVE IInv'
    <3>1. CASE Receive(w)
      BY <2>1, <3>1, ReceiveIInv
    <3>2. CASE Convert(w)
      BY <2>1, <3>2, ConvertIInv
    <3>3. CASE Deliver(w)
      BY <2>1, <3>3, DeliverIInv
    <3>4. CASE Exit(w)
      BY <2>1, <3>4, ShutdownIInv
    <3> QED
      BY <2>4, <3>1, <3>2, <3>3, <3>4 DEF WorkerStep
  <2>5. ASSUME NEW s \in Stoppers, StopClose(s) \/ StopReturn(s) PROVE IInv'
    BY <2>1, <2>5, ShutdownIInv
  <2>6. CASE UNCHANGED vars
    BY <2>6 DEF vars, poolVars, workerVars, callVars, IInv, TypeOK, OnePlace,
       WaitIsAnswerable, RefusedLeavesNothing, Spawned, QueueWhileRunning,
       ResultInHand, ExitedLast, AnsweredOnce, StoppedIsClosed, InQueue, Held,
       Nowhere, NotAccepted, BusyWorkers, BusyWorker, Capacity
  <2> QED
    BY <2>2, <2>3, <2>4, <2>5, <2>6 DEF Next, Halt
<1> QED
  BY InitIInv, <1>1, PTL DEF Spec

(* A job is queued once, or held by one worker, or finished: one place. *)
THEOREM PoolOnePlace == Spec => []OnePlace
<1>1. IInv => OnePlace
  BY DEF IInv
<1> QED
  BY PoolInvariant, <1>1, PTL

(* The non-blocking send of a worker never drops a result. *)
THEOREM PoolNoResultLost == Spec => []NoResultLost
<1>1. IInv => NoResultLost
  <2> SUFFICES ASSUME IInv, NEW w \in Workers, phase[w] = "send"
               PROVE  resultChan[holding[w]] = "empty"
    BY DEF NoResultLost
  <2>1. w \in BusyWorkers /\ Held(holding[w]) /\ holding[w] \in Calls
    BY DEF BusyWorkers, BusyWorker, Held, IInv, OnePlace
  <2> QED
    BY <2>1 DEF IInv, OnePlace
<1> QED
  BY PoolInvariant, <1>1, PTL

(* A caller that waits has its job, or its job's result, in the pool. *)
THEOREM PoolWaitIsAnswerable == Spec => []WaitIsAnswerable
<1>1. IInv => WaitIsAnswerable
  BY DEF IInv
<1> QED
  BY PoolInvariant, <1>1, PTL

(* A refused call, or one that is still to submit, has no job in the pool. *)
THEOREM PoolRefused == Spec => []RefusedLeavesNothing
<1>1. IInv => RefusedLeavesNothing
  BY DEF IInv
<1> QED
  BY PoolInvariant, <1>1, PTL

(* Once Stop has returned every accepted job has been converted and its    *)
(* result handed over.                                                     *)
THEOREM PoolStopDrains == Spec => []StopDrains
<1>1. IInv => StopDrains
  <2> SUFFICES ASSUME IInv, NEW s \in Stoppers, stopper[s] = "returned"
               PROVE  /\ jobs = <<>>
                      /\ BusyWorkers = {}
                      /\ \A c \in Calls : pc[c] = "wait" => resultChan[c] # "empty"
    BY DEF StopDrains
  <2>1. jobs = <<>> /\ BusyWorkers = {}
    BY DEF IInv, StoppedIsClosed
  <2>2. \A c : ~InQueue(c) /\ ~Held(c)
    BY <2>1 DEF InQueue, Held, BusyWorkers
  <2> QED
    BY <2>1, <2>2 DEF IInv, WaitIsAnswerable
<1> QED
  BY PoolInvariant, <1>1, PTL
=============================================================================
