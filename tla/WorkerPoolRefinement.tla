------------------------- MODULE WorkerPoolRefinement -------------------------
(***************************************************************************)
(* What TLAPS proves of WorkerPool against JobService: whatever calls,     *)
(* workers and stoppers there are, the pool converts an accepted job at    *)
(* most once, a refused call leaves nothing, and an answer with a result   *)
(* is the result of the call's own job.                                    *)
(***************************************************************************)
EXTENDS WorkerPoolProofs

Placed(c) == InQueue(c) \/ Held(c)

StageMap == [c \in Calls |-> Stage(c)]

(* The stage is a matter of the results of a job and of its place. *)
LEMMA StageKept ==
  ASSUME NEW d,
         \A r \in Results : HasResult(d, r)' <=> HasResult(d, r),
         Placed(d)' <=> Placed(d)
  PROVE  Stage(d)' = Stage(d)
  BY DEF Stage, Placed, Results

(* A step that touches no worker that sends, no channel and no result of a *)
(* call keeps every result where it is.                                    *)
LEMMA ResultsKept ==
  ASSUME resultChan' = resultChan, holding' = holding, outcome' = outcome,
         \A w \in Workers : phase'[w] = "send" <=> phase[w] = "send",
         NEW d, \A r \in Results : answer'[d] = r <=> answer[d] = r
  PROVE  \A r \in Results : HasResult(d, r)' <=> HasResult(d, r)
  BY DEF HasResult

(* A job that is nowhere, of a call without a result, is new. *)
LEMMA NowhereIsNew ==
  ASSUME IInv, NEW c \in Calls, Nowhere(c), answer[c] \notin Results
  PROVE  Stage(c) = "new"
<1>1. ~Placed(c) /\ \A r \in Results : ~HasResult(c, r)
  BY DEF Nowhere, Placed, HasResult, Held, BusyWorker, Results
<1> QED
  BY <1>1 DEF Stage, Placed, Results

(* The job a worker converts has no result yet. *)
LEMMA InHandIsAccepted ==
  ASSUME IInv, NEW w \in Workers, phase[w] = "convert"
  PROVE  /\ holding[w] \in Calls
         /\ \A r \in Results : ~HasResult(holding[w], r)
         /\ Placed(holding[w])
         /\ Stage(holding[w]) = "accepted"
<1> DEFINE c == holding[w]
<1>1. w \in BusyWorkers /\ c \in Calls /\ Held(c)
  BY DEF BusyWorkers, BusyWorker, Held, IInv, OnePlace
<1>2. resultChan[c] = "empty" /\ answer[c] \notin Results
  BY <1>1 DEF IInv, OnePlace, AnsweredOnce, Nowhere
<1>3. \A v \in Workers : phase[v] = "send" => holding[v] # c
  BY <1>1 DEF BusyWorkers, BusyWorker, IInv, OnePlace
<1>4. \A r \in Results : ~HasResult(c, r)
  BY <1>2, <1>3 DEF HasResult, Results
<1> QED
  BY <1>1, <1>4 DEF Stage, Placed, Results

(* The job a worker is about to answer has the result that is in its hand. *)
LEMMA ToSendHasOutcome ==
  ASSUME IInv, NEW w \in Workers, phase[w] = "send"
  PROVE  /\ holding[w] \in Calls
         /\ outcome[w] \in Results
         /\ resultChan[holding[w]] = "empty"
         /\ answer[holding[w]] \notin Results
         /\ \A v \in Workers : phase[v] = "send" /\ holding[v] = holding[w] => v = w
         /\ \A r \in Results : HasResult(holding[w], r) <=> r = outcome[w]
<1> DEFINE c == holding[w]
<1>1. w \in BusyWorkers /\ c \in Calls /\ Held(c)
  BY DEF BusyWorkers, BusyWorker, Held, IInv, OnePlace
<1>2. resultChan[c] = "empty" /\ answer[c] \notin Results
  BY <1>1 DEF IInv, OnePlace, AnsweredOnce, Nowhere
<1>3. \A v \in Workers : phase[v] = "send" /\ holding[v] = c => v = w
  BY <1>1 DEF BusyWorkers, BusyWorker, IInv, OnePlace
<1>4. outcome[w] \in Results
  BY DEF IInv, ResultInHand
<1> QED
  BY <1>1, <1>2, <1>3, <1>4 DEF HasResult, Results

-----------------------------------------------------------------------------
(* A step of a caller that queues nothing and takes nothing answers nothing *)
(* that carries a result: a stutter, a refusal or giving up.               *)
LEMMA CallerStep ==
  ASSUME IInv, NEW c \in Calls,
         Call(c) \/ EnqueueClosed(c) \/ Busy(c) \/ BackoffOver(c)
           \/ ObserveCancel(c) \/ Cancel(c)
  PROVE  [Service!Next]_<<StageMap, answer>>
<1> USE DEF poolVars, workerVars, callVars
<1>1. UNCHANGED <<jobs, holding, outcome, resultChan>>
  BY DEF Call, EnqueueClosed, Busy, BackoffOver, ObserveCancel, Cancel
<1>2. \A w \in Workers : /\ phase'[w] = "send" <=> phase[w] = "send"
                         /\ BusyWorker(w)' <=> BusyWorker(w)
  BY DEF Call, Start, EnqueueClosed, Busy, BackoffOver, ObserveCancel, Cancel,
     IInv, TypeOK, Spawned, BusyWorker
<1>3. \/ answer' = answer
      \/ /\ answer[c] = "none"
         /\ \E a \in {"busy", "nothing"} : answer' = [answer EXCEPT ![c] = a]
         /\ NotAccepted(c)
      \/ /\ answer[c] = "none"
         /\ answer' = [answer EXCEPT ![c] = "canceled"]
  BY DEF Call, EnqueueClosed, Busy, BackoffOver, ObserveCancel, Cancel, Return,
     NotAccepted, IInv, TypeOK, AnsweredOnce
<1>4. \A d \in Calls : \A r \in Results : answer'[d] = r <=> answer[d] = r
  BY <1>3 DEF IInv, TypeOK, Results
<1>5. \A d : Placed(d)' <=> Placed(d)
  BY <1>1, <1>2, NothingMoves DEF Placed
<1>6. StageMap' = StageMap
  BY <1>1, <1>2, <1>4, <1>5, ResultsKept, StageKept DEF StageMap
<1>7. CASE answer' = answer
  BY <1>6, <1>7
<1>8. ASSUME answer[c] = "none", NotAccepted(c),
             NEW a \in {"busy", "nothing"}, answer' = [answer EXCEPT ![c] = a]
      PROVE  Service!Refuse(c)
  <2>1. Stage(c) = "new"
    BY <1>8, NowhereIsNew DEF IInv, RefusedLeavesNothing, Results
  <2> QED
    BY <1>6, <1>8, <2>1 DEF Service!Refuse, Service!Answer, StageMap
<1>9. ASSUME answer[c] = "none", answer' = [answer EXCEPT ![c] = "canceled"]
      PROVE  Service!GiveUp(c)
  BY <1>6, <1>9 DEF Service!GiveUp, Service!Answer, StageMap
<1> QED
  BY <1>3, <1>7, <1>8, <1>9 DEF Service!Next

(* case p.jobs <- job: the service accepts the job. *)
LEMMA EnqueueAccepts ==
  ASSUME IInv, NEW c \in Calls, Enqueue(c)
  PROVE  Service!Accept(c)
<1> USE DEF poolVars, workerVars, callVars
<1>1. UNCHANGED <<phase, holding, outcome, resultChan, answer>>
  BY DEF Enqueue
<1>2. Nowhere(c) /\ pc[c] = "select" /\ answer[c] = "none"
  BY DEF Enqueue, IInv, RefusedLeavesNothing, NotAccepted, AnsweredOnce
<1>3. \A d : InQueue(d)' <=> InQueue(d) \/ d = c
  <2>1. /\ jobs \in Seq(Calls) /\ jobs' = Append(jobs, c)
        /\ ~ \E i \in 1..Len(jobs) : jobs[i] = c
        /\ \A i, j \in 1..Len(jobs) : jobs[i] = jobs[j] => i = j
    BY <1>2 DEF Enqueue, IInv, TypeOK, OnePlace, Nowhere, InQueue
  <2>2. \A d : (\E i \in 1..Len(jobs') : jobs'[i] = d)
                <=> (\E i \in 1..Len(jobs) : jobs[i] = d) \/ d = c
    BY <2>1, AppendAddsOne
  <2> QED
    BY <2>2 DEF InQueue
<1>4. \A d : Held(d)' <=> Held(d)
  BY <1>1 DEF Held, BusyWorker
<1>5. \A d : \A r \in Results : HasResult(d, r)' <=> HasResult(d, r)
  BY <1>1, ResultsKept
<1>6. Stage(c) = "new" /\ \A r \in Results : ~HasResult(c, r)
  BY <1>2, NowhereIsNew DEF Nowhere, HasResult, Held, BusyWorker, Results
<1>7. Stage(c)' = "accepted"
  BY <1>3, <1>5, <1>6 DEF Stage, Results
<1>8. \A d \in Calls : d # c => Stage(d)' = Stage(d)
  BY <1>3, <1>4, <1>5, StageKept DEF Placed
<1> QED
  BY <1>1, <1>2, <1>6, <1>7, <1>8 DEF Service!Accept

(* case result := <-resultChan: the service answers with the result. *)
LEMMA TakeReplies ==
  ASSUME IInv, NEW c \in Calls, TakeResult(c)
  PROVE  Service!Reply(c)
<1> USE DEF poolVars, workerVars
<1>1. /\ UNCHANGED <<jobs, phase, holding, outcome>>
      /\ answer' = [answer EXCEPT ![c] = resultChan[c]]
      /\ resultChan' = [resultChan EXCEPT ![c] = "empty"]
      /\ resultChan[c] \in Results
      /\ answer[c] = "none"
  BY DEF TakeResult, Return, IInv, TypeOK, AnsweredOnce, Results
<1>2. /\ answer'[c] = resultChan[c] /\ resultChan'[c] = "empty"
      /\ \A d \in Calls : d # c => /\ answer'[d] = answer[d]
                                  /\ resultChan'[d] = resultChan[d]
  BY <1>1 DEF IInv, TypeOK
<1>3. \A d : Placed(d)' <=> Placed(d)
  BY <1>1, NothingMoves DEF Placed, BusyWorker
<1>4. ~Held(c) /\ \A w \in Workers : phase[w] = "send" => holding[w] # c
  BY <1>1 DEF IInv, OnePlace, Results, Held, BusyWorker
<1>5. \A r \in Results : HasResult(c, r) <=> r = resultChan[c]
  BY <1>1, <1>4 DEF HasResult, Results
<1>6. \A r \in Results : HasResult(c, r)' <=> r = resultChan[c]
  BY <1>1, <1>2, <1>4 DEF HasResult, Results
<1>7. \A d \in Calls : d # c => \A r \in Results : HasResult(d, r)' <=> HasResult(d, r)
  BY <1>1, <1>2 DEF HasResult
<1>8. StageMap' = StageMap
  BY <1>3, <1>5, <1>6, <1>7, StageKept DEF StageMap
<1>9. Stage(c) = resultChan[c]
  BY <1>1, <1>5 DEF Stage, Results
<1> QED
  BY <1>1, <1>8, <1>9 DEF Service!Reply, Service!Answer, Service!Results,
     StageMap, Results

(* The worker takes the job it will convert: the service sees nothing. *)
LEMMA ReceiveStutters ==
  ASSUME IInv, NEW w \in Workers, Receive(w)
  PROVE  UNCHANGED <<StageMap, answer>>
<1> DEFINE c == Head(jobs)
<1>1. /\ UNCHANGED <<outcome, resultChan, answer>>
      /\ phase[w] = "recv" /\ phase'[w] = "convert" /\ holding'[w] = c
      /\ \A v \in Workers : v # w => phase'[v] = phase[v] /\ holding'[v] = holding[v]
  BY DEF Receive, callVars, IInv, TypeOK
<1>2. \A d : InQueue(d)' <=> InQueue(d) /\ d # c
  <2>1. /\ jobs \in Seq(Calls) /\ jobs # <<>> /\ jobs' = Tail(jobs)
        /\ \A i, j \in 1..Len(jobs) : jobs[i] = jobs[j] => i = j
    BY DEF Receive, IInv, TypeOK, OnePlace
  <2>2. \A d : (\E i \in 1..Len(Tail(jobs)) : Tail(jobs)[i] = d)
                <=> (\E i \in 1..Len(jobs) : jobs[i] = d) /\ d # c
    BY <2>1, TailKeepsOthers, Zenon
  <2> QED
    BY <2>1, <2>2 DEF InQueue
<1>3. InQueue(c)
  BY DEF Receive, IInv, TypeOK, InQueue
<1>4. \A d : Held(d)' <=> Held(d) \/ d = c
  BY <1>1 DEF Held, BusyWorker
<1>5. \A d : \A r \in Results : HasResult(d, r)' <=> HasResult(d, r)
  BY <1>1 DEF HasResult
<1> QED
  BY <1>1, <1>2, <1>3, <1>4, <1>5, StageKept DEF Placed, StageMap

(* The conversion ends: the service finishes the job (or the process ends). *)
LEMMA ConvertFinishes ==
  ASSUME IInv, NEW w \in Workers, Convert(w)
  PROVE  Service!Finish(holding[w]) \/ UNCHANGED <<StageMap, answer>>
<1> USE DEF poolVars, callVars
<1> DEFINE c == holding[w]
<1>1. /\ UNCHANGED <<jobs, holding, resultChan, answer>> /\ phase[w] = "convert"
      /\ \A v \in Workers : v # w => /\ phase'[v] = phase[v]
                                    /\ outcome'[v] = outcome[v]
  BY DEF Convert, IInv, TypeOK
<1>2. /\ c \in Calls /\ Placed(c) /\ Stage(c) = "accepted"
      /\ \A r \in Results : ~HasResult(c, r)
  BY <1>1, InHandIsAccepted
<1>3. PICK o \in Outcomes : IF o = "panic"
                            THEN /\ phase' = [phase EXCEPT ![w] = "panicked"]
                                 /\ UNCHANGED outcome
                            ELSE /\ phase' = [phase EXCEPT ![w] = "send"]
                                 /\ outcome' = [outcome EXCEPT ![w] = o]
  BY DEF Convert
<1>4. /\ phase'[w] \in {"panicked", "send"}
      /\ \A v \in Workers : BusyWorker(v)' <=> BusyWorker(v)
  BY <1>1, <1>3 DEF BusyWorker, IInv, TypeOK
<1>5. \A d : Placed(d)' <=> Placed(d)
  BY <1>1, <1>4, NothingMoves DEF Placed
<1>6. \A d : d # c => \A r \in Results : HasResult(d, r)' <=> HasResult(d, r)
  BY <1>1 DEF HasResult
<1>7. CASE o = "panic"
  <2>1. \A r \in Results : HasResult(c, r)' <=> HasResult(c, r)
    BY <1>1, <1>3, <1>7 DEF HasResult, IInv, TypeOK
  <2> QED
    BY <1>1, <1>5, <1>6, <2>1, StageKept DEF StageMap
<1>8. CASE o # "panic"
  <2>1. o \in Results /\ phase'[w] = "send" /\ outcome'[w] = o
    BY <1>3, <1>8, PoolAssumption DEF PoolAssumption, Results, IInv, TypeOK
  <2>2. \A v \in Workers : v # w /\ phase[v] = "send" => holding[v] # c
    BY <1>1 DEF IInv, OnePlace, BusyWorkers, BusyWorker
  <2>3. \A r \in Results : HasResult(c, r)' <=> r = o
    BY <1>1, <1>2, <2>1, <2>2 DEF HasResult
  <2>4. Stage(c)' = o
    BY <2>1, <2>3 DEF Stage, Results
  <2>5. \A d \in Calls : d # c => Stage(d)' = Stage(d)
    BY <1>5, <1>6, StageKept
  <2> QED
    BY <1>1, <1>2, <2>1, <2>4, <2>5 DEF Service!Finish, Service!Results, Results
<1> QED
  BY <1>7, <1>8

(* The result goes from the worker's hand into the channel: a stutter. *)
LEMMA DeliverStutters ==
  ASSUME IInv, NEW w \in Workers, Deliver(w)
  PROVE  UNCHANGED <<StageMap, answer>>
<1> USE DEF poolVars, callVars
<1>0. PICK c \in Calls : c = holding[w]
  BY ToSendHasOutcome DEF Deliver
<1>1. /\ UNCHANGED <<jobs, answer>> /\ phase[w] = "send"
      /\ phase'[w] = "recv" /\ holding'[w] = NoCall
      /\ \A v \in Workers : v # w => /\ phase'[v] = phase[v]
                                    /\ holding'[v] = holding[v]
                                    /\ outcome'[v] = outcome[v]
  BY DEF Deliver, IInv, TypeOK
<1>2. /\ c \in Calls /\ outcome[w] \in Results /\ resultChan[c] = "empty"
      /\ answer[c] \notin Results
      /\ \A v \in Workers : phase[v] = "send" /\ holding[v] = c => v = w
      /\ \A r \in Results : HasResult(c, r) <=> r = outcome[w]
  BY <1>0, <1>1, ToSendHasOutcome
<1>3. /\ resultChan'[c] = outcome[w]
      /\ \A d \in Calls : d # c => resultChan'[d] = resultChan[d]
  BY <1>0, <1>2 DEF Deliver, IInv, TypeOK
<1>4. \A r \in Results : HasResult(c, r)' <=> r = outcome[w]
  BY <1>0, <1>1, <1>2, <1>3, PoolAssumption DEF HasResult, PoolAssumption
<1>5. \A d \in Calls : d # c => \A r \in Results : HasResult(d, r)' <=> HasResult(d, r)
  BY <1>0, <1>1, <1>3, PoolAssumption DEF HasResult, PoolAssumption
<1>6. \A d \in Calls : d # c => (Placed(d)' <=> Placed(d))
  BY <1>0, <1>1 DEF Placed, InQueue, Held, BusyWorker
<1>7. \A d \in Calls : d # c => Stage(d)' = Stage(d)
  BY <1>5, <1>6, StageKept
<1>8. Stage(c)' = Stage(c)
  BY <1>2, <1>4 DEF Stage, Results
<1> QED
  BY <1>1, <1>7, <1>8 DEF StageMap

(* Starting, stopping and leaving the loop move no job. *)
LEMMA OthersStutter ==
  ASSUME IInv,
         \/ Boot
         \/ \E w \in Workers : Exit(w)
         \/ \E s \in Stoppers : StopClose(s) \/ StopReturn(s)
         \/ UNCHANGED vars
  PROVE  UNCHANGED <<StageMap, answer>>
<1> USE DEF poolVars, workerVars, callVars, vars
<1>1. UNCHANGED <<jobs, holding, outcome, resultChan, answer>>
  BY DEF Boot, Exit, StopClose, StopReturn
<1>2. \A w \in Workers : /\ phase'[w] = "send" <=> phase[w] = "send"
                         /\ BusyWorker(w)' <=> BusyWorker(w)
  BY DEF Boot, Start, Exit, StopClose, StopReturn, IInv, TypeOK, Spawned, BusyWorker
<1>3. \A d : Placed(d)' <=> Placed(d)
  BY <1>1, <1>2, NothingMoves DEF Placed
<1> QED
  BY <1>1, <1>2, <1>3, ResultsKept, StageKept DEF StageMap

-----------------------------------------------------------------------------
(* The pool implements JobService: each job is accepted at most once and   *)
(* converted at most once, and each call gets its own job's result, a      *)
(* refusal that leaves nothing behind, or its context's end.               *)
THEOREM PoolImplementsService == Spec => ImplementsService
<1>1. Init => Service!Init
  <2> SUFFICES ASSUME Init PROVE Service!Init
    OBVIOUS
  <2>1. \A c \in Calls : Nowhere(c) /\ answer[c] \notin Results
    BY DEF Init, Nowhere, InQueue, Held, BusyWorker, Results
  <2>2. \A c \in Calls : Stage(c) = "new"
    BY <2>1, InitIInv, NowhereIsNew
  <2> QED
    BY <2>2 DEF Init, Service!Init
<1>2. IInv /\ [Next]_vars => [Service!Next]_<<StageMap, answer>>
  <2> SUFFICES ASSUME IInv, [Next]_vars
               PROVE  [Service!Next]_<<StageMap, answer>>
    OBVIOUS
  <2>1. ASSUME NEW c \in Calls, Call(c) \/ CallStep(c) \/ Cancel(c)
        PROVE  [Service!Next]_<<StageMap, answer>>
    <3>1. CASE Enqueue(c)
      BY <3>1, EnqueueAccepts DEF Service!Next
    <3>2. CASE TakeResult(c)
      BY <3>2, TakeReplies DEF Service!Next
    <3> QED
      BY <2>1, <3>1, <3>2, CallerStep DEF CallStep
  <2>2. ASSUME NEW w \in Workers, WorkerStep(w)
        PROVE  [Service!Next]_<<StageMap, answer>>
    <3>1. CASE Receive(w)
      BY <3>1, ReceiveStutters
    <3>2. CASE Convert(w)
      <4>1. holding[w] \in Calls
        BY <3>2, InHandIsAccepted DEF Convert
      <4> QED
        BY <3>2, <4>1, ConvertFinishes DEF Service!Next
    <3>3. CASE Deliver(w)
      BY <3>3, DeliverStutters
    <3>4. CASE Exit(w)
      BY <3>4, OthersStutter
    <3> QED
      BY <2>2, <3>1, <3>2, <3>3, <3>4 DEF WorkerStep
  <2>3. CASE \/ Boot
             \/ \E s \in Stoppers : StopClose(s) \/ StopReturn(s)
             \/ UNCHANGED vars
    BY <2>3, OthersStutter
  <2> QED
    BY <2>1, <2>2, <2>3 DEF Next, Halt
<1> QED
  BY <1>1, <1>2, PoolInvariant, PTL
  DEF Spec, ImplementsService, Service!Spec, Service!vars, StageMap
=============================================================================
