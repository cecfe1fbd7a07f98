-------------------------------- MODULE Service --------------------------------
(***************************************************************************)
(* A request's way through the whole server: the middleware chain that     *)
(* cmd/api/main.go builds (rate limit, concurrency limit, recovery,        *)
(* logger), the handlers of internal/handler/handler.go, and the worker    *)
(* pool.  The concurrency limit and the pool appear as their               *)
(* specifications, Gate and JobService, which ConcurrencyLimiter and       *)
(* WorkerPool implement; the rate limit is a choice, the storage client is *)
(* external.                                                               *)
(***************************************************************************)
EXTENDS Naturals, Sequences, FiniteSets

CONSTANTS
  Requests,    \* the requests, each served by a goroutine of net/http
  Max,         \* MAX_CONCURRENT
  Wants,       \* what a request may ask for: records of the fields below
  HasUploader, \* storage is configured
  Outcomes     \* what a conversion may do: "data", "error" or "panic"

(* route: "convert", "store" or "health"; output: the output parameter;    *)
(* full: scale is 1 or more; quality: a fixed quality is given; maxSize:   *)
(* the max_size parameter; fault: the check that the request fails.        *)
Want == [route : {"convert", "store", "health"}, output : {"jpeg", "webp"},
         full : BOOLEAN, quality : BOOLEAN,
         maxSize : {"absent", "valid", "malformed"},
         fault : {"none", "method", "body"}]

ASSUME ServiceAssumption ==
  /\ Wants \subseteq Want
  /\ Max \in Nat
  /\ HasUploader \in BOOLEAN
  /\ Outcomes \subseteq {"data", "error", "panic"}

VARIABLES
  inside, refused,  \* the concurrency limit
  stage, answer,    \* the pool: each request's job and Submit's return
  pc,               \* where each request is
  want,             \* what it asks for
  gone,             \* r.Context().Done() is closed
  format,           \* the encoding of the converted image it holds
  shared,           \* h.converter.outputFormat
  replies,          \* the statuses written to its ResponseWriter, in order
  stored,           \* its image is in the bucket
  recorded,         \* the status that Logger put in the metrics
  crashed           \* a panic in a worker has ended the process

limitVars == <<inside, refused>>
poolVars  == <<stage, answer>>
dataVars  == <<format, stored>>
vars == <<limitVars, poolVars, dataVars, pc, want, gone, shared, replies,
          recorded, crashed>>

Limit == INSTANCE Gate
Pool  == INSTANCE JobService WITH Calls <- Requests

Init ==
  /\ Limit!Init
  /\ Pool!Init
  /\ pc = [r \in Requests |-> "admit"]
  /\ want \in [Requests -> Wants]
  /\ gone = [r \in Requests |-> FALSE]
  /\ format = [r \in Requests |-> "none"]
  /\ shared = "jpeg"
  /\ replies = [r \in Requests |-> <<>>]
  /\ stored = [r \in Requests |-> FALSE]
  /\ recorded = [r \in Requests |-> 0]
  /\ crashed = FALSE

Goto(r, from, to) == pc[r] = from /\ pc' = [pc EXCEPT ![r] = to]

Write(r, status) == replies' = [replies EXCEPT ![r] = Append(@, status)]

-----------------------------------------------------------------------------
(* The middlewares before the handler. *)

TooManyRequests(r) ==
  /\ Goto(r, "admit", "done")
  /\ Write(r, 429)
  /\ UNCHANGED <<limitVars, poolVars, dataVars, want, gone, shared, recorded,
                 crashed>>

(* Mutants: definitions that a plausible bug would put in the place of the *)
(* one they precede.  This one does not look at what Acquire returned.     *)
AdmitAlways(r) ==
  /\ Goto(r, "admit", "check")
  /\ inside' = inside \cup {r}
  /\ UNCHANGED <<refused, poolVars, dataVars, want, gone, shared, replies,
                 recorded, crashed>>

Admit(r) ==
  /\ Goto(r, "admit", "check")
  /\ Limit!Enter(r)
  /\ UNCHANGED <<poolVars, dataVars, want, gone, shared, replies, recorded,
                 crashed>>

Overloaded(r) ==
  /\ Goto(r, "admit", "done")
  /\ Limit!Refuse(r)
  /\ Write(r, 503)
  /\ UNCHANGED <<poolVars, dataVars, want, gone, shared, recorded, crashed>>

-----------------------------------------------------------------------------
(* The handlers.  Reply and leave the handler: *)
Finish(r, from, status) ==
  /\ Goto(r, from, "return")
  /\ Write(r, status)

Health(r) ==
  /\ want[r].route = "health"
  /\ Finish(r, "check", 200)
  /\ UNCHANGED <<limitVars, poolVars, dataVars, want, gone, shared, recorded,
                 crashed>>

(* The status of the first check that stops the request before the look at *)
(* its context: the method, then, for a store, the uploader.               *)
EarlyFault(r) ==
  IF want[r].fault = "method" THEN {405}
  ELSE IF want[r].route = "store" /\ ~HasUploader THEN {500}
  ELSE {}

(* The checks after it: the form, the file's name, size and magic bytes. *)
LateFault(r) == IF want[r].fault = "body" THEN {400, 413, 415, 500} ELSE {}

Reject(r) ==
  /\ want[r].route # "health"
  /\ \E s \in EarlyFault(r) \cup (IF EarlyFault(r) = {} THEN LateFault(r) ELSE {}) :
       Finish(r, "check", s)
  /\ UNCHANGED <<limitVars, poolVars, dataVars, want, gone, shared, recorded,
                 crashed>>

(* The client has gone: return without writing anything. *)
Vanish(r) ==
  /\ want[r].route # "health" /\ EarlyFault(r) = {}
  /\ gone[r]
  /\ Goto(r, "check", "return")
  /\ UNCHANGED <<limitVars, poolVars, dataVars, want, gone, shared, replies,
                 recorded, crashed>>

(* h.converter.SetOutputFormat(outputFormat): one converter for all        *)
(* requests, written without synchronisation.                              *)
SetOutputFormat(r) ==
  /\ want[r].route # "health" /\ EarlyFault(r) = {} /\ LateFault(r) = {}
  /\ Goto(r, "check", "convert")
  /\ shared' = want[r].output
  /\ UNCHANGED <<limitVars, poolVars, dataVars, want, gone, replies, recorded,
                 crashed>>

(* Which converter: a full-resolution request with a max_size makes its    *)
(* own, or uses the shared one when max_size is malformed; every other     *)
(* goes to the pool.                                                       *)
Converter(r) ==
  IF \/ want[r].route = "store"
     \/ ~want[r].full
     \/ want[r].quality
     \/ want[r].maxSize = "absent"
    THEN "pool"
    ELSE IF want[r].maxSize = "valid" THEN "own" ELSE "shared"

(* SubmitToGlobalPool: the job is queued. *)
Submit(r) ==
  /\ Converter(r) = "pool"
  /\ Goto(r, "convert", "wait")
  /\ Pool!Accept(r)
  /\ UNCHANGED <<limitVars, dataVars, want, gone, shared, replies, recorded,
                 crashed>>

(* Mutant: the return after the 503 is missing. *)
PoolBusyFallsThrough(r) ==
  /\ Converter(r) = "pool"
  /\ Goto(r, "convert", "deliver")
  /\ Write(r, 503)
  /\ Pool!Refuse(r) /\ answer'[r] = "busy"
  /\ UNCHANGED <<limitVars, dataVars, want, gone, shared, recorded, crashed>>

(* Mutant: the nil result of SubmitWithRetry without retries is let in. *)
PoolBusyOrNothing(r) ==
  /\ Converter(r) = "pool"
  /\ Finish(r, "convert", 503)
  /\ Pool!Refuse(r)
  /\ UNCHANGED <<limitVars, dataVars, want, gone, shared, recorded, crashed>>

(* ErrPoolBusy.  The default case of the select is taken only if ctx.Done() *)
(* is not ready.                                                           *)
PoolBusy(r) ==
  /\ Converter(r) = "pool"
  /\ ~gone[r]
  /\ Finish(r, "convert", 503)
  /\ Pool!Refuse(r) /\ answer'[r] = "busy"
  /\ UNCHANGED <<limitVars, dataVars, want, gone, shared, recorded, crashed>>

(* Mutant: every error of Submit is answered as a busy pool. *)
CanceledIsBusy(r) ==
  /\ Converter(r) = "pool"
  /\ gone[r]
  /\ Finish(r, "convert", 503) \/ Finish(r, "wait", 503)
  /\ Pool!GiveUp(r)
  /\ UNCHANGED <<limitVars, dataVars, want, gone, shared, recorded, crashed>>

(* ctx.Err(), before or after the job was queued: "Conversion failed". *)
Canceled(r) ==
  /\ Converter(r) = "pool"
  /\ gone[r]
  /\ Finish(r, "convert", 500) \/ Finish(r, "wait", 500)
  /\ Pool!GiveUp(r)
  /\ UNCHANGED <<limitVars, dataVars, want, gone, shared, recorded, crashed>>

(* Mutant: the error of the conversion is not looked at. *)
TakeUnchecked(r) ==
  /\ Pool!Reply(r)
  /\ Goto(r, "wait", "deliver")
  /\ format' = [format EXCEPT ![r] = IF stage[r] = "data" THEN "jpeg" ELSE @]
  /\ UNCHANGED <<limitVars, stored, want, gone, shared, replies, recorded,
                 crashed>>

(* Mutant: a failed conversion sends no result, and Submit waits. *)
TakeDataOnly(r) ==
  /\ stage[r] = "data"
  /\ Pool!Reply(r)
  /\ Goto(r, "wait", "deliver")
  /\ format' = [format EXCEPT ![r] = "jpeg"]
  /\ UNCHANGED <<limitVars, stored, want, gone, shared, replies, recorded,
                 crashed>>

(* The pool's own converter always encodes JPEG. *)
TakeResult(r) ==
  /\ Pool!Reply(r)
  /\ IF stage[r] = "data"
       THEN /\ Goto(r, "wait", "deliver")
            /\ format' = [format EXCEPT ![r] = "jpeg"]
            /\ UNCHANGED replies
       ELSE /\ Finish(r, "wait", 500)
            /\ UNCHANGED format
  /\ UNCHANGED <<limitVars, stored, want, gone, shared, recorded, crashed>>

(* A conversion in the request's own goroutine.  The shared converter      *)
(* encodes in the format that the latest request asked for.                *)
ConvertDirectly(r) ==
  /\ Converter(r) \in {"own", "shared"}
  /\ \/ /\ "data" \in Outcomes
        /\ Goto(r, "convert", "deliver")
        /\ format' = [format EXCEPT
                        ![r] = IF Converter(r) = "own" THEN "jpeg" ELSE shared]
        /\ UNCHANGED replies
     \/ /\ "error" \in Outcomes
        /\ Finish(r, "convert", 500)
        /\ UNCHANGED format
     \/ /\ "panic" \in Outcomes
        /\ Goto(r, "convert", "panicking")
        /\ UNCHANGED <<format, replies>>
  /\ UNCHANGED <<limitVars, poolVars, stored, want, gone, shared, recorded,
                 crashed>>

(* The image, labelled with the output parameter of the request. *)
SendImage(r) ==
  /\ want[r].route = "convert"
  /\ Finish(r, "deliver", 200)
  /\ UNCHANGED <<limitVars, poolVars, dataVars, want, gone, shared, recorded,
                 crashed>>

(* UploadWithFormat, external: it may fail before or after the object is   *)
(* in the bucket.                                                          *)
Upload(r) ==
  /\ want[r].route = "store"
  /\ \E ok \in BOOLEAN, there \in BOOLEAN :
       /\ ok => there
       /\ stored' = [stored EXCEPT ![r] = there]
       /\ Finish(r, "deliver", IF ok THEN 200 ELSE 500)
  /\ UNCHANGED <<limitVars, poolVars, format, want, gone, shared, recorded,
                 crashed>>

-----------------------------------------------------------------------------
(* The middlewares after the handler. *)

(* Logger: responseWrapper starts at 200, so a request that wrote nothing  *)
(* is recorded as 200.                                                     *)
Log(r) ==
  /\ Goto(r, "return", "leave")
  /\ recorded' = [recorded EXCEPT
                    ![r] = IF replies[r] = <<>> THEN 200
                           ELSE replies[r][Len(replies[r])]]
  /\ UNCHANGED <<limitVars, poolVars, dataVars, want, gone, shared, replies,
                 crashed>>

(* Mutant: the slot is released after ServeHTTP, not deferred. *)
RecoverKeepsSlot(r) ==
  /\ Goto(r, "panicking", "done")
  /\ Write(r, 500)
  /\ UNCHANGED <<limitVars, poolVars, dataVars, want, gone, shared, recorded,
                 crashed>>

(* Recovery: a panic unwinds through Logger, which records nothing. *)
Recover(r) ==
  /\ Goto(r, "panicking", "leave")
  /\ Write(r, 500)
  /\ UNCHANGED <<limitVars, poolVars, dataVars, want, gone, shared, recorded,
                 crashed>>

(* defer cl.Release() *)
Leave(r) ==
  /\ Goto(r, "leave", "done")
  /\ Limit!Leave(r)
  /\ UNCHANGED <<poolVars, dataVars, want, gone, shared, replies, recorded,
                 crashed>>

-----------------------------------------------------------------------------
(* What goes on beside the requests' goroutines. *)

(* A worker finishes the request's job, also when the request has given up. *)
JobDone(r) ==
  /\ Pool!Finish(r)
  /\ stage'[r] \in Outcomes
  /\ UNCHANGED <<limitVars, dataVars, pc, want, gone, shared, replies, recorded,
                 crashed>>

(* A conversion panics in a worker, where no Recovery is on the stack. *)
JobPanics(r) ==
  /\ "panic" \in Outcomes
  /\ stage[r] = "accepted"
  /\ crashed' = TRUE
  /\ UNCHANGED <<limitVars, poolVars, dataVars, pc, want, gone, shared, replies,
                 recorded>>

Disconnect(r) ==
  /\ pc[r] # "done" /\ ~gone[r]
  /\ gone' = [gone EXCEPT ![r] = TRUE]
  /\ UNCHANGED <<limitVars, poolVars, dataVars, pc, want, shared, replies,
                 recorded, crashed>>

Ended ==
  \/ crashed
  \/ \A r \in Requests : pc[r] = "done" /\ stage[r] # "accepted"

Halt == Ended /\ UNCHANGED vars

(* The steps that the request's goroutine and the workers owe. *)
Proceed(r) ==
  \/ Health(r) \/ Reject(r) \/ Vanish(r) \/ SetOutputFormat(r)
  \/ Submit(r) \/ PoolBusy(r) \/ Canceled(r) \/ TakeResult(r)
  \/ ConvertDirectly(r) \/ SendImage(r) \/ Upload(r)
  \/ Log(r) \/ Recover(r) \/ Leave(r)
  \/ JobDone(r)

Arrive(r) == TooManyRequests(r) \/ Admit(r) \/ Overloaded(r)

Next ==
  \/ ~crashed /\ \E r \in Requests :
       Arrive(r) \/ Proceed(r) \/ JobPanics(r) \/ Disconnect(r)
  \/ Halt

Spec == Init /\ [][Next]_vars

(* The scheduler runs what can run, conversions and uploads end; nothing   *)
(* makes a client send or leave.                                           *)
FairSpec ==
  /\ Spec
  /\ \A r \in Requests : WF_vars(~crashed /\ Proceed(r))

-----------------------------------------------------------------------------
InHandler(r) == pc[r] \notin {"admit", "done"}

(* Every variable has values of its type. *)
TypeOK ==
  /\ inside \subseteq Requests /\ refused \subseteq Requests
  /\ stage \in [Requests -> {"new", "accepted", "data", "error"}]
  /\ answer \in [Requests -> {"none", "data", "error", "busy", "canceled"}]
  /\ pc \in [Requests -> {"admit", "check", "convert", "wait", "deliver",
                          "return", "panicking", "leave", "done"}]
  /\ want \in [Requests -> Wants]
  /\ gone \in [Requests -> BOOLEAN]
  /\ format \in [Requests -> {"none", "jpeg", "webp"}]
  /\ shared \in {"jpeg", "webp"}
  /\ replies \in [Requests -> Seq({200, 400, 405, 413, 415, 429, 500, 503})]
  /\ stored \in [Requests -> BOOLEAN]
  /\ recorded \in [Requests -> {0, 200, 400, 405, 413, 415, 500, 503}]
  /\ crashed \in BOOLEAN

(* On no path through checks, pool, upload and recovery is a second status *)
(* written: net/http would drop it and mix the bodies.                     *)
OneReply == \A r \in Requests : Len(replies[r]) <= 1

(* A 503, wherever in the chain it comes from, invites a retry: nothing of *)
(* the request is left to run and nothing of it was stored.                *)
BusyIsRetryable ==
  \A r \in Requests : replies[r] = <<503>> => stage[r] = "new" /\ ~stored[r]

(* A 200 for an image means that the request's own conversion succeeded,   *)
(* and for a store that the object is in the bucket too; a request is      *)
(* stored only if it was converted.                                        *)
OkIsReal ==
  \A r \in Requests :
    /\ replies[r] = <<200>> /\ want[r].route # "health" => format[r] # "none"
    /\ replies[r] = <<200>> /\ want[r].route = "store" => stored[r]
    /\ stored[r] => format[r] # "none"
    /\ format[r] # "none" /\ Converter(r) = "pool" => answer[r] = "data"

(* The places inside the limit are those of the requests in the handler,   *)
(* however they leave it.                                                  *)
PlacesAreRequests == inside = {r \in Requests : InHandler(r)}

(* MAX_CONCURRENT bounds the requests in the handlers: a panic, an early   *)
(* return or a client that leaves neither loses a place nor adds one.      *)
HandlersBounded == Cardinality({r \in Requests : InHandler(r)}) <= Max

(* An admitted request comes to an end, and so does its job. *)
RequestsEnd ==
  \A r \in Requests :
    InHandler(r) ~> crashed \/ (pc[r] = "done" /\ stage[r] # "accepted")

(* README.md: "Panic Recovery: Server survives crashes, returns HTTP 500". *)
SurvivesPanics == ~crashed

(* handler.go: the output parameter names the image format of the answer   *)
(* ("options: jpeg, webp"), and an upload is made "with correct format".   *)
LabelIsEncoding ==
  \A r \in Requests :
    replies[r] = <<200>> /\ format[r] # "none" => format[r] = want[r].output
=============================================================================
