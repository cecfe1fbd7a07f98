# TLA+ models of go-heif

go-heif is an HTTP service that converts HEIF images to JPEG or WebP. This
directory holds TLA+ modules translated from its source, TLC configurations
that check them on small instances, and TLAPS proofs that hold for every
instance. `PROJECT.json` maps every definition to the lines it models and lists
the runs, the mutants that show each property can fail, the hazards, the
theorems and the findings.

The models have two halves. One is about what surrounds a conversion: who may
run one, when, with which answer, and what is left behind when a client leaves,
a queue is full, a conversion panics, or the pool is stopped. The other is about
one conversion: which images and files are accepted, which method runs, where
each sample of a scaled image comes from, with which quality it is encoded, and
who owns a pooled buffer. The codecs are libraries and stay outside.

## 1. Inventory

| Component (source) | State | Operations | Meets | What is hard | What makes it correct |
|---|---|---|---|---|---|
| Worker pool (`internal/converter/pool.go`) | job channel of 2 x workers, once, WaitGroup; per call a one-slot result channel | `Start`, `worker`, `Submit`, `SubmitWithRetry`, `Stop`, `InitGlobalWorkerPool` | every handler calls it from the request's goroutine | cancellation at three `select`s, full queue, non-blocking result send, retry, send on a closed channel, panic in a worker | each accepted job is converted once, its result reaches its own caller or nobody, a refusal leaves nothing, `Stop` drains |
| Concurrency limit (`internal/middleware/concurrency.go`) | semaphore channel, `active` under a mutex, a gauge outside it | `Acquire`, `Release`, middleware | wraps recovery, logger and handlers | slot, counter and gauge change in separate steps; deferred release under panics | at most `max` inside, refusal only when full, no slot lost, counter exact |
| Rate limit (`internal/middleware/ratelimit.go`) | map of buckets under a mutex | `Allow`, `cleanup` goroutine, `getIP` | in front of the concurrency limit | lazy refill, cap, boundary at one token, forgetting a bucket that is in use | decides as a token bucket would; a client gets at most burst + rate x time |
| Handlers (`internal/handler/handler.go`) | one `Converter` shared by all requests, with a mutable output format | `Convert`, `ConvertAndStore`, `Health` | pool, converter, storage client | early returns, three ways to a converter, errors mapped to statuses, upload after conversion | one reply, a 503 can be retried, a 200 is earned, the label tells the encoding |
| Recovery and logger (`internal/middleware/logger.go`) | captured status | the middlewares | wrap the handlers | a panic passes Logger and is answered by Recovery; goroutines of others are not protected | the request ends, its slot is returned |
| Wiring (`cmd/api/main.go`) | none | builds the chain, starts the server | all | no shutdown path, timeouts that do not cancel work | order of the middlewares |
| Converter (`internal/converter/converter.go`) | target size, output format | `Convert*`, `scaleImage` | pool workers and handlers | fixed-point source indices, halved chroma planes, a recover that returns nil | indices in range, samples and colours where they belong, every destination sample set |
| Validation (`internal/converter/validation.go`) | none | `ValidateFile`, `ValidateImage` | handlers, converter | limits and products of dimensions | accepted exactly within the limits |
| Buffer pool (`internal/converter/bufferpool.go`) | three `sync.Pool` classes | get, put, `Release` | only its tests | ownership after release, double release, size classes | one owner per buffer |
| Adaptive quality (`pkg/quality/adaptive.go`) | none | quality from size and target | converter | truncation, four Newton steps, wrap-around | close to the exact square root, between 10 and 100, unless the estimate is beyond `int` |
| Metrics (`pkg/metrics/metrics.go`) | Prometheus collectors | record, update | middlewares | order of updates | the gauge tells what it says |
| Configuration, security headers, turbo binding, deployment | none | read once, constant headers, unused C binding, manifests | | values that nothing checks | |

A request passes: security headers, rate limit, concurrency limit, recovery,
logger, mux, handler, and from there the worker pool (most requests), a
converter of its own or the shared one, and the storage client. The shared
state of two requests is the bucket map, the semaphore and its counter, the
shared converter's format, and the job channel.

## 2. Modules

| Module | Models | How to read it |
|---|---|---|
| `WorkerPool` | `pool.go` | one action per `select` case and per step of `worker`; `pc[c]` is where a call is, `phase[w]` where a worker is |
| `JobService` | what the pool promises | a job has a stage (new, accepted, its result), a call an answer; nothing else |
| `ConcurrencyLimiter` | `concurrency.go` | one action per atomic step: channel operation, critical section, gauge update |
| `Gate` | what the limit promises | a set of at most `Max` inside, refusals only when it is full |
| `RateLimiter` | `ratelimit.go` | time in ticks, tokens in whole units, the map as a function with a changing domain |
| `TokenBucket` | what the rate limit promises | every key has a bucket that refills at each tick |
| `Service` | `main.go`, `handler.go`, `logger.go` | the way of whole requests over `Gate` and `JobService` |
| `Scaling` | the arithmetic of `scaleImage` and its two samplers | pure operators: sides, ratios, the source of a sample, the last read of a plane, colours |
| `Quality` | `adaptive.go` | pure operators in units of 1/32768 |
| `Conversion` | `converter.go`, `validation.go`, the choice of a method in `pool.go` | one conversion: `phase` is where it is, one action per check and per method |
| `BufferPool` | `bufferpool.go` | one action per operation; `Release` in its three steps |
| `PrivateBuffers` | what a `PooledBuffer` promises | every goroutine has a buffer of its own, there is no pool |
| `MCWorkerPool`, `MCConcurrencyLimiter`, `MCRateLimiter`, `MCService`, `MCConversion`, `MCBufferPool` | - | symmetry sets and input sets for TLC |
| `WorkerPoolProofs`, `WorkerPoolRefinement`, `ConcurrencyLimiterProofs`, `RateLimiterProofs`, `ServiceProofs`, `ConversionProofs`, `AccuracyProofs`, `BufferPoolProofs` | - | the proofs |

**Composition.** `Service` does not repeat the pool and the limit. It INSTANCEs
`JobService` and `Gate`, their specifications; the runs `pool_service` and
`limiter_gate` and the theorems of section 4 show that the detailed modules
implement them. `TooManyRequests` is a free choice in `Service`; when the rate
limit makes it is the business of `RateLimiter`. What `WorkerPool` and `Service`
take as the outcome of a conversion (data, error or panic) is the business of
`Conversion`, which has the arithmetic of `Scaling` and `Quality` in it;
`BufferPool` stands alone, as it does in the code.

**WorkerPool.** A call is one `Submit` or `SubmitWithRetry`. Since a retry
happens only after `ErrPoolBusy`, at most one attempt of a call is ever queued,
so the call's name also names its job and its result channel. (A fresh channel
per attempt is not distinguished from the earlier one: that one was never handed
out.) `Call` includes `p.Start()`, guarded by the once. Each `select` is split
into its cases: Go picks at random among the ready ones, hence the overlap of
`ObserveCancel` with `Enqueue` and `TakeResult`, and takes `default` only when
none is ready, hence `~cancelled[c]` in `Busy`. The send on a channel that `Stop`
has closed panics (`EnqueueClosed`, phase "panicked" of the call); a second
`Stop` panics too. A conversion is the choice of an outcome; "panic" ends the
process (`Crashed` disables everything), as nothing recovers in a worker.

**ConcurrencyLimiter.** `Count` is what happens under the mutex and leaves the
goroutine with a local copy; `Publish` writes that copy to the gauge later.
`Served` stands for a handler that returns or panics: the release is deferred.

**RateLimiter.** A token is `Unit` units and a tick earns `Rate` of them, so
that the arithmetic is exact; rounding of float64 is abstracted. `verdict` and
`granted` are history variables: the latest answer, and when each client was let
through. The assumption `TTL * Rate >= Burst * Unit` says that a bucket that
has been idle for the ttl is full again. The defaults satisfy it (5 min x 10/s
against a burst of 20); the code does not enforce it (see the hazards).

**Service.** `want` records what the branches of the handlers look at. The checks
of the form, the name, the size and the magic bytes are one step with a choice of
the failing status, because nothing happens between them; the check of the
context comes before them, that of the method (and of the uploader) before that.
`shared` is the output format of `h.converter`, written by every request and
read, unsynchronised, by a full-resolution request with a malformed `max_size`;
the two formats have equal lengths, so that a torn read gives one of the two.
The upload is external: it may fail before or after the object is stored.

**Conversion.** Two conversions share nothing but the output format (which
`Service` has), so the module follows one. `job` says what is asked for and of
what: `entry` is the handler or, for the methods that only tests call, the
method itself. The limits of the code are CONSTANTS and the runs use the real
ones. A file holds an image or none, as the decoder is external; an image is its
sides, its kind (the six layouts of `image.YCbCr`, "mono" for one without chroma
samples, or "rgb" for everything else), one of its colours, and of how many
chroma columns and rows the samples are set. Which layouts the decoder makes is
not in the repository: in the model it makes any. `scale` is a decimal fraction. Its float64 may be slightly
less, so a product that would be whole may be truncated to one less:
`ScaledSides` has both outcomes. An index out of a YCbCr plane panics inside
`scaleImage`, whose `recover` makes it return nil; `Encode` then dereferences nil
in a worker. So do the encoders with empty chroma planes (`Unreadable`). The samplers' loops are monotone in both directions, therefore
`LastRead` looks at the last read alone. The four `ConvertBytes*` methods check
the quality before they decode; since the check has no effect but on `q`, it is
part of the action that follows `ValidateImage`.

**Quality.** float64 is replaced by integers in units of 1/32768. `Digits` is a
long division, three binary digits at a time, because TLC's integers have 32
bits; `IntMax` is 2^63 - 1 in the code and a number small enough for TLC in the
runs, so that the wrap-around of `targetSizeKB * 1024` occurs. A ratio has a whole
part, which is unbounded, and a part in those units. `ToInt` is the conversion of
the estimate to `int`: beyond the largest, Go leaves the result open (amd64 gives
the least int, arm64 the largest), so that `FindOptimalQuality` is the set of the
qualities that the build may produce, one but for an overflow.

**BufferPool.** A buffer is a `*[]byte`; what it points to has a capacity and
contents, counted in chunks. `append` beyond the capacity takes any larger array.
`Get` of a `sync.Pool` may return any of its elements or a new one, and the
garbage collector (`Collect`) may take any. `Release` has a step for the length,
one for the pool and one for `p.buf = nil`, and others run in between: from `Put`
to `Clear` the old owner still holds the pointer. Release of a released
`PooledBuffer` and any other use of it dereference nil (phase "panicked").

## 3. Runs

| Run | Instance | Shows |
|---|---|---|
| `pool_safety` | 5 calls, 2 workers, 2 stoppers | a job is in one place, results are not lost, nobody waits for nothing, `Stop` drains, the inductive invariant holds |
| `pool_service` | 3 calls of which 1 retries twice, 1 worker, 1 stopper, fair | refusals leave nothing; the pool implements `JobService`; calls return, accepted jobs are converted, `Stop` ends |
| `limiter_gate` | 3 goroutines, limit 2, fair | counters exact, implements `Gate`, slots come back |
| `limiter_gauge` | 2 goroutines | violation: the gauge can stay at 1 with nobody inside |
| `rate_bucket` | 2 clients behind a proxy, burst 2, 1/2 token per tick, 7 instants | implements `TokenBucket`; no window exceeds the budget |
| `rate_per_ip` | 1 client on 2 connections, no proxy | violation: one address gets a bucket per port |
| `service_requests` | 2 requests of 8 kinds, 1 place, fair | one reply, 503 retryable, 200 earned, no place leaks, no more requests in the handlers than places, requests end |
| `service_panic` | 1 request | violation: a panic in a worker ends the process |
| `service_label` | 2 requests with a malformed `max_size`, 2 places | violation: one is encoded in the format that the other has set meanwhile |
| `conversion` | 12 sizes in 7 layouts, 125 RGB colours, 9 scales, 8 entries | only chroma sparser than the code reads it panics, samples follow the source, chroma follows luma, colours are JPEG's, what was asked for is encoded and within the limits, the quality is near the exact one |
| `conversion_chroma` | one image of 603 x 400 at 0.5 | violation: the last chroma column of the result is never set |
| `buffers` | 2 goroutines, 3 buffers, 2 classes | one owner per buffer, pools are clean, capacity as asked; implements `PrivateBuffers` |

**Bounds.** In `pool_safety` two workers are needed for two jobs in hand at a
time and for `Stop` waiting for one of two; two stoppers cover the double close.
Their queue holds four: the fifth call finds it full as long as no worker has
taken a job, or makes one job in hand and four queued, and a cancelled call's
job may be anywhere. In `pool_service` one worker makes a queue of two, with the
same effect for the third call; two retries include one backoff that is followed
by another attempt and one that gives up. Three goroutines through a limit of two include a refusal while both
others are at any of their steps. In `rate_bucket` the clock runs for six ticks
with a ttl of four and a cleanup every two, so a bucket can be spent, fill up,
be forgotten and be used again; `MaxTime` is the only counter bound and stops
the clock, not the requests. Requests of `Service` are served once each; a
client that comes again is another member of `Requests`.

In `conversion` the sides lie on both sides of every limit (16, 100, 20000 and
250 million pixels), odd sides are among them, and the colours are corners of the
cube and their neighbours. `QualityNearExact` needs small and large ratios
(targets of 1 to 32768 KB, of which the last wraps around, and the last but one
makes estimates beyond `IntMax` for the smallest images); 1600 x 1000 pixels in
1 KB are a ratio at which four Newton steps give a quality three above the exact
one. In `buffers` two
classes with capacities 1 and 2 and an array bound of 3 (`MaxCap`, the only bound
in a guard) let a buffer grow from one class into another and beyond all; a size
of 3 is above the largest class; a third buffer lets both goroutines hold one
while another is pooled or lost.

Symmetry is used only in runs without liveness properties (the buffers of
`buffers` are interchangeable, and its refinement is a safety property whose
mapping does not name a buffer).

Deadlock is checked in every run. Where a behaviour may end (`WorkerPool`,
`Service`, `Conversion`), `Halt` or `Over` lets it stutter when every call has
ended, or the process has; every other stop would be reported.
`ConcurrencyLimiter`, `RateLimiter` and `BufferPool` go on for ever.

**Fairness.** Weak fairness of each goroutine that has something to do: Go's
scheduler is preemptive and runs every runnable goroutine, timers fire, and a
conversion or an upload is assumed to end (neither has a timeout in the code). It
is weak, per call, worker and stopper. `CallStep` holds the cases of all
selects of one call, since only the goroutine is scheduled, not a particular
case. No fairness makes a client send, cancel or leave, nor anybody call `Stop`.
In `pool_service` the outcomes exclude a panic, after which the process does not
go on; `RequestsEnd` keeps it and allows the crash as an end.

**Mutants.** Next to a definition stands the same definition with a plausible
bug, named for it and introduced as a mutant. It is used by nothing; with it in
the place of the original TLC finds the property listed in `PROJECT.json`
violated.

## 4. Proofs

For every value of the constants that satisfies the module's ASSUME:

| Theorem | States |
|---|---|
| `PoolInvariant`, `PoolType`, `PoolOnePlace`, `PoolNoResultLost`, `PoolWaitIsAnswerable`, `PoolRefused`, `PoolStopDrains` | `Spec => []` of `IInv`, `TypeOK`, `OnePlace`, `NoResultLost`, `WaitIsAnswerable`, `RefusedLeavesNothing`, `StopDrains` |
| `PoolImplementsService` | `Spec => ImplementsService` |
| `LimiterType`, `LimiterSlots`, `LimiterActive` | `Spec => []` of `TypeOK`, `SlotsAreHeld`, `ActiveIsExact` |
| `LimiterImplementsGate` | `Spec => ImplementsGate` |
| `RateLimiterType` | `Spec => []TypeOK` |
| `RateLimiterRefinement` | `Spec => ImplementsTokenBucket` |
| `AddressBound` | `Spec => [](Ledger /\ PerAddressBound)`, if `OneKeyPerClient` |
| `ServiceInvariant`, `ServiceType`, `ServiceOneReply`, `ServiceBusyIsRetryable`, `ServiceOkIsReal`, `ServicePlaces`, `ServiceHandlersBounded` | `Spec => []` of `SInv`, `TypeOK`, `OneReply`, `BusyIsRetryable`, `OkIsReal`, `PlacesAreRequests`, `HandlersBounded` |
| `ServiceUsesGate`, `ServiceUsesPool` | `Spec => Limit!Spec`, `Spec => Pool!Spec` |
| `Types`, `Safety`, `Limits`, `Sampling`, `Colours`, `AsAsked` (`ConversionProofs`) | `Spec => []` of `TypeOK`, `OnlySparseChromaPanics`, `EncodedWithinLimits`, `SamplesFollowSource`, `ColourIsJPEG`, `EncodedAsAsked` |
| `Chroma`, `QualityAccuracy` (`AccuracyProofs`) | `Spec => []` of `ChromaFollowsLuma`, `QualityNearExact` |
| `Types`, `SingleOwner`, `CleanPools`, `Capacity` (`BufferPoolProofs`) | `Spec => []` of `TypeOK`, `OneOwner`, `PoolsAreClean`, `CapacityAsAsked` |
| `BufferRefinement` | `Spec => ImplementsPrivateBuffers` |

**WorkerPool.** Assumptions (`PoolAssumption`): `Workers` is finite, `NoCall` is
no call, `MaxRetries` is a natural number; calls and stoppers may be infinitely
many. `OnePlace` is not inductive: to see that a queued job is not also in a
channel one needs that a call that has not submitted has no job anywhere
(`RefusedLeavesNothing`), and that a call that has its result has none either
(`AnsweredOnce`). `StopDrains` needs that a worker leaves its loop only when the
channel is closed and empty (`ExitedLast`), that nobody can wait for an answer
before the workers exist (`Spawned`, `QueueWhileRunning`), and that it stays so
once `Stop` has returned (`StoppedIsClosed`). `IInv` is the conjunction. Its proof
has one step per action and below it one per conjunct that the action can
disturb; lemmas say what `Append` and `Tail` do to `InQueue` and to the
uniqueness of its elements.

The refinement reads a job's stage off the state: the result that its channel, its
worker or its caller has, else accepted when it is queued or in a worker's hands,
else new. `Enqueue` is the service's `Accept`, a conversion that ends `Finish`,
`TakeResult` is `Reply`, `Busy` and the end of the retries `Refuse`,
`ObserveCancel` is `GiveUp`; every other action is a stutter. That a result moves
from a worker's hand into the channel without being seen rests on `OnePlace` (the
channel is empty) and on `AnsweredOnce` (the call has no other result).

**ConcurrencyLimiter.** The invariant is `TypeOK` with the two counting
properties. Every action moves one request into or out of `Inside`
or `Counted`, so the cardinality lemmas for adding and removing an element carry
the proof. The refinement maps the slot operations to `Enter` and `Leave`, the
refusals to themselves and every counter or gauge step to a stutter;
`SlotsAreHeld` turns the test of the channel's length into the test of `Gate`.

**RateLimiter.** Assumptions (`RateAssumption`): the numbers are naturals, a token
and the burst are positive, and a bucket that has been idle for the ttl is full
again. The refinement maps a key to the level that its bucket would have now,
refilled lazily, and a key that is not in the map to a full bucket. A tick of the
clock is the token bucket's tick: the products `(now - touched) * Rate` grow by
`Rate`, and the cap commutes with the step. Touching a bucket leaves its level
alone, and so does forgetting one, since it is full by the assumption on the ttl.

`PerAddressBound` says nothing of buckets and is not inductive. `Ledger` ties it
to them: what a client was allowed since any of its requests, plus what its
bucket still holds, is at most the cap plus what the rate has earned since. An
allowed request moves a token from the second summand to the first; a tick adds
no more than `Rate` to both sides. The theorem has a hypothesis,
`OneKeyPerClient`: all requests of a client have one key. A proxy that sets
`X-Forwarded-For` or `X-Real-IP` gives it, as in the instance of `rate_bucket`;
without one it is false, as in that of `rate_per_ip`, and so is the property.

**Service.** Assumptions (`ServiceAssumption`): the wants are well-formed, `Max` is
a natural number, the outcomes are those of the pool; the requests may be
infinitely many. The invariant `SInv` is a table (`Row`): for each place in the
code, what a request that has come so far may have of a job, an answer, an image,
a stored object and replies. `OneReply` alone is not inductive: that a handler
writes to a request without a reply follows from its row. `BusyRow` and `OkRow`
add what a 503 excludes and what a 200 includes. A step of a request keeps
its own row and frames all others (`Keeps`, `Frame`), so the proof is one lemma
per action. `ServiceUsesGate` and `ServiceUsesPool` say that the composition never
does to its parts what their specifications do not allow, so that whatever holds
of `Gate` and `JobService` holds in it: `ServiceHandlersBounded` takes the bound
from `Gate` alone (`GateBound`) and its meaning, who the places belong to, from
`ServicePlaces`.

**Conversion.** Assumptions (`ScalingAssumption`, `ConversionAssumption`): a
smallest output side of at least 2 (or half of it would be a divisor of zero)
whose square is at most the unit of the fixed-point ratios (10000 and 65536), a
least accepted side between 2 and that, sides up to the unit of the fixed-point
ratios, and limits far enough apart that enlarging one side to the smallest
output stays within the pixels. The code's numbers satisfy them. The lemmas are
about integer division: `Quotient`, `SampleBound` and `SampleNearExact` carry
`Sampling` and, with `HalfBound` and the layouts' plane sizes, `Safety`
(`YCbCrReadsInPlane`): the code reads half of the columns and rows of the chroma
planes, which 4:2:0, 4:2:2, 4:4:4 and 4:4:0 have. A 4:1:1 image has a quarter of the
columns, and the reads run on into the next rows, of which it has twice as many
(`LastReadAcrossRows`). In a 4:1:0 image they run out of the plane, as in an image
without chroma; `Safety` is that nothing else panics. `AsAsked` rests on
`ScaledSidesShare`, what the float64 product can make of a side. `ColourBytes` bounds the three fixed-point sums for all
2^24 colours. The inductive invariant `Inv` says that what is about to be encoded
was made by the method that runs from an image that `ValidateImage` accepted
(`Prepared`), and for a request to the handler that the method is the one which
`Dispatch` chose. `Types` needs in addition that the long division of `Fixed`
keeps its quotient in range (`DigitsBound`) and that no Newton step divides by
zero (`NewtonBound`), so that the quality is a number within 1..100, whatever an
overflow makes of it (`OptimalQualityRange`).

**Accuracy.** `Chroma` compares two samples that are rounded twice each: 2 x the
chroma sample, of the halved sides, and the luma sample at the same place.
`ChromaNear` does it for one side. Above, the difference is bounded by the
source's share of a scaled sample and by what halving loses. Below, each rounding
costs up to one and the fixed-point ratio of the halves another, unless the
side is so short that the latter's error stays below one unit: that is where an
enlarged side, whose reach is only two, needs the square of the smallest output
to be within `Fraction`.

`QualityAccuracy` is about targets whose bytes, and estimates that, fit into an
int: beyond, the code wraps around or leaves the quality to the build. The exact
percentage, a CHOOSE, exists (`ExactPercentExists`, from the least-number
principle), and `PercentNear` compares the two for every ratio, by cases. Below 1
(`PercentNearRoot`), a Newton step never falls
below a number whose square is within the radicand (`NewtonAbove`), and its
result is always less than one below the root (`NewtonBelow`); from at most
`bound + far` it comes to at most `bound + near` when
`far * (far - 2 * near) <= 2 * near * bound` (`NewtonClose`). For a root of at least 6 percent, that takes the four steps
from 30802 units above it to 14477, 6373, 2435 and 674, which with the two
truncations is less than three percent. Below 6 percent the estimate is at most
8, which is a quality of at most 13, and `Tuned` gives no less than 10. A ratio of
1 or more is left as it is (`PercentNearRatio`); it exceeds its root by more than three only where
both qualities are within three of the upper clamp (`TunedNear`). The upper bound
cannot be narrowed: 1600 x 1000 pixels in 1 KB reach it.

**BufferPool.** Assumptions (`BufferAssumption`): there is a class and classes are
at most `MaxCap`; `Nil` is no buffer. That a largest class exists, and a least one
that serves a size, follows from the least-number principle. `OneOwner` becomes
inductive together with `Pointers`: a goroutine has a pointer exactly from
`NewPooledBuffer` to the end of `Release`, and what is about to be put into a pool
is empty. `GetIsFresh` says what a pool returns, and `OthersUndisturbed` that a
step on one's own buffer is invisible to every other goroutine; the invariant and
the refinement use them for each action. The refinement maps what a live
goroutine's buffer holds; `Release` and `ToBytes` end the abstract buffer at their
first step, every later step is a stutter.

Only model-checked: the liveness properties `CallsReturn`, `AcceptedIsConverted`,
`StopReturns`, `SlotComesBack` and `RequestsEnd`, which need ENABLED, and what the
five runs that expect a violation refute. Every other property of a passing run
is stated by a theorem.

## 5. Findings

1. The concurrency gauge is written after the mutex is released, so it can keep a
   stale value (`limiter_gauge`; `concurrency.go:36,51` against
   `metrics.go:82`).
2. Without a proxy header the key of the rate limit contains the port, so the limit
   is per connection, not per IP (`rate_per_ip`; `ratelimit.go:117` against
   `ratelimit.go:13`).
3. A panic of a conversion in a worker ends the process, although the README says
   the server survives (`service_panic`; `pool.go:64` against `README.md:20`).
4. The output format belongs to a converter that all requests share: of two that
   use it at a time, one is encoded in the other's format under its own label
   (`service_label`; `handler.go:121,168,292` against `handler.go:115`). The same
   property is violated by a single WebP request that goes through the pool, whose
   own converter always encodes JPEG.
5. The last chroma column or row of a scaled image with an odd side is never
   written (`conversion_chroma`; `converter.go:314` against
   `converter.go:309-310`).

Also seen while modelling, without a run:

- At a scale below one, the default of 0.5 included, `max_size` is ignored and
  the quality without a `quality` parameter is always 85, while `README.md:41-42`
  calls it adaptive with a target of 500 KB.
- `GetBuffer` "returns a buffer with at least the specified capacity"
  (`bufferpool.go:44`) only up to 10 MB; `CapacityAsAsked` is stated up to the
  largest class.
- `scaleYCbCrNearest` halves both sides of the chroma planes whatever the layout:
  of a 4:2:2 or 4:4:4 source only the upper or the upper left part of the chroma
  is used (`converter.go:312`). `ChromaFollowsLuma` is stated of 4:2:0.
- `scaleImage` "downscales" (`converter.go:244`) but enlarges sides below 100.
- `targetSizeKB * 1024` may wrap around (`adaptive.go:34`); the quality is then
  any of 10 to 100.
- `int(quality)` overflows for an estimate beyond the largest int
  (`adaptive.go:57`): on amd64 a `max_size` of 2^53 - 1 for 16 x 16 pixels, which
  does not wrap around, has the quality 10, although of such ratios
  `adaptive.go:66` says that "quality cap at 100 handles it".
- A scale of 0 or less makes every image 100 x 100 (`converter.go:253,271`);
  `converter_test.go:216` names it "invalid, treated as no scaling". The handler
  never passes one, and the tests' data are refused before.
- If the decoder made a 4:1:0 image or one with empty chroma planes, scaling it
  would index out of the plane (`converter.go:326`), and the nil image end the
  process as in finding 3.
- `MAX_UPLOAD_MB`, "Max upload size (MB)" (`README.md:69`), only becomes the memory
  that `ParseMultipartForm` may use (`handler.go:63`); the limit is `MaxFileSize`.

## 6. Not modelled

The codecs (goheif, image/jpeg, the WebP encoder): a file contains an image or
none, and encoding fails or does not. The turbo binding, C code which the service
does not call. `EstimateOutputSize`, `SafeDecode`, `GetImageInfo` and
`IsHEIFMagic`, which nothing calls. The slice that `PooledBuffer.Bytes` hands
out: it aliases the buffer, and what its taker does after a release is not in the
program. Rounding of float64 beyond the truncation of a scaled side.
http.Server's timeouts, since the handler sees only its context; reading the
environment; constant headers; wording of replies and logs; metrics other than
the gauge and the per-request record, which have no reader in the program; the
storage client's inside, whose package is not in the repository; the fallback of
`SubmitToGlobalPool` before `InitGlobalWorkerPool`, which main always calls
first; the end of the process at a deployment, as main has no shutdown path.

## 7. Plan

Done, in this order: `WorkerPool` and `JobService`, `ConcurrencyLimiter` and
`Gate`, `RateLimiter` and `TokenBucket`, `Service`; the invariants and the
refinements of the pool and of the limit by proof; `Scaling`, `Quality` and
`Conversion`, `BufferPool` and `PrivateBuffers`, with their proofs; the proofs of
`RateLimiter`, `Service` and of the accuracy of scaling and quality.

To model next: a composition of `ConcurrencyLimiter` and `WorkerPool` proper, to
show how far the backlog can outgrow the number of requests inside when clients
leave.

To prove next:

1. What the abstract specifications themselves promise (`JobService`: the answer
   of a call is its own job's result; `TokenBucket`: the budget of a key), so that
   the refinements carry more than a simulation.
2. `PerAddressBound` per key instead of per client, which needs no hypothesis on
   the proxy.
