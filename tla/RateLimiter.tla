------------------------------ MODULE RateLimiter ------------------------------
(***************************************************************************)
(* The rate limit of internal/middleware/ratelimit.go: a map of token      *)
(* buckets under one mutex, refilled lazily when their key asks, and a     *)
(* goroutine that forgets the buckets nobody has used for a while.         *)
(*                                                                         *)
(* Time is counted in ticks, and tokens in units: a token is Unit units    *)
(* and a tick is worth Rate of them, so that rate = Rate / Unit tokens per *)
(* tick and the code's float64 arithmetic is exact in whole units.         *)
(***************************************************************************)
EXTENDS Integers, Sequences, FiniteSets

CONSTANTS
  Requests,  \* records [client, port, via]: what getIP reads of a request
  Rate,      \* units that a bucket gains in a tick
  Unit,      \* units of one token
  Burst,     \* tokens a bucket can hold
  TTL,       \* ticks after which an unused bucket is stale, rl.ttl
  Period,    \* ticks between two runs of the cleanup
  MaxTime    \* bound of the clock

(* The last conjunct is what main's defaults (10 tokens/s, burst 20, ttl   *)
(* 5 min) satisfy and the code does not enforce: a bucket that is forgotten *)
(* would have been full.                                                   *)
ASSUME RateAssumption ==
  /\ Rate \in Nat /\ Unit \in Nat \ {0} /\ Burst \in Nat \ {0}
  /\ TTL \in Nat /\ Period \in Nat \ {0} /\ MaxTime \in Nat
  /\ TTL * Rate >= Burst * Unit

VARIABLES
  now,      \* time.Now()
  limits,   \* rl.limits: the buckets of the keys seen lately
  pending,  \* a tick waits in the one-slot channel ticker.C
  verdict,  \* history: the latest answer of Allow
  granted   \* history: when each client's requests were allowed

vars == <<now, limits, pending, verdict, granted>>

Cap == Burst * Unit

(* The key of a request: what a proxy says of the client, or RemoteAddr,   *)
(* which is the client's address and port.                                 *)
getIP(q) ==
  IF q.via \in {"X-Forwarded-For", "X-Real-IP"}
    THEN <<q.client>>
    ELSE <<q.client, q.port>>

Keys == {getIP(q) : q \in Requests}

Hosts == {q.client : q \in Requests}

Init ==
  /\ now = 0
  /\ limits = <<>>
  /\ pending = FALSE
  /\ verdict = <<>>
  /\ granted = [c \in Hosts |-> <<>>]

-----------------------------------------------------------------------------
Put(k, b) ==
  limits' = [j \in DOMAIN limits \cup {k} |-> IF j = k THEN b ELSE limits[j]]

(* The first request of a key: a full bucket, less the token it consumes. *)
AllowNew(k) ==
  /\ k \notin DOMAIN limits
  /\ Put(k, [tokens |-> Cap - Unit, lastRef |-> now])
  /\ verdict' = <<k, TRUE>>

(* Mutants: definitions that a plausible bug would put in the place of the *)
(* one they precede.  This one forgets the cap.                            *)
RefilledUncapped(b) == b.tokens + (now - b.lastRef) * Rate

(* What the bucket holds once the time since lastRef has been credited. *)
Refilled(b) ==
  LET credited == b.tokens + (now - b.lastRef) * Rate
  IN  IF credited > Cap THEN Cap ELSE credited

(* Mutant: a request is allowed as soon as the bucket is not empty. *)
AllowFraction(k) ==
  /\ k \in DOMAIN limits
  /\ LET tokens == Refilled(limits[k])
         ok == tokens > 0
     IN  /\ Put(k, [tokens |-> IF ok THEN tokens - Unit ELSE tokens,
                    lastRef |-> now])
         /\ verdict' = <<k, ok>>

(* Mutant: a refused request is credited but does not move lastRef. *)
AllowCreditsTwice(k) ==
  /\ k \in DOMAIN limits
  /\ LET tokens == Refilled(limits[k])
         ok == tokens >= Unit
     IN  /\ Put(k, [tokens |-> IF ok THEN tokens - Unit ELSE tokens,
                    lastRef |-> IF ok THEN now ELSE limits[k].lastRef])
         /\ verdict' = <<k, ok>>

(* A later one: refill, cap, and consume a token if there is one.  lastRef *)
(* moves whether or not the request is allowed.                            *)
AllowKnown(k) ==
  /\ k \in DOMAIN limits
  /\ LET tokens == Refilled(limits[k])
         ok == tokens >= Unit
     IN  /\ Put(k, [tokens |-> IF ok THEN tokens - Unit ELSE tokens,
                    lastRef |-> now])
         /\ verdict' = <<k, ok>>

(* The middleware asks for the key of the request. *)
Request(q) ==
  /\ AllowNew(getIP(q)) \/ AllowKnown(getIP(q))
  /\ granted' = IF verdict'[2]
                  THEN [granted EXCEPT ![q.client] = Append(@, now)]
                  ELSE granted
  /\ UNCHANGED <<now, pending>>

(* Time passes.  The ticker's channel holds one tick and drops the others. *)
Tick ==
  /\ now < MaxTime
  /\ now' = now + 1
  /\ pending' = (pending \/ (now + 1) % Period = 0)
  /\ UNCHANGED <<limits, verdict, granted>>

(* One round of cleanup(), under the mutex. *)
Sweep ==
  /\ pending
  /\ pending' = FALSE
  /\ limits' = [k \in {j \in DOMAIN limits : now - limits[j].lastRef <= TTL} |->
                  limits[k]]
  /\ UNCHANGED <<now, verdict, granted>>

Next ==
  \/ \E q \in Requests : Request(q)
  \/ Tick
  \/ Sweep

Spec == Init /\ [][Next]_vars

-----------------------------------------------------------------------------
(* Every variable has values of its type; a bucket never owes a token and  *)
(* never holds more than the burst.                                        *)
TypeOK ==
  /\ now \in 0..MaxTime
  /\ DOMAIN limits \subseteq Keys
  /\ \A k \in DOMAIN limits :
       /\ limits[k].tokens \in 0..Cap
       /\ limits[k].lastRef \in 0..now
  /\ pending \in BOOLEAN
  /\ verdict \in {<<>>} \cup (Keys \X BOOLEAN)
  /\ granted \in [Hosts -> Seq(0..MaxTime)]

(* The units a key could spend now. *)
Level(k) == IF k \in DOMAIN limits THEN Refilled(limits[k]) ELSE Cap

(* Lazy refill, the cap and forgetting a bucket cannot be told from an     *)
(* ideal bucket: every request is granted or refused as the ideal one      *)
(* would, and cleanup changes nothing.                                     *)
Ideal == INSTANCE TokenBucket WITH level <- [k \in Keys |-> Level(k)]

ImplementsTokenBucket == Ideal!Spec

(* What a reverse proxy that sets one of the two headers provides: getIP    *)
(* gives all requests of a client the same key.  Without one the key of a  *)
(* connection is its address and port.                                     *)
OneKeyPerClient ==
  \A p, q \in Requests : p.client = q.client => getIP(p) = getIP(q)

(* What a client has been allowed since one of its requests, and what its  *)
(* bucket still holds, were in the bucket then or have been earned since.  *)
Ledger ==
  \A q \in Requests : \A i \in DOMAIN granted[q.client] :
    (Len(granted[q.client]) - i + 1) * Unit + Level(getIP(q))
      <= Cap + Rate * (now - granted[q.client][i])

(* Rate limiting per IP address: in any window of time one client is       *)
(* allowed no more than the burst and what the rate earns in the window,   *)
(* over whatever connections its requests come.                            *)
PerAddressBound ==
  \A c \in Hosts : \A j \in DOMAIN granted[c] : \A i \in 1..j :
    (j - i + 1) * Unit <= Cap + Rate * (granted[c][j] - granted[c][i])
=============================================================================
