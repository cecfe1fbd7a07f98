-------------------------- MODULE RateLimiterProofs --------------------------
(***************************************************************************)
(* What TLAPS proves of RateLimiter, for any requests, rate, burst and     *)
(* periods within RateAssumption: the map of lazily refilled buckets       *)
(* implements TokenBucket, and behind a proxy that identifies clients no   *)
(* client is ever allowed more than the burst and what the rate has        *)
(* earned, in any window of time.                                          *)
(***************************************************************************)
EXTENDS RateLimiter, SequenceTheorems, TLAPS

(* A product of naturals is a natural, and grows with its first factor. *)
LEMMA ProductMonotone ==
  ASSUME NEW a \in Nat, NEW b \in Nat, NEW c \in Nat, a <= b
  PROVE  a * c \in Nat /\ b * c \in Nat /\ a * c <= b * c
<1>1. (b - a) * c \in Nat /\ a * c \in Nat /\ b * c \in Nat
  <2>1. b - a \in Nat
    OBVIOUS
  <2> QED
    BY <2>1
<1>2. b * c = a * c + (b - a) * c
  OBVIOUS
<1> QED
  BY <1>1, <1>2

(* A full bucket holds a token. *)
LEMMA CapHoldsAToken ==
  Cap \in Nat /\ Unit \in Nat /\ Rate \in Nat /\ 0 < Unit /\ Unit <= Cap
<1>1. 1 * Unit = Unit
  BY RateAssumption DEF RateAssumption
<1> QED
  BY <1>1, ProductMonotone, RateAssumption DEF RateAssumption, Cap

(* The units earned by a bucket that was touched at time t, until time n:  *)
(* the next tick earns Rate units more.                                    *)
LEMMA Earned ==
  ASSUME NEW n \in Nat, NEW t \in 0..n, NEW m, m = n + 1
  PROVE  /\ (n - t) * Rate \in Nat
         /\ (m - t) * Rate = (n - t) * Rate + Rate
         /\ (n - n) * Rate = 0
<1>1. n - t \in Nat /\ Rate \in Nat
  BY RateAssumption DEF RateAssumption
<1>2. ((n - t) + 1) * Rate = (n - t) * Rate + Rate
  BY <1>1
<1>3. m - t = (n - t) + 1 /\ n - n = 0
  OBVIOUS
<1> QED
  BY <1>1, <1>2, <1>3

(* A bucket that the cleanup may forget would have been full. *)
LEMMA StaleIsFull ==
  ASSUME NEW n \in Nat, NEW t \in 0..n, n - t > TTL
  PROVE  (n - t) * Rate >= Cap
<1>1. n - t \in Nat /\ TTL \in Nat /\ Rate \in Nat /\ TTL <= n - t
  BY RateAssumption DEF RateAssumption
<1>2. TTL * Rate \in Nat /\ (n - t) * Rate \in Nat /\ TTL * Rate <= (n - t) * Rate
  BY <1>1, ProductMonotone
<1> QED
  BY <1>2, CapHoldsAToken, RateAssumption DEF RateAssumption, Cap

-----------------------------------------------------------------------------
(* What every bucket of the map holds when it is looked at. *)
LEMMA RefilledType ==
  ASSUME TypeOK, NEW k \in DOMAIN limits
  PROVE  /\ Refilled(limits[k]) \in 0..Cap
         /\ limits[k].tokens <= Refilled(limits[k])
<1>1. limits[k].tokens \in 0..Cap /\ limits[k].lastRef \in 0..now /\ now \in Nat
  BY RateAssumption DEF TypeOK, RateAssumption
<1>2. (now - limits[k].lastRef) * Rate \in Nat
  BY <1>1, Earned
<1> QED
  BY <1>1, <1>2, CapHoldsAToken DEF Refilled

(* The level of a key is between empty and full. *)
LEMMA LevelType == ASSUME TypeOK, NEW k PROVE Level(k) \in 0..Cap
  BY RefilledType, CapHoldsAToken DEF Level

(* The map after Put: one bucket is new, the others are as they were. *)
LEMMA PutOne ==
  ASSUME NEW k, NEW b, Put(k, b)
  PROVE  /\ DOMAIN limits' = DOMAIN limits \cup {k}
         /\ limits'[k] = b
         /\ \A j \in DOMAIN limits : j # k => limits'[j] = limits[j]
  BY DEF Put

(* The type invariant holds at first. *)
LEMMA InitTypeOK == Init => TypeOK
<1> SUFFICES ASSUME Init PROVE TypeOK
  OBVIOUS
<1>1. now \in 0..MaxTime
  BY RateAssumption DEF Init, RateAssumption
<1>2. pending \in BOOLEAN
  BY DEF Init
<1>3. DOMAIN limits = {}
  <2>1. limits = << >> /\ Len(<< >>) = 0
    BY DEF Init
  <2>2. DOMAIN limits = 1..0
    BY <2>1
  <2> QED
    BY <2>2
<1>4. granted \in [Hosts -> Seq(0..MaxTime)]
  BY DEF Init
<1>5. verdict \in {<<>>} \cup (Keys \X BOOLEAN)
  BY DEF Init
<1> QED
  BY <1>1, <1>2, <1>3, <1>4, <1>5 DEF TypeOK

(* What Allow does to the bucket of the key it is asked for, whether or    *)
(* not the map has one: the level decides, and pays.                       *)
LEMMA AllowPays ==
  ASSUME TypeOK, NEW q \in Requests, Request(q)
  PROVE  LET k == getIP(q) IN
         /\ verdict' = <<k, Level(k) >= Unit>>
         /\ DOMAIN limits' = DOMAIN limits \cup {k}
         /\ limits'[k] = [tokens |-> IF Level(k) >= Unit THEN Level(k) - Unit
                                                         ELSE Level(k),
                          lastRef |-> now]
         /\ \A j \in DOMAIN limits : j # k => limits'[j] = limits[j]
         /\ granted' = IF Level(k) >= Unit
                         THEN [granted EXCEPT ![q.client] = Append(@, now)]
                         ELSE granted
         /\ now' = now /\ pending' = pending
<1> DEFINE k == getIP(q)
<1>1. now' = now /\ pending' = pending
  BY DEF Request
<1>2. CASE AllowNew(k)
  <2>1. Level(k) = Cap /\ Level(k) >= Unit
    BY <1>2, CapHoldsAToken DEF AllowNew, Level
  <2>2. Put(k, [tokens |-> Cap - Unit, lastRef |-> now]) /\ verdict' = <<k, TRUE>>
    BY <1>2 DEF AllowNew
  <2>3. verdict'[2] = TRUE
    BY <2>2
  <2> QED
    BY <1>1, <2>1, <2>2, <2>3, PutOne DEF Request
<1>3. CASE AllowKnown(k)
  <2>1. Level(k) = Refilled(limits[k])
    BY <1>3 DEF AllowKnown, Level
  <2>2. /\ Put(k, [tokens |-> IF Level(k) >= Unit THEN Level(k) - Unit
                                                  ELSE Level(k),
                   lastRef |-> now])
        /\ verdict' = <<k, Level(k) >= Unit>>
    BY <1>3, <2>1 DEF AllowKnown
  <2>3. verdict'[2] = (Level(k) >= Unit)
    BY <2>2
  <2> QED
    BY <1>1, <2>2, <2>3, PutOne DEF Request
<1> QED
  BY <1>2, <1>3 DEF Request

(* Every step keeps the type invariant: a bucket never owes a token. *)
LEMMA NextTypeOK == TypeOK /\ [Next]_vars => TypeOK'
<1> SUFFICES ASSUME TypeOK, [Next]_vars PROVE TypeOK'
  OBVIOUS
<1>0. now \in Nat /\ MaxTime \in Nat /\ Cap \in Nat /\ Unit \in Nat
  BY RateAssumption, CapHoldsAToken DEF TypeOK, RateAssumption
<1>1. ASSUME NEW q \in Requests, Request(q) PROVE TypeOK'
  <2> DEFINE k == getIP(q)
  <2>1. k \in Keys /\ Level(k) \in 0..Cap
    BY LevelType DEF Keys
  <2>2. /\ verdict' = <<k, Level(k) >= Unit>>
        /\ DOMAIN limits' = DOMAIN limits \cup {k}
        /\ limits'[k] = [tokens |-> IF Level(k) >= Unit THEN Level(k) - Unit
                                                        ELSE Level(k),
                         lastRef |-> now]
        /\ \A j \in DOMAIN limits : j # k => limits'[j] = limits[j]
        /\ granted' = IF Level(k) >= Unit
                        THEN [granted EXCEPT ![q.client] = Append(@, now)]
                        ELSE granted
        /\ now' = now /\ pending' = pending
    BY <1>1, AllowPays
  <2> HIDE DEF k
  <2>3. limits'[k].tokens \in 0..Cap /\ limits'[k].lastRef \in 0..now'
    <3>1. CASE Level(k) >= Unit
      <4>1. Level(k) - Unit \in 0..Cap
        BY <1>0, <2>1, <3>1
      <4> QED
        BY <1>0, <2>2, <3>1, <4>1
    <3>2. CASE ~(Level(k) >= Unit)
      BY <1>0, <2>1, <2>2, <3>2
    <3> QED
      BY <3>1, <3>2
  <2>4. \A j \in DOMAIN limits' :
          limits'[j].tokens \in 0..Cap /\ limits'[j].lastRef \in 0..now'
    BY <2>2, <2>3 DEF TypeOK
  <2>5. granted' \in [Hosts -> Seq(0..MaxTime)]
    <3>1. q.client \in Hosts /\ granted[q.client] \in Seq(0..MaxTime) /\ now \in 0..MaxTime
      BY DEF Hosts, TypeOK
    <3>2. Append(granted[q.client], now) \in Seq(0..MaxTime)
      BY <3>1
    <3> QED
      BY <2>2, <3>1, <3>2 DEF TypeOK
  <2>6. verdict' \in Keys \X BOOLEAN
    <3>1. (Level(k) >= Unit) \in BOOLEAN
      BY SMT
    <3> QED
      BY <2>1, <2>2, <3>1, Zenon
  <2>7. DOMAIN limits' \subseteq Keys
    BY <2>1, <2>2 DEF TypeOK
  <2> QED
    BY <2>2, <2>4, <2>5, <2>6, <2>7 DEF TypeOK
<1>2. ASSUME Tick PROVE TypeOK'
  <2>1. now' \in 0..MaxTime /\ 0..now \subseteq 0..now'
    BY <1>0, <1>2 DEF Tick
  <2>2. pending' \in BOOLEAN
    BY <1>2 DEF Tick
  <2> QED
    BY <1>2, <2>1, <2>2 DEF Tick, TypeOK
<1>3. ASSUME Sweep PROVE TypeOK'
  BY <1>3 DEF Sweep, TypeOK
<1>4. CASE UNCHANGED vars
  BY <1>4 DEF vars, TypeOK
<1> QED
  BY <1>1, <1>2, <1>3, <1>4 DEF Next

(* Every variable keeps its type: no bucket is overdrawn or over its burst. *)
THEOREM RateLimiterType == Spec => []TypeOK
  BY InitTypeOK, NextTypeOK, PTL DEF Spec

-----------------------------------------------------------------------------
(* A request changes the level of its own key only, by the token it pays. *)
LEMMA RequestLevels ==
  ASSUME TypeOK, NEW q \in Requests, Request(q)
  PROVE  /\ Level(getIP(q))' = IF Level(getIP(q)) >= Unit
                                 THEN Level(getIP(q)) - Unit
                                 ELSE Level(getIP(q))
         /\ \A j : j # getIP(q) => Level(j)' = Level(j)
<1> DEFINE k == getIP(q)
           left == IF Level(k) >= Unit THEN Level(k) - Unit ELSE Level(k)
<1>1. /\ DOMAIN limits' = DOMAIN limits \cup {k}
      /\ limits'[k] = [tokens |-> left, lastRef |-> now]
      /\ \A j \in DOMAIN limits : j # k => limits'[j] = limits[j]
      /\ now' = now
  BY AllowPays
<1>2. left \in 0..Cap
  BY LevelType, CapHoldsAToken
<1> HIDE DEF k, left
<1>3. now \in Nat /\ (now - now) * Rate = 0
  BY Earned, RateAssumption DEF TypeOK, RateAssumption
<1>4. Level(k)' = left
  BY <1>1, <1>2, <1>3, CapHoldsAToken DEF Level, Refilled, Cap
<1>5. \A j : j # k => Level(j)' = Level(j)
  BY <1>1 DEF Level, Refilled
<1> QED
  BY <1>4, <1>5 DEF k, left

(* A tick of the clock refills every bucket, whenever it will be looked at. *)
LEMMA TickLevels ==
  ASSUME TypeOK, Tick, NEW k
  PROVE  Level(k)' = IF Level(k) + Rate > Cap THEN Cap ELSE Level(k) + Rate
<1>1. now' = now + 1 /\ limits' = limits /\ now \in Nat
  BY RateAssumption DEF Tick, TypeOK, RateAssumption
<1>2. CASE k \notin DOMAIN limits
  BY <1>1, <1>2, CapHoldsAToken DEF Level
<1>3. CASE k \in DOMAIN limits
  <2> DEFINE t == limits[k].tokens
             e == (now - limits[k].lastRef) * Rate
             f == (now' - limits[k].lastRef) * Rate
  <2>1. t \in 0..Cap /\ limits[k].lastRef \in 0..now
    BY <1>3 DEF TypeOK
  <2>2. e \in Nat /\ f = e + Rate
    BY <1>1, <2>1, Earned
  <2>3. Level(k) = IF t + e > Cap THEN Cap ELSE t + e
    BY <1>3 DEF Level, Refilled
  <2>4. Level(k)' = IF t + f > Cap THEN Cap ELSE t + f
    <3>1. Cap' = Cap
      BY DEF Cap
    <3>2. k \in DOMAIN limits' /\ limits'[k] = limits[k]
      BY <1>1, <1>3
    <3> QED
      BY <3>1, <3>2, Zenon DEF Level, Refilled
  <2> HIDE DEF t, e, f
  <2> QED
    BY <2>1, <2>2, <2>3, <2>4, CapHoldsAToken
<1> QED
  BY <1>2, <1>3

(* Forgetting stale buckets changes no level. *)
LEMMA SweepLevels ==
  ASSUME TypeOK, Sweep, NEW k
  PROVE  Level(k)' = Level(k)
<1>1. /\ now' = now /\ now \in Nat
      /\ limits' = [j \in {i \in DOMAIN limits : now - limits[i].lastRef <= TTL} |->
                      limits[j]]
  BY RateAssumption DEF Sweep, TypeOK, RateAssumption
<1>2. CASE k \in DOMAIN limits /\ ~(now - limits[k].lastRef <= TTL)
  <2>1. limits[k].tokens \in 0..Cap /\ limits[k].lastRef \in 0..now
    BY <1>2 DEF TypeOK
  <2>2. now - limits[k].lastRef > TTL
    BY <1>1, <1>2, <2>1, RateAssumption DEF RateAssumption
  <2>3. (now - limits[k].lastRef) * Rate >= Cap /\ (now - limits[k].lastRef) * Rate \in Nat
    BY <1>1, <2>1, <2>2, StaleIsFull, Earned
  <2>4. Level(k) = Cap
    BY <1>2, <2>1, <2>3, CapHoldsAToken DEF Level, Refilled
  <2>5. Level(k)' = Cap
    BY <1>1, <1>2 DEF Level, Cap
  <2> QED
    BY <2>4, <2>5
<1>3. CASE ~(k \in DOMAIN limits /\ ~(now - limits[k].lastRef <= TTL))
  <2>1. CASE k \in DOMAIN limits
    <3>1. k \in DOMAIN limits' /\ limits'[k] = limits[k]
      BY <1>1, <1>3, <2>1
    <3> QED
      BY <1>1, <2>1, <3>1 DEF Level, Refilled
  <2>2. CASE k \notin DOMAIN limits
    BY <1>1, <2>2 DEF Level
  <2> QED
    BY <2>1, <2>2
<1> QED
  BY <1>2, <1>3

(* Lazy refill, the cap and the cleanup implement the ideal bucket: one    *)
(* step of the proof per action, a request granted or refused as the ideal *)
(* bucket of its key would.                                                *)
THEOREM RateLimiterRefinement == Spec => ImplementsTokenBucket
<1> DEFINE levels == [k \in Keys |-> Level(k)]
<1>1. Init => Ideal!Init
  BY DEF Init, Ideal!Init, Level, Cap, Ideal!Cap
<1>2. TypeOK /\ [Next]_vars => [Ideal!Next]_<<levels, verdict>>
  <2> SUFFICES ASSUME TypeOK, [Next]_vars
               PROVE  [Ideal!Next]_<<levels, verdict>>
    OBVIOUS
  <2>0. levels' = [k \in Keys |-> Level(k)']
    BY DEF Level, Refilled, Cap, Keys, getIP
  <2>1. ASSUME NEW q \in Requests, Request(q)
        PROVE  \E k \in Keys : Ideal!Grant(k) \/ Ideal!Refuse(k)
    <3> DEFINE k == getIP(q)
    <3>1. k \in Keys /\ Level(k) \in 0..Cap /\ Unit \in Nat /\ Cap \in Nat
      BY LevelType, CapHoldsAToken DEF Keys
    <3>2. verdict' = <<k, Level(k) >= Unit>>
      BY <2>1, AllowPays
    <3>3. /\ Level(k)' = IF Level(k) >= Unit THEN Level(k) - Unit ELSE Level(k)
          /\ \A j : j # k => Level(j)' = Level(j)
      BY <2>1, RequestLevels
    <3> HIDE DEF k
    <3>4. CASE Level(k) >= Unit
      <4>1. levels' = [levels EXCEPT ![k] = @ - Unit]
        BY <2>0, <3>1, <3>3, <3>4
      <4>2. verdict' = <<k, TRUE>>
        BY <3>2, <3>4
      <4> QED
        BY <3>1, <3>4, <4>1, <4>2 DEF Ideal!Grant
    <3>5. CASE ~(Level(k) >= Unit)
      <4>1. levels' = levels
        BY <2>0, <3>3, <3>5
      <4>2. verdict' = <<k, FALSE>>
        <5>1. (Level(k) >= Unit) = FALSE
          BY <3>5, SMT
        <5> QED
          BY <3>2, <5>1, Zenon
      <4>3. Level(k) < Unit
        BY <3>1, <3>5
      <4> QED
        BY <3>1, <4>1, <4>2, <4>3 DEF Ideal!Refuse
    <3> QED
      BY <3>4, <3>5
  <2>2. ASSUME Tick PROVE Ideal!Refill
    <3>1. \A k \in Keys :
            Level(k)' = IF Level(k) + Rate > Cap THEN Cap ELSE Level(k) + Rate
      BY <2>2, TickLevels
    <3> QED
      BY <2>0, <2>2, <3>1 DEF Ideal!Refill, Ideal!Cap, Cap, Tick
  <2>3. ASSUME Sweep PROVE UNCHANGED <<levels, verdict>>
    <3>1. \A k \in Keys : Level(k)' = Level(k)
      BY <2>3, SweepLevels
    <3> QED
      BY <2>0, <2>3, <3>1 DEF Sweep
  <2>4. CASE UNCHANGED vars
    BY <2>0, <2>4 DEF vars, Level, Refilled
  <2> QED
    BY <2>1, <2>2, <2>3, <2>4 DEF Next, Ideal!Next
<1> QED
  BY <1>1, <1>2, RateLimiterType, PTL
     DEF Spec, ImplementsTokenBucket, Ideal!Spec, Ideal!vars

-----------------------------------------------------------------------------
(* What the bound on a client's requests needs to be inductive: its bucket *)
(* accounts for every one of them.                                         *)
LedgerInv == TypeOK /\ Ledger /\ PerAddressBound

(* One more of something adds it once. *)
LEMMA OneMoreOf ==
  ASSUME NEW a \in Int, NEW b, b = a + 1, NEW c \in Nat
  PROVE  /\ a * c \in Int /\ b * c = a * c + c
         /\ c * a \in Int /\ c * b = c * a + c
<1>1. a * c \in Int /\ c * a \in Int
  OBVIOUS
<1>2. (a + 1) * c = a * c + c /\ c * (a + 1) = c * a + c
  OBVIOUS
<1> QED
  BY <1>1, <1>2

(* The times at which a client was allowed are numbers. *)
LEMMA GrantedType ==
  ASSUME TypeOK, NEW c \in Hosts
  PROVE  /\ granted[c] \in Seq(0..MaxTime)
         /\ Len(granted[c]) \in Nat
         /\ DOMAIN granted[c] = 1..Len(granted[c])
         /\ \A i \in DOMAIN granted[c] : granted[c][i] \in Nat
<1>1. granted[c] \in Seq(0..MaxTime) /\ MaxTime \in Nat
  BY RateAssumption DEF TypeOK, RateAssumption
<1> QED
  BY <1>1

(* Nothing has been allowed at first. *)
LEMMA InitLedger == Init => LedgerInv
<1> SUFFICES ASSUME Init PROVE LedgerInv
  OBVIOUS
<1>1. TypeOK
  BY InitTypeOK
<1>2. \A c \in Hosts : DOMAIN granted[c] = {}
  <2> SUFFICES ASSUME NEW c \in Hosts PROVE DOMAIN granted[c] = {}
    OBVIOUS
  <2>1. granted[c] = << >> /\ Len(<< >>) = 0
    BY DEF Init
  <2>2. DOMAIN granted[c] = 1..0
    BY <2>1
  <2> QED
    BY <2>2
<1>3. Ledger
  BY <1>2 DEF Ledger, Hosts
<1>4. PerAddressBound
  BY <1>2 DEF PerAddressBound
<1> QED
  BY <1>1, <1>3, <1>4 DEF LedgerInv

(* A step that allows nothing keeps the ledger if no level rises by more   *)
(* than the clock has earned.                                              *)
LEMMA LedgerKept ==
  ASSUME LedgerInv, TypeOK', UNCHANGED granted,
         \/ now' = now /\ \A k : Level(k)' <= Level(k)
         \/ now' = now + 1 /\ \A k : Level(k)' <= Level(k) + Rate
  PROVE  LedgerInv'
<1>1. PerAddressBound'
  BY DEF LedgerInv, PerAddressBound, Hosts, Cap
<1>2. Ledger'
  <2> SUFFICES ASSUME NEW q \in Requests, NEW i \in DOMAIN granted[q.client]
               PROVE  (Len(granted[q.client]) - i + 1) * Unit + Level(getIP(q))'
                        <= Cap + Rate * (now' - granted[q.client][i])
    BY DEF Ledger, getIP, Cap
  <2> DEFINE k == getIP(q)
             g == granted[q.client]
             spent == (Len(g) - i + 1) * Unit
             was == Rate * (now - g[i])
             is == Rate * (now' - g[i])
  <2>1. q.client \in Hosts
    BY DEF Hosts
  <2>2. /\ Len(g) \in Nat /\ i \in 1..Len(g) /\ g[i] \in Nat
        /\ now \in Nat /\ now' \in Nat
    BY <2>1, GrantedType, RateAssumption DEF LedgerInv, TypeOK, RateAssumption
  <2>3. spent + Level(k) <= Cap + was
    BY DEF LedgerInv, Ledger
  <2>4. Level(k) \in Int /\ Cap \in Int /\ Unit \in Nat /\ Rate \in Nat
    BY LevelType, CapHoldsAToken DEF LedgerInv
  <2>5. Level(k)' \in Int
    <3>1. \A j \in DOMAIN limits' :
            limits'[j].tokens \in Int /\ limits'[j].lastRef \in Int
      BY <2>4 DEF TypeOK, Cap
    <3>2. \A j \in DOMAIN limits' :
            limits'[j].tokens + (now' - limits'[j].lastRef) * Rate \in Int
      BY <2>2, <2>4, <3>1
    <3>3. Cap' = Cap
      BY DEF Cap
    <3> QED
      BY <2>4, <3>2, <3>3 DEF Level, Refilled
  <2>6. spent \in Int /\ was \in Int /\ is \in Int
    <3>1. Len(g) - i + 1 \in Int /\ Unit \in Int
      BY <2>2, <2>4
    <3>2. now - g[i] \in Int /\ now' - g[i] \in Int /\ Rate \in Int
      BY <2>2, <2>4
    <3> QED
      BY ONLY <3>1, <3>2
  <2>7. now' = now + 1 => is = was + Rate
    <3>1. now - g[i] \in Int
      BY <2>2
    <3>2. now' = now + 1 => now' - g[i] = (now - g[i]) + 1
      BY <2>2
    <3> QED
      BY <2>4, <3>1, <3>2, OneMoreOf
  <2>8. now' = now => is = was
    OBVIOUS
  <2> HIDE DEF k, g, spent, was, is
  <2>9. spent + Level(k)' <= Cap + is
    BY <2>3, <2>4, <2>5, <2>6, <2>7, <2>8
  <2> QED
    BY <2>9 DEF k, g, spent, is
<1> QED
  BY <1>1, <1>2 DEF LedgerInv

(* A request that is allowed adds a line to its client's ledger, and the   *)
(* token it is charged was in the one bucket of the client.                *)
LEMMA LedgerGrows ==
  ASSUME OneKeyPerClient, LedgerInv, TypeOK',
         NEW p \in Requests, Request(p), Level(getIP(p)) >= Unit
  PROVE  LedgerInv'
<1> DEFINE c == p.client
           k == getIP(p)
           g == granted[c]
<1>1. /\ c \in Hosts /\ Level(k) \in 0..Cap
      /\ Cap \in Nat /\ Unit \in Nat /\ Rate \in Nat /\ now \in Nat
      /\ Unit <= Cap
  BY LevelType, CapHoldsAToken, RateAssumption
     DEF LedgerInv, TypeOK, Hosts, RateAssumption
<1>2. /\ granted' = [granted EXCEPT ![c] = Append(g, now)]
      /\ now' = now
  BY AllowPays DEF LedgerInv
<1>3. /\ Level(k)' = Level(k) - Unit
      /\ \A j : j # k => Level(j)' = Level(j)
  BY RequestLevels DEF LedgerInv
<1>4. \A h \in Hosts : h # c => granted'[h] = granted[h]
  BY <1>2 DEF LedgerInv, TypeOK
<1>5. /\ g \in Seq(0..MaxTime) /\ Len(g) \in Nat /\ DOMAIN g = 1..Len(g)
      /\ \A i \in 1..Len(g) : g[i] \in Nat
  BY <1>1, GrantedType DEF LedgerInv
<1>6. /\ granted'[c] = Append(g, now) /\ Len(granted'[c]) = Len(g) + 1
      /\ DOMAIN granted'[c] = 1..(Len(g) + 1)
      /\ granted'[c][Len(g) + 1] = now
      /\ \A i \in 1..Len(g) : granted'[c][i] = g[i]
  <2>1. granted'[c] = Append(g, now)
    BY <1>1, <1>2 DEF LedgerInv, TypeOK
  <2>2. now \in 0..MaxTime
    BY DEF LedgerInv, TypeOK
  <2> QED
    BY <1>5, <2>1, <2>2
<1> HIDE DEF k, g
(* the line of an earlier request, one token longer *)
<1>7. \A i \in 1..Len(g) :
        /\ (Len(g) + 1 - i + 1) * Unit + (Level(k) - Unit) <= Cap + Rate * (now - g[i])
        /\ (Len(g) + 1 - i + 1) * Unit <= Cap + Rate * (now - g[i])
  <2> SUFFICES ASSUME NEW i \in 1..Len(g)
               PROVE  /\ (Len(g) + 1 - i + 1) * Unit + (Level(k) - Unit)
                           <= Cap + Rate * (now - g[i])
                      /\ (Len(g) + 1 - i + 1) * Unit <= Cap + Rate * (now - g[i])
    OBVIOUS
  <2>1. (Len(g) - i + 1) * Unit + Level(k) <= Cap + Rate * (now - g[i])
    BY <1>5 DEF LedgerInv, Ledger, k, g
  <2>2. /\ (Len(g) - i + 1) * Unit \in Int
        /\ (Len(g) + 1 - i + 1) * Unit = (Len(g) - i + 1) * Unit + Unit
    <3>1. Len(g) - i + 1 \in Int /\ Len(g) + 1 - i + 1 = (Len(g) - i + 1) + 1
      BY <1>5
    <3> QED
      BY <1>1, <3>1, OneMoreOf
  <2>3. Rate * (now - g[i]) \in Int
    BY <1>1, <1>5
  <2>4. Level(k) >= Unit
    BY DEF k
  <2> DEFINE before == (Len(g) - i + 1) * Unit
             after == (Len(g) + 1 - i + 1) * Unit
             earned == Rate * (now - g[i])
  <2> HIDE DEF before, after, earned
  <2>5. after + (Level(k) - Unit) <= Cap + earned /\ after <= Cap + earned
    <3>1. before + Level(k) <= Cap + earned
      BY <2>1 DEF before, earned
    <3>2. before \in Int /\ after = before + Unit /\ earned \in Int
      BY <2>2, <2>3 DEF before, after, earned
    <3> QED
      BY <1>1, <2>4, <3>1, <3>2
  <2> QED
    BY <2>5 DEF after, earned
(* the line of the request itself *)
<1>8. /\ (Len(g) + 1 - (Len(g) + 1) + 1) * Unit = Unit
      /\ Rate * (now - now) = 0
  BY <1>1, <1>5
<1>9. Ledger'
  <2> SUFFICES ASSUME NEW q \in Requests, NEW i \in DOMAIN granted'[q.client]
               PROVE  (Len(granted'[q.client]) - i + 1) * Unit + Level(getIP(q))'
                        <= Cap + Rate * (now' - granted'[q.client][i])
    BY DEF Ledger, getIP, Cap
  <2> DEFINE Line(n, j, level, t, since) ==
               (n - j + 1) * Unit + level <= Cap + Rate * (t - since)
  <2>1. CASE q.client = c
    <3>1. getIP(q) = k
      BY <2>1 DEF OneKeyPerClient, k
    <3>2. /\ Len(granted'[q.client]) = Len(g) + 1 /\ now' = now
          /\ Level(getIP(q))' = Level(k) - Unit
      BY <1>2, <1>3, <1>6, <2>1, <3>1
    <3>3. CASE i \in 1..Len(g)
      <4>1. granted'[q.client][i] = g[i]
        BY <1>6, <2>1, <3>3
      <4>2. Line(Len(g) + 1, i, Level(k) - Unit, now, g[i])
        BY <1>7, <3>3
      <4> HIDE DEF Line
      <4>3. Line(Len(granted'[q.client]), i, Level(getIP(q))', now', granted'[q.client][i])
        BY <3>2, <4>1, <4>2
      <4> QED
        BY <4>3 DEF Line
    <3>4. CASE i = Len(g) + 1
      <4>1. granted'[q.client][i] = now
        BY <1>6, <2>1, <3>4
      <4> DEFINE own == (Len(g) + 1 - (Len(g) + 1) + 1) * Unit
                 none == Rate * (now - now)
      <4>2. own + (Level(k) - Unit) <= Cap + none
        <5>1. own = Unit /\ none = 0
          BY <1>8
        <5> HIDE DEF own, none
        <5> QED
          BY <1>1, <5>1
      <4>3. Line(Len(g) + 1, Len(g) + 1, Level(k) - Unit, now, now)
        BY <4>2
      <4> HIDE DEF Line
      <4>4. Line(Len(granted'[q.client]), i, Level(getIP(q))', now', granted'[q.client][i])
        BY <3>2, <3>4, <4>1, <4>3
      <4> QED
        BY <4>4 DEF Line
    <3> QED
      BY <1>5, <1>6, <2>1, <3>3, <3>4
  <2>2. CASE q.client # c
    <3>1. q.client \in Hosts
      BY DEF Hosts
    <3>2. granted'[q.client] = granted[q.client]
      BY <1>4, <2>2, <3>1
    <3>3. Level(getIP(q))' <= Level(getIP(q)) /\ Level(getIP(q)) \in Int
          /\ Level(getIP(q))' \in Int
      <4>1. Level(getIP(q)) \in 0..Cap
        BY LevelType DEF LedgerInv
      <4> QED
        BY <1>1, <1>3, <4>1
    <3>4. (Len(granted[q.client]) - i + 1) * Unit + Level(getIP(q))
            <= Cap + Rate * (now - granted[q.client][i])
      BY <3>2 DEF LedgerInv, Ledger
    <3>5. /\ (Len(granted[q.client]) - i + 1) * Unit \in Int
          /\ Rate * (now - granted[q.client][i]) \in Int
      BY <1>1, <3>1, <3>2, GrantedType DEF LedgerInv
    <3> DEFINE spent == (Len(granted[q.client]) - i + 1) * Unit
               earned == Rate * (now - granted[q.client][i])
    <3>6. spent + Level(getIP(q))' <= Cap + earned
      <4> HIDE DEF spent, earned
      <4>1. spent \in Int /\ earned \in Int
        BY <3>5 DEF spent, earned
      <4>2. spent + Level(getIP(q)) <= Cap + earned
        BY <3>4 DEF spent, earned
      <4> QED
        BY <1>1, <3>3, <4>1, <4>2
    <3> QED
      BY <1>2, <3>2, <3>6, Zenon
  <2> QED
    BY <2>1, <2>2
<1>10. PerAddressBound'
  <2> SUFFICES ASSUME NEW h \in Hosts, NEW j \in DOMAIN granted'[h], NEW i \in 1..j
               PROVE  (j - i + 1) * Unit
                        <= Cap + Rate * (granted'[h][j] - granted'[h][i])
    BY DEF PerAddressBound, Hosts, Cap
  <2> DEFINE Window(m, n, t, since) == (m - n + 1) * Unit <= Cap + Rate * (t - since)
  <2>1. CASE h = c /\ j = Len(g) + 1
    <3>0. granted'[h][j] = now
      BY <1>6, <2>1
    <3>1. CASE i \in 1..Len(g)
      <4>1. granted'[h][i] = g[i]
        BY <1>6, <2>1, <3>1
      <4>2. Window(Len(g) + 1, i, now, g[i])
        BY <1>7, <3>1
      <4> HIDE DEF Window
      <4>3. Window(j, i, granted'[h][j], granted'[h][i])
        BY <2>1, <3>0, <4>1, <4>2
      <4> QED
        BY <4>3 DEF Window
    <3>2. CASE i = Len(g) + 1
      <4>1. granted'[h][i] = now
        BY <1>6, <2>1, <3>2
      <4> DEFINE own == (Len(g) + 1 - (Len(g) + 1) + 1) * Unit
                 none == Rate * (now - now)
      <4>2. own <= Cap + none
        <5>1. own = Unit /\ none = 0
          BY <1>8
        <5> HIDE DEF own, none
        <5> QED
          BY <1>1, <5>1
      <4>3. Window(Len(g) + 1, Len(g) + 1, now, now)
        BY <4>2
      <4> HIDE DEF Window
      <4>4. Window(j, i, granted'[h][j], granted'[h][i])
        BY <2>1, <3>0, <3>2, <4>1, <4>3
      <4> QED
        BY <4>4 DEF Window
    <3> QED
      BY <1>5, <2>1, <3>1, <3>2
  <2>2. CASE h = c /\ j \in 1..Len(g)
    <3>1. i \in 1..Len(g)
      BY <1>5, <2>2
    <3>2. (j - i + 1) * Unit <= Cap + Rate * (g[j] - g[i])
      BY <1>1, <1>5, <2>2 DEF LedgerInv, PerAddressBound, g
    <3> QED
      BY <1>6, <2>2, <3>1, <3>2
  <2>3. CASE h # c
    BY <1>4, <2>3 DEF LedgerInv, PerAddressBound
  <2> QED
    BY <1>5, <1>6, <2>1, <2>2, <2>3
<1> QED
  BY <1>9, <1>10 DEF LedgerInv

(* Every step keeps the ledger when the key identifies the client. *)
LEMMA NextLedger ==
  ASSUME OneKeyPerClient, LedgerInv, [Next]_vars
  PROVE  LedgerInv'
<1>1. TypeOK' /\ TypeOK
  BY NextTypeOK DEF LedgerInv
<1>2. \A k : Level(k) \in Int /\ Cap \in Int /\ Unit \in Nat /\ Rate \in Nat
  BY <1>1, LevelType, CapHoldsAToken
<1>3. ASSUME NEW p \in Requests, Request(p) PROVE LedgerInv'
  <2>1. CASE Level(getIP(p)) >= Unit
    BY <1>1, <1>3, <2>1, LedgerGrows
  <2>2. CASE ~(Level(getIP(p)) >= Unit)
    <3>1. granted' = granted /\ now' = now
      BY <1>1, <1>3, <2>2, AllowPays
    <3>2. \A k : Level(k)' = Level(k)
      BY <1>1, <1>3, <2>2, RequestLevels
    <3>3. \A k : Level(k)' <= Level(k)
      BY <1>2, <3>2
    <3> QED
      BY <1>1, <3>1, <3>3, LedgerKept
  <2> QED
    BY <2>1, <2>2
<1>4. ASSUME Tick PROVE LedgerInv'
  <2>1. \A k : Level(k)' = IF Level(k) + Rate > Cap THEN Cap ELSE Level(k) + Rate
    BY <1>1, <1>4, TickLevels
  <2>2. \A k : Level(k)' <= Level(k) + Rate
    BY <1>2, <2>1
  <2> QED
    BY <1>1, <1>4, <2>2, LedgerKept DEF Tick
<1>5. ASSUME Sweep PROVE LedgerInv'
  <2>1. \A k : Level(k)' = Level(k)
    BY <1>1, <1>5, SweepLevels
  <2>2. \A k : Level(k)' <= Level(k)
    BY <1>2, <2>1
  <2> QED
    BY <1>1, <1>5, <2>2, LedgerKept DEF Sweep
<1>6. CASE UNCHANGED vars
  <2>1. \A k : Level(k)' = Level(k)
    BY <1>6 DEF vars, Level, Refilled, Cap
  <2>2. \A k : Level(k)' <= Level(k)
    BY <1>2, <2>1
  <2> QED
    BY <1>1, <1>6, <2>2, LedgerKept DEF vars
<1> QED
  BY <1>3, <1>4, <1>5, <1>6 DEF Next

(* Behind a proxy that identifies its clients, no client is ever allowed   *)
(* more than the burst and what the rate earns, in any window of time and  *)
(* whatever buckets the cleanup forgets.                                   *)
THEOREM AddressBound ==
  ASSUME OneKeyPerClient
  PROVE  Spec => [](Ledger /\ PerAddressBound)
<1>1. LedgerInv => Ledger /\ PerAddressBound
  BY DEF LedgerInv
<1>2. LedgerInv /\ [Next]_vars => LedgerInv'
  BY NextLedger
<1> QED
  BY InitLedger, <1>1, <1>2, PTL DEF Spec
=============================================================================
