--------------------------- MODULE BufferPoolProofs ---------------------------
(***************************************************************************)
(* Proofs about BufferPool, for any number of goroutines, buffers and size *)
(* classes: its invariants, and that it implements PrivateBuffers.         *)
(***************************************************************************)
EXTENDS BufferPool, SequenceTheorems, NaturalsInduction, WellFoundedInduction, TLAPS

-----------------------------------------------------------------------------
(* A PooledBuffer points to a buffer from NewPooledBuffer to the end of    *)
(* Release, and what is put into a pool is empty by then.                  *)
Pointers ==
  \A u \in Users :
    /\ pc[u] \in {"none", "released", "panicked"} => buf[u] = Nil
    /\ pc[u] \in {"live", "reset", "put", "clear"} => buf[u] \in Buffers
    /\ pc[u] = "put" => slice[buf[u]].data = <<>>

Inv == TypeOK /\ OneOwner /\ PoolsAreClean /\ CapacityAsAsked /\ Pointers

LEMMA LeastNatural ==
  ASSUME NEW NN, NN \subseteq Nat, NN # {}
  PROVE  \E m \in NN : \A k \in NN : m <= k
<1>1. PICK m \in NN : \A k \in NN : ~(<<k, m>> \in OpToRel(<, Nat))
  BY WFMin, NatLessThanWellFounded, Zenon
<1>2. ASSUME NEW k \in NN PROVE ~(k < m)
  BY <1>1, Zenon DEF OpToRel
<1>3. ASSUME NEW k \in NN PROVE m <= k
  BY <1>2, <1>3
<1> QED BY <1>3

(* The largest class is the one at the least distance from MaxCap. *)
LEMMA LargestClass ==
  Largest \in Classes /\ \A d \in Classes : d <= Largest
<1> DEFINE Distances == {MaxCap - c : c \in Classes}
<1>1. Distances \subseteq Nat /\ Distances # {}
  <2>1. ASSUME NEW c \in Classes PROVE MaxCap - c \in Nat
    <3>1. c \in 1..MaxCap /\ MaxCap \in Nat
      BY BufferAssumption
    <3> QED BY <3>1
  <2>2. PICK c : c \in Classes
    BY BufferAssumption
  <2>3. MaxCap - c \in Distances
    BY <2>2
  <2> QED BY <2>1, <2>3
<1>2. PICK m \in Distances : \A k \in Distances : m <= k
  <2> HIDE DEF Distances
  <2> QED BY <1>1, LeastNatural
<1>3. PICK c \in Classes : m = MaxCap - c
  BY <1>2
<1>4. ASSUME NEW d \in Classes PROVE d <= c
  <2>1. MaxCap - d \in Distances
    OBVIOUS
  <2>2. m <= MaxCap - d
    BY <1>2, <2>1
  <2>3. MaxCap \in Nat /\ c \in Nat /\ d \in Nat
    BY BufferAssumption
  <2> QED BY <1>3, <2>2, <2>3
<1> QED BY <1>3, <1>4 DEF Largest

(* The class that is taken for a size is large enough for it. *)
LEMMA ClassServes ==
  ASSUME NEW size \in Sizes
  PROVE  ClassOf(size) \in Classes /\ (size <= Largest => size <= ClassOf(size))
<1> DEFINE Fit == {c \in Classes : Serves(size, c)}
<1>1. Largest \in Fit
  BY LargestClass DEF Serves
<1>2. Fit \in SUBSET Classes /\ Fit # {}
  BY <1>1
<1>3. PICK c \in Fit : \A d \in Fit : c <= d
  <2>1. Fit \subseteq Nat
    <3>1. Classes \subseteq Nat
      BY BufferAssumption
    <3>2. Fit \subseteq Classes
      OBVIOUS
    <3> QED BY <3>1, <3>2, Zenon
  <2> HIDE DEF Fit
  <2> QED BY <1>2, <2>1, LeastNatural
<1>4. ClassOf(size) \in Classes /\ Serves(size, ClassOf(size))
  BY <1>3 DEF ClassOf
<1>5. size \in Nat /\ Classes \subseteq Nat
  BY BufferAssumption
<1> QED BY <1>4, <1>5, LargestClass DEF Serves

LEMMA BlankType ==
  ASSUME NEW c \in Classes
  PROVE  /\ Blank(c) \in [cap : 0..MaxCap, data : Seq(Data)]
         /\ Blank(c).cap = c /\ Blank(c).data = <<>> /\ Len(Blank(c).data) <= Blank(c).cap
BY BufferAssumption DEF Blank

(* What Get returns is blank, and neither pooled nor used any more. *)
LEMMA GetIsFresh ==
  ASSUME Inv, NEW c \in Classes, NEW b \in Buffers, Get(c, b)
  PROVE  /\ pool' \in [Classes -> SUBSET Buffers]
         /\ slice' \in [Buffers -> [cap : 0..MaxCap, data : Seq(Data)]]
         /\ slice'[b] = Blank(c)
         /\ \A a \in Buffers \ {b} : slice'[a] = slice[a]
         /\ \A d \in Classes : pool'[d] \subseteq pool[d] \ {b}
         /\ \A u \in Users : Owns(u) => buf[u] # b
<1>1. CASE b \in pool[c] /\ pool' = [pool EXCEPT ![c] = @ \ {b}] /\ UNCHANGED slice
  <2>1. slice[b] = Blank(c)
    BY <1>1 DEF Inv, PoolsAreClean
  <2>2. \A d \in Classes : b \in pool[d] => d = c
    BY <1>1 DEF Inv, OneOwner
  <2>3. \A u \in Users : Owns(u) => buf[u] # b
    BY <1>1 DEF Inv, OneOwner, Pooled
  <2> QED BY <1>1, <2>1, <2>2, <2>3 DEF Inv, TypeOK
<1>2. CASE b \in Unused /\ slice' = [slice EXCEPT ![b] = Blank(c)] /\ UNCHANGED pool
  <2>1. \A d \in Classes : b \notin pool[d]
    BY <1>2 DEF Unused, Pooled
  <2>2. \A u \in Users : buf[u] # b
    BY <1>2 DEF Unused
  <2> QED BY <1>2, <2>1, <2>2, BlankType DEF Inv, TypeOK
<1> QED BY <1>1, <1>2 DEF Get

(* An action that leaves the buffers of the owners alone, and the pools    *)
(* but for taking from them.                                               *)
LEMMA OthersUndisturbed ==
  ASSUME Inv, TypeOK', UNCHANGED <<pc, buf, asked>>,
         \A d \in Classes : pool'[d] \subseteq pool[d],
         \A d \in Classes : \A b \in pool'[d] : slice'[b] = slice[b],
         \A u \in Users : Owns(u) => slice'[buf[u]] = slice[buf[u]]
  PROVE  Inv'
<1>1. OneOwner'
  BY DEF Inv, OneOwner, Owns, Pooled
<1>2. PoolsAreClean'
  BY DEF Inv, PoolsAreClean
<1>3. CapacityAsAsked'
  BY DEF Inv, CapacityAsAsked, Owns
<1>4. Pointers'
  BY DEF Inv, Pointers, Owns
<1> QED BY <1>1, <1>2, <1>3, <1>4 DEF Inv

-----------------------------------------------------------------------------
LEMMA BufferInit == Init => Inv
<1> SUFFICES ASSUME Init PROVE Inv
  OBVIOUS
<1>1. Blank(0) \in [cap : 0..MaxCap, data : Seq(Data)] /\ Len(Blank(0).data) <= Blank(0).cap
  BY BufferAssumption DEF Blank
<1>2. TypeOK
  BY <1>1 DEF Init, TypeOK
<1> QED BY <1>2 DEF Init, Inv, OneOwner, Owns, Pooled, PoolsAreClean, CapacityAsAsked, Pointers

(* Appending a chunk. *)
LEMMA AppendType ==
  ASSUME NEW s \in Seq(Data), NEW d \in Data
  PROVE  s \o <<d>> \in Seq(Data) /\ Len(s \o <<d>>) = Len(s) + 1
OBVIOUS

LEMMA BufferNext == Inv /\ [Next]_vars => Inv'
<1> SUFFICES ASSUME Inv, [Next]_vars PROVE Inv'
  OBVIOUS
<1>1. TypeOK /\ OneOwner /\ PoolsAreClean /\ CapacityAsAsked /\ Pointers
  BY DEF Inv
<1>2. ASSUME NEW u \in Users, NewPooledBuffer(u)
      PROVE  Inv'
  <2>1. PICK size \in Sizes, b \in Buffers :
          /\ Get(ClassOf(size), b)
          /\ buf' = [buf EXCEPT ![u] = b]
          /\ asked' = [asked EXCEPT ![u] = size]
    BY <1>2 DEF NewPooledBuffer
  <2> DEFINE c == ClassOf(size)
  <2>2. c \in Classes /\ (size <= Largest => size <= c)
    BY ClassServes
  <2> HIDE DEF c
  <2>3. /\ pool' \in [Classes -> SUBSET Buffers]
        /\ slice' \in [Buffers -> [cap : 0..MaxCap, data : Seq(Data)]]
        /\ slice'[b] = Blank(c)
        /\ \A a \in Buffers \ {b} : slice'[a] = slice[a]
        /\ \A d \in Classes : pool'[d] \subseteq pool[d] \ {b}
        /\ \A v \in Users : Owns(v) => buf[v] # b
    BY <2>1, <2>2, GetIsFresh DEF c
  <2>4. pc' = [pc EXCEPT ![u] = "live"] /\ result' = result
        /\ pc[u] \in {"none", "released"}
    BY <1>2 DEF NewPooledBuffer
  <2>5. TypeOK'
    <3>1. \A a \in Buffers : Len(slice'[a].data) <= slice'[a].cap
      BY <1>1, <2>2, <2>3, BlankType DEF TypeOK
    <3> QED BY <1>1, <2>1, <2>3, <2>4, <3>1 DEF TypeOK
  <2>6. \A v \in Users \ {u} : buf'[v] = buf[v] /\ pc'[v] = pc[v] /\ asked'[v] = asked[v]
    BY <1>1, <2>1, <2>4 DEF TypeOK
  <2>7. buf'[u] = b /\ pc'[u] = "live" /\ asked'[u] = size
    BY <1>1, <2>1, <2>4 DEF TypeOK
  <2>8. \A v \in Users \ {u} : Owns(v)' <=> Owns(v)
    BY <2>6 DEF Owns
  <2>9. Pooled' \subseteq Pooled \ {b}
    BY <2>3 DEF Pooled
  <2>10. OneOwner'
    <3>1. \A v \in Users : Owns(v)' => buf'[v] \in Buffers \ Pooled'
      BY <1>1, <2>6, <2>7, <2>8, <2>9 DEF OneOwner
    <3>2. \A v, w \in Users : Owns(v)' /\ Owns(w)' /\ buf'[v] = buf'[w] => v = w
      BY <1>1, <2>3, <2>6, <2>7, <2>8 DEF OneOwner
    <3>3. \A d, e \in Classes : pool'[d] \cap pool'[e] # {} => d = e
      BY <1>1, <2>3 DEF OneOwner
    <3> QED BY <3>1, <3>2, <3>3 DEF OneOwner
  <2>11. PoolsAreClean'
    BY <1>1, <2>3 DEF PoolsAreClean, TypeOK
  <2>12. CapacityAsAsked'
    <3>1. slice'[buf'[u]].cap = c
      BY <2>2, <2>3, <2>7, BlankType
    <3>2. \A v \in Users \ {u} : pc'[v] = "live" => slice'[buf'[v]] = slice[buf[v]]
      <4>1. \A v \in Users \ {u} : pc[v] = "live" => buf[v] \in Buffers \ {b}
        BY <1>1, <2>3 DEF Owns, Pointers
      <4> QED BY <2>3, <2>6, <4>1
    <3> QED BY <1>1, <2>2, <2>6, <2>7, <3>1, <3>2 DEF CapacityAsAsked
  <2>13. Pointers'
    BY <1>1, <2>3, <2>6, <2>7 DEF Pointers, Owns
  <2> QED BY <2>5, <2>10, <2>11, <2>12, <2>13 DEF Inv
<1>3. ASSUME GetBufferWriter
      PROVE  Inv'
  <2>1. PICK size \in Sizes, b \in Buffers : Get(ClassOf(size), b)
    BY <1>3 DEF GetBufferWriter
  <2>2. ClassOf(size) \in Classes
    BY ClassServes
  <2>3. /\ pool' \in [Classes -> SUBSET Buffers]
        /\ slice' \in [Buffers -> [cap : 0..MaxCap, data : Seq(Data)]]
        /\ slice'[b] = Blank(ClassOf(size))
        /\ \A a \in Buffers \ {b} : slice'[a] = slice[a]
        /\ \A d \in Classes : pool'[d] \subseteq pool[d] \ {b}
        /\ \A v \in Users : Owns(v) => buf[v] # b
    BY <2>1, <2>2, GetIsFresh
  <2>4. UNCHANGED <<pc, buf, asked, result>>
    BY <1>3 DEF GetBufferWriter
  <2>5. TypeOK'
    <3>1. \A a \in Buffers : Len(slice'[a].data) <= slice'[a].cap
      BY <1>1, <2>2, <2>3, BlankType DEF TypeOK
    <3> QED BY <1>1, <2>3, <2>4, <3>1 DEF TypeOK
  <2>6. \A d \in Classes : \A a \in pool'[d] : slice'[a] = slice[a]
    BY <2>3
  <2>7. \A v \in Users : Owns(v) => slice'[buf[v]] = slice[buf[v]]
    BY <1>1, <2>3 DEF Owns, Pointers
  <2> QED BY <2>3, <2>4, <2>5, <2>6, <2>7, OthersUndisturbed
<1>4. ASSUME Collect
      PROVE  Inv'
  <2>1. /\ slice' = slice /\ pc' = pc /\ buf' = buf /\ asked' = asked /\ result' = result
        /\ \A d \in Classes : pool'[d] \subseteq pool[d]
        /\ pool' \in [Classes -> SUBSET Buffers]
    BY <1>1, <1>4 DEF Collect, TypeOK
  <2>2. \A b \in Buffers : Len(slice'[b].data) <= slice'[b].cap
    BY <1>1, <2>1 DEF TypeOK
  <2>3. TypeOK'
    BY <1>1, <2>1, <2>2 DEF TypeOK
  <2> QED BY <2>1, <2>3, OthersUndisturbed
(* A goroutine writes to its buffer. *)
<1>5. ASSUME NEW u \in Users, Owns(u),
             NEW s \in [cap : 0..MaxCap, data : Seq(Data)],
             Len(s.data) <= s.cap, slice[buf[u]].cap <= s.cap,
             slice' = [slice EXCEPT ![buf[u]] = s],
             UNCHANGED <<pool, buf, asked, result>>
      PROVE  /\ slice' \in [Buffers -> [cap : 0..MaxCap, data : Seq(Data)]]
             /\ \A b \in Buffers : Len(slice'[b].data) <= slice'[b].cap
             /\ PoolsAreClean'
             /\ slice'[buf[u]] = s
             /\ \A v \in Users \ {u} : Owns(v) => slice'[buf[v]] = slice[buf[v]]
  <2>1. buf[u] \in Buffers /\ buf[u] \notin Pooled
    BY <1>1, <1>5 DEF OneOwner
  <2>2. \A v \in Users \ {u} : Owns(v) => buf[v] \in Buffers /\ buf[v] # buf[u]
    BY <1>1, <1>5 DEF OneOwner
  <2>3. \A d \in Classes : \A b \in pool[d] : slice'[b] = slice[b]
    BY <1>1, <1>5, <2>1 DEF TypeOK, Pooled
  <2> QED BY <1>1, <1>5, <2>1, <2>2, <2>3 DEF TypeOK, PoolsAreClean
<1>6. ASSUME NEW u \in Users, AppendData(u)
      PROVE  Inv'
  <2> DEFINE s == slice[buf[u]]
             n == Len(s.data) + 1
  <2>1. /\ pc[u] = "live" /\ Owns(u) /\ buf[u] \in Buffers
        /\ UNCHANGED <<pool, pc, buf, asked, result>>
    BY <1>1, <1>6 DEF AppendData, Owns, Pointers
  <2>2. PICK d \in Data, c \in n..MaxCap :
          /\ n <= s.cap => c = s.cap
          /\ slice' = [slice EXCEPT ![buf[u]] = [cap |-> c, data |-> s.data \o <<d>>]]
    BY <1>6 DEF AppendData
  <2>3. s \in [cap : 0..MaxCap, data : Seq(Data)]
    BY <1>1, <2>1 DEF TypeOK
  <2> HIDE DEF s
  <2> DEFINE t == [cap |-> c, data |-> s.data \o <<d>>]
  <2>4. /\ t \in [cap : 0..MaxCap, data : Seq(Data)]
        /\ Len(t.data) <= t.cap /\ s.cap <= t.cap
    <3>1. s.data \o <<d>> \in Seq(Data) /\ Len(s.data \o <<d>>) = n
      BY <2>3, AppendType
    <3>2. n \in Nat /\ c \in Nat /\ n <= c /\ c <= MaxCap /\ s.cap \in Nat
      BY <2>3, BufferAssumption
    <3>3. s.cap <= c
      BY <2>2, <3>2
    <3> QED BY <3>1, <3>2, <3>3, BufferAssumption
  <2>5. slice' = [slice EXCEPT ![buf[u]] = t]
    BY <2>2
  <2> HIDE DEF t
  <2>6. /\ slice' \in [Buffers -> [cap : 0..MaxCap, data : Seq(Data)]]
        /\ \A b \in Buffers : Len(slice'[b].data) <= slice'[b].cap
        /\ PoolsAreClean'
        /\ slice'[buf[u]] = t
        /\ \A v \in Users \ {u} : Owns(v) => slice'[buf[v]] = slice[buf[v]]
    BY <1>5, <2>1, <2>4, <2>5 DEF s
  <2>7. TypeOK'
    BY <1>1, <2>1, <2>6 DEF TypeOK
  <2>8. OneOwner'
    BY <1>1, <2>1 DEF OneOwner, Owns, Pooled
  <2>9. CapacityAsAsked'
    <3>1. asked[u] <= Largest => s.cap >= asked[u]
      BY <1>1, <2>1 DEF CapacityAsAsked, s
    <3>2. asked[u] \in Nat /\ s.cap \in Nat /\ t.cap \in Nat
      <4>1. asked[u] \in Sizes \cup {0}
        BY <1>1 DEF TypeOK
      <4>2. asked[u] \in Nat
        <5>1. Sizes \cup {0} \subseteq Nat
          BY BufferAssumption
        <5> QED BY <4>1, <5>1, Zenon
      <4>3. s.cap \in Nat
        BY <2>3, BufferAssumption
      <4>4. t.cap \in Nat
        BY <2>4, BufferAssumption
      <4> QED BY <4>2, <4>3, <4>4
    <3>3. asked[u] <= Largest => t.cap >= asked[u]
      BY <2>4, <3>1, <3>2
    <3> QED BY <1>1, <2>1, <2>6, <3>3 DEF CapacityAsAsked, Owns
  <2>10. Pointers'
    BY <1>1, <2>1, <2>6 DEF Pointers, Owns
  <2> QED BY <2>6, <2>7, <2>8, <2>9, <2>10 DEF Inv
<1>7. ASSUME NEW u \in Users, Reset(u) \/ PutReset(u)
      PROVE  Inv'
  <2> DEFINE s == slice[buf[u]]
             t == [cap |-> s.cap, data |-> <<>>]
  <2>1. /\ Owns(u) /\ buf[u] \in Buffers /\ UNCHANGED <<pool, buf, asked, result>>
        /\ pc' = pc \/ (pc' = [pc EXCEPT ![u] = "put"] /\ pc[u] = "reset")
        /\ slice' = [slice EXCEPT ![buf[u]].data = <<>>]
    BY <1>1, <1>7 DEF Reset, PutReset, Goto, Owns, Pointers
  <2>2. s \in [cap : 0..MaxCap, data : Seq(Data)]
    BY <1>1, <2>1 DEF TypeOK
  <2>3. slice' = [slice EXCEPT ![buf[u]] = t]
    <3>1. [s EXCEPT !.data = <<>>] = t
      BY <2>2
    <3>2. slice' = [slice EXCEPT ![buf[u]] = [s EXCEPT !.data = <<>>]]
      BY <2>1
    <3> QED BY <3>1, <3>2, Zenon
  <2>4. t \in [cap : 0..MaxCap, data : Seq(Data)] /\ Len(t.data) <= t.cap /\ s.cap <= t.cap
    BY <2>2, BufferAssumption
  <2>5. t.cap = s.cap /\ t.data = <<>>
    OBVIOUS
  <2> HIDE DEF t
  <2>6. /\ slice' \in [Buffers -> [cap : 0..MaxCap, data : Seq(Data)]]
        /\ \A b \in Buffers : Len(slice'[b].data) <= slice'[b].cap
        /\ PoolsAreClean'
        /\ slice'[buf[u]] = t
        /\ \A v \in Users \ {u} : Owns(v) => slice'[buf[v]] = slice[buf[v]]
    BY <1>5, <2>1, <2>3, <2>4
  <2>7. TypeOK'
    BY <1>1, <2>1, <2>6 DEF TypeOK
  <2>8. \A v \in Users : Owns(v)' => Owns(v)
    BY <1>1, <2>1 DEF TypeOK, Owns
  <2>9. \A v \in Users : pc'[v] = "live" => pc[v] = "live"
    BY <1>1, <2>1 DEF TypeOK
  <2>10. OneOwner'
    BY <1>1, <2>1, <2>8 DEF OneOwner, Pooled
  <2>11. CapacityAsAsked'
    BY <1>1, <2>1, <2>5, <2>6, <2>9 DEF CapacityAsAsked, Owns
  <2>12. Pointers'
    BY <1>1, <2>1, <2>5, <2>6 DEF Pointers, Owns, TypeOK
  <2> QED BY <2>6, <2>7, <2>10, <2>11, <2>12 DEF Inv
(* A goroutine goes on, and owns no more than before. *)
<1>8. ASSUME NEW u \in Users, NEW to \in {"reset", "clear", "released", "panicked"},
             pc' = [pc EXCEPT ![u] = to], to = "reset" => pc[u] = "live",
             UNCHANGED <<slice, asked>>, result' \in [Users -> Seq(Data)]
      PROVE  /\ pc' \in [Users -> {"none", "live", "reset", "put", "clear", "released",
                                  "panicked"}]
             /\ \A v \in Users : Owns(v)' => Owns(v)
             /\ \A v \in Users : pc'[v] = "live" => pc[v] = "live" /\ v # u
  BY <1>1, <1>8 DEF TypeOK, Owns
<1>9. ASSUME NEW u \in Users, Release(u) \/ UseReleased(u) \/ ToBytes(u)
      PROVE  Inv'
  <2>1. UNCHANGED <<pool, slice, buf, asked>>
    BY <1>9 DEF Release, UseReleased, ToBytes
  <2>2. PICK to \in {"reset", "panicked"} :
          /\ pc' = [pc EXCEPT ![u] = to]
          /\ to = "reset" => pc[u] = "live" /\ buf[u] \in Buffers
          /\ to = "panicked" => buf[u] = Nil
    BY <1>1, <1>9, BufferAssumption DEF Release, UseReleased, ToBytes, Goto, Pointers
  <2>3. result' \in [Users -> Seq(Data)]
    <3>1. CASE result' = result
      BY <1>1, <3>1 DEF TypeOK
    <3>2. CASE ToBytes(u)
      <4>1. buf[u] \in Buffers
        BY <1>1, <3>2 DEF ToBytes, Goto, Pointers
      <4>2. slice[buf[u]].data \in Seq(Data)
        BY <1>1, <4>1 DEF TypeOK
      <4> QED BY <1>1, <3>2, <4>2 DEF ToBytes, TypeOK
    <3> QED BY <1>9, <3>1, <3>2 DEF Release, UseReleased
  <2>4. /\ pc' \in [Users -> {"none", "live", "reset", "put", "clear", "released",
                              "panicked"}]
        /\ \A v \in Users : Owns(v)' => Owns(v)
        /\ \A v \in Users : pc'[v] = "live" => pc[v] = "live" /\ v # u
    BY <1>8, <2>1, <2>2, <2>3
  <2>5. TypeOK'
    BY <1>1, <2>1, <2>3, <2>4 DEF TypeOK
  <2>6. OneOwner' /\ PoolsAreClean' /\ CapacityAsAsked'
    BY <1>1, <2>1, <2>4 DEF OneOwner, PoolsAreClean, CapacityAsAsked, Pooled
  <2>7. Pointers'
    BY <1>1, <2>1, <2>2 DEF Pointers, TypeOK
  <2> QED BY <2>5, <2>6, <2>7 DEF Inv
<1>10. ASSUME NEW u \in Users, Put(u)
       PROVE  Inv'
  <2> DEFINE b == buf[u]
  <2>1. /\ pc[u] = "put" /\ pc' = [pc EXCEPT ![u] = "clear"]
        /\ pool' = [d \in Classes |->
                      IF d = slice[b].cap THEN pool[d] \cup {b} ELSE pool[d]]
        /\ UNCHANGED <<slice, buf, asked, result>>
    BY <1>10 DEF Put, Goto
  <2>2. Owns(u) /\ b \in Buffers /\ b \notin Pooled /\ slice[b].data = <<>>
    BY <1>1, <2>1 DEF Owns, OneOwner, Pointers
  <2>3. /\ pc' \in [Users -> {"none", "live", "reset", "put", "clear", "released",
                              "panicked"}]
        /\ \A v \in Users : Owns(v)' => Owns(v)
        /\ \A v \in Users : pc'[v] = "live" => pc[v] = "live" /\ v # u
    BY <1>1, <1>8, <2>1 DEF TypeOK
  <2>4. ~Owns(u)'
    BY <1>1, <2>1 DEF TypeOK, Owns
  <2>5. TypeOK'
    BY <1>1, <2>1, <2>2, <2>3 DEF TypeOK
  <2>6. OneOwner'
    <3>1. \A v \in Users : Owns(v)' => Owns(v) /\ v # u /\ buf[v] # b
      BY <1>1, <2>2, <2>3, <2>4 DEF OneOwner
    <3>2. Pooled' \subseteq Pooled \cup {b}
      BY <2>1 DEF Pooled
    <3>3. \A v \in Users : Owns(v)' => buf'[v] \in Buffers \ Pooled'
      BY <1>1, <2>1, <3>1, <3>2 DEF OneOwner
    <3>4. \A v, w \in Users : Owns(v)' /\ Owns(w)' /\ buf'[v] = buf'[w] => v = w
      BY <1>1, <2>1, <3>1 DEF OneOwner
    <3>5. \A d, e \in Classes : pool'[d] \cap pool'[e] # {} => d = e
      <4> SUFFICES ASSUME NEW d \in Classes, NEW e \in Classes, NEW a,
                          a \in pool'[d], a \in pool'[e]
                   PROVE  d = e
        OBVIOUS
      <4>1. CASE a = b
        BY <2>1, <2>2, <4>1 DEF Pooled
      <4>2. CASE a # b
        BY <1>1, <2>1, <4>2 DEF OneOwner
      <4> QED BY <4>1, <4>2
    <3> QED BY <3>3, <3>4, <3>5 DEF OneOwner
  <2>7. PoolsAreClean'
    <3>1. slice[b] \in [cap : 0..MaxCap, data : Seq(Data)]
      BY <1>1, <2>2 DEF TypeOK
    <3>2. slice[b] = [cap |-> slice[b].cap, data |-> <<>>]
      BY <2>2, <3>1
    <3>3. slice[b] = Blank(slice[b].cap)
      BY <3>2 DEF Blank
    <3> QED BY <1>1, <2>1, <3>3 DEF PoolsAreClean
  <2>8. CapacityAsAsked'
    BY <1>1, <2>1, <2>3 DEF CapacityAsAsked
  <2>9. Pointers'
    BY <1>1, <2>1, <2>2 DEF Pointers, TypeOK
  <2> QED BY <2>5, <2>6, <2>7, <2>8, <2>9 DEF Inv
<1>11. ASSUME NEW u \in Users, Clear(u)
       PROVE  Inv'
  <2>1. /\ pc[u] = "clear" /\ pc' = [pc EXCEPT ![u] = "released"]
        /\ buf' = [buf EXCEPT ![u] = Nil]
        /\ UNCHANGED <<pool, slice, asked, result>>
    BY <1>11 DEF Clear, Goto
  <2>2. /\ pc' \in [Users -> {"none", "live", "reset", "put", "clear", "released",
                              "panicked"}]
        /\ \A v \in Users : Owns(v)' => Owns(v)
        /\ \A v \in Users : pc'[v] = "live" => pc[v] = "live" /\ v # u
    BY <1>1, <1>8, <2>1 DEF TypeOK
  <2>3. \A v \in Users \ {u} : buf'[v] = buf[v]
    BY <1>1, <2>1 DEF TypeOK
  <2>4. \A v \in Users : Owns(v)' => v # u
    BY <1>1, <2>1 DEF TypeOK, Owns
  <2>5. TypeOK'
    BY <1>1, <2>1, <2>2 DEF TypeOK
  <2>6. OneOwner'
    BY <1>1, <2>1, <2>2, <2>3, <2>4 DEF OneOwner, Pooled
  <2>7. PoolsAreClean' /\ CapacityAsAsked'
    BY <1>1, <2>1, <2>2, <2>3 DEF PoolsAreClean, CapacityAsAsked
  <2>8. Pointers'
    BY <1>1, <2>1, <2>3 DEF Pointers, TypeOK
  <2> QED BY <2>5, <2>6, <2>7, <2>8 DEF Inv
<1>12. CASE UNCHANGED vars
  BY <1>1, <1>12 DEF Inv, TypeOK, OneOwner, Owns, Pooled, PoolsAreClean, CapacityAsAsked,
                     Pointers, vars
<1> QED
  BY <1>2, <1>3, <1>4, <1>6, <1>7, <1>9, <1>10, <1>11, <1>12 DEF Next

LEMMA BufferInv == Spec => []Inv
BY BufferInit, BufferNext, PTL DEF Spec

(* Every variable keeps its type, however a slice grows. *)
THEOREM Types == Spec => []TypeOK
BY BufferInv, PTL DEF Inv

(* Two goroutines never write to one array, nor one to an array that the   *)
(* pool may hand out.                                                      *)
THEOREM SingleOwner == Spec => []OneOwner
BY BufferInv, PTL DEF Inv

(* What waits in a pool is empty and of the pool's capacity. *)
THEOREM CleanPools == Spec => []PoolsAreClean
BY BufferInv, PTL DEF Inv

(* A buffer in use has the capacity that was asked for. *)
THEOREM Capacity == Spec => []CapacityAsAsked
BY BufferInv, PTL DEF Inv

-----------------------------------------------------------------------------
(* Refinement: what a goroutine holds is what its buffer points to, and    *)
(* each step of BufferPool changes that for one goroutine or for none.     *)

Held == [u \in Users |-> IF pc[u] = "live" THEN slice[buf[u]].data ELSE <<"none">>]

LEMMA NoChunkIsNone ==
  ASSUME NEW s \in Seq(Data)
  PROVE  s # <<"none">>
<1> SUFFICES ASSUME s = <<"none">> PROVE FALSE
  OBVIOUS
<1>1. Len(s) = 1 /\ s[1] = "none"
  OBVIOUS
<1>2. s[1] \in Data
  BY <1>1
<1> QED BY <1>1, <1>2, BufferAssumption

LEMMA HeldUnchanged ==
  ASSUME \A u \in Users : pc'[u] = "live" <=> pc[u] = "live",
         \A u \in Users : pc[u] = "live" => slice'[buf'[u]].data = slice[buf[u]].data
  PROVE  Held' = Held
BY DEF Held

LEMMA HeldChanges ==
  ASSUME NEW u \in Users, NEW s,
         \A v \in Users \ {u} : pc'[v] = "live" <=> pc[v] = "live",
         \A v \in Users \ {u} :
           pc[v] = "live" => slice'[buf'[v]].data = slice[buf[v]].data,
         s = IF pc'[u] = "live" THEN slice'[buf'[u]].data ELSE <<"none">>
  PROVE  Held' = [Held EXCEPT ![u] = s]
BY DEF Held

LEMMA ServiceInit == Init => Service!Init
BY DEF Init, Service!Init, Service!NoBuffer

LEMMA ServiceNext == Inv /\ Inv' /\ [Next]_vars => [Service!Next]_(Service!vars)
<1> SUFFICES ASSUME Inv, Inv', [Next]_vars
             PROVE  Service!Next \/ (Held' = Held /\ result' = result)
  BY DEF Service!vars, Held
<1>1. TypeOK /\ OneOwner /\ Pointers /\ TypeOK' /\ Pointers'
  BY DEF Inv
<1>2. \A u \in Users : pc[u] = "live" => buf[u] \in Buffers /\ slice[buf[u]].data \in Seq(Data)
  BY <1>1 DEF TypeOK, Pointers
<1>3. \A u \in Users : pc[u] = "live" => Held[u] = slice[buf[u]].data /\ Held[u] # <<"none">>
  BY <1>2, NoChunkIsNone DEF Held
<1>4. ASSUME NEW u \in Users, NewPooledBuffer(u)
      PROVE  Service!Next
  <2>1. PICK size \in Sizes, b \in Buffers :
          Get(ClassOf(size), b) /\ buf' = [buf EXCEPT ![u] = b]
    BY <1>4 DEF NewPooledBuffer
  <2>2. ClassOf(size) \in Classes
    BY ClassServes
  <2>3. /\ slice'[b] = Blank(ClassOf(size))
        /\ \A a \in Buffers \ {b} : slice'[a] = slice[a]
        /\ \A v \in Users : Owns(v) => buf[v] # b
    BY <2>1, <2>2, GetIsFresh
  <2>4. /\ pc' = [pc EXCEPT ![u] = "live"] /\ pc[u] # "live" /\ result' = result
    BY <1>4 DEF NewPooledBuffer
  <2>5. \A v \in Users \ {u} : pc'[v] = pc[v] /\ buf'[v] = buf[v]
    BY <1>1, <2>1, <2>4 DEF TypeOK
  <2>6. \A v \in Users \ {u} :
          pc[v] = "live" => slice'[buf'[v]].data = slice[buf[v]].data
    BY <1>2, <2>3, <2>5 DEF Owns
  <2>7. pc'[u] = "live" /\ slice'[buf'[u]].data = <<>>
    BY <1>1, <2>1, <2>3, <2>4 DEF TypeOK, Blank
  <2>8. Held' = [Held EXCEPT ![u] = <<>>]
    BY <2>5, <2>6, <2>7, HeldChanges
  <2>9. Held[u] = <<"none">>
    BY <2>4 DEF Held
  <2>10. Service!New(u)
    BY <2>4, <2>8, <2>9 DEF Service!New, Service!Hold, Service!NoBuffer, Held
  <2> QED BY <2>10 DEF Service!Next
<1>5. ASSUME GetBufferWriter
      PROVE  Held' = Held /\ result' = result
  <2>1. PICK size \in Sizes, b \in Buffers : Get(ClassOf(size), b)
    BY <1>5 DEF GetBufferWriter
  <2>2. ClassOf(size) \in Classes
    BY ClassServes
  <2>3. /\ \A a \in Buffers \ {b} : slice'[a] = slice[a]
        /\ \A v \in Users : Owns(v) => buf[v] # b
    BY <2>1, <2>2, GetIsFresh
  <2>4. UNCHANGED <<pc, buf, asked, result>>
    BY <1>5 DEF GetBufferWriter
  <2>5. \A v \in Users : pc[v] = "live" => slice'[buf'[v]].data = slice[buf[v]].data
    BY <1>2, <2>3, <2>4 DEF Owns
  <2> QED BY <2>4, <2>5, HeldUnchanged
<1>6. ASSUME UNCHANGED <<slice, pc, buf, result>>
      PROVE  Held' = Held /\ result' = result
  BY <1>6, HeldUnchanged
(* Writing to the buffer of one goroutine. *)
<1>7. ASSUME NEW u \in Users, Owns(u), NEW s, UNCHANGED buf,
             slice' = [slice EXCEPT ![buf[u]] = s]
      PROVE  /\ slice'[buf'[u]] = s
             /\ \A v \in Users \ {u} :
                  pc[v] = "live" => slice'[buf'[v]].data = slice[buf[v]].data
  <2>1. buf[u] \in Buffers
    BY <1>1, <1>7 DEF OneOwner
  <2>2. \A v \in Users \ {u} : pc[v] = "live" => buf[v] # buf[u] /\ buf[v] \in Buffers
    BY <1>1, <1>7 DEF OneOwner, Owns
  <2> QED BY <1>1, <1>7, <2>1, <2>2 DEF TypeOK
<1>8. ASSUME NEW u \in Users, AppendData(u)
      PROVE  Service!Next
  <2>1. PICK d \in Data, c \in (Len(slice[buf[u]].data) + 1)..MaxCap :
          slice' = [slice EXCEPT ![buf[u]] =
                      [cap |-> c, data |-> slice[buf[u]].data \o <<d>>]]
    BY <1>8 DEF AppendData
  <2>2. pc[u] = "live" /\ Owns(u) /\ UNCHANGED <<pc, buf, result>>
    BY <1>8 DEF AppendData, Owns
  <2>3. /\ slice'[buf'[u]] = [cap |-> c, data |-> slice[buf[u]].data \o <<d>>]
        /\ \A v \in Users \ {u} :
             pc[v] = "live" => slice'[buf'[v]].data = slice[buf[v]].data
    BY <1>7, <2>1, <2>2
  <2>4. slice'[buf'[u]].data = Held[u] \o <<d>>
    <3>1. Held[u] = slice[buf[u]].data
      BY <1>3, <2>2
    <3> DEFINE x == slice[buf[u]].data \o <<d>>
    <3>2. slice'[buf'[u]] = [cap |-> c, data |-> x]
      BY <2>3
    <3>3. x = Held[u] \o <<d>>
      BY <3>1, Zenon
    <3> HIDE DEF x
    <3>4. slice'[buf'[u]].data = x
      BY <3>2
    <3> QED BY <3>3, <3>4, Zenon
  <2>5. Held' = [Held EXCEPT ![u] = Held[u] \o <<d>>]
    BY <2>2, <2>3, <2>4, HeldChanges
  <2>6. Service!AppendData(u)
    BY <1>3, <2>2, <2>5 DEF Service!AppendData, Service!Hold, Service!NoBuffer, Held
  <2> QED BY <2>6 DEF Service!Next
<1>9. ASSUME NEW u \in Users, Reset(u)
      PROVE  Service!Next
  <2>1. /\ pc[u] = "live" /\ Owns(u) /\ UNCHANGED <<pc, buf, result>>
        /\ slice' = [slice EXCEPT ![buf[u]] = [slice[buf[u]] EXCEPT !.data = <<>>]]
    BY <1>9 DEF Reset, Owns
  <2>2. /\ slice'[buf'[u]] = [slice[buf[u]] EXCEPT !.data = <<>>]
        /\ \A v \in Users \ {u} :
             pc[v] = "live" => slice'[buf'[v]].data = slice[buf[v]].data
    BY <1>7, <2>1
  <2>3. slice'[buf'[u]].data = <<>>
    BY <1>1, <1>2, <2>1, <2>2 DEF TypeOK
  <2>4. Held' = [Held EXCEPT ![u] = <<>>]
    BY <2>1, <2>2, <2>3, HeldChanges
  <2>5. Service!Reset(u)
    BY <1>3, <2>1, <2>4 DEF Service!Reset, Service!Hold, Service!NoBuffer, Held
  <2> QED BY <2>5 DEF Service!Next
<1>10. ASSUME NEW u \in Users, PutReset(u)
       PROVE  Held' = Held /\ result' = result
  <2>1. /\ pc[u] = "reset" /\ pc' = [pc EXCEPT ![u] = "put"]
        /\ Owns(u) /\ UNCHANGED <<buf, result>>
        /\ slice' = [slice EXCEPT ![buf[u]] = [slice[buf[u]] EXCEPT !.data = <<>>]]
    BY <1>10 DEF PutReset, Goto, Owns
  <2>2. \A v \in Users \ {u} :
          pc[v] = "live" => slice'[buf'[v]].data = slice[buf[v]].data
    BY <1>7, <2>1
  <2>3. \A v \in Users : pc'[v] = "live" <=> pc[v] = "live"
    BY <1>1, <2>1 DEF TypeOK
  <2> QED BY <2>1, <2>2, <2>3, HeldUnchanged
(* Giving a buffer up. *)
<1>11. ASSUME NEW u \in Users, pc[u] = "live", NEW to, to # "live",
              pc' = [pc EXCEPT ![u] = to], UNCHANGED <<slice, buf>>
       PROVE  Held' = [Held EXCEPT ![u] = <<"none">>]
  <2>1. pc'[u] # "live" /\ \A v \in Users \ {u} : pc'[v] = pc[v]
    BY <1>1, <1>11 DEF TypeOK
  <2> QED BY <1>11, <2>1, HeldChanges
<1>12. ASSUME NEW u \in Users, ToBytes(u)
       PROVE  Service!Next
  <2>1. /\ pc[u] = "live" /\ pc' = [pc EXCEPT ![u] = "reset"]
        /\ UNCHANGED <<slice, buf>>
        /\ result' = [result EXCEPT ![u] = slice[buf[u]].data]
    BY <1>12 DEF ToBytes, Goto
  <2>2. Held' = [Held EXCEPT ![u] = <<"none">>]
    BY <1>11, <2>1
  <2>3. result' = [result EXCEPT ![u] = Held[u]]
    BY <1>3, <2>1
  <2>4. Service!ToBytes(u)
    BY <1>3, <2>1, <2>2, <2>3 DEF Service!ToBytes, Service!Hold, Service!NoBuffer, Held
  <2> QED BY <2>4 DEF Service!Next
(* The steps of a goroutine that holds nothing. *)
<1>13. ASSUME NEW u \in Users, pc[u] # "live", NEW to, to # "live",
              pc' = [pc EXCEPT ![u] = to], UNCHANGED <<slice, result>>,
              \A v \in Users \ {u} : buf'[v] = buf[v]
       PROVE  Held' = Held /\ result' = result
  <2>1. \A v \in Users : pc'[v] = "live" <=> pc[v] = "live"
    BY <1>1, <1>13 DEF TypeOK
  <2>2. \A v \in Users : pc[v] = "live" => slice'[buf'[v]].data = slice[buf[v]].data
    BY <1>13
  <2> QED BY <1>13, <2>1, <2>2, HeldUnchanged
<1>14. ASSUME NEW u \in Users, Release(u)
       PROVE  Service!Next \/ (Held' = Held /\ result' = result)
  <2>1. UNCHANGED <<slice, buf, result>>
        /\ \E to \in {"panicked", "reset"} : pc' = [pc EXCEPT ![u] = to]
    BY <1>14 DEF Release
  <2>2. CASE pc[u] = "live"
    <3>1. Held' = [Held EXCEPT ![u] = <<"none">>]
      BY <1>11, <2>1, <2>2
    <3>2. Service!Release(u)
      BY <1>3, <2>1, <2>2, <3>1 DEF Service!Release, Service!Hold, Service!NoBuffer, Held
    <3> QED BY <3>2 DEF Service!Next
  <2>3. CASE pc[u] # "live"
    BY <1>13, <2>1, <2>3
  <2> QED BY <2>2, <2>3
<1>15. ASSUME NEW u \in Users, UseReleased(u) \/ Put(u) \/ Clear(u)
       PROVE  Held' = Held /\ result' = result
  <2>1. /\ pc[u] # "live" /\ UNCHANGED <<slice, result>>
        /\ \E to \in {"panicked", "clear", "released"} : pc' = [pc EXCEPT ![u] = to]
    BY <1>15 DEF UseReleased, Put, Clear, Goto
  <2>2. \A v \in Users \ {u} : buf'[v] = buf[v]
    BY <1>1, <1>15 DEF UseReleased, Put, Clear, TypeOK
  <2> QED BY <1>13, <2>1, <2>2
<1>16. CASE Collect
  BY <1>6, <1>16 DEF Collect
<1>17. CASE UNCHANGED vars
  BY <1>6, <1>17 DEF vars
<1> QED
  BY <1>4, <1>5, <1>8, <1>9, <1>10, <1>12, <1>14, <1>15, <1>16, <1>17 DEF Next

(* With pools, reuse, growth and double release among any number of        *)
(* goroutines, each works as if with a buffer of its own.                  *)
THEOREM BufferRefinement == Spec => ImplementsPrivateBuffers
BY BufferInv, ServiceInit, ServiceNext, PTL DEF Spec, Service!Spec, ImplementsPrivateBuffers
=============================================================================
