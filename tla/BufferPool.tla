------------------------------ MODULE BufferPool ------------------------------
(***************************************************************************)
(* The buffer pool of internal/converter/bufferpool.go: byte slices in     *)
(* size classes, each a sync.Pool, used by goroutines through              *)
(* PooledBuffer.  A buffer is a pointer to a slice; append may give the    *)
(* slice a larger array.  Bytes are chunks of one unit, of which a slice   *)
(* has its capacity.                                                       *)
(***************************************************************************)
EXTENDS Integers, Sequences

CONSTANTS
  Users,    \* the goroutines
  Buffers,  \* the pointers to slices that there can be
  Classes,  \* capacities that are pooled: 64K, 512K, 5M, 10M
  Sizes,    \* sizes that are asked for
  MaxCap,   \* bound on a capacity, reached by append
  Data,     \* chunks
  Nil

(* "none" as a chunk would make a held buffer look like NoBuffer.          *)
ASSUME BufferAssumption ==
  /\ Classes \subseteq 1..MaxCap /\ Classes # {} /\ MaxCap \in Nat
  /\ Sizes \subseteq Nat
  /\ Nil \notin Buffers
  /\ "none" \notin Data

VARIABLES
  pool,    \* the buffers in each class's sync.Pool
  slice,   \* what each buffer points to: its capacity and its contents
  pc,      \* where a goroutine is with its PooledBuffer
  buf,     \* p.buf of that PooledBuffer
  asked,   \* history: the size it was made for
  result   \* what its latest ToBytes returned

vars == <<pool, slice, pc, buf, asked, result>>

Blank(c) == [cap |-> c, data |-> <<>>]

Init ==
  /\ pool = [c \in Classes |-> {}]
  /\ slice = [b \in Buffers |-> Blank(0)]
  /\ pc = [u \in Users |-> "none"]
  /\ buf = [u \in Users |-> Nil]
  /\ asked = [u \in Users |-> 0]
  /\ result = [u \in Users |-> <<>>]

Goto(u, from, to) == pc[u] = from /\ pc' = [pc EXCEPT ![u] = to]

Pooled == UNION {pool[c] : c \in Classes}

(* Memory that nothing points to: what make returns. *)
Unused == Buffers \ (Pooled \cup {buf[u] : u \in Users})

Largest == CHOOSE c \in Classes : \A d \in Classes : d <= c

(* Mutant: a size that is nearly the class's fits. *)
ClassAround(size, c) == c + 1 >= size \/ c = Largest

(* A class serves a size that fits, and the largest serves every other. *)
Serves(size, c) == c >= size \/ c = Largest

(* The class GetBuffer takes for a size. *)
ClassOf(size) ==
  CHOOSE c \in Classes :
    Serves(size, c) /\ \A d \in Classes : Serves(size, d) => c <= d

-----------------------------------------------------------------------------
(* sync.Pool: Get returns any buffer of the pool, or what New makes, also  *)
(* when the pool is not empty; the garbage collector empties it at will.   *)
Get(c, b) ==
  \/ /\ b \in pool[c]
     /\ pool' = [pool EXCEPT ![c] = @ \ {b}]
     /\ UNCHANGED slice
  \/ /\ b \in Unused
     /\ slice' = [slice EXCEPT ![b] = Blank(c)]
     /\ UNCHANGED pool

Collect ==
  /\ \E c \in Classes, b \in Buffers :
       b \in pool[c] /\ pool' = [pool EXCEPT ![c] = @ \ {b}]
  /\ UNCHANGED <<slice, pc, buf, asked, result>>

(* NewPooledBuffer(size).  A goroutine makes a new one after the last. *)
NewPooledBuffer(u) ==
  /\ pc[u] \in {"none", "released"}
  /\ pc' = [pc EXCEPT ![u] = "live"]
  /\ \E size \in Sizes, b \in Buffers :
       /\ Get(ClassOf(size), b)
       /\ buf' = [buf EXCEPT ![u] = b]
       /\ asked' = [asked EXCEPT ![u] = size]
  /\ UNCHANGED result

(* GetBufferWriter hands out the slice but loses the pointer to it, so the *)
(* buffer never comes back; PutBufferWriter does nothing.                  *)
GetBufferWriter ==
  /\ \E size \in Sizes, b \in Buffers : Get(ClassOf(size), b)
  /\ UNCHANGED <<pc, buf, asked, result>>

(* Mutant: the copy goes to the old array, without room for it. *)
AppendDataInPlace(u) ==
  /\ pc[u] = "live"
  /\ Len(slice[buf[u]].data) < MaxCap
  /\ \E d \in Data :
       slice' = [slice EXCEPT ![buf[u]].data = @ \o <<d>>]
  /\ UNCHANGED <<pool, pc, buf, asked, result>>

(* append moves the contents to a larger array when the capacity is        *)
(* exceeded; how much larger is up to the runtime.                         *)
AppendData(u) ==
  /\ pc[u] = "live"
  /\ LET s == slice[buf[u]]
         n == Len(s.data) + 1
     IN /\ n <= MaxCap
        /\ \E d \in Data, c \in n..MaxCap :
             /\ n <= s.cap => c = s.cap
             /\ slice' = [slice EXCEPT
                            ![buf[u]] = [cap |-> c, data |-> s.data \o <<d>>]]
  /\ UNCHANGED <<pool, pc, buf, asked, result>>

Reset(u) ==
  /\ pc[u] = "live"
  /\ slice' = [slice EXCEPT ![buf[u]].data = <<>>]
  /\ UNCHANGED <<pool, pc, buf, asked, result>>

(* Release of a PooledBuffer that is in use, or again of one that was      *)
(* released: PutBuffer dereferences p.buf, and panics when it is nil.      *)
Release(u) ==
  /\ pc[u] \in {"live", "released"}
  /\ pc' = [pc EXCEPT ![u] = IF buf[u] = Nil THEN "panicked" ELSE "reset"]
  /\ UNCHANGED <<pool, slice, buf, asked, result>>

(* The other methods dereference p.buf too. *)
UseReleased(u) ==
  /\ buf[u] = Nil
  /\ Goto(u, "released", "panicked")
  /\ UNCHANGED <<pool, slice, buf, asked, result>>

(* ToBytes copies the contents and then calls Release. *)
ToBytes(u) ==
  /\ Goto(u, "live", "reset")
  /\ result' = [result EXCEPT ![u] = slice[buf[u]].data]
  /\ UNCHANGED <<pool, slice, buf, asked>>

-----------------------------------------------------------------------------
(* The steps of Release.  Mutant: the length is not reset. *)
PutKeepsLength(u) ==
  /\ Goto(u, "reset", "put")
  /\ UNCHANGED <<pool, slice, buf, asked, result>>

(* PutBuffer: the length first, *)
PutReset(u) ==
  /\ Goto(u, "reset", "put")
  /\ slice' = [slice EXCEPT ![buf[u]].data = <<>>]
  /\ UNCHANGED <<pool, buf, asked, result>>

(* Mutant: a buffer goes to the classes that it is large enough for. *)
PutAtLeast(u) ==
  /\ Goto(u, "put", "clear")
  /\ pool' = [c \in Classes |->
                IF c <= slice[buf[u]].cap THEN pool[c] \cup {buf[u]} ELSE pool[c]]
  /\ UNCHANGED <<slice, buf, asked, result>>

(* then the pool of exactly its capacity, if there is one. *)
Put(u) ==
  /\ Goto(u, "put", "clear")
  /\ pool' = [c \in Classes |->
                IF c = slice[buf[u]].cap THEN pool[c] \cup {buf[u]} ELSE pool[c]]
  /\ UNCHANGED <<slice, buf, asked, result>>

(* Mutant: p.buf = nil is missing. *)
ClearNothing(u) ==
  /\ Goto(u, "clear", "released")
  /\ UNCHANGED <<pool, slice, buf, asked, result>>

(* p.buf = nil: until here p still points to what another may have got. *)
Clear(u) ==
  /\ Goto(u, "clear", "released")
  /\ buf' = [buf EXCEPT ![u] = Nil]
  /\ UNCHANGED <<pool, slice, asked, result>>

Next ==
  \/ \E u \in Users :
       \/ NewPooledBuffer(u) \/ AppendData(u) \/ Reset(u) \/ Release(u)
       \/ UseReleased(u) \/ ToBytes(u)
       \/ PutReset(u) \/ Put(u) \/ Clear(u)
  \/ GetBufferWriter
  \/ Collect

Spec == Init /\ [][Next]_vars

-----------------------------------------------------------------------------
(* Every variable has values of its type; no slice is longer than its      *)
(* array.                                                                  *)
TypeOK ==
  /\ pool \in [Classes -> SUBSET Buffers]
  /\ slice \in [Buffers -> [cap : 0..MaxCap, data : Seq(Data)]]
  /\ \A b \in Buffers : Len(slice[b].data) <= slice[b].cap
  /\ pc \in [Users -> {"none", "live", "reset", "put", "clear", "released",
                       "panicked"}]
  /\ buf \in [Users -> Buffers \cup {Nil}]
  /\ asked \in [Users -> Sizes \cup {0}]
  /\ result \in [Users -> Seq(Data)]

(* The buffer is the goroutine's to write to. *)
Owns(u) == pc[u] \in {"live", "reset", "put"}

(* A buffer has one owner: two goroutines never write to the same array,   *)
(* and none writes to one that the pool may hand out, whatever is released *)
(* twice or lost.                                                          *)
OneOwner ==
  /\ \A u \in Users : Owns(u) => buf[u] \in Buffers \ Pooled
  /\ \A u, v \in Users : Owns(u) /\ Owns(v) /\ buf[u] = buf[v] => u = v
  /\ \A c, d \in Classes : pool[c] \cap pool[d] # {} => c = d

(* However a buffer grew in between, what waits in a class's pool is empty *)
(* and has the capacity that the class stands for.                         *)
PoolsAreClean ==
  \A c \in Classes : \A b \in pool[c] : slice[b] = Blank(c)

(* bufferpool.go: "returns a buffer with at least the specified capacity", *)
(* for every size up to the largest class, as long as it is in use.        *)
CapacityAsAsked ==
  \A u \in Users :
    pc[u] = "live" /\ asked[u] <= Largest => slice[buf[u]].cap >= asked[u]

-----------------------------------------------------------------------------
(* What the users see of it: *)
Service == INSTANCE PrivateBuffers WITH
  held <- [u \in Users |-> IF pc[u] = "live" THEN slice[buf[u]].data
                           ELSE <<"none">>]

(* With pools, reuse, growth and double release among all goroutines,      *)
(* every one of them works with a buffer of its own.                       *)
ImplementsPrivateBuffers == Service!Spec
=============================================================================
