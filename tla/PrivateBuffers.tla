---------------------------- MODULE PrivateBuffers ----------------------------
(***************************************************************************)
(* What a PooledBuffer promises the goroutine that made it: a buffer of    *)
(* its own, empty at first, that holds what was appended since, and bytes  *)
(* that stay as they were when ToBytes gave them out.  There is no pool    *)
(* and no other goroutine in it.  BufferPool implements it.                *)
(***************************************************************************)
EXTENDS Sequences

CONSTANTS Users, Data

VARIABLES
  held,   \* what each user's buffer holds, <<"none">> without a buffer
  result  \* what its latest ToBytes returned

vars == <<held, result>>

NoBuffer == <<"none">>

Init ==
  /\ held = [u \in Users |-> NoBuffer]
  /\ result = [u \in Users |-> <<>>]

Hold(u, s) == held' = [held EXCEPT ![u] = s]

New(u) == held[u] = NoBuffer /\ Hold(u, <<>>) /\ UNCHANGED result

AppendData(u) ==
  /\ held[u] # NoBuffer
  /\ \E d \in Data : Hold(u, held[u] \o <<d>>)
  /\ UNCHANGED result

Reset(u) == held[u] # NoBuffer /\ Hold(u, <<>>) /\ UNCHANGED result

Release(u) == held[u] # NoBuffer /\ Hold(u, NoBuffer) /\ UNCHANGED result

ToBytes(u) ==
  /\ held[u] # NoBuffer
  /\ result' = [result EXCEPT ![u] = held[u]]
  /\ Hold(u, NoBuffer)

Next == \E u \in Users :
  New(u) \/ AppendData(u) \/ Reset(u) \/ Release(u) \/ ToBytes(u)

Spec == Init /\ [][Next]_vars
=============================================================================
