--------------------------------- MODULE Gate ---------------------------------
(***************************************************************************)
(* What the concurrency limit promises: at most Max requests are inside at *)
(* a time, and a request is turned away only at a moment when Max others   *)
(* are inside.  ConcurrencyLimiter implements it.                          *)
(***************************************************************************)
EXTENDS Naturals, FiniteSets

CONSTANTS Requests, Max

VARIABLES inside, refused

Init == inside = {} /\ refused = {}

Enter(r) ==
  /\ r \notin inside \cup refused
  /\ Cardinality(inside) < Max
  /\ inside' = inside \cup {r}
  /\ UNCHANGED refused

Refuse(r) ==
  /\ r \notin inside \cup refused
  /\ Cardinality(inside) = Max
  /\ refused' = refused \cup {r}
  /\ UNCHANGED inside

Leave(r) ==
  /\ r \in inside
  /\ inside' = inside \ {r}
  /\ UNCHANGED refused

ComeBack(r) ==
  /\ r \in refused
  /\ refused' = refused \ {r}
  /\ UNCHANGED inside

Next == \E r \in Requests : Enter(r) \/ Refuse(r) \/ Leave(r) \/ ComeBack(r)

Spec == Init /\ [][Next]_<<inside, refused>>
=============================================================================
