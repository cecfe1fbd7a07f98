----------------------- MODULE ConcurrencyLimiterProofs -----------------------
(***************************************************************************)
(* What TLAPS proves of ConcurrencyLimiter, for any finite set of requests *)
(* and any limit: the semaphore's length and the counter are exact at      *)
(* every interleaving, and the limiter implements Gate.                    *)
(***************************************************************************)
EXTENDS ConcurrencyLimiter, FiniteSetTheorems, TLAPS

(* The two counters against the sets they count: inductive with TypeOK. *)
LInv == TypeOK /\ SlotsAreHeld /\ ActiveIsExact

(* The sets that are counted are finite, so that their sizes are numbers. *)
LEMMA SetsAreFinite ==
  /\ IsFiniteSet(Inside) /\ Cardinality(Inside) \in Nat
  /\ IsFiniteSet(Counted) /\ Cardinality(Counted) \in Nat
  /\ Cardinality(Counted) <= Cardinality(Requests)
  /\ Cardinality(Requests) \in Nat
<1>1. Inside \subseteq Requests /\ Counted \subseteq Requests
  BY DEF Inside, Counted
<1> QED
  BY <1>1, LimiterAssumption, FS_Subset, FS_CardinalityType DEF LimiterAssumption

(* A request that moves between stages moves only itself. *)
LEMMA OneMoves ==
  ASSUME TypeOK, NEW r \in Requests, NEW from, NEW to, Goto(r, from, to)
  PROVE  /\ pc[r] = from /\ pc'[r] = to
         /\ \A q \in Requests : q # r => pc'[q] = pc[q]
  BY DEF Goto, TypeOK

(* Entering a finite set adds one to its size. *)
LEMMA OneMore ==
  ASSUME NEW S, IsFiniteSet(S), NEW x, x \notin S
  PROVE  Cardinality(S \cup {x}) = Cardinality(S) + 1
  BY FS_AddElement

(* And leaving it takes one away. *)
LEMMA OneLess ==
  ASSUME NEW S, IsFiniteSet(S), NEW x, x \in S
  PROVE  Cardinality(S \ {x}) = Cardinality(S) - 1
  BY FS_RemoveElement

(* The invariant holds before the first request. *)
LEMMA InitLInv == Init => LInv
<1> SUFFICES ASSUME Init PROVE LInv
  OBVIOUS
<1>1. Inside = {} /\ Counted = {}
  BY DEF Init, Inside, Counted
<1>2. Cardinality(Requests) \in Nat /\ Max \in Nat
  BY SetsAreFinite, LimiterAssumption DEF LimiterAssumption
<1>3. SlotsAreHeld /\ ActiveIsExact
  BY <1>1, FS_EmptySet DEF Init, SlotsAreHeld, ActiveIsExact
<1>4. TypeOK
  BY <1>2 DEF Init, TypeOK, Stages
<1> QED
  BY <1>3, <1>4 DEF LInv

(* Every step of a request keeps it: one step of the proof per action. *)
LEMMA NextLInv == LInv /\ [Next]_vars => LInv'
<1> SUFFICES ASSUME LInv, [Next]_vars PROVE LInv'
  OBVIOUS
<1> USE DEF LInv
<1>0. /\ IsFiniteSet(Requests) /\ Cardinality(Requests) \in Nat /\ Max \in Nat
      /\ Cardinality(Inside) <= Cardinality(Requests)
      /\ IsFiniteSet(Inside) /\ IsFiniteSet(Counted)
  <2>1. Inside \subseteq Requests
    BY DEF Inside
  <2> QED
    BY <2>1, SetsAreFinite, LimiterAssumption, FS_Subset DEF LimiterAssumption
<1>1. ASSUME NEW r \in Requests, TakeSlot(r) PROVE LInv'
  <2>1. /\ pc[r] = "idle" /\ pc'[r] = "acquired"
        /\ \A q \in Requests : q # r => pc'[q] = pc[q]
    BY <1>1, OneMoves DEF TakeSlot
  <2>2. Inside' = Inside \cup {r} /\ r \notin Inside /\ Counted' = Counted
    BY <2>1 DEF Inside, Counted
  <2>3. SlotsAreHeld' /\ ActiveIsExact'
    BY <1>0, <1>1, <2>2, OneMore DEF TakeSlot, SlotsAreHeld, ActiveIsExact
  <2>4. TypeOK'
    BY <1>0, <1>1 DEF TakeSlot, TypeOK, Goto, Stages
  <2> QED
    BY <2>3, <2>4
<1>2. ASSUME NEW r \in Requests, Refuse(r) \/ Served(r) \/ Again(r) PROVE LInv'
  <2>1. /\ UNCHANGED <<slots, active, gauge, local>>
        /\ \A q \in Requests : q # r => pc'[q] = pc[q]
        /\ \/ pc[r] = "idle" /\ pc'[r] = "refused"
           \/ pc[r] = "serving" /\ pc'[r] = "leaving"
           \/ pc[r] = "refused" /\ pc'[r] = "idle"
    BY <1>2, OneMoves DEF Refuse, Served, Again
  <2>2. Inside' = Inside /\ Counted' = Counted
    BY <2>1 DEF Inside, Counted
  <2>3. TypeOK'
    BY <1>2, <2>1 DEF Refuse, Served, Again, TypeOK, Goto, Stages
  <2> QED
    BY <2>1, <2>2, <2>3 DEF SlotsAreHeld, ActiveIsExact
<1>3. ASSUME NEW r \in Requests, CountIn(r) PROVE LInv'
  <2>1. /\ pc[r] = "acquired" /\ pc'[r] = "counted"
        /\ \A q \in Requests : q # r => pc'[q] = pc[q]
    BY <1>3, OneMoves DEF CountIn
  <2>2. Inside' = Inside /\ Counted' = Counted \cup {r} /\ r \notin Counted
    BY <2>1 DEF Inside, Counted
  <2>3. SlotsAreHeld' /\ ActiveIsExact'
    BY <1>0, <1>3, <2>2, OneMore DEF CountIn, Count, SlotsAreHeld, ActiveIsExact
  <2>4. active' \in 0..Cardinality(Requests)
    <3>1. Counted' \subseteq Requests
      BY DEF Counted
    <3>2. Cardinality(Counted') <= Cardinality(Requests) /\ Cardinality(Counted') \in Nat
      BY <1>0, <3>1, FS_Subset, FS_CardinalityType
    <3> QED
      BY <1>0, <2>3, <3>2 DEF ActiveIsExact
  <2>5. TypeOK'
    BY <1>3, <2>4 DEF CountIn, Count, TypeOK, Goto, Stages
  <2> QED
    BY <2>3, <2>5
<1>4. ASSUME NEW r \in Requests, PublishIn(r) \/ PublishOut(r) PROVE LInv'
  <2>1. /\ UNCHANGED <<slots, active, local>> /\ gauge' = local[r]
        /\ \A q \in Requests : q # r => pc'[q] = pc[q]
        /\ \/ pc[r] = "counted" /\ pc'[r] = "serving"
           \/ pc[r] = "uncounted" /\ pc'[r] = "idle"
    BY <1>4, OneMoves DEF PublishIn, PublishOut, Publish
  <2>2. Inside' = Inside /\ Counted' = Counted
    BY <2>1 DEF Inside, Counted
  <2>3. TypeOK'
    BY <1>4, <2>1 DEF PublishIn, PublishOut, TypeOK, Goto, Stages
  <2> QED
    BY <2>1, <2>2, <2>3 DEF SlotsAreHeld, ActiveIsExact
<1>5. ASSUME NEW r \in Requests, FreeSlot(r) PROVE LInv'
  <2>1. /\ pc[r] = "leaving" /\ pc'[r] = "freed"
        /\ \A q \in Requests : q # r => pc'[q] = pc[q]
    BY <1>5, OneMoves DEF FreeSlot
  <2>2. Inside' = Inside \ {r} /\ r \in Inside /\ Counted' = Counted
    BY <2>1 DEF Inside, Counted
  <2>3. SlotsAreHeld' /\ ActiveIsExact'
    BY <1>0, <1>5, <2>2, OneLess DEF FreeSlot, SlotsAreHeld, ActiveIsExact
  <2>4. TypeOK'
    BY <1>0, <1>5 DEF FreeSlot, TypeOK, Goto, Stages
  <2> QED
    BY <2>3, <2>4
<1>6. ASSUME NEW r \in Requests, CountOut(r) PROVE LInv'
  <2>1. /\ pc[r] = "freed" /\ pc'[r] = "uncounted"
        /\ \A q \in Requests : q # r => pc'[q] = pc[q]
    BY <1>6, OneMoves DEF CountOut
  <2>2. Inside' = Inside /\ Counted' = Counted \ {r} /\ r \in Counted
    BY <2>1 DEF Inside, Counted
  <2>3. SlotsAreHeld' /\ ActiveIsExact'
    BY <1>0, <1>6, <2>2, OneLess DEF CountOut, Count, SlotsAreHeld, ActiveIsExact, TypeOK
  <2>4. active' \in 0..Cardinality(Requests)
    <3>1. Counted' \subseteq Requests
      BY DEF Counted
    <3>2. Cardinality(Counted') <= Cardinality(Requests) /\ Cardinality(Counted') \in Nat
      BY <1>0, <3>1, FS_Subset, FS_CardinalityType
    <3> QED
      BY <1>0, <2>3, <3>2 DEF ActiveIsExact
  <2>5. TypeOK'
    BY <1>6, <2>4 DEF CountOut, Count, TypeOK, Goto, Stages
  <2> QED
    BY <2>3, <2>5
<1>7. CASE UNCHANGED vars
  BY <1>7 DEF vars, TypeOK, SlotsAreHeld, ActiveIsExact, Inside, Counted
<1> QED
  BY <1>1, <1>2, <1>3, <1>4, <1>5, <1>6, <1>7 DEF Next, Arrive, Proceed

-----------------------------------------------------------------------------
(* The counters are in range, and exact, in every reachable state. *)
THEOREM LimiterInvariant == Spec => []LInv
  BY InitLInv, NextLInv, PTL DEF Spec

(* The counters and the gauge stay between zero and the number of requests. *)
THEOREM LimiterType == Spec => []TypeOK
<1>1. LInv => TypeOK
  BY DEF LInv
<1> QED
  BY LimiterInvariant, <1>1, PTL

(* The channel holds one token per request inside: none leaks. *)
THEOREM LimiterSlots == Spec => []SlotsAreHeld
<1>1. LInv => SlotsAreHeld
  BY DEF LInv
<1> QED
  BY LimiterInvariant, <1>1, PTL

(* The counter is the number of requests being counted. *)
THEOREM LimiterActive == Spec => []ActiveIsExact
<1>1. LInv => ActiveIsExact
  BY DEF LInv
<1> QED
  BY LimiterInvariant, <1>1, PTL

(* Gate counts with its own instance of FiniteSets. *)
LEMMA SameCardinality == \A S : AbstractGate!Cardinality(S) = Cardinality(S)
  BY DEF Cardinality, AbstractGate!Cardinality

(* The semaphore, the counter and the gauge together implement Gate: at    *)
(* most Max requests are inside, and one is refused only when Max are.     *)
THEOREM LimiterImplementsGate == Spec => ImplementsGate
<1>1. Init => AbstractGate!Init
  BY DEF Init, AbstractGate!Init, Inside, Refused
<1>2. LInv /\ [Next]_vars => [AbstractGate!Next]_<<Inside, Refused>>
  <2> SUFFICES ASSUME LInv, [Next]_vars
               PROVE  [AbstractGate!Next]_<<Inside, Refused>>
    OBVIOUS
  <2> USE DEF LInv
  <2>1. ASSUME NEW r \in Requests, TakeSlot(r) PROVE AbstractGate!Enter(r)
    <3>1. /\ pc[r] = "idle" /\ pc'[r] = "acquired"
          /\ \A q \in Requests : q # r => pc'[q] = pc[q]
      BY <2>1, OneMoves DEF TakeSlot
    <3>2. Cardinality(Inside) < Max
      BY <2>1 DEF TakeSlot, SlotsAreHeld
    <3> QED
      BY <3>1, <3>2, SameCardinality DEF AbstractGate!Enter, Inside, Refused
  <2>2. ASSUME NEW r \in Requests, Refuse(r) PROVE AbstractGate!Refuse(r)
    <3>1. /\ pc[r] = "idle" /\ pc'[r] = "refused"
          /\ \A q \in Requests : q # r => pc'[q] = pc[q]
      BY <2>2, OneMoves DEF Refuse
    <3>2. Cardinality(Inside) = Max
      BY <2>2, LimiterAssumption DEF Refuse, SlotsAreHeld, TypeOK, LimiterAssumption
    <3> QED
      BY <3>1, <3>2, SameCardinality DEF AbstractGate!Refuse, Inside, Refused
  <2>3. ASSUME NEW r \in Requests, FreeSlot(r) PROVE AbstractGate!Leave(r)
    <3>1. /\ pc[r] = "leaving" /\ pc'[r] = "freed"
          /\ \A q \in Requests : q # r => pc'[q] = pc[q]
      BY <2>3, OneMoves DEF FreeSlot
    <3>2. Inside' = Inside \ {r} /\ r \in Inside /\ Refused' = Refused
      BY <3>1 DEF Inside, Refused
    <3> QED
      BY <3>2 DEF AbstractGate!Leave
  <2>4. ASSUME NEW r \in Requests, Again(r) PROVE AbstractGate!ComeBack(r)
    <3>1. /\ pc[r] = "refused" /\ pc'[r] = "idle"
          /\ \A q \in Requests : q # r => pc'[q] = pc[q]
      BY <2>4, OneMoves DEF Again
    <3>2. Refused' = Refused \ {r} /\ r \in Refused /\ Inside' = Inside
      BY <3>1 DEF Inside, Refused
    <3> QED
      BY <3>2 DEF AbstractGate!ComeBack
  <2>5. ASSUME NEW r \in Requests,
               CountIn(r) \/ PublishIn(r) \/ Served(r) \/ CountOut(r) \/ PublishOut(r)
        PROVE  UNCHANGED <<Inside, Refused>>
    <3>1. /\ \/ pc[r] = "acquired" /\ pc'[r] = "counted"
             \/ pc[r] = "counted" /\ pc'[r] = "serving"
             \/ pc[r] = "serving" /\ pc'[r] = "leaving"
             \/ pc[r] = "freed" /\ pc'[r] = "uncounted"
             \/ pc[r] = "uncounted" /\ pc'[r] = "idle"
          /\ \A q \in Requests : q # r => pc'[q] = pc[q]
      BY <2>5, OneMoves DEF CountIn, PublishIn, Served, CountOut, PublishOut
    <3> QED
      BY <3>1 DEF Inside, Refused
  <2>6. CASE UNCHANGED vars
    BY <2>6 DEF vars, Inside, Refused
  <2> QED
    BY <2>1, <2>2, <2>3, <2>4, <2>5, <2>6 DEF Next, Arrive, Proceed, AbstractGate!Next
<1> QED
  BY <1>1, <1>2, LimiterInvariant, PTL DEF Spec, ImplementsGate, AbstractGate!Spec
=============================================================================
