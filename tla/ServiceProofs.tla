----------------------------- MODULE ServiceProofs -----------------------------
(***************************************************************************)
(* What TLAPS proves of Service, for any set of requests, limit, wants and *)
(* outcomes: a request is answered at most once, a 503 leaves nothing, a   *)
(* 200 is real, and the places inside the limit are those of the requests  *)
(* in the handler, of which there are at most Max, whatever way they leave *)
(* it.                                                                     *)
(***************************************************************************)
EXTENDS Service, FiniteSetTheorems, TLAPS

(* What the handlers and Recovery write. *)
Answered == {<<s>> : s \in {200, 400, 405, 413, 415, 500, 503}}

Silent == {<< >>}

Statuses == {200, 400, 405, 413, 415, 429, 500, 503}

(* How far a request has come says what has become of its job and what has *)
(* been written: nothing before the answer, and one status at most.        *)
Row(r) ==
  /\ pc[r] \in {"admit", "check", "convert"} =>
       stage[r] = "new" /\ answer[r] = "none" /\ format[r] = "none"
  /\ pc[r] \in {"admit", "check", "convert", "wait", "deliver", "panicking"} =>
       replies[r] = << >> /\ ~stored[r]
  /\ pc[r] = "deliver" => format[r] # "none"
  /\ pc[r] \in {"return", "leave"} => replies[r] \in Silent \cup Answered
  /\ pc[r] = "done" => replies[r] \in Silent \cup Answered \cup {<<429>>}

BusyRow(r) == replies[r] = <<503>> => stage[r] = "new" /\ ~stored[r]

OkRow(r) ==
  /\ replies[r] = <<200>> /\ want[r].route # "health" => format[r] # "none"
  /\ replies[r] = <<200>> /\ want[r].route = "store" => stored[r]
  /\ stored[r] => format[r] # "none"
  /\ format[r] # "none" /\ Converter(r) = "pool" => answer[r] = "data"

Rows == \A r \in Requests : Row(r) /\ BusyRow(r) /\ OkRow(r)

(* The inductive invariant of the service. *)
SInv == TypeOK /\ Rows /\ PlacesAreRequests

(* A step of one request, of its job or of its client. *)
Acts(r) == Arrive(r) \/ Proceed(r) \/ JobPanics(r) \/ Disconnect(r)

-----------------------------------------------------------------------------
(* A request that moves moves only itself. *)
LEMMA GotoOne ==
  ASSUME TypeOK, NEW r \in Requests, NEW from, NEW to, Goto(r, from, to)
  PROVE  /\ pc[r] = from /\ pc'[r] = to
         /\ \A q \in Requests : q # r => pc'[q] = pc[q]
         /\ pc' = [pc EXCEPT ![r] = to]
  BY DEF Goto, TypeOK

(* A status is written once to a request that had none. *)
LEMMA WriteOne ==
  ASSUME TypeOK, NEW r \in Requests, replies[r] = << >>,
         NEW s \in Statuses, Write(r, s)
  PROVE  /\ replies' \in [Requests -> Seq(Statuses)]
         /\ replies'[r] = <<s>>
         /\ \A q \in Requests : q # r => replies'[q] = replies[q]
<1>1. Append(replies[r], s) = <<s>>
  OBVIOUS
<1>2. replies' = [replies EXCEPT ![r] = <<s>>]
  BY <1>1 DEF Write
<1>3. <<s>> \in Seq(Statuses)
  OBVIOUS
<1> QED
  BY <1>2, <1>3 DEF TypeOK, Statuses

(* The checks answer with the statuses of the handlers. *)
LEMMA Faults ==
  ASSUME NEW r
  PROVE  EarlyFault(r) \cup (IF EarlyFault(r) = {} THEN LateFault(r) ELSE {})
           \subseteq {400, 405, 413, 415, 500}
  BY DEF EarlyFault, LateFault

(* The types of everything but the replies. *)
OtherTypes ==
  /\ inside \subseteq Requests /\ refused \subseteq Requests
  /\ stage \in [Requests -> {"new", "accepted", "data", "error"}]
  /\ answer \in [Requests -> {"none", "data", "error", "busy", "canceled"}]
  /\ pc \in [Requests -> {"admit", "check", "convert", "wait", "deliver",
                          "return", "panicking", "leave", "done"}]
  /\ want \in [Requests -> Wants]
  /\ gone \in [Requests -> BOOLEAN]
  /\ format \in [Requests -> {"none", "jpeg", "webp"}]
  /\ shared \in {"jpeg", "webp"}
  /\ stored \in [Requests -> BOOLEAN]
  /\ recorded \in [Requests -> {0, 200, 400, 405, 413, 415, 500, 503}]
  /\ crashed \in BOOLEAN

LEMMA TypeParts ==
  /\ TypeOK => OtherTypes
  /\ OtherTypes' /\ replies' \in [Requests -> Seq(Statuses)] => TypeOK'
<1>1. TypeOK <=> OtherTypes /\ replies \in [Requests -> Seq(Statuses)]
  BY DEF TypeOK, OtherTypes, Statuses
<1>2. TypeOK' <=> OtherTypes' /\ replies' \in [Requests -> Seq(Statuses)]
  BY DEF TypeOK, OtherTypes, Statuses
<1> QED BY <1>1, <1>2, Zenon

(* A step leaves what concerns the other requests as it is. *)
Frame(r) ==
  \A q \in Requests : q # r =>
    /\ pc'[q] = pc[q] /\ stage'[q] = stage[q] /\ answer'[q] = answer[q]
    /\ want'[q] = want[q] /\ format'[q] = format[q]
    /\ replies'[q] = replies[q] /\ stored'[q] = stored[q]

(* What every step of a request is shown to do. *)
Keeps(r) ==
  /\ TypeOK' /\ PlacesAreRequests'
  /\ Row(r)' /\ BusyRow(r)' /\ OkRow(r)'
  /\ Frame(r)

(* The places follow when the request stays in the handler, or out of it. *)
LEMMA PlacesStay ==
  ASSUME PlacesAreRequests, NEW r \in Requests, inside' = inside,
         \A q \in Requests : q # r => pc'[q] = pc[q],
         InHandler(r)' <=> InHandler(r)
  PROVE  PlacesAreRequests'
  BY DEF PlacesAreRequests, InHandler

(* The middlewares before the handler. *)
LEMMA ArriveKeeps ==
  ASSUME SInv, NEW r \in Requests, Arrive(r)
  PROVE  Keeps(r)
<1> USE DEF SInv
<1>0. Row(r) /\ BusyRow(r) /\ OkRow(r)
  BY DEF Rows
<1>1. CASE TooManyRequests(r)
  <2>1. /\ pc[r] = "admit" /\ pc'[r] = "done"
        /\ \A q \in Requests : q # r => pc'[q] = pc[q]
        /\ pc' = [pc EXCEPT ![r] = "done"]
    BY <1>1, GotoOne DEF TooManyRequests
  <2>2. /\ replies' \in [Requests -> Seq(Statuses)]
        /\ replies'[r] = <<429>>
        /\ \A q \in Requests : q # r => replies'[q] = replies[q]
    BY <1>0, <1>1, <2>1, WriteOne DEF TooManyRequests, Row, Statuses
  <2>3. TypeOK'
    <3>1. OtherTypes
      BY TypeParts
    <3>2. OtherTypes'
      BY <3>1, <1>1, <2>1, <2>2 DEF TooManyRequests, OtherTypes, limitVars,
         poolVars, dataVars
    <3> QED
      BY <3>2, <2>2, TypeParts
  <2>4. Frame(r)
    BY <1>1, <2>1, <2>2 DEF TooManyRequests, TypeOK, Frame, limitVars,
       poolVars, dataVars
  <2>5. Row(r)' /\ BusyRow(r)' /\ OkRow(r)'
    BY <1>0, <1>1, <2>1, <2>2 DEF TooManyRequests, TypeOK, Row, BusyRow,
       OkRow, Converter, Silent, Answered, limitVars, poolVars, dataVars
  <2>6. PlacesAreRequests'
    BY <1>1, <2>1, PlacesStay DEF TooManyRequests, InHandler, limitVars
  <2> QED
    BY <2>3, <2>4, <2>5, <2>6 DEF Keeps
<1>2. CASE Admit(r)
  <2>1. /\ pc[r] = "admit" /\ pc'[r] = "check"
        /\ \A q \in Requests : q # r => pc'[q] = pc[q]
        /\ pc' = [pc EXCEPT ![r] = "check"]
    BY <1>2, GotoOne DEF Admit
  <2>2. replies' \in [Requests -> Seq(Statuses)]
    BY <1>2 DEF Admit, TypeOK, Statuses
  <2>3. TypeOK'
    <3>1. OtherTypes
      BY TypeParts
    <3>2. OtherTypes'
      BY <3>1, <1>2, <2>1, <2>2 DEF Admit, OtherTypes, limitVars, poolVars,
         dataVars, Limit!Enter
    <3> QED
      BY <3>2, <2>2, TypeParts
  <2>4. Frame(r)
    BY <1>2, <2>1, <2>2 DEF Admit, TypeOK, Frame, limitVars, poolVars,
       dataVars, Limit!Enter
  <2>5. Row(r)' /\ BusyRow(r)' /\ OkRow(r)'
    BY <1>0, <1>2, <2>1, <2>2 DEF Admit, TypeOK, Row, BusyRow, OkRow,
       Converter, Silent, Answered, limitVars, poolVars, dataVars, Limit!Enter
  <2>6. PlacesAreRequests'
    BY <1>2, <2>1 DEF Admit, Limit!Enter, PlacesAreRequests, InHandler
  <2> QED
    BY <2>3, <2>4, <2>5, <2>6 DEF Keeps
<1>3. CASE Overloaded(r)
  <2>1. /\ pc[r] = "admit" /\ pc'[r] = "done"
        /\ \A q \in Requests : q # r => pc'[q] = pc[q]
        /\ pc' = [pc EXCEPT ![r] = "done"]
    BY <1>3, GotoOne DEF Overloaded
  <2>2. /\ replies' \in [Requests -> Seq(Statuses)]
        /\ replies'[r] = <<503>>
        /\ \A q \in Requests : q # r => replies'[q] = replies[q]
    BY <1>0, <1>3, <2>1, WriteOne DEF Overloaded, Row, Statuses
  <2>3. /\ refused' \subseteq Requests /\ inside' = inside
        /\ UNCHANGED <<poolVars, dataVars, want, gone, shared, recorded,
                       crashed>>
    BY <1>3 DEF Overloaded, Limit!Refuse, TypeOK
  <2>4. TypeOK'
    <3>1. OtherTypes
      BY TypeParts
    <3>2. OtherTypes'
      BY <3>1, <2>3, <2>1, <2>2 DEF OtherTypes, limitVars, poolVars, dataVars
    <3> QED
      BY <3>2, <2>2, TypeParts
  <2>5. Frame(r)
    BY <1>3, <2>1, <2>2 DEF Overloaded, TypeOK, Frame, limitVars, poolVars,
       dataVars, Limit!Refuse
  <2>6. Row(r)' /\ BusyRow(r)' /\ OkRow(r)'
    BY <1>0, <2>3, <2>1, <2>2 DEF TypeOK, Row, BusyRow, OkRow, Converter,
       Silent, Answered, limitVars, poolVars, dataVars
  <2>7. PlacesAreRequests'
    BY <1>3, <2>1, PlacesStay DEF Overloaded, Limit!Refuse, InHandler
  <2> QED
    BY <2>4, <2>5, <2>6, <2>7 DEF Keeps
<1> QED
  BY <1>1, <1>2, <1>3 DEF Arrive

(* The handlers, up to the conversion. *)
LEMMA HandlerKeeps ==
  ASSUME SInv, NEW r \in Requests,
         Health(r) \/ Reject(r) \/ Vanish(r) \/ SetOutputFormat(r)
  PROVE  Keeps(r)
<1> USE DEF SInv
<1>0. Row(r) /\ BusyRow(r) /\ OkRow(r)
  BY DEF Rows
<1>1. CASE Health(r)
  <2>1. /\ pc[r] = "check" /\ pc'[r] = "return"
        /\ \A q \in Requests : q # r => pc'[q] = pc[q]
        /\ pc' = [pc EXCEPT ![r] = "return"]
    BY <1>1, GotoOne DEF Health, Finish
  <2>2. /\ replies' \in [Requests -> Seq(Statuses)]
        /\ replies'[r] = <<200>>
        /\ \A q \in Requests : q # r => replies'[q] = replies[q]
    BY <1>0, <1>1, <2>1, WriteOne DEF Health, Row, Statuses, Finish
  <2>3. TypeOK'
    <3>1. OtherTypes
      BY TypeParts
    <3>2. OtherTypes'
      BY <3>1, <1>1, <2>1, <2>2 DEF Health, OtherTypes, limitVars, poolVars,
         dataVars
    <3> QED
      BY <3>2, <2>2, TypeParts
  <2>4. Frame(r)
    BY <1>1, <2>1, <2>2 DEF Health, TypeOK, Frame, limitVars, poolVars,
       dataVars
  <2>5. Row(r)' /\ BusyRow(r)' /\ OkRow(r)'
    BY <1>0, <1>1, <2>1, <2>2 DEF Health, TypeOK, Row, BusyRow, OkRow,
       Converter, Silent, Answered, limitVars, poolVars, dataVars
  <2>6. PlacesAreRequests'
    BY <1>1, <2>1, PlacesStay DEF Health, InHandler, limitVars
  <2> QED
    BY <2>3, <2>4, <2>5, <2>6 DEF Keeps
<1>2. ASSUME NEW s \in {400, 405, 413, 415, 500}, Finish(r, "check", s),
             Reject(r)
      PROVE  Keeps(r)
  <2>1. /\ pc[r] = "check" /\ pc'[r] = "return"
        /\ \A q \in Requests : q # r => pc'[q] = pc[q]
        /\ pc' = [pc EXCEPT ![r] = "return"]
    BY <1>2, GotoOne DEF Reject, Finish
  <2>2. /\ replies' \in [Requests -> Seq(Statuses)]
        /\ replies'[r] = <<s>>
        /\ \A q \in Requests : q # r => replies'[q] = replies[q]
    BY <1>0, <1>2, <2>1, WriteOne DEF Reject, Row, Statuses, Finish
  <2>3. UNCHANGED <<limitVars, poolVars, dataVars, want, gone, shared,
                    recorded, crashed>>
    BY <1>2 DEF Reject
  <2>4. TypeOK'
    <3>1. OtherTypes
      BY TypeParts
    <3>2. OtherTypes'
      BY <3>1, <2>3, <2>1, <2>2 DEF OtherTypes, limitVars, poolVars, dataVars
    <3> QED
      BY <3>2, <2>2, TypeParts
  <2>5. Frame(r)
    BY <1>2, <2>1, <2>2 DEF Reject, TypeOK, Frame, limitVars, poolVars,
       dataVars
  <2>6. Row(r)' /\ BusyRow(r)' /\ OkRow(r)'
    BY <1>0, <2>3, <2>1, <2>2 DEF TypeOK, Row, BusyRow, OkRow, Converter,
       Silent, Answered, limitVars, poolVars, dataVars
  <2>7. PlacesAreRequests'
    BY <1>2, <2>1, PlacesStay DEF Reject, InHandler, limitVars
  <2> QED
    BY <2>4, <2>5, <2>6, <2>7 DEF Keeps
<1>3. CASE Vanish(r)
  <2>1. /\ pc[r] = "check" /\ pc'[r] = "return"
        /\ \A q \in Requests : q # r => pc'[q] = pc[q]
        /\ pc' = [pc EXCEPT ![r] = "return"]
    BY <1>3, GotoOne DEF Vanish
  <2>2. replies' \in [Requests -> Seq(Statuses)]
    BY <1>3 DEF Vanish, TypeOK, Statuses
  <2>3. TypeOK'
    <3>1. OtherTypes
      BY TypeParts
    <3>2. OtherTypes'
      BY <3>1, <1>3, <2>1, <2>2 DEF Vanish, OtherTypes, limitVars, poolVars,
         dataVars
    <3> QED
      BY <3>2, <2>2, TypeParts
  <2>4. Frame(r)
    BY <1>3, <2>1, <2>2 DEF Vanish, TypeOK, Frame, limitVars, poolVars,
       dataVars
  <2>5. Row(r)' /\ BusyRow(r)' /\ OkRow(r)'
    BY <1>0, <1>3, <2>1, <2>2 DEF Vanish, TypeOK, Row, BusyRow, OkRow,
       Converter, Silent, Answered, limitVars, poolVars, dataVars
  <2>6. PlacesAreRequests'
    BY <1>3, <2>1, PlacesStay DEF Vanish, InHandler, limitVars
  <2> QED
    BY <2>3, <2>4, <2>5, <2>6 DEF Keeps
<1>4. CASE SetOutputFormat(r)
  <2>1. /\ pc[r] = "check" /\ pc'[r] = "convert"
        /\ \A q \in Requests : q # r => pc'[q] = pc[q]
        /\ pc' = [pc EXCEPT ![r] = "convert"]
    BY <1>4, GotoOne DEF SetOutputFormat
  <2>2. replies' \in [Requests -> Seq(Statuses)]
    BY <1>4 DEF SetOutputFormat, TypeOK, Statuses
  <2>3. TypeOK'
    <3>1. OtherTypes
      BY TypeParts
    <3>2. OtherTypes'
      BY <3>1, <1>4, <2>1, <2>2, ServiceAssumption DEF SetOutputFormat,
         OtherTypes, limitVars, poolVars, dataVars, ServiceAssumption, Want
    <3> QED
      BY <3>2, <2>2, TypeParts
  <2>4. Frame(r)
    BY <1>4, <2>1, <2>2 DEF SetOutputFormat, TypeOK, Frame, limitVars,
       poolVars, dataVars, ServiceAssumption, Want
  <2>5. Row(r)' /\ BusyRow(r)' /\ OkRow(r)'
    BY <1>0, <1>4, <2>1, <2>2 DEF SetOutputFormat, TypeOK, Row, BusyRow,
       OkRow, Converter, Silent, Answered, limitVars, poolVars, dataVars,
       ServiceAssumption, Want
  <2>6. PlacesAreRequests'
    BY <1>4, <2>1, PlacesStay DEF SetOutputFormat, InHandler, limitVars
  <2> QED
    BY <2>3, <2>4, <2>5, <2>6 DEF Keeps
<1> QED
  <2>1. Reject(r) => \E s \in {400, 405, 413, 415, 500} : Finish(r, "check", s)
    BY Faults DEF Reject
  <2> QED
    BY <1>1, <1>2, <1>3, <1>4, <2>1

(* The conversion in the pool: queued, refused, given up or answered. *)
LEMMA PoolKeeps ==
  ASSUME SInv, NEW r \in Requests,
         Submit(r) \/ PoolBusy(r) \/ Canceled(r) \/ TakeResult(r)
  PROVE  Keeps(r)
<1> USE DEF SInv
<1>0. Row(r) /\ BusyRow(r) /\ OkRow(r)
  BY DEF Rows
<1>1. CASE Submit(r)
  <2>1. /\ pc[r] = "convert" /\ pc'[r] = "wait"
        /\ \A q \in Requests : q # r => pc'[q] = pc[q]
        /\ pc' = [pc EXCEPT ![r] = "wait"]
    BY <1>1, GotoOne DEF Submit
  <2>2. replies' \in [Requests -> Seq(Statuses)]
    BY <1>1 DEF Submit, TypeOK, Statuses
  <2>3. TypeOK'
    <3>1. OtherTypes
      BY TypeParts
    <3>2. OtherTypes'
      BY <3>1, <1>1, <2>1, <2>2 DEF Submit, OtherTypes, limitVars, poolVars,
         dataVars, Pool!Accept
    <3> QED
      BY <3>2, <2>2, TypeParts
  <2>4. Frame(r)
    BY <1>1, <2>1, <2>2 DEF Submit, TypeOK, Frame, limitVars, poolVars,
       dataVars, Pool!Accept
  <2>5. Row(r)' /\ BusyRow(r)' /\ OkRow(r)'
    BY <1>0, <1>1, <2>1, <2>2 DEF Submit, TypeOK, Row, BusyRow, OkRow,
       Converter, Silent, Answered, limitVars, poolVars, dataVars, Pool!Accept
  <2>6. PlacesAreRequests'
    BY <1>1, <2>1, PlacesStay DEF Submit, InHandler, limitVars
  <2> QED
    BY <2>3, <2>4, <2>5, <2>6 DEF Keeps
<1>2. CASE PoolBusy(r)
  <2>1. /\ pc[r] = "convert" /\ pc'[r] = "return"
        /\ \A q \in Requests : q # r => pc'[q] = pc[q]
        /\ pc' = [pc EXCEPT ![r] = "return"]
    BY <1>2, GotoOne DEF PoolBusy, Finish
  <2>2. /\ replies' \in [Requests -> Seq(Statuses)]
        /\ replies'[r] = <<503>>
        /\ \A q \in Requests : q # r => replies'[q] = replies[q]
    BY <1>0, <1>2, <2>1, WriteOne DEF PoolBusy, Row, Statuses, Finish
  <2>3. /\ answer' = [answer EXCEPT ![r] = "busy"] /\ stage' = stage
        /\ UNCHANGED <<limitVars, dataVars, want, gone, shared, recorded,
                       crashed>>
    BY <1>2 DEF PoolBusy, Pool!Refuse, Pool!Answer, TypeOK
  <2>4. TypeOK'
    <3>1. OtherTypes
      BY TypeParts
    <3>2. OtherTypes'
      BY <3>1, <2>3, <2>1, <2>2 DEF OtherTypes, limitVars, poolVars, dataVars
    <3> QED
      BY <3>2, <2>2, TypeParts
  <2>5. Frame(r)
    BY <1>2, <2>1, <2>2 DEF PoolBusy, TypeOK, Frame, limitVars, poolVars,
       dataVars, Pool!Refuse, Pool!Answer
  <2>6. Row(r)' /\ BusyRow(r)' /\ OkRow(r)'
    BY <1>0, <2>3, <2>1, <2>2 DEF TypeOK, Row, BusyRow, OkRow, Converter,
       Silent, Answered, limitVars, poolVars, dataVars
  <2>7. PlacesAreRequests'
    BY <1>2, <2>1, PlacesStay DEF PoolBusy, InHandler, limitVars
  <2> QED
    BY <2>4, <2>5, <2>6, <2>7 DEF Keeps
<1>3. ASSUME Canceled(r), Finish(r, "convert", 500)
      PROVE  Keeps(r)
  <2>1. /\ pc[r] = "convert" /\ pc'[r] = "return"
        /\ \A q \in Requests : q # r => pc'[q] = pc[q]
        /\ pc' = [pc EXCEPT ![r] = "return"]
    BY <1>3, GotoOne DEF Canceled, Finish
  <2>2. /\ replies' \in [Requests -> Seq(Statuses)]
        /\ replies'[r] = <<500>>
        /\ \A q \in Requests : q # r => replies'[q] = replies[q]
    BY <1>0, <1>3, <2>1, WriteOne DEF Canceled, Row, Statuses, Finish
  <2>3. TypeOK'
    <3>1. OtherTypes
      BY TypeParts
    <3>2. OtherTypes'
      BY <3>1, <1>3, <2>1, <2>2 DEF Canceled, OtherTypes, limitVars, poolVars,
         dataVars, Pool!GiveUp, Pool!Answer
    <3> QED
      BY <3>2, <2>2, TypeParts
  <2>4. Frame(r)
    BY <1>3, <2>1, <2>2 DEF Canceled, TypeOK, Frame, limitVars, poolVars,
       dataVars, Pool!GiveUp, Pool!Answer
  <2>5. Row(r)' /\ BusyRow(r)' /\ OkRow(r)'
    BY <1>0, <1>3, <2>1, <2>2 DEF Canceled, TypeOK, Row, BusyRow, OkRow,
       Converter, Silent, Answered, limitVars, poolVars, dataVars,
       Pool!GiveUp, Pool!Answer
  <2>6. PlacesAreRequests'
    BY <1>3, <2>1, PlacesStay DEF Canceled, InHandler, limitVars
  <2> QED
    BY <2>3, <2>4, <2>5, <2>6 DEF Keeps
<1>4. ASSUME Canceled(r), Finish(r, "wait", 500)
      PROVE  Keeps(r)
  <2>1. /\ pc[r] = "wait" /\ pc'[r] = "return"
        /\ \A q \in Requests : q # r => pc'[q] = pc[q]
        /\ pc' = [pc EXCEPT ![r] = "return"]
    BY <1>4, GotoOne DEF Canceled, Finish
  <2>2. /\ replies' \in [Requests -> Seq(Statuses)]
        /\ replies'[r] = <<500>>
        /\ \A q \in Requests : q # r => replies'[q] = replies[q]
    BY <1>0, <1>4, <2>1, WriteOne DEF Canceled, Row, Statuses, Finish
  <2>3. TypeOK'
    <3>1. OtherTypes
      BY TypeParts
    <3>2. OtherTypes'
      BY <3>1, <1>4, <2>1, <2>2 DEF Canceled, OtherTypes, limitVars, poolVars,
         dataVars, Pool!GiveUp, Pool!Answer
    <3> QED
      BY <3>2, <2>2, TypeParts
  <2>4. Frame(r)
    BY <1>4, <2>1, <2>2 DEF Canceled, TypeOK, Frame, limitVars, poolVars,
       dataVars, Pool!GiveUp, Pool!Answer
  <2>5. Row(r)' /\ BusyRow(r)' /\ OkRow(r)'
    BY <1>0, <1>4, <2>1, <2>2 DEF Canceled, TypeOK, Row, BusyRow, OkRow,
       Converter, Silent, Answered, limitVars, poolVars, dataVars,
       Pool!GiveUp, Pool!Answer
  <2>6. PlacesAreRequests'
    BY <1>4, <2>1, PlacesStay DEF Canceled, InHandler, limitVars
  <2> QED
    BY <2>3, <2>4, <2>5, <2>6 DEF Keeps
<1>5. ASSUME TakeResult(r), stage[r] = "data"
      PROVE  Keeps(r)
  <2>1. /\ pc[r] = "wait" /\ pc'[r] = "deliver"
        /\ \A q \in Requests : q # r => pc'[q] = pc[q]
        /\ pc' = [pc EXCEPT ![r] = "deliver"]
    BY <1>5, GotoOne DEF TakeResult
  <2>2. replies' \in [Requests -> Seq(Statuses)]
    BY <1>5 DEF TakeResult, TypeOK, Statuses
  <2>3. /\ answer' = [answer EXCEPT ![r] = "data"] /\ stage' = stage
        /\ answer[r] = "none" /\ replies' = replies
        /\ format' = [format EXCEPT ![r] = "jpeg"]
        /\ UNCHANGED <<limitVars, stored, want, gone, shared, recorded,
                       crashed>>
    BY <1>5 DEF TakeResult, Pool!Reply, Pool!Answer
  <2>4. TypeOK'
    <3>1. OtherTypes
      BY TypeParts
    <3>2. OtherTypes'
      BY <3>1, <2>3, <2>1, <2>2 DEF OtherTypes, limitVars, poolVars, dataVars
    <3> QED
      BY <3>2, <2>2, TypeParts
  <2>5. Frame(r)
    BY <1>5, <2>1, <2>2 DEF TakeResult, TypeOK, Frame, limitVars, poolVars,
       dataVars, Pool!Reply, Pool!Answer
  <2>6. Row(r)' /\ BusyRow(r)' /\ OkRow(r)'
    BY <1>0, <2>3, <2>1, <2>2 DEF TypeOK, Row, BusyRow, OkRow, Converter,
       Silent, Answered, limitVars, poolVars, dataVars
  <2>7. PlacesAreRequests'
    BY <1>5, <2>1, PlacesStay DEF TakeResult, InHandler, limitVars
  <2> QED
    BY <2>4, <2>5, <2>6, <2>7 DEF Keeps
<1>6. ASSUME TakeResult(r), stage[r] # "data"
      PROVE  Keeps(r)
  <2>1. /\ pc[r] = "wait" /\ pc'[r] = "return"
        /\ \A q \in Requests : q # r => pc'[q] = pc[q]
        /\ pc' = [pc EXCEPT ![r] = "return"]
    BY <1>6, GotoOne DEF TakeResult, Finish
  <2>2. /\ replies' \in [Requests -> Seq(Statuses)]
        /\ replies'[r] = <<500>>
        /\ \A q \in Requests : q # r => replies'[q] = replies[q]
    BY <1>0, <1>6, <2>1, WriteOne DEF TakeResult, Row, Statuses, Finish
  <2>3. /\ answer' = [answer EXCEPT ![r] = "error"] /\ stage' = stage
        /\ answer[r] = "none"
        /\ UNCHANGED <<limitVars, dataVars, want, gone, shared, recorded,
                       crashed>>
    BY <1>6 DEF TakeResult, Pool!Reply, Pool!Answer, Pool!Results, dataVars
  <2>4. TypeOK'
    <3>1. OtherTypes
      BY TypeParts
    <3>2. OtherTypes'
      BY <3>1, <2>3, <2>1, <2>2 DEF OtherTypes, limitVars, poolVars, dataVars
    <3> QED
      BY <3>2, <2>2, TypeParts
  <2>5. Frame(r)
    BY <1>6, <2>1, <2>2 DEF TakeResult, TypeOK, Frame, limitVars, poolVars,
       dataVars, Pool!Reply, Pool!Answer, Pool!Results
  <2>6. Row(r)' /\ BusyRow(r)' /\ OkRow(r)'
    BY <1>0, <2>3, <2>1, <2>2 DEF TypeOK, Row, BusyRow, OkRow, Converter,
       Silent, Answered, limitVars, poolVars, dataVars
  <2>7. PlacesAreRequests'
    BY <1>6, <2>1, PlacesStay DEF TakeResult, InHandler, limitVars
  <2> QED
    BY <2>4, <2>5, <2>6, <2>7 DEF Keeps
<1> QED
  BY <1>1, <1>2, <1>3, <1>4, <1>5, <1>6 DEF Canceled

(* The conversion in the request's own goroutine. *)
LEMMA DirectKeeps ==
  ASSUME SInv, NEW r \in Requests, ConvertDirectly(r)
  PROVE  Keeps(r)
<1> USE DEF SInv
<1>0. Row(r) /\ BusyRow(r) /\ OkRow(r)
  BY DEF Rows
<1>1. ASSUME ConvertDirectly(r), Goto(r, "convert", "deliver"),
             replies' = replies,
             format' = [format EXCEPT
                          ![r] = IF Converter(r) = "own" THEN "jpeg"
                                 ELSE shared]
      PROVE  Keeps(r)
  <2>1. /\ pc[r] = "convert" /\ pc'[r] = "deliver"
        /\ \A q \in Requests : q # r => pc'[q] = pc[q]
        /\ pc' = [pc EXCEPT ![r] = "deliver"]
    BY <1>1, GotoOne DEF ConvertDirectly
  <2>2. replies' \in [Requests -> Seq(Statuses)]
    BY <1>1 DEF ConvertDirectly, TypeOK, Statuses
  <2>3. TypeOK'
    <3>1. OtherTypes
      BY TypeParts
    <3>2. OtherTypes'
      BY <3>1, <1>1, <2>1, <2>2 DEF ConvertDirectly, OtherTypes, limitVars,
         poolVars, dataVars
    <3> QED
      BY <3>2, <2>2, TypeParts
  <2>4. Frame(r)
    BY <1>1, <2>1, <2>2 DEF ConvertDirectly, TypeOK, Frame, limitVars,
       poolVars, dataVars
  <2>5. Row(r)' /\ BusyRow(r)' /\ OkRow(r)'
    BY <1>0, <1>1, <2>1, <2>2 DEF ConvertDirectly, TypeOK, Row, BusyRow,
       OkRow, Converter, Silent, Answered, limitVars, poolVars, dataVars
  <2>6. PlacesAreRequests'
    BY <1>1, <2>1, PlacesStay DEF ConvertDirectly, InHandler, limitVars
  <2> QED
    BY <2>3, <2>4, <2>5, <2>6 DEF Keeps
<1>2. ASSUME ConvertDirectly(r), Finish(r, "convert", 500), format' = format
      PROVE  Keeps(r)
  <2>1. /\ pc[r] = "convert" /\ pc'[r] = "return"
        /\ \A q \in Requests : q # r => pc'[q] = pc[q]
        /\ pc' = [pc EXCEPT ![r] = "return"]
    BY <1>2, GotoOne DEF ConvertDirectly, Finish
  <2>2. /\ replies' \in [Requests -> Seq(Statuses)]
        /\ replies'[r] = <<500>>
        /\ \A q \in Requests : q # r => replies'[q] = replies[q]
    BY <1>0, <1>2, <2>1, WriteOne DEF ConvertDirectly, Row, Statuses, Finish
  <2>3. UNCHANGED <<limitVars, poolVars, dataVars, want, gone, shared,
                    recorded, crashed>>
    BY <1>2 DEF ConvertDirectly, dataVars
  <2>4. TypeOK'
    <3>1. OtherTypes
      BY TypeParts
    <3>2. OtherTypes'
      BY <3>1, <2>3, <2>1, <2>2 DEF OtherTypes, limitVars, poolVars, dataVars
    <3> QED
      BY <3>2, <2>2, TypeParts
  <2>5. Frame(r)
    BY <1>2, <2>1, <2>2 DEF ConvertDirectly, TypeOK, Frame, limitVars,
       poolVars, dataVars
  <2>6. Row(r)' /\ BusyRow(r)' /\ OkRow(r)'
    BY <1>0, <2>3, <2>1, <2>2 DEF TypeOK, Row, BusyRow, OkRow, Converter,
       Silent, Answered, limitVars, poolVars, dataVars
  <2>7. PlacesAreRequests'
    BY <1>2, <2>1, PlacesStay DEF ConvertDirectly, InHandler, limitVars
  <2> QED
    BY <2>4, <2>5, <2>6, <2>7 DEF Keeps
<1>3. ASSUME ConvertDirectly(r), Goto(r, "convert", "panicking"),
             UNCHANGED <<format, replies>>
      PROVE  Keeps(r)
  <2>1. /\ pc[r] = "convert" /\ pc'[r] = "panicking"
        /\ \A q \in Requests : q # r => pc'[q] = pc[q]
        /\ pc' = [pc EXCEPT ![r] = "panicking"]
    BY <1>3, GotoOne DEF ConvertDirectly
  <2>2. replies' \in [Requests -> Seq(Statuses)]
    BY <1>3 DEF ConvertDirectly, TypeOK, Statuses
  <2>3. TypeOK'
    <3>1. OtherTypes
      BY TypeParts
    <3>2. OtherTypes'
      BY <3>1, <1>3, <2>1, <2>2 DEF ConvertDirectly, OtherTypes, limitVars,
         poolVars, dataVars
    <3> QED
      BY <3>2, <2>2, TypeParts
  <2>4. Frame(r)
    BY <1>3, <2>1, <2>2 DEF ConvertDirectly, TypeOK, Frame, limitVars,
       poolVars, dataVars
  <2>5. Row(r)' /\ BusyRow(r)' /\ OkRow(r)'
    BY <1>0, <1>3, <2>1, <2>2 DEF ConvertDirectly, TypeOK, Row, BusyRow,
       OkRow, Converter, Silent, Answered, limitVars, poolVars, dataVars
  <2>6. PlacesAreRequests'
    BY <1>3, <2>1, PlacesStay DEF ConvertDirectly, InHandler, limitVars
  <2> QED
    BY <2>3, <2>4, <2>5, <2>6 DEF Keeps
<1> QED
  BY <1>1, <1>2, <1>3 DEF ConvertDirectly

(* The image on its way to the client or to the bucket. *)
LEMMA DeliverKeeps ==
  ASSUME SInv, NEW r \in Requests, SendImage(r) \/ Upload(r)
  PROVE  Keeps(r)
<1> USE DEF SInv
<1>0. Row(r) /\ BusyRow(r) /\ OkRow(r)
  BY DEF Rows
<1>1. CASE SendImage(r)
  <2>1. /\ pc[r] = "deliver" /\ pc'[r] = "return"
        /\ \A q \in Requests : q # r => pc'[q] = pc[q]
        /\ pc' = [pc EXCEPT ![r] = "return"]
    BY <1>1, GotoOne DEF SendImage, Finish
  <2>2. /\ replies' \in [Requests -> Seq(Statuses)]
        /\ replies'[r] = <<200>>
        /\ \A q \in Requests : q # r => replies'[q] = replies[q]
    BY <1>0, <1>1, <2>1, WriteOne DEF SendImage, Row, Statuses, Finish
  <2>3. TypeOK'
    <3>1. OtherTypes
      BY TypeParts
    <3>2. OtherTypes'
      BY <3>1, <1>1, <2>1, <2>2 DEF SendImage, OtherTypes, limitVars,
         poolVars, dataVars
    <3> QED
      BY <3>2, <2>2, TypeParts
  <2>4. Frame(r)
    BY <1>1, <2>1, <2>2 DEF SendImage, TypeOK, Frame, limitVars, poolVars,
       dataVars
  <2>5. Row(r)' /\ BusyRow(r)' /\ OkRow(r)'
    BY <1>0, <1>1, <2>1, <2>2 DEF SendImage, TypeOK, Row, BusyRow, OkRow,
       Converter, Silent, Answered, limitVars, poolVars, dataVars
  <2>6. PlacesAreRequests'
    BY <1>1, <2>1, PlacesStay DEF SendImage, InHandler, limitVars
  <2> QED
    BY <2>3, <2>4, <2>5, <2>6 DEF Keeps
<1>2. ASSUME NEW ok \in BOOLEAN, NEW there \in BOOLEAN, ok => there, Upload(r),
             stored' = [stored EXCEPT ![r] = there],
             Finish(r, "deliver", IF ok THEN 200 ELSE 500)
      PROVE  Keeps(r)
  <2>1. /\ pc[r] = "deliver" /\ pc'[r] = "return"
        /\ \A q \in Requests : q # r => pc'[q] = pc[q]
        /\ pc' = [pc EXCEPT ![r] = "return"]
    BY <1>2, GotoOne DEF Upload, Finish
  <2>2. /\ replies' \in [Requests -> Seq(Statuses)]
        /\ replies'[r] = <<(IF ok THEN 200 ELSE 500)>>
        /\ \A q \in Requests : q # r => replies'[q] = replies[q]
    BY <1>0, <1>2, <2>1, WriteOne DEF Upload, Row, Statuses, Finish
  <2>3. TypeOK'
    <3>1. OtherTypes
      BY TypeParts
    <3>2. OtherTypes'
      BY <3>1, <1>2, <2>1, <2>2 DEF Upload, OtherTypes, limitVars, poolVars,
         dataVars
    <3> QED
      BY <3>2, <2>2, TypeParts
  <2>4. Frame(r)
    BY <1>2, <2>1, <2>2 DEF Upload, TypeOK, Frame, limitVars, poolVars,
       dataVars
  <2>5. Row(r)' /\ BusyRow(r)' /\ OkRow(r)'
    BY <1>0, <1>2, <2>1, <2>2 DEF Upload, TypeOK, Row, BusyRow, OkRow,
       Converter, Silent, Answered, limitVars, poolVars, dataVars
  <2>6. PlacesAreRequests'
    BY <1>2, <2>1, PlacesStay DEF Upload, InHandler, limitVars
  <2> QED
    BY <2>3, <2>4, <2>5, <2>6 DEF Keeps
<1> QED
  BY <1>1, <1>2 DEF Upload

(* The middlewares after the handler. *)
LEMMA LeaveKeeps ==
  ASSUME SInv, NEW r \in Requests, Log(r) \/ Recover(r) \/ Leave(r)
  PROVE  Keeps(r)
<1> USE DEF SInv
<1>0. Row(r) /\ BusyRow(r) /\ OkRow(r)
  BY DEF Rows
<1>1. CASE Log(r)
  <2>1. /\ pc[r] = "return" /\ pc'[r] = "leave"
        /\ \A q \in Requests : q # r => pc'[q] = pc[q]
        /\ pc' = [pc EXCEPT ![r] = "leave"]
    BY <1>1, GotoOne DEF Log
  <2>2. replies' \in [Requests -> Seq(Statuses)]
    BY <1>1 DEF Log, TypeOK, Statuses
  <2>3. /\ recorded' \in [Requests -> {0, 200, 400, 405, 413, 415, 500, 503}]
        /\ UNCHANGED <<limitVars, poolVars, dataVars, want, gone, shared,
                       replies, crashed>>
    <3> DEFINE logged == IF replies[r] = << >> THEN 200
                         ELSE replies[r][Len(replies[r])]
    <3>1. logged \in {200, 400, 405, 413, 415, 500, 503}
      BY <1>0, <2>1 DEF Row, Silent, Answered
    <3>2. recorded' = [recorded EXCEPT ![r] = logged]
      BY <1>1 DEF Log
    <3> QED
      BY <1>1, <3>1, <3>2 DEF Log, TypeOK
  <2>4. TypeOK'
    <3>1. OtherTypes
      BY TypeParts
    <3>2. OtherTypes'
      BY <3>1, <2>3, <2>1, <2>2 DEF OtherTypes, limitVars, poolVars, dataVars
    <3> QED
      BY <3>2, <2>2, TypeParts
  <2>5. Frame(r)
    BY <1>1, <2>1, <2>2 DEF Log, TypeOK, Frame, limitVars, poolVars, dataVars
  <2>6. Row(r)' /\ BusyRow(r)' /\ OkRow(r)'
    BY <1>0, <2>3, <2>1, <2>2 DEF TypeOK, Row, BusyRow, OkRow, Converter,
       Silent, Answered, limitVars, poolVars, dataVars
  <2>7. PlacesAreRequests'
    BY <1>1, <2>1, PlacesStay DEF Log, InHandler, limitVars
  <2> QED
    BY <2>4, <2>5, <2>6, <2>7 DEF Keeps
<1>2. CASE Recover(r)
  <2>1. /\ pc[r] = "panicking" /\ pc'[r] = "leave"
        /\ \A q \in Requests : q # r => pc'[q] = pc[q]
        /\ pc' = [pc EXCEPT ![r] = "leave"]
    BY <1>2, GotoOne DEF Recover, Finish
  <2>2. /\ replies' \in [Requests -> Seq(Statuses)]
        /\ replies'[r] = <<500>>
        /\ \A q \in Requests : q # r => replies'[q] = replies[q]
    BY <1>0, <1>2, <2>1, WriteOne DEF Recover, Row, Statuses, Finish
  <2>3. TypeOK'
    <3>1. OtherTypes
      BY TypeParts
    <3>2. OtherTypes'
      BY <3>1, <1>2, <2>1, <2>2 DEF Recover, OtherTypes, limitVars, poolVars,
         dataVars
    <3> QED
      BY <3>2, <2>2, TypeParts
  <2>4. Frame(r)
    BY <1>2, <2>1, <2>2 DEF Recover, TypeOK, Frame, limitVars, poolVars,
       dataVars
  <2>5. Row(r)' /\ BusyRow(r)' /\ OkRow(r)'
    BY <1>0, <1>2, <2>1, <2>2 DEF Recover, TypeOK, Row, BusyRow, OkRow,
       Converter, Silent, Answered, limitVars, poolVars, dataVars
  <2>6. PlacesAreRequests'
    BY <1>2, <2>1, PlacesStay DEF Recover, InHandler, limitVars
  <2> QED
    BY <2>3, <2>4, <2>5, <2>6 DEF Keeps
<1>3. CASE Leave(r)
  <2>1. /\ pc[r] = "leave" /\ pc'[r] = "done"
        /\ \A q \in Requests : q # r => pc'[q] = pc[q]
        /\ pc' = [pc EXCEPT ![r] = "done"]
    BY <1>3, GotoOne DEF Leave
  <2>2. replies' \in [Requests -> Seq(Statuses)]
    BY <1>3 DEF Leave, TypeOK, Statuses
  <2>3. TypeOK'
    <3>1. OtherTypes
      BY TypeParts
    <3>2. OtherTypes'
      BY <3>1, <1>3, <2>1, <2>2 DEF Leave, OtherTypes, limitVars, poolVars,
         dataVars, Limit!Leave
    <3> QED
      BY <3>2, <2>2, TypeParts
  <2>4. Frame(r)
    BY <1>3, <2>1, <2>2 DEF Leave, TypeOK, Frame, limitVars, poolVars,
       dataVars, Limit!Leave
  <2>5. Row(r)' /\ BusyRow(r)' /\ OkRow(r)'
    BY <1>0, <1>3, <2>1, <2>2 DEF Leave, TypeOK, Row, BusyRow, OkRow,
       Converter, Silent, Answered, limitVars, poolVars, dataVars, Limit!Leave
  <2>6. PlacesAreRequests'
    BY <1>3, <2>1 DEF Leave, Limit!Leave, PlacesAreRequests, InHandler
  <2> QED
    BY <2>3, <2>4, <2>5, <2>6 DEF Keeps
<1> QED
  BY <1>1, <1>2, <1>3

(* What goes on beside the requests' goroutines: a job ends, or the client *)
(* leaves.  A job that ends was accepted, so no 503 has been written.      *)
LEMMA BesideKeeps ==
  ASSUME SInv, NEW r \in Requests, JobDone(r) \/ JobPanics(r) \/ Disconnect(r)
  PROVE  Keeps(r)
<1> USE DEF SInv
<1>0. Row(r) /\ BusyRow(r) /\ OkRow(r)
  BY DEF Rows
<1>1. CASE JobDone(r)
  <2>1. /\ stage[r] = "accepted" /\ stage'[r] \in {"data", "error"}
        /\ \A q \in Requests : q # r => stage'[q] = stage[q]
        /\ stage' \in [Requests -> {"new", "accepted", "data", "error"}]
        /\ UNCHANGED <<limitVars, answer, dataVars, pc, want, gone, shared,
                       replies, recorded, crashed>>
    BY <1>1 DEF JobDone, Pool!Finish, Pool!Results, TypeOK
  <2>2. TypeOK'
    BY <2>1 DEF TypeOK, limitVars, dataVars
  <2>3. Frame(r)
    BY <2>1 DEF Frame, limitVars, dataVars
  <2>4. Row(r)' /\ BusyRow(r)' /\ OkRow(r)'
    BY <1>0, <2>1 DEF Row, BusyRow, OkRow, Converter, dataVars
  <2>5. PlacesAreRequests'
    BY <2>1 DEF PlacesAreRequests, InHandler, limitVars
  <2> QED
    BY <2>2, <2>3, <2>4, <2>5 DEF Keeps
<1>2. CASE JobPanics(r)
  <2>1. /\ UNCHANGED <<limitVars, poolVars, dataVars, pc, want, gone, shared,
                       replies, recorded>>
        /\ crashed' = TRUE
    BY <1>2 DEF JobPanics
  <2>2. TypeOK' /\ Frame(r)
    BY <2>1 DEF TypeOK, Frame, limitVars, poolVars, dataVars
  <2>3. Row(r)' /\ BusyRow(r)' /\ OkRow(r)'
    BY <1>0, <2>1 DEF Row, BusyRow, OkRow, Converter, poolVars, dataVars
  <2>4. PlacesAreRequests'
    BY <2>1 DEF PlacesAreRequests, InHandler, limitVars
  <2> QED
    BY <2>2, <2>3, <2>4 DEF Keeps
<1>3. CASE Disconnect(r)
  <2>1. /\ UNCHANGED <<limitVars, poolVars, dataVars, pc, want, shared,
                       replies,
                       recorded, crashed>>
        /\ gone' = [gone EXCEPT ![r] = TRUE]
    BY <1>3 DEF Disconnect
  <2>2. TypeOK' /\ Frame(r)
    BY <2>1 DEF TypeOK, Frame, limitVars, poolVars, dataVars
  <2>3. Row(r)' /\ BusyRow(r)' /\ OkRow(r)'
    BY <1>0, <2>1 DEF Row, BusyRow, OkRow, Converter, poolVars, dataVars
  <2>4. PlacesAreRequests'
    BY <2>1 DEF PlacesAreRequests, InHandler, limitVars
  <2> QED
    BY <2>2, <2>3, <2>4 DEF Keeps
<1> QED
  BY <1>1, <1>2, <1>3

-----------------------------------------------------------------------------
(* Nothing has been served at first. *)
LEMMA InitSInv == Init => SInv
<1> SUFFICES ASSUME Init PROVE SInv
  OBVIOUS
<1>1. TypeOK
  <2>1. replies \in [Requests -> Seq(Statuses)]
    BY DEF Init
  <2>2. /\ inside \subseteq Requests /\ refused \subseteq Requests
        /\ stage \in [Requests -> {"new", "accepted", "data", "error"}]
        /\ answer \in [Requests ->
                         {"none", "data", "error", "busy", "canceled"}]
    BY DEF Init, Limit!Init, Pool!Init
  <2>3. /\ pc \in [Requests -> {"admit", "check", "convert", "wait", "deliver",
                                "return", "panicking", "leave", "done"}]
        /\ want \in [Requests -> Wants]
        /\ gone \in [Requests -> BOOLEAN]
        /\ format \in [Requests -> {"none", "jpeg", "webp"}]
        /\ shared \in {"jpeg", "webp"}
    BY DEF Init
  <2>4. /\ stored \in [Requests -> BOOLEAN]
        /\ recorded \in [Requests -> {0, 200, 400, 405, 413, 415, 500, 503}]
        /\ crashed \in BOOLEAN
    BY DEF Init
  <2> QED
    BY <2>1, <2>2, <2>3, <2>4 DEF TypeOK, Statuses
<1>2. Rows
  BY DEF Init, Limit!Init, Pool!Init, Rows, Row, BusyRow, OkRow
<1>3. PlacesAreRequests
  BY DEF Init, Limit!Init, PlacesAreRequests, InHandler
<1> QED
  BY <1>1, <1>2, <1>3 DEF SInv

(* Every step keeps the invariant: the request's own row by the lemmas     *)
(* above, the others' because the step does not touch them.                *)
LEMMA NextSInv == SInv /\ [Next]_vars => SInv'
<1> SUFFICES ASSUME SInv, [Next]_vars PROVE SInv'
  OBVIOUS
<1>1. ASSUME NEW r \in Requests,
             Arrive(r) \/ Proceed(r) \/ JobPanics(r) \/ Disconnect(r)
      PROVE  SInv'
  <2>1. Keeps(r)
    BY <1>1, ArriveKeeps, HandlerKeeps, PoolKeeps, DirectKeeps, DeliverKeeps,
       LeaveKeeps, BesideKeeps DEF Proceed
  <2>2. ASSUME NEW q \in Requests, q # r
        PROVE  Row(q)' /\ BusyRow(q)' /\ OkRow(q)'
    <3>1. Row(q) /\ BusyRow(q) /\ OkRow(q)
      BY DEF SInv, Rows
    <3>2. /\ pc'[q] = pc[q] /\ stage'[q] = stage[q] /\ answer'[q] = answer[q]
          /\ want'[q] = want[q] /\ format'[q] = format[q]
          /\ replies'[q] = replies[q] /\ stored'[q] = stored[q]
      BY <2>1, <2>2 DEF Keeps, Frame
    <3> QED
      BY <3>1, <3>2 DEF Row, BusyRow, OkRow, Converter
  <2>3. Rows'
    BY <2>1, <2>2 DEF Keeps, Rows
  <2> QED
    BY <2>1, <2>3 DEF Keeps, SInv
<1>2. CASE UNCHANGED vars
  <2>1. TypeOK' /\ PlacesAreRequests'
    BY <1>2 DEF vars, limitVars, poolVars, dataVars, SInv, TypeOK,
                PlacesAreRequests, InHandler
  <2>2. Rows'
    BY <1>2 DEF vars, limitVars, poolVars, dataVars, SInv, Rows, Row, BusyRow,
                OkRow, Converter
  <2> QED
    BY <2>1, <2>2 DEF SInv
<1> QED
  BY <1>1, <1>2 DEF Next, Halt

(* The inductive invariant holds in every reachable state. *)
THEOREM ServiceInvariant == Spec => []SInv
  BY InitSInv, NextSInv, PTL DEF Spec

(* Every variable of the service keeps its type. *)
THEOREM ServiceType == Spec => []TypeOK
<1>1. SInv => TypeOK
  BY DEF SInv
<1> QED
  BY ServiceInvariant, <1>1, PTL

(* On no path is a request answered twice. *)
THEOREM ServiceOneReply == Spec => []OneReply
<1>1. SInv => OneReply
  <2> SUFFICES ASSUME SInv, NEW r \in Requests PROVE Len(replies[r]) <= 1
    BY DEF OneReply
  <2>1. Row(r) /\ TypeOK
    BY DEF SInv, Rows
  <2>2. replies[r] \in Silent \cup Answered \cup {<<429>>}
    BY <2>1 DEF Row, TypeOK, Silent
  <2>3. CASE replies[r] = << >>
    BY <2>3
  <2>4. ASSUME NEW s, replies[r] = <<s>> PROVE Len(replies[r]) <= 1
    BY <2>4
  <2> QED
    BY <2>2, <2>3, <2>4 DEF Silent, Answered
<1> QED
  BY ServiceInvariant, <1>1, PTL

(* A 503 leaves no job and no stored image behind. *)
THEOREM ServiceBusyIsRetryable == Spec => []BusyIsRetryable
<1>1. SInv => BusyIsRetryable
  BY DEF SInv, Rows, BusyRow, BusyIsRetryable
<1> QED
  BY ServiceInvariant, <1>1, PTL

(* A 200 for an image comes from the request's own successful conversion,  *)
(* and for a store from an object in the bucket.                           *)
THEOREM ServiceOkIsReal == Spec => []OkIsReal
<1>1. SInv => OkIsReal
  BY DEF SInv, Rows, OkRow, OkIsReal
<1> QED
  BY ServiceInvariant, <1>1, PTL

(* The places inside the limit are those of the requests in the handler.   *)
THEOREM ServicePlaces == Spec => []PlacesAreRequests
<1>1. SInv => PlacesAreRequests
  BY DEF SInv
<1> QED
  BY ServiceInvariant, <1>1, PTL

-----------------------------------------------------------------------------
(* The middlewares use the concurrency limit as Gate allows: no request    *)
(* enters twice, leaves without having entered, or is refused when there   *)
(* is room, also when its handler panics.                                  *)
THEOREM ServiceUsesGate == Spec => Limit!Spec
<1>1. Init => Limit!Init
  BY DEF Init
<1>2. [Next]_vars => [Limit!Next]_<<inside, refused>>
  <2> SUFFICES ASSUME [Next]_vars PROVE [Limit!Next]_<<inside, refused>>
    OBVIOUS
  <2>1. ASSUME NEW r \in Requests, Arrive(r)
        PROVE  [Limit!Next]_<<inside, refused>>
    BY <2>1 DEF Arrive, TooManyRequests, Admit, Overloaded, Limit!Next,
       limitVars
  <2>2. ASSUME NEW r \in Requests, Proceed(r)
        PROVE  [Limit!Next]_<<inside, refused>>
    <3>1. CASE Leave(r)
      BY <3>1 DEF Leave, Limit!Next
    <3>2. CASE ~Leave(r)
      BY <2>2, <3>2 DEF Proceed, Health, Reject, Vanish, SetOutputFormat,
         Submit,
         PoolBusy, Canceled, TakeResult, ConvertDirectly, SendImage, Upload, Log,
         Recover, JobDone, limitVars
    <3> QED
      BY <3>1, <3>2
  <2>3. ASSUME NEW r \in Requests, JobPanics(r) \/ Disconnect(r)
        PROVE  [Limit!Next]_<<inside, refused>>
    BY <2>3 DEF JobPanics, Disconnect, limitVars
  <2>4. CASE UNCHANGED vars
    BY <2>4 DEF vars, limitVars
  <2> QED
    BY <2>1, <2>2, <2>3, <2>4 DEF Next, Halt
<1> QED
  BY <1>1, <1>2, PTL DEF Spec, Limit!Spec

(* The handlers use the pool as JobService allows: a request submits one   *)
(* job and takes one answer for it.                                        *)
THEOREM ServiceUsesPool == Spec => Pool!Spec
<1>1. Init => Pool!Init
  BY DEF Init
<1>2. [Next]_vars => [Pool!Next]_<<stage, answer>>
  <2> SUFFICES ASSUME [Next]_vars PROVE [Pool!Next]_<<stage, answer>>
    OBVIOUS
  <2>1. ASSUME NEW r \in Requests, Arrive(r)
        PROVE  [Pool!Next]_<<stage, answer>>
    BY <2>1 DEF Arrive, TooManyRequests, Admit, Overloaded, poolVars
  <2>2. ASSUME NEW r \in Requests, Proceed(r)
        PROVE  [Pool!Next]_<<stage, answer>>
    <3>1. CASE \/ Submit(r) \/ PoolBusy(r) \/ Canceled(r)
               \/ TakeResult(r) \/ JobDone(r)
      BY <3>1 DEF Submit, PoolBusy, Canceled, TakeResult, JobDone, Pool!Next
    <3>2. CASE ~(\/ Submit(r) \/ PoolBusy(r) \/ Canceled(r)
                 \/ TakeResult(r) \/ JobDone(r))
      BY <2>2, <3>2 DEF Proceed, Health, Reject, Vanish, SetOutputFormat,
         ConvertDirectly, SendImage, Upload, Log, Recover, Leave, poolVars
    <3> QED
      BY <3>1, <3>2
  <2>3. ASSUME NEW r \in Requests, JobPanics(r) \/ Disconnect(r)
        PROVE  [Pool!Next]_<<stage, answer>>
    BY <2>3 DEF JobPanics, Disconnect, poolVars
  <2>4. CASE UNCHANGED vars
    BY <2>4 DEF vars, poolVars
  <2> QED
    BY <2>1, <2>2, <2>3, <2>4 DEF Next, Halt
<1> QED
  BY <1>1, <1>2, PTL DEF Spec, Pool!Spec, Pool!vars

(* What Gate promises of its places, in any composition. *)
GateInv == IsFiniteSet(inside) /\ Cardinality(inside) \in 0..Max

(* Gate and JobService count with their own instances of FiniteSets. *)
LEMMA SameCardinality == \A S : Limit!Cardinality(S) = Cardinality(S)
  BY DEF Cardinality, Limit!Cardinality

LEMMA GateBound == Limit!Spec => []GateInv
<1>1. Limit!Init => GateInv
  BY FS_EmptySet, ServiceAssumption DEF Limit!Init, GateInv, ServiceAssumption
<1>2. GateInv /\ [Limit!Next]_<<inside, refused>> => GateInv'
  <2> SUFFICES ASSUME GateInv, [Limit!Next]_<<inside, refused>> PROVE GateInv'
    OBVIOUS
  <2>0. Max \in Nat /\ Cardinality(inside) \in Nat
    BY FS_CardinalityType, ServiceAssumption DEF ServiceAssumption, GateInv
  <2>1. ASSUME NEW r \in Requests, Limit!Enter(r) PROVE GateInv'
    <3>1. inside' = inside \cup {r} /\ r \notin inside /\ Cardinality(inside) < Max
      BY <2>1, SameCardinality DEF Limit!Enter
    <3>2. IsFiniteSet(inside') /\ Cardinality(inside') = Cardinality(inside) + 1
      BY <3>1, FS_AddElement DEF GateInv
    <3> QED
      BY <2>0, <3>1, <3>2 DEF GateInv
  <2>2. ASSUME NEW r \in Requests, Limit!Leave(r) PROVE GateInv'
    <3>1. inside' = inside \ {r} /\ r \in inside
      BY <2>2 DEF Limit!Leave
    <3>2. IsFiniteSet(inside') /\ Cardinality(inside') = Cardinality(inside) - 1
      BY <3>1, FS_RemoveElement DEF GateInv
    <3>3. Cardinality(inside') \in Nat
      BY <3>2, FS_CardinalityType
    <3> QED
      BY <2>0, <3>2, <3>3 DEF GateInv
  <2>3. ASSUME NEW r \in Requests, Limit!Refuse(r) \/ Limit!ComeBack(r)
        PROVE  GateInv'
    BY <2>3 DEF Limit!Refuse, Limit!ComeBack, GateInv
  <2>4. CASE UNCHANGED <<inside, refused>>
    BY <2>4 DEF GateInv
  <2> QED
    BY <2>1, <2>2, <2>3, <2>4 DEF Limit!Next
<1> QED
  BY <1>1, <1>2, PTL DEF Limit!Spec

(* However requests, panics, disconnections and the pool interleave, at    *)
(* most MAX_CONCURRENT requests are in the handlers.                       *)
THEOREM ServiceHandlersBounded == Spec => []HandlersBounded
<1>1. GateInv /\ PlacesAreRequests => HandlersBounded
  <2> SUFFICES ASSUME GateInv, PlacesAreRequests PROVE HandlersBounded
    OBVIOUS
  <2>1. Max \in Nat
    BY ServiceAssumption DEF ServiceAssumption
  <2> QED
    BY <2>1 DEF GateInv, PlacesAreRequests, HandlersBounded
<1> QED
  BY ServiceUsesGate, GateBound, ServicePlaces, <1>1, PTL
=============================================================================
