---------------------------- MODULE EnrollmentProofs ----------------------------
(***************************************************************************)
(* Theorems of Enrollment, for any sets of codes, requests, handlers and   *)
(* devices.  The store of credentials keeps its invariant Inv, because     *)
(* every step here is one of its steps; the rest relates the two tables of *)
(* this module to the devices.                                             *)
(***************************************************************************)
EXTENDS Enrollment, CredentialsProofs

\* Handlers arrived before now.
Arrived == \A h \in Handler : handler[h].op # "free" => handler[h].t \in 0..now

HasPC == \E d \in Device : IsTrustedPC(d)

\* The setup is closed when there is a trusted PC, and only the PC creates requests.
SetupClosed ==
  /\ setup.complete <=> HasPC
  /\ \A e \in Request : enrollment[e] # NoRequest => HasPC

OfType(type) == {d \in Device : device[d].type = type}
ConsumedOf(type) ==
  {e \in Request : enrollment[e].type = type /\ enrollment[e].holds = "tombstone"}

\* Only what was approved is consumed.
ConsumedApproved ==
  \A e \in Request : enrollment[e].holds = "tombstone" => enrollment[e].status = "approved"

\* OneDevicePerApproval, with what makes its counts grow: both sets are finite.
ApprovalsCounted ==
  \A type \in EnrolledType :
    /\ IsFiniteSet(OfType(type)) /\ IsFiniteSet(ConsumedOf(type))
    /\ Cardinality(OfType(type)) = Cardinality(ConsumedOf(type))

EnrollInv ==
  Inv /\ EnrollTypeOK /\ Arrived /\ SetupClosed /\ ConsumedApproved /\ ApprovalsCounted

-----------------------------------------------------------------------------
(* What the operations of the model do to a row. *)

\* Enrollment requests have rows, and what they hold fits their decision.
LEMMA RequestFields ==
  ASSUME EnrollTypeOK, NEW e \in Request
  PROVE  /\ enrollment[e] \in RequestRow
         /\ enrollment[e] # NoRequest =>
              enrollment[e] \in
                [status : {"pending", "submitted", "approved", "rejected"},
                 type : EnrolledType, holds : {"code", "claim", "tombstone"}, expires : Nat]
         /\ enrollment[e].status \in {"pending", "submitted", "approved", "rejected"} =>
              enrollment[e] # NoRequest
  BY DEF EnrollTypeOK, RequestRow, NoRequest

\* A handler that holds something holds what it looked up.
LEMMA HandlerFields ==
  ASSUME EnrollTypeOK, NEW h \in Handler
  PROVE  /\ handler[h].op = "setup" =>
              handler[h] \in [op : {"setup"}, code : Code, t : Nat]
         /\ handler[h].op = "claim" =>
              handler[h] \in [op : {"claim"}, request : Request, t : Nat]
         /\ handler[h].op = "free" => handler[h] = Free
         /\ handler[h].op \in {"free", "setup", "claim"}
  BY DEF EnrollTypeOK, HandlerState, Free

\* What a registration takes was not in use.
LEMMA FreshIds ==
  ASSUME IdsLeft
  PROVE  /\ FreshDevice \in Device /\ ~Registered(FreshDevice)
         /\ FreshPair \in Pair /\ Unused(FreshPair)
  BY DEF IdsLeft, FreshDevice, FreshPair

\* A registration adds one device of its type, and no other.
LEMMA RegisteredType ==
  ASSUME TypeOK, NEW d \in Device, NEW type \in DeviceType, NEW p \in Pair, NEW t,
         Register(d, type, p, t)
  PROVE  /\ d \notin OfType(type) /\ OfType(type)' = OfType(type) \cup {d}
         /\ \A x \in DeviceType : x # type => OfType(x)' = OfType(x)
  <1>1. device[d] = NoDevice
    BY RowTypes DEF Register
  <1>2. device' = [device EXCEPT ![d] = [type |-> type, status |-> "active"]]
    BY DEF Register
  <1>3. \A x \in Device : device'[x].type = IF x = d THEN type ELSE device[x].type
    BY <1>2 DEF TypeOK
  <1>4. \A x \in DeviceType : device[d].type # x
    BY <1>1 DEF NoDevice, DeviceType, EnrolledType
  <1> QED  BY <1>3, <1>4 DEF OfType

\* HasPC in terms of the devices of that type.
LEMMA PCType == /\ HasPC <=> OfType("trusted_pc") # {}
                /\ HasPC' <=> OfType("trusted_pc")' # {}
  BY DEF HasPC, IsTrustedPC, OfType

-----------------------------------------------------------------------------
(* Each step is one of the store's, and the store's invariant follows. *)

\* The trusted PC is registered only while there is none.
LEMMA SetupRegisters ==
  ASSUME EnrollInv, NEW h \in Handler, FinishSetup(h), ~UNCHANGED credVars
  PROVE  /\ CodeAccepted(handler[h].code, handler[h].t) /\ ~HasPC
         /\ FreshDevice \in Device /\ FreshPair \in Pair /\ handler[h].t \in 0..now
         /\ Register(FreshDevice, "trusted_pc", FreshPair, handler[h].t)
         /\ setup' = SetupCompleted(setup)
  <1>1. handler[h].op = "setup" /\ CodeAccepted(handler[h].code, handler[h].t)
    BY DEF FinishSetup
  <1>2. IdsLeft /\ Register(FreshDevice, "trusted_pc", FreshPair, handler[h].t)
        /\ setup' = SetupCompleted(setup)
    BY <1>1 DEF FinishSetup
  <1>3. ~HasPC
    BY <1>1 DEF CodeAccepted, EnrollInv, SetupClosed
  <1>4. handler[h].t \in 0..now
    BY <1>1 DEF EnrollInv, Arrived
  <1> QED  BY <1>1, <1>2, <1>3, <1>4, FreshIds

\* A device is registered for an approved request that was not consumed.
LEMMA ClaimRegisters ==
  ASSUME EnrollInv, NEW h \in Handler, FinishClaim(h), ~UNCHANGED <<credVars, enrollment>>
  PROVE  LET e == handler[h].request IN
         /\ e \in Request /\ enrollment[e] # NoRequest
         /\ Claimable(e, handler[h].t) /\ HasPC
         /\ enrollment[e].type \in EnrolledType
         /\ FreshDevice \in Device /\ FreshPair \in Pair /\ handler[h].t \in 0..now
         /\ Register(FreshDevice, enrollment[e].type, FreshPair, handler[h].t)
         /\ enrollment' = [enrollment EXCEPT ![e].holds = "tombstone"]
  <1> DEFINE e == handler[h].request
  <1>1. handler[h].op = "claim" /\ Claimable(e, handler[h].t)
    BY DEF FinishClaim
  <1>2. e \in Request
    BY <1>1, HandlerFields DEF EnrollInv
  <1>3. enrollment[e] # NoRequest /\ enrollment[e].type \in EnrolledType
    BY <1>1, <1>2, RequestFields DEF EnrollInv, Claimable
  <1>4. HasPC
    BY <1>2, <1>3 DEF EnrollInv, SetupClosed
  <1>5. /\ IdsLeft /\ Register(FreshDevice, enrollment[e].type, FreshPair, handler[h].t)
        /\ enrollment' = [enrollment EXCEPT ![e].holds = "tombstone"]
    BY <1>1 DEF FinishClaim
  <1>6. handler[h].t \in 0..now
    BY <1>1 DEF EnrollInv, Arrived
  <1> QED  BY <1>1, <1>2, <1>3, <1>4, <1>5, <1>6, FreshIds

\* What the other steps leave alone.
LEMMA NoRegistration ==
  ASSUME EnrollNext,
         ~\E h \in Handler : FinishSetup(h) \/ FinishClaim(h)
  PROVE  Tick \/ UNCHANGED credVars
  BY DEF EnrollNext, EnsureCode, BeginSetup, CreateEnrollment, SubmitEnrollment,
         ApproveEnrollment, RejectEnrollment, Decide, LookupClaim, TurnedAway, PollFails,
         Stop, Pass

\* Every step of enrollment is a step of the store, or none.
LEMMA StepIsAssumed ==
  ASSUME EnrollInv, [EnrollNext]_vars
  PROVE  [Next]_credVars
  <1>1. ASSUME NEW h \in Handler, FinishSetup(h), ~UNCHANGED credVars
        PROVE  Next
    <2>1. RegisterTrustedPC(FreshDevice, FreshPair, handler[h].t)
      BY <1>1, SetupRegisters DEF RegisterTrustedPC, HasPC
    <2> QED  BY <1>1, <2>1, SetupRegisters DEF Next
  <1>2. ASSUME NEW h \in Handler, FinishClaim(h), ~UNCHANGED credVars
        PROVE  Next
    <2> DEFINE type == enrollment[handler[h].request].type
    <2>1. /\ RegisterEnrolled(FreshDevice, type, FreshPair, handler[h].t)
          /\ type \in EnrolledType /\ FreshDevice \in Device /\ FreshPair \in Pair
          /\ handler[h].t \in 0..now
      BY <1>2, ClaimRegisters DEF RegisterEnrolled, HasPC
    <2> HIDE DEF type
    <2> QED  BY <2>1 DEF Next
  <1>3. CASE Tick  BY <1>3 DEF Next
  <1>4. CASE UNCHANGED vars  BY <1>4 DEF vars
  <1> QED  BY <1>1, <1>2, <1>3, <1>4, NoRegistration

-----------------------------------------------------------------------------
(* The tables of this module. *)

\* At the start there is nothing.
LEMMA EnrollInitInv == EnrollInit => EnrollInv
  <1> SUFFICES ASSUME EnrollInit PROVE EnrollInv
    OBVIOUS
  <1>1. Inv
    BY InitInv DEF EnrollInit
  <1>2. device = [d \in Device |-> NoDevice]
    BY DEF EnrollInit, Init
  <1>3. EnrollTypeOK /\ Arrived
    BY EnrollmentAssumption
    DEF EnrollInit, EnrollTypeOK, Arrived, SetupRow, RequestRow, HandlerState, Free,
        PollerState
  <1>4. SetupClosed
    BY <1>2 DEF EnrollInit, SetupClosed, HasPC, IsTrustedPC, NoDevice
  <1>5. \A type \in EnrolledType : OfType(type) = {} /\ ConsumedOf(type) = {}
    BY <1>2 DEF EnrollInit, OfType, ConsumedOf, NoDevice, NoRequest, EnrolledType
  <1>6. ApprovalsCounted
    BY <1>5, FS_EmptySet DEF ApprovalsCounted
  <1>7. ConsumedApproved
    BY DEF EnrollInit, ConsumedApproved, NoRequest
  <1> QED  BY <1>1, <1>3, <1>4, <1>6, <1>7 DEF EnrollInv

\* A step moves at most one handler, to a state with the time of its arrival; a stop
\* empties them all.
LEMMA HandlerStep ==
  ASSUME EnrollInv, EnrollNext
  PROVE  handler' \in [Handler -> HandlerState] /\ Arrived'
  <1>1. now \in Nat /\ now' \in Nat /\ now <= now'
    <2>1. now \in Nat  BY DEF EnrollInv, Inv, TypeOK
    <2>2. now' = now \/ now' = now + 1
      BY NoRegistration DEF FinishSetup, FinishClaim, Register, credVars, Tick
    <2> QED  BY <2>1, <2>2
  <1>2. \A h \in Handler : handler[h].op # "free" => handler[h].t \in 0..now'
    BY <1>1 DEF EnrollInv, Arrived
  <1>3. ASSUME NEW h \in Handler, NEW r \in HandlerState,
               handler' = [handler EXCEPT ![h] = r], r.op # "free" => r.t \in 0..now'
        PROVE  handler' \in [Handler -> HandlerState] /\ Arrived'
    BY <1>2, <1>3 DEF EnrollInv, EnrollTypeOK, Arrived
  <1>4. Free \in HandlerState /\ Free.op = "free"
    BY DEF HandlerState, Free
  <1>5. CASE \E h \in Handler : FinishSetup(h) \/ FinishClaim(h)
    BY <1>3, <1>4, <1>5 DEF FinishSetup, FinishClaim
  <1>6. ASSUME NEW h \in Handler, NEW c \in Code, BeginSetup(h, c)
        PROVE  handler' \in [Handler -> HandlerState] /\ Arrived'
    <2> DEFINE r == [op |-> "setup", code |-> c, t |-> now]
    <2>1. r \in HandlerState /\ r.t \in 0..now'  BY <1>1 DEF HandlerState
    <2>2. handler' = [handler EXCEPT ![h] = r]  BY <1>6 DEF BeginSetup
    <2> HIDE DEF r
    <2> QED  BY <1>3, <2>1, <2>2
  <1>7. ASSUME NEW h \in Handler, NEW e \in Request, LookupClaim(h, e)
        PROVE  handler' \in [Handler -> HandlerState] /\ Arrived'
    <2> DEFINE r == [op |-> "claim", request |-> e, t |-> now]
    <2>1. r \in HandlerState /\ r.t \in 0..now'  BY <1>1 DEF HandlerState
    <2>2. handler' = [handler EXCEPT ![h] = r]  BY <1>7 DEF LookupClaim
    <2> HIDE DEF r
    <2> QED  BY <1>3, <2>1, <2>2
  <1>8. CASE handler' = [h \in Handler |-> Free]
    BY <1>4, <1>8 DEF Arrived
  <1>9. CASE handler' = handler
    BY <1>2, <1>9 DEF EnrollInv, EnrollTypeOK, Arrived
  <1> QED
    BY <1>5, <1>6, <1>7, <1>8, <1>9
    DEF EnrollNext, EnsureCode, CreateEnrollment, SubmitEnrollment, ApproveEnrollment,
        RejectEnrollment, Decide, TurnedAway, PollFails, Stop, Pass, enrollVars

\* What the browsers do about their claims keeps its type.
LEMMA PollerStep ==
  ASSUME EnrollInv, EnrollNext
  PROVE  poller' \in [Request -> PollerState]
  <1>1. poller \in [Request -> PollerState]
    BY DEF EnrollInv, EnrollTypeOK
  <1>2. ASSUME NEW e, NEW p \in PollerState, poller' = [poller EXCEPT ![e] = p]
        PROVE  poller' \in [Request -> PollerState]
    BY <1>1, <1>2
  <1>3. CASE \E e \in Request : SubmitEnrollment(e) \/ TurnedAway(e) \/ PollFails(e)
    BY <1>2, <1>3 DEF SubmitEnrollment, TurnedAway, PollFails, PollerState
  <1>4. CASE \E h \in Handler : FinishClaim(h)
    BY <1>1, <1>2, <1>4 DEF FinishClaim, PollerState
  <1>5. CASE poller' = poller
    BY <1>1, <1>5
  <1> QED
    BY <1>3, <1>4, <1>5
    DEF EnrollNext, EnsureCode, BeginSetup, FinishSetup, CreateEnrollment,
        ApproveEnrollment, RejectEnrollment, Decide, LookupClaim, Stop, Pass, enrollVars

\* The row of the setup keeps its type, and only a registration closes it.
LEMMA SetupStep ==
  ASSUME EnrollInv, EnrollNext
  PROVE  /\ setup' \in SetupRow /\ stops' \in 0..MaxStops
         /\ setup' # setup /\ setup'.complete # setup.complete =>
              \E h \in Handler : FinishSetup(h) /\ ~UNCHANGED credVars
  <1>1. setup \in SetupRow /\ stops \in 0..MaxStops /\ MaxStops \in Nat
    BY EnrollmentAssumption DEF EnrollInv, EnrollTypeOK
  <1>2. ASSUME EnsureCode
        PROVE  setup' \in SetupRow /\ setup'.complete = setup.complete /\ stops' = stops
    <2>1. now + CodeLifetime \in Nat
      BY EnrollmentAssumption DEF EnrollInv, Inv, TypeOK
    <2>2. FreshCode \in Code
      BY <1>2 DEF EnsureCode, FreshCode
    <2> QED  BY <1>1, <1>2, <2>1, <2>2 DEF EnsureCode, SetupRow
  <1>3. ASSUME NEW h \in Handler, FinishSetup(h)
        PROVE  /\ setup' \in SetupRow /\ stops' = stops
               /\ setup' # setup => ~UNCHANGED credVars
    <2>1. CASE CodeAccepted(handler[h].code, handler[h].t)
      <3>1. setup' \in SetupRow
        BY <1>1, <1>3, <2>1 DEF FinishSetup, SetupCompleted, SetupRow
      <3>2. IdsLeft /\ Register(FreshDevice, "trusted_pc", FreshPair, handler[h].t)
        BY <1>3, <2>1 DEF FinishSetup
      <3>3. device' # device
        BY <3>2, FreshIds DEF Register, Registered, EnrollInv, Inv, TypeOK
      <3> QED  BY <1>3, <3>1, <3>3 DEF FinishSetup, credVars
    <2>2. CASE ~CodeAccepted(handler[h].code, handler[h].t)
      BY <1>1, <1>3, <2>2 DEF FinishSetup
    <2> QED  BY <2>1, <2>2
  <1>4. CASE Stop
    BY <1>1, <1>4 DEF Stop
  <1>5. CASE UNCHANGED <<setup, stops>>
    BY <1>1, <1>5
  <1> QED
    BY <1>1, <1>2, <1>3, <1>4, <1>5
    DEF EnrollNext, BeginSetup, CreateEnrollment, SubmitEnrollment, ApproveEnrollment,
        RejectEnrollment, Decide, LookupClaim, FinishClaim, TurnedAway, PollFails, Pass,
        enrollVars

\* What a step does to the requests: one is created by the PC, submitted, decided or
\* consumed by the device it registers; or they stay as they are.
LEMMA EnrollmentStep ==
  ASSUME EnrollInv, EnrollNext
  PROVE  \/ enrollment' = enrollment
         \/ \E e \in Request, row \in RequestRow :
              /\ enrollment' = [enrollment EXCEPT ![e] = row]
              /\ \/ /\ enrollment[e] = NoRequest /\ HasPC
                    /\ row # NoRequest /\ row.holds = "code"
                 \/ /\ enrollment[e].status = "pending" /\ row.status = "submitted"
                    /\ row.type = enrollment[e].type
                    /\ row.holds = "claim" /\ enrollment[e] # NoRequest
                    /\ row # NoRequest
                 \/ /\ enrollment[e].status = "submitted"
                    /\ row.status \in {"approved", "rejected"}
                    /\ row.type = enrollment[e].type /\ row.holds = enrollment[e].holds
                    /\ enrollment[e] # NoRequest /\ row # NoRequest
                 \/ /\ enrollment[e].status = "approved" /\ row.status = "approved"
                    /\ row.type = enrollment[e].type
                    /\ enrollment[e].holds = "claim" /\ row.holds = "tombstone"
                    /\ enrollment[e] # NoRequest /\ row # NoRequest
                    /\ \E h \in Handler : FinishClaim(h) /\ handler[h].request = e
  <1> USE DEF EnrollInv
  <1>1. ASSUME NEW e \in Request, NEW type \in EnrolledType, CreateEnrollment(e, type)
        PROVE  \E row \in RequestRow :
                 /\ enrollment' = [enrollment EXCEPT ![e] = row]
                 /\ enrollment[e] = NoRequest /\ HasPC
                 /\ row # NoRequest /\ row.holds = "code"
    <2> DEFINE row == [status |-> "pending", type |-> type, holds |-> "code",
                       expires |-> now + CodeLifetime]
    <2>1. now + CodeLifetime \in Nat
      BY EnrollmentAssumption DEF Inv, TypeOK
    <2>2. row \in RequestRow /\ row # NoRequest /\ row.holds = "code"
      BY <2>1 DEF RequestRow, NoRequest
    <2>3. enrollment' = [enrollment EXCEPT ![e] = row] /\ enrollment[e] = NoRequest /\ HasPC
      BY <1>1 DEF CreateEnrollment, AdminPresent, HasPC
    <2> HIDE DEF row
    <2> QED  BY <2>2, <2>3
  <1>2. ASSUME NEW e \in Request, SubmitEnrollment(e)
        PROVE  \E row \in RequestRow :
                 /\ enrollment' = [enrollment EXCEPT ![e] = row]
                 /\ enrollment[e].status = "pending" /\ row.status = "submitted"
                 /\ row.type = enrollment[e].type
                 /\ row.holds = "claim" /\ enrollment[e] # NoRequest /\ row # NoRequest
    <2> DEFINE row == Submitted(enrollment[e])
    <2>1. /\ enrollment' = [enrollment EXCEPT ![e] = row] /\ enrollment[e].status = "pending"
      BY <1>2 DEF SubmitEnrollment, Submittable, EnrollTypeOK
    <2>2. /\ row \in RequestRow /\ row.status = "submitted" /\ row.holds = "claim"
          /\ row.type = enrollment[e].type /\ enrollment[e] # NoRequest /\ row # NoRequest
      BY <2>1, RequestFields DEF Submitted, RequestRow, NoRequest
    <2> HIDE DEF row
    <2> QED  BY <2>1, <2>2
  <1>3. ASSUME NEW e \in Request, ApproveEnrollment(e) \/ RejectEnrollment(e)
        PROVE  \E row \in RequestRow :
                 /\ enrollment' = [enrollment EXCEPT ![e] = row]
                 /\ enrollment[e].status = "submitted"
                 /\ row.status \in {"approved", "rejected"}
                 /\ row.type = enrollment[e].type /\ row.holds = enrollment[e].holds
                 /\ enrollment[e] # NoRequest /\ row # NoRequest
    <2>1. PICK status \in {"approved", "rejected"} : Decide(e, status)
      BY <1>3 DEF ApproveEnrollment, RejectEnrollment
    <2> DEFINE row == [enrollment[e] EXCEPT !.status = status]
    <2>2. /\ enrollment' = [enrollment EXCEPT ![e] = row] /\ enrollment[e].status = "submitted"
      BY <2>1 DEF Decide, Decidable, EnrollTypeOK
    <2>3. /\ row \in RequestRow /\ row.status = status /\ row.holds = enrollment[e].holds
          /\ row.type = enrollment[e].type /\ enrollment[e] # NoRequest /\ row # NoRequest
      BY <2>2, RequestFields DEF RequestRow, NoRequest
    <2> HIDE DEF row
    <2> QED  BY <2>2, <2>3
  <1>4. ASSUME NEW h \in Handler, FinishClaim(h), enrollment' # enrollment
        PROVE  \E e \in Request, row \in RequestRow :
                 /\ enrollment' = [enrollment EXCEPT ![e] = row]
                 /\ enrollment[e].status = "approved" /\ row.status = "approved"
                 /\ row.type = enrollment[e].type
                 /\ enrollment[e].holds = "claim" /\ row.holds = "tombstone"
                 /\ enrollment[e] # NoRequest /\ row # NoRequest
                 /\ \E x \in Handler : FinishClaim(x) /\ handler[x].request = e
    <2> DEFINE e == handler[h].request
               row == [enrollment[e] EXCEPT !.holds = "tombstone"]
    <2>1. /\ e \in Request /\ enrollment[e] # NoRequest
          /\ Claimable(e, handler[h].t)
          /\ enrollment' = [enrollment EXCEPT ![e] = row]
      BY <1>4, ClaimRegisters DEF EnrollTypeOK
    <2>2. enrollment[e].status = "approved" /\ enrollment[e].holds = "claim"
      BY <2>1 DEF Claimable
    <2>3. /\ row \in RequestRow /\ row.status = "approved" /\ row.holds = "tombstone"
          /\ row.type = enrollment[e].type /\ row # NoRequest
      BY <2>1, <2>2, RequestFields DEF RequestRow, NoRequest
    <2> HIDE DEF row
    <2> QED  BY <1>4, <2>1, <2>2, <2>3
  <1> QED
    BY <1>1, <1>2, <1>3, <1>4
    DEF EnrollNext, EnsureCode, BeginSetup, FinishSetup, LookupClaim, TurnedAway, PollFails,
        Stop, Pass, enrollVars

\* The trusted PC is there exactly when the setup is closed.
LEMMA SetupClosedStep ==
  ASSUME EnrollInv, EnrollNext
  PROVE  SetupClosed'
  <1> USE DEF EnrollInv
  <1>1. ASSUME NEW h \in Handler, FinishSetup(h), ~UNCHANGED credVars
        PROVE  SetupClosed'
    <2>1. OfType("trusted_pc")' # {}
      BY <1>1, SetupRegisters, RegisteredType DEF Inv, DeviceType
    <2>2. setup'.complete
      BY <1>1, SetupRegisters DEF SetupCompleted, EnrollTypeOK, SetupRow
    <2> QED  BY <2>1, <2>2, PCType DEF SetupClosed
  <1>2. ASSUME ~\E h \in Handler : FinishSetup(h) /\ ~UNCHANGED credVars
        PROVE  SetupClosed'
    <2>1. OfType("trusted_pc")' = OfType("trusted_pc")
      <3>1. CASE \E h \in Handler : FinishClaim(h) /\ ~UNCHANGED credVars
        <4>1. PICK h \in Handler : FinishClaim(h) /\ ~UNCHANGED credVars
          BY <3>1
        <4> DEFINE type == enrollment[handler[h].request].type
        <4>2. /\ type \in EnrolledType /\ FreshDevice \in Device /\ FreshPair \in Pair
              /\ Register(FreshDevice, type, FreshPair, handler[h].t)
          BY <4>1, ClaimRegisters
        <4> HIDE DEF type
        <4>3. type # "trusted_pc" /\ type \in DeviceType /\ "trusted_pc" \in DeviceType
          BY <4>2 DEF EnrolledType, DeviceType
        <4> QED  BY <4>2, <4>3, RegisteredType DEF Inv
      <3>2. CASE device' = device
        BY <3>2 DEF OfType
      <3> QED  BY <1>2, <3>1, <3>2, NoRegistration DEF Tick, credVars
    <2>2. setup'.complete = setup.complete
      BY <1>2, SetupStep
    <2>3. ASSUME NEW e \in Request, enrollment'[e] # NoRequest
          PROVE  HasPC
      BY <2>3, EnrollmentStep DEF SetupClosed, EnrollTypeOK
    <2> QED  BY <2>1, <2>2, <2>3, PCType DEF SetupClosed
  <1> QED  BY <1>1, <1>2

\* A device of an enrolled type and a consumed request come together.
LEMMA CountsStep ==
  ASSUME EnrollInv, EnrollNext
  PROVE  ApprovalsCounted'
  <1> USE DEF EnrollInv
  <1> SUFFICES ASSUME NEW type \in EnrolledType
               PROVE  /\ IsFiniteSet(OfType(type))' /\ IsFiniteSet(ConsumedOf(type))'
                      /\ (Cardinality(OfType(type)) = Cardinality(ConsumedOf(type)))'
    BY DEF ApprovalsCounted
  <1>1. /\ IsFiniteSet(OfType(type)) /\ IsFiniteSet(ConsumedOf(type))
        /\ Cardinality(OfType(type)) = Cardinality(ConsumedOf(type))
    BY DEF ApprovalsCounted
  <1>2. type \in DeviceType /\ type # "trusted_pc" /\ type # "none"
        /\ "trusted_pc" \in DeviceType
    BY DEF EnrolledType, DeviceType
  <1>3. ASSUME ~\E h \in Handler : FinishClaim(h) /\ ~UNCHANGED <<credVars, enrollment>>
        PROVE  OfType(type)' = OfType(type) /\ ConsumedOf(type)' = ConsumedOf(type)
    <2>1. OfType(type)' = OfType(type)
      <3>1. CASE \E h \in Handler : FinishSetup(h) /\ ~UNCHANGED credVars
        BY <3>1, <1>2, SetupRegisters, RegisteredType DEF Inv
      <3>2. CASE device' = device
        BY <3>2 DEF OfType
      <3> QED  BY <1>3, <3>1, <3>2, NoRegistration DEF Tick, credVars
    <2>2. CASE enrollment' = enrollment
      BY <2>1, <2>2 DEF ConsumedOf
    <2>3. ASSUME NEW e \in Request, NEW row \in RequestRow,
                 enrollment' = [enrollment EXCEPT ![e] = row],
                 row.holds # "tombstone", enrollment[e].holds # "tombstone"
          PROVE  ConsumedOf(type)' = ConsumedOf(type)
      BY <2>3 DEF ConsumedOf, EnrollTypeOK
    <2>4. ASSUME NEW e \in Request, NEW row \in RequestRow,
                 enrollment' = [enrollment EXCEPT ![e] = row],
                 row.holds = enrollment[e].holds, row.type = enrollment[e].type
          PROVE  ConsumedOf(type)' = ConsumedOf(type)
      BY <2>4 DEF ConsumedOf, EnrollTypeOK
    <2>5. \A e \in Request :
            enrollment[e] = NoRequest \/ enrollment[e].status \in {"pending", "submitted"}
              => enrollment[e].holds # "tombstone"
      BY DEF NoRequest, ConsumedApproved
    <2>6. CASE enrollment' # enrollment
      <3>1. PICK e \in Request, row \in RequestRow :
               /\ enrollment' = [enrollment EXCEPT ![e] = row]
               /\ \/ /\ enrollment[e] = NoRequest /\ row.holds = "code"
                  \/ /\ enrollment[e].status = "pending" /\ row.holds = "claim"
                  \/ /\ row.type = enrollment[e].type /\ row.holds = enrollment[e].holds
                  \/ \E h \in Handler : FinishClaim(h)
        BY <2>6, EnrollmentStep
      <3>2. ~\E h \in Handler : FinishClaim(h)
        BY <1>3, <2>6
      <3> QED  BY <2>1, <2>3, <2>4, <2>5, <3>1, <3>2
    <2> QED  BY <2>1, <2>2, <2>6
  <1>4. ASSUME NEW h \in Handler, FinishClaim(h), ~UNCHANGED <<credVars, enrollment>>
        PROVE  /\ IsFiniteSet(OfType(type))' /\ IsFiniteSet(ConsumedOf(type))'
               /\ (Cardinality(OfType(type)) = Cardinality(ConsumedOf(type)))'
    <2> DEFINE e == handler[h].request
    <2>1. /\ e \in Request /\ enrollment[e].holds = "claim"
          /\ enrollment[e].type \in EnrolledType /\ enrollment[e] # NoRequest
          /\ FreshDevice \in Device /\ FreshPair \in Pair
          /\ Register(FreshDevice, enrollment[e].type, FreshPair, handler[h].t)
          /\ enrollment' = [enrollment EXCEPT ![e].holds = "tombstone"]
      BY <1>4, ClaimRegisters DEF Claimable
    <2>2. enrollment[e].type \in DeviceType
      BY <2>1 DEF DeviceType
    <2>3. /\ enrollment'[e].holds = "tombstone" /\ enrollment'[e].type = enrollment[e].type
          /\ \A x \in Request : x # e => enrollment'[x] = enrollment[x]
      BY <2>1, RequestFields DEF EnrollTypeOK
    <2>4. CASE enrollment[e].type = type
      <3>1. OfType(type)' = OfType(type) \cup {FreshDevice} /\ FreshDevice \notin OfType(type)
        BY <2>1, <2>2, <2>4, RegisteredType DEF Inv
      <3>2. ConsumedOf(type)' = ConsumedOf(type) \cup {e} /\ e \notin ConsumedOf(type)
        BY <2>1, <2>3, <2>4 DEF ConsumedOf
      <3>3. /\ IsFiniteSet(OfType(type) \cup {FreshDevice})
            /\ Cardinality(OfType(type) \cup {FreshDevice}) = Cardinality(OfType(type)) + 1
        BY <1>1, <3>1, FS_AddElement
      <3>4. /\ IsFiniteSet(ConsumedOf(type) \cup {e})
            /\ Cardinality(ConsumedOf(type) \cup {e}) = Cardinality(ConsumedOf(type)) + 1
        BY <1>1, <3>2, FS_AddElement
      <3>5. IsFiniteSet(OfType(type))' /\ IsFiniteSet(ConsumedOf(type))'
        BY <3>1, <3>2, <3>3, <3>4
      <3>6. Cardinality(OfType(type))' = Cardinality(ConsumedOf(type))'
        BY <1>1, <3>1, <3>2, <3>3, <3>4
      <3> QED  BY <3>5, <3>6
    <2>5. CASE enrollment[e].type # type
      <3>1. OfType(type)' = OfType(type)
        BY <1>2, <2>1, <2>2, <2>5, RegisteredType DEF Inv
      <3>2. ConsumedOf(type)' = ConsumedOf(type)
        BY <2>1, <2>3, <2>5 DEF ConsumedOf
      <3> QED  BY <1>1, <3>1, <3>2
    <2> QED  BY <2>4, <2>5
  <1> QED  BY <1>1, <1>3, <1>4

-----------------------------------------------------------------------------
\* Every step preserves the invariant.
LEMMA EnrollStepInv == EnrollInv /\ [EnrollNext]_vars => EnrollInv'
  <1> SUFFICES ASSUME EnrollInv, [EnrollNext]_vars PROVE EnrollInv'
    OBVIOUS
  <1>1. Inv'
    BY StepIsAssumed, NextInv DEF EnrollInv
  <1>2. CASE UNCHANGED vars
    BY <1>1, <1>2
    DEF vars, credVars, enrollVars, EnrollInv, EnrollTypeOK, Arrived, SetupClosed, HasPC,
        IsTrustedPC, ConsumedApproved, ApprovalsCounted, OfType, ConsumedOf
  <1>3. CASE EnrollNext
    <2>1. enrollment' \in [Request -> RequestRow]
      BY <1>3, EnrollmentStep DEF EnrollInv, EnrollTypeOK
    <2>2. EnrollTypeOK'
      BY <1>3, <2>1, HandlerStep, SetupStep, PollerStep DEF EnrollTypeOK
    <2>3. ConsumedApproved'
      BY <1>3, EnrollmentStep DEF EnrollInv, ConsumedApproved, EnrollTypeOK
    <2> QED
      BY <1>1, <1>3, <2>2, <2>3, HandlerStep, SetupClosedStep, CountsStep DEF EnrollInv
  <1> QED  BY <1>2, <1>3

\* The invariant holds in every state.
THEOREM EnrollInvariance == EnrollSpec => []EnrollInv
  BY EnrollInitInv, EnrollStepInv, PTL DEF EnrollSpec

\* Setup, requests and handlers keep their types.
THEOREM EnrollTypeCorrect == EnrollSpec => []EnrollTypeOK
  <1>1. EnrollInv => EnrollTypeOK  BY DEF EnrollInv
  <1> QED  BY EnrollInvariance, <1>1, PTL

\* Enrollment implements the registrations that Credentials assumes: all that is
\* proved of the store holds of the store with this way to register devices.
THEOREM ImplementsCredentials == EnrollSpec => RegistersAsAssumed
  <1>1. EnrollInit => Init  BY DEF EnrollInit
  <1>2. EnrollInv /\ [EnrollNext]_vars => [Next]_credVars  BY StepIsAssumed
  <1> QED  BY <1>1, <1>2, EnrollInvariance, PTL DEF EnrollSpec, RegistersAsAssumed, Spec

\* However setups overlap, it is closed exactly when it created one trusted PC.
THEOREM SetupCreatesOnePC == EnrollSpec => []SetupMatchesDevice
  <1>1. ASSUME EnrollInv PROVE SetupMatchesDevice
    <2> DEFINE pcs == {d \in Device : IsTrustedPC(d)}
    <2>1. CASE setup.complete
      <3>1. PICK pc \in Device : IsTrustedPC(pc)
        BY <1>1, <2>1 DEF EnrollInv, SetupClosed, HasPC
      <3>2. \A d \in Device : IsTrustedPC(d) => d = pc
        BY <1>1, <3>1, RowTypes DEF EnrollInv, Inv, OneTrustedPC
      <3>3. pcs = {pc}  BY <3>1, <3>2
      <3>4. Cardinality(pcs) = 1  BY <3>3, FS_Singleton
      <3> QED  BY <2>1, <3>4 DEF SetupMatchesDevice
    <2>2. CASE ~setup.complete
      <3>1. pcs = {}  BY <1>1, <2>2 DEF EnrollInv, SetupClosed, HasPC
      <3>2. Cardinality(pcs) = 0  BY <3>1, FS_EmptySet
      <3> QED  BY <2>2, <3>2 DEF SetupMatchesDevice
    <2> QED  BY <2>1, <2>2
  <1> QED  BY <1>1, EnrollInvariance, PTL

\* However polls of a claim overlap and the server stops, one approval makes one device.
THEOREM ApprovalMakesOneDevice == EnrollSpec => []OneDevicePerApproval
  <1>1. EnrollInv => OneDevicePerApproval
    BY DEF EnrollInv, ApprovalsCounted, OneDevicePerApproval, OfType, ConsumedOf
  <1> QED  BY <1>1, EnrollInvariance, PTL

\* A decision of the administrator is neither taken back nor consumed by anything but
\* the device it admits.
THEOREM DecisionIsFinal == EnrollSpec => DecisionStands
  <1>1. EnrollInv /\ [EnrollNext]_vars =>
          [\A e \in Request :
             enrollment[e].status \in {"approved", "rejected"} =>
               /\ enrollment'[e].status = enrollment[e].status
               /\ enrollment'[e].holds # enrollment[e].holds =>
                    enrollment[e].status = "approved" /\ enrollment'[e].holds = "tombstone"]_vars
    <2> SUFFICES ASSUME EnrollInv, EnrollNext, NEW e \in Request,
                        enrollment[e].status \in {"approved", "rejected"}
                 PROVE  /\ enrollment'[e].status = enrollment[e].status
                        /\ enrollment'[e].holds # enrollment[e].holds =>
                             /\ enrollment[e].status = "approved"
                             /\ enrollment'[e].holds = "tombstone"
      OBVIOUS
    <2>1. enrollment[e] # NoRequest
      BY RequestFields DEF EnrollInv
    <2> QED  BY <2>1, EnrollmentStep DEF EnrollInv, EnrollTypeOK
  <1> QED  BY <1>1, EnrollInvariance, PTL DEF EnrollSpec, DecisionStands

=============================================================================
