-------------------------- MODULE CredentialsProofs --------------------------
(***************************************************************************)
(* Theorems of Credentials, for every set of devices and credentials and   *)
(* all lifetimes.  The invariant proved inductive is Inv; besides the      *)
(* properties it needs only that rows refer to registered devices.  What   *)
(* counts couples has an invariant of its own, Counted.                    *)
(***************************************************************************)
EXTENDS Credentials, FiniteSetTheorems, TLAPS

\* Credentials and reuse events exist only for registered devices: the foreign
\* keys of device_credentials and security_events.
RowsHaveDevices ==
  \A d \in Device :
    /\ reused[d] => Registered(d)
    /\ \A p \in Pair : pair[p].device = d => Registered(d)

Inv ==
  /\ TypeOK
  /\ RowsHaveDevices
  /\ OneCurrentPair
  /\ NoCredentialAfterShutdown
  /\ RegisteredUntilShutdown
  /\ OneTrustedPC

-----------------------------------------------------------------------------
\* The store starts empty, so the invariant holds.
LEMMA InitInv == Init => Inv
<1> SUFFICES ASSUME Init PROVE Inv
  OBVIOUS
<1> USE DEF Init, Registered, IsActive, IsTrustedPC, Unused, LiveAccess,
            LiveRefresh, IssuedPair, NoDevice
<1>1. TypeOK
  BY DEF TypeOK, DeviceRow, PairRow
<1>2. RowsHaveDevices
  BY NoneAssumption DEF RowsHaveDevices
<1>3. OneCurrentPair
  BY DEF OneCurrentPair
<1>4. NoCredentialAfterShutdown
  BY DEF NoCredentialAfterShutdown
<1>5. RegisteredUntilShutdown
  BY DEF RegisteredUntilShutdown, HoldsRefresh
<1>6. OneTrustedPC
  BY DEF OneTrustedPC
<1> QED
  BY <1>1, <1>2, <1>3, <1>4, <1>5, <1>6 DEF Inv

\* What the type invariant says of one row of each table.
LEMMA RowTypes ==
  ASSUME TypeOK
  PROVE  /\ \A d \in Device :
              /\ device[d] \in DeviceRow
              /\ Registered(d) <=> device[d] # NoDevice
              /\ device[d].status \in {"absent", "active", "revoked"}
              /\ IsActive(d) => Registered(d)
              /\ IsTrustedPC(d) => Registered(d)
         /\ \A p \in Pair : pair[p] \in PairRow
  BY DEF TypeOK, DeviceRow, NoDevice, Registered, IsActive, IsTrustedPC,
         DeviceType, EnrolledType

\* A registration inserts a device that owned nothing and its first couple.
LEMMA RegisterInv ==
  ASSUME Inv, NEW d \in Device, NEW type \in DeviceType, NEW p \in Pair,
         NEW t \in 0..now, Register(d, type, p, t),
         (type = "trusted_pc") <=> (\A x \in Device : ~IsTrustedPC(x))
  PROVE  Inv'
<1> USE DEF Inv
<1> DEFINE row == [type |-> type, status |-> "active"]
<1>1. /\ ~Registered(d) /\ Unused(p)
      /\ device' = [device EXCEPT ![d] = row]
      /\ pair' = [pair EXCEPT ![p] = IssuedPair(d, t)]
      /\ now' = now /\ reused' = reused
  BY DEF Register
<1>2. t \in Nat
  BY DEF TypeOK
<1>3. TypeOK'
  BY <1>1, <1>2 DEF TypeOK, DeviceRow, PairRow, IssuedPair
<1>4. \A x \in Device : device'[x] = IF x = d THEN row ELSE device[x]
  BY <1>1 DEF TypeOK
<1>5. \A x \in Pair : pair'[x] = IF x = p THEN IssuedPair(d, t) ELSE pair[x]
  BY <1>1 DEF TypeOK
<1>6. \A x \in Pair : pair[x].device # d
  BY <1>1 DEF RowsHaveDevices
<1>7. d # None /\ ~reused[d]
  BY <1>1, NoneAssumption DEF RowsHaveDevices
<1>8. RowsHaveDevices'
  BY <1>1, <1>4, <1>5 DEF RowsHaveDevices, Registered, IssuedPair
<1>9. OneCurrentPair'
  BY <1>5, <1>6, <1>7 DEF OneCurrentPair, LiveAccess, LiveRefresh, Unused, IssuedPair
<1>10. NoCredentialAfterShutdown'
  <2> SUFFICES ASSUME NEW x \in Pair, ~Unused(x)', (reused[pair[x].device] \/ ~IsActive(pair[x].device))'
               PROVE  (pair[x].accessRevoked /\ pair[x].refreshRevoked)'
    BY DEF NoCredentialAfterShutdown
  <2>1. CASE x = p
    BY <2>1, <1>1, <1>4, <1>5, <1>7 DEF IsActive, IssuedPair
  <2>2. CASE x # p
    <3>1. pair'[x] = pair[x] /\ pair[x].device \in Device
      BY <2>2, <1>5, RowTypes DEF Unused, PairRow
    <3>2. device'[pair[x].device] = device[pair[x].device]
      BY <3>1, <1>4, <1>6
    <3> QED
      BY <3>1, <3>2, <1>1 DEF NoCredentialAfterShutdown, IsActive, Unused
  <2> QED
    BY <2>1, <2>2
<1>11. RegisteredUntilShutdown'
  <2> SUFFICES ASSUME NEW x \in Device, IsActive(x)', ~reused'[x]
               PROVE  \E y \in Pair : pair'[y].device = x /\ LiveRefresh(y)'
    BY DEF RegisteredUntilShutdown, HoldsRefresh
  <2>1. CASE x = d
    BY <2>1, <1>5, <1>7 DEF LiveRefresh, Unused, IssuedPair
  <2>2. CASE x # d
    <3>1. PICK y \in Pair : pair[y].device = x /\ LiveRefresh(y)
      BY <2>2, <1>1, <1>4 DEF RegisteredUntilShutdown, HoldsRefresh, IsActive
    <3>2. y # p
      BY <3>1, <1>1 DEF LiveRefresh
    <3> QED
      BY <3>1, <3>2, <1>5 DEF LiveRefresh, Unused
  <2> QED
    BY <2>1, <2>2
<1>12. OneTrustedPC'
  <2>1. CASE \A x \in Device : ~IsTrustedPC(x)
    BY <2>1, <1>4 DEF OneTrustedPC, IsTrustedPC, IsActive
  <2>2. CASE \E x \in Device : IsTrustedPC(x)
    <3>1. PICK pc \in Device : /\ IsTrustedPC(pc) /\ IsActive(pc)
                               /\ \A x \in Device : IsTrustedPC(x) => x = pc
      BY <2>2, RowTypes DEF OneTrustedPC
    <3>2. pc # d /\ type # "trusted_pc"
      BY <3>1, <1>1, <2>2, RowTypes
    <3> QED
      BY <3>1, <3>2, <1>4 DEF OneTrustedPC, IsTrustedPC, IsActive
  <2> QED
    BY <2>1, <2>2
<1> QED
  BY <1>3, <1>8, <1>9, <1>10, <1>11, <1>12


\* A rotation moves the one exchangeable couple of the device from p to q.
LEMMA RotateInv ==
  ASSUME Inv, NEW p \in Pair, NEW q \in Pair, NEW local \in BOOLEAN,
         RotateRefresh(p, q, local)
  PROVE  Inv'
<1> USE DEF Inv
<1> DEFINE d == pair[p].device
<1>1. /\ LiveRefresh(p) /\ IsActive(d) /\ Unused(q) /\ p # q
      /\ pair' = AfterRotation(p, q)
      /\ now' = now /\ device' = device /\ reused' = reused
  BY DEF RotateRefresh, Exchangeable, LiveRefresh, Unused
<1>2. pair[p] \in PairRow /\ d \in Device /\ d # None
  BY <1>1, RowTypes, NoneAssumption DEF PairRow, LiveRefresh, Unused
<1>3. /\ pair'[q] = IssuedPair(d, now)
      /\ pair'[p] = [pair[p] EXCEPT !.accessRevoked = TRUE, !.refreshConsumed = TRUE]
      /\ \A x \in Pair \ {p, q} :
           /\ pair[x].device = d => pair'[x] = [pair[x] EXCEPT !.accessRevoked = TRUE]
           /\ pair[x].device # d => pair'[x] = pair[x]
  BY <1>1 DEF AfterRotation
<1>4. ~reused[d]
  BY <1>1, <1>2 DEF NoCredentialAfterShutdown, LiveRefresh, Unused
<1>5. TypeOK'
  <2>1. pair'[q] \in PairRow
    BY <1>2, <1>3 DEF TypeOK, PairRow, IssuedPair
  <2>2. pair'[p] \in PairRow
    BY <1>2, <1>3 DEF PairRow
  <2>3. ASSUME NEW x \in Pair, x # p, x # q
        PROVE  pair'[x] \in PairRow
    <3>1. pair[x] \in PairRow
      BY RowTypes
    <3>2. CASE pair[x].device = d
      BY <2>3, <3>1, <3>2, <1>3 DEF PairRow
    <3>3. CASE pair[x].device # d
      BY <2>3, <3>1, <3>3, <1>3
    <3> QED
      BY <3>2, <3>3
  <2>4. pair' = [x \in Pair |-> pair'[x]]
    BY <1>1 DEF AfterRotation
  <2> QED
    BY <1>1, <2>1, <2>2, <2>3, <2>4 DEF TypeOK
\* Every couple but q keeps its owner and none of them gains a credential.
<1>6. \A x \in Pair : x # q =>
        /\ pair'[x].device = pair[x].device
        /\ pair[x].accessRevoked => pair'[x].accessRevoked
        /\ pair[x].refreshConsumed => pair'[x].refreshConsumed
        /\ pair'[x].refreshRevoked = pair[x].refreshRevoked
        /\ pair[x].device = d => pair'[x].accessRevoked
        /\ x = p => pair'[x].refreshConsumed
        /\ x # p => pair'[x].refreshConsumed = pair[x].refreshConsumed
  <2>1. \A x \in Pair : pair[x] \in PairRow
    BY RowTypes
  <2>2. ASSUME NEW x \in Pair, x # q, x # p, pair[x].device = d
        PROVE  pair'[x] = [pair[x] EXCEPT !.accessRevoked = TRUE]
    BY <2>2, <1>3
  <2>3. ASSUME NEW x \in Pair, x # q, x # p, pair[x].device # d
        PROVE  pair'[x] = pair[x]
    BY <2>3, <1>3
  <2>4. TAKE x \in Pair
  <2>5. CASE x = p
    BY <2>5, <2>1, <1>3 DEF PairRow
  <2>6. CASE x # p /\ pair[x].device = d
    BY <2>6, <2>1, <2>2 DEF PairRow
  <2>7. CASE x # p /\ pair[x].device # d
    BY <2>7, <2>3
  <2> QED
    BY <2>5, <2>6, <2>7
<1>7. RowsHaveDevices'
  BY <1>1, <1>2, <1>3, <1>6, RowTypes DEF RowsHaveDevices, Registered, IssuedPair
<1>8. OneCurrentPair'
  <2>1. \A x \in Pair : x # q /\ LiveRefresh(x)' => LiveRefresh(x) /\ pair[x].device # d
    BY <1>1, <1>6 DEF LiveRefresh, Unused, OneCurrentPair
  <2>2. \A x \in Pair : x # q /\ LiveAccess(x)' => LiveAccess(x) /\ pair[x].device # d
    BY <1>6 DEF LiveAccess, Unused
  <2>3. \A x \in Pair : x # q /\ LiveRefresh(x) /\ pair[x].device # d => LiveRefresh(x)'
    BY <1>3 DEF LiveRefresh, Unused
  <2>4. LiveRefresh(q)' /\ pair'[q].device = d
    BY <1>2, <1>3 DEF LiveRefresh, Unused, IssuedPair
  <2>5. \A x \in Pair : LiveAccess(x)' => LiveRefresh(x)'
    BY <2>2, <2>3, <2>4 DEF OneCurrentPair
  <2>6. \A x, y \in Pair : LiveRefresh(x)' /\ LiveRefresh(y)'
                           /\ pair'[x].device = pair'[y].device => x = y
    BY <2>1, <2>4, <1>6 DEF OneCurrentPair
  <2> QED
    BY <2>5, <2>6 DEF OneCurrentPair
<1>9. NoCredentialAfterShutdown'
  <2> SUFFICES ASSUME NEW x \in Pair, ~Unused(x)',
                      (reused[pair[x].device] \/ ~IsActive(pair[x].device))'
               PROVE  (pair[x].accessRevoked /\ pair[x].refreshRevoked)'
    BY DEF NoCredentialAfterShutdown
  <2>1. x # q
    BY <1>1, <1>3, <1>4 DEF IsActive, IssuedPair
  <2> QED
    BY <2>1, <1>1, <1>6 DEF NoCredentialAfterShutdown, IsActive, Unused
<1>10. RegisteredUntilShutdown'
  <2> SUFFICES ASSUME NEW x \in Device, IsActive(x), ~reused[x]
               PROVE  \E y \in Pair : pair'[y].device = x /\ LiveRefresh(y)'
    BY <1>1 DEF RegisteredUntilShutdown, HoldsRefresh, IsActive
  <2>1. CASE x = d
    BY <2>1, <1>2, <1>3 DEF LiveRefresh, Unused, IssuedPair
  <2>2. CASE x # d
    <3>1. PICK y \in Pair : pair[y].device = x /\ LiveRefresh(y)
      BY DEF RegisteredUntilShutdown, HoldsRefresh
    <3>2. y # q /\ pair'[y] = pair[y]
      BY <3>1, <2>2, <1>1, <1>3 DEF LiveRefresh
    <3> QED
      BY <3>1, <3>2 DEF LiveRefresh, Unused
  <2> QED
    BY <2>1, <2>2
<1>11. OneTrustedPC'
  BY <1>1 DEF OneTrustedPC, Registered, IsTrustedPC, IsActive
<1> QED
  BY <1>5, <1>7, <1>8, <1>9, <1>10, <1>11

\* What revoking all credentials of a device does to a row.
LEMMA AllRevokedRows ==
  ASSUME TypeOK, NEW d \in Device, pair' = AllRevoked(d)
  PROVE  /\ pair' \in [Pair -> PairRow]
         /\ \A x \in Pair :
              /\ pair'[x].device = pair[x].device
              /\ pair'[x].refreshConsumed = pair[x].refreshConsumed
              /\ pair[x].device = d => pair'[x].accessRevoked /\ pair'[x].refreshRevoked
              /\ pair[x].device # d => pair'[x] = pair[x]
  BY RowTypes DEF AllRevoked, TypeOK, PairRow

\* Reuse detection shuts the family of the device that owns the credential.
LEMMA ReuseInv ==
  ASSUME Inv, NEW p \in Pair, NEW local \in BOOLEAN, DetectReuse(p, local)
  PROVE  Inv'
<1> USE DEF Inv
<1> DEFINE d == pair[p].device
<1>1. d \in Device /\ Registered(d)
  BY RowTypes DEF DetectReuse, Refreshable, Unused, PairRow, RowsHaveDevices
<1>2. /\ pair' = AllRevoked(d)
      /\ reused' = [reused EXCEPT ![d] = TRUE]
      /\ now' = now /\ device' = device
  BY DEF DetectReuse
<1>3. \A x \in Device : reused'[x] = (reused[x] \/ x = d)
  BY <1>2 DEF TypeOK
<1>4. TypeOK'
  BY <1>1, <1>2, AllRevokedRows DEF TypeOK
<1>5. RowsHaveDevices'
  BY <1>1, <1>2, <1>3, AllRevokedRows DEF RowsHaveDevices, Registered
<1>6. OneCurrentPair'
  BY <1>1, <1>2, AllRevokedRows DEF OneCurrentPair, LiveAccess, LiveRefresh, Unused
<1>7. NoCredentialAfterShutdown'
  <2> SUFFICES ASSUME NEW x \in Pair, ~Unused(x)', pair[x].device # d,
                      (reused[pair[x].device] \/ ~IsActive(pair[x].device))'
               PROVE  (pair[x].accessRevoked /\ pair[x].refreshRevoked)'
    BY <1>1, <1>2, AllRevokedRows DEF NoCredentialAfterShutdown
  <2>1. pair'[x] = pair[x] /\ pair[x].device \in Device
    BY <1>1, <1>2, AllRevokedRows, RowTypes DEF Unused, PairRow
  <2> QED
    BY <2>1, <1>2, <1>3 DEF NoCredentialAfterShutdown, Unused, IsActive
<1>8. RegisteredUntilShutdown'
  <2> SUFFICES ASSUME NEW x \in Device, IsActive(x), ~reused[x], x # d
               PROVE  \E y \in Pair : pair'[y].device = x /\ LiveRefresh(y)'
    BY <1>2, <1>3 DEF RegisteredUntilShutdown, HoldsRefresh, IsActive
  <2>1. PICK y \in Pair : pair[y].device = x /\ LiveRefresh(y)
    BY DEF RegisteredUntilShutdown, HoldsRefresh
  <2>2. pair'[y] = pair[y]
    BY <2>1, <1>1, <1>2, AllRevokedRows
  <2> QED
    BY <2>1, <2>2 DEF LiveRefresh, Unused
<1>9. OneTrustedPC'
  BY <1>2 DEF OneTrustedPC, Registered, IsTrustedPC, IsActive
<1> QED
  BY <1>4, <1>5, <1>6, <1>7, <1>8, <1>9

\* A revocation shuts the target and leaves the trusted PC, its caller, alone.
LEMMA RevokeInv ==
  ASSUME Inv, NEW target \in Device, NEW actor \in Device,
         RevokeDevice(target, actor)
  PROVE  Inv'
<1> USE DEF Inv
<1>1. /\ target # actor /\ IsTrustedPC(actor) /\ IsActive(target)
      /\ device' = [device EXCEPT ![target].status = "revoked"]
      /\ pair' = AllRevoked(target)
      /\ now' = now /\ reused' = reused
  BY DEF RevokeDevice
<1>2. device[target] \in [type : DeviceType, status : {"active", "revoked"}]
  BY <1>1, RowTypes DEF DeviceRow, NoDevice, IsActive
<1>3. /\ device'[target] = [device[target] EXCEPT !.status = "revoked"]
      /\ \A x \in Device : x # target => device'[x] = device[x]
      /\ \A x \in Device : device'[x].type = device[x].type
      /\ device'[target].status = "revoked"
  BY <1>1, <1>2 DEF TypeOK
<1>4. TypeOK'
  <2>1. \A x \in Device : device'[x] \in DeviceRow
    BY <1>2, <1>3, RowTypes DEF DeviceRow
  <2> QED
    BY <2>1, <1>1, AllRevokedRows DEF TypeOK
<1>5. \A x \in Device : Registered(x) => Registered(x)'
  BY <1>3 DEF Registered
<1>6. RowsHaveDevices'
  BY <1>1, <1>5, AllRevokedRows DEF RowsHaveDevices
<1>7. OneCurrentPair'
  BY <1>1, AllRevokedRows DEF OneCurrentPair, LiveAccess, LiveRefresh, Unused
<1>8. NoCredentialAfterShutdown'
  <2> SUFFICES ASSUME NEW x \in Pair, ~Unused(x)', pair[x].device # target,
                      (reused[pair[x].device] \/ ~IsActive(pair[x].device))'
               PROVE  (pair[x].accessRevoked /\ pair[x].refreshRevoked)'
    BY <1>1, AllRevokedRows DEF NoCredentialAfterShutdown
  <2>1. pair'[x] = pair[x] /\ pair[x].device \in Device
    BY <1>1, AllRevokedRows, RowTypes DEF Unused, PairRow
  <2> QED
    BY <2>1, <1>1, <1>3 DEF NoCredentialAfterShutdown, Unused, IsActive
<1>9. RegisteredUntilShutdown'
  <2> SUFFICES ASSUME NEW x \in Device, IsActive(x), ~reused[x], x # target
               PROVE  \E y \in Pair : pair'[y].device = x /\ LiveRefresh(y)'
    BY <1>1, <1>3 DEF RegisteredUntilShutdown, HoldsRefresh, IsActive
  <2>1. PICK y \in Pair : pair[y].device = x /\ LiveRefresh(y)
    BY DEF RegisteredUntilShutdown, HoldsRefresh
  <2>2. pair'[y] = pair[y]
    BY <2>1, <1>1, AllRevokedRows
  <2> QED
    BY <2>1, <2>2 DEF LiveRefresh, Unused
<1>10. OneTrustedPC'
  <2>1. PICK pc \in Device : /\ IsTrustedPC(pc) /\ IsActive(pc)
                             /\ \A x \in Device : IsTrustedPC(x) => x = pc
    BY <1>1, RowTypes DEF OneTrustedPC
  <2>2. pc = actor
    BY <2>1, <1>1
  <2> QED
    BY <2>1, <2>2, <1>1, <1>3 DEF OneTrustedPC, IsTrustedPC, IsActive
<1> QED
  BY <1>4, <1>6, <1>7, <1>8, <1>9, <1>10

\* Steps that leave the tables alone preserve the invariant.
LEMMA TablesUnchangedInv ==
  ASSUME Inv, now' \in Nat, UNCHANGED <<device, pair, reused>>
  PROVE  Inv'
  BY DEF Inv, TypeOK, RowsHaveDevices, OneCurrentPair, NoCredentialAfterShutdown,
         RegisteredUntilShutdown, HoldsRefresh, OneTrustedPC, Registered, IsActive, IsTrustedPC,
         Unused, LiveAccess, LiveRefresh

LEMMA NextInv ==
  ASSUME Inv, [Next]_credVars
  PROVE  Inv'
<1>1. now \in Nat
  BY DEF Inv, TypeOK
<1>2. ASSUME NEW d \in Device, NEW p \in Pair, NEW t \in 0..now,
             RegisterTrustedPC(d, p, t)
      PROVE  Inv'
  BY <1>2, RegisterInv DEF RegisterTrustedPC, DeviceType
<1>3. ASSUME NEW d \in Device, NEW type \in EnrolledType, NEW p \in Pair,
             NEW t \in 0..now, RegisterEnrolled(d, type, p, t)
      PROVE  Inv'
  BY <1>3, RegisterInv DEF RegisterEnrolled, DeviceType, EnrolledType
<1>4. ASSUME NEW p \in Pair, NEW q \in Pair, NEW local \in BOOLEAN,
             RotateRefresh(p, q, local)
      PROVE  Inv'
  BY <1>4, RotateInv
<1>5. ASSUME NEW p \in Pair, NEW local \in BOOLEAN, DetectReuse(p, local)
      PROVE  Inv'
  BY <1>5, ReuseInv
<1>6. ASSUME NEW p \in Pair, NEW local \in BOOLEAN, RejectRefresh(p, local)
      PROVE  Inv'
  BY <1>1, <1>6, TablesUnchangedInv DEF RejectRefresh, credVars
<1>7. ASSUME NEW target \in Device, NEW actor \in Device, RevokeDevice(target, actor)
      PROVE  Inv'
  BY <1>7, RevokeInv
<1>8. ASSUME Tick PROVE Inv'
  BY <1>1, <1>8, TablesUnchangedInv DEF Tick
<1>9. CASE UNCHANGED credVars
  BY <1>1, <1>9, TablesUnchangedInv DEF credVars
<1> QED
  BY <1>2, <1>3, <1>4, <1>5, <1>6, <1>7, <1>8, <1>9 DEF Next

THEOREM Invariance == Spec => []Inv
  BY InitInv, NextInv, PTL DEF Spec

\* Every reachable state is made of rows of the schema.
THEOREM TypeCorrect == Spec => []TypeOK
  BY Invariance, PTL DEF Inv

\* A device never has two couples that work (the rotation of credentials.go).
THEOREM CurrentPairUnique == Spec => []OneCurrentPair
  BY Invariance, PTL DEF Inv

\* No credential outlives a revocation or a detected reuse.
THEOREM ShutdownComplete == Spec => []NoCredentialAfterShutdown
  BY Invariance, PTL DEF Inv

\* Only a revocation or a detected reuse takes a device its last credential.
THEOREM RegistrationKept == Spec => []RegisteredUntilShutdown
  BY Invariance, PTL DEF Inv

\* The household keeps exactly one trusted PC.
THEOREM TrustedPCKept == Spec => []OneTrustedPC
  BY Invariance, PTL DEF Inv

-----------------------------------------------------------------------------
\* From here on, the store implements the life of a device.  Each lemma says how
\* one transaction moves every device through its phases.
phases == [d \in Device |-> PhaseOf(d)]

\* A step that moves one device and no other.
LEMMA OnePhaseChanges ==
  ASSUME NEW d \in Device, NEW v, PhaseOf(d)' = v,
         \A x \in Device \ {d} : PhaseOf(x)' = PhaseOf(x)
  PROVE  phases' = [phases EXCEPT ![d] = v]
  BY DEF phases

\* The phase of a device depends on its row and on whether it holds a credential.
LEMMA SamePhase ==
  ASSUME NEW x \in Device, device'[x] = device[x], HoldsRefresh(x)' <=> HoldsRefresh(x)
  PROVE  PhaseOf(x)' = PhaseOf(x)
  BY DEF PhaseOf, Registered, IsActive

LEMMA RegisterPhase ==
  ASSUME Inv, NEW d \in Device, NEW type \in DeviceType, NEW p \in Pair,
         NEW t \in 0..now, Register(d, type, p, t)
  PROVE  Lifecycle!Register(d)
<1>1. /\ ~Registered(d) /\ Unused(p)
      /\ device' = [device EXCEPT ![d] = [type |-> type, status |-> "active"]]
      /\ pair' = [pair EXCEPT ![p] = IssuedPair(d, t)]
  BY DEF Register
<1>2. /\ device'[d] = [type |-> type, status |-> "active"]
      /\ \A x \in Device \ {d} : device'[x] = device[x]
      /\ pair'[p] = IssuedPair(d, t)
      /\ \A y \in Pair \ {p} : pair'[y] = pair[y]
  BY <1>1 DEF Inv, TypeOK
<1>3. PhaseOf(d) = "absent"
  BY <1>1 DEF PhaseOf
<1>4. HoldsRefresh(d)'
  BY <1>2, NoneAssumption DEF HoldsRefresh, LiveRefresh, Unused, IssuedPair
<1>5. PhaseOf(d)' = "registered"
  BY <1>2, <1>4 DEF PhaseOf, Registered, IsActive
<1>6. ASSUME NEW x \in Device \ {d}
      PROVE  PhaseOf(x)' = PhaseOf(x)
  <2>1. HoldsRefresh(x)' <=> HoldsRefresh(x)
    BY <1>1, <1>2 DEF HoldsRefresh, LiveRefresh, Unused, IssuedPair
  <2> QED
    BY <2>1, <1>2, SamePhase
<1>7. phases' = [phases EXCEPT ![d] = "registered"]
  BY <1>5, <1>6, OnePhaseChanges
<1>8. phases[d] = "absent"
  BY <1>3 DEF phases
<1> QED
  BY <1>7, <1>8 DEF Lifecycle!Register, phases

\* An exchange moves no device.
LEMMA RotatePhase ==
  ASSUME Inv, NEW p \in Pair, NEW q \in Pair, NEW local \in BOOLEAN,
         RotateRefresh(p, q, local)
  PROVE  phases' = phases
<1> DEFINE d == pair[p].device
<1>1. /\ LiveRefresh(p) /\ Unused(q) /\ p # q
      /\ pair' = AfterRotation(p, q) /\ device' = device
  BY DEF RotateRefresh, Exchangeable, LiveRefresh, Unused
<1>2. d \in Device /\ d # None
  BY <1>1, RowTypes, NoneAssumption DEF Inv, PairRow, LiveRefresh, Unused
<1>3. /\ pair'[q] = IssuedPair(d, now)
      /\ pair'[p] = [pair[p] EXCEPT !.accessRevoked = TRUE, !.refreshConsumed = TRUE]
      /\ \A y \in Pair \ {p, q} :
           /\ pair[y].device = d => pair'[y] = [pair[y] EXCEPT !.accessRevoked = TRUE]
           /\ pair[y].device # d => pair'[y] = pair[y]
  BY <1>1 DEF AfterRotation
<1>4. pair'[p].device = d /\ pair'[q].device = d
  BY <1>3, RowTypes DEF Inv, PairRow, IssuedPair
<1>5. ASSUME NEW x \in Device
      PROVE  HoldsRefresh(x)' <=> HoldsRefresh(x)
  <2>1. CASE x = d
    BY <2>1, <1>1, <1>2, <1>3 DEF HoldsRefresh, LiveRefresh, Unused, IssuedPair
  <2>2. CASE x # d
    <3>1. ASSUME NEW y \in Pair, pair'[y].device = x
          PROVE  pair'[y] = pair[y]
      <4>1. y # p /\ y # q
        BY <2>2, <3>1, <1>4
      <4>2. CASE pair[y].device = d
        <5>1. pair'[y] = [pair[y] EXCEPT !.accessRevoked = TRUE] /\ pair[y] \in PairRow
          BY <4>1, <4>2, <1>3, RowTypes DEF Inv
        <5>2. pair'[y].device = pair[y].device
          BY <5>1 DEF PairRow
        <5> QED
          BY <5>2, <4>2, <3>1, <2>2
      <4>3. CASE pair[y].device # d
        BY <4>1, <4>3, <1>3
      <4> QED
        BY <4>2, <4>3
    <3>2. ASSUME NEW y \in Pair, pair[y].device = x
          PROVE  pair'[y] = pair[y]
      <4>1. y # q
        BY <3>2, <1>1, NoneAssumption DEF Unused
      <4> QED
        BY <4>1, <3>2, <2>2, <1>3
    <3> QED
      BY <3>1, <3>2 DEF HoldsRefresh, LiveRefresh, Unused
  <2> QED
    BY <2>1, <2>2
<1> QED
  BY <1>1, <1>5, SamePhase DEF phases

\* Revoking all credentials of d takes d its phase "registered" and moves no other.
LEMMA RevokedPhase ==
  ASSUME NEW d \in Device,
         \A y \in Pair :
           /\ pair'[y].device = pair[y].device
           /\ pair[y].device = d => pair'[y].refreshRevoked
           /\ pair[y].device # d => pair'[y] = pair[y]
  PROVE  /\ ~HoldsRefresh(d)'
         /\ \A x \in Device \ {d} : HoldsRefresh(x)' <=> HoldsRefresh(x)
<1>1. ~HoldsRefresh(d)'
  BY DEF HoldsRefresh, LiveRefresh
<1>2. ASSUME NEW x \in Device \ {d}
      PROVE  HoldsRefresh(x)' <=> HoldsRefresh(x)
  BY <1>2 DEF HoldsRefresh, LiveRefresh, Unused
<1> QED
  BY <1>1, <1>2

LEMMA ReusePhase ==
  ASSUME Inv, NEW p \in Pair, NEW local \in BOOLEAN, DetectReuse(p, local)
  PROVE  phases' = phases \/ \E d \in Device : Lifecycle!LockOut(d)
<1>1. PICK d \in Device : d = pair[p].device /\ Registered(d)
  BY RowTypes DEF Inv, DetectReuse, Refreshable, Unused, PairRow, RowsHaveDevices
<1>2. pair' = AllRevoked(d) /\ device' = device
  BY <1>1 DEF DetectReuse
<1>3. \A x \in Device \ {d} : PhaseOf(x)' = PhaseOf(x)
  BY <1>1, <1>2, AllRevokedRows, RevokedPhase, SamePhase DEF Inv
<1>4. CASE HoldsRefresh(d) /\ IsActive(d)
  <2>1. phases[d] = "registered"
    BY <1>1, <1>4 DEF PhaseOf, phases
  <2>2. PhaseOf(d)' = "locked_out"
    BY <1>1, <1>2, <1>4, RevokedPhase, AllRevokedRows DEF Inv, PhaseOf, Registered, IsActive
  <2>3. phases' = [phases EXCEPT ![d] = "locked_out"]
    BY <2>2, <1>1, <1>3, OnePhaseChanges
  <2> QED
    BY <2>1, <2>3, <1>1 DEF Lifecycle!LockOut, phases
<1>5. CASE ~(HoldsRefresh(d) /\ IsActive(d))
  <2>1. PhaseOf(d)' = PhaseOf(d)
    BY <1>1, <1>2, <1>5, RevokedPhase, AllRevokedRows DEF Inv, PhaseOf, Registered, IsActive
  <2> QED
    BY <2>1, <1>1, <1>3 DEF phases
<1> QED
  BY <1>4, <1>5

LEMMA RevokePhase ==
  ASSUME Inv, NEW target \in Device, NEW actor \in Device,
         RevokeDevice(target, actor)
  PROVE  Lifecycle!Revoke(target, actor)
<1>1. /\ target # actor /\ IsTrustedPC(actor) /\ IsActive(target)
      /\ device' = [device EXCEPT ![target].status = "revoked"]
      /\ pair' = AllRevoked(target)
  BY DEF RevokeDevice
<1>2. device[target] \in [type : DeviceType, status : {"active", "revoked"}]
  BY <1>1, RowTypes DEF Inv, DeviceRow, NoDevice, IsActive
<1>3. /\ \A x \in Device \ {target} : device'[x] = device[x]
      /\ device'[target].status = "revoked"
  BY <1>1, <1>2 DEF Inv, TypeOK
<1>4. Registered(target) /\ Registered(actor) /\ IsActive(actor)
  BY <1>1, RowTypes DEF Inv, OneTrustedPC
<1>5. phases[target] \in {"registered", "locked_out"}
  BY <1>1, <1>4 DEF PhaseOf, phases
<1>6. phases[actor] \in {"registered", "locked_out"}
  BY <1>4 DEF PhaseOf, phases
<1>7. PhaseOf(target)' = "revoked"
  BY <1>3 DEF PhaseOf, Registered, IsActive
<1>8. \A x \in Device \ {target} : PhaseOf(x)' = PhaseOf(x)
  BY <1>1, <1>3, AllRevokedRows, RevokedPhase, SamePhase DEF Inv
<1>9. phases' = [phases EXCEPT ![target] = "revoked"]
  BY <1>7, <1>8, OnePhaseChanges
<1> QED
  BY <1>1, <1>5, <1>6, <1>9 DEF Lifecycle!Revoke, phases

\* Every transaction is one step of DeviceLifecycle or none.
LEMMA StepRefines ==
  ASSUME Inv, [Next]_credVars
  PROVE  [Lifecycle!Next]_phases
<1>1. ASSUME NEW d \in Device, NEW p \in Pair, NEW t \in 0..now,
             RegisterTrustedPC(d, p, t)
      PROVE  Lifecycle!Next
  BY <1>1, RegisterPhase DEF RegisterTrustedPC, DeviceType, Lifecycle!Next
<1>2. ASSUME NEW d \in Device, NEW type \in EnrolledType, NEW p \in Pair,
             NEW t \in 0..now, RegisterEnrolled(d, type, p, t)
      PROVE  Lifecycle!Next
  BY <1>2, RegisterPhase DEF RegisterEnrolled, DeviceType, Lifecycle!Next
<1>3. ASSUME NEW p \in Pair, NEW q \in Pair, NEW local \in BOOLEAN,
             RotateRefresh(p, q, local)
      PROVE  phases' = phases
  BY <1>3, RotatePhase
<1>4. ASSUME NEW p \in Pair, NEW local \in BOOLEAN, DetectReuse(p, local)
      PROVE  phases' = phases \/ Lifecycle!Next
  BY <1>4, ReusePhase DEF Lifecycle!Next
<1>5. ASSUME NEW target \in Device, NEW actor \in Device, RevokeDevice(target, actor)
      PROVE  Lifecycle!Next
  BY <1>5, RevokePhase DEF Lifecycle!Next
<1>6. ASSUME UNCHANGED <<device, pair>>
      PROVE  phases' = phases
  BY <1>6, SamePhase DEF phases, HoldsRefresh, LiveRefresh, Unused
<1>7. ASSUME NEW p \in Pair, NEW local \in BOOLEAN, RejectRefresh(p, local)
      PROVE  phases' = phases
  BY <1>7, <1>6 DEF RejectRefresh, credVars
<1>8. ASSUME Tick \/ UNCHANGED credVars
      PROVE  phases' = phases
  BY <1>8, <1>6 DEF Tick, credVars
<1> QED
  BY <1>1, <1>2, <1>3, <1>4, <1>5, <1>7, <1>8 DEF Next

\* The credential store implements DeviceLifecycle: whatever rotations, reuse and
\* revocations do to the rows, a device only ever moves absent, registered,
\* locked out, revoked, and is revoked only by another device of the household.
THEOREM ImplementsLifecycle == Spec => LifecycleSpec
<1>1. Init => phases = [d \in Device |-> "absent"]
  BY DEF Init, phases, PhaseOf, Registered, NoDevice
<1>2. Init => Lifecycle!Init
  BY <1>1 DEF Lifecycle!Init, phases
<1>3. Inv /\ [Next]_credVars => [Lifecycle!Next]_phases
  BY StepRefines
<1> QED
  BY <1>2, <1>3, Invariance, PTL DEF Spec, LifecycleSpec, Lifecycle!Spec, phases

\* Once a registered device holds no exchangeable credential it never holds one
\* again: the phases have no way back.
THEOREM NoWayBack == Spec => ShutdownIsFinal
<1>1. ASSUME Inv, Inv', [Next]_credVars, NEW d \in Device,
             Registered(d), HoldsRefresh(d)'
      PROVE  HoldsRefresh(d)
  <2>1. PICK p \in Pair : (pair[p].device = d /\ LiveRefresh(p))'
    BY <1>1 DEF HoldsRefresh
  <2>2. IsActive(d)'
    BY <2>1, <1>1 DEF Inv, NoCredentialAfterShutdown, LiveRefresh
  <2>3. phases'[d] = "registered"
    <3>1. Registered(d)'
      BY <2>2 DEF IsActive, Registered
    <3> QED
      BY <3>1, <2>2, <1>1 DEF phases, PhaseOf
  <2>4. [Lifecycle!Next]_phases
    BY <1>1, StepRefines
  <2>5. phases[d] # "absent"
    BY <1>1 DEF phases, PhaseOf
  <2>6. phases[d] = "registered"
    BY <2>3, <2>4, <2>5 DEF phases, Lifecycle!Next, Lifecycle!Register,
       Lifecycle!LockOut, Lifecycle!Revoke
  <2> QED
    BY <2>6 DEF phases, PhaseOf
<1>2. Inv /\ Inv' /\ [Next]_credVars =>
        [\A d \in Device : Registered(d) /\ HoldsRefresh(d)' => HoldsRefresh(d)]_credVars
  BY <1>1
<1> QED
  BY <1>2, Invariance, PTL DEF Spec, ShutdownIsFinal

-----------------------------------------------------------------------------
(* How many couples a device was issued, and whose rows a step touches. *)

Issued(d) == {p \in Pair : pair[p].device = d}
Consumed(d) == {p \in Issued(d) : pair[p].refreshConsumed}

\* ExchangedOnce, with what makes its counts grow: both sets are finite.
Counted ==
  \A d \in Device : Registered(d) =>
    /\ IsFiniteSet(Issued(d)) /\ IsFiniteSet(Consumed(d))
    /\ Cardinality(Issued(d)) = 1 + Cardinality(Consumed(d))

\* A step that keeps the owners and the consumed credentials keeps the counts.
LEMMA SameCount ==
  ASSUME NEW d \in Device,
         \A x \in Pair : /\ pair'[x].device = d <=> pair[x].device = d
                         /\ pair[x].device = d =>
                              pair'[x].refreshConsumed = pair[x].refreshConsumed
  PROVE  Issued(d)' = Issued(d) /\ Consumed(d)' = Consumed(d)
  BY DEF Issued, Consumed

\* A registration issues the first couple.
LEMMA RegisterCount ==
  ASSUME Inv, Counted, NEW d \in Device, NEW type \in DeviceType, NEW p \in Pair,
         NEW t \in 0..now, Register(d, type, p, t)
  PROVE  Counted'
<1>1. /\ ~Registered(d) /\ Unused(p)
      /\ device' = [device EXCEPT ![d] = [type |-> type, status |-> "active"]]
      /\ pair' = [pair EXCEPT ![p] = IssuedPair(d, t)]
  BY DEF Register
<1>2. \A x \in Pair : pair'[x] = IF x = p THEN IssuedPair(d, t) ELSE pair[x]
  BY <1>1 DEF Inv, TypeOK
<1>3. d # None /\ \A x \in Pair : pair[x].device # d
  BY <1>1, NoneAssumption DEF Inv, RowsHaveDevices
<1> SUFFICES ASSUME NEW x \in Device, Registered(x)'
             PROVE  /\ IsFiniteSet(Issued(x))' /\ IsFiniteSet(Consumed(x))'
                    /\ (Cardinality(Issued(x)) = 1 + Cardinality(Consumed(x)))'
  BY DEF Counted
<1>4. CASE x = d
  <2>1. Issued(x)' = {p} /\ Consumed(x)' = {}
    BY <1>2, <1>3, <1>4 DEF Issued, Consumed, IssuedPair
  <2>2. /\ IsFiniteSet({p}) /\ Cardinality({p}) = 1
        /\ IsFiniteSet({}) /\ Cardinality({}) = 0
    BY FS_Singleton, FS_EmptySet
  <2> QED
    BY <2>1, <2>2
<1>5. CASE x # d
  <2>1. Registered(x)
    BY <1>1, <1>5 DEF Inv, TypeOK, Registered
  <2>2. pair[p].device # x
    BY <1>1, NoneAssumption DEF Unused
  <2>3. Issued(x)' = Issued(x) /\ Consumed(x)' = Consumed(x)
    BY <1>2, <1>5, <2>2, SameCount DEF IssuedPair
  <2> QED
    BY <2>1, <2>3 DEF Counted
<1> QED
  BY <1>4, <1>5

\* What a rotation does to the rows of every device.
LEMMA RotatedRows ==
  ASSUME TypeOK, NEW p \in Pair, NEW q \in Pair, p # q, pair' = AfterRotation(p, q)
  PROVE  /\ pair'[q] = IssuedPair(pair[p].device, now)
         /\ pair'[p].device = pair[p].device /\ pair'[p].refreshConsumed
         /\ \A x \in Pair \ {p, q} :
              /\ pair'[x].device = pair[x].device
              /\ pair'[x].refreshConsumed = pair[x].refreshConsumed
              /\ pair[x].device # pair[p].device => pair'[x] = pair[x]
<1>1. pair'[q] = IssuedPair(pair[p].device, now)
  BY DEF AfterRotation
<1>2. pair'[p].device = pair[p].device /\ pair'[p].refreshConsumed
  <2>1. pair'[p] = [pair[p] EXCEPT !.accessRevoked = TRUE, !.refreshConsumed = TRUE]
    BY DEF AfterRotation
  <2> QED
    BY <2>1, RowTypes DEF PairRow
<1>3. ASSUME NEW x \in Pair \ {p, q}
      PROVE  /\ pair'[x].device = pair[x].device
             /\ pair'[x].refreshConsumed = pair[x].refreshConsumed
             /\ pair[x].device # pair[p].device => pair'[x] = pair[x]
  <2>1. pair'[x] = IF pair[x].device = pair[p].device
                   THEN [pair[x] EXCEPT !.accessRevoked = TRUE] ELSE pair[x]
    BY DEF AfterRotation
  <2> QED
    BY <2>1, RowTypes DEF PairRow
<1> QED
  BY <1>1, <1>2, <1>3

\* A rotation issues one couple and consumes one.
LEMMA RotateCount ==
  ASSUME Inv, Counted, NEW p \in Pair, NEW q \in Pair, NEW local \in BOOLEAN,
         RotateRefresh(p, q, local)
  PROVE  Counted'
<1> DEFINE d == pair[p].device
<1>1. /\ LiveRefresh(p) /\ IsActive(d) /\ Unused(q) /\ p # q
      /\ pair' = AfterRotation(p, q) /\ device' = device
  BY DEF RotateRefresh, Exchangeable, LiveRefresh, Unused
<1>2. d \in Device /\ d # None /\ Registered(d) /\ ~pair[p].refreshConsumed
      /\ pair[q].device = None
  BY <1>1, RowTypes, NoneAssumption DEF Inv, PairRow, LiveRefresh, Unused
<1> SUFFICES ASSUME NEW x \in Device, Registered(x)
             PROVE  /\ IsFiniteSet(Issued(x))' /\ IsFiniteSet(Consumed(x))'
                    /\ (Cardinality(Issued(x)) = 1 + Cardinality(Consumed(x)))'
  BY <1>1 DEF Counted, Registered
<1>3. /\ IsFiniteSet(Issued(x)) /\ IsFiniteSet(Consumed(x))
      /\ Cardinality(Issued(x)) = 1 + Cardinality(Consumed(x))
  BY DEF Counted
<1>4. /\ pair'[q].device = d /\ ~pair'[q].refreshConsumed
      /\ pair'[p].device = d /\ pair'[p].refreshConsumed
      /\ \A y \in Pair \ {p, q} :
           /\ pair'[y].device = pair[y].device
           /\ pair'[y].refreshConsumed = pair[y].refreshConsumed
  <2>1. TypeOK
    BY DEF Inv
  <2>2. IssuedPair(d, now).device = d /\ ~IssuedPair(d, now).refreshConsumed
    BY DEF IssuedPair
  <2>3. pair'[q] = IssuedPair(d, now)
    BY <1>1, <2>1, RotatedRows
  <2> QED
    BY <1>1, <2>1, <2>2, <2>3, RotatedRows
<1>5. CASE x = d
  <2>1. Issued(x)' = Issued(x) \cup {q} /\ q \notin Issued(x)
    BY <1>2, <1>4, <1>5 DEF Issued
  <2>2. Consumed(x)' = Consumed(x) \cup {p} /\ p \notin Consumed(x)
    BY <1>2, <1>4, <1>5 DEF Issued, Consumed
  <2>3. /\ IsFiniteSet(Issued(x) \cup {q}) /\ IsFiniteSet(Consumed(x) \cup {p})
        /\ Cardinality(Issued(x) \cup {q}) = Cardinality(Issued(x)) + 1
        /\ Cardinality(Consumed(x) \cup {p}) = Cardinality(Consumed(x)) + 1
    BY <1>3, <2>1, <2>2, FS_AddElement
  <2>4. Cardinality(Consumed(x)) \in Nat
    BY <1>3, FS_CardinalityType
  <2> QED
    BY <1>3, <2>1, <2>2, <2>3, <2>4
<1>6. CASE x # d
  <2>1. x # None
    BY NoneAssumption
  <2>2. Issued(x)' = Issued(x) /\ Consumed(x)' = Consumed(x)
    BY <1>2, <1>4, <1>6, <2>1, SameCount
  <2> QED
    BY <1>3, <2>2
<1> QED
  BY <1>5, <1>6

\* Every other step keeps the counts.
LEMMA CountStep ==
  ASSUME Inv, Counted, [Next]_credVars
  PROVE  Counted'
<1>1. ASSUME NEW d \in Device, NEW type \in DeviceType, NEW p \in Pair, NEW t \in 0..now,
             Register(d, type, p, t)
      PROVE  Counted'
  BY <1>1, RegisterCount
<1>2. ASSUME NEW p \in Pair, NEW q \in Pair, NEW local \in BOOLEAN, RotateRefresh(p, q, local)
      PROVE  Counted'
  BY <1>2, RotateCount
<1>3. ASSUME NEW d \in Device, pair' = AllRevoked(d),
             \A x \in Device : Registered(x)' => Registered(x)
      PROVE  Counted'
  <2>1. \A x \in Device : Issued(x)' = Issued(x) /\ Consumed(x)' = Consumed(x)
    BY <1>3, AllRevokedRows, SameCount DEF Inv
  <2> QED
    BY <1>3, <2>1 DEF Counted
<1>4. ASSUME NEW p \in Pair, NEW local \in BOOLEAN, DetectReuse(p, local)
      PROVE  Counted'
  <2>1. pair[p].device \in Device /\ pair' = AllRevoked(pair[p].device) /\ device' = device
    BY <1>4, RowTypes DEF Inv, DetectReuse, Refreshable, Unused, PairRow
  <2> QED
    BY <1>3, <2>1 DEF Registered
<1>5. ASSUME NEW target \in Device, NEW actor \in Device, RevokeDevice(target, actor)
      PROVE  Counted'
  <2>1. /\ IsActive(target) /\ pair' = AllRevoked(target)
        /\ device' = [device EXCEPT ![target].status = "revoked"]
    BY <1>5 DEF RevokeDevice
  <2>2. \A x \in Device : Registered(x)' => Registered(x)
    BY <2>1 DEF Inv, TypeOK, Registered, IsActive
  <2> QED
    BY <1>3, <2>1, <2>2
<1>6. ASSUME UNCHANGED <<device, pair>>
      PROVE  Counted'
  BY <1>6 DEF Counted, Issued, Consumed, Registered
<1> QED
  BY <1>1, <1>2, <1>4, <1>5, <1>6
  DEF Next, RegisterTrustedPC, RegisterEnrolled, RejectRefresh, Tick, credVars, DeviceType

\* However often a refresh credential is presented, it buys one successor.
THEOREM OneSuccessor == Spec => []ExchangedOnce
<1>1. Init => Counted
  BY DEF Init, Counted, Registered, NoDevice
<1>2. Spec => []Counted
  BY <1>1, CountStep, Invariance, PTL DEF Spec
<1>3. Counted => ExchangedOnce
  BY DEF Counted, ExchangedOnce, Issued, Consumed
<1> QED
  BY <1>2, <1>3, PTL

\* No transaction touches the credentials of two devices.
THEOREM OthersAreUnaffected == Spec => OthersUnaffected
<1>1. ASSUME Inv, Next
      PROVE  \E d : \A p \in Pair : pair'[p] # pair[p] => pair'[p].device = d
  <2>1. ASSUME NEW d \in Device, NEW type \in DeviceType, NEW p \in Pair, NEW t \in 0..now,
               Register(d, type, p, t)
        PROVE  \A x \in Pair : pair'[x] # pair[x] => pair'[x].device = d
    BY <2>1, <1>1 DEF Register, IssuedPair, Inv, TypeOK
  <2>2. ASSUME NEW p \in Pair, NEW q \in Pair, NEW local \in BOOLEAN,
               RotateRefresh(p, q, local)
        PROVE  \A x \in Pair : pair'[x] # pair[x] => pair'[x].device = pair[p].device
    <3>1. p # q /\ pair' = AfterRotation(p, q)
      BY <2>2 DEF RotateRefresh, Exchangeable, LiveRefresh, Unused
    <3>2. /\ pair'[q].device = pair[p].device /\ pair'[p].device = pair[p].device
          /\ \A x \in Pair \ {p, q} :
               pair[x].device # pair[p].device => pair'[x] = pair[x]
          /\ \A x \in Pair \ {p, q} : pair'[x].device = pair[x].device
      <4>1. TypeOK
        BY <1>1 DEF Inv
      <4>2. IssuedPair(pair[p].device, now).device = pair[p].device
        BY DEF IssuedPair
      <4>3. pair'[q] = IssuedPair(pair[p].device, now)
        BY <3>1, <4>1, RotatedRows
      <4> QED
        BY <3>1, <4>1, <4>2, <4>3, RotatedRows
    <3> QED
      BY <3>2
  <2>3. ASSUME NEW d \in Device, pair' = AllRevoked(d)
        PROVE  \A x \in Pair : pair'[x] # pair[x] => pair'[x].device = d
    BY <1>1, <2>3, AllRevokedRows DEF Inv
  <2>4. ASSUME NEW p \in Pair, NEW local \in BOOLEAN, DetectReuse(p, local)
        PROVE  \A x \in Pair : pair'[x] # pair[x] => pair'[x].device = pair[p].device
    <3>1. pair[p].device \in Device /\ pair' = AllRevoked(pair[p].device)
      BY <1>1, <2>4, RowTypes DEF Inv, DetectReuse, Refreshable, Unused, PairRow
    <3> QED
      BY <3>1, <2>3
  <2>5. ASSUME NEW target \in Device, NEW actor \in Device, RevokeDevice(target, actor)
        PROVE  \A x \in Pair : pair'[x] # pair[x] => pair'[x].device = target
    BY <2>3, <2>5 DEF RevokeDevice
  <2>6. CASE pair' = pair
    BY <2>6
  <2> QED
    BY <1>1, <2>1, <2>2, <2>4, <2>5, <2>6
    DEF Next, RegisterTrustedPC, RegisterEnrolled, RejectRefresh, Tick, credVars, DeviceType
<1>2. Inv /\ [Next]_credVars =>
        [\A p, q \in Pair : pair'[p] # pair[p] /\ pair'[q] # pair[q] =>
           pair'[p].device = pair'[q].device]_credVars
  BY <1>1
<1> QED
  BY <1>2, Invariance, PTL DEF Spec, OthersUnaffected

=============================================================================
