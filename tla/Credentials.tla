----------------------------- MODULE Credentials -----------------------------
(***************************************************************************)
(* Registered devices and their credentials: the tables `devices` and      *)
(* `device_credentials` and the transactions that write them, each one     *)
(* action (the server has one SQLite connection, so transactions never     *)
(* overlap).                                                               *)
(*                                                                         *)
(* An access and a refresh credential are only ever inserted together, by  *)
(* one transaction, for one device; the model keeps such a couple as one   *)
(* row, a Pair.  The family_id of the schema is created with the device    *)
(* and copied by every rotation, so "the family" is the device's pairs.    *)
(* A token is its row: whoever presents a token presents a Pair.           *)
(*                                                                         *)
(* The definitions called Mutant are not part of the model: each is a      *)
(* plausible mistake in the code that the properties must notice.          *)
(***************************************************************************)
EXTENDS Integers, FiniteSets

CONSTANTS
  Device,           \* device identifiers
  Pair,             \* identifiers of issued access/refresh couples
  None,             \* the owner of a pair that was not issued yet
  AccessLifetime,   \* 30 days in the program
  RefreshLifetime,  \* 90 days in the program
  MaxTime           \* bound of the clock

ASSUME NoneAssumption == None \notin Device
ASSUME TimeAssumption ==
  AccessLifetime \in Nat /\ RefreshLifetime \in Nat /\ MaxTime \in Nat

VARIABLES
  now,     \* the clock the handlers read with time.Now
  device,  \* the table devices: device[d] is a row or NoDevice
  pair,    \* the table device_credentials, a couple per row
  reused   \* the devices with a refresh_reuse_detected security event

credVars == <<now, device, pair, reused>>

-----------------------------------------------------------------------------
EnrolledType == {"parent_mobile", "shared_tablet"}
DeviceType == EnrolledType \cup {"trusted_pc"}

NoDevice == [type |-> "none", status |-> "absent"]
DeviceRow == {NoDevice} \cup [type : DeviceType, status : {"active", "revoked"}]

PairRow == [device : Device \cup {None}, created : Nat,
            accessRevoked : BOOLEAN, refreshConsumed : BOOLEAN,
            refreshRevoked : BOOLEAN]

\* The couple a transaction inserts for device d at the time t its handler read.
IssuedPair(d, t) ==
  [device |-> d, created |-> t, accessRevoked |-> FALSE,
   refreshConsumed |-> FALSE, refreshRevoked |-> FALSE]

Unused(p) == pair[p].device = None
IsActive(d) == device[d].status = "active"
Registered(d) == device[d].status # "absent"
IsTrustedPC(d) == device[d].type = "trusted_pc"
LocalOnly(d) == device[d].type = "shared_tablet"

LiveAccess(p) == ~Unused(p) /\ ~pair[p].accessRevoked
LiveRefresh(p) ==
  ~Unused(p) /\ ~pair[p].refreshConsumed /\ ~pair[p].refreshRevoked
HoldsRefresh(d) == \E p \in Pair : pair[p].device = d /\ LiveRefresh(p)
RefreshExpired(p) == now >= pair[p].created + RefreshLifetime

\* DeviceByAccessToken finds a device for the access credential of p.
Authenticates(p) ==
  /\ LiveAccess(p)
  /\ now < pair[p].created + AccessLifetime
  /\ IsActive(pair[p].device)

\* The refresh credential is known, and presented from where it may be: looked
\* at before consumption, revocation, status and expiry are.
Refreshable(p, local) == ~Unused(p) /\ (LocalOnly(pair[p].device) => local)

-----------------------------------------------------------------------------
Init ==
  /\ now = 0
  /\ device = [d \in Device |-> NoDevice]
  /\ pair = [p \in Pair |-> IssuedPair(None, 0)]
  /\ reused = [d \in Device |-> FALSE]

\* The rows every registration inserts, dated with the handler's time t.
Register(d, type, p, t) ==
  /\ ~Registered(d)
  /\ Unused(p)
  /\ device' = [device EXCEPT ![d] = [type |-> type, status |-> "active"]]
  /\ pair' = [pair EXCEPT ![p] = IssuedPair(d, t)]
  /\ UNCHANGED <<now, reused>>

\* CompleteInitialSetup: at most once, while setup_complete is 0.
RegisterTrustedPC(d, p, t) ==
  /\ \A x \in Device : ~IsTrustedPC(x)
  /\ Register(d, "trusted_pc", p, t)

\* CompleteEnrollment: a request the trusted PC has approved.
RegisterEnrolled(d, type, p, t) ==
  /\ \E x \in Device : IsTrustedPC(x)
  /\ Register(d, type, p, t)

\* Mutant: the rotation leaves the earlier access credentials valid.
RotationKeepingAccess(p, q) ==
  [pair EXCEPT ![p].refreshConsumed = TRUE, ![q] = IssuedPair(pair[p].device, now)]

\* Mutant: the device's unconsumed credentials are revoked after the insert.
RotationRevokingLast(p, q) ==
  [pair EXCEPT ![p].accessRevoked = TRUE, ![p].refreshConsumed = TRUE,
               ![q] = [IssuedPair(pair[p].device, now) EXCEPT !.accessRevoked = TRUE,
                                                              !.refreshRevoked = TRUE]]

\* The credentials after the exchange of p for q: p is consumed, every access
\* credential of the device is revoked, and q is inserted last.
AfterRotation(p, q) ==
  [x \in Pair |->
     IF x = q THEN IssuedPair(pair[p].device, now)
     ELSE IF x = p
     THEN [pair[x] EXCEPT !.accessRevoked = TRUE, !.refreshConsumed = TRUE]
     ELSE IF pair[x].device = pair[p].device
     THEN [pair[x] EXCEPT !.accessRevoked = TRUE]
     ELSE pair[x]]

\* Mutant: a consumed credential is exchanged again.
ExchangeableAgain(p) ==
  ~Unused(p) /\ ~pair[p].refreshRevoked /\ IsActive(pair[p].device)

\* Mutant: a revoked credential is exchanged.
ExchangeableRevoked(p) ==
  ~Unused(p) /\ ~pair[p].refreshConsumed /\ IsActive(pair[p].device)

\* What RotateRefreshCredential demands of a credential that is not consumed.
Exchangeable(p) ==
  /\ LiveRefresh(p)
  /\ IsActive(pair[p].device)
  /\ ~RefreshExpired(p)

\* RotateRefreshCredential with a valid refresh credential p, issuing q.
RotateRefresh(p, q, local) ==
  /\ Refreshable(p, local)
  /\ Exchangeable(p)
  /\ Unused(q)
  /\ pair' = AfterRotation(p, q)
  /\ UNCHANGED <<now, device, reused>>

\* Mutant: the access credentials are forgotten.
RefreshRevoked(d) ==
  [p \in Pair |-> IF pair[p].device = d
                  THEN [pair[p] EXCEPT !.refreshRevoked = TRUE] ELSE pair[p]]

\* Mutant: the revocation forgets its WHERE clause.
EveryPairRevoked(d) ==
  [p \in Pair |-> IF ~Unused(p)
                  THEN [pair[p] EXCEPT !.accessRevoked = TRUE, !.refreshRevoked = TRUE]
                  ELSE pair[p]]

\* The credentials after every one of device d is revoked.
AllRevoked(d) ==
  [p \in Pair |-> IF pair[p].device = d
                  THEN [pair[p] EXCEPT !.accessRevoked = TRUE, !.refreshRevoked = TRUE]
                  ELSE pair[p]]

\* RotateRefreshCredential with a consumed refresh credential: the family is
\* revoked.  This comes before the other conditions of an exchange.
DetectReuse(p, local) ==
  LET d == pair[p].device IN
  /\ Refreshable(p, local)
  /\ pair[p].refreshConsumed
  /\ pair' = AllRevoked(d)
  /\ reused' = [reused EXCEPT ![d] = TRUE]
  /\ UNCHANGED <<now, device>>

\* RotateRefreshCredential refuses: an unknown credential, a local-only device
\* away from home, or a credential that is neither consumed nor exchangeable.
RejectRefresh(p, local) ==
  /\ ~Refreshable(p, local) \/ (~pair[p].refreshConsumed /\ ~Exchangeable(p))
  /\ UNCHANGED credVars

\* Mutant: a device may revoke itself.
RevokeAnyDevice(target, actor) ==
  /\ IsTrustedPC(actor)
  /\ IsActive(target)
  /\ device' = [device EXCEPT ![target].status = "revoked"]
  /\ pair' = AllRevoked(target)
  /\ UNCHANGED <<now, reused>>

\* Mutant: the UPDATE writes the new status into the wrong column.
RevokeDeviceType(target, actor) ==
  /\ target # actor
  /\ IsTrustedPC(actor)
  /\ IsActive(target)
  /\ device' = [device EXCEPT ![target].type = "revoked"]
  /\ pair' = AllRevoked(target)
  /\ UNCHANGED <<now, reused>>

\* RevokeDevice, which requireAdmin lets only the trusted PC reach.
RevokeDevice(target, actor) ==
  /\ target # actor
  /\ IsTrustedPC(actor)
  /\ IsActive(target)
  /\ device' = [device EXCEPT ![target].status = "revoked"]
  /\ pair' = AllRevoked(target)
  /\ UNCHANGED <<now, reused>>

Tick ==
  /\ now < MaxTime
  /\ now' = now + 1
  /\ UNCHANGED <<device, pair, reused>>

Next ==
  \/ \E d \in Device, p \in Pair, t \in 0..now : RegisterTrustedPC(d, p, t)
  \/ \E d \in Device, type \in EnrolledType, p \in Pair, t \in 0..now :
       RegisterEnrolled(d, type, p, t)
  \/ \E p, q \in Pair, local \in BOOLEAN : RotateRefresh(p, q, local)
  \/ \E p \in Pair, local \in BOOLEAN : DetectReuse(p, local)
  \/ \E p \in Pair, local \in BOOLEAN : RejectRefresh(p, local)
  \/ \E target, actor \in Device : RevokeDevice(target, actor)
  \/ Tick

Spec == Init /\ [][Next]_credVars

-----------------------------------------------------------------------------
\* Every table holds rows of its schema.
TypeOK ==
  /\ now \in Nat
  /\ device \in [Device -> DeviceRow]
  /\ pair \in [Pair -> PairRow]
  /\ reused \in [Device -> BOOLEAN]

\* However rotations, reuse and revocations interleave, a device has at most
\* one couple that still works: its newest one.  An access credential is valid
\* only while the refresh credential issued with it is (credentials.go:139-173).
OneCurrentPair ==
  \A p, q \in Pair :
    /\ LiveAccess(p) => LiveRefresh(p)
    /\ LiveRefresh(p) /\ LiveRefresh(q) /\ pair[p].device = pair[q].device => p = q

\* Nothing a revoked device, or a device whose refresh credential was reused,
\* still holds is accepted: no credential issued before, during or after the
\* revocation escapes it (enrollment.go:422-430, credentials.go:82-91).
NoCredentialAfterShutdown ==
  \A p \in Pair :
    LET d == pair[p].device IN
    ~Unused(p) /\ (reused[d] \/ ~IsActive(d)) =>
      pair[p].accessRevoked /\ pair[p].refreshRevoked

\* Conversely a device loses its last refresh credential in no other way: as
\* long as it is active and nothing was reused, one of its couples can be
\* exchanged until it expires.
RegisteredUntilShutdown ==
  \A d \in Device : IsActive(d) /\ ~reused[d] => HoldsRefresh(d)

\* Once a household exists it has exactly one trusted PC and never revokes it:
\* only the PC reaches RevokeDevice, and RevokeDevice refuses its own caller
\* (enrollment.go:396-398, app/admin.go:195-198).
OneTrustedPC ==
  (\E d \in Device : Registered(d)) =>
    \E pc \in Device :
      /\ IsTrustedPC(pc) /\ IsActive(pc)
      /\ \A d \in Device : IsTrustedPC(d) => d = pc

\* A refresh credential buys one successor: a device was issued one couple at
\* registration and one for each credential it consumed, no matter how often
\* each was presented (credentials.go:122-138).
ExchangedOnce ==
  \A d \in Device : Registered(d) =>
    LET issued == {p \in Pair : pair[p].device = d} IN
    Cardinality(issued) = 1 + Cardinality({p \in issued : pair[p].refreshConsumed})

\* A step touches the credentials of one device only: no rotation, reuse or
\* revocation takes anything from another device (FR-AUTH-033, QR-SE-023).
OthersUnaffected ==
  [][\A p, q \in Pair : pair'[p] # pair[p] /\ pair'[q] # pair[q] =>
       pair'[p].device = pair'[q].device]_credVars

\* A registered device without an exchangeable credential never gets one again.
ShutdownIsFinal ==
  [][\A d \in Device : Registered(d) /\ HoldsRefresh(d)' => HoldsRefresh(d)]_credVars

\* The store implements the life of a device (DeviceLifecycle): a device with a
\* refresh credential to exchange is registered, an active one without is
\* locked out.
PhaseOf(d) ==
  IF ~Registered(d) THEN "absent"
  ELSE IF ~IsActive(d) THEN "revoked"
  ELSE IF HoldsRefresh(d) THEN "registered"
  ELSE "locked_out"

Lifecycle == INSTANCE DeviceLifecycle WITH phase <- [d \in Device |-> PhaseOf(d)]
LifecycleSpec == Lifecycle!Spec

=============================================================================
