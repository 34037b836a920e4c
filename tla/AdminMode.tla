------------------------------ MODULE AdminMode ------------------------------
(***************************************************************************)
(* Administrator mode: unlocking with the PIN, the limit on wrong PINs per *)
(* device, and the sessions that authorise changes.                        *)
(*                                                                         *)
(* A handler reads the clock once and then makes several separate calls    *)
(* of the database: authentication, PINChallenge, a slow Argon2id          *)
(* verification and RecordPINFailure or CreateAdminSession; or             *)
(* authentication, the SELECT and the UPDATE of ValidateAdminSession and   *)
(* the operation itself.  Any number of other calls comes in between.      *)
(*                                                                         *)
(* Of the devices the module keeps only whether their access credential    *)
(* authenticates; RevokeDevice and the detection of a reused credential    *)
(* are the parts of those transactions (modelled in Credentials) that      *)
(* concern administrator sessions.                                         *)
(***************************************************************************)
EXTENDS Integers, FiniteSets

CONSTANTS
  Device,        \* devices that may unlock: every type but a TV
  PC,            \* the trusted PC
  Session,       \* identifiers of administrator sessions
  None,
  Handler,       \* requests in flight at the same time
  MaxFailures,   \* 5 wrong PINs
  BlockTime,     \* 5 minutes
  Slowest,       \* the longest that unlocking takes: seconds
  IdleTime,      \* 10 minutes
  AbsoluteTime,  \* 1 hour
  MaxTime        \* bound of the clock

ASSUME DeviceAssumption == PC \in Device /\ None \notin Device
ASSUME HandlerAssumption == IsFiniteSet(Handler)
ASSUME LimitAssumption ==
  /\ MaxFailures \in Nat \ {0}
  /\ BlockTime \in Nat /\ IdleTime \in Nat /\ AbsoluteTime \in Nat /\ MaxTime \in Nat
  /\ IdleTime <= AbsoluteTime
  /\ Slowest \in Nat /\ 2 * Slowest < BlockTime

VARIABLES
  now,       \* the clock
  known,     \* known[d]: an access credential of d authenticates
  attempts,  \* the table pin_attempts
  session,   \* the table admin_sessions
  handler    \* handler[h]: between which of its calls handler h is

vars == <<now, known, attempts, session, handler>>

-----------------------------------------------------------------------------
\* A blocked_until of 0 is the NULL of a device that is not blocked: no device is
\* blocked until the time 0.
NoAttempts == [failed |-> 0, until |-> 0]
Attempts == [failed : Nat, until : Nat]

NoSession == [device |-> None, idle |-> 0, absolute |-> 0, revoked |-> FALSE]
SessionRow == [device : Device \cup {None}, idle : Nat, absolute : Nat,
               revoked : BOOLEAN]

Free == [op |-> "free"]
Unlocking(d, step) == [op |-> "unlock", device |-> d, t |-> now, step |-> step]
HandlerState == {Free}
  \cup [op : {"unlock"}, device : Device, t : Nat, step : {"challenge", "verify"}]
  \cup [op : {"use"}, device : Device, session : Session, t : Nat,
        step : {"select", "extend", "authorized"}]

Blocked(d, t) == t < attempts[d].until
Live(s) == session[s].device # None /\ ~session[s].revoked
FreshSession == CHOOSE s \in Session : session[s] = NoSession
SessionsLeft == \E s \in Session : session[s] = NoSession

Lesser(a, b) == IF a < b THEN a ELSE b

Step(h, r) == handler' = [handler EXCEPT ![h] = r]

\* Mutant: the device's sessions outlive it.
SessionsOutlive(d) == session

\* Every session of d that was not revoked is.
SessionsRevoked(d) ==
  [s \in Session |-> IF session[s].device = d
                     THEN [session[s] EXCEPT !.revoked = TRUE] ELSE session[s]]

Init ==
  /\ now = 0
  /\ known = [d \in Device |-> TRUE]
  /\ attempts = [d \in Device |-> NoAttempts]
  /\ session = [s \in Session |-> NoSession]
  /\ handler = [h \in Handler |-> Free]

-----------------------------------------------------------------------------
\* unlockAdmin: the device is authenticated and the clock is read.
BeginUnlock(h, d) ==
  /\ handler[h] = Free
  /\ known[d]
  /\ Step(h, Unlocking(d, "challenge"))
  /\ UNCHANGED <<now, known, attempts, session>>

\* PINChallenge: refuse a blocked device, else hand out the hash of the PIN.
PINChallenge(h) ==
  LET r == handler[h] IN
  /\ r.op = "unlock" /\ r.step = "challenge"
  /\ Step(h, IF Blocked(r.device, r.t) THEN Free ELSE [r EXCEPT !.step = "verify"])
  /\ UNCHANGED <<now, known, attempts, session>>

\* Mutant: a block that has ended does not restart the count.
CountNotRestarted(a, t) ==
  [failed |-> a.failed + 1,
   until |-> IF a.failed + 1 >= MaxFailures THEN t + BlockTime ELSE 0]

\* Mutant: the block is dated before the failure.
BlockedBackwards(a, t) ==
  [failed |-> a.failed + 1,
   until |-> IF a.failed + 1 >= MaxFailures THEN t - BlockTime ELSE 0]

\* The row after RecordPINFailure by a request of time t: a block that has ended
\* restarts the count, and the last failure allowed sets a block.
AfterFailure(a, t) ==
  LET failed == IF a.until # 0 /\ a.until <= t THEN 1 ELSE a.failed + 1 IN
  [failed |-> failed, until |-> IF failed >= MaxFailures THEN t + BlockTime ELSE 0]

\* A wrong PIN.  The first failure of a device inserts its row unblocked.
RecordPINFailure(h) ==
  LET r == handler[h] IN
  /\ r.op = "unlock" /\ r.step = "verify"
  /\ attempts' = [attempts EXCEPT ![r.device] = AfterFailure(@, r.t)]
  /\ Step(h, Free)
  /\ UNCHANGED <<now, known, session>>

\* Mutant: the device's earlier sessions are left alone.
EarlierKept(d) == session

\* The sessions of d that CreateAdminSession replaces.
Replaced(d) == SessionsRevoked(d)

\* The right PIN: CreateAdminSession clears the count, and a new session takes the
\* place of the device's earlier ones.
CreateAdminSession(h) ==
  LET r == handler[h]
      opened == [device |-> r.device, idle |-> r.t + IdleTime,
                 absolute |-> r.t + AbsoluteTime, revoked |-> FALSE] IN
  /\ r.op = "unlock" /\ r.step = "verify"
  /\ SessionsLeft
  /\ attempts' = [attempts EXCEPT ![r.device] = NoAttempts]
  /\ session' = [Replaced(r.device) EXCEPT ![FreshSession] = opened]
  /\ Step(h, Free)
  /\ UNCHANGED <<now, known>>

-----------------------------------------------------------------------------
\* requireAdmin, requireContentAdmin and lockAdmin: the device is authenticated
\* and the request names a session of its cookies.
BeginUse(h, d, s) ==
  /\ handler[h] = Free
  /\ known[d]
  /\ session[s].device = d
  /\ Step(h, [op |-> "use", device |-> d, session |-> s, t |-> now, step |-> "select"])
  /\ UNCHANGED <<now, known, attempts, session>>

\* The rows that the SELECT of ValidateAdminSession finds at time t.
ValidAt(s, t) == Live(s) /\ session[s].idle > t /\ session[s].absolute > t

\* The SELECT of ValidateAdminSession: an invalid session ends the request, and so
\* does the answer of one that only reads.
SelectSession(h, refreshIdle) ==
  LET r == handler[h] IN
  /\ r.op = "use" /\ r.step = "select"
  /\ Step(h, IF ValidAt(r.session, r.t) /\ refreshIdle
             THEN [r EXCEPT !.step = "extend"] ELSE Free)
  /\ UNCHANGED <<now, known, attempts, session>>

\* Mutant: the idle limit is not capped by the absolute one.
ExtendedUncapped(s, t) ==
  IF Live(s) THEN [session EXCEPT ![s].idle = t + IdleTime] ELSE session

\* Mutant: the UPDATE misses its revoked_at IS NULL.
ExtendedAnyway(s, t) ==
  [session EXCEPT ![s].idle = Lesser(t + IdleTime, session[s].absolute)]

\* The sessions after the UPDATE of ValidateAdminSession for the time t.
Extended(s, t) ==
  IF Live(s)
  THEN [session EXCEPT ![s].idle = Lesser(t + IdleTime, session[s].absolute)]
  ELSE session

\* The UPDATE of ValidateAdminSession; the request is authorised whether or not a
\* row was left to update.
ExtendSession(h) ==
  LET r == handler[h] IN
  /\ r.op = "use" /\ r.step = "extend"
  /\ session' = Extended(r.session, r.t)
  /\ Step(h, [r EXCEPT !.step = "authorized"])
  /\ UNCHANGED <<now, known, attempts>>

\* lockAdmin goes on to RevokeAdminSession.
LockAdmin(h) ==
  LET r == handler[h] IN
  /\ r.op = "use" /\ r.step = "authorized"
  /\ session' = [session EXCEPT ![r.session].revoked = TRUE]
  /\ Step(h, Free)
  /\ UNCHANGED <<now, known, attempts>>

\* revokeDevice, which requireAdmin allows the trusted PC only: the device is
\* shut out and its sessions are revoked in one transaction.
RevokeDevice(h, target) ==
  LET r == handler[h] IN
  /\ r.op = "use" /\ r.step = "authorized"
  /\ r.device = PC
  /\ target # PC /\ known[target]
  /\ known' = [known EXCEPT ![target] = FALSE]
  /\ session' = SessionsRevoked(target)
  /\ Step(h, Free)
  /\ UNCHANGED <<now, attempts>>

\* Any other authorised change, none of which touches these tables.
Operate(h) ==
  /\ handler[h].op = "use" /\ handler[h].step = "authorized"
  /\ Step(h, Free)
  /\ UNCHANGED <<now, known, attempts, session>>

\* A consumed refresh credential of d was presented: RotateRefreshCredential
\* revokes its credentials and its sessions.
DetectReuse(d) ==
  /\ known[d]
  /\ known' = [known EXCEPT ![d] = FALSE]
  /\ session' = SessionsRevoked(d)
  /\ UNCHANGED <<now, attempts, handler>>

\* Time passes, but no unlocking takes longer than Slowest.
Tick ==
  /\ now < MaxTime
  /\ \A h \in Handler : handler[h].op = "unlock" => now < handler[h].t + Slowest
  /\ now' = now + 1
  /\ UNCHANGED <<known, attempts, session, handler>>

Next ==
  \/ \E h \in Handler, d \in Device : BeginUnlock(h, d)
  \/ \E h \in Handler : PINChallenge(h)
  \/ \E h \in Handler : RecordPINFailure(h)
  \/ \E h \in Handler : CreateAdminSession(h)
  \/ \E h \in Handler, d \in Device, s \in Session : BeginUse(h, d, s)
  \/ \E h \in Handler, refreshIdle \in BOOLEAN : SelectSession(h, refreshIdle)
  \/ \E h \in Handler : ExtendSession(h)
  \/ \E h \in Handler : LockAdmin(h)
  \/ \E h \in Handler, target \in Device : RevokeDevice(h, target)
  \/ \E h \in Handler : Operate(h)
  \/ \E d \in Device : DetectReuse(d)
  \/ Tick

Spec == Init /\ [][Next]_vars

-----------------------------------------------------------------------------
\* Rows of the schema, and handlers between two of their calls.
TypeOK ==
  /\ now \in Nat
  /\ known \in [Device -> BOOLEAN]
  /\ attempts \in [Device -> Attempts]
  /\ session \in [Session -> SessionRow]
  /\ handler \in [Handler -> HandlerState]

\* Two unlocks of one device that overlap leave one session that works, the later
\* one: the cookies of the other are worthless (admin.go:140-148).
OneLiveSession ==
  \A s, x \in Session :
    Live(s) /\ Live(x) /\ session[s].device = session[x].device => s = x

\* However requests in flight extend a session, it ends with its hour, and ten
\* minutes after it is left alone (FR-AUTH-008, admin.go:216-219): its idle limit
\* is never later than the absolute one, or than one idle time from now.
IdleLimit ==
  \A s \in Session : Live(s) =>
    /\ session[s].idle <= session[s].absolute
    /\ session[s].idle <= now + IdleTime

\* The limit on wrong PINs is a limit on the PINs that are verified: the requests
\* that passed PINChallenge before the block count once each, and no more.  This
\* needs them to be over when the block is: a slower one moves the end of the
\* block behind the time of requests that were let through when it first ended,
\* and their failures then go on counting.
FailureBudget ==
  \A d \in Device : attempts[d].failed <= MaxFailures + Cardinality(Handler) - 1

\* A session that was locked, replaced or shut out stays as it was: a validation
\* that found it before does not touch it any more.
RevokedIsFrozen ==
  [][\A s \in Session : session[s].revoked => session'[s] = session[s]]_vars

\* A device that is shut out changes nothing more: of its requests in flight only
\* those go on that had found their session valid before; every other one names a
\* session that was revoked with the device, even if an unlock in flight opens a
\* new one afterwards (admin.go:186-236, enrollment.go:431-439).
ShutOutStops ==
  \A h \in Handler :
    LET r == handler[h] IN
    r.op = "use" /\ r.step = "select" /\ ~known[r.device] => session[r.session].revoked

=============================================================================
