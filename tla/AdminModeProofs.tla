---------------------------- MODULE AdminModeProofs ----------------------------
(***************************************************************************)
(* Proofs about AdminMode, for any devices, sessions, requests in flight   *)
(* and time limits: the sessions first, then the limit on wrong PINs, for  *)
(* which the requests that a block came too late for are counted.          *)
(***************************************************************************)
EXTENDS AdminMode, FiniteSetTheorems, TLAPS

\* The constants that are numbers.
LEMMA Limits ==
  /\ IdleTime \in Nat /\ AbsoluteTime \in Nat /\ BlockTime \in Nat
  /\ MaxFailures \in Nat /\ IdleTime <= AbsoluteTime
  BY LimitAssumption

\* A request has arrived before now.
Arrived == \A h \in Handler : handler[h].op # "free" => handler[h].t <= now

\* A request that names a session names one of its device.
OwnSession ==
  \A h \in Handler :
    handler[h].op = "use" => session[handler[h].session].device = handler[h].device

Inv ==
  /\ TypeOK /\ Arrived /\ OwnSession
  /\ OneLiveSession /\ IdleLimit /\ ShutOutStops

-----------------------------------------------------------------------------
(* What the operations of the model do to one row. *)

Use == [op : {"use"}, device : Device, session : Session, t : Nat,
        step : {"select", "extend", "authorized"}]
Unlock == [op : {"unlock"}, device : Device, t : Nat, step : {"challenge", "verify"}]

LEMMA UseRequest ==
  ASSUME TypeOK, NEW h \in Handler, handler[h].op = "use"
  PROVE  handler[h] \in Use
  BY DEF TypeOK, HandlerState, Use, Free

LEMMA UnlockRequest ==
  ASSUME TypeOK, NEW h \in Handler, handler[h].op = "unlock"
  PROVE  handler[h] \in Unlock
  BY DEF TypeOK, HandlerState, Unlock, Free

\* SessionsRevoked changes nothing but the revocation of the device's rows.
LEMMA RevokedRows ==
  ASSUME TypeOK, NEW d \in Device
  PROVE  /\ SessionsRevoked(d) \in [Session -> SessionRow]
         /\ \A s \in Session :
              /\ SessionsRevoked(d)[s].device = session[s].device
              /\ SessionsRevoked(d)[s].idle = session[s].idle
              /\ SessionsRevoked(d)[s].absolute = session[s].absolute
              /\ SessionsRevoked(d)[s].revoked
                   <=> session[s].revoked \/ session[s].device = d
              /\ session[s].revoked => SessionsRevoked(d)[s] = session[s]
              /\ session[s].device # d => SessionsRevoked(d)[s] = session[s]
  <1> SUFFICES ASSUME NEW s \in Session
      PROVE  /\ SessionsRevoked(d)[s] \in SessionRow
             /\ SessionsRevoked(d)[s].device = session[s].device
             /\ SessionsRevoked(d)[s].idle = session[s].idle
             /\ SessionsRevoked(d)[s].absolute = session[s].absolute
             /\ SessionsRevoked(d)[s].revoked
                  <=> session[s].revoked \/ session[s].device = d
             /\ session[s].revoked => SessionsRevoked(d)[s] = session[s]
             /\ session[s].device # d => SessionsRevoked(d)[s] = session[s]
    BY DEF SessionsRevoked
  <1>1. session[s] \in SessionRow  BY DEF TypeOK
  <1>2. SessionsRevoked(d)[s] = IF session[s].device = d
                                THEN [session[s] EXCEPT !.revoked = TRUE] ELSE session[s]
    BY DEF SessionsRevoked
  <1> QED  BY <1>1, <1>2 DEF SessionRow

\* The UPDATE of a validation moves the idle limit of one live row.
LEMMA ExtendedRows ==
  ASSUME TypeOK, NEW x \in Session, NEW t \in Nat
  PROVE  /\ Extended(x, t) \in [Session -> SessionRow]
         /\ \A s \in Session :
              /\ Extended(x, t)[s].device = session[s].device
              /\ Extended(x, t)[s].absolute = session[s].absolute
              /\ Extended(x, t)[s].revoked = session[s].revoked
              /\ ~(s = x /\ Live(x)) => Extended(x, t)[s] = session[s]
              /\ s = x /\ Live(x) =>
                   /\ Extended(x, t)[s].idle <= t + IdleTime
                   /\ Extended(x, t)[s].idle <= session[s].absolute
  BY Limits DEF TypeOK, Extended, SessionRow, Lesser

\* A new session takes a row that was never used.
LEMMA FreshRow ==
  ASSUME SessionsLeft
  PROVE  FreshSession \in Session /\ session[FreshSession] = NoSession
  BY DEF SessionsLeft, FreshSession

-----------------------------------------------------------------------------
LEMMA InitInv == Init => Inv
  BY DEF Init, Inv, TypeOK, Arrived, OwnSession, OneLiveSession, IdleLimit, ShutOutStops,
         NoAttempts, Attempts, NoSession, SessionRow, Free, HandlerState, Live

\* Steps of requests that write nothing, or only the count of wrong PINs.
LEMMA UnlockStep ==
  ASSUME Inv, NEW h \in Handler,
         (\E d \in Device : BeginUnlock(h, d)) \/ PINChallenge(h) \/ RecordPINFailure(h)
  PROVE  Inv'
  <1>1. now' = now /\ known' = known /\ session' = session
    BY DEF BeginUnlock, PINChallenge, RecordPINFailure
  <1>2. \E r \in {Free} \cup Unlock :
          /\ handler' = [handler EXCEPT ![h] = r]
          /\ r.op # "free" => r.t <= now
    <2>1. CASE \E d \in Device : BeginUnlock(h, d)
      <3>1. PICK d \in Device : BeginUnlock(h, d)  BY <2>1
      <3>2. Unlocking(d, "challenge") \in Unlock /\ Unlocking(d, "challenge").t <= now
        BY DEF Unlocking, Unlock, Inv, TypeOK
      <3> QED  BY <3>1, <3>2 DEF BeginUnlock, Step
    <2>2. CASE PINChallenge(h)
      <3>1. handler[h] \in Unlock /\ handler[h].t <= now
        BY <2>2, UnlockRequest DEF PINChallenge, Inv, Arrived
      <3>2. [handler[h] EXCEPT !.step = "verify"] \in Unlock
            /\ [handler[h] EXCEPT !.step = "verify"].t <= now
        BY <3>1 DEF Unlock
      <3> QED  BY <2>2, <3>2 DEF PINChallenge, Step, Free
    <2>3. CASE RecordPINFailure(h)
      <3>1. handler' = [handler EXCEPT ![h] = Free]
        BY <2>3 DEF RecordPINFailure, Step
      <3>2. Free.op = "free"  BY DEF Free
      <3> QED  BY <3>1, <3>2
    <2> QED  BY <2>1, <2>2, <2>3
  <1>3. PICK r \in {Free} \cup Unlock :
          handler' = [handler EXCEPT ![h] = r] /\ (r.op # "free" => r.t <= now)
    BY <1>2
  <1>4. r \in HandlerState /\ r.op # "use"  BY DEF Free, Unlock, HandlerState
  <1>5. attempts' \in [Device -> Attempts]
    <2>1. CASE attempts' = attempts  BY <2>1 DEF Inv, TypeOK
    <2>2. CASE RecordPINFailure(h)
      <3>1. handler[h] \in Unlock  BY <2>2, UnlockRequest DEF RecordPINFailure, Inv
      <3>2. handler[h].device \in Device /\ handler[h].t \in Nat  BY <3>1 DEF Unlock
      <3>3. attempts[handler[h].device] \in Attempts  BY <3>2 DEF Inv, TypeOK
      <3>4. AfterFailure(attempts[handler[h].device], handler[h].t) \in Attempts
        BY <3>2, <3>3, Limits DEF AfterFailure, Attempts
      <3> QED  BY <2>2, <3>2, <3>4 DEF RecordPINFailure, Inv, TypeOK
    <2> QED  BY <2>1, <2>2 DEF BeginUnlock, PINChallenge
  <1>6. TypeOK'  BY <1>1, <1>3, <1>4, <1>5 DEF Inv, TypeOK
  <1>7. Arrived' /\ OwnSession' /\ ShutOutStops'
    BY <1>1, <1>3, <1>4 DEF Inv, TypeOK, Arrived, OwnSession, ShutOutStops
  <1>8. OneLiveSession' /\ IdleLimit'
    BY <1>1 DEF Inv, OneLiveSession, IdleLimit, Live
  <1> QED  BY <1>6, <1>7, <1>8 DEF Inv

\* The new session is the only live one of its device, and no request names it.
LEMMA CreateStep ==
  ASSUME Inv, NEW h \in Handler, CreateAdminSession(h)
  PROVE  Inv'
  <1> DEFINE r == handler[h]
             d == r.device
             f == FreshSession
             opened == [device |-> d, idle |-> r.t + IdleTime,
                        absolute |-> r.t + AbsoluteTime, revoked |-> FALSE]
  <1>1. r \in Unlock /\ r.t <= now
    BY UnlockRequest DEF CreateAdminSession, Inv, Arrived
  <1>2. d \in Device /\ r.t \in Nat /\ now \in Nat  BY <1>1 DEF Unlock, Inv, TypeOK
  <1>3. f \in Session /\ session[f] = NoSession  BY FreshRow DEF CreateAdminSession
  <1>4. opened \in SessionRow  BY <1>2, Limits DEF SessionRow
  <1>5. session' = [SessionsRevoked(d) EXCEPT ![f] = opened]
    BY DEF CreateAdminSession, Replaced
  <1>6. /\ SessionsRevoked(d) \in [Session -> SessionRow]
        /\ \A s \in Session :
             /\ SessionsRevoked(d)[s].device = session[s].device
             /\ SessionsRevoked(d)[s].idle = session[s].idle
             /\ SessionsRevoked(d)[s].absolute = session[s].absolute
             /\ SessionsRevoked(d)[s].revoked
                  <=> session[s].revoked \/ session[s].device = d
    BY <1>2, RevokedRows DEF Inv
  <1>7. session' \in [Session -> SessionRow] /\ session'[f] = opened
    BY <1>3, <1>4, <1>5, <1>6
  <1>8. \A s \in Session \ {f} : session'[s] = SessionsRevoked(d)[s]
    BY <1>5, <1>6
  <1>9. now' = now /\ known' = known /\ handler' = [handler EXCEPT ![h] = Free]
    BY DEF CreateAdminSession, Step
  <1>10. TypeOK'
    <2>1. attempts' \in [Device -> Attempts]
      BY <1>2 DEF CreateAdminSession, NoAttempts, Attempts, Inv, TypeOK
    <2> QED  BY <1>7, <1>9, <2>1 DEF Inv, TypeOK, HandlerState
  <1>11. \A x \in Handler : handler'[x].op # "free" => x # h /\ handler'[x] = handler[x]
    BY <1>9 DEF Inv, TypeOK, Free
  <1>12. \A x \in Handler : handler'[x].op = "use" =>
           /\ handler'[x] = handler[x] /\ handler[x] \in Use
           /\ handler[x].session \in Session \ {f}
    <2> SUFFICES ASSUME NEW x \in Handler, handler'[x].op = "use"
        PROVE  /\ handler'[x] = handler[x] /\ handler[x] \in Use
               /\ handler[x].session \in Session \ {f}
      OBVIOUS
    <2>1. handler'[x] = handler[x] /\ handler[x] \in Use
      BY <1>11, UseRequest DEF Inv
    <2>2. handler[x].session \in Session /\ handler[x].device \in Device
      BY <2>1 DEF Use
    <2>3. session[handler[x].session].device = handler[x].device
      BY <2>1 DEF Inv, OwnSession
    <2>4. session[f].device \notin Device
      BY <1>3, DeviceAssumption DEF NoSession
    <2> QED  BY <2>1, <2>2, <2>3, <2>4
  <1>13. Arrived'  BY <1>9, <1>11 DEF Inv, Arrived
  <1>14. OwnSession'
    BY <1>6, <1>8, <1>12 DEF Inv, OwnSession
  <1>15. ShutOutStops'
    BY <1>6, <1>8, <1>9, <1>12 DEF Inv, ShutOutStops
  <1>16. OneLiveSession'
    <2> SUFFICES ASSUME NEW s \in Session, NEW x \in Session,
                        Live(s)', Live(x)', session'[s].device = session'[x].device
        PROVE  s = x
      BY DEF OneLiveSession
    <2>1. CASE session'[s].device = d
      <3>1. \A y \in Session \ {f} : session'[y].device = d => session'[y].revoked
        BY <1>6, <1>8
      <3> QED  BY <2>1, <3>1 DEF Live
    <2>2. CASE session'[s].device # d
      <3>1. s # f /\ x # f  BY <1>7, <2>2
      <3>2. Live(s) /\ Live(x) /\ session[s].device = session[x].device
        BY <1>6, <1>8, <3>1 DEF Live
      <3> QED  BY <3>2 DEF Inv, OneLiveSession
    <2> QED  BY <2>1, <2>2
  <1>17. IdleLimit'
    <2> SUFFICES ASSUME NEW s \in Session, Live(s)'
        PROVE  session'[s].idle <= session'[s].absolute /\ session'[s].idle <= now' + IdleTime
      BY DEF IdleLimit
    <2>1. CASE s = f  BY <1>1, <1>2, <1>7, <1>9, <2>1, Limits
    <2>2. CASE s # f
      <3>1. Live(s)  BY <1>6, <1>8, <2>2 DEF Live
      <3> QED  BY <1>6, <1>8, <1>9, <2>2, <3>1 DEF Inv, IdleLimit
    <2> QED  BY <2>1, <2>2
  <1> QED  BY <1>10, <1>13, <1>14, <1>15, <1>16, <1>17 DEF Inv

-----------------------------------------------------------------------------
\* Steps of a request that names a session, up to its authorisation.
LEMMA UseStep ==
  ASSUME Inv, NEW h \in Handler,
         \/ \E d \in Device, s \in Session : BeginUse(h, d, s)
         \/ \E refreshIdle \in BOOLEAN : SelectSession(h, refreshIdle)
         \/ Operate(h)
  PROVE  Inv'
  <1>1. now' = now /\ known' = known /\ session' = session /\ attempts' = attempts
    BY DEF BeginUse, SelectSession, Operate
  <1>2. \E r \in {Free} \cup Use :
          /\ handler' = [handler EXCEPT ![h] = r]
          /\ r.op # "free" =>
               /\ r.t <= now /\ session[r.session].device = r.device
               /\ r.step = "select" => known[r.device]
    <2>1. CASE \E d \in Device, s \in Session : BeginUse(h, d, s)
      <3>1. PICK d \in Device, s \in Session : BeginUse(h, d, s)  BY <2>1
      <3> DEFINE r == [op |-> "use", device |-> d, session |-> s, t |-> now, step |-> "select"]
      <3>2. r \in Use /\ r.t <= now  BY DEF Use, Inv, TypeOK
      <3>3. session[r.session].device = r.device /\ known[r.device]
        BY <3>1 DEF BeginUse
      <3> QED  BY <3>1, <3>2, <3>3 DEF BeginUse, Step
    <2>2. CASE \E refreshIdle \in BOOLEAN : SelectSession(h, refreshIdle)
      <3> DEFINE r == [handler[h] EXCEPT !.step = "extend"]
      <3>1. handler[h].op = "use"  BY <2>2 DEF SelectSession
      <3>2. /\ handler[h] \in Use /\ handler[h].t <= now
            /\ session[handler[h].session].device = handler[h].device
        BY <3>1, UseRequest DEF Inv, Arrived, OwnSession
      <3>3. /\ r \in Use /\ r.t <= now /\ r.step = "extend"
            /\ session[r.session].device = r.device
        BY <3>2 DEF Use
      <3>4. handler' = [handler EXCEPT ![h] = r] \/ handler' = [handler EXCEPT ![h] = Free]
        BY <2>2 DEF SelectSession, Step
      <3> QED  BY <3>3, <3>4 DEF Free
    <2>3. CASE Operate(h)
      <3>1. handler' = [handler EXCEPT ![h] = Free]  BY <2>3 DEF Operate, Step
      <3>2. Free.op = "free"  BY DEF Free
      <3> QED  BY <3>1, <3>2
    <2> QED  BY <2>1, <2>2, <2>3
  <1>3. PICK r \in {Free} \cup Use :
          /\ handler' = [handler EXCEPT ![h] = r]
          /\ r.op # "free" =>
               /\ r.t <= now /\ session[r.session].device = r.device
               /\ r.step = "select" => known[r.device]
    BY <1>2
  <1>4. r \in HandlerState  BY DEF Free, Use, HandlerState
  <1>5. TypeOK'  BY <1>1, <1>3, <1>4 DEF Inv, TypeOK
  <1>6. \A x \in Handler : handler'[x] = IF x = h THEN r ELSE handler[x]
    BY <1>3 DEF Inv, TypeOK
  <1>7. Arrived' /\ OwnSession' /\ ShutOutStops'
    BY <1>1, <1>3, <1>6 DEF Inv, Arrived, OwnSession, ShutOutStops
  <1>8. OneLiveSession' /\ IdleLimit'
    BY <1>1 DEF Inv, OneLiveSession, IdleLimit, Live
  <1> QED  BY <1>5, <1>7, <1>8 DEF Inv

\* The UPDATE of a validation.
LEMMA ExtendStep ==
  ASSUME Inv, NEW h \in Handler, ExtendSession(h)
  PROVE  Inv'
  <1> DEFINE r == handler[h]
             next == [r EXCEPT !.step = "authorized"]
  <1>1. r \in Use /\ r.t <= now /\ session[r.session].device = r.device
    BY UseRequest DEF ExtendSession, Inv, Arrived, OwnSession
  <1>2. r.session \in Session /\ r.t \in Nat /\ now \in Nat  BY <1>1 DEF Use, Inv, TypeOK
  <1>3. /\ next \in Use /\ next.t <= now /\ next.step = "authorized"
        /\ session[next.session].device = next.device
    BY <1>1 DEF Use
  <1>4. /\ now' = now /\ known' = known /\ attempts' = attempts
        /\ session' = Extended(r.session, r.t)
        /\ handler' = [handler EXCEPT ![h] = next]
    BY DEF ExtendSession, Step
  <1>5. /\ session' \in [Session -> SessionRow]
        /\ \A s \in Session :
             /\ session'[s].device = session[s].device
             /\ session'[s].absolute = session[s].absolute
             /\ session'[s].revoked = session[s].revoked
             /\ ~(s = r.session /\ Live(r.session)) => session'[s] = session[s]
             /\ s = r.session /\ Live(r.session) =>
                  /\ session'[s].idle <= r.t + IdleTime
                  /\ session'[s].idle <= session[s].absolute
    BY <1>2, <1>4, ExtendedRows DEF Inv
  <1>6. next \in HandlerState  BY <1>3 DEF Use, HandlerState
  <1>7. TypeOK'  BY <1>4, <1>5, <1>6 DEF Inv, TypeOK
  <1>8. \A x \in Handler : handler'[x] = IF x = h THEN next ELSE handler[x]
    BY <1>4 DEF Inv, TypeOK
  <1>9. \A x \in Handler : handler'[x].op = "use" => handler'[x].session \in Session
    BY <1>7, UseRequest DEF TypeOK, HandlerState, Free
  <1>10. Arrived'  BY <1>3, <1>4, <1>8 DEF Inv, Arrived
  <1>11. OwnSession'
    <2> SUFFICES ASSUME NEW x \in Handler, handler'[x].op = "use"
        PROVE  session'[handler'[x].session].device = handler'[x].device
      BY DEF OwnSession
    <2>1. handler'[x].session \in Session  BY <1>9
    <2>2. session[handler'[x].session].device = handler'[x].device
      <3>1. CASE x = h  BY <1>3, <1>8, <3>1
      <3>2. CASE x # h  BY <1>8, <3>2 DEF Inv, OwnSession
      <3> QED  BY <3>1, <3>2
    <2> QED  BY <1>5, <2>1, <2>2
  <1>12. ShutOutStops'  BY <1>3, <1>4, <1>5, <1>8, <1>9 DEF Inv, ShutOutStops
  <1>13. OneLiveSession'  BY <1>5 DEF Inv, OneLiveSession, Live
  <1>14. IdleLimit'
    <2> SUFFICES ASSUME NEW s \in Session, Live(s)'
        PROVE  session'[s].idle <= session'[s].absolute /\ session'[s].idle <= now' + IdleTime
      BY DEF IdleLimit
    <2>1. Live(s)  BY <1>5 DEF Live
    <2>2. session'[s] \in SessionRow  BY <1>5
    <2>3. CASE s = r.session
      BY <1>1, <1>2, <1>4, <1>5, <2>1, <2>2, <2>3, Limits DEF SessionRow
    <2>4. CASE s # r.session
      BY <1>4, <1>5, <2>1, <2>4 DEF Inv, IdleLimit
    <2> QED  BY <2>3, <2>4
  <1> QED  BY <1>7, <1>10, <1>11, <1>12, <1>13, <1>14 DEF Inv

-----------------------------------------------------------------------------
\* Whatever only revokes sessions, ends requests and shuts out devices whose sessions
\* it revokes keeps the invariant.
LEMMA RevokingStep ==
  ASSUME Inv,
         now' = now, attempts' = attempts,
         known' \in [Device -> BOOLEAN], session' \in [Session -> SessionRow],
         \A d \in Device : known'[d] => known[d],
         \A s \in Session :
           /\ session'[s].device = session[s].device
           /\ session'[s].idle = session[s].idle
           /\ session'[s].absolute = session[s].absolute
           /\ session[s].revoked => session'[s].revoked
           /\ session[s].device \in Device =>
                (known[session[s].device] /\ ~known'[session[s].device] => session'[s].revoked),
         handler' \in [Handler -> HandlerState],
         \A h \in Handler : handler'[h] \in {handler[h], Free}
  PROVE  Inv'
  <1>1. TypeOK'  BY DEF Inv, TypeOK
  <1>2. \A h \in Handler : handler'[h].op # "free" => handler'[h] = handler[h]
    BY DEF Free
  <1>3. \A h \in Handler : handler'[h].op = "use" =>
          /\ handler'[h] = handler[h]
          /\ handler[h].session \in Session /\ handler[h].device \in Device
    BY <1>2, UseRequest DEF Inv, Use
  <1>4. Arrived'  BY <1>2 DEF Inv, Arrived
  <1>5. OwnSession'  BY <1>3 DEF Inv, OwnSession
  <1>6. ShutOutStops'
    <2> SUFFICES ASSUME NEW h \in Handler, handler'[h].op = "use",
                        handler'[h].step = "select", ~known'[handler'[h].device]
        PROVE  session'[handler'[h].session].revoked
      BY DEF ShutOutStops
    <2>1. /\ handler'[h] = handler[h]
          /\ handler[h].session \in Session /\ handler[h].device \in Device
      BY <1>3
    <2>2. session[handler[h].session].device = handler[h].device
      BY <2>1 DEF Inv, OwnSession
    <2>3. CASE known[handler[h].device]  BY <2>1, <2>2, <2>3
    <2>4. CASE ~known[handler[h].device]
      <3>1. session[handler[h].session].revoked
        BY <2>1, <2>4 DEF Inv, ShutOutStops
      <3> QED  BY <2>1, <3>1
    <2> QED  BY <2>3, <2>4
  <1>7. OneLiveSession'  BY DEF Inv, OneLiveSession, Live
  <1>8. IdleLimit'  BY DEF Inv, IdleLimit, Live
  <1> QED  BY <1>1, <1>4, <1>5, <1>6, <1>7, <1>8 DEF Inv

LEMMA LockStep ==
  ASSUME Inv, NEW h \in Handler, LockAdmin(h)
  PROVE  Inv'
  <1>1. handler[h] \in Use  BY UseRequest DEF LockAdmin, Inv
  <1>2. handler[h].session \in Session  BY <1>1 DEF Use
  <1>3. session' = [session EXCEPT ![handler[h].session].revoked = TRUE]
    BY DEF LockAdmin
  <1>4. /\ session' \in [Session -> SessionRow]
        /\ \A s \in Session :
             /\ session'[s].device = session[s].device
             /\ session'[s].idle = session[s].idle
             /\ session'[s].absolute = session[s].absolute
             /\ session[s].revoked => session'[s].revoked
    BY <1>2, <1>3 DEF Inv, TypeOK, SessionRow
  <1>5. /\ now' = now /\ attempts' = attempts /\ known' = known
        /\ handler' = [handler EXCEPT ![h] = Free]
    BY DEF LockAdmin, Step
  <1>6. /\ handler' \in [Handler -> HandlerState]
        /\ \A x \in Handler : handler'[x] \in {handler[x], Free}
    BY <1>5 DEF Inv, TypeOK, HandlerState
  <1>7. known' \in [Device -> BOOLEAN] /\ \A d \in Device : known'[d] => known[d]
    BY <1>5 DEF Inv, TypeOK
  <1> QED  BY <1>4, <1>5, <1>6, <1>7, RevokingStep

LEMMA ShutOutStep ==
  ASSUME Inv, NEW d \in Device,
         now' = now, attempts' = attempts,
         known' = [known EXCEPT ![d] = FALSE],
         session' = SessionsRevoked(d),
         \/ handler' = handler
         \/ \E h \in Handler : handler' = [handler EXCEPT ![h] = Free]
  PROVE  Inv'
  <1>1. /\ session' \in [Session -> SessionRow]
        /\ \A s \in Session :
             /\ session'[s].device = session[s].device
             /\ session'[s].idle = session[s].idle
             /\ session'[s].absolute = session[s].absolute
             /\ session'[s].revoked <=> session[s].revoked \/ session[s].device = d
    BY RevokedRows DEF Inv
  <1>2. /\ known' \in [Device -> BOOLEAN]
        /\ \A x \in Device : (known'[x] => known[x]) /\ (x # d => known'[x] = known[x])
    BY DEF Inv, TypeOK
  <1>3. \A s \in Session :
          /\ session[s].revoked => session'[s].revoked
          /\ session[s].device \in Device =>
               (known[session[s].device] /\ ~known'[session[s].device] => session'[s].revoked)
    BY <1>1, <1>2
  <1>4. /\ handler' \in [Handler -> HandlerState]
        /\ \A x \in Handler : handler'[x] \in {handler[x], Free}
    BY DEF Inv, TypeOK, HandlerState
  <1> QED  BY <1>1, <1>2, <1>3, <1>4, RevokingStep

LEMMA TickStep == ASSUME Inv, Tick PROVE Inv'
  <1>1. /\ now' = now + 1 /\ now \in Nat
        /\ known' = known /\ attempts' = attempts /\ session' = session /\ handler' = handler
    BY DEF Tick, Inv, TypeOK
  <1>2. TypeOK'  BY <1>1 DEF Inv, TypeOK
  <1>3. Arrived'
    <2>1. \A h \in Handler : handler[h].op # "free" => handler[h].t \in Nat
      BY DEF Inv, TypeOK, HandlerState, Free
    <2> QED  BY <1>1, <2>1 DEF Inv, Arrived
  <1>4. OwnSession' /\ OneLiveSession' /\ ShutOutStops'
    BY <1>1 DEF Inv, OwnSession, OneLiveSession, ShutOutStops, Live
  <1>5. IdleLimit'
    <2>1. \A s \in Session : session[s].idle \in Nat  BY DEF Inv, TypeOK, SessionRow
    <2> QED  BY <1>1, <2>1, Limits DEF Inv, IdleLimit, Live
  <1> QED  BY <1>2, <1>3, <1>4, <1>5 DEF Inv

LEMMA StepInv == Inv /\ [Next]_vars => Inv'
  <1> SUFFICES ASSUME Inv, [Next]_vars PROVE Inv'
    OBVIOUS
  <1>1. CASE \E h \in Handler :
               (\E d \in Device : BeginUnlock(h, d)) \/ PINChallenge(h) \/ RecordPINFailure(h)
    BY <1>1, UnlockStep
  <1>2. CASE \E h \in Handler : CreateAdminSession(h)  BY <1>2, CreateStep
  <1>3. CASE \E h \in Handler :
               \/ \E d \in Device, s \in Session : BeginUse(h, d, s)
               \/ \E refreshIdle \in BOOLEAN : SelectSession(h, refreshIdle)
               \/ Operate(h)
    BY <1>3, UseStep
  <1>4. CASE \E h \in Handler : ExtendSession(h)  BY <1>4, ExtendStep
  <1>5. CASE \E h \in Handler : LockAdmin(h)  BY <1>5, LockStep
  <1>6. CASE \E h \in Handler, target \in Device : RevokeDevice(h, target)
    BY <1>6, ShutOutStep DEF RevokeDevice, Step
  <1>7. CASE \E d \in Device : DetectReuse(d)
    BY <1>7, ShutOutStep DEF DetectReuse
  <1>8. CASE Tick  BY <1>8, TickStep
  <1>9. CASE UNCHANGED vars
    BY <1>9 DEF vars, Inv, TypeOK, Arrived, OwnSession, OneLiveSession, IdleLimit,
                ShutOutStops, Live
  <1> QED
    BY <1>1, <1>2, <1>3, <1>4, <1>5, <1>6, <1>7, <1>8, <1>9 DEF Next

-----------------------------------------------------------------------------
\* The inductive invariant holds in every reachable state.
THEOREM Invariance == Spec => []Inv
  BY InitInv, StepInv, PTL DEF Spec

\* Rows of the schema, and handlers between two of their calls.
THEOREM TypeCorrect == Spec => []TypeOK
  <1>1. Inv => TypeOK  BY DEF Inv
  <1> QED  BY <1>1, Invariance, PTL

\* However unlocks overlap, a device has one session that works.
THEOREM SessionUnique == Spec => []OneLiveSession
  <1>1. Inv => OneLiveSession  BY DEF Inv
  <1> QED  BY <1>1, Invariance, PTL

\* However requests extend a session, it ends with its limits.
THEOREM SessionEnds == Spec => []IdleLimit
  <1>1. Inv => IdleLimit  BY DEF Inv
  <1> QED  BY <1>1, Invariance, PTL

\* A device that is shut out gets nothing more authorised than what was found valid
\* before.
THEOREM ShutOutComplete == Spec => []ShutOutStops
  <1>1. Inv => ShutOutStops  BY DEF Inv
  <1> QED  BY <1>1, Invariance, PTL

-----------------------------------------------------------------------------
\* No step touches the row of a revoked session.
LEMMA FrozenStep ==
  ASSUME Inv, [Next]_vars, NEW s \in Session, session[s].revoked
  PROVE  session'[s] = session[s]
  <1>1. \A d \in Device : SessionsRevoked(d)[s] = session[s]
    BY RevokedRows DEF Inv
  <1>2. CASE session' = session  BY <1>2
  <1>3. CASE \E h \in Handler : CreateAdminSession(h)
    <2>1. PICK h \in Handler : CreateAdminSession(h)  BY <1>3
    <2>2. handler[h].device \in Device
      BY <2>1, UnlockRequest DEF CreateAdminSession, Inv, Unlock
    <2>3. FreshSession # s
      BY <2>1, FreshRow DEF CreateAdminSession, NoSession
    <2>4. session'[s] = SessionsRevoked(handler[h].device)[s]
      BY <2>1, <2>2, <2>3, RevokedRows DEF CreateAdminSession, Replaced, Inv
    <2> QED  BY <1>1, <2>2, <2>4
  <1>4. CASE \E h \in Handler : ExtendSession(h)
    <2>1. PICK h \in Handler : ExtendSession(h)  BY <1>4
    <2>2. handler[h].session \in Session /\ handler[h].t \in Nat
      BY <2>1, UseRequest DEF ExtendSession, Inv, Use
    <2> QED  BY <2>1, <2>2, ExtendedRows DEF ExtendSession, Inv, Live
  <1>5. CASE \E h \in Handler : LockAdmin(h)
    <2>1. PICK h \in Handler : LockAdmin(h)  BY <1>5
    <2>2. handler[h].session \in Session
      BY <2>1, UseRequest DEF LockAdmin, Inv, Use
    <2>3. session' = [session EXCEPT ![handler[h].session].revoked = TRUE]
      BY <2>1 DEF LockAdmin
    <2>4. session[s] \in SessionRow  BY DEF Inv, TypeOK
    <2>5. session'[s] = session[s] \/ session'[s] = [session[s] EXCEPT !.revoked = TRUE]
      BY <2>2, <2>3 DEF Inv, TypeOK
    <2> QED  BY <2>4, <2>5 DEF SessionRow
  <1>6. CASE \/ \E h \in Handler, target \in Device : RevokeDevice(h, target)
             \/ \E d \in Device : DetectReuse(d)
    BY <1>1, <1>6 DEF RevokeDevice, DetectReuse
  <1> QED
    BY <1>2, <1>3, <1>4, <1>5, <1>6
    DEF Next, vars, BeginUnlock, PINChallenge, RecordPINFailure, BeginUse, SelectSession,
        Operate, Tick

\* A session that was locked, replaced or shut out is never touched again.
THEOREM RevokedForGood == Spec => RevokedIsFrozen
  <1>1. Inv /\ [Next]_vars =>
          [\A s \in Session : session[s].revoked => session'[s] = session[s]]_vars
    BY FrozenStep
  <1> QED  BY <1>1, Invariance, PTL DEF Spec, RevokedIsFrozen

-----------------------------------------------------------------------------
(* The limit on wrong PINs. *)

\* Unlocking takes no longer than Slowest.
InTime == \A h \in Handler : handler[h].op = "unlock" => now <= handler[h].t + Slowest

Verifying(h) == handler[h].op = "unlock" /\ handler[h].step = "verify"

\* The requests of d whose failures still count although d is blocked: they passed
\* PINChallenge before.
Counting(d) ==
  {h \in Handler : Verifying(h) /\ handler[h].device = d /\ Blocked(d, handler[h].t)}

\* A device is blocked from its last failure allowed on.
BlockedAtLimit ==
  \A d \in Device : attempts[d].until # 0 <=> attempts[d].failed >= MaxFailures

\* A block was over when a request passed PINChallenge, or lasts longer than it: none
\* ends while a request that it holds against its device is under way.
BlockOutlasts ==
  \A h \in Handler :
    LET until == attempts[handler[h].device].until IN
    Verifying(h) /\ until > handler[h].t => until > handler[h].t + Slowest

\* Each request counts once: what a blocked device has failed and what may still be
\* counted stay within the budget.
WithinBudget ==
  \A d \in Device : attempts[d].failed >= MaxFailures =>
    attempts[d].failed + Cardinality(Counting(d)) <= MaxFailures + Cardinality(Handler) - 1

BudgetInv == InTime /\ BlockedAtLimit /\ BlockOutlasts /\ WithinBudget

\* Times, limits and counts are numbers.
LEMMA BudgetNumbers ==
  /\ MaxFailures \in Nat /\ MaxFailures >= 1 /\ BlockTime \in Nat /\ Slowest \in Nat
  /\ 2 * Slowest < BlockTime /\ IsFiniteSet(Handler) /\ Cardinality(Handler) \in Nat
  BY LimitAssumption, HandlerAssumption, FS_CardinalityType

\* What a request that unlocks holds.
LEMMA UnlockFields ==
  ASSUME TypeOK, NEW h \in Handler, handler[h].op = "unlock"
  PROVE  /\ handler[h].device \in Device /\ handler[h].t \in Nat
         /\ attempts[handler[h].device] \in Attempts
         /\ attempts[handler[h].device].failed \in Nat
         /\ attempts[handler[h].device].until \in Nat
  <1>1. handler[h].device \in Device /\ handler[h].t \in Nat
    BY UnlockRequest DEF Unlock
  <1> QED  BY <1>1 DEF TypeOK, Attempts

\* Fewer requests may still count.
LEMMA FewerCount ==
  ASSUME NEW S, NEW T, T \subseteq Handler, S \subseteq T
  PROVE  /\ Cardinality(S) \in Nat /\ Cardinality(T) \in Nat
         /\ Cardinality(S) <= Cardinality(T)
  BY BudgetNumbers, FS_Subset, FS_CardinalityType

\* One request less may still count.
LEMMA OneLessCounts ==
  ASSUME NEW T, T \subseteq Handler, NEW h \in T, NEW S, S \subseteq T \ {h}
  PROVE  /\ Cardinality(S) \in Nat /\ Cardinality(T) \in Nat
         /\ Cardinality(S) <= Cardinality(T) - 1
  <1>1. IsFiniteSet(T) /\ Cardinality(T) \in Nat
    BY BudgetNumbers, FS_Subset, FS_CardinalityType
  <1>2. Cardinality(T \ {h}) = Cardinality(T) - 1 /\ T \ {h} \subseteq Handler
    BY <1>1, FS_RemoveElement
  <1> QED  BY <1>1, <1>2, FewerCount

\* Nobody is blocked at the start.
LEMMA BudgetInit == Init => BudgetInv
  <1> SUFFICES ASSUME Init PROVE BudgetInv
    OBVIOUS
  <1>1. \A h \in Handler : handler[h].op = "free"
    BY DEF Init, Free
  <1>2. \A d \in Device : attempts[d].failed = 0 /\ attempts[d].until = 0
    BY DEF Init, NoAttempts
  <1> QED
    BY <1>1, <1>2, BudgetNumbers
    DEF BudgetInv, InTime, BlockedAtLimit, BlockOutlasts, WithinBudget, Verifying

\* Steps that count nothing, and let only requests through that are not blocked.
LEMMA UncountedStep ==
  ASSUME Inv, BudgetInv, attempts' = attempts,
         \A h \in Handler : handler'[h].op = "unlock" =>
           /\ now' <= handler'[h].t + Slowest
           /\ \/ handler'[h] = handler[h]
              \/ handler'[h].step # "verify"
              \/ ~Blocked(handler'[h].device, handler'[h].t)
  PROVE  BudgetInv'
  <1>1. InTime' /\ BlockedAtLimit'
    BY DEF BudgetInv, InTime, BlockedAtLimit
  <1>2. BlockOutlasts'
    <2> SUFFICES ASSUME NEW h \in Handler, Verifying(h)',
                        attempts[handler'[h].device].until > handler'[h].t
                 PROVE  attempts[handler'[h].device].until > handler'[h].t + Slowest
      BY DEF BlockOutlasts
    <2>1. handler'[h] = handler[h]
      BY DEF Verifying, Blocked
    <2> QED  BY <2>1 DEF BudgetInv, BlockOutlasts, Verifying
  <1>3. ASSUME NEW d \in Device
        PROVE  Counting(d)' \subseteq Counting(d)
    BY DEF Counting, Verifying, Blocked
  <1>4. WithinBudget'
    <2> SUFFICES ASSUME NEW d \in Device, attempts[d].failed >= MaxFailures
                 PROVE  attempts[d].failed + Cardinality(Counting(d)')
                          <= MaxFailures + Cardinality(Handler) - 1
      BY DEF WithinBudget
    <2>1. Counting(d) \subseteq Handler
      BY DEF Counting
    <2>2. /\ Cardinality(Counting(d)') \in Nat /\ Cardinality(Counting(d)) \in Nat
          /\ Cardinality(Counting(d)') <= Cardinality(Counting(d))
      BY <1>3, <2>1, FewerCount
    <2>3. attempts[d].failed + Cardinality(Counting(d))
            <= MaxFailures + Cardinality(Handler) - 1
      BY DEF BudgetInv, WithinBudget
    <2>4. attempts[d].failed \in Nat
      BY DEF Inv, TypeOK, Attempts
    <2> QED  BY <2>2, <2>3, <2>4, BudgetNumbers
  <1> QED  BY <1>1, <1>2, <1>4 DEF BudgetInv

\* The right PIN clears the count of its device and touches no other.
LEMMA ClearedStep ==
  ASSUME Inv, BudgetInv, NEW k \in Handler, CreateAdminSession(k)
  PROVE  BudgetInv'
  <1> DEFINE d == handler[k].device
  <1>1. d \in Device
    BY UnlockFields DEF CreateAdminSession, Inv
  <1>2. /\ attempts' = [attempts EXCEPT ![d] = NoAttempts]
        /\ now' = now /\ handler' = [handler EXCEPT ![k] = Free]
    BY DEF CreateAdminSession, Step
  <1>3. /\ attempts'[d].failed = 0 /\ attempts'[d].until = 0
        /\ \A x \in Device : x # d => attempts'[x] = attempts[x]
    BY <1>1, <1>2 DEF Inv, TypeOK, NoAttempts
  <1>4. \A h \in Handler : handler'[h].op = "unlock" => handler'[h] = handler[h]
    BY <1>2 DEF Inv, TypeOK, Free
  <1>5. InTime'
    BY <1>2, <1>4 DEF BudgetInv, InTime
  <1>6. BlockedAtLimit'
    BY <1>3, BudgetNumbers DEF BudgetInv, BlockedAtLimit
  <1>7. BlockOutlasts'
    <2> SUFFICES ASSUME NEW h \in Handler, Verifying(h)',
                        attempts'[handler'[h].device].until > handler'[h].t
                 PROVE  attempts'[handler'[h].device].until > handler'[h].t + Slowest
      BY DEF BlockOutlasts
    <2>1. handler'[h] = handler[h] /\ Verifying(h)
      BY <1>4 DEF Verifying
    <2>2. handler[h].device \in Device /\ handler[h].t \in Nat
      BY <2>1, UnlockFields DEF Inv, Verifying
    <2>3. handler[h].device # d
      BY <1>3, <2>1, <2>2
    <2> QED  BY <1>3, <2>1, <2>2, <2>3 DEF BudgetInv, BlockOutlasts
  <1>8. WithinBudget'
    <2> SUFFICES ASSUME NEW x \in Device, attempts'[x].failed >= MaxFailures
                 PROVE  attempts'[x].failed + Cardinality(Counting(x)')
                          <= MaxFailures + Cardinality(Handler) - 1
      BY DEF WithinBudget
    <2>1. x # d /\ attempts'[x] = attempts[x]
      BY <1>3, BudgetNumbers
    <2>2. Counting(x)' \subseteq Counting(x) /\ Counting(x) \subseteq Handler
      BY <1>4, <2>1 DEF Counting, Verifying, Blocked
    <2>3. /\ Cardinality(Counting(x)') \in Nat /\ Cardinality(Counting(x)) \in Nat
          /\ Cardinality(Counting(x)') <= Cardinality(Counting(x))
      BY <2>2, FewerCount
    <2>4. attempts[x].failed + Cardinality(Counting(x))
            <= MaxFailures + Cardinality(Handler) - 1
      BY <2>1 DEF BudgetInv, WithinBudget
    <2>5. attempts[x].failed \in Nat
      BY DEF Inv, TypeOK, Attempts
    <2> QED  BY <2>1, <2>3, <2>4, <2>5, BudgetNumbers
  <1> QED  BY <1>5, <1>6, <1>7, <1>8 DEF BudgetInv

\* A failure that sets a block dates it past every request in flight, so that one that
\* counts is one that counted before, or one of those that take the count to its limit.
LEMMA CountedStep ==
  ASSUME Inv, BudgetInv, NEW k \in Handler, RecordPINFailure(k)
  PROVE  BudgetInv'
  <1>0. PICK d, t, a : d = handler[k].device /\ t = handler[k].t /\ a = attempts[d]
    OBVIOUS
  <1> DEFINE b == AfterFailure(a, t)
  <1>1. /\ d \in Device /\ t \in Nat /\ a.failed \in Nat /\ a.until \in Nat
        /\ Verifying(k) /\ now \in Nat /\ now <= t + Slowest /\ t <= now
    BY <1>0, UnlockFields
    DEF RecordPINFailure, Inv, TypeOK, Verifying, BudgetInv, InTime, Arrived
  <1>2. /\ attempts' = [attempts EXCEPT ![d] = b]
        /\ now' = now /\ handler' = [handler EXCEPT ![k] = Free]
    BY <1>0 DEF RecordPINFailure, Step
  <1>3. /\ b.failed = IF a.until # 0 /\ a.until <= t THEN 1 ELSE a.failed + 1
        /\ b.until = IF b.failed >= MaxFailures THEN t + BlockTime ELSE 0
    BY DEF AfterFailure
  <1>4. attempts'[d] = b /\ \A x \in Device : x # d => attempts'[x] = attempts[x]
    BY <1>0, <1>1, <1>2 DEF Inv, TypeOK
  <1>5. \A h \in Handler : handler'[h].op = "unlock" => handler'[h] = handler[h] /\ h # k
    BY <1>2 DEF Inv, TypeOK, Free
  <1> HIDE DEF b
  <1>6. InTime'
    BY <1>2, <1>5 DEF BudgetInv, InTime
  <1>7. BlockedAtLimit'
    BY <1>0, <1>1, <1>3, <1>4, BudgetNumbers DEF BudgetInv, BlockedAtLimit
  <1>8. \A h \in Handler : Verifying(h) => handler[h].t \in Nat /\ handler[h].t <= now
    BY UnlockFields DEF Verifying, Inv, Arrived
  <1>9. \A h \in Handler : Verifying(h)' =>
          Verifying(h) /\ handler'[h] = handler[h] /\ h # k
    BY <1>5 DEF Verifying
  <1>10. BlockOutlasts'
    <2> SUFFICES ASSUME NEW h \in Handler, Verifying(h)',
                        attempts'[handler'[h].device].until > handler'[h].t
                 PROVE  attempts'[handler'[h].device].until > handler'[h].t + Slowest
      BY DEF BlockOutlasts
    <2>1. Verifying(h) /\ handler'[h] = handler[h] /\ handler[h].device \in Device
      BY <1>9, UnlockFields DEF Verifying, Inv
    <2>2. handler[h].t \in Nat /\ handler[h].t <= now
      BY <1>8, <2>1
    <2>3. CASE handler[h].device = d
      <3>1. b.until = t + BlockTime
        BY <1>3, <1>4, <2>1, <2>2, <2>3
      <3> QED  BY <1>0, <1>1, <1>4, <2>1, <2>2, <2>3, <3>1, BudgetNumbers
    <2>4. CASE handler[h].device # d
      BY <1>4, <2>1, <2>4 DEF BudgetInv, BlockOutlasts
    <2> QED  BY <2>3, <2>4
  <1>11. WithinBudget'
    <2> SUFFICES ASSUME NEW x \in Device, attempts'[x].failed >= MaxFailures
                 PROVE  attempts'[x].failed + Cardinality(Counting(x)')
                          <= MaxFailures + Cardinality(Handler) - 1
      BY DEF WithinBudget
    <2>1. CASE x # d
      <3>1. attempts'[x] = attempts[x] /\ attempts[x].failed \in Nat
        BY <1>4, <2>1 DEF Inv, TypeOK, Attempts
      <3>2. Counting(x)' \subseteq Counting(x) /\ Counting(x) \subseteq Handler
        BY <1>9, <3>1 DEF Counting, Blocked
      <3>3. /\ Cardinality(Counting(x)') \in Nat /\ Cardinality(Counting(x)) \in Nat
            /\ Cardinality(Counting(x)') <= Cardinality(Counting(x))
        BY <3>2, FewerCount
      <3>4. attempts[x].failed + Cardinality(Counting(x))
              <= MaxFailures + Cardinality(Handler) - 1
        BY <3>1 DEF BudgetInv, WithinBudget
      <3> QED  BY <3>1, <3>3, <3>4, BudgetNumbers
    <2>2. CASE x = d /\ b.failed <= MaxFailures
      <3>1. Counting(x)' \subseteq Handler \ {k}
        BY <1>9 DEF Counting
      <3>2. /\ Cardinality(Counting(x)') \in Nat
            /\ Cardinality(Counting(x)') <= Cardinality(Handler) - 1
        BY <3>1, OneLessCounts
      <3> QED  BY <1>0, <1>1, <1>3, <1>4, <2>2, <3>2, BudgetNumbers
    <2>3. CASE x = d /\ b.failed > MaxFailures
      <3>1. b.failed = a.failed + 1 /\ a.failed >= MaxFailures
        BY <1>0, <1>1, <1>3, <2>3, BudgetNumbers
      <3>2. a.until > t
        BY <1>0, <1>1, <1>3, <2>3, <3>1, BudgetNumbers DEF BudgetInv, BlockedAtLimit
      <3>3. a.until > now
        BY <1>0, <1>1, <3>2, BudgetNumbers DEF BudgetInv, BlockOutlasts
      <3>4. k \in Counting(d)
        BY <1>0, <1>1, <3>2 DEF Counting, Blocked
      <3>5. Counting(d)' \subseteq Counting(d) \ {k}
        <4> SUFFICES ASSUME NEW h \in Handler, h \in Counting(d)'
                     PROVE  h \in Counting(d) \ {k}
          BY DEF Counting
        <4>1. Verifying(h)' /\ handler'[h].device = d
          BY DEF Counting
        <4>2. Verifying(h) /\ handler'[h] = handler[h] /\ h # k
          BY <1>9, <4>1
        <4>3. handler[h].t \in Nat /\ handler[h].t <= now
          BY <1>8, <4>2
        <4>4. a.until \in Nat
          BY <1>0, <1>1
        <4>5. handler[h].t < a.until
          BY <1>0, <1>1, <3>3, <4>3, <4>4
        <4> QED  BY <1>0, <4>1, <4>2, <4>5 DEF Counting, Blocked
      <3>6. /\ Cardinality(Counting(d)') \in Nat /\ Cardinality(Counting(d)) \in Nat
            /\ Cardinality(Counting(d)') <= Cardinality(Counting(d)) - 1
        <4>1. Counting(d) \subseteq Handler
          BY DEF Counting
        <4> QED  BY <3>4, <3>5, <4>1, OneLessCounts
      <3>7. a.failed + Cardinality(Counting(d)) <= MaxFailures + Cardinality(Handler) - 1
        BY <1>0, <1>1, <3>1 DEF BudgetInv, WithinBudget
      <3>8. a.failed \in Nat
        BY <1>0, <1>1
      <3>9. b.failed + Cardinality(Counting(d)')
              <= MaxFailures + Cardinality(Handler) - 1
        BY <3>1, <3>6, <3>7, <3>8, BudgetNumbers
      <3>10. attempts'[x] = b /\ Counting(x)' = Counting(d)'
        BY <1>0, <1>1, <1>4, <2>3 DEF Counting
      <3> QED  BY <3>9, <3>10
    <2> QED  BY <1>0, <1>1, <1>3, <2>1, <2>2, <2>3, BudgetNumbers
  <1> QED  BY <1>6, <1>7, <1>10, <1>11 DEF BudgetInv

\* Every step keeps within the budget.
LEMMA BudgetStep == Inv /\ BudgetInv /\ [Next]_vars => BudgetInv'
  <1> SUFFICES ASSUME Inv, BudgetInv, [Next]_vars PROVE BudgetInv'
    OBVIOUS
  <1>1. ASSUME NEW h \in Handler, NEW r, attempts' = attempts, now' = now, Step(h, r),
               r.op = "unlock" => /\ now <= r.t + Slowest
                                  /\ r.step # "verify" \/ ~Blocked(r.device, r.t)
        PROVE  BudgetInv'
    <2>1. \A x \in Handler : handler'[x] = IF x = h THEN r ELSE handler[x]
      BY <1>1 DEF Step, Inv, TypeOK
    <2> QED  BY <1>1, <2>1, UncountedStep DEF BudgetInv, InTime
  <1>2. now \in Nat /\ Slowest \in Nat /\ Free.op # "unlock"
    BY BudgetNumbers DEF Inv, TypeOK, Free
  <1>3. ASSUME NEW h \in Handler, NEW d \in Device, BeginUnlock(h, d)
        PROVE  BudgetInv'
    <2>1. /\ Unlocking(d, "challenge").t = now
          /\ Unlocking(d, "challenge").step = "challenge"
      BY DEF Unlocking
    <2> QED  BY <1>1, <1>2, <1>3, <2>1 DEF BeginUnlock
  <1>4. ASSUME NEW h \in Handler, PINChallenge(h)
        PROVE  BudgetInv'
    <2> DEFINE r == [handler[h] EXCEPT !.step = "verify"]
    <2>1. /\ handler[h] \in Unlock /\ now <= handler[h].t + Slowest
      BY <1>4, UnlockRequest DEF PINChallenge, Inv, BudgetInv, InTime
    <2>2. r.t = handler[h].t /\ r.device = handler[h].device
      BY <2>1 DEF Unlock
    <2>3. CASE Blocked(handler[h].device, handler[h].t)
      BY <1>1, <1>2, <1>4, <2>3 DEF PINChallenge
    <2>4. CASE ~Blocked(handler[h].device, handler[h].t)
      <3>1. Step(h, r) /\ attempts' = attempts /\ now' = now
        BY <1>4, <2>4 DEF PINChallenge
      <3> HIDE DEF r
      <3> QED  BY <1>1, <2>1, <2>2, <2>4, <3>1
    <2> QED  BY <2>3, <2>4
  <1>5. ASSUME NEW h \in Handler, NEW d \in Device, NEW s \in Session, BeginUse(h, d, s)
        PROVE  BudgetInv'
    BY <1>1, <1>5 DEF BeginUse
  <1>6. ASSUME NEW h \in Handler, NEW step, handler[h].op = "use",
               attempts' = attempts, now' = now, Step(h, [handler[h] EXCEPT !.step = step])
        PROVE  BudgetInv'
    <2> DEFINE r == [handler[h] EXCEPT !.step = step]
    <2>1. r.op = "use"
      BY <1>6, UseRequest DEF Use, Inv
    <2> HIDE DEF r
    <2> QED  BY <1>1, <1>6, <2>1 DEF r
  <1>7. ASSUME NEW h \in Handler,
               (\E refreshIdle \in BOOLEAN : SelectSession(h, refreshIdle)) \/ ExtendSession(h)
        PROVE  BudgetInv'
    BY <1>1, <1>2, <1>6, <1>7 DEF SelectSession, ExtendSession
  <1>8. ASSUME NEW h \in Handler,
               LockAdmin(h) \/ Operate(h) \/ \E target \in Device : RevokeDevice(h, target)
        PROVE  BudgetInv'
    BY <1>1, <1>2, <1>8 DEF LockAdmin, Operate, RevokeDevice
  <1>9. CASE \/ UNCHANGED vars
             \/ \E d \in Device : DetectReuse(d)
    <2>1. attempts' = attempts /\ now' = now /\ handler' = handler
      BY <1>9 DEF vars, DetectReuse
    <2> QED  BY <2>1, UncountedStep DEF BudgetInv, InTime
  <1>10. CASE Tick
    <2>1. attempts' = attempts /\ now' = now + 1 /\ handler' = handler
      BY <1>10 DEF Tick
    <2>2. \A h \in Handler : handler[h].op = "unlock" => now + 1 <= handler[h].t + Slowest
      <3>1. \A h \in Handler : handler[h].op = "unlock" =>
              handler[h].t \in Nat /\ now < handler[h].t + Slowest
        BY <1>10, UnlockFields DEF Tick, Inv
      <3> QED  BY <1>2, <3>1
    <2> QED  BY <2>1, <2>2, UncountedStep
  <1> QED
    BY <1>3, <1>4, <1>5, <1>7, <1>8, <1>9, <1>10, ClearedStep, CountedStep DEF Next

\* However many unlocks overlap, each counts once against the limit on wrong PINs.
THEOREM BudgetHolds == Spec => []FailureBudget
  <1>1. ASSUME Inv, BudgetInv, NEW d \in Device
        PROVE  attempts[d].failed <= MaxFailures + Cardinality(Handler) - 1
    <2>1. attempts[d].failed \in Nat
      BY <1>1 DEF Inv, TypeOK, Attempts
    <2>2. Cardinality(Counting(d)) \in Nat
      <3>1. Counting(d) \subseteq Handler  BY DEF Counting
      <3> QED  BY <3>1, FewerCount
    <2> QED  BY <1>1, <2>1, <2>2, BudgetNumbers DEF BudgetInv, WithinBudget
  <1>2. Inv /\ BudgetInv => FailureBudget
    BY <1>1 DEF FailureBudget
  <1>3. Spec => []BudgetInv
    BY BudgetInit, BudgetStep, Invariance, PTL DEF Spec
  <1> QED  BY <1>2, <1>3, Invariance, PTL

=============================================================================
