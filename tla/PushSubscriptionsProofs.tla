------------------------ MODULE PushSubscriptionsProofs ------------------------
(***************************************************************************)
(* Theorems of PushSubscriptions, for any browsers, devices, endpoints and *)
(* requests in flight.  A step writes the table in one of three ways and   *)
(* moves at most one request; the two lemmas that say so carry the rest.   *)
(***************************************************************************)
EXTENDS PushSubscriptions, FiniteSetTheorems, TLAPS

\* A request that passed authentication names a device.
AuthorizedHasDevice ==
  \A h \in Handler :
    request[h].op # "free" /\ request[h].step # "sent" => request[h].device \in Device

\* OneActiveSubscription, without counting.
SoleSubscription == \A d \in Device : \A x, y \in ActiveOf(d) : x = y

Inv == TypeOK /\ AuthorizedHasDevice /\ SoleSubscription

-----------------------------------------------------------------------------
(* What the operations of the model do to a row, a request and a page. *)

\* A row that exists has a device.
LEMMA RowType ==
  ASSUME TypeOK, NEW e \in Endpoint
  PROVE  /\ row[e] = NoRow \/ row[e] \in [device : Device, revoked : BOOLEAN]
         /\ row[e].device \in Device <=> row[e] # NoRow
  BY NoneAssumption DEF TypeOK, Row, NoRow

\* Revoking the rows of a device takes its active ones and no others.
LEMMA RevokedRows ==
  ASSUME TypeOK, NEW d \in Device
  PROVE  /\ Revoked(d) \in [Endpoint -> Row]
         /\ \A e \in Endpoint :
              /\ Revoked(d)[e].device = row[e].device
              /\ row[e].device = d => Revoked(d)[e].revoked
              /\ row[e].device # d => Revoked(d)[e] = row[e]
              /\ Revoked(d)[e] = NoRow <=> row[e] = NoRow
  <1> SUFFICES ASSUME NEW e \in Endpoint
      PROVE  /\ Revoked(d)[e] \in Row
             /\ Revoked(d)[e].device = row[e].device
             /\ row[e].device = d => Revoked(d)[e].revoked
             /\ row[e].device # d => Revoked(d)[e] = row[e]
             /\ Revoked(d)[e] = NoRow <=> row[e] = NoRow
    BY DEF Revoked
  <1>1. Revoked(d)[e] = IF row[e].device = d THEN [row[e] EXCEPT !.revoked = TRUE]
                        ELSE row[e]
    BY DEF Revoked
  <1>2. CASE row[e].device = d
    <2>1. row[e] \in [device : Device, revoked : BOOLEAN]  BY <1>2, RowType
    <2>2. Revoked(d)[e] = [row[e] EXCEPT !.revoked = TRUE]  BY <1>1, <1>2
    <2>3. /\ Revoked(d)[e] \in [device : Device, revoked : BOOLEAN]
          /\ Revoked(d)[e].device = d /\ Revoked(d)[e].revoked
      BY <1>2, <2>1, <2>2
    <2>4. Revoked(d)[e] # NoRow /\ row[e] # NoRow
      BY <1>2, <2>3, NoneAssumption DEF NoRow
    <2> QED  BY <1>2, <2>3, <2>4 DEF Row
  <1>3. CASE row[e].device # d
    BY <1>1, <1>3 DEF TypeOK
  <1> QED  BY <1>2, <1>3

\* What the type of a request says of its fields.
LEMMA RequestFields ==
  ASSUME TypeOK, NEW h \in Handler, request[h] # Free
  PROVE  /\ request[h].op \in {"put", "delete", "test"}
         /\ request[h].device \in Device \cup {None}
         /\ request[h].op = "put" =>
              request[h] \in [op : {"put"}, device : Device \cup {None},
                              endpoint : Endpoint,
                              step : {"sent", "authorized", "failed"}]
         /\ request[h].op = "delete" =>
              request[h] \in [op : {"delete"}, device : Device \cup {None},
                              step : {"sent", "authorized"}]
         /\ request[h].op = "test" =>
              request[h] \in [op : {"test"}, device : Device \cup {None},
                              endpoint : Endpoint \cup {None},
                              step : {"sent", "authorized", "delivering", "gone"}]
  BY DEF TypeOK, Request

\* The end of a request leaves pages of their type.
LEMMA EndsType ==
  ASSUME TypeOK, NEW h \in Handler, NEW p \in {Loading, Idle}, Ends(h, p)
  PROVE  page' \in [Browser -> Page] /\ request' = [request EXCEPT ![h] = Free]
  <1>1. p \in Page  BY DEF Loading, Idle, Page
  <1> QED  BY <1>1 DEF Ends, Step, TypeOK

-----------------------------------------------------------------------------
\* The requests a step may leave with handler h: none, one just sent, one that was
\* just authenticated, or the one there was, further on.
Moved(h, r) ==
  \/ r = Free
  \/ /\ r \in Request /\ r.op # "free" /\ r.step = "sent"
  \/ /\ r \in Request /\ request[h] # Free /\ request[h].step = "sent"
     /\ r.op = request[h].op /\ r.device = request[h].device
     /\ Authenticated(r.device)
  \/ /\ r \in Request /\ request[h] # Free /\ request[h].step # "sent"
     /\ r.op = request[h].op /\ r.device = request[h].device
     /\ r.step # "authorized"

\* A step moves at most one request, and takes none past authentication whose
\* device is not active.
LEMMA RequestEffect ==
  ASSUME Inv, Next
  PROVE  \/ request' = request
         \/ \E h \in Handler : \E r \in Request :
              request' = [request EXCEPT ![h] = r] /\ Moved(h, r)
  <1> USE DEF Inv
  <1>f. Free \in Request  BY DEF Request
  <1>1. ASSUME NEW b \in Browser, Enroll(b) PROVE request' = request
    BY <1>1 DEF Enroll
  <1>2. ASSUME NEW d \in Device, RevokeDevice(d) \/ DetectReuse(d) PROVE request' = request
    BY <1>2 DEF RevokeDevice, DetectReuse
  <1>3. ASSUME NEW b \in Browser, Expire(b) \/ LoadConfig(b) \/ Reload(b)
        PROVE request' = request
    BY <1>3 DEF Expire, LoadConfig, Reload
  <1>4. ASSUME NEW b \in Browser, NEW h \in Handler,
               Enable(b, h) \/ Disable(b, h) \/ SendTest(b, h)
        PROVE \E r \in Request : request' = [request EXCEPT ![h] = r] /\ Moved(h, r)
    <2>1. identity[b] \in Device \cup {None}  BY DEF TypeOK
    <2>2. CASE Enable(b, h)
      <3> DEFINE e == IF subscription[b] = None THEN FreshEndpoint ELSE subscription[b]
                 r == [op |-> "put", device |-> identity[b], endpoint |-> e, step |-> "sent"]
      <3>1. e \in Endpoint  BY <2>2 DEF Enable, FreshEndpoint, TypeOK
      <3>2. r \in Request /\ r.op # "free" /\ r.step = "sent"  BY <2>1, <3>1 DEF Request
      <3>3. request' = [request EXCEPT ![h] = r]  BY <2>2 DEF Enable, Step
      <3> HIDE DEF r
      <3> QED  BY <3>2, <3>3 DEF Moved
    <2>3. CASE Disable(b, h)
      <3> DEFINE r == [op |-> "delete", device |-> identity[b], step |-> "sent"]
      <3>2. r \in Request /\ r.op # "free" /\ r.step = "sent"  BY <2>1 DEF Request
      <3>3. request' = [request EXCEPT ![h] = r]  BY <2>3 DEF Disable, Step
      <3> HIDE DEF r
      <3> QED  BY <3>2, <3>3 DEF Moved
    <2>4. CASE SendTest(b, h)
      <3> DEFINE r == [op |-> "test", device |-> identity[b], endpoint |-> None,
                       step |-> "sent"]
      <3>2. r \in Request /\ r.op # "free" /\ r.step = "sent"  BY <2>1 DEF Request
      <3>3. request' = [request EXCEPT ![h] = r]  BY <2>4 DEF SendTest, Step
      <3> HIDE DEF r
      <3> QED  BY <3>2, <3>3 DEF Moved
    <2> QED  BY <1>4, <2>2, <2>3, <2>4
  <1>5. ASSUME NEW h \in Handler,
               request' = [request EXCEPT ![h] = Free]
        PROVE \E r \in Request : request' = [request EXCEPT ![h] = r] /\ Moved(h, r)
    BY <1>f, <1>5 DEF Moved
  <1>6. ASSUME NEW h \in Handler, Authenticate(h)
        PROVE \E r \in Request : request' = [request EXCEPT ![h] = r] /\ Moved(h, r)
    <2>1. request[h] # Free /\ request[h].step = "sent"  BY <1>6 DEF Authenticate, Free
    <2>2. CASE Accepts(request[h].device)
      <3> DEFINE r == [request[h] EXCEPT !.step = "authorized"]
      <3>1. /\ r \in Request /\ r.op = request[h].op /\ r.device = request[h].device
        BY <2>1, RequestFields DEF Request
      <3>2. request' = [request EXCEPT ![h] = r]  BY <1>6, <2>2 DEF Authenticate, Step
      <3> HIDE DEF r
      <3> QED  BY <2>1, <2>2, <3>1, <3>2 DEF Moved, Accepts
    <2>3. CASE ~Accepts(request[h].device)
      BY <1>5, <1>6, <2>3, EndsType DEF Authenticate
    <2> QED  BY <2>2, <2>3
  <1>7. ASSUME NEW h \in Handler, ReplacePushSubscription(h)
        PROVE \E r \in Request : request' = [request EXCEPT ![h] = r] /\ Moved(h, r)
    <2>1. /\ request[h] # Free /\ request[h].step # "sent" /\ request[h].op = "put"
      BY <1>7 DEF ReplacePushSubscription, Free
    <2>2. CASE row[request[h].endpoint] # NoRow
      <3> DEFINE r == [request[h] EXCEPT !.step = "failed"]
      <3>1. /\ r \in Request /\ r.op = request[h].op /\ r.device = request[h].device
            /\ r.step = "failed"
        BY <2>1, RequestFields DEF Request
      <3>2. request' = [request EXCEPT ![h] = r]
        BY <1>7, <2>2 DEF ReplacePushSubscription, Step
      <3> HIDE DEF r
      <3> QED  BY <2>1, <3>1, <3>2 DEF Moved
    <2>3. CASE row[request[h].endpoint] = NoRow
      BY <1>5, <1>7, <2>3, EndsType DEF ReplacePushSubscription, Answered
    <2> QED  BY <2>2, <2>3
  <1>8. ASSUME NEW h \in Handler,
               ReportFailure(h) \/ RevokePushSubscription(h) \/ ForgetSubscription(h)
                 \/ Lose(h)
        PROVE \E r \in Request : request' = [request EXCEPT ![h] = r] /\ Moved(h, r)
    BY <1>5, <1>8, EndsType
       DEF ReportFailure, RevokePushSubscription, ForgetSubscription, Lose, Answered
  <1>9. ASSUME NEW h \in Handler, ReadSubscription(h)
        PROVE \E r \in Request : request' = [request EXCEPT ![h] = r] /\ Moved(h, r)
    <2>1. /\ request[h] # Free /\ request[h].step # "sent" /\ request[h].op = "test"
      <3>1. request[h].op = "test" /\ request[h].step = "authorized"
        BY <1>9 DEF ReadSubscription
      <3> QED  BY <3>1 DEF Free
    <2>2. CASE ActiveOf(request[h].device) = {}
      BY <1>5, <1>9, <2>2, EndsType DEF ReadSubscription
    <2>3. CASE ActiveOf(request[h].device) # {}
      <3>1. PICK e \in ActiveOf(request[h].device) :
              Step(h, [request[h] EXCEPT !.endpoint = e, !.step = "delivering"])
        BY <1>9, <2>3 DEF ReadSubscription
      <3> DEFINE r == [request[h] EXCEPT !.endpoint = e, !.step = "delivering"]
      <3>2. e \in Endpoint  BY DEF ActiveOf
      <3>3. /\ r \in Request /\ r.op = request[h].op /\ r.device = request[h].device
            /\ r.step = "delivering"
        BY <2>1, <3>2, RequestFields DEF Request
      <3>4. request' = [request EXCEPT ![h] = r]  BY <3>1 DEF Step
      <3> HIDE DEF r
      <3> QED  BY <2>1, <3>3, <3>4 DEF Moved
    <2> QED  BY <2>2, <2>3
  <1>10. ASSUME NEW h \in Handler, PushServiceAnswers(h)
        PROVE \E r \in Request : request' = [request EXCEPT ![h] = r] /\ Moved(h, r)
    <2>1. /\ request[h] # Free /\ request[h].step # "sent" /\ request[h].op = "test"
      BY <1>10 DEF PushServiceAnswers, Free
    <2>2. CASE \E b \in Browser : subscription[b] = request[h].endpoint
      BY <1>5, <1>10, <2>2, EndsType DEF PushServiceAnswers
    <2>3. CASE ~\E b \in Browser : subscription[b] = request[h].endpoint
      <3> DEFINE r == [request[h] EXCEPT !.step = "gone"]
      <3>1. /\ r \in Request /\ r.op = request[h].op /\ r.device = request[h].device
            /\ r.step = "gone"
        BY <2>1, RequestFields DEF Request
      <3>2. request' = [request EXCEPT ![h] = r]
        BY <1>10, <2>3 DEF PushServiceAnswers, Step
      <3> HIDE DEF r
      <3> QED  BY <2>1, <3>1, <3>2 DEF Moved
    <2> QED  BY <2>2, <2>3
  <1> QED
    BY <1>1, <1>2, <1>3, <1>4, <1>6, <1>7, <1>8, <1>9, <1>10 DEF Next

\* Why the active row of device d may go.
Asked(d) ==
  \/ device'[d] = "revoked"
  \/ \E h \in Handler :
       /\ request[h] # Free /\ request[h].device = d
       /\ \/ request[h].op = "delete" /\ request[h].step = "authorized"
          \/ request[h].op = "test" /\ request[h].step = "gone"

\* A step leaves the table, revokes the rows of a device that asked for it, or
\* replaces them by a row that was not there.
LEMMA RowEffect ==
  ASSUME Inv, Next
  PROVE  \/ row' = row
         \/ \E d \in Device : row' = Revoked(d) /\ Asked(d)
         \/ \E h \in Handler :
              LET r == request[h] IN
              /\ r.op = "put" /\ r.step = "authorized"
              /\ r.device \in Device /\ r.endpoint \in Endpoint
              /\ row[r.endpoint] = NoRow
              /\ row' = [Revoked(r.device) EXCEPT
                           ![r.endpoint] = [device |-> r.device, revoked |-> FALSE]]
  <1> USE DEF Inv
  <1>1. ASSUME NEW b \in Browser, Enroll(b) \/ Expire(b) \/ LoadConfig(b) \/ Reload(b)
        PROVE row' = row
    BY <1>1 DEF Enroll, Expire, LoadConfig, Reload, serverVars
  <1>2. ASSUME NEW b \in Browser, NEW h \in Handler,
               Enable(b, h) \/ Disable(b, h) \/ SendTest(b, h)
        PROVE row' = row
    BY <1>2 DEF Enable, Disable, SendTest, serverVars
  <1>3. ASSUME NEW d \in Device, RevokeDevice(d)
        PROVE row' = Revoked(d) /\ Asked(d)
    BY <1>3 DEF RevokeDevice, Asked, TypeOK
  <1>4. ASSUME NEW d \in Device, DetectReuse(d) PROVE row' = row
    BY <1>4 DEF DetectReuse
  <1>5. ASSUME NEW h \in Handler,
               Authenticate(h) \/ ReportFailure(h) \/ ReadSubscription(h)
                 \/ PushServiceAnswers(h) \/ Lose(h)
        PROVE row' = row
    BY <1>5 DEF Authenticate, ReportFailure, ReadSubscription, PushServiceAnswers, Lose,
                serverVars
  <1>6. ASSUME NEW h \in Handler, RevokePushSubscription(h) \/ ForgetSubscription(h)
        PROVE \E d \in Device : row' = Revoked(d) /\ Asked(d)
    <2>1. /\ request[h] # Free /\ request[h].device \in Device
          /\ row' = Revoked(request[h].device)
      BY <1>6 DEF RevokePushSubscription, ForgetSubscription, AuthorizedHasDevice, Free
    <2>2. Asked(request[h].device)
      BY <1>6, <2>1 DEF RevokePushSubscription, ForgetSubscription, Asked
    <2> QED  BY <2>1, <2>2
  <1>7. ASSUME NEW h \in Handler, ReplacePushSubscription(h), row' # row
        PROVE  LET r == request[h] IN
               /\ r.op = "put" /\ r.step = "authorized"
               /\ r.device \in Device /\ r.endpoint \in Endpoint
               /\ row[r.endpoint] = NoRow
               /\ row' = [Revoked(r.device) EXCEPT
                            ![r.endpoint] = [device |-> r.device, revoked |-> FALSE]]
    <2>1. request[h] # Free /\ request[h].op = "put" /\ request[h].step = "authorized"
      BY <1>7 DEF ReplacePushSubscription, Free
    <2>2. request[h].device \in Device /\ request[h].endpoint \in Endpoint
      BY <2>1, RequestFields DEF AuthorizedHasDevice
    <2> QED  BY <1>7, <2>1, <2>2 DEF ReplacePushSubscription, Replaced
  <1> QED
    BY <1>1, <1>2, <1>3, <1>4, <1>5, <1>6, <1>7 DEF Next

\* What the three ways of writing the table do to the active rows of a device.
LEMMA ActiveEffect ==
  ASSUME Inv, Next
  PROVE  \A d \in Device :
           \/ ActiveOf(d)' = ActiveOf(d)
           \/ ActiveOf(d)' = {} /\ Asked(d)
           \/ \E h \in Handler :
                /\ request[h].op = "put" /\ request[h].step = "authorized"
                /\ request[h].device = d
                /\ ActiveOf(d)' = {request[h].endpoint}
  <1> USE DEF Inv
  <1>1. CASE row' = row
    BY <1>1 DEF ActiveOf, Active
  <1>2. ASSUME NEW x \in Device, row' = Revoked(x), Asked(x), NEW d \in Device
        PROVE  ActiveOf(d)' = ActiveOf(d) \/ (ActiveOf(d)' = {} /\ Asked(d))
    <2>1. CASE d = x
      BY <1>2, <2>1, RevokedRows DEF ActiveOf, Active
    <2>2. CASE d # x
      BY <1>2, <2>2, RevokedRows DEF ActiveOf, Active
    <2> QED  BY <2>1, <2>2
  <1>3. ASSUME NEW h \in Handler, NEW x \in Device, NEW e \in Endpoint,
               row[e] = NoRow,
               row' = [Revoked(x) EXCEPT ![e] = [device |-> x, revoked |-> FALSE]],
               NEW d \in Device
        PROVE  IF d = x THEN ActiveOf(d)' = {e} ELSE ActiveOf(d)' = ActiveOf(d)
    <2>1. /\ row'[e] = [device |-> x, revoked |-> FALSE]
          /\ \A y \in Endpoint \ {e} : row'[y] = Revoked(x)[y]
      BY <1>3, RevokedRows
    <2>2. row'[e] # NoRow /\ row[e].device # d
      BY <2>1, <1>3, NoneAssumption DEF NoRow
    <2>3. CASE d = x
      BY <2>1, <2>2, <2>3, RevokedRows DEF ActiveOf, Active
    <2>4. CASE d # x
      BY <1>3, <2>1, <2>2, <2>4, RevokedRows DEF ActiveOf, Active
    <2> QED  BY <2>3, <2>4
  <1> QED
    BY <1>1, <1>2, <1>3, RowEffect

\* A device that was registered is not registered again.
LEMMA DeviceEffect ==
  ASSUME Inv, Next
  PROVE  /\ device' \in [Device -> {"absent", "active", "locked_out", "revoked"}]
         /\ \A d \in Device : device[d] \in {"revoked", "locked_out"} =>
              device'[d] \in {"revoked", "locked_out"}
  <1> USE DEF Inv
  <1>1. ASSUME NEW b \in Browser, Enroll(b)
        PROVE  FreshDevice \in Device /\ device[FreshDevice] = "absent"
               /\ device' = [device EXCEPT ![FreshDevice] = "active"]
    BY <1>1 DEF Enroll, FreshDevice
  <1>2. CASE \E b \in Browser : Enroll(b)
    BY <1>1, <1>2 DEF TypeOK
  <1>3. CASE \E d \in Device : RevokeDevice(d) \/ DetectReuse(d)
    BY <1>3 DEF RevokeDevice, DetectReuse, TypeOK
  <1>4. CASE UNCHANGED device
    BY <1>4 DEF TypeOK
  <1> QED
    BY <1>2, <1>3, <1>4
    DEF Next, Expire, LoadConfig, Reload, Enable, Disable, SendTest, Authenticate,
        ReplacePushSubscription, ReportFailure, RevokePushSubscription,
        ReadSubscription, PushServiceAnswers, ForgetSubscription, Lose, serverVars

\* Browsers and pages keep their types.
LEMMA BrowserEffect ==
  ASSUME Inv, Next
  PROVE  /\ identity' \in [Browser -> Device \cup {None}]
         /\ subscription' \in [Browser -> Endpoint \cup {None}]
         /\ issued' \subseteq Endpoint
         /\ page' \in [Browser -> Page]
         /\ subscribed' \in [Browser -> BOOLEAN]
  <1> USE DEF Inv
  <1>1. Loading \in Page /\ Idle \in Page
        /\ \A h \in Handler : [at |-> "busy", request |-> h] \in Page
    BY DEF Loading, Idle, Page
  <1>2. CASE \E b \in Browser : Enroll(b)
    BY <1>1, <1>2 DEF Enroll, FreshDevice, TypeOK
  <1>3. CASE \E d \in Device : RevokeDevice(d) \/ DetectReuse(d)
    BY <1>3 DEF RevokeDevice, DetectReuse, browserVars, TypeOK
  <1>4. CASE \E b \in Browser : Expire(b) \/ LoadConfig(b) \/ Reload(b)
    BY <1>1, <1>4 DEF Expire, LoadConfig, Reload, browserVars, TypeOK
  <1>5. CASE \E b \in Browser, h \in Handler : Enable(b, h)
    <2>1. PICK b \in Browser, h \in Handler : Enable(b, h)  BY <1>5
    <2> DEFINE e == IF subscription[b] = None THEN FreshEndpoint ELSE subscription[b]
    <2>2. e \in Endpoint  BY <2>1 DEF Enable, FreshEndpoint, TypeOK
    <2> HIDE DEF e
    <2>3. /\ subscription' = [subscription EXCEPT ![b] = e] /\ issued' = issued \cup {e}
          /\ page' = [page EXCEPT ![b] = [at |-> "busy", request |-> h]]
          /\ UNCHANGED <<identity, subscribed>>
      BY <2>1 DEF Enable, e
    <2> QED  BY <1>1, <2>2, <2>3 DEF TypeOK
  <1>6. CASE \E b \in Browser, h \in Handler : Disable(b, h) \/ SendTest(b, h)
    BY <1>1, <1>6 DEF Disable, SendTest, browserVars, TypeOK
  <1>7. ASSUME NEW h \in Handler,
               page' = page \/ \E p \in {Loading, Idle} : Ends(h, p),
               UNCHANGED <<browserVars, subscribed>>
        PROVE  /\ identity' \in [Browser -> Device \cup {None}]
               /\ subscription' \in [Browser -> Endpoint \cup {None}]
               /\ issued' \subseteq Endpoint
               /\ page' \in [Browser -> Page]
               /\ subscribed' \in [Browser -> BOOLEAN]
    BY <1>7, EndsType DEF browserVars, TypeOK
  <1>8. CASE \E h \in Handler :
               \/ Authenticate(h) \/ ReplacePushSubscription(h) \/ ReportFailure(h)
               \/ RevokePushSubscription(h) \/ ReadSubscription(h)
               \/ PushServiceAnswers(h) \/ ForgetSubscription(h) \/ Lose(h)
    BY <1>7, <1>8
    DEF Authenticate, ReplacePushSubscription, ReportFailure, RevokePushSubscription,
        ReadSubscription, PushServiceAnswers, ForgetSubscription, Lose, Answered
  <1> QED
    BY <1>2, <1>3, <1>4, <1>5, <1>6, <1>8 DEF Next

-----------------------------------------------------------------------------
\* At the start there are no devices, rows or requests.
LEMMA InitInv == Init => Inv
  BY DEF Init, Inv, TypeOK, AuthorizedHasDevice, SoleSubscription, ActiveOf, Active,
         Row, Page, Request, Loading, Free, NoRow

\* Every step preserves the invariant.
LEMMA StepInv == Inv /\ [Next]_vars => Inv'
  <1> SUFFICES ASSUME Inv, [Next]_vars PROVE Inv'
    OBVIOUS
  <1>1. CASE UNCHANGED vars
    BY <1>1 DEF vars, Inv, TypeOK, AuthorizedHasDevice, SoleSubscription, ActiveOf, Active
  <1>2. CASE Next
    <2>1. request' \in [Handler -> Request] /\ AuthorizedHasDevice'
      <3>1. CASE request' = request
        BY <3>1 DEF Inv, TypeOK, AuthorizedHasDevice
      <3>2. ASSUME NEW h \in Handler, NEW r \in Request,
                   request' = [request EXCEPT ![h] = r], Moved(h, r)
            PROVE  request' \in [Handler -> Request] /\ AuthorizedHasDevice'
        <4>1. TypeOK  BY DEF Inv
        <4>2. r.op # "free" /\ r.step # "sent" => r.device \in Device
          <5>1. CASE r = Free  BY <5>1 DEF Free
          <5>2. CASE r # Free
            BY <3>2, <4>1, <5>2, RequestFields
            DEF Moved, Authenticated, Inv, AuthorizedHasDevice
          <5> QED  BY <5>1, <5>2
        <4> QED  BY <3>2, <4>1, <4>2 DEF TypeOK, Inv, AuthorizedHasDevice
      <3> QED  BY <1>2, <3>1, <3>2, RequestEffect
    <2>2. row' \in [Endpoint -> Row]
      <3>1. CASE row' = row  BY <3>1 DEF Inv, TypeOK
      <3>2. CASE \E d \in Device : row' = Revoked(d)  BY <3>2, RevokedRows DEF Inv
      <3>3. ASSUME NEW d \in Device, NEW e \in Endpoint,
                   row' = [Revoked(d) EXCEPT ![e] = [device |-> d, revoked |-> FALSE]]
            PROVE  row' \in [Endpoint -> Row]
        <4>1. Revoked(d) \in [Endpoint -> Row]  BY RevokedRows DEF Inv
        <4>2. [device |-> d, revoked |-> FALSE] \in Row  BY DEF Row
        <4> QED  BY <3>3, <4>1, <4>2
      <3> QED  BY <1>2, <3>1, <3>2, <3>3, RowEffect
    <2>3. TypeOK'
      BY <1>2, <2>1, <2>2, DeviceEffect, BrowserEffect DEF TypeOK
    <2>4. SoleSubscription'
      <3> SUFFICES ASSUME NEW d \in Device PROVE \A x, y \in ActiveOf(d)' : x = y
        BY DEF SoleSubscription
      <3>1. \A x, y \in ActiveOf(d) : x = y  BY DEF Inv, SoleSubscription
      <3> QED  BY <1>2, <3>1, ActiveEffect
    <2> QED  BY <2>1, <2>3, <2>4 DEF Inv
  <1> QED  BY <1>1, <1>2

\* The invariant holds in every state.
THEOREM Invariance == Spec => []Inv
  BY InitInv, StepInv, PTL DEF Spec

\* Rows, pages and requests keep their types.
THEOREM TypeCorrect == Spec => []TypeOK
  <1>1. Inv => TypeOK  BY DEF Inv
  <1> QED  BY Invariance, <1>1, PTL

\* A device has at most one active subscription, however its registrations overlap.
THEOREM AtMostOneActive == Spec => []OneActiveSubscription
  <1>1. Inv => OneActiveSubscription
    <2> SUFFICES ASSUME Inv, NEW d \in Device PROVE Cardinality(ActiveOf(d)) <= 1
      BY DEF OneActiveSubscription
    <2>1. CASE ActiveOf(d) = {}
      <3>1. Cardinality(ActiveOf(d)) = 0  BY <2>1, FS_EmptySet
      <3> QED  BY <3>1
    <2>2. CASE ActiveOf(d) # {}
      <3>1. PICK e : e \in ActiveOf(d)  BY <2>2
      <3>2. ActiveOf(d) = {e}  BY <3>1 DEF Inv, SoleSubscription
      <3>3. Cardinality(ActiveOf(d)) = 1  BY <3>2, FS_Singleton
      <3> QED  BY <3>3
    <2> QED  BY <2>1, <2>2
  <1> QED  BY Invariance, <1>1, PTL

\* A device loses its subscription only to its revocation, its DELETE or a 404.
THEOREM LossIsAsked == Spec => LostOnlyAsAsked
  <1>1. Inv /\ [Next]_vars =>
          [\A d \in Device : ActiveOf(d) # {} /\ ActiveOf(d)' = {} =>
             \/ device'[d] = "revoked"
             \/ \E h \in Handler :
                  /\ request[h] # Free /\ request[h].device = d
                  /\ \/ request[h].op = "delete" /\ request[h].step = "authorized"
                     \/ request[h].op = "test" /\ request[h].step = "gone"]_vars
    BY ActiveEffect DEF Asked
  <1> QED  BY Invariance, <1>1, PTL DEF Spec, LostOnlyAsAsked

\* A device that is shut out and has no subscription left on the way never gets one.
THEOREM SilenceLasts == Spec => SilentForGood
  <1>1. ASSUME Inv, Next, NEW d \in Device, Silent(d)
        PROVE  Silent(d)'
    <2>1. device'[d] \in {"revoked", "locked_out"}
      BY <1>1, DeviceEffect DEF Silent
    <2>2. ActiveOf(d)' = {}
      BY <1>1, ActiveEffect DEF Silent
    <2>3. ASSUME NEW h \in Handler, request'[h].op = "put", request'[h].step = "authorized"
          PROVE  request'[h].device # d
      <3>1. CASE request' = request
        BY <1>1, <2>3, <3>1 DEF Silent
      <3>2. ASSUME NEW x \in Handler, NEW r \in Request,
                   request' = [request EXCEPT ![x] = r], Moved(x, r)
            PROVE  request'[h].device # d
        <4>1. CASE h = x
          <5>1. request'[h] = r  BY <3>2, <4>1, <1>1 DEF Inv, TypeOK
          <5>2. r # Free  BY <5>1, <2>3 DEF Free
          <5>3. Authenticated(r.device)  BY <3>2, <5>1, <5>2, <2>3 DEF Moved
          <5> QED  BY <1>1, <5>1, <5>3 DEF Silent, Authenticated
        <4>2. CASE h # x
          BY <1>1, <2>3, <3>2, <4>2 DEF Inv, TypeOK, Silent
        <4> QED  BY <4>1, <4>2
      <3> QED  BY <1>1, <3>1, <3>2, RequestEffect
    <2> QED  BY <2>1, <2>2, <2>3 DEF Silent
  <1>2. Inv /\ [Next]_vars => [\A d \in Device : Silent(d) => Silent(d)']_vars
    BY <1>1
  <1> QED  BY Invariance, <1>2, PTL DEF Spec, SilentForGood

=============================================================================
