-------------------------- MODULE PushSubscriptions --------------------------
(***************************************************************************)
(* Web Push: the table `push_subscriptions`, the handlers that write it,   *)
(* NotificationControl on the phones, and the push service in between.     *)
(*                                                                         *)
(* A handler authenticates its device first and changes the table later;   *)
(* a test notification reads the subscription, waits for the push service  *)
(* and then, on a 404 or 410, revokes what it finds.  A page may be left   *)
(* while its request is on the way, and a request may be lost at any step. *)
(*                                                                         *)
(* Of enrollment and credentials only their effects on a device matter     *)
(* here: Enroll, RevokeDevice and DetectReuse are the parts that concern   *)
(* subscriptions of the transactions modelled in Enrollment and            *)
(* Credentials.  Keys, permissions and VAPID are left out: the user grants *)
(* the permission and the server has its keys.                             *)
(***************************************************************************)
EXTENDS Integers, FiniteSets

CONSTANTS
  Browser,    \* the phones' and the tablet's browsers
  Device,     \* device identifiers, all of an eligible type
  Endpoint,   \* endpoints the push services hand out, never twice the same
  Handler,    \* requests in flight at the same time
  None

ASSUME NoneAssumption == None \notin Device /\ None \notin Endpoint

VARIABLES
  device,        \* device[d]: as far as subscriptions are concerned
  identity,      \* identity[b]: the device whose cookies b holds
  subscription,  \* subscription[b]: what pushManager.getSubscription returns
  issued,        \* the endpoints handed out so far
  row,           \* the table push_subscriptions, by its endpoint_hash
  page,          \* page[b]: what NotificationControl of b is doing
  subscribed,    \* subscribed[b]: the config.subscribed it was told last
  request        \* request[h]: between which steps handler h is

serverVars == <<device, row>>
browserVars == <<identity, subscription, issued>>
vars == <<device, identity, subscription, issued, row, page, subscribed, request>>

-----------------------------------------------------------------------------
NoRow == [device |-> None, revoked |-> FALSE]
Row == {NoRow} \cup [device : Device, revoked : BOOLEAN]

\* A page has no configuration yet, waits for the answer to a request, or neither.
Page == [at : {"loading", "idle"}] \cup [at : {"busy"}, request : Handler]
Loading == [at |-> "loading"]
Idle == [at |-> "idle"]

\* After a success the page loads the configuration; if the answer is lost it only
\* shows an error.
Answered == {Loading, Idle}

Free == [op |-> "free"]
Request == {Free}
  \cup [op : {"put"}, device : Device \cup {None}, endpoint : Endpoint,
        step : {"sent", "authorized", "failed"}]
  \cup [op : {"delete"}, device : Device \cup {None}, step : {"sent", "authorized"}]
  \cup [op : {"test"}, device : Device \cup {None}, endpoint : Endpoint \cup {None},
        step : {"sent", "authorized", "delivering", "gone"}]

Active(e) == row[e] # NoRow /\ ~row[e].revoked
ActiveOf(d) == {e \in Endpoint : Active(e) /\ row[e].device = d}
Authenticated(d) == d # None /\ device[d] = "active"

FreshEndpoint == CHOOSE e \in Endpoint : e \notin issued
FreshDevice == CHOOSE d \in Device : device[d] = "absent"

\* Every active row of device d is revoked: RevokePushSubscription, and the same
\* UPDATE inside RevokeDevice.
Revoked(d) ==
  [e \in Endpoint |-> IF row[e].device = d THEN [row[e] EXCEPT !.revoked = TRUE]
                      ELSE row[e]]

Step(h, r) == request' = [request EXCEPT ![h] = r]

\* The page that waits for request h, if it was not left, becomes p; the request
\* is over.
Ends(h, p) ==
  /\ Step(h, Free)
  /\ page' = [b \in Browser |->
                IF page[b].at = "busy" /\ page[b].request = h THEN p ELSE page[b]]

Init ==
  /\ device = [d \in Device |-> "absent"]
  /\ identity = [b \in Browser |-> None]
  /\ subscription = [b \in Browser |-> None]
  /\ issued = {}
  /\ row = [e \in Endpoint |-> NoRow]
  /\ page = [b \in Browser |-> Loading]
  /\ subscribed = [b \in Browser |-> FALSE]
  /\ request = [h \in Handler |-> Free]

-----------------------------------------------------------------------------
\* CompleteEnrollment: a browser that is no device any more becomes a new one.  It
\* keeps its push subscription.
Enroll(b) ==
  /\ ~Authenticated(identity[b])
  /\ \E d \in Device : device[d] = "absent"
  /\ device' = [device EXCEPT ![FreshDevice] = "active"]
  /\ identity' = [identity EXCEPT ![b] = FreshDevice]
  /\ page' = [page EXCEPT ![b] = Loading]
  /\ UNCHANGED <<subscription, issued, row, subscribed, request>>

\* RevokeDevice, in one transaction with the rest of what it revokes.
RevokeDevice(d) ==
  /\ device[d] \in {"active", "locked_out"}
  /\ device' = [device EXCEPT ![d] = "revoked"]
  /\ row' = Revoked(d)
  /\ UNCHANGED <<browserVars, page, subscribed, request>>

\* A refresh credential of d was reused: its credentials and sessions are revoked,
\* the device stays active and its subscription stays as it is.
DetectReuse(d) ==
  /\ device[d] = "active"
  /\ device' = [device EXCEPT ![d] = "locked_out"]
  /\ UNCHANGED <<browserVars, row, page, subscribed, request>>

\* The push service or the browser drops a subscription; sw.js does not listen.
Expire(b) ==
  /\ subscription[b] # None
  /\ subscription' = [subscription EXCEPT ![b] = None]
  /\ UNCHANGED <<serverVars, identity, issued, page, subscribed, request>>

\* refreshConfig: GET /api/push/config.
LoadConfig(b) ==
  /\ page[b].at = "loading"
  /\ Authenticated(identity[b])
  /\ subscribed' = [subscribed EXCEPT ![b] = ActiveOf(identity[b]) # {}]
  /\ page' = [page EXCEPT ![b] = Idle]
  /\ UNCHANGED <<serverVars, browserVars, request>>

\* The page is left and opened again, or opened in another tab.
Reload(b) ==
  /\ page[b].at # "loading"
  /\ page' = [page EXCEPT ![b] = Loading]
  /\ UNCHANGED <<serverVars, browserVars, subscribed, request>>

\* enable: the browser's subscription, a new one if it has none, is PUT.
Enable(b, h) ==
  LET e == IF subscription[b] = None THEN FreshEndpoint ELSE subscription[b] IN
  /\ page[b] = Idle /\ ~subscribed[b]
  /\ request[h] = Free
  /\ subscription[b] # None \/ \E x \in Endpoint : x \notin issued
  /\ subscription' = [subscription EXCEPT ![b] = e]
  /\ issued' = issued \cup {e}
  /\ Step(h, [op |-> "put", device |-> identity[b], endpoint |-> e, step |-> "sent"])
  /\ page' = [page EXCEPT ![b] = [at |-> "busy", request |-> h]]
  /\ UNCHANGED <<serverVars, identity, subscribed>>

\* disable: the browser unsubscribes, then DELETE.
Disable(b, h) ==
  /\ page[b] = Idle /\ subscribed[b]
  /\ request[h] = Free
  /\ subscription' = [subscription EXCEPT ![b] = None]
  /\ Step(h, [op |-> "delete", device |-> identity[b], step |-> "sent"])
  /\ page' = [page EXCEPT ![b] = [at |-> "busy", request |-> h]]
  /\ UNCHANGED <<serverVars, identity, issued, subscribed>>

\* sendTest, offered in administrator mode.
SendTest(b, h) ==
  /\ page[b] = Idle /\ subscribed[b]
  /\ request[h] = Free
  /\ Step(h, [op |-> "test", device |-> identity[b], endpoint |-> None, step |-> "sent"])
  /\ page' = [page EXCEPT ![b] = [at |-> "busy", request |-> h]]
  /\ UNCHANGED <<serverVars, browserVars, subscribed>>

-----------------------------------------------------------------------------
\* Mutant: a revoked device is let through.
AcceptsRevoked(d) == d # None

\* What authenticatedDevice and requirePushAdmin demand of the device.
Accepts(d) == Authenticated(d)

\* authenticatedDevice: the request goes on, or ends with an error.
Authenticate(h) ==
  LET r == request[h] IN
  /\ r.op # "free" /\ r.step = "sent"
  /\ IF Accepts(r.device)
     THEN Step(h, [r EXCEPT !.step = "authorized"]) /\ UNCHANGED page
     ELSE Ends(h, Idle)
  /\ UNCHANGED <<serverVars, browserVars, subscribed>>

\* Mutant: the row of an earlier subscription is left as it is.
AddedOnly(d, e) ==
  IF row[e] # NoRow THEN row ELSE [row EXCEPT ![e] = [device |-> d, revoked |-> FALSE]]

\* Mutant: the two statements do not share a transaction.
RevokedFirst(d, e) ==
  IF row[e] # NoRow THEN Revoked(d)
  ELSE [Revoked(d) EXCEPT ![e] = [device |-> d, revoked |-> FALSE]]

\* Mutant: the foreign key takes the endpoint for the device.
SwappedColumns(d, e) == [row EXCEPT ![e] = [device |-> e, revoked |-> FALSE]]

\* The table after ReplacePushSubscription: the new row takes the place of the
\* device's active one; an endpoint_hash that is already in the table, whoever's
\* and revoked or not, makes the INSERT and with it the transaction fail.
Replaced(d, e) ==
  IF row[e] # NoRow THEN row
  ELSE [Revoked(d) EXCEPT ![e] = [device |-> d, revoked |-> FALSE]]

\* replacePushSubscription stores the subscription, or answers 500.
ReplacePushSubscription(h) ==
  LET r == request[h] IN
  /\ r.op = "put" /\ r.step = "authorized"
  /\ row' = Replaced(r.device, r.endpoint)
  /\ IF row[r.endpoint] # NoRow
     THEN Step(h, [r EXCEPT !.step = "failed"]) /\ UNCHANGED page
     ELSE \E p \in Answered : Ends(h, p)
  /\ UNCHANGED <<device, browserVars, subscribed>>

\* The 500 reaches the page, which shows that the subscription was not stored.
ReportFailure(h) ==
  /\ request[h].op = "put" /\ request[h].step = "failed"
  /\ Ends(h, Idle)
  /\ UNCHANGED <<serverVars, browserVars, subscribed>>

\* revokePushSubscription.
RevokePushSubscription(h) ==
  LET r == request[h] IN
  /\ r.op = "delete" /\ r.step = "authorized"
  /\ row' = Revoked(r.device)
  /\ \E p \in Answered : Ends(h, p)
  /\ UNCHANGED <<device, browserVars, subscribed>>

\* sendTestPush reads the active subscription; without one it ends.
ReadSubscription(h) ==
  LET r == request[h] IN
  /\ r.op = "test" /\ r.step = "authorized"
  /\ IF ActiveOf(r.device) = {} THEN Ends(h, Idle)
     ELSE /\ \E e \in ActiveOf(r.device) :
               Step(h, [r EXCEPT !.endpoint = e, !.step = "delivering"])
          /\ UNCHANGED page
  /\ UNCHANGED <<serverVars, browserVars, subscribed>>

\* The push service answers: it knows the endpoints browsers are subscribed with.
PushServiceAnswers(h) ==
  LET r == request[h] IN
  /\ r.op = "test" /\ r.step = "delivering"
  /\ IF \E b \in Browser : subscription[b] = r.endpoint THEN Ends(h, Idle)
     ELSE Step(h, [r EXCEPT !.step = "gone"]) /\ UNCHANGED page
  /\ UNCHANGED <<serverVars, browserVars, subscribed>>

\* The end of sendTestPush after a 404 or 410.
ForgetSubscription(h) ==
  LET r == request[h] IN
  /\ r.op = "test" /\ r.step = "gone"
  /\ row' = Revoked(r.device)
  /\ Ends(h, Idle)
  /\ UNCHANGED <<device, browserVars, subscribed>>

\* A request is lost or cancelled, or the server stops, before its next step.
Lose(h) ==
  /\ request[h] # Free
  /\ Ends(h, Idle)
  /\ UNCHANGED <<serverVars, browserVars, subscribed>>

Next ==
  \/ \E b \in Browser : Enroll(b)
  \/ \E d \in Device : RevokeDevice(d)
  \/ \E d \in Device : DetectReuse(d)
  \/ \E b \in Browser : Expire(b)
  \/ \E b \in Browser : LoadConfig(b)
  \/ \E b \in Browser : Reload(b)
  \/ \E b \in Browser, h \in Handler : Enable(b, h)
  \/ \E b \in Browser, h \in Handler : Disable(b, h)
  \/ \E b \in Browser, h \in Handler : SendTest(b, h)
  \/ \E h \in Handler : Authenticate(h)
  \/ \E h \in Handler : ReplacePushSubscription(h)
  \/ \E h \in Handler : ReportFailure(h)
  \/ \E h \in Handler : RevokePushSubscription(h)
  \/ \E h \in Handler : ReadSubscription(h)
  \/ \E h \in Handler : PushServiceAnswers(h)
  \/ \E h \in Handler : ForgetSubscription(h)
  \/ \E h \in Handler : Lose(h)

Spec == Init /\ [][Next]_vars

-----------------------------------------------------------------------------
\* Rows, pages and requests are of their types.
TypeOK ==
  /\ device \in [Device -> {"absent", "active", "locked_out", "revoked"}]
  /\ identity \in [Browser -> Device \cup {None}]
  /\ subscription \in [Browser -> Endpoint \cup {None}]
  /\ issued \subseteq Endpoint
  /\ row \in [Endpoint -> Row]
  /\ page \in [Browser -> Page]
  /\ subscribed \in [Browser -> BOOLEAN]
  /\ request \in [Handler -> Request]

\* Overlapping registrations leave a device one active subscription, without the
\* help of the unique index that would refuse a second (push.go:84-109).
OneActiveSubscription == \A d \in Device : Cardinality(ActiveOf(d)) <= 1

\* A device loses its subscription to nothing but its revocation, its own DELETE
\* or a 404 or 410 it was answered: a registration that fails, at whatever step,
\* leaves it the one it had (push.go:74-110).
LostOnlyAsAsked ==
  [][\A d \in Device : ActiveOf(d) # {} /\ ActiveOf(d)' = {} =>
       \/ device'[d] = "revoked"
       \/ \E h \in Handler :
            /\ request[h] # Free /\ request[h].device = d
            /\ \/ request[h].op = "delete" /\ request[h].step = "authorized"
               \/ request[h].op = "test" /\ request[h].step = "gone"]_vars

\* Revoked for good, once the requests that passed authentication are over: no
\* request that comes later subscribes a device that is revoked or locked out.
Silent(d) ==
  /\ device[d] \in {"revoked", "locked_out"}
  /\ ActiveOf(d) = {}
  /\ \A h \in Handler : request[h].op = "put" /\ request[h].step = "authorized" =>
       request[h].device # d
SilentForGood == [][\A d \in Device : Silent(d) => Silent(d)']_vars

\* The documented promise: the revocation of a device revokes its push
\* subscription (FR-AUTH-022, docs/04-functional-requirements.md:206).
RevokedIsUnsubscribed == \A d \in Device : device[d] = "revoked" => ActiveOf(d) = {}

\* The documented promise: a device has one active subscription and registering a
\* new one replaces it (ADR-026): the server fails no authenticated registration.
NewRegistrationReplaces ==
  \A h \in Handler : ~(request[h].op = "put" /\ request[h].step = "failed")

=============================================================================
