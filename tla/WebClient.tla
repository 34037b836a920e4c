------------------------------ MODULE WebClient ------------------------------
(***************************************************************************)
(* The browsers of the registered devices, running against the credential  *)
(* store.  Every 30 seconds, and after each change of administrator mode,  *)
(* App.tsx runs fetchDeviceWithRefresh: ask who this device is, on a 401   *)
(* exchange the refresh credential, and ask once more.  Runs of it overlap *)
(* when a household member keeps two tabs open, or when a run that is      *)
(* still waiting meets the next one.                                       *)
(*                                                                         *)
(* The two device cookies are set and cleared together by every response,  *)
(* so a browser's cookie jar holds one Pair or None; a cookie past its     *)
(* Max-Age, which the browser drops, has also expired on the server.       *)
(***************************************************************************)
EXTENDS Credentials

CONSTANTS
  Call,     \* overlapping runs of fetchDeviceWithRefresh in one browser
  MayFail,  \* the states of a run in which it may fail (Wi-Fi, a closed tab)
  MaxFails, \* bound: how many runs meet a failure
  Roaming   \* may a device be used away from home?

ASSUME CookieAssumption == None \notin Pair
ASSUME EnvironmentAssumption == MaxFails \in Nat /\ Roaming \in BOOLEAN

VARIABLES
  jar,    \* jar[d]: the couple in the device cookies of d's browser
  call,   \* call[d][c]: how far run c of the browser of d is
  shown,  \* shown[d]: does the page of d show the household?
  fails   \* the number of failures runs met

clientVars == <<jar, call, shown, fails>>
allVars == <<credVars, clientVars>>

-----------------------------------------------------------------------------
\* The states of a run: asking or told (GET /api/auth/device), exchanging or
\* exchanged (POST /api/auth/refresh), with the couple the request carried, the
\* answer and whether the first 401 was already spent.
Idle == [at |-> "idle", sent |-> None, answer |-> None, retried |-> FALSE]
Asking(p, retried) ==
  [at |-> "asking", sent |-> p, answer |-> None, retried |-> retried]
Exchanging(p) ==
  [at |-> "exchanging", sent |-> p, answer |-> None, retried |-> FALSE]

Cookies == Pair \cup {None}
Runs == [at : {"idle", "asking", "granted", "refused", "exchanging", "exchanged", "renewed"},
         sent : Cookies, answer : Cookies, retried : BOOLEAN]

\* Tokens are random: which unused couple comes next does not matter.
FreshPair == CHOOSE q \in Pair : Unused(q)
PairsLeft == \E q \in Pair : Unused(q)

\* Where the server sees a request come from.
Networks == IF Roaming THEN BOOLEAN ELSE {TRUE}

SetCall(d, c, r) == call' = [call EXCEPT ![d][c] = r]

ClientInit ==
  /\ Init
  /\ jar = [d \in Device |-> None]
  /\ call = [d \in Device |-> [c \in Call |-> Idle]]
  /\ shown = [d \in Device |-> FALSE]
  /\ fails = 0

-----------------------------------------------------------------------------
\* A registration answers with the cookies of the couple it inserted.
SetUp(d) ==
  /\ PairsLeft
  /\ RegisterTrustedPC(d, FreshPair, now)
  /\ jar' = [jar EXCEPT ![d] = FreshPair]
  /\ UNCHANGED <<call, shown, fails>>

Enroll(d, type) ==
  /\ PairsLeft
  /\ RegisterEnrolled(d, type, FreshPair, now)
  /\ jar' = [jar EXCEPT ![d] = FreshPair]
  /\ UNCHANGED <<call, shown, fails>>

\* The interval of App fires, or onChanged is called: GET /api/auth/device.
Start(d, c) ==
  /\ Registered(d)
  /\ call[d][c].at = "idle"
  /\ SetCall(d, c, Asking(jar[d], FALSE))
  /\ UNCHANGED <<credVars, jar, shown, fails>>

\* authenticatedDevice and currentDevice.
ServeDevice(d, c, local) ==
  LET r == call[d][c]
      known == r.sent # None /\ Authenticates(r.sent) /\ (LocalOnly(d) => local) IN
  /\ r.at = "asking"
  /\ SetCall(d, c, [r EXCEPT !.at = IF known THEN "granted" ELSE "refused"])
  /\ UNCHANGED <<credVars, jar, shown, fails>>

\* Mutant: the client expects 403 where the server answers 401.
NeverRefreshes(r) == FALSE

\* fetchDeviceWithRefresh goes on to /api/auth/refresh.
MustRefresh(r) == r.at = "refused" /\ ~r.retried

\* The run ends; App shows the household or the registration notice.
Finish(d, c) ==
  LET r == call[d][c] IN
  /\ r.at \in {"granted", "refused"} /\ ~MustRefresh(r)
  /\ SetCall(d, c, Idle)
  /\ shown' = [shown EXCEPT ![d] = r.at = "granted"]
  /\ UNCHANGED <<credVars, jar, fails>>

\* The first 401: POST /api/auth/refresh with the cookies of this moment.
Refresh(d, c) ==
  /\ MustRefresh(call[d][c])
  /\ SetCall(d, c, Exchanging(jar[d]))
  /\ UNCHANGED <<credVars, jar, shown, fails>>

\* refreshDevice without a cookie: nothing is read, 401.
ServeMissing(d, c) ==
  /\ call[d][c].at = "exchanging" /\ call[d][c].sent = None
  /\ SetCall(d, c, [call[d][c] EXCEPT !.at = "exchanged"])
  /\ UNCHANGED <<credVars, jar, shown, fails>>

\* refreshDevice: the store rotates the credential, or refuses it.
ServeExchange(d, c, local) ==
  LET r == call[d][c] IN
  /\ r.at = "exchanging" /\ r.sent # None
  /\ \/ /\ PairsLeft
        /\ RotateRefresh(r.sent, FreshPair, local)
        /\ SetCall(d, c, [r EXCEPT !.at = "exchanged", !.answer = FreshPair])
     \/ /\ DetectReuse(r.sent, local) \/ RejectRefresh(r.sent, local)
        /\ SetCall(d, c, [r EXCEPT !.at = "exchanged"])
  /\ UNCHANGED <<jar, shown, fails>>

\* Mutant: the response misses setDeviceCookies.
CookiesKept(d, answer) == jar[d]

\* Mutant: the cookies are cleared by setting them to an empty value.
EmptyCookies(d, answer) == IF answer = None THEN "" ELSE answer

\* The cookies after the answer: setDeviceCookies, or clearDeviceCookies.
CookiesAfter(d, answer) == answer

\* The answer reaches the browser, which applies its cookies.  A refused
\* exchange ends the run with the 401 of the first question.
Deliver(d, c) ==
  LET r == call[d][c] IN
  /\ r.at = "exchanged"
  /\ jar' = [jar EXCEPT ![d] = CookiesAfter(d, r.answer)]
  /\ IF r.answer # None
     THEN SetCall(d, c, [r EXCEPT !.at = "renewed"]) /\ UNCHANGED shown
     ELSE SetCall(d, c, Idle) /\ shown' = [shown EXCEPT ![d] = FALSE]
  /\ UNCHANGED <<credVars, fails>>

\* After a successful exchange the run asks once more.
AskAgain(d, c) ==
  /\ call[d][c].at = "renewed"
  /\ SetCall(d, c, Asking(jar[d], TRUE))
  /\ UNCHANGED <<credVars, jar, shown, fails>>

\* A request or its answer is lost: fetch throws and App keeps what it showed.
Fail(d, c) ==
  /\ fails < MaxFails
  /\ call[d][c].at \in MayFail
  /\ SetCall(d, c, Idle)
  /\ fails' = fails + 1
  /\ UNCHANGED <<credVars, jar, shown>>

\* The database fails while authenticatedDevice reads: the answer is 401 all the same.
FailToAuthenticate(d, c) ==
  /\ fails < MaxFails
  /\ call[d][c].at = "asking" /\ call[d][c].sent # None
  /\ SetCall(d, c, [call[d][c] EXCEPT !.at = "refused"])
  /\ fails' = fails + 1
  /\ UNCHANGED <<credVars, jar, shown>>

Revoke(target, actor) == RevokeDevice(target, actor) /\ UNCHANGED clientVars

Pass == Tick /\ UNCHANGED clientVars

\* One step of run c that its browser or the server owes it.
Progress(d, c) ==
  \/ Start(d, c) \/ Finish(d, c) \/ Refresh(d, c) \/ ServeMissing(d, c)
  \/ Deliver(d, c) \/ AskAgain(d, c)
  \/ \E local \in Networks : ServeDevice(d, c, local) \/ ServeExchange(d, c, local)

ClientNext ==
  \/ \E d \in Device : SetUp(d)
  \/ \E d \in Device, type \in EnrolledType : Enroll(d, type)
  \/ \E d \in Device, c \in Call : Progress(d, c)
  \/ \E d \in Device, c \in Call : Fail(d, c)
  \/ \E d \in Device, c \in Call : FailToAuthenticate(d, c)
  \/ \E target, actor \in Device : Revoke(target, actor)
  \/ Pass

\* The interval keeps firing, the browser goes on with every answer, and the
\* server answers every request.  Nobody has to register, revoke or let time pass.
ClientSpec ==
  /\ ClientInit /\ [][ClientNext]_allVars
  /\ \A d \in Device, c \in Call : WF_allVars(Progress(d, c))

-----------------------------------------------------------------------------
\* Every browser holds cookies the server issued, or none.
ClientTypeOK ==
  /\ jar \in [Device -> Cookies]
  /\ call \in [Device -> [Call -> Runs]]
  /\ shown \in [Device -> BOOLEAN]
  /\ fails \in 0..MaxFails

\* Only a device's own browser presents its credentials here, so nothing ever
\* looks like a stolen refresh credential: renewal never costs an active device
\* its registration (FR-AUTH-057, docs/04-functional-requirements.md:241).
RenewalKeepsRegistration == \A d \in Device : IsActive(d) => ~reused[d]

\* The exchangeable credential of a device is where the device can use it: in its
\* cookies, or in an answer still on its way to them.
BrowserHoldsCredential ==
  \A d \in Device, p \in Pair :
    pair[p].device = d /\ LiveRefresh(p) /\ ~RefreshExpired(p) =>
      \/ jar[d] = p
      \/ \E c \in Call : call[d][c].at = "exchanged" /\ call[d][c].answer = p

\* A device that may be renewed in the end shows the household and holds a valid
\* access credential without anybody's help, whatever expired meanwhile
\* (FR-AUTH-056), unless it is revoked, is not used until its refresh credential
\* expires, or the model runs out of couples.
Renewable(d) ==
  IsActive(d) /\ \E p \in Pair : pair[p].device = d /\ LiveRefresh(p) /\ ~RefreshExpired(p)
RenewedUnaided ==
  \A d \in Device :
    [](Renewable(d) =>
         <>(\/ shown[d] /\ jar[d] # None /\ Authenticates(jar[d])
            \/ ~Renewable(d)
            \/ ~PairsLeft))

=============================================================================
