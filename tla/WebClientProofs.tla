--------------------------- MODULE WebClientProofs ---------------------------
(***************************************************************************)
(* Theorems of WebClient, for any number of devices, couples and runs and  *)
(* all lifetimes.  Every step of the browsers is one of the store's, so    *)
(* the store keeps its invariant Inv.  Two properties rest on hypotheses   *)
(* that the code does not establish, and that name what a household must   *)
(* avoid: overlapping runs, lost answers, and tablets away from home.      *)
(***************************************************************************)
EXTENDS WebClient, CredentialsProofs

\* What a browser holds or is told is its own device's, and it asks only when it is
\* registered.
OwnCookies ==
  \A d \in Device, c \in Call :
    /\ jar[d] # None => pair[jar[d]].device = d
    /\ call[d][c].sent # None => pair[call[d][c].sent].device = d
    /\ call[d][c].answer # None => pair[call[d][c].answer].device = d
    /\ call[d][c].at # "idle" => Registered(d)

ClientInv == Inv /\ ClientTypeOK /\ OwnCookies

\* The browser has one run at a time, and the answer of an exchange reaches it.
OneRun == \E c : Call = {c}
AnswersArrive == "exchanged" \notin MayFail

\* What a browser will use next: the answer on its way when there is one.
Holding(d, c) == IF call[d][c].at = "exchanged" THEN call[d][c].answer ELSE jar[d]

\* What a browser holds was not exchanged, and is what an exchange under way presents.
HeldUnspent ==
  \A d \in Device, c \in Call :
    /\ Holding(d, c) # None => ~pair[Holding(d, c)].refreshConsumed
    /\ call[d][c].at = "exchanging" => call[d][c].sent = jar[d] /\ call[d][c].answer = None

NothingReused == \A d \in Device : ~reused[d]

RunInv == ClientInv /\ HeldUnspent /\ NothingReused

\* A credential that can be exchanged is the one its browser holds.
Current(d, p) == pair[p].device = d /\ LiveRefresh(p) /\ ~RefreshExpired(p)
CurrentIsHeld ==
  \A d \in Device, p \in Pair, c \in Call : Current(d, p) => p = Holding(d, c)

-----------------------------------------------------------------------------
(* What the operations of the model do to a row. *)

\* The fields of a run, and the cookies of a browser.
LEMMA RunFields ==
  ASSUME ClientTypeOK, NEW d \in Device, NEW c \in Call
  PROVE  /\ call[d][c] \in Runs /\ jar[d] \in Cookies
         /\ call[d][c].sent \in Cookies /\ call[d][c].answer \in Cookies
         /\ call[d][c].retried \in BOOLEAN
  BY DEF ClientTypeOK, Runs

\* The couple the next transaction inserts.
LEMMA FreshCouple == PairsLeft => FreshPair \in Pair /\ Unused(FreshPair)
  BY DEF PairsLeft, FreshPair

\* The states a run starts and continues in are states of a run.
LEMMA RunStates ==
  /\ Idle \in Runs /\ Idle.at = "idle" /\ Idle.sent = None /\ Idle.answer = None
  /\ \A p \in Cookies, retried \in BOOLEAN :
       /\ Asking(p, retried) \in Runs /\ Asking(p, retried).at = "asking"
       /\ Asking(p, retried).sent = p /\ Asking(p, retried).answer = None
  /\ \A p \in Cookies :
       /\ Exchanging(p) \in Runs /\ Exchanging(p).at = "exchanging"
       /\ Exchanging(p).sent = p /\ Exchanging(p).answer = None
  BY DEF Idle, Asking, Exchanging, Runs, Cookies

\* A step of a run changes that run only.
LEMMA RunChanged ==
  ASSUME ClientTypeOK, NEW d \in Device, NEW c \in Call, NEW r, SetCall(d, c, r)
  PROVE  /\ \A x \in Device, y \in Call :
              call'[x][y] = IF x = d /\ y = c THEN r ELSE call[x][y]
         /\ r \in Runs => call' \in [Device -> [Call -> Runs]]
  BY DEF ClientTypeOK, SetCall

\* A couple stays its device's, and a device stays registered.
LEMMA OwnersStay ==
  ASSUME Inv, [Next]_credVars
  PROVE  /\ \A p \in Pair : ~Unused(p) => pair'[p].device = pair[p].device
         /\ \A d \in Device : Registered(d) => Registered(d)'
  <1>1. ASSUME NEW d \in Device, NEW type, NEW p \in Pair, NEW t, Register(d, type, p, t)
        PROVE  /\ \A q \in Pair : ~Unused(q) => pair'[q].device = pair[q].device
               /\ \A x \in Device : Registered(x) => Registered(x)'
    BY <1>1 DEF Register, Inv, TypeOK, Unused, Registered
  <1>2. ASSUME NEW p \in Pair, NEW q \in Pair, NEW local, RotateRefresh(p, q, local)
        PROVE  /\ \A x \in Pair : ~Unused(x) => pair'[x].device = pair[x].device
               /\ \A x \in Device : Registered(x) => Registered(x)'
    <2>1. \A x \in Pair : pair[x] \in PairRow
      BY DEF Inv, TypeOK
    <2>2. \A x \in Pair : x # q => pair'[x].device = pair[x].device
      BY <1>2, <2>1 DEF RotateRefresh, AfterRotation, PairRow
    <2> QED  BY <1>2, <2>2 DEF RotateRefresh, Registered, Unused
  <1>3. ASSUME NEW d \in Device, pair' = AllRevoked(d)
        PROVE  \A x \in Pair : pair'[x].device = pair[x].device
    BY <1>3, AllRevokedRows DEF Inv
  <1>4. ASSUME NEW p \in Pair, NEW local, DetectReuse(p, local)
        PROVE  /\ \A x \in Pair : pair'[x].device = pair[x].device
               /\ \A x \in Device : Registered(x) => Registered(x)'
    <2>1. pair[p].device \in Device
      BY <1>4 DEF DetectReuse, Refreshable, Unused, Inv, TypeOK, PairRow
    <2> QED  BY <1>3, <1>4, <2>1 DEF DetectReuse, Registered
  <1>5. ASSUME NEW target \in Device, NEW actor \in Device, RevokeDevice(target, actor)
        PROVE  /\ \A x \in Pair : pair'[x].device = pair[x].device
               /\ \A x \in Device : Registered(x) => Registered(x)'
    <2>1. \A x \in Device : Registered(x) => Registered(x)'
      BY <1>5 DEF RevokeDevice, Registered, Inv, TypeOK
    <2> QED  BY <1>3, <1>5, <2>1 DEF RevokeDevice
  <1> QED
    BY <1>1, <1>2, <1>4, <1>5
    DEF Next, RegisterTrustedPC, RegisterEnrolled, RejectRefresh, Tick, credVars, Registered

-----------------------------------------------------------------------------
(* Each step is one of the store's. *)

\* A run that presents cookies presents a couple, from a network of the store.
LEMMA StepIsStores ==
  ASSUME now \in Nat, ClientTypeOK, [ClientNext]_allVars
  PROVE  [Next]_credVars
  <1>1. now \in 0..now
    OBVIOUS
  <1>2. ASSUME NEW d \in Device, SetUp(d) PROVE Next
    BY <1>1, <1>2, FreshCouple DEF SetUp, Next
  <1>3. ASSUME NEW d \in Device, NEW type \in EnrolledType, Enroll(d, type) PROVE Next
    BY <1>1, <1>3, FreshCouple DEF Enroll, Next
  <1>4. ASSUME NEW d \in Device, NEW c \in Call, NEW local \in Networks,
               ServeExchange(d, c, local)
        PROVE  Next
    <2>1. call[d][c].sent \in Pair /\ local \in BOOLEAN
      BY <1>4, RunFields DEF ServeExchange, Cookies, Networks
    <2>2. \/ PairsLeft /\ RotateRefresh(call[d][c].sent, FreshPair, local)
          \/ DetectReuse(call[d][c].sent, local)
          \/ RejectRefresh(call[d][c].sent, local)
      BY <1>4 DEF ServeExchange
    <2> QED  BY <2>1, <2>2, FreshCouple DEF Next
  <1>5. ASSUME NEW d \in Device, NEW c \in Call, Progress(d, c) PROVE [Next]_credVars
    BY <1>4, <1>5
    DEF Progress, Start, ServeDevice, Finish, Refresh, ServeMissing, Deliver, AskAgain
  <1>6. ASSUME NEW d \in Device, NEW c \in Call, Fail(d, c) PROVE UNCHANGED credVars
    BY <1>6 DEF Fail
  <1>10. ASSUME NEW d \in Device, NEW c \in Call, FailToAuthenticate(d, c)
         PROVE  UNCHANGED credVars
    BY <1>10 DEF FailToAuthenticate
  <1>7. ASSUME NEW target \in Device, NEW actor \in Device, Revoke(target, actor)
        PROVE  Next
    BY <1>7 DEF Revoke, Next
  <1>8. CASE Pass
    BY <1>8 DEF Pass, Next
  <1>9. CASE UNCHANGED allVars
    BY <1>9 DEF allVars
  <1> QED  BY <1>2, <1>3, <1>5, <1>6, <1>7, <1>8, <1>9, <1>10 DEF ClientNext

-----------------------------------------------------------------------------
(* Browsers hold what is theirs: the invariant that needs no hypothesis. *)

\* The first browsers hold nothing.
LEMMA ClientInitInv == ClientInit => ClientInv
  <1> SUFFICES ASSUME ClientInit PROVE ClientInv
    OBVIOUS
  <1>1. Inv
    BY InitInv DEF ClientInit
  <1>2. ClientTypeOK
    BY RunStates, EnvironmentAssumption DEF ClientInit, ClientTypeOK, Cookies
  <1>3. OwnCookies
    BY RunStates DEF ClientInit, OwnCookies
  <1> QED  BY <1>1, <1>2, <1>3 DEF ClientInv

\* A registration fills the jar of a device that had none and asks nothing.
LEMMA RegisteredOwn ==
  ASSUME ClientInv, Inv', [Next]_credVars, NEW d \in Device, NEW type, PairsLeft,
         Register(d, type, FreshPair, now), jar' = [jar EXCEPT ![d] = FreshPair],
         UNCHANGED <<call, shown, fails>>
  PROVE  ClientInv'
  <1>1. FreshPair \in Pair /\ pair'[FreshPair].device = d
    BY FreshCouple DEF Register, ClientInv, Inv, TypeOK, IssuedPair
  <1>2. ClientTypeOK'
    BY <1>1 DEF ClientInv, ClientTypeOK, Cookies
  <1>3. ASSUME NEW p \in Pair, NEW x \in Device, pair[p].device = x
        PROVE  pair'[p].device = x
    BY <1>3, OwnersStay, NoneAssumption DEF Unused, ClientInv
  <1>4. OwnCookies'
    <2> SUFFICES ASSUME NEW x \in Device, NEW c \in Call
                 PROVE  /\ jar'[x] # None => pair'[jar'[x]].device = x
                        /\ call[x][c].sent # None => pair'[call[x][c].sent].device = x
                        /\ call[x][c].answer # None => pair'[call[x][c].answer].device = x
                        /\ call[x][c].at # "idle" => Registered(x)'
      BY DEF OwnCookies
    <2>1. jar'[x] = IF x = d THEN FreshPair ELSE jar[x]
      BY DEF ClientInv, ClientTypeOK
    <2>2. /\ jar[x] \in Cookies /\ call[x][c].sent \in Cookies
          /\ call[x][c].answer \in Cookies
      BY RunFields DEF ClientInv
    <2> QED  BY <1>1, <1>3, <2>1, <2>2, OwnersStay DEF ClientInv, OwnCookies, Cookies
  <1> QED  BY <1>2, <1>4 DEF ClientInv

\* A step of run c of d that ends in r and leaves j in the jar, both of d.
LEMMA RunOwn ==
  ASSUME ClientInv, Inv', [Next]_credVars, NEW d \in Device, NEW c \in Call,
         NEW r \in Runs, NEW j \in Cookies,
         SetCall(d, c, r), jar' = [jar EXCEPT ![d] = j],
         shown' \in [Device -> BOOLEAN], fails' \in 0..MaxFails,
         j # None => pair'[j].device = d,
         r.sent # None => pair'[r.sent].device = d,
         r.answer # None => pair'[r.answer].device = d,
         r.at # "idle" => Registered(d)
  PROVE  ClientInv'
  <1>1. ClientTypeOK'
    BY RunChanged DEF ClientInv, ClientTypeOK
  <1>2. ASSUME NEW p \in Pair, NEW x \in Device, pair[p].device = x
        PROVE  pair'[p].device = x
    BY <1>2, OwnersStay, NoneAssumption DEF Unused, ClientInv
  <1>3. OwnCookies'
    <2> SUFFICES ASSUME NEW x \in Device, NEW y \in Call
                 PROVE  /\ jar'[x] # None => pair'[jar'[x]].device = x
                        /\ call'[x][y].sent # None => pair'[call'[x][y].sent].device = x
                        /\ call'[x][y].answer # None => pair'[call'[x][y].answer].device = x
                        /\ call'[x][y].at # "idle" => Registered(x)'
      BY DEF OwnCookies
    <2>1. jar'[x] = IF x = d THEN j ELSE jar[x]
      BY DEF ClientInv, ClientTypeOK
    <2>2. call'[x][y] = IF x = d /\ y = c THEN r ELSE call[x][y]
      BY RunChanged DEF ClientInv
    <2>3. /\ jar[x] \in Cookies /\ call[x][y].sent \in Cookies
          /\ call[x][y].answer \in Cookies
      BY RunFields DEF ClientInv
    <2>4. jar'[x] # None => pair'[jar'[x]].device = x
      BY <1>2, <2>1, <2>3 DEF ClientInv, OwnCookies, Cookies
    <2>5. CASE x = d /\ y = c
      BY <2>2, <2>4, <2>5, OwnersStay DEF ClientInv
    <2>6. CASE ~(x = d /\ y = c)
      BY <1>2, <2>2, <2>3, <2>4, <2>6, OwnersStay DEF ClientInv, OwnCookies, Cookies
    <2> QED  BY <2>5, <2>6
  <1> QED  BY <1>1, <1>3 DEF ClientInv

\* A step of a run keeps the invariant.
LEMMA ProgressOwn ==
  ASSUME ClientInv, Inv', [Next]_credVars, NEW d \in Device, NEW c \in Call, Progress(d, c)
  PROVE  ClientInv'
  <1> DEFINE r == call[d][c]
  <1>1. /\ r \in Runs /\ jar[d] \in Cookies /\ r.sent \in Cookies /\ r.answer \in Cookies
        /\ r.retried \in BOOLEAN
        /\ jar \in [Device -> Cookies] /\ shown \in [Device -> BOOLEAN] /\ fails \in 0..MaxFails
        /\ jar = [jar EXCEPT ![d] = jar[d]]
    BY RunFields DEF ClientInv, ClientTypeOK
  <1>2. ASSUME NEW p \in Pair, pair[p].device = d PROVE pair'[p].device = d
    BY <1>2, OwnersStay, NoneAssumption DEF Unused, ClientInv
  <1>3. /\ jar[d] # None => pair'[jar[d]].device = d
        /\ r.sent # None => pair'[r.sent].device = d
        /\ r.answer # None => pair'[r.answer].device = d
        /\ r.at # "idle" => Registered(d)
    BY <1>1, <1>2 DEF ClientInv, OwnCookies, Cookies
  <1>4. ASSUME NEW at \in {"granted", "refused", "exchanged", "renewed"}
        PROVE  /\ [r EXCEPT !.at = at] \in Runs /\ [r EXCEPT !.at = at].sent = r.sent
               /\ [r EXCEPT !.at = at].answer = r.answer
    BY <1>1 DEF Runs
  <1>5. ASSUME NEW at \in {"granted", "refused", "exchanged", "renewed"},
               SetCall(d, c, [r EXCEPT !.at = at]), r.at # "idle",
               UNCHANGED <<jar, shown, fails>>
        PROVE  ClientInv'
    <2> DEFINE n == [r EXCEPT !.at = at]
    <2>1. /\ n \in Runs /\ n.sent = r.sent /\ n.answer = r.answer /\ SetCall(d, c, n)
      BY <1>4, <1>5
    <2> HIDE DEF n
    <2> QED  BY <1>1, <1>3, <1>5, <2>1, RunOwn
  <1>a. ASSUME NEW retried \in BOOLEAN, SetCall(d, c, Asking(jar[d], retried)),
               Registered(d), UNCHANGED <<jar, shown, fails>>
        PROVE  ClientInv'
    <2> DEFINE n == Asking(jar[d], retried)
    <2>1. n \in Runs /\ n.sent = jar[d] /\ n.answer = None /\ SetCall(d, c, n)
      BY <1>1, <1>a, RunStates
    <2> HIDE DEF n
    <2> QED  BY <1>1, <1>3, <1>a, <2>1, RunOwn
  <1>6. CASE Start(d, c)
    BY <1>a, <1>6 DEF Start
  <1>7. ASSUME NEW local \in Networks, ServeDevice(d, c, local) PROVE ClientInv'
    BY <1>5, <1>7 DEF ServeDevice
  <1>8. CASE Finish(d, c)
    <2>1. shown' \in [Device -> BOOLEAN]
      BY <1>1, <1>8 DEF Finish
    <2> QED  BY <1>1, <1>3, <1>8, <2>1, RunStates, RunOwn DEF Finish
  <1>9. CASE Refresh(d, c)
    <2>1. r.at # "idle"
      BY <1>9 DEF Refresh, MustRefresh
    <2> QED  BY <1>1, <1>3, <1>9, <2>1, RunStates, RunOwn DEF Refresh
  <1>10. CASE ServeMissing(d, c)
    BY <1>5, <1>10 DEF ServeMissing
  <1>11. CASE AskAgain(d, c)
    BY <1>3, <1>a, <1>11 DEF AskAgain
  <1>12. CASE Deliver(d, c)
    <2>1. jar' = [jar EXCEPT ![d] = r.answer] /\ r.at = "exchanged" /\ fails' = fails
      BY <1>12 DEF Deliver, CookiesAfter
    <2>2. CASE r.answer # None
      <3> DEFINE n == [r EXCEPT !.at = "renewed"]
      <3>1. /\ n \in Runs /\ n.sent = r.sent /\ n.answer = r.answer /\ SetCall(d, c, n)
            /\ shown' = shown
        BY <1>4, <1>12, <2>2 DEF Deliver
      <3> HIDE DEF n
      <3> QED  BY <1>1, <1>3, <2>1, <3>1, RunOwn
    <2>3. CASE r.answer = None
      <3>1. SetCall(d, c, Idle) /\ shown' \in [Device -> BOOLEAN]
        BY <1>1, <1>12, <2>3 DEF Deliver
      <3> QED  BY <1>1, <1>3, <2>1, <2>3, <3>1, RunStates, RunOwn
    <2> QED  BY <2>2, <2>3
  <1>13. ASSUME NEW local \in Networks, ServeExchange(d, c, local) PROVE ClientInv'
    <2>1. r.at = "exchanging" /\ r.sent # None /\ UNCHANGED <<jar, shown, fails>>
      BY <1>13 DEF ServeExchange
    <2>2. CASE PairsLeft /\ RotateRefresh(r.sent, FreshPair, local)
               /\ SetCall(d, c, [r EXCEPT !.at = "exchanged", !.answer = FreshPair])
      <3> DEFINE n == [r EXCEPT !.at = "exchanged", !.answer = FreshPair]
      <3>1. FreshPair \in Pair
        BY <2>2, FreshCouple
      <3>2. n \in Runs /\ n.sent = r.sent /\ n.answer = FreshPair /\ SetCall(d, c, n)
        BY <1>1, <2>2, <3>1 DEF Runs, Cookies
      <3>3. pair[r.sent].device = d
        BY <2>1 DEF ClientInv, OwnCookies
      <3>4. pair'[FreshPair].device = d
        BY <2>2, <3>1, <3>3 DEF RotateRefresh, AfterRotation, IssuedPair
      <3>5. FreshPair \in Cookies
        BY <3>1 DEF Cookies
      <3> HIDE DEF n
      <3> QED  BY <1>1, <1>3, <2>1, <3>2, <3>4, <3>5, RunOwn
    <2>3. CASE SetCall(d, c, [r EXCEPT !.at = "exchanged"])
      BY <1>5, <2>1, <2>3
    <2> QED  BY <1>13, <2>2, <2>3 DEF ServeExchange
  <1> QED
    BY <1>6, <1>7, <1>8, <1>9, <1>10, <1>11, <1>12, <1>13 DEF Progress

\* So does every other step.
LEMMA ClientStepInv == ClientInv /\ [ClientNext]_allVars => ClientInv'
  <1> SUFFICES ASSUME ClientInv, [ClientNext]_allVars PROVE ClientInv'
    OBVIOUS
  <1>1. [Next]_credVars
    BY StepIsStores DEF ClientInv, Inv, TypeOK
  <1>2. Inv'
    BY <1>1, NextInv DEF ClientInv
  <1>3. ASSUME UNCHANGED clientVars PROVE ClientInv'
    <2>1. ClientTypeOK'
      BY <1>3 DEF ClientInv, ClientTypeOK, clientVars
    <2>2. OwnCookies'
      <3> SUFFICES ASSUME NEW d \in Device, NEW c \in Call
                   PROVE  /\ jar[d] # None => pair'[jar[d]].device = d
                          /\ call[d][c].sent # None => pair'[call[d][c].sent].device = d
                          /\ call[d][c].answer # None => pair'[call[d][c].answer].device = d
                          /\ call[d][c].at # "idle" => Registered(d)'
        BY <1>3 DEF OwnCookies, clientVars
      <3>1. /\ jar[d] \in Cookies /\ call[d][c].sent \in Cookies
            /\ call[d][c].answer \in Cookies
        BY RunFields DEF ClientInv
      <3>2. ASSUME NEW p \in Pair, pair[p].device = d PROVE pair'[p].device = d
        BY <1>1, <3>2, OwnersStay, NoneAssumption DEF Unused, ClientInv
      <3> QED  BY <1>1, <3>1, <3>2, OwnersStay DEF ClientInv, OwnCookies, Cookies
    <2> QED  BY <1>2, <2>1, <2>2 DEF ClientInv
  <1>4. ASSUME NEW d \in Device, SetUp(d) PROVE ClientInv'
    BY <1>1, <1>2, <1>4, RegisteredOwn DEF SetUp, RegisterTrustedPC
  <1>5. ASSUME NEW d \in Device, NEW type \in EnrolledType, Enroll(d, type) PROVE ClientInv'
    BY <1>1, <1>2, <1>5, RegisteredOwn DEF Enroll, RegisterEnrolled
  <1>6. ASSUME NEW d \in Device, NEW c \in Call, Progress(d, c) PROVE ClientInv'
    BY <1>1, <1>2, <1>6, ProgressOwn
  <1>7. ASSUME NEW d \in Device, NEW c \in Call, Fail(d, c) PROVE ClientInv'
    <2>1. /\ SetCall(d, c, Idle) /\ jar' = jar /\ shown' = shown
          /\ fails < MaxFails /\ fails' = fails + 1
      BY <1>7 DEF Fail
    <2>2. /\ fails' \in 0..MaxFails /\ shown' \in [Device -> BOOLEAN]
          /\ jar' = [jar EXCEPT ![d] = jar[d]] /\ jar[d] \in Cookies
      BY <2>1, EnvironmentAssumption DEF ClientInv, ClientTypeOK
    <2>3. jar[d] # None => pair'[jar[d]].device = d
      <3>1. jar[d] # None => jar[d] \in Pair /\ pair[jar[d]].device = d
        BY <2>2 DEF ClientInv, OwnCookies, Cookies
      <3> QED  BY <1>1, <3>1, OwnersStay, NoneAssumption DEF Unused, ClientInv
    <2> QED  BY <1>1, <1>2, <2>1, <2>2, <2>3, RunStates, RunOwn
  <1>11. ASSUME NEW d \in Device, NEW c \in Call, FailToAuthenticate(d, c) PROVE ClientInv'
    <2> DEFINE r == call[d][c]
               n == [r EXCEPT !.at = "refused"]
    <2>1. /\ SetCall(d, c, n) /\ jar' = jar /\ shown' = shown /\ r.at = "asking"
          /\ fails < MaxFails /\ fails' = fails + 1 /\ UNCHANGED credVars
      BY <1>11 DEF FailToAuthenticate
    <2>2. /\ fails' \in 0..MaxFails /\ shown' \in [Device -> BOOLEAN]
          /\ jar' = [jar EXCEPT ![d] = jar[d]] /\ jar[d] \in Cookies
      BY <2>1, EnvironmentAssumption DEF ClientInv, ClientTypeOK
    <2>3. /\ r \in Runs /\ n \in Runs /\ n.sent = r.sent /\ n.answer = r.answer
      BY RunFields DEF ClientInv, Runs
    <2>4. /\ jar[d] # None => pair'[jar[d]].device = d
          /\ n.sent # None => pair'[n.sent].device = d
          /\ n.answer # None => pair'[n.answer].device = d
          /\ Registered(d)
      BY <2>1, <2>3 DEF ClientInv, OwnCookies, credVars
    <2> HIDE DEF n
    <2> QED  BY <1>1, <1>2, <2>1, <2>2, <2>3, <2>4, RunOwn
  <1>8. ASSUME NEW target \in Device, NEW actor \in Device, Revoke(target, actor)
        PROVE  ClientInv'
    BY <1>3, <1>8 DEF Revoke
  <1>9. CASE Pass
    BY <1>3, <1>9 DEF Pass
  <1>10. CASE UNCHANGED allVars
    BY <1>3, <1>10 DEF allVars
  <1> QED  BY <1>4, <1>5, <1>6, <1>7, <1>8, <1>9, <1>10, <1>11 DEF ClientNext

\* Whatever runs overlap or fail, browsers hold credentials of their own device.
THEOREM ClientInvariance == ClientSpec => []ClientInv
  BY ClientInitInv, ClientStepInv, PTL DEF ClientSpec

\* Every browser and run is in a state of its kind.
THEOREM ClientTypeCorrect == ClientSpec => []ClientTypeOK
  BY ClientInvariance, PTL DEF ClientInv

\* The browsers use the store as its specification allows: what is proved of Spec
\* holds while they run.
THEOREM BrowsersUseTheStore == ClientSpec => Spec
  <1>1. ClientInit => Init
    BY DEF ClientInit
  <1>2. ClientInv /\ [ClientNext]_allVars => [Next]_credVars
    BY StepIsStores DEF ClientInv, Inv, TypeOK
  <1> QED  BY <1>1, <1>2, ClientInvariance, PTL DEF ClientSpec, Spec

-----------------------------------------------------------------------------
(* One run at a time, whose answers arrive: nothing is presented twice. *)

\* What a browser's only run may do: it passes on what it holds, loses it because the
\* store refuses it, or exchanges it.
OthersKeep(d, c) ==
  \A x \in Device : x # d => /\ call'[x][c] = call[x][c] /\ jar'[x] = jar[x]
                            /\ Holding(x, c)' = Holding(x, c)
PresentsJar(d, c) ==
  call'[d][c].at = "exchanging" => call'[d][c].sent = jar'[d] /\ call'[d][c].answer = None

Passes(d, c) == UNCHANGED credVars /\ Holding(d, c)' = Holding(d, c)
Loses(d, c) ==
  /\ Holding(d, c) # None /\ Holding(d, c)' = None
  /\ \E local \in Networks : RejectRefresh(Holding(d, c), local)
Exchanges(d, c) ==
  /\ Holding(d, c) # None /\ PairsLeft /\ Holding(d, c)' = FreshPair
  /\ \E local \in Networks : RotateRefresh(Holding(d, c), FreshPair, local)

\* What a step of a browser's only run does to what browsers hold.
LEMMA HoldingChanged ==
  ASSUME ClientInv, NEW c, Call = {c}, NEW d \in Device, NEW r, NEW j,
         SetCall(d, c, r), jar' = [jar EXCEPT ![d] = j],
         r.at = "exchanging" => r.sent = j /\ r.answer = None
  PROVE  /\ OthersKeep(d, c) /\ PresentsJar(d, c)
         /\ Holding(d, c)' = IF r.at = "exchanged" THEN r.answer ELSE j
  <1>1. \A x \in Device : call'[x][c] = IF x = d THEN r ELSE call[x][c]
    BY RunChanged DEF ClientInv
  <1>2. \A x \in Device : jar'[x] = IF x = d THEN j ELSE jar[x]
    BY DEF ClientInv, ClientTypeOK
  <1> QED  BY <1>1, <1>2 DEF Holding, OthersKeep, PresentsJar

\* The states of a run that hand on what they hold.
LEMMA PassedOn ==
  ASSUME ClientInv, NEW c, Call = {c}, NEW d \in Device, NEW r, NEW j,
         SetCall(d, c, r), jar' = [jar EXCEPT ![d] = j], UNCHANGED credVars,
         Holding(d, c) = IF r.at = "exchanged" THEN r.answer ELSE j,
         r.at = "exchanging" => r.sent = j /\ r.answer = None
  PROVE  OthersKeep(d, c) /\ PresentsJar(d, c) /\ Passes(d, c)
  BY HoldingChanged DEF Passes

\* A run never presents a credential twice.
LEMMA RunMoves ==
  ASSUME RunInv, NEW c, Call = {c}, AnswersArrive, NEW d \in Device,
         Progress(d, c) \/ Fail(d, c) \/ FailToAuthenticate(d, c)
  PROVE  OthersKeep(d, c) /\ PresentsJar(d, c) /\ (Passes(d, c) \/ Loses(d, c) \/ Exchanges(d, c))
  <1> DEFINE r == call[d][c]
  <1>1. /\ r \in Runs /\ jar[d] \in Cookies /\ ClientInv /\ c \in Call
        /\ jar = [jar EXCEPT ![d] = jar[d]]
    BY RunFields DEF RunInv, ClientInv, ClientTypeOK
  <1>2. Holding(d, c) = IF r.at = "exchanged" THEN r.answer ELSE jar[d]
    BY DEF Holding
  <1>3. ASSUME NEW n, SetCall(d, c, n), UNCHANGED <<credVars, jar>>, r.at # "exchanged",
               n.at # "exchanged", n.at = "exchanging" => n.sent = jar[d] /\ n.answer = None
        PROVE  OthersKeep(d, c) /\ PresentsJar(d, c) /\ Passes(d, c)
    BY <1>1, <1>2, <1>3, PassedOn
  <1>4. ASSUME NEW at \in {"granted", "refused", "exchanged", "renewed"}
        PROVE  /\ [r EXCEPT !.at = at].at = at /\ [r EXCEPT !.at = at].sent = r.sent
               /\ [r EXCEPT !.at = at].answer = r.answer
    BY <1>1 DEF Runs
  <1>5. CASE Fail(d, c)
    <2>1. r.at # "exchanged" /\ SetCall(d, c, Idle) /\ UNCHANGED <<credVars, jar>>
      BY <1>5 DEF Fail, AnswersArrive
    <2> QED  BY <1>3, <2>1, RunStates
  <1>14. CASE FailToAuthenticate(d, c)
    <2> DEFINE n == [r EXCEPT !.at = "refused"]
    <2>1. r.at = "asking" /\ SetCall(d, c, n) /\ UNCHANGED <<credVars, jar>>
      BY <1>14 DEF FailToAuthenticate
    <2>2. n.at = "refused"
      BY <1>4
    <2> HIDE DEF n
    <2> QED  BY <1>3, <2>1, <2>2
  <1>6. CASE Start(d, c)
    <2> DEFINE n == Asking(jar[d], FALSE)
    <2>1. n.at = "asking" /\ SetCall(d, c, n) /\ UNCHANGED <<credVars, jar>> /\ r.at = "idle"
      BY <1>1, <1>6, RunStates DEF Start
    <2> HIDE DEF n
    <2> QED  BY <1>3, <2>1
  <1>7. ASSUME NEW local \in Networks, ServeDevice(d, c, local)
        PROVE  OthersKeep(d, c) /\ PresentsJar(d, c) /\ Passes(d, c)
    <2>1. PICK at \in {"granted", "refused"} : SetCall(d, c, [r EXCEPT !.at = at])
      BY <1>7 DEF ServeDevice
    <2>2. r.at = "asking" /\ UNCHANGED <<credVars, jar>>
      BY <1>7 DEF ServeDevice
    <2> DEFINE n == [r EXCEPT !.at = at]
    <2>3. n.at = at /\ SetCall(d, c, n)
      BY <1>4, <2>1
    <2> HIDE DEF n
    <2> QED  BY <1>3, <2>1, <2>2, <2>3
  <1>8. CASE Finish(d, c)
    BY <1>3, <1>8, RunStates DEF Finish
  <1>9. CASE Refresh(d, c)
    <2> DEFINE n == Exchanging(jar[d])
    <2>1. /\ n.at = "exchanging" /\ n.sent = jar[d] /\ n.answer = None
          /\ SetCall(d, c, n) /\ UNCHANGED <<credVars, jar>> /\ r.at = "refused"
      BY <1>1, <1>9, RunStates DEF Refresh, MustRefresh
    <2> HIDE DEF n
    <2> QED  BY <1>3, <2>1
  <1>10. CASE ServeMissing(d, c)
    <2> DEFINE n == [r EXCEPT !.at = "exchanged"]
    <2>1. /\ r.at = "exchanging" /\ r.sent = None /\ SetCall(d, c, n)
          /\ UNCHANGED <<credVars, jar>>
      BY <1>10 DEF ServeMissing
    <2>2. r.sent = jar[d] /\ r.answer = None
      BY <1>1, <2>1 DEF RunInv, HeldUnspent
    <2>3. n.at = "exchanged" /\ n.answer = r.answer
      BY <1>4
    <2> HIDE DEF n
    <2> QED  BY <1>1, <1>2, <2>1, <2>2, <2>3, PassedOn
  <1>11. CASE AskAgain(d, c)
    <2> DEFINE n == Asking(jar[d], TRUE)
    <2>1. n.at = "asking" /\ SetCall(d, c, n) /\ UNCHANGED <<credVars, jar>> /\ r.at = "renewed"
      BY <1>1, <1>11, RunStates DEF AskAgain
    <2> HIDE DEF n
    <2> QED  BY <1>3, <2>1
  <1>12. CASE Deliver(d, c)
    <2>1. jar' = [jar EXCEPT ![d] = r.answer] /\ r.at = "exchanged" /\ UNCHANGED credVars
      BY <1>12 DEF Deliver, CookiesAfter
    <2>2. PICK n : SetCall(d, c, n) /\ n.at \in {"renewed", "idle"}
      <3>1. [r EXCEPT !.at = "renewed"].at = "renewed"
        BY <1>4
      <3> QED  BY <1>12, <3>1, RunStates DEF Deliver
    <2> QED  BY <1>1, <1>2, <2>1, <2>2, PassedOn
  <1>13. ASSUME NEW local \in Networks, ServeExchange(d, c, local)
         PROVE  OthersKeep(d, c) /\ PresentsJar(d, c) /\ (Loses(d, c) \/ Exchanges(d, c))
    <2>1. r.at = "exchanging" /\ r.sent # None /\ jar' = jar
      BY <1>13 DEF ServeExchange
    <2>2. r.sent = jar[d] /\ r.answer = None /\ Holding(d, c) = jar[d]
      BY <1>1, <1>2, <2>1 DEF RunInv, HeldUnspent
    <2>3. ~DetectReuse(r.sent, local)
      BY <1>1, <2>1, <2>2 DEF RunInv, HeldUnspent, DetectReuse
    <2>4. CASE PairsLeft /\ RotateRefresh(r.sent, FreshPair, local)
               /\ SetCall(d, c, [r EXCEPT !.at = "exchanged", !.answer = FreshPair])
      <3> DEFINE n == [r EXCEPT !.at = "exchanged", !.answer = FreshPair]
      <3>1. n.at = "exchanged" /\ n.answer = FreshPair /\ SetCall(d, c, n)
        BY <1>1, <2>4 DEF Runs
      <3> HIDE DEF n
      <3>2. OthersKeep(d, c) /\ PresentsJar(d, c) /\ Holding(d, c)' = FreshPair
        BY <1>1, <2>1, <3>1, HoldingChanged
      <3> QED  BY <2>1, <2>2, <2>4, <3>2 DEF Exchanges
    <2>5. CASE RejectRefresh(r.sent, local) /\ SetCall(d, c, [r EXCEPT !.at = "exchanged"])
      <3> DEFINE n == [r EXCEPT !.at = "exchanged"]
      <3>1. n.at = "exchanged" /\ n.answer = None /\ SetCall(d, c, n)
        BY <1>4, <2>2, <2>5
      <3> HIDE DEF n
      <3>2. OthersKeep(d, c) /\ PresentsJar(d, c) /\ Holding(d, c)' = None
        BY <1>1, <2>1, <3>1, HoldingChanged
      <3> QED  BY <2>1, <2>2, <2>5, <3>2 DEF Loses
    <2> QED  BY <1>13, <2>3, <2>4, <2>5 DEF ServeExchange
  <1> QED
    BY <1>5, <1>6, <1>7, <1>8, <1>9, <1>10, <1>11, <1>12, <1>13, <1>14 DEF Progress

\* What a browser holds is a couple of its device.
LEMMA HoldingOwn ==
  ASSUME ClientInv, NEW d \in Device, NEW c \in Call, Holding(d, c) # None
  PROVE  Holding(d, c) \in Pair /\ pair[Holding(d, c)].device = d /\ ~Unused(Holding(d, c))
  <1>1. jar[d] \in Cookies /\ call[d][c].answer \in Cookies
    BY RunFields DEF ClientInv
  <1> QED  BY <1>1, NoneAssumption DEF ClientInv, OwnCookies, Holding, Cookies, Unused

\* A registered device is the only one whose cookies and credentials are new.
LEMMA RegisteredHolding ==
  ASSUME ClientInv, NEW c \in Call, NEW d \in Device, NEW type, PairsLeft,
         Register(d, type, FreshPair, now), jar' = [jar EXCEPT ![d] = FreshPair],
         UNCHANGED call
  PROVE  /\ OthersKeep(d, c) /\ call'[d][c].at = "idle" /\ Holding(d, c)' = FreshPair
         /\ FreshPair \in Pair /\ Unused(FreshPair) /\ ~Registered(d)
         /\ pair'[FreshPair] = IssuedPair(d, now)
         /\ \A p \in Pair : p # FreshPair => pair'[p] = pair[p]
         /\ now' = now /\ reused' = reused
  <1>1. FreshPair \in Pair /\ Unused(FreshPair)
    BY FreshCouple
  <1>2. call[d][c].at = "idle"
    BY DEF Register, ClientInv, OwnCookies
  <1>3. \A x \in Device : jar'[x] = IF x = d THEN FreshPair ELSE jar[x]
    BY DEF ClientInv, ClientTypeOK
  <1>4. OthersKeep(d, c)
    BY <1>3 DEF OthersKeep, Holding
  <1>5. pair' = [pair EXCEPT ![FreshPair] = IssuedPair(d, now)]
        /\ ~Registered(d) /\ now' = now /\ reused' = reused
    BY DEF Register
  <1> QED  BY <1>1, <1>2, <1>3, <1>4, <1>5 DEF Holding, ClientInv, Inv, TypeOK

\* What a rotation leaves of the rows of each couple.
LEMMA RotatedCouples ==
  ASSUME Inv, NEW p \in Pair, NEW q \in Pair, NEW local, RotateRefresh(p, q, local)
  PROVE  /\ p # q /\ pair'[q] = IssuedPair(pair[p].device, now)
         /\ pair'[p].refreshConsumed
         /\ \A x \in Pair : x # q =>
              /\ pair'[x].device = pair[x].device /\ pair'[x].created = pair[x].created
              /\ pair'[x].refreshRevoked = pair[x].refreshRevoked
              /\ x # p => pair'[x].refreshConsumed = pair[x].refreshConsumed
         /\ UNCHANGED <<now, device, reused>>
  <1>1. \A x \in Pair : pair[x] \in PairRow
    BY DEF Inv, TypeOK
  <1>2. pair' = AfterRotation(p, q) /\ Unused(q) /\ ~Unused(p)
        /\ UNCHANGED <<now, device, reused>>
    BY DEF RotateRefresh, Refreshable
  <1>3. p # q
    BY <1>2
  <1> QED  BY <1>1, <1>2, <1>3 DEF AfterRotation, PairRow

\* A step that shuts off credentials and touches no browser.
LEMMA RevokedCouples ==
  ASSUME Inv, NEW target \in Device, NEW actor \in Device,
         RevokeDevice(target, actor) \/ Tick \/ UNCHANGED credVars
  PROVE  /\ \A p \in Pair :
              /\ pair'[p].device = pair[p].device
              /\ pair'[p].refreshConsumed = pair[p].refreshConsumed
              /\ LiveRefresh(p)' => pair'[p] = pair[p] /\ LiveRefresh(p)
         /\ reused' = reused
         /\ now' = now \/ now' = now + 1
  <1>1. ASSUME RevokeDevice(target, actor)
        PROVE  \A p \in Pair :
                 /\ pair'[p].device = pair[p].device
                 /\ pair'[p].refreshConsumed = pair[p].refreshConsumed
                 /\ LiveRefresh(p)' => pair'[p] = pair[p] /\ LiveRefresh(p)
    <2>1. pair' = AllRevoked(target)
      BY <1>1 DEF RevokeDevice
    <2> QED  BY <2>1, AllRevokedRows DEF Inv, LiveRefresh, Unused
  <1> QED  BY <1>1 DEF RevokeDevice, Tick, credVars, LiveRefresh, Unused

\* Nothing a browser holds is presented twice.
LEMMA RunInvStep ==
  ASSUME RunInv, NEW c, Call = {c}, AnswersArrive, [ClientNext]_allVars
  PROVE  RunInv'
  <1>1. ClientInv /\ ClientInv' /\ Inv /\ c \in Call
    BY ClientStepInv DEF RunInv, ClientInv
  <1>2. ASSUME reused' = reused,
               \A d \in Device :
                 /\ Holding(d, c)' # None => ~pair'[Holding(d, c)'].refreshConsumed
                 /\ call'[d][c].at = "exchanging" =>
                      call'[d][c].sent = jar'[d] /\ call'[d][c].answer = None
        PROVE  RunInv'
    BY <1>1, <1>2 DEF RunInv, HeldUnspent, NothingReused
  <1>3. ASSUME NEW x \in Device
        PROVE  /\ Holding(x, c) # None =>
                    /\ Holding(x, c) \in Pair /\ pair[Holding(x, c)].device = x
                    /\ ~Unused(Holding(x, c)) /\ ~pair[Holding(x, c)].refreshConsumed
               /\ call[x][c].at = "exchanging" =>
                    call[x][c].sent = jar[x] /\ call[x][c].answer = None
    BY <1>1, HoldingOwn DEF RunInv, HeldUnspent
  <1>4. ASSUME NEW d \in Device, NEW type, PairsLeft, Register(d, type, FreshPair, now),
               jar' = [jar EXCEPT ![d] = FreshPair], UNCHANGED call
        PROVE  RunInv'
    <2>1. /\ OthersKeep(d, c) /\ call'[d][c].at = "idle" /\ Holding(d, c)' = FreshPair
          /\ Unused(FreshPair) /\ pair'[FreshPair] = IssuedPair(d, now)
          /\ \A p \in Pair : p # FreshPair => pair'[p] = pair[p]
          /\ reused' = reused
      BY <1>1, <1>4, RegisteredHolding
    <2>2. ~pair'[FreshPair].refreshConsumed
      BY <2>1 DEF IssuedPair
    <2> QED  BY <1>2, <1>3, <2>1, <2>2 DEF OthersKeep
  <1>5. ASSUME NEW d \in Device, Progress(d, c) \/ Fail(d, c) \/ FailToAuthenticate(d, c)
        PROVE  RunInv'
    <2>1. /\ OthersKeep(d, c) /\ PresentsJar(d, c)
          /\ Passes(d, c) \/ Loses(d, c) \/ Exchanges(d, c)
      BY <1>5, RunMoves
    <2>2. CASE Passes(d, c)
      BY <1>2, <1>3, <2>1, <2>2 DEF Passes, OthersKeep, PresentsJar, credVars
    <2>3. CASE Loses(d, c)
      <3>1. UNCHANGED credVars /\ Holding(d, c)' = None
        BY <2>3 DEF Loses, RejectRefresh
      <3> QED  BY <1>2, <1>3, <2>1, <3>1 DEF OthersKeep, PresentsJar, credVars
    <2>4. CASE Exchanges(d, c)
      <3> DEFINE p == Holding(d, c)
      <3>1. PICK local \in Networks : RotateRefresh(p, FreshPair, local)
        BY <2>4 DEF Exchanges
      <3>2. /\ p \in Pair /\ pair[p].device = d /\ FreshPair \in Pair /\ Unused(FreshPair)
            /\ Holding(d, c)' = FreshPair
        BY <1>3, <2>4, FreshCouple DEF Exchanges
      <3>3. /\ pair'[FreshPair] = IssuedPair(pair[p].device, now) /\ reused' = reused
            /\ \A x \in Pair : x # FreshPair /\ x # p =>
                 pair'[x].refreshConsumed = pair[x].refreshConsumed
        BY <1>1, <3>1, <3>2, RotatedCouples
      <3>4. ~pair'[FreshPair].refreshConsumed
        BY <3>3 DEF IssuedPair
      <3>5. ASSUME NEW x \in Device, x # d, Holding(x, c) # None
            PROVE  ~pair'[Holding(x, c)].refreshConsumed
        BY <1>3, <3>2, <3>3, <3>5
      <3> QED  BY <1>2, <1>3, <2>1, <3>2, <3>3, <3>4, <3>5 DEF OthersKeep, PresentsJar
    <2> QED  BY <2>1, <2>2, <2>3, <2>4
  <1>6. ASSUME UNCHANGED clientVars, reused' = reused,
               \A p \in Pair : pair'[p].refreshConsumed = pair[p].refreshConsumed
        PROVE  RunInv'
    <2>1. \A x \in Device : Holding(x, c)' = Holding(x, c)
      BY <1>6 DEF clientVars, Holding
    <2> QED  BY <1>2, <1>3, <1>6, <2>1 DEF clientVars
  <1>7. ASSUME NEW d \in Device, SetUp(d) PROVE RunInv'
    BY <1>4, <1>7 DEF SetUp, RegisterTrustedPC
  <1>8. ASSUME NEW d \in Device, NEW type \in EnrolledType, Enroll(d, type) PROVE RunInv'
    BY <1>4, <1>8 DEF Enroll, RegisterEnrolled
  <1>9. ASSUME NEW target \in Device, NEW actor \in Device, Revoke(target, actor)
        PROVE  RunInv'
    BY <1>1, <1>6, <1>9, RevokedCouples DEF Revoke
  <1>10. CASE Pass
    BY <1>6, <1>10 DEF Pass, Tick
  <1>11. CASE UNCHANGED allVars
    BY <1>6, <1>11 DEF allVars, credVars
  <1> QED  BY <1>5, <1>7, <1>8, <1>9, <1>10, <1>11 DEF ClientNext

\* The invariant of a household that runs one request at a time and loses no answer.
LEMMA RunInvariance == OneRun /\ AnswersArrive => (ClientSpec => []RunInv)
  <1> SUFFICES ASSUME OneRun, AnswersArrive PROVE ClientSpec => []RunInv
    OBVIOUS
  <1>1. PICK c : Call = {c}
    BY DEF OneRun
  <1>2. ClientInit => RunInv
    <2> SUFFICES ASSUME ClientInit PROVE RunInv
      OBVIOUS
    <2>1. ClientInv
      BY ClientInitInv
    <2>2. HeldUnspent /\ NothingReused
      BY RunStates DEF ClientInit, Init, HeldUnspent, NothingReused, Holding
    <2> QED  BY <2>1, <2>2 DEF RunInv
  <1>3. RunInv /\ [ClientNext]_allVars => RunInv'
    BY <1>1, RunInvStep
  <1> QED  BY <1>2, <1>3, PTL DEF ClientSpec

\* Such a household never seems to present a stolen credential, wherever its devices
\* are used.
THEOREM NoFalseReuse ==
  OneRun /\ AnswersArrive /\ ClientSpec => []RenewalKeepsRegistration
  <1>1. RunInv => RenewalKeepsRegistration
    BY DEF RunInv, NothingReused, RenewalKeepsRegistration
  <1> QED  BY <1>1, RunInvariance, PTL

\* It never has to enroll a device again that was not revoked: the server keeps a
\* refresh credential for every active device.
THEOREM NobodyIsLockedOut ==
  OneRun /\ AnswersArrive /\ ClientSpec => [](\A d \in Device : IsActive(d) => HoldsRefresh(d))
  <1>1. RunInv => \A d \in Device : IsActive(d) => HoldsRefresh(d)
    BY DEF RunInv, NothingReused, ClientInv, Inv, RegisteredUntilShutdown
  <1> QED  BY <1>1, RunInvariance, PTL

-----------------------------------------------------------------------------
(* At home: what can be exchanged is in its browser's hands. *)

\* A step that leaves browsers alone makes nothing exchangeable.
LEMMA CurrentBefore ==
  ASSUME Inv, NEW target \in Device, NEW actor \in Device,
         RevokeDevice(target, actor) \/ Tick \/ UNCHANGED credVars,
         NEW d \in Device, NEW p \in Pair, Current(d, p)'
  PROVE  Current(d, p)
  <1>1. pair'[p] = pair[p] /\ LiveRefresh(p) /\ pair[p].device = d
    BY RevokedCouples DEF Current
  <1>2. now \in Nat /\ pair[p].created \in Nat /\ (now' = now \/ now' = now + 1)
    BY RevokedCouples DEF Inv, TypeOK, PairRow
  <1>3. ~(now' >= pair[p].created + RefreshLifetime)
    BY <1>1 DEF Current, RefreshExpired
  <1> QED  BY <1>1, <1>2, <1>3, TimeAssumption DEF Current, RefreshExpired

\* The store refuses nobody at home a credential that can be exchanged: the device of
\* one that is not revoked is active.
LEMMA CurrentIsAccepted ==
  ASSUME Inv, ~Roaming, NEW d \in Device, NEW p \in Pair, Current(d, p),
         NEW local \in Networks, RejectRefresh(p, local)
  PROVE  FALSE
  <1>1. ~Unused(p) /\ LiveRefresh(p) /\ ~RefreshExpired(p) /\ pair[p].device = d
    BY DEF Current, LiveRefresh
  <1>2. IsActive(d)
    BY <1>1 DEF Inv, NoCredentialAfterShutdown, LiveRefresh
  <1>3. local
    BY DEF Networks
  <1> QED  BY <1>1, <1>2, <1>3 DEF RejectRefresh, Refreshable, Exchangeable

\* Each step keeps what can be exchanged where its browser will use it.
LEMMA CurrentStep ==
  ASSUME RunInv, CurrentIsHeld, ~Roaming, NEW c, Call = {c}, AnswersArrive,
         [ClientNext]_allVars
  PROVE  CurrentIsHeld'
  <1>1. ClientInv /\ Inv /\ c \in Call
    BY DEF RunInv, ClientInv
  <1> SUFFICES ASSUME NEW x \in Device, NEW p \in Pair, Current(x, p)'
               PROVE  p = Holding(x, c)'
    BY DEF CurrentIsHeld
  <1>2. Current(x, p) => p = Holding(x, c)
    BY <1>1 DEF CurrentIsHeld
  <1>3. ASSUME NEW d \in Device, NEW type, PairsLeft, Register(d, type, FreshPair, now),
               jar' = [jar EXCEPT ![d] = FreshPair], UNCHANGED call
        PROVE  p = Holding(x, c)'
    <2>1. /\ OthersKeep(d, c) /\ Holding(d, c)' = FreshPair /\ ~Registered(d)
          /\ FreshPair \in Pair /\ pair'[FreshPair] = IssuedPair(d, now)
          /\ \A q \in Pair : q # FreshPair => pair'[q] = pair[q]
          /\ now' = now
      BY <1>1, <1>3, RegisteredHolding
    <2>2. CASE p = FreshPair
      <3>1. x = d
        BY <2>1, <2>2 DEF Current, IssuedPair
      <3> QED  BY <2>1, <2>2, <3>1
    <2>3. CASE p # FreshPair
      <3>1. Current(x, p)
        BY <2>1, <2>3 DEF Current, LiveRefresh, Unused, RefreshExpired
      <3>2. x # d
        BY <1>1, <2>1, <3>1 DEF Current, Inv, RowsHaveDevices
      <3> QED  BY <1>2, <2>1, <3>1, <3>2 DEF OthersKeep
    <2> QED  BY <2>2, <2>3
  <1>4. ASSUME NEW d \in Device, Progress(d, c) \/ Fail(d, c) \/ FailToAuthenticate(d, c)
        PROVE  p = Holding(x, c)'
    <2>1. /\ OthersKeep(d, c)
          /\ Passes(d, c) \/ Loses(d, c) \/ Exchanges(d, c)
      BY <1>4, RunMoves
    <2>2. ASSUME UNCHANGED credVars PROVE Current(x, p)
      BY <2>2 DEF credVars, Current, LiveRefresh, Unused, RefreshExpired
    <2>3. CASE Passes(d, c)
      BY <1>2, <2>1, <2>2, <2>3 DEF Passes, OthersKeep
    <2>4. CASE Loses(d, c)
      <3>1. Current(x, p) /\ p = Holding(x, c)
        BY <1>2, <2>2, <2>4 DEF Loses, RejectRefresh
      <3>2. x # d
        BY <1>1, <2>4, <3>1, CurrentIsAccepted DEF Loses
      <3> QED  BY <2>1, <3>1, <3>2 DEF OthersKeep
    <2>5. CASE Exchanges(d, c)
      <3> DEFINE q == Holding(d, c)
      <3>1. PICK local \in Networks : RotateRefresh(q, FreshPair, local)
        BY <2>5 DEF Exchanges
      <3>2. /\ q \in Pair /\ pair[q].device = d /\ FreshPair \in Pair
            /\ Holding(d, c)' = FreshPair
        BY <1>1, <2>5, HoldingOwn, FreshCouple DEF Exchanges
      <3>3. /\ pair'[FreshPair] = IssuedPair(pair[q].device, now) /\ pair'[q].refreshConsumed
            /\ \A y \in Pair : y # FreshPair =>
                 /\ pair'[y].device = pair[y].device /\ pair'[y].created = pair[y].created
                 /\ pair'[y].refreshRevoked = pair[y].refreshRevoked
                 /\ y # q => pair'[y].refreshConsumed = pair[y].refreshConsumed
            /\ now' = now
        BY <1>1, <3>1, <3>2, RotatedCouples
      <3>4. CASE p = FreshPair
        <4>1. x = d
          BY <3>2, <3>3, <3>4 DEF Current, IssuedPair
        <4> QED  BY <3>2, <3>4, <4>1
      <3>5. CASE p # FreshPair
        <4>1. p # q
          BY <3>3 DEF Current, LiveRefresh
        <4>2. Current(x, p)
          BY <3>3, <3>5, <4>1 DEF Current, LiveRefresh, Unused, RefreshExpired
        <4>3. x # d
          BY <1>2, <4>1, <4>2
        <4> QED  BY <1>2, <2>1, <4>2, <4>3 DEF OthersKeep
      <3> QED  BY <3>4, <3>5
    <2> QED  BY <2>1, <2>3, <2>4, <2>5
  <1>5. ASSUME UNCHANGED clientVars, NEW target \in Device, NEW actor \in Device,
               RevokeDevice(target, actor) \/ Tick \/ UNCHANGED credVars
        PROVE  p = Holding(x, c)'
    <2>1. Current(x, p)
      BY <1>1, <1>5, CurrentBefore
    <2> QED  BY <1>2, <1>5, <2>1 DEF clientVars, Holding
  <1>6. ASSUME NEW d \in Device, SetUp(d) PROVE p = Holding(x, c)'
    BY <1>3, <1>6 DEF SetUp, RegisterTrustedPC
  <1>7. ASSUME NEW d \in Device, NEW type \in EnrolledType, Enroll(d, type)
        PROVE  p = Holding(x, c)'
    BY <1>3, <1>7 DEF Enroll, RegisterEnrolled
  <1>8. ASSUME NEW target \in Device, NEW actor \in Device, Revoke(target, actor)
        PROVE  p = Holding(x, c)'
    BY <1>5, <1>8 DEF Revoke
  <1>9. CASE Pass
    BY <1>5, <1>9 DEF Pass
  <1>10. CASE UNCHANGED allVars
    BY <1>5, <1>10 DEF allVars
  <1> QED  BY <1>4, <1>6, <1>7, <1>8, <1>9, <1>10 DEF ClientNext

\* In that household, with devices used at home, every credential that can be
\* exchanged is in its device's cookies or on its way there.
THEOREM BrowserKeepsCredential ==
  OneRun /\ AnswersArrive /\ ~Roaming /\ ClientSpec => []BrowserHoldsCredential
  <1> SUFFICES ASSUME OneRun, AnswersArrive, ~Roaming
               PROVE  ClientSpec => []BrowserHoldsCredential
    OBVIOUS
  <1>1. PICK c : Call = {c}
    BY DEF OneRun
  <1>2. ClientInit => CurrentIsHeld
    BY DEF ClientInit, Init, IssuedPair, CurrentIsHeld, Current, LiveRefresh, Unused
  <1>3. RunInv /\ CurrentIsHeld /\ [ClientNext]_allVars => CurrentIsHeld'
    BY <1>1, CurrentStep
  <1>4. CurrentIsHeld => BrowserHoldsCredential
    BY <1>1 DEF CurrentIsHeld, Current, Holding, BrowserHoldsCredential
  <1> QED  BY <1>2, <1>3, <1>4, RunInvariance, PTL DEF ClientSpec

=============================================================================
