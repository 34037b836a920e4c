------------------------------ MODULE Enrollment ------------------------------
(***************************************************************************)
(* How devices come to be registered: the initial setup of the household,  *)
(* which creates the trusted PC, and the enrollment requests through which *)
(* the PC admits parents' phones and the shared tablet.                    *)
(*                                                                         *)
(* Both handlers that register a device run in two steps with other        *)
(* requests in between: completeSetup validates the code, hashes the PIN   *)
(* with Argon2id for a good part of a second and then opens its            *)
(* transaction; claimEnrollment looks its request up and then consumes it. *)
(* The time they use is the one they read on arrival.  The server may stop *)
(* at any moment and forget the requests in flight.                        *)
(*                                                                         *)
(* The browser of a new device has a claim token once its code was taken,  *)
(* and polls with it every two seconds, until a poll is answered with      *)
(* anything but "not yet": it then forgets the token for good.             *)
(*                                                                         *)
(* Every code and claim token is random, so a row needs only to know which *)
(* of them its code_hash column holds.                                     *)
(***************************************************************************)
EXTENDS Credentials

CONSTANTS
  Code,           \* initial setup codes
  Request,        \* enrollment requests the PC may create
  Handler,        \* requests in flight at the same time
  CodeLifetime,   \* 10 minutes for setup codes and enrollment requests alike
  MaxStops        \* bound: how often the server stops

ASSUME EnrollmentAssumption ==
  None \notin Code /\ CodeLifetime \in Nat /\ MaxStops \in Nat

VARIABLES
  setup,       \* the row of security_state
  enrollment,  \* the table enrollment_requests
  handler,     \* handler[h]: between which steps handler h is
  poller,      \* poller[e]: what the browser that submitted e does about its claim
  stops        \* how often the server stopped

enrollVars == <<setup, enrollment, handler, poller, stops>>
vars == <<credVars, enrollVars>>

-----------------------------------------------------------------------------
SetupRow == [complete : BOOLEAN, code : Code \cup {None}, expires : Nat,
             consumed : BOOLEAN]

NoRequest == [status |-> "absent", type |-> "none", holds |-> "nothing", expires |-> 0]
RequestRow == {NoRequest} \cup
  [status : {"pending", "submitted", "approved", "rejected"}, type : EnrolledType,
   holds : {"code", "claim", "tombstone"}, expires : Nat]

Free == [op |-> "free"]
HandlerState == {Free} \cup [op : {"setup"}, code : Code, t : Nat]
                       \cup [op : {"claim"}, request : Request, t : Nat]

\* A browser polls its claim, is done with it, or has lost it: the answer to its
\* submission did not arrive, or a poll met trouble that says nothing of the claim.
PollerState == {"none", "polling", "lost"}

\* Identifiers are random tokens: which unused one comes next does not matter.
FreshDevice == CHOOSE d \in Device : ~Registered(d)
FreshPair == CHOOSE p \in Pair : Unused(p)
FreshCode == CHOOSE c \in Code : c # setup.code
IdsLeft == (\E d \in Device : ~Registered(d)) /\ (\E p \in Pair : Unused(p))

\* requireAdmin admits the trusted PC only.
AdminPresent == \E d \in Device : IsTrustedPC(d) /\ IsActive(d)

EnrollInit ==
  /\ Init
  /\ setup = [complete |-> FALSE, code |-> None, expires |-> 0, consumed |-> FALSE]
  /\ enrollment = [e \in Request |-> NoRequest]
  /\ handler = [h \in Handler |-> Free]
  /\ poller = [e \in Request |-> "none"]
  /\ stops = 0

-----------------------------------------------------------------------------
\* EnsureInitialSetupCode replaces a code that is missing or has expired.
CodeDue == setup.code = None \/ setup.expires <= now

\* ensureInitialSetupCode, at every start and every GET /api/setup/status until the
\* setup is complete.
EnsureCode ==
  /\ ~setup.complete
  /\ CodeDue
  /\ Code \ {setup.code} # {}
  /\ setup' = [setup EXCEPT !.code = FreshCode, !.expires = now + CodeLifetime,
                            !.consumed = FALSE]
  /\ UNCHANGED <<credVars, enrollment, handler, poller, stops>>

\* Mutant: the transaction trusts the validation made before the PIN was hashed.
Trusted(c, t) == c \in Code

\* What ValidateInitialSetupCode and CompleteInitialSetup both demand.
CodeAccepted(c, t) ==
  /\ ~setup.complete /\ ~setup.consumed
  /\ setup.code = c /\ t < setup.expires

\* completeSetup up to HashPIN: a code that is not accepted ends the request.
BeginSetup(h, c) ==
  /\ handler[h] = Free
  /\ CodeAccepted(c, now)
  /\ handler' = [handler EXCEPT ![h] = [op |-> "setup", code |-> c, t |-> now]]
  /\ UNCHANGED <<credVars, setup, enrollment, poller, stops>>

\* Mutant: CompleteInitialSetup marks the code consumed and forgets to close the
\* setup.
CodeConsumed(row) == [row EXCEPT !.code = None, !.consumed = TRUE]

\* Mutant: the code's hash is cleared to an empty text instead of NULL.
EmptyCode(row) == [row EXCEPT !.complete = TRUE, !.code = "", !.consumed = TRUE]

\* The row after CompleteInitialSetup.
SetupCompleted(row) ==
  [row EXCEPT !.complete = TRUE, !.code = None, !.consumed = TRUE]

\* CompleteInitialSetup commits the trusted PC with its first credentials.
FinishSetup(h) ==
  LET r == handler[h] IN
  /\ r.op = "setup"
  /\ handler' = [handler EXCEPT ![h] = Free]
  /\ IF CodeAccepted(r.code, r.t)
     THEN /\ IdsLeft
          /\ setup' = SetupCompleted(setup)
          /\ Register(FreshDevice, "trusted_pc", FreshPair, r.t)
     ELSE UNCHANGED <<credVars, setup>>
  /\ UNCHANGED <<enrollment, poller, stops>>

-----------------------------------------------------------------------------
\* CreateEnrollment: the PC shows the code of the new request.
CreateEnrollment(e, type) ==
  /\ AdminPresent
  /\ enrollment[e] = NoRequest
  /\ enrollment' = [enrollment EXCEPT ![e] =
       [status |-> "pending", type |-> type, holds |-> "code",
        expires |-> now + CodeLifetime]]
  /\ UNCHANGED <<credVars, setup, handler, poller, stops>>

\* A submission is accepted once, while the request is pending.
Submittable(e) ==
  enrollment[e].status = "pending" /\ enrollment[e].expires > now

\* The row after SubmitEnrollment: a claim has taken the place of the code.
Submitted(row) == [row EXCEPT !.status = "submitted", !.holds = "claim"]

\* submitEnrollment: somebody who knows the code asks for the request's decision.  The
\* claim token is in the answer, which may not arrive.
SubmitEnrollment(e) ==
  /\ Submittable(e)
  /\ enrollment' = [enrollment EXCEPT ![e] = Submitted(@)]
  /\ \E p \in {"polling", "lost"} : poller' = [poller EXCEPT ![e] = p]
  /\ UNCHANGED <<credVars, setup, handler, stops>>

\* Mutant: a decision may be taken again.
Redecidable(e) ==
  enrollment[e].status \in {"submitted", "approved", "rejected"} /\ enrollment[e].expires > now

\* ApproveEnrollment and RejectEnrollment decide a submitted request.
Decidable(e) ==
  enrollment[e].status = "submitted" /\ enrollment[e].expires > now

Decide(e, status) ==
  /\ AdminPresent
  /\ Decidable(e)
  /\ enrollment' = [enrollment EXCEPT ![e].status = status]
  /\ UNCHANGED <<credVars, setup, handler, poller, stops>>

ApproveEnrollment(e) == Decide(e, "approved")
RejectEnrollment(e) == Decide(e, "rejected")

\* EnrollmentByClaim finds the request.
ClaimFound(e) == enrollment[e].holds = "claim" /\ enrollment[e].expires > now

\* claimEnrollment finds an approved request by its claim.  While the request is
\* submitted the answer is 202 and the browser goes on polling.
LookupClaim(h, e) ==
  /\ handler[h] = Free
  /\ poller[e] = "polling"
  /\ ClaimFound(e) /\ enrollment[e].status = "approved"
  /\ handler' = [handler EXCEPT ![h] = [op |-> "claim", request |-> e, t |-> now]]
  /\ UNCHANGED <<credVars, setup, enrollment, poller, stops>>

\* The claim is not found, 401, or was rejected, 403: the browser is done with it.
TurnedAway(e) ==
  /\ poller[e] = "polling"
  /\ ~ClaimFound(e) \/ enrollment[e].status = "rejected"
  /\ poller' = [poller EXCEPT ![e] = "none"]
  /\ UNCHANGED <<credVars, setup, enrollment, handler, stops>>

\* A poll is answered 500 by a server whose database is locked or closing, 502 by the
\* proxy in front of a stopped one, 403 outside the local network, or the page is
\* closed.  The browser takes each of these answers for the end of its claim.  (With a
\* claim that is not found any more this is the same as being turned away.)
PollFails(e) ==
  /\ poller[e] = "polling" /\ ClaimFound(e)
  /\ poller' = [poller EXCEPT ![e] = "lost"]
  /\ UNCHANGED <<credVars, setup, enrollment, handler, stops>>

\* Mutant: claims are matched by request, consumed or not.
ClaimRepeated(e, t) ==
  enrollment[e].status = "approved" /\ enrollment[e].expires > t

\* Mutant: the comparison of the claim's expiry is turned round.
ClaimInverted(e, t) ==
  /\ enrollment[e].holds = "claim" /\ enrollment[e].status = "approved"
  /\ enrollment[e].expires <= t

\* The claim that CompleteEnrollment consumes.
Claimable(e, t) ==
  /\ enrollment[e].holds = "claim" /\ enrollment[e].status = "approved"
  /\ enrollment[e].expires > t

\* CompleteEnrollment commits the device with its first credentials, or the claim is
\* answered 401; the browser is done with it if the answer arrives.
FinishClaim(h) ==
  LET r == handler[h] IN
  /\ r.op = "claim"
  /\ handler' = [handler EXCEPT ![h] = Free]
  /\ IF Claimable(r.request, r.t)
     THEN /\ IdsLeft
          /\ enrollment' = [enrollment EXCEPT ![r.request].holds = "tombstone"]
          /\ Register(FreshDevice, enrollment[r.request].type, FreshPair, r.t)
     ELSE UNCHANGED <<credVars, enrollment>>
  /\ \/ UNCHANGED poller
     \/ /\ poller[r.request] = "polling"
        /\ poller' = [poller EXCEPT ![r.request] = "none"]
  /\ UNCHANGED <<setup, stops>>

\* The server stops; what its handlers had not committed is gone.
Stop ==
  /\ stops < MaxStops
  /\ \E h \in Handler : handler[h] # Free
  /\ handler' = [h \in Handler |-> Free]
  /\ stops' = stops + 1
  /\ UNCHANGED <<credVars, setup, enrollment, poller>>

Pass == Tick /\ UNCHANGED enrollVars

EnrollNext ==
  \/ EnsureCode
  \/ \E h \in Handler, c \in Code : BeginSetup(h, c)
  \/ \E h \in Handler : FinishSetup(h)
  \/ \E e \in Request, type \in EnrolledType : CreateEnrollment(e, type)
  \/ \E e \in Request : SubmitEnrollment(e)
  \/ \E e \in Request : ApproveEnrollment(e)
  \/ \E e \in Request : RejectEnrollment(e)
  \/ \E h \in Handler, e \in Request : LookupClaim(h, e)
  \/ \E h \in Handler : FinishClaim(h)
  \/ \E e \in Request : TurnedAway(e) \/ PollFails(e)
  \/ Stop
  \/ Pass

\* While its page has a claim a browser polls it every two seconds (setInterval), and
\* handlers run to their end.  People need not act, and time need not pass.
EnrollSpec ==
  /\ EnrollInit /\ [][EnrollNext]_vars
  /\ \A h \in Handler : WF_vars(FinishSetup(h)) /\ WF_vars(FinishClaim(h))
  /\ \A e \in Request : WF_vars(\E h \in Handler : LookupClaim(h, e))

-----------------------------------------------------------------------------
\* Every row is one of its schema, and handlers hold what they looked up.
EnrollTypeOK ==
  /\ setup \in SetupRow
  /\ enrollment \in [Request -> RequestRow]
  /\ handler \in [Handler -> HandlerState]
  /\ poller \in [Request -> PollerState]
  /\ stops \in 0..MaxStops

\* However many browsers complete the setup at once, and whatever codes expire
\* and are replaced meanwhile, the setup is closed exactly when one trusted PC was
\* created: never two, and never a closed setup without one (FR-AUTH-052, 053).
SetupMatchesDevice ==
  LET pcs == {d \in Device : IsTrustedPC(d)} IN
  Cardinality(pcs) = IF setup.complete THEN 1 ELSE 0

\* Overlapping polls of one claim, a lost answer and a stopped server never make
\* two devices of one approval: there are as many devices of each type as
\* consumed requests (FR-AUTH-027, FR-AUTH-031).
OneDevicePerApproval ==
  \A type \in EnrolledType :
    Cardinality({d \in Device : device[d].type = type}) =
      Cardinality({e \in Request : enrollment[e].type = type /\ enrollment[e].holds = "tombstone"})

\* A decision of the administrator stands: it is not taken back, what was
\* rejected is never consumed, and nobody else's claim takes its place
\* (FR-AUTH-032).
DecisionStands ==
  [][\A e \in Request :
       enrollment[e].status \in {"approved", "rejected"} =>
         /\ enrollment'[e].status = enrollment[e].status
         /\ enrollment'[e].holds # enrollment[e].holds =>
              enrollment[e].status = "approved" /\ enrollment'[e].holds = "tombstone"]_vars

\* Registration as it is implemented here is the registration Credentials assumes:
\* the PC once and first, then devices with fresh credentials.
RegistersAsAssumed == Spec

\* An approved device is registered, also when its polls overlap or the server stops in
\* between, unless its request expires first or its browser has lost the claim: no
\* answer that is about the claim ends the polling of an approved one before.
ApprovedIsRegistered ==
  \A e \in Request :
    enrollment[e].status = "approved" ~>
      \/ enrollment[e].holds = "tombstone"
      \/ enrollment[e].expires <= now
      \/ poller[e] = "lost"

=============================================================================
