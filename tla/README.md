# Family Dashboard in TLA+

This directory specifies the server of the family dashboard (Go, one process, one
SQLite file), the parts of its browser client (`web/src/App.tsx`, `web/public/sw.js`)
that keep state, and the scripts that deploy it. The modules are checked with TLC on
small instances. TLAPS proves every invariant and action property of the runs, and both
refinements, for every instance; only the two liveness properties rest on TLC alone.
Paths below are relative to the root of the repository.

Run a configuration with `tlc -config MCCredentials.cfg MCCredentials`, a proof
module with `tlapm CredentialsProofs.tla`. `PROJECT.json` lists the runs, the lines
of code each definition stands for, the hazards, and for every checked property a
plausible mistake in the code that makes it fail.

## 1. The system and its parts

One Go process answers HTTP for the household's browsers: a *trusted PC*, the
parents' phones and shared tablets. All state is in SQLite, behind a pool of **one
connection** (`database.go:48-67`), so two transactions never overlap. A handler,
however, makes several calls of the database, most of them outside any transaction,
and other handlers run between them. This is where nearly everything that is hard to
test in this program happens. A handler reads the clock once, on arrival, and uses
that time for all it does.

| Component | Code | State | Operations | Talks to |
|---|---|---|---|---|
| Device credentials | `database/credentials.go`, `database/enrollment.go`, `database/database.go` | `devices`, `device_credentials`, `security_events` | register, authenticate, rotate, detect reuse, revoke a device | everything that authenticates |
| Renewal in the browser | `App.tsx` (`fetchDeviceWithRefresh`), `app/credentials.go`, `app/setup.go` | the two device cookies, runs in flight | ask, exchange, ask again, every 30 seconds and in every tab | credentials |
| Initial setup, enrollment | `app/setup.go`, `app/enrollment.go`, `database/enrollment.go`, `database/database.go` | `security_state`, `enrollment_requests` | ensure a code, complete the setup; create, submit, approve, reject, claim | registers devices |
| Administrator mode | `app/admin.go`, `database/admin.go` | `pin_attempts`, `admin_sessions` | unlock, lock, authorise a change | credentials; authorises enrollment, revocation, push, schedules |
| Push subscriptions | `app/push.go`, `database/push.go`, `NotificationControl` in `App.tsx` | `push_subscriptions`, the subscription of the browser | put, delete, test | push services, credentials |
| Schedules | `app/schedule.go`, `database/schedule.go`, `schedule/schedule.go` | `schedules`, `schedule_participants` | create, update, get; occurrences of a range, status of the family | administrator mode |
| Deployment | `deploy/synology/c1-deploy.sh`, `c1-rollback.sh` | `compose.yaml`, the files of the database, the backups | stop, copy, replace, check, start; stop, restore, start | start and stop of the process |
| Service worker | `web/public/sw.js`, `web/src/main.tsx`, `app/http.go` (`spaHandler`) | the worker's cache, the HTTP cache, the page | navigate, load the script, install | the build that serves |
| Schema, start and stop | `database/database.go`, `cmd/server/main.go` | all tables | create or migrate; shut down within ten seconds | all |
| Cryptography | `security/*.go` | none | PIN hashes, tokens, VAPID keys | all |
| Pages that only render | `App.tsx` | none | | all |

What makes each of them correct, and what is hard about it:

- **Credentials.** A device has one couple of an access and a refresh credential
  that works. A refresh credential is exchanged once; presented again, it counts as
  stolen and everything of the device is revoked. No device comes back from
  revocation, and none loses its registration otherwise. *Hard:* long mixtures of
  rotation, reuse and revocation; everything that presents a credential twice
  without being a thief.
- **Browser.** A device that may be renewed is, without help. *Hard:* tabs and runs
  that overlap, lost answers.
- **Setup and enrollment.** One trusted PC; one device for an approval, none for a
  rejection. *Hard:* codes that expire and are replaced while the PIN is hashed,
  polls that overlap, a server that stops between lookup and commit, a browser that
  takes the answer of a server in trouble for the end of its claim.
- **Administrator mode.** A limit on wrong PINs; sessions that end. *Hard:* the check of
  the limit, the slow hash and the count are three calls; a session is read by one
  statement and prolonged by another.
- **Push.** One active subscription for a device, none after its revocation. *Hard:*
  authentication and insertion are separate, requests outlive the page that sent
  them, the push service answers late.
- **Schedules.** No update overwrites one its author did not see; overlaps are warned
  of; the status is the one ADR-005 defines. *Hard:* the check is outside the
  transaction, rows and participants are read at different moments, times are compared
  as texts.
- **Deployment.** The household finds what it has stored, and what it had before C1
  stays in a backup. *Hard:* a script breaks off anywhere and is run again, a server
  that is killed leaves its database in two files, the check migrates.
- **Service worker.** Who reaches the server sees the build that serves; who does not
  sees the one he had. *Hard:* one of two requests fails, or the server is exchanged
  between them; the answer of a stopped server's proxy; three caches of different age.

`PROJECT.json` lists the hazards with their lines and the properties aimed at each.

## 2. The modules

```
DeviceLifecycle   abstract: what becomes of a device
      ^ implemented by (LifecycleSpec: checked and proved)
Credentials       the store
      ^ EXTENDS                         ^ EXTENDS, and registers as it assumes
WebClient   browsers x Credentials   Enrollment   setup and claims x Credentials

AdminMode     PushSubscriptions     ScheduleDomain <- Schedules

Deployment                          ServiceWorker
```

The theorems of a module `M` are in `MProofs`; `WebClientProofs` and `EnrollmentProofs`
also extend `CredentialsProofs`, as their modules extend `Credentials`.
An `MC` module and one `.cfg` per run instantiate each of them.

| Module | Variables | Correspondence to the code |
|---|---|---|
| `Credentials` | `now`, `device`, `pair`, `reused` | One action per transaction. A `Pair` is a row: the access and the refresh credential that one INSERT creates. `family_id` is fixed with the device and copied, so a family is the pairs of a device. `reused` is the security event `refresh_reuse_detected`. |
| `WebClient` | + `jar`, `call`, `shown`, `fails` | `call[d][c]` is run *c* of `fetchDeviceWithRefresh` in the browser of *d*. Client steps and handler steps are separate; a `Deliver` applies the `Set-Cookie` of an answer. The exchange itself is the action of `Credentials`. |
| `Enrollment` | + `setup`, `enrollment`, `handler`, `poller`, `stops` | `BeginSetup`/`FinishSetup` are `completeSetup` before and after `HashPIN`; `LookupClaim`/`FinishClaim` are the two database calls of `claimEnrollment`. `poller` is `claimToken` of `DeviceEnrollment` in `App.tsx`; `TurnedAway` and `PollFails` are the answers that end its polling. `Stop` ends the process. |
| `AdminMode` | `now`, `known`, `attempts`, `session`, `handler` | A step per database call of `unlockAdmin`, `requireAdmin`, `requireContentAdmin`, `lockAdmin`. |
| `PushSubscriptions` | `device`, `identity`, `subscription`, `issued`, `row`, `page`, `subscribed`, `request` | The handlers, a step per call, with `NotificationControl` and the push service. `row` is indexed by endpoint, since `endpoint_hash` is UNIQUE. |
| `ScheduleDomain` | none | `Overlap`, `Project`, `ActiveStatus` and the text order of `databaseTime` as operators. |
| `Schedules` | `schedule`, `participants`, `client` | `Check` is the handler up to its transaction; `ReadRow` and `ReadParticipants` are the two reads of `querySchedules`. `FamilyStatus` and `Occurrences` are what two handlers answer of one state of the tables. |
| `Deployment` | `server`, `compose`, `main`, `wal`, `backup`, `script`, `printed`, `writes`, `due`, `left` | One action per command of the two scripts that changes a file or the container, in the order of `DeployCommands` and `RollbackCommands`; `Abort` before any of them. `main` and `wal` are the two files of the database, `Found` is what SQLite makes of them. `due` and `left` record what the household has stored. |
| `ServiceWorker` | `server`, `worker`, `http`, `page` | `Navigate` and `LoadScript` are the two requests a page is made of, each through `fetch` of `sw.js`, the HTTP cache and `spaHandler` or, while no build serves, the proxy. `reached` says whether a request arrives at all. `Install` is `install` and `activate`. |

Two transactions concern several modules. `RevokeDevice` and the reuse branch of
`RotateRefreshCredential` write the credentials, the administrator sessions and (the
former) the push subscriptions of a device; each module has the part that concerns its
tables and says so. `AdminMode` and `PushSubscriptions` know of a device only whether
it authenticates, which is what `Credentials` proves to be final. `ServiceWorker` lets
the server change to any build at any moment, which is more than `Deployment` does.

The code's random tokens are identifiers that nobody can guess: an unused one is
taken with CHOOSE where the choice makes no difference. Definitions whose comment
starts with "Mutant" are no part of a model; see section 3.

## 3. What is checked

Every passing run checks one type invariant (`TypeOK`, `ClientTypeOK`,
`EnrollTypeOK`, `DeployTypeOK`, `WorkerTypeOK`) besides these properties. For each property the project names a
mutant, a definition with a mistake one could make in that code, under which the run
fails; so none of them holds merely because of how the model is written.

| Run | Instance | What it shows |
|---|---|---|
| `credentials` | 3 devices, 4 couples, lifetimes 1 and 2, clock to 3 | `OneCurrentPair`, `NoCredentialAfterShutdown`, `RegisteredUntilShutdown`, `OneTrustedPC`, `ExchangedOnce` (a refresh credential buys one successor), `OthersUnaffected`, `ShutdownIsFinal`, and the refinement `LifecycleSpec`. |
| `client` | 2 devices, 1 run each, 4 couples, 1 failure, clock to 2 | `RenewalKeepsRegistration`, `BrowserHoldsCredential` (the exchangeable credential is in the cookies or on the way to them) and, as liveness, `RenewedUnaided`. |
| `enrollment` | 2 requests, 2 handlers, 2 codes, 1 stop, clock to 2 | `SetupMatchesDevice`, `OneDevicePerApproval`, `DecisionStands`; `RegistersAsAssumed`: enrollment implements `Credentials`; `ApprovedIsRegistered`, as liveness. |
| `admin` | 2 devices, 2 handlers, 2 sessions, block after 2 failures, clock to 2 | `OneLiveSession`, `IdleLimit`, `RevokedIsFrozen`; `ShutOutStops`: of the requests of a device that is shut out only those go on that were found valid before, although an unlock in flight may open a new session; and `FailureBudget`: at most one wrong PIN more than the limit for each further request in flight. |
| `push` | 1 browser that becomes 2 devices in turn, 2 requests in flight, 3 endpoints | `OneActiveSubscription`, `LostOnlyAsAsked`, `SilentForGood`. |
| `schedules` | 2 administrators, 2 schedules, 2 versions, 5 contents | `NoLostUpdate`, `WarnedOfStored`, `StatusFollowsSchedule` for every audience at four instants: which of the schedules under way is told of (the last to start, then the last created, then by identifier), and how much of it to whom; `OccurrencesTile`: ranges that meet anywhere in a second lose no schedule. |
| `deployment` | 3 runs of `c1-deploy.sh`, any number of rollbacks, 2 changes of the data (`MaxWrites` = 3) | `BackupKept`: while C1 is installed, some backup restores what E3 had when C1 took its place; `ServesWhatIsDue`: no build ever serves an empty, older or mixed database; in `DeployTypeOK`, that none serves a schema older than its own. |
| `site` | 3 builds, 1 browser, any of whose requests may fail | `OnlineIsCurrent`: whose navigation and request for the script are answered by one build works with it, and when a page may come to lie under the name of a script; `OfflineForGood`: which loads may cost a browser its good copy. |

Four runs check a promise of the documentation that the code does not keep; TLC finds
the counterexample.

| Run | Promise | What happens |
|---|---|---|
| `client_race` | FR-AUTH-057: renewal never needs a new enrollment | Two tabs present the same refresh credential; the second is taken for a thief and the device is locked out (`credentials.go:82`). |
| `push_revoked` | FR-AUTH-022, ADR-026: revocation ends the push subscription | A PUT authenticated before the revocation inserts its row after it (`app/push.go:89`). |
| `push_again` | ADR-026: a new registration replaces the old one | `endpoint_hash` is UNIQUE over revoked rows and other devices too; putting a known endpoint again fails (`database.go:199`). |
| `schedule_start` | ADR-027: a schedule includes its start | `…:00Z` sorts after `…:00.000000001Z`, so the status leaves a schedule out at the whole second in which it starts (`database.go:535`). |

Other promises that the code does not keep have no run of their own, but the model
has the behaviour and a passing property bounds it:

- FR-AUTH-009 allows five wrong PINs. Requests that passed `PINChallenge` before the
  block verify and count further ones (`app/admin.go:49`); `FailureBudget` says how
  many.
- FR-SCH-016 demands a warning of overlaps. Two requests that look for overlaps before
  either writes store overlapping schedules without one (`app/schedule.go:53`).
  `WarnedOfStored` says only what a single request is warned of; that both pass is in
  the model, without a property.
- ADR-027 excludes the end of a schedule. A range that begins with a fraction of the
  second in which a schedule ended still lists it (`schedule.go:172`); `OccurrencesTile`
  says that nothing else is listed twice.
- A deployment prints the backup to restore with (`c1-deploy.sh:65`). If an earlier run
  broke off after line 42, this backup has the `compose.yaml` of C1; `BackupKept` says
  that an earlier one has that of E3, not that its path was printed.
- An approved device is to be registered. Its browser forgets the claim on any answer
  but 201 and 202 (`App.tsx:958-965`): the 500 of a server whose database is locked or
  closing, the proxy's 502 during a restart, the 403 outside the local network. The
  approval is then lost. `ApprovedIsRegistered` exempts a browser that has lost its
  claim; it says that nothing else ends the polling of an approved request.
- `spaHandler` answers a script it does not have with the page and marks it immutable
  for a year (`app/http.go:19-24`). One failed navigation while another build serves is
  enough: the worker shows its old shell (`sw.js:30`), whose script is answered with
  the page, and the browser keeps that. The other way is a server that is exchanged
  between a page and its script. `OnlineIsCurrent` says that there is no third, and
  that a page works whose two requests are answered by one build, unless the browser
  keeps a page for just that build's script from such a load, as after a rollback.
- A stopped server is to leave the offline shell (`docs/up/02-elaboration/e3-plan.md:17`).
  Behind the reverse proxy (`deploy/synology/README.md:11-17`) it is answered 502, for which
  `fetch` does not fail: the worker passes the error on, and puts it over its copy of a
  script (`sw.js:37-40`). `OfflineForGood` says which loads may cost a browser its
  copy: of a page of the build it has kept, while that build does not serve.

### Bounds

- *Credentials.* The properties relate at most two couples or devices to each other;
  with three devices and four couples there is a PC, a device that is shut out and one
  that is not, and a device that has rotated twice. Running out of couples stands for
  nothing in the program; `RenewedUnaided` exempts it.
- *Time.* One unit is as long as the shorter lifetime; the clock passes the longer
  one. In `AdminMode` a unit is five minutes.
- *Ranges.* `MaxRange` stands for the 62 days of `app/schedule.go:257`; with 5 ticks one
  of the ranges of the clock is refused.
- *Requests in flight.* Two per component: each race in this code is between a request
  and one other writer. `FailureBudget` is stated for any number.
- *Failures and stops.* One, at every place; after it the protocol is in a state it
  also reaches without. In `client` a failure is also a 401 of a server whose database
  failed (`FailToAuthenticate`, `app/admin.go:159-164`), upon which the browser
  exchanges a credential it need not have. Polls of `enrollment` and requests of `site`
  fail without bound.
- *Schedule times* are ticks with `Fractions` of them to the second, a tick standing
  for the nanosecond that `familyStatus` adds. Stored times are whole seconds (the
  page sends minutes, `App.tsx:295-296`, although the API takes any RFC 3339 time);
  instants asked for may have a fraction, of one digit. The order
  of two texts whose fractions differ in length is therefore not modelled, except for
  whole seconds, which is the case the program has. The `parents_only` schedule lasts
  two seconds and is alone, the chosen one and one of several at instants after its first;
  schedules are created at two times, so that each rule for ties decides.
- *Deployment.* Three deployments: one that breaks off, the one that follows it and one
  after a rollback. A change of the data between any two of them is enough to tell
  their backups apart. Rollbacks and aborts are not bounded.
- *Builds.* Three, so that the build of the page, of the worker's shell and the
  one that serves may all differ.
- *Endpoints, contents, identifiers* are small sets; contents cover touching and
  overlapping intervals, each visibility, somebody who is not an active member, and an
  interval `Validate` refuses.

Symmetry is used only in runs without liveness properties, for identifiers that are
merely compared. Where deadlock is not checked, the configuration says what runs out.

### Assumptions about the environment, and fairness

- `client`: a run may fail at any step except between an exchange and the arrival of
  its answer (`MayFail`), there is one run at a time, and devices stay at home
  (`Roaming = FALSE`). Each of these is needed. Without the first two a
  credential is presented twice, as in `client_race`; a shared tablet that is used
  outside the home network has its cookies cleared (`app/credentials.go:41`) although
  its credential could still be exchanged. Fairness is weak fairness of each run
  (`Progress`): the interval of `App` keeps firing, the browser goes on with each
  answer and the server answers. Nobody has to register, revoke or let time pass.
- `enrollment`: weak fairness of the two handlers that finish, and of looking a
  request up while its browser polls, which it does every two seconds as long as it
  has the claim; a poll that gets no answer at all changes nothing (`fetch` throws, the
  interval goes on). A network that is gone for good is excluded by this, trouble that is
  answered is not: `PollFails` may end the polling at any moment. Administrators
  need not decide and time need not pass; `ApprovedIsRegistered` exempts expiry.
- `admin`: unlocking takes at most `Slowest`, less than half a block: three
  short calls of the database and one Argon2id against five minutes. The code does not
  enforce it; the timeouts of `main.go:84-91` are for the connection.
  Without this `FailureBudget` is false: a request slower than the block moves the end
  of the block behind the time of requests that were let through when it first
  ended. The instance has `Slowest = 0`.
- `push`: browsers drop subscriptions at any moment, push services know exactly the
  endpoints browsers hold, and a request may be lost before any step.
- `deployment`: a command is done or not; a file that is half copied counts as not
  done, since the script that copied it broke off. A rollback is given a path that a
  deployment has printed, as `deploy/synology/README.md:74` demands, and one that broke
  off with the service stopped is repeated before anything else (`RepeatsRollback`).
  Without the latter `ServesWhatIsDue` is false: a service started by hand after
  `rm -f` (`c1-rollback.sh:40`) creates an empty database. Between two scripts the
  service may be started by hand at any time.
- `site`: `sw.js` is the same file in every build, as `CACHE` was not changed from E3 to
  C1, so the worker is installed once; names of scripts have a hash of their content.
  Any request may fail whatever serves (a tablet that wakes before its Wi-Fi). A stopped
  server always has the proxy in front of it; a stop during which nothing answers is
  the same to the browser as requests that fail. The HTTP cache does not keep a 502.

## 4. What is proved

The theorems hold for every value of the constants that satisfies the assumptions of the
modules; these only give constants their types and keep null values apart from others,
except where named below. A table gives the theorem for each property of section 3; every
module also has its inductive invariant as a theorem (`Invariance`, `EnrollInvariance`,
`ClientInvariance`).

| Module | Theorems, with the property each states |
|---|---|
| `CredentialsProofs` | `TypeCorrect` (`TypeOK`), `CurrentPairUnique` (`OneCurrentPair`), `ShutdownComplete` (`NoCredentialAfterShutdown`), `RegistrationKept` (`RegisteredUntilShutdown`), `TrustedPCKept` (`OneTrustedPC`), `OneSuccessor` (`ExchangedOnce`), `NoWayBack` (`ShutdownIsFinal`), `OthersAreUnaffected` (`OthersUnaffected`), `ImplementsLifecycle` (`LifecycleSpec`) |
| `WebClientProofs` | `ClientTypeCorrect` (`ClientTypeOK`), `BrowsersUseTheStore` (`ClientSpec => Spec`), `NoFalseReuse` (`RenewalKeepsRegistration`), `NobodyIsLockedOut` (every active device keeps a refresh credential), `BrowserKeepsCredential` (`BrowserHoldsCredential`) |
| `EnrollmentProofs` | `EnrollTypeCorrect` (`EnrollTypeOK`), `ImplementsCredentials` (`RegistersAsAssumed`), `SetupCreatesOnePC` (`SetupMatchesDevice`), `ApprovalMakesOneDevice` (`OneDevicePerApproval`), `DecisionIsFinal` (`DecisionStands`) |
| `AdminModeProofs` | `TypeCorrect` (`TypeOK`), `SessionUnique` (`OneLiveSession`), `SessionEnds` (`IdleLimit`), `ShutOutComplete` (`ShutOutStops`), `RevokedForGood` (`RevokedIsFrozen`), `BudgetHolds` (`FailureBudget`) |
| `PushSubscriptionsProofs` | `TypeCorrect` (`TypeOK`), `AtMostOneActive` (`OneActiveSubscription`), `LossIsAsked` (`LostOnlyAsAsked`), `SilenceLasts` (`SilentForGood`) |
| `SchedulesProofs` | `TypeCorrect` (`TypeOK`), `UpdateReplacesShown` (`NoLostUpdate`), `NothingOverlapsUnasked` (`WarnedOfStored`), `StretchesCover` (`OccurrencesTile`), `StatusIsRight` (`StatusFollowsSchedule`) |
| `DeploymentProofs` | `TypeCorrect` (`DeployTypeOK`), `LeftIsKept` (`BackupKept`), `ServiceFindsData` (`ServesWhatIsDue`) |
| `ServiceWorkerProofs` | `TypeCorrect` (`WorkerTypeOK`), `CurrentOnline` (`OnlineIsCurrent`), `OfflineKept` (`OfflineForGood`) |

Some theorems have a hypothesis that the code does not establish. Each is needed: without
it the property is false.

| Theorem | Hypothesis | Why the property needs it |
|---|---|---|
| `NoFalseReuse`, `NobodyIsLockedOut` | `OneRun`: a browser has one run at a time; `AnswersArrive`: a run does not fail while the answer to an exchange is on its way | The same credential is presented twice (`client_race`). Devices may be used anywhere. |
| `BrowserKeepsCredential` | these two, and `~Roaming` | A tablet away from home has its cookies cleared. |
| `ServiceFindsData` | `RepeatsRollback` | A service started by hand after half a rollback creates an empty database. |
| `NothingOverlapsUnasked`, `StretchesCover`, `StatusIsRight` | `WholeSeconds`: contents have times in whole seconds, as the page sends them | The texts of times within a second are out of order (`database.go:535`): a schedule that ends half a second after twelve sorts as over for one that begins at twelve. |
| `BudgetHolds` | `LimitAssumption`: an unlock takes less than half a block; finitely many requests in flight | Section 3, assumptions. |

### The arguments

**Credentials.** `Inv` is the conjunction of the type invariant, the four safety
invariants and `RowsHaveDevices`: credentials and reuse events refer to registered
devices. The last is the strengthening the others need: a registration must meet a
device that owns nothing yet, or its first couple would be a second one, and an old
reuse event would make a new device count as shut out. The invariants also need each
other: a rotation keeps `OneCurrentPair` because all other couples of the device were
consumed or revoked before, and `RegisteredUntilShutdown` because it inserts the successor
in the same transaction. One lemma treats each kind of step (`RegisterInv`, `RotateInv`,
`ReuseInv`, `RevokeInv`); `AllRevokedRows` says what the UPDATE of a family does to one
row. The refinement shows of each step which phase it changes: a rotation none, because
the successor is live when the credential is consumed; a reuse at most that of its own
device; and the revoking device is always registered or locked out, because the trusted PC
is never revoked. `ExchangedOnce` counts: `Counted` adds that the couples of a device are
finitely many, which makes a registration start at one and a rotation add one to both
sides.

**Browsers.** Every step of `WebClient` is a step of the store (`StepIsStores`), so
`ClientSpec` implements `Spec` and all of the above holds while browsers renew, whatever
overlaps or fails. `ClientInv` adds that cookies, and what requests carry, are couples of
the device they belong to. Under `OneRun` and `AnswersArrive` the argument is about
`Holding`: what a browser will use next, the answer on its way if there is one and the jar
otherwise. A step of a run passes it on, loses it to a refusal, or exchanges it
(`RunMoves`); what is held was never consumed (`HeldUnspent`), so reuse is never detected,
and with the store's invariant no active device is locked out (`NobodyIsLockedOut`).
At home nothing exchangeable is refused, because the device of a credential that is not
revoked is active (`CurrentIsAccepted`), so what can be exchanged stays what is held
(`CurrentIsHeld`).

**Setup and enrollment.** Every step is one of the store's or leaves it alone
(`StepIsAssumed`), which gives the refinement and the store's invariant. The rest relates
two tables to the devices: the setup is closed when there is a trusted PC (`SetupClosed`),
only approved requests are consumed, and there are as many devices of a type as
consumed requests for it (`ApprovalsCounted`, with the finiteness of both sets).

**Administrator mode.** `Arrived`, that the time a request uses is not in the
future, keeps an idle limit within one idle time from now. `OwnSession`, that a request
names a session of its own device, makes `ShutOutStops` inductive: the transaction that
shuts a device out revokes just the sessions its requests name, and a session opened
afterwards takes a row no request names. All steps that only revoke are one lemma,
`RevokingStep`. For `FailureBudget` the strengthening `BudgetInv` counts the requests that may
still fail although their device is blocked, those that passed `PINChallenge` before
(`Counting`). A block is set by the failure that reaches the limit, with at most
all other requests left to count, and each of these counts once (`WithinBudget`). Nobody
joins them: a request that passes the challenge finds no block, and a block ends
only after all requests it holds have ended (`BlockOutlasts`), since unlocking takes less
than half of it.

**Push.** A step writes the table in one of three ways and moves at most one request.
The invariant adds that a request past authentication names a device, and states
`OneActiveSubscription` without counting.

**Schedules.** What a client was shown may be out of date, and may combine a row with
participants written after it. The invariant says that it is older than what is stored or
just that (`ReadOf`), so that the version an update names decides: whoever still has
the version of the row has the row. It also says that no two creations in flight have the
same id (`IdsDiffer`). The theorems about times rest on four lemmas about the text
order, from `OrderOfTime` (a whole second comes after all other times of its second) to
`StretchesMeet`. That `ActiveStatus` has a first candidate to choose at all is
`FirstCandidate`: the order of candidates is strict and there are finitely many.

**Deployment.** The invariant says for each command a script has reached what the
backup it writes, or restores, holds by then (`DeploySteps`, `RollbackSteps`), that a log
lies only beside its own database (`LogsFit`), and that once C1 has been installed some
backup that no script will write again holds what E3 left (`LeftKept`). Under
`RepeatsRollback` the files hold what is due except while a rollback is under way, and then
its backup does (`FilesAreDue`).

**Service worker.** The strengthening is `PageOfServer`: a page is of the build that
answered its navigation, unless none did and it is the worker's. So a page that one build
answers throughout asks that build for its own script. A page comes to lie under the
name of a script only while a page loads whose script the serving build does not
have; then the server was exchanged, or nobody answered the navigation.

### What the proofs found

An earlier `OccurrencesTile` claimed, for one audience, that ranges which meet list together
exactly what the whole range lists. TLC agreed, because this audience did not see the only
schedule of the instance that ends where a range begins. The proof did not go through, and
the property was false: the query compares texts (`schedule.go:172`), and a schedule that ended
at a whole second sorts after every fraction of that second, so a range that begins with
such a fraction still lists it, against the half-open interval of ADR-027. The page asks
for whole seconds only, for which the property demands exactness; any other client of the
API meets the difference. The property now says what is true, for every audience.

### Only model-checked

`RenewedUnaided` and `ApprovedIsRegistered`: liveness under fairness is out of the prover's
reach, as is ENABLED. That the models fit the code is not proved by anything; the lines
in `PROJECT.json` are for comparing them.


## 5. What is not modelled

- *Statements of the schema, configuration.* `Deployment` has the migration as one
  step that keeps the content and raises the version; the effect of a stopped server on
  requests in flight is in `Enrollment`.
- *Cryptography.* Tokens cannot be guessed, hashes identify what was hashed.
- *HTTP plumbing, origin and CSRF checks.* They refuse requests and change no state; a
  refused request is one that was never sent. The audit rows they write are left out,
  except the reuse event.
- *Reads for display* (`listDevices`, `listEnrollments`, `listFamilyMembers`), and a
  status or a list of occurrences that is put together while schedules change:
  `FamilyStatus` and `Occurrences` are the answers for one state of the tables.
- *Payloads and wording*: push keys and messages, titles and notes of schedules (an
  item's version identifies them).
- *Rendering*, and the notifications `sw.js` displays. Of the worker's files only the page
  and its script are modelled, not the manifest and the icons.
- *The `.env` files, `e2-deploy.sh`, the build and monitoring scripts.* `e2-deploy.sh` has
  the order of `c1-deploy.sh` without a check, and no rollback. Deployment is not
  composed with the tables: what a rollback does to credentials that were rotated or
  revoked since is not checked (the README of the deployment calls it destructive).
- *A locked database.* The health check of `compose.yaml` opens the database every thirty
  seconds in a second process; requests that meet it and fail are failures in `WebClient`
  and `PollFails` in `Enrollment`, the other modules have none.
- *Recovery of the administrator PIN, tasks and notices*: described in `docs/`, not
  implemented in the code.

Hazards without a property have a note in `PROJECT.json`. Some are not modelled: a lost
answer of a completed setup or claim, a setup code stored but never logged, the
credentials a rollback revives, a locked database, a device unused for 90 days, which
has to be enrolled again. Others are in the model and simply happen: two requests that
pass the overlap check together, a 404 or 410 for an old endpoint that revokes its
successor, a backup whose printed path is of no use, and the claim a browser forgets
because the server was in trouble.

## 6. Plan

Done: `Credentials` with its abstraction, then, in the order of what a mistake would cost
the household, `WebClient`, `Enrollment`, `AdminMode`, `PushSubscriptions`, `Schedules`, and
what surrounds the process: `Deployment` and `ServiceWorker`. All their invariants and
action properties are proved.

Next, extending the model:

1. `AdminMode` composed with `Credentials`, so that `known` is derived and the actions
   of the trusted PC (decisions, revocation) happen between an authorisation and its
   operation.
2. Push: a property for the stale 404 or 410; two browsers.
3. Schedules: the status read in two steps while schedules change; times with fractions
   of different length.
4. `Deployment` composed with `Credentials`: a rollback to the couples of a backup while
   browsers keep the newer ones.

Then, proving more:

1. `Schedules` without `WholeSeconds`: what the queries find of schedules whose times
   have fractions, as a weaker property with the second as its tolerance, once the text
   order of fractions of different length is modelled.
2. `DeviceLifecycle` through `WebClient` and `Enrollment` together, once they are composed.
