-------------------------- MODULE ServiceWorkerProofs --------------------------
(***************************************************************************)
(* Proofs about ServiceWorker, for any builds.                             *)
(***************************************************************************)
EXTENDS ServiceWorker, TLAPS

\* A page is of the build that answered its navigation, or comes out of the worker's
\* cache because nothing answered.
PageOfServer == page # Closed => page.from = Down \/ page.of = page.from

Inv == WorkerTypeOK /\ PageOfServer

-----------------------------------------------------------------------------
\* A fetch for a script brings a page only if the HTTP cache has one already or another
\* build serves; it brings the script if it arrives where the script is and the HTTP
\* cache has no page; and what is fetched from a serving build is no error.
LEMMA FetchedRight ==
  ASSUME NEW b \in Build, NEW reached \in BOOLEAN, WorkerTypeOK
  PROVE  /\ Fetched(b, reached) \in Kept
         /\ Fetched(b, reached) = "html" => http[b] = "html" \/ server \in Build \ {b}
         /\ Fetched(b, reached) = "error" => http[b] = "nothing" /\ server = Down
         /\ server = b /\ http[b] # "html" => Fetched(b, TRUE) = "script"
  BY DownAssumption DEF WorkerTypeOK, Fetched, Served, Kept

\* A page is a record, and one that loads is not closed.
LEMMA LoadingPage ==
  ASSUME WorkerTypeOK, page.at = "loading"
  PROVE  page \in Page /\ page # Closed
  BY DEF WorkerTypeOK, Page, Closed

-----------------------------------------------------------------------------
LEMMA InitInv == Init => Inv
  BY DownAssumption
  DEF Init, Inv, WorkerTypeOK, PageOfServer, NoWorker, NoCopies, Kept, Page, Closed

LEMMA NavigateInv == ASSUME Inv, NEW reached \in BOOLEAN, Navigate(reached) PROVE Inv'
  <1>1. /\ server' = server /\ http' = http /\ worker' = worker
    BY DEF Navigate, ShellKept
  <1>2. CASE Answer(reached) = Down
    <2>1. page' = Closed  BY <1>2 DEF Navigate
    <2> QED  BY <1>1, <2>1 DEF Inv, WorkerTypeOK, PageOfServer
  <1>3. CASE Answer(reached) # Down
    <2>1. page' = [at |-> "loading", of |-> Answer(reached), controlled |-> worker.active,
                   from |-> IF reached THEN server ELSE Down]
      BY <1>3 DEF Navigate, Open
    <2>2. Answer(reached) \in Build /\ (~reached \/ Answer(reached) = server)
      BY <1>3, DownAssumption DEF Inv, WorkerTypeOK, Answer
    <2>3. page' \in Page  BY <2>1, <2>2 DEF Page, Inv, WorkerTypeOK
    <2>4. PageOfServer'  BY <2>1, <2>2 DEF PageOfServer
    <2> QED  BY <1>1, <2>3, <2>4 DEF Inv, WorkerTypeOK
  <1> QED  BY <1>2, <1>3

LEMMA LoadScriptInv ==
  ASSUME Inv, NEW reached \in BOOLEAN, NEW copied \in BOOLEAN, LoadScript(reached, copied)
  PROVE  Inv'
  <1> DEFINE f == Fetched(page.of, reached)
  <1>1. page \in Page /\ page # Closed
    BY LoadingPage DEF Inv, LoadScript
  <1>2. page.of \in Build  BY <1>1 DEF Page
  <1>3. f \in Kept  BY <1>2, FetchedRight DEF Inv
  <1>4. server' = server  BY DEF LoadScript
  <1>5. http' = [http EXCEPT ![page.of] = IF f = "error" THEN "nothing" ELSE f]
    BY DEF LoadScript
  <1>6. http' \in [Build -> Kept \ {"error"}]
    BY <1>2, <1>3, <1>5 DEF Inv, WorkerTypeOK, Kept
  <1>7. \/ worker' = worker
        \/ worker' = [worker EXCEPT !.copy[page.of] = f]
    BY DEF LoadScript
  <1>8. /\ worker' \in [active : BOOLEAN, shell : Build \cup {Down}, copy : [Build -> Kept]]
        /\ worker'.active <=> worker'.shell # Down
    BY <1>2, <1>3, <1>7 DEF Inv, WorkerTypeOK
  <1>9. \E at \in {"shown", "blank"} : page' = [page EXCEPT !.at = at]
    BY DEF LoadScript
  <1>10. page' \in Page /\ PageOfServer'
    BY <1>1, <1>9 DEF Page, Inv, PageOfServer
  <1> QED  BY <1>4, <1>6, <1>8, <1>10 DEF Inv, WorkerTypeOK

LEMMA InstallInv == ASSUME Inv, Install PROVE Inv'
  <1>1. page \in Page /\ page # Closed
    BY DEF Install, Inv, WorkerTypeOK, Closed
  <1>2. page' \in Page /\ PageOfServer'
    BY <1>1 DEF Install, Page, Inv, PageOfServer
  <1>3. /\ worker' \in [active : BOOLEAN, shell : Build \cup {Down}, copy : [Build -> Kept]]
        /\ worker'.active <=> worker'.shell # Down
    BY DEF Install, Inv, WorkerTypeOK
  <1> QED  BY <1>2, <1>3 DEF Install, Inv, WorkerTypeOK

LEMMA StepInv == Inv /\ [Next]_vars => Inv'
  <1> SUFFICES ASSUME Inv, [Next]_vars PROVE Inv'
    OBVIOUS
  <1>1. CASE \E s \in Build \cup {Down} : Exchange(s)
    BY <1>1 DEF Exchange, Inv, WorkerTypeOK, PageOfServer
  <1>2. CASE \E reached \in BOOLEAN : Navigate(reached)  BY <1>2, NavigateInv
  <1>3. CASE Close
    BY <1>3 DEF Close, Inv, WorkerTypeOK, PageOfServer
  <1>4. CASE Install  BY <1>4, InstallInv
  <1>5. CASE \E reached, copied \in BOOLEAN : LoadScript(reached, copied)
    BY <1>5, LoadScriptInv
  <1>6. CASE \E b \in Build : Evict(b)
    BY <1>6 DEF Evict, Inv, WorkerTypeOK, PageOfServer, Kept
  <1>7. CASE UNCHANGED vars
    BY <1>7 DEF vars, Inv, WorkerTypeOK, PageOfServer
  <1> QED  BY <1>1, <1>2, <1>3, <1>4, <1>5, <1>6, <1>7 DEF Next

\* The caches and the page stay well formed, and a page whose navigation was answered
\* is of the build that answered it.
THEOREM Invariance == Spec => []Inv
  BY InitInv, StepInv, PTL DEF Spec

\* The caches hold what they can hold; an active worker has a copy of "/".
THEOREM TypeCorrect == Spec => []WorkerTypeOK
  <1>1. Inv => WorkerTypeOK  BY DEF Inv
  <1> QED  BY <1>1, Invariance, PTL

-----------------------------------------------------------------------------
\* What a load whose requests are both answered by one build comes to.
LEMMA BothAnsweredStep ==
  ASSUME Inv, NEW copied \in BOOLEAN PROVE BothAnswered(copied)
  <1> SUFFICES ASSUME LoadScript(TRUE, copied), server \in Build, page.from = server
               PROVE  page.of = server /\ (page'.at = "shown" \/ http[server] = "html")
    BY DEF BothAnswered
  <1>1. page \in Page /\ page # Closed  BY LoadingPage DEF Inv, LoadScript
  <1>2. page.of = server  BY <1>1, DownAssumption DEF Inv, PageOfServer
  <1>3. CASE http[server] # "html"
    <2>1. Fetched(page.of, TRUE) = "script"  BY <1>2, <1>3, FetchedRight DEF Inv
    <2>2. page' = [page EXCEPT !.at = "shown"]  BY <2>1 DEF LoadScript
    <2> QED  BY <1>1, <1>2, <2>2 DEF Page
  <1> QED  BY <1>2, <1>3

\* Only the end of a load puts a page into the HTTP cache.
LEMMA TakesPageStep ==
  ASSUME Inv, [Next]_vars, NEW b \in Build PROVE TakesPage(b)
  <1> SUFFICES ASSUME http[b] # "html", http'[b] = "html"
               PROVE  /\ Loads /\ page.of = b /\ server \in Build \ {b}
                      /\ page.from = Down \/ page.from = b
    BY DEF TakesPage
  <1>1. http' # http  OBVIOUS
  <1>2. CASE \E c \in Build : Evict(c)
    BY <1>2 DEF Evict, Inv, WorkerTypeOK
  <1>3. CASE \E reached, copied \in BOOLEAN : LoadScript(reached, copied)
    <2>1. PICK reached, copied \in BOOLEAN : LoadScript(reached, copied)  BY <1>3
    <2> DEFINE f == Fetched(page.of, reached)
    <2>2. page \in Page /\ page # Closed  BY <2>1, LoadingPage DEF Inv, LoadScript
    <2>3. page.of \in Build  BY <2>2 DEF Page
    <2>4. http' = [http EXCEPT ![page.of] = IF f = "error" THEN "nothing" ELSE f]
      BY <2>1 DEF LoadScript
    <2>5. page.of = b /\ f = "html"  BY <2>3, <2>4 DEF Inv, WorkerTypeOK
    <2>6. server \in Build \ {b}  BY <2>3, <2>5, FetchedRight DEF Inv
    <2>7. page.at = "loading" /\ \E at \in {"shown", "blank"} : page' = [page EXCEPT !.at = at]
      BY <2>1 DEF LoadScript
    <2>8. Loads  BY <2>2, <2>7 DEF Loads, Page
    <2> QED  BY <2>2, <2>5, <2>6, <2>8 DEF Inv, PageOfServer
  <1> QED
    BY <1>1, <1>2, <1>3 DEF Next, vars, Exchange, Navigate, Close, Install

\* Whose navigation and request for the script one build answers works with that build,
\* and the HTTP cache takes a page for a script only of a build that does not serve.
THEOREM CurrentOnline == Spec => OnlineIsCurrent
  <1>1. Inv /\ [Next]_vars => [/\ \A copied \in BOOLEAN : BothAnswered(copied)
                              /\ \A b \in Build : TakesPage(b)]_vars
    BY BothAnsweredStep, TakesPageStep
  <1> QED  BY <1>1, Invariance, PTL DEF Spec, OnlineIsCurrent

-----------------------------------------------------------------------------
LEMMA OfflineStep ==
  ASSUME Inv, [Next]_vars, WorksOffline, ~WorksOffline'
  PROVE  /\ Loads /\ page.of = worker.shell
         /\ server # worker.shell \/ http[worker.shell] = "html"
  <1>1. worker' # worker  BY DEF WorksOffline
  <1>2. \E reached, copied \in BOOLEAN : LoadScript(reached, copied)
    BY <1>1 DEF Next, vars, Exchange, Navigate, ShellKept, Close, Install, Evict, WorksOffline
  <1>3. PICK reached, copied \in BOOLEAN : LoadScript(reached, copied)  BY <1>2
  <1> DEFINE f == Fetched(page.of, reached)
  <1>4. page \in Page /\ page.of \in Build
    BY <1>3, LoadingPage DEF Inv, LoadScript, Page
  <1>5. Loads
    <2>1. \E at \in {"shown", "blank"} : page' = [page EXCEPT !.at = at]
      BY <1>3 DEF LoadScript
    <2> QED  BY <1>3, <1>4, <2>1 DEF Loads, LoadScript, Page
  <1>6. f # "nothing" /\ worker' = [worker EXCEPT !.copy[page.of] = f]
    BY <1>1, <1>3 DEF LoadScript
  <1>7. worker.shell \in Build  BY DEF Inv, WorkerTypeOK, WorksOffline
  <1>8. page.of = worker.shell /\ f # "script"
    BY <1>4, <1>6, <1>7 DEF Inv, WorkerTypeOK, WorksOffline
  <1>9. f = "html" \/ f = "error"
    BY <1>4, <1>6, <1>8, FetchedRight DEF Inv, Kept
  <1>10. server # worker.shell \/ http[worker.shell] = "html"
    BY <1>4, <1>8, <1>9, FetchedRight, DownAssumption DEF Inv
  <1> QED  BY <1>5, <1>8, <1>10

\* A browser that can show the dashboard without the server can do so for good, unless
\* a page of that build loads while the build does not serve.
THEOREM OfflineKept == Spec => OfflineForGood
  <1>1. Inv /\ [Next]_vars =>
          [WorksOffline /\ ~WorksOffline' =>
             /\ Loads /\ page.of = worker.shell
             /\ server # worker.shell \/ http[worker.shell] = "html"]_vars
    BY OfflineStep
  <1> QED  BY <1>1, Invariance, PTL DEF Spec, OfflineForGood

=============================================================================
