----------------------------- MODULE ServiceWorker -----------------------------
(***************************************************************************)
(* One browser that opens the dashboard: its page, the cache of the        *)
(* service worker (sw.js) and the browser's own HTTP cache, while the      *)
(* server is stopped and started with one build or another.                *)
(*                                                                         *)
(* Any request of the browser may fail, whatever serves: a tablet wakes up *)
(* before its Wi-Fi does.  A stopped server is behind a reverse proxy that *)
(* runs on: the request is then answered, with an error (502), and fetch   *)
(* does not fail.                                                          *)
(*                                                                         *)
(* The page "/" of a build names that build's script, an asset whose name  *)
(* has a hash of its content.  spaHandler answers a name it does not have  *)
(* with "/", status 200, and marks everything under assets/ as immutable   *)
(* for a year.  sw.js is the same file in every build, so that the worker  *)
(* is installed once.  Manifest, icons and messages are left out, and      *)
(* /api/, which the worker does not touch.                                 *)
(***************************************************************************)
EXTENDS Naturals

CONSTANT Build   \* the builds that may serve
CONSTANT Down    \* no build does

ASSUME DownAssumption == Down \notin Build

VARIABLES
  server,   \* the build that serves, or Down
  worker,   \* the worker: is it active, the build of its "/", its copies of scripts
  http,     \* http[b]: what the HTTP cache has under the name of the script of b
  page      \* the page of the browser

vars == <<server, worker, http, page>>

-----------------------------------------------------------------------------
\* What a cache has, and what a request is answered, under the name of a script:
\* the script, the page "/" in its place, the proxy's error, or nothing.
Kept == {"script", "html", "error", "nothing"}

\* A page: the build of its "/", whether the worker controls it, and the build that
\* answered the navigation, Down if none did.
Page == [at : {"loading", "shown", "blank"}, of : Build, controlled : BOOLEAN,
         from : Build \cup {Down}]
Closed == [at |-> "closed"]   \* no page, or an error of the browser's or the proxy's

NoCopies == [b \in Build |-> "nothing"]
NoWorker == [active |-> FALSE, shell |-> Down, copy |-> NoCopies]

Init ==
  /\ server \in Build
  /\ worker = NoWorker
  /\ http = NoCopies
  /\ page = Closed

-----------------------------------------------------------------------------
\* The server is stopped, and started with any build (Deployment says how).
Exchange(s) ==
  /\ server' = s
  /\ server = Down \/ s = Down
  /\ server # s
  /\ UNCHANGED <<worker, http, page>>

Open(b, reached) ==
  page' = [at |-> "loading", of |-> b, controlled |-> worker.active,
           from |-> IF reached THEN server ELSE Down]

\* Mutant: the cache is asked first.
FromCacheFirst(reached) ==
  IF worker.active THEN worker.shell ELSE IF reached THEN server ELSE Down

\* A navigation: the answer of the network, also the proxy's error, and the copy of
\* "/" if there is none.
Answer(reached) ==
  IF reached THEN server ELSE IF worker.active THEN worker.shell ELSE Down

\* Mutant: a page that arrives replaces the copy of "/".
ShellRefreshed ==
  worker' = IF worker.active /\ server # Down THEN [worker EXCEPT !.shell = server] ELSE worker

\* The copy of "/" stays the one of the installation.
ShellKept == UNCHANGED worker

Navigate(reached) ==
  /\ page.at # "loading"
  /\ IF Answer(reached) = Down THEN page' = Closed ELSE Open(Answer(reached), reached)
  /\ ShellKept
  /\ UNCHANGED <<server, http>>

\* The page is closed or left before it is there.
Close ==
  /\ page # Closed
  /\ page' = Closed
  /\ UNCHANGED <<server, worker, http>>

\* What answers a request for the script of build b that arrives: spaHandler, or the
\* proxy in front of a stopped server.
Served(b) == IF server = Down THEN "error" ELSE IF server = b THEN "script" ELSE "html"

\* fetch: what the HTTP cache has is fresh for a year, and no request is made.
Fetched(b, reached) ==
  IF http[b] # "nothing" THEN http[b] ELSE IF reached THEN Served(b) ELSE "nothing"

\* The page asks for its script.  The worker puts every answer in its cache, whatever
\* its status, and if there is no answer falls back to its copy, or to "/" without
\* one.  It does not wait for the cache, so that the copy may be lost.  The HTTP cache
\* keeps no 502.  What is not the script does not run.
LoadScript(reached, copied) ==
  LET b == page.of
      fetched == Fetched(b, reached)
      fallback == IF worker.copy[b] # "nothing" THEN worker.copy[b] ELSE "html"
      answer == IF fetched = "nothing" /\ page.controlled THEN fallback ELSE fetched IN
  /\ page.at = "loading"
  /\ page' = [page EXCEPT !.at = IF answer = "script" THEN "shown" ELSE "blank"]
  /\ http' = [http EXCEPT ![b] = IF fetched = "error" THEN "nothing" ELSE fetched]
  /\ worker' = IF page.controlled /\ fetched # "nothing" /\ copied
               THEN [worker EXCEPT !.copy[b] = fetched] ELSE worker
  /\ UNCHANGED server

\* Mutant: the worker is active although its copies could not be fetched.
InstallAnyway ==
  /\ page.at = "shown" /\ ~worker.active
  /\ worker' = [worker EXCEPT !.active = TRUE, !.shell = server]
  /\ page' = [page EXCEPT !.controlled = TRUE]
  /\ UNCHANGED <<server, http>>

\* main.tsx registers the worker when its page has loaded; install fetches "/", which
\* fails on the proxy's error as on no answer, and activate claims the page.  It is
\* tried with every page until it succeeds.
Install ==
  /\ page.at = "shown" /\ ~worker.active /\ server # Down
  /\ worker' = [worker EXCEPT !.active = TRUE, !.shell = server]
  /\ page' = [page EXCEPT !.controlled = TRUE]
  /\ UNCHANGED <<server, http>>

\* The browser makes room in its HTTP cache.
Evict(b) ==
  /\ http[b] # "nothing"
  /\ http' = [http EXCEPT ![b] = "nothing"]
  /\ UNCHANGED <<server, worker, page>>

Next ==
  \/ \E s \in Build \cup {Down} : Exchange(s)
  \/ Close \/ Install
  \/ \E reached \in BOOLEAN : Navigate(reached)
  \/ \E reached, copied \in BOOLEAN : LoadScript(reached, copied)
  \/ \E b \in Build : Evict(b)

Spec == Init /\ [][Next]_vars

-----------------------------------------------------------------------------
\* The caches hold what they can hold; an active worker has a copy of "/".
WorkerTypeOK ==
  /\ server \in Build \cup {Down}
  /\ http \in [Build -> Kept \ {"error"}]
  /\ worker \in [active : BOOLEAN, shell : Build \cup {Down}, copy : [Build -> Kept]]
  /\ worker.active <=> worker.shell # Down
  /\ page \in Page \cup {Closed}

\* The load of a page ends.
Loads == page.at = "loading" /\ page'.at \in {"shown", "blank"}

\* Whose navigation and whose request for the script are answered by one build works
\* with that build, whatever older one the worker has kept (sw.js:28-33), unless the
\* HTTP cache keeps a page under the name of its script.
BothAnswered(copied) ==
  LoadScript(TRUE, copied) /\ server \in Build /\ page.from = server =>
    page.of = server /\ (page'.at = "shown" \/ http[server] = "html")

\* It comes to keep one (http.go:19-24) only while a page of that very build loads and
\* another build serves: a page whose navigation failed, so that the worker gave its
\* old copy, or during whose load the server was exchanged.
TakesPage(b) ==
  http[b] # "html" /\ http'[b] = "html" =>
    /\ Loads /\ page.of = b /\ server \in Build \ {b}
    /\ page.from = Down \/ page.from = b

OnlineIsCurrent ==
  [][/\ \A copied \in BOOLEAN : BothAnswered(copied)
     /\ \A b \in Build : TakesPage(b)]_vars

\* A browser that can show the dashboard without the server.
WorksOffline == worker.active /\ worker.copy[worker.shell] = "script"

\* It can for good, whatever is served since then, unless a page of the build that the
\* worker has kept loads while that build does not serve (another build answers with
\* "/", or the proxy with an error) or the HTTP cache has a page for its script: that
\* answer replaces the good copy (sw.js:37-40).
OfflineForGood ==
  [][WorksOffline /\ ~WorksOffline' =>
       /\ Loads /\ page.of = worker.shell
       /\ server # worker.shell \/ http[worker.shell] = "html"]_vars

==============================================================================
