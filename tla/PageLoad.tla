------------------------------ MODULE PageLoad -------------------------------
(***************************************************************************)
(* The window of the shell, DshWindow: the load of the server's page, the  *)
(* retries after a failure with their timers, the retry button, and the    *)
(* reload that a change of the theme causes.                               *)
(*                                                                         *)
(* The retry timers are one-shot timers that nobody cancels, and a load    *)
(* may be started while another is under way; then the engine may report   *)
(* the one it gave up as failed before the new one ends.                   *)
(***************************************************************************)
EXTENDS WebServer, Naturals

CONSTANTS
  MaxRetries,  \* kMaximumRetries
  MaxWork      \* bound: loads, retry timers and reports under way at once

ASSUME RetriesAssumption == MaxRetries \in Nat
\* The start alone may have one load displaced by another.
ASSUME WorkAssumption == MaxWork \in Nat /\ MaxWork >= 2

VARIABLES
  shown,    \* contentStack_: the page, or the startup page with its progress
            \* bar or with its retry button; "nothing": there is no window yet
  retries,  \* applicationLoadRetries_
  timers,   \* retry timers that have not fired
  loading,  \* 1 while the engine loads the page, or 0
  dropped,  \* 1 if the engine will report a load that it gave up, or 0
  at,       \* the URL of the view: "app", the server's origin; "blank", about:blank
  paint     \* ForceDarkMode: the scheme the page is painted in

pageVars == <<shown, retries, timers, loading, dropped, at, paint>>

PageTypeOK ==
  /\ shown \in {"nothing", "startup", "retry", "page"}
  /\ retries \in 0..MaxRetries
  /\ timers \in Nat
  /\ loading \in 0..1 /\ dropped \in 0..1
  /\ at \in {"app", "blank"}
  /\ paint \in {"light", "dark"}

PageInit ==
  /\ shown = "nothing"
  /\ retries = 0
  /\ timers = 0
  /\ loading = 0 /\ dropped = 0
  /\ at = "app"
  /\ paint = "light"

\* What is under way and will end or fire.
Work == timers + loading + dropped

\* A load starts; the engine gives up the one under way and may report that.
StartLoad ==
  /\ loading' = 1
  /\ \/ dropped' = dropped
     \/ loading = 1 /\ dropped' = 1

ShowStartupPage == shown' = "startup"

\* The constructor: the startup page, the colours of the theme, the first load.
CreateWindow(scheme) ==
  /\ shown = "nothing"
  /\ ShowStartupPage
  /\ paint' = scheme
  /\ StartLoad
  /\ UNCHANGED <<retries, timers, at>>

-----------------------------------------------------------------------------
(* onApplicationLoadFinished.                                              *)

LoadSucceeded ==
  /\ retries' = 0
  /\ shown' = "page"
  /\ UNCHANGED timers

\* Defect: the limit is reached without a word to the user.
GiveUpSilently ==
  /\ retries >= MaxRetries
  /\ UNCHANGED <<shown, retries, timers>>

GiveUp ==
  /\ retries >= MaxRetries
  /\ shown' = "retry"
  /\ UNCHANGED <<retries, timers>>

\* Defect: the message and the count, but no timer.
ScheduleRetryUntimed ==
  /\ retries < MaxRetries
  /\ retries' = retries + 1
  /\ ShowStartupPage
  /\ UNCHANGED timers

\* Defect: the retries are not counted.
ScheduleRetryUncounted ==
  /\ retries < MaxRetries
  /\ timers' = timers + 1
  /\ ShowStartupPage
  /\ UNCHANGED retries

ScheduleRetry ==
  /\ retries < MaxRetries
  /\ retries' = retries + 1
  /\ ShowStartupPage
  /\ timers' = timers + 1

\* Defect: the origin of the page is not looked at.
OnLoadFinishedAnywhere(result) ==
  \/ result = "loaded" /\ LoadSucceeded
  \/ result = "failed" /\ (GiveUp \/ ScheduleRetry)

OnLoadFinished(result) ==
  \/ at = "app" /\ result = "loaded" /\ LoadSucceeded
  \/ at = "app" /\ result = "failed" /\ (GiveUp \/ ScheduleRetry)
  \/ at # "app" /\ UNCHANGED <<shown, retries, timers>>

\* The load under way ends.  about:blank needs no server.
LoadFinishes ==
  /\ loading = 1 /\ dropped = 0
  /\ loading' = 0
  /\ IF at = "app" THEN \E result \in LoadResults : OnLoadFinished(result)
                   ELSE OnLoadFinished("loaded")
  /\ UNCHANGED <<dropped, at, paint>>

\* The engine reports the load that a later one has displaced.
DroppedLoadReported ==
  /\ dropped = 1
  /\ dropped' = 0
  /\ OnLoadFinished("failed")
  /\ UNCHANGED <<loading, at, paint>>

\* Defect: the timer is not a one-shot timer.
RetryTimerFiresAgain ==
  /\ timers > 0
  /\ IF at = "app" THEN StartLoad ELSE UNCHANGED <<loading, dropped>>
  /\ UNCHANGED <<shown, retries, timers, at, paint>>

\* The one-shot timer; it reloads only while the view is at the server's page.
RetryTimerFires ==
  /\ timers > 0
  /\ timers' = timers - 1
  /\ IF at = "app" THEN StartLoad ELSE UNCHANGED <<loading, dropped>>
  /\ UNCHANGED <<shown, retries, at, paint>>

-----------------------------------------------------------------------------
(* The user, the page, and the theme.                                      *)

\* The retry button; DshWindow::reload() does the same, but nobody calls it.
RetryApplicationLoad ==
  /\ shown = "retry"
  /\ Work < MaxWork
  /\ retries' = 0
  /\ ShowStartupPage
  /\ at' = "app"
  /\ StartLoad
  /\ UNCHANGED <<timers, paint>>

\* The page goes elsewhere.  Of other origins acceptNavigationRequest lets
\* only about:blank (and blobs of the page) into the window.
PageNavigates ==
  /\ shown = "page"
  /\ Work < MaxWork
  /\ at' \in {"app", "blank"}
  /\ StartLoad
  /\ UNCHANGED <<shown, retries, timers, paint>>

\* DshWindow::onThemeChanged, with a Qt that has ForceDarkMode.
PageThemeChanged(scheme) ==
  /\ IF shown # "nothing" /\ paint # scheme
       THEN paint' = scheme /\ StartLoad
       ELSE UNCHANGED <<paint, loading, dropped>>
  /\ UNCHANGED <<shown, retries, timers, at>>

PageSystem == LoadFinishes \/ DroppedLoadReported \/ RetryTimerFires
PageUser   == RetryApplicationLoad \/ PageNavigates

-----------------------------------------------------------------------------
\* While the startup page shows progress, a load or a timer is under way that
\* will end it.  Nothing else would: the bar has no time limit, and the retry
\* button is hidden while it is shown (showStartupPage, the slot of the load
\* and the timer together).
ProgressMeansWork == shown = "startup" => Work > 0

\* The startup page is only ever shown for the server's own page, so that a
\* timer that fires behind it never finds another URL and gives up.
StartupIsForTheApp == shown # "page" => at = "app"

\* The retries of one failure do not multiply: loads, timers and reports are
\* never more than what the user, the page and the theme have asked for.
WorkIsBounded == Work <= MaxWork
=============================================================================
