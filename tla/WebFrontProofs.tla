--------------------------- MODULE WebFrontProofs ----------------------------
(***************************************************************************)
(* Theorems about WebFront: what the window, the health poll and the theme *)
(* keep true for every limit and every set of desktops.                    *)
(***************************************************************************)
EXTENDS WebFront, TLAPS

-----------------------------------------------------------------------------
(* The page.                                                               *)

PageNumbers ==
  /\ retries \in 0..MaxRetries
  /\ timers \in Nat
  /\ loading \in 0..1 /\ dropped \in 0..1

\* Before the window exists nothing is under way; the first load is the only
\* thing until the event loop runs.
PageAtRest ==
  /\ shown = "nothing" => Work = 0 /\ at = "app"
  /\ shown = "nothing" <=> stage \in {"new", "refreshed"}
  /\ stage = "built" => Work = 1

PageInv ==
  /\ PageNumbers
  /\ at \in {"app", "blank"} /\ shown \in {"nothing", "startup", "retry", "page"}
  /\ stage \in {"new", "refreshed", "built", "running"}
  /\ ProgressMeansWork
  /\ StartupIsForTheApp
  /\ WorkIsBounded
  /\ PageAtRest

LEMMA WorkIsNat == PageNumbers => Work \in Nat
BY DEF PageNumbers, Work

\* A load that starts adds at most one thing to what is under way.
LEMMA StartLoadAddsOne ==
  ASSUME PageNumbers, StartLoad, timers' = timers
  PROVE  /\ loading' \in 0..1 /\ dropped' \in 0..1
         /\ Work' \in Nat /\ Work' >= 1 /\ Work' <= Work + 1
BY DEF PageNumbers, StartLoad, Work

\* The bound when there was room for one more.
LEMMA OneMoreFits ==
  ASSUME Work \in Nat, Work' \in Nat, Work' <= Work + 1, Work < MaxWork
  PROVE  Work' <= MaxWork
BY WorkAssumption

\* The report of a failure or a success turns what is reported into a timer
\* at most.
LEMMA OnLoadFinishedTypes ==
  ASSUME PageNumbers, NEW result, OnLoadFinished(result)
  PROVE  /\ retries' \in 0..MaxRetries
         /\ shown' \in {"startup", "retry", "page", shown}
         /\ timers' \in {timers, timers + 1}
         /\ at = "app" /\ shown' = "startup" => timers' = timers + 1
         /\ shown' # "page" => at = "app" \/ shown' = shown
BY RetriesAssumption DEF PageNumbers, OnLoadFinished, LoadSucceeded, GiveUp,
   ScheduleRetry, ShowStartupPage

\* What a report leaves under way, when what is reported was under way.
LEMMA ReportKeeps ==
  ASSUME PageInv, UNCHANGED <<stage, at>>, stage = "running",
         NEW result, OnLoadFinished(result),
         \/ loading = 1 /\ loading' = 0 /\ dropped' = dropped
         \/ dropped = 1 /\ dropped' = 0 /\ loading' = loading
  PROVE  PageInv'
<1>1. PageNumbers /\ Work \in Nat
  BY WorkIsNat DEF PageInv
<1>2. /\ retries' \in 0..MaxRetries
      /\ shown' \in {"startup", "retry", "page", shown}
      /\ timers' \in {timers, timers + 1}
      /\ at = "app" /\ shown' = "startup" => timers' = timers + 1
      /\ shown' # "page" => at = "app" \/ shown' = shown
  BY <1>1, OnLoadFinishedTypes
<1>3. Work' \in Nat /\ Work' <= Work /\ (timers' = timers + 1 => Work' > 0)
  <2>1. CASE loading = 1 /\ loading' = 0 /\ dropped' = dropped
    <3>1. CASE timers' = timers
      BY <1>1, <2>1, <3>1 DEF PageNumbers, Work
    <3>2. CASE timers' = timers + 1
      BY <1>1, <2>1, <3>2 DEF PageNumbers, Work
    <3> QED
      BY <1>2, <3>1, <3>2
  <2>2. CASE dropped = 1 /\ dropped' = 0 /\ loading' = loading
    <3>1. CASE timers' = timers
      BY <1>1, <2>2, <3>1 DEF PageNumbers, Work
    <3>2. CASE timers' = timers + 1
      BY <1>1, <2>2, <3>2 DEF PageNumbers, Work
    <3> QED
      BY <1>2, <3>1, <3>2
  <2> QED
    BY <2>1, <2>2
<1>4. PageNumbers'
  BY <1>1, <1>2 DEF PageNumbers
<1>5. ProgressMeansWork' /\ StartupIsForTheApp'
  BY <1>2, <1>3 DEF PageInv, ProgressMeansWork, StartupIsForTheApp
<1>6. WorkIsBounded'
  BY <1>1, <1>3, WorkAssumption DEF PageInv, WorkIsBounded
<1>7. PageAtRest' /\ (at \in {"app", "blank"})' /\ (shown \in {"nothing", "startup", "retry", "page"})'
  BY <1>2 DEF PageInv, PageAtRest
<1> QED
  BY <1>4, <1>5, <1>6, <1>7 DEF PageInv

LEMMA LoadFinishesKeeps ==
  ASSUME PageInv, LoadFinishes, UNCHANGED stage, stage = "running"
  PROVE  PageInv'
<1>1. PICK result : OnLoadFinished(result)
  BY DEF LoadFinishes
<1>2. UNCHANGED at /\ loading = 1 /\ loading' = 0 /\ dropped' = dropped
  BY DEF LoadFinishes
<1> QED
  BY <1>1, <1>2, ReportKeeps

LEMMA DroppedLoadReportedKeeps ==
  ASSUME PageInv, DroppedLoadReported, UNCHANGED stage, stage = "running"
  PROVE  PageInv'
<1>1. OnLoadFinished("failed")
  BY DEF DroppedLoadReported
<1>2. UNCHANGED at /\ dropped = 1 /\ dropped' = 0 /\ loading' = loading
  BY DEF DroppedLoadReported
<1> QED
  BY <1>1, <1>2, ReportKeeps

\* Everything of PageInv but the numbers, when the shown page stays as it is
\* or there is work for its progress bar.
LEMMA PageInvFrom ==
  ASSUME PageInv, PageNumbers', Work' \in Nat, Work' <= MaxWork,
         stage' = "running", stage \in {"built", "running"},
         shown' = shown \/ (shown' = "startup" /\ at' = "app"),
         shown' = "startup" => Work' > 0,
         at' = at \/ at' = "app" \/ (at' = "blank" /\ shown' = "page")
  PROVE  PageInv'
<1>1. ProgressMeansWork' /\ WorkIsBounded'
  BY DEF ProgressMeansWork, WorkIsBounded
<1>2. StartupIsForTheApp'
  BY DEF PageInv, StartupIsForTheApp
<1>3. shown # "nothing" /\ shown' # "nothing"
  BY DEF PageInv, PageAtRest
<1>4. PageAtRest'
  BY <1>3 DEF PageAtRest
<1>5. (at \in {"app", "blank"})' /\ (shown \in {"nothing", "startup", "retry", "page"})'
  BY DEF PageInv
<1> QED
  BY <1>1, <1>2, <1>4, <1>5 DEF PageInv

LEMMA RetryTimerFiresKeeps ==
  ASSUME PageInv, RetryTimerFires, UNCHANGED stage, stage = "running"
  PROVE  PageInv'
<1>1. PageNumbers /\ Work \in Nat /\ timers' = timers - 1 /\ timers > 0
      /\ retries' = retries /\ shown' = shown /\ at' = at /\ Work <= MaxWork
  BY WorkIsNat DEF PageInv, RetryTimerFires, WorkIsBounded
<1>2. CASE at = "app"
  <2>1. StartLoad
    BY <1>2 DEF RetryTimerFires
  <2>2. /\ PageNumbers' /\ Work' \in Nat
        /\ Work' <= Work /\ Work' > 0
    BY <1>1, <2>1 DEF PageNumbers, StartLoad, Work
  <2>3. Work' <= MaxWork
    BY <1>1, <2>2, WorkAssumption
  <2> QED
    BY <1>1, <2>2, <2>3, PageInvFrom
<1>3. CASE at # "app"
  <2>1. UNCHANGED <<loading, dropped>> /\ shown = "page"
    BY <1>3 DEF RetryTimerFires, PageInv, StartupIsForTheApp
  <2>2. PageNumbers' /\ Work' \in Nat /\ Work' <= Work
    BY <1>1, <2>1 DEF PageNumbers, Work
  <2>3. Work' <= MaxWork
    BY <1>1, <2>2, WorkAssumption
  <2> QED
    BY <1>1, <2>1, <2>2, <2>3, PageInvFrom
<1> QED
  BY <1>2, <1>3

\* A load that is started while the bound leaves room for it.
LEMMA LoadKeeps ==
  ASSUME PageInv, StartLoad, Work < MaxWork, UNCHANGED timers, retries' \in 0..MaxRetries,
         stage' = "running", stage \in {"built", "running"},
         shown' = shown \/ (shown' = "startup" /\ at' = "app"),
         at' = at \/ at' = "app" \/ (at' = "blank" /\ shown' = "page")
  PROVE  PageInv'
<1>1. PageNumbers /\ Work \in Nat
  BY WorkIsNat DEF PageInv
<1>2. loading' \in 0..1 /\ dropped' \in 0..1 /\ Work' \in Nat /\ Work' >= 1 /\ Work' <= Work + 1
  BY <1>1, StartLoadAddsOne
<1>3. Work' <= MaxWork /\ Work' > 0
  BY <1>1, <1>2, OneMoreFits
<1>4. PageNumbers'
  BY <1>1, <1>2 DEF PageNumbers
<1> QED
  BY <1>2, <1>3, <1>4, PageInvFrom

LEMMA PageUserKeeps ==
  ASSUME PageInv, PageUser, UNCHANGED stage, stage = "running"
  PROVE  PageInv'
<1>1. StartLoad /\ Work < MaxWork /\ UNCHANGED timers
  BY DEF PageUser, RetryApplicationLoad, PageNavigates
<1>2. retries' \in 0..MaxRetries
  BY RetriesAssumption DEF PageUser, RetryApplicationLoad, PageNavigates, PageInv, PageNumbers
<1>3. /\ shown' = shown \/ (shown' = "startup" /\ at' = "app")
      /\ at' = at \/ at' = "app" \/ (at' = "blank" /\ shown' = "page")
  BY DEF PageUser, RetryApplicationLoad, PageNavigates, ShowStartupPage
<1> QED
  BY <1>1, <1>2, <1>3, LoadKeeps

\* The window's slot for the theme, when the bound leaves room for a load.
LEMMA PageThemeChangedKeeps ==
  ASSUME PageInv, NEW scheme, PageThemeChanged(scheme), Work < MaxWork,
         stage' = "running", stage \in {"built", "running"}
  PROVE  PageInv'
<1>1. PageNumbers /\ Work \in Nat /\ shown # "nothing" /\ retries \in 0..MaxRetries
      /\ UNCHANGED <<shown, retries, timers, at>>
  BY WorkIsNat DEF PageInv, PageNumbers, PageAtRest, PageThemeChanged
<1>2. CASE paint # scheme
  <2>1. StartLoad
    BY <1>1, <1>2 DEF PageThemeChanged
  <2> QED
    BY <1>1, <2>1, LoadKeeps
<1>3. CASE paint = scheme
  <2>1. UNCHANGED <<loading, dropped>>
    BY <1>1, <1>3 DEF PageThemeChanged
  <2>2. PageNumbers' /\ Work' = Work
    BY <1>1, <2>1 DEF PageNumbers, Work
  <2>3. (shown' = "startup" => Work' > 0) /\ Work' <= MaxWork
    BY <1>1, <2>2 DEF PageInv, ProgressMeansWork, WorkIsBounded
  <2> QED
    BY <1>1, <2>2, <2>3, PageInvFrom
<1> QED
  BY <1>2, <1>3

LEMMA PageUnchangedKeeps ==
  ASSUME PageInv, UNCHANGED pageVars, UNCHANGED stage
  PROVE  PageInv'
BY DEF PageInv, pageVars, PageNumbers, ProgressMeansWork, StartupIsForTheApp,
   WorkIsBounded, PageAtRest, Work

LEMMA PageStepKeeps ==
  ASSUME PageInv, PageStep
  PROVE  PageInv'
<1>1. UNCHANGED stage /\ stage = "running"
  BY DEF PageStep, frontVars
<1> QED
  BY <1>1, LoadFinishesKeeps, DroppedLoadReportedKeeps, RetryTimerFiresKeeps,
     PageUserKeeps DEF PageStep, PageSystem

LEMMA PageInvInit == Init => PageInv
BY RetriesAssumption, WorkAssumption DEF Init, PageInit, PageInv, PageNumbers,
   ProgressMeansWork, StartupIsForTheApp, WorkIsBounded, PageAtRest, Work

LEMMA PageInvNext == PageInv /\ [Next]_vars => PageInv'
<1> SUFFICES ASSUME PageInv, [Next]_vars PROVE PageInv'
  OBVIOUS
<1>1. CASE Refresh
  BY <1>1 DEF Refresh, pageVars, PageInv, PageNumbers, ProgressMeansWork,
     StartupIsForTheApp, WorkIsBounded, PageAtRest, Work
<1>2. CASE BuildWindow
  <2>1. CreateWindow(current) /\ stage = "refreshed" /\ stage' = "built"
    BY <1>2 DEF BuildWindow
  <2>2. timers = 0 /\ loading = 0 /\ dropped = 0 /\ at = "app"
    BY <2>1 DEF PageInv, PageAtRest, Work, PageNumbers
  <2> QED
    BY <2>1, <2>2, WorkAssumption DEF CreateWindow, StartLoad, ShowStartupPage, PageInv,
       PageNumbers, ProgressMeansWork, StartupIsForTheApp, WorkIsBounded,
       PageAtRest, Work
<1>3. CASE StartWatching
  <2>1. stage = "built" /\ stage' = "running" /\ Work < MaxWork
    BY <1>3, WorkAssumption DEF StartWatching, PageInv, PageAtRest
  <2>2. CASE UNCHANGED pageVars
    BY <2>1, <2>2 DEF pageVars, PageInv, PageNumbers, ProgressMeansWork,
       StartupIsForTheApp, WorkIsBounded, PageAtRest, Work
  <2>3. CASE PageThemeChanged(current')
    BY <2>1, <2>3, PageThemeChangedKeeps
  <2> QED
    BY <1>3, <2>2, <2>3 DEF StartWatching, SchemeChanged
<1>4. CASE ThemeTick
  <2>1. stage = "running" /\ stage' = "running" /\ Work < MaxWork
    BY <1>4 DEF ThemeTick
  <2>2. CASE UNCHANGED pageVars
    BY <2>1, <2>2, PageUnchangedKeeps
  <2>3. CASE PageThemeChanged(current')
    BY <2>1, <2>3, PageThemeChangedKeeps
  <2> QED
    BY <1>4, <2>2, <2>3 DEF ThemeTick, SchemeChanged
<1>5. CASE PageStep
  BY <1>5, PageStepKeeps
<1>6. CASE HealthStep \/ Environment \/ UNCHANGED vars
  <2>1. UNCHANGED pageVars /\ UNCHANGED stage
    BY <1>6 DEF HealthStep, Environment, vars, frontVars
  <2> QED
    BY <2>1, PageUnchangedKeeps
<1> QED
  BY <1>1, <1>2, <1>3, <1>4, <1>5, <1>6 DEF Next

\* The progress bar always has something under way behind it, whatever timers,
\* displaced loads and theme changes come together (DshWindow).
THEOREM ProgressIsReal == Spec => []ProgressMeansWork
<1>1. PageInv => ProgressMeansWork
  BY DEF PageInv
<1> QED
  BY <1>1, PageInvInit, PageInvNext, PTL DEF Spec

\* A timer that fires behind the startup page finds the server's URL.
THEOREM StartupPageIsForTheApp == Spec => []StartupIsForTheApp
<1>1. PageInv => StartupIsForTheApp
  BY DEF PageInv
<1> QED
  BY <1>1, PageInvInit, PageInvNext, PTL DEF Spec

\* Retries never multiply: what is under way is no more than what was asked
\* for (onApplicationLoadFinished arms one timer for one report).
THEOREM RetriesDoNotMultiply == Spec => []WorkIsBounded
<1>1. PageInv => WorkIsBounded
  BY DEF PageInv
<1> QED
  BY <1>1, PageInvInit, PageInvNext, PTL DEF Spec

-----------------------------------------------------------------------------
(* The health poll.                                                        *)

Replies == {"ok", "failed"}

\* A sequence of replies whose last n have failed, and no more than n.
FailedSuffix(s, n) ==
  /\ s \in Seq(Replies) /\ n \in Nat /\ n <= Len(s)
  /\ \A i \in 1..Len(s) : Len(s) - n < i => s[i] = "failed"
  /\ n < Len(s) => s[Len(s) - n] = "ok"

HealthInv ==
  /\ polling \in {"off", "on"} /\ outstanding \in 0..1
  /\ verdict \in Verdicts
  /\ told \in {"nothing", "stopped", "recovered"}
  /\ Len(observed) <= Needed
  /\ FailedSuffix(observed, failures)
  /\ failures = Needed => verdict = "stopped"
  /\ failures = 0 /\ observed # <<>> => verdict = "running"

LEMMA NeededIsPositive == Needed \in Nat /\ Needed >= 1
BY ThresholdAssumption DEF Needed

LEMMA AppendOk ==
  ASSUME NEW s \in Seq(Replies)
  PROVE  FailedSuffix(Append(s, "ok"), 0) /\ Len(Append(s, "ok")) = Len(s) + 1
<1>1. "ok" \in Replies
  BY DEF Replies
<1>2. /\ Append(s, "ok") \in Seq(Replies)
      /\ Len(Append(s, "ok")) = Len(s) + 1
      /\ Append(s, "ok")[Len(s) + 1] = "ok"
      /\ Len(s) \in Nat
  BY <1>1
<1> QED
  BY <1>2 DEF FailedSuffix

LEMMA AppendFailed ==
  ASSUME NEW s, NEW n, FailedSuffix(s, n)
  PROVE  /\ FailedSuffix(Append(s, "failed"), n + 1)
         /\ Len(Append(s, "failed")) = Len(s) + 1
<1> DEFINE t == Append(s, "failed")
<1>1. "failed" \in Replies /\ s \in Seq(Replies) /\ n \in Nat /\ n <= Len(s) /\ Len(s) \in Nat
  BY DEF Replies, FailedSuffix
<1>2. /\ t \in Seq(Replies)
      /\ Len(t) = Len(s) + 1
      /\ t[Len(s) + 1] = "failed"
      /\ \A i \in 1..Len(s) : t[i] = s[i]
  BY <1>1
<1> HIDE DEF t
<1>3. ASSUME NEW i \in 1..Len(t), Len(t) - (n + 1) < i
      PROVE  t[i] = "failed"
  <2>1. CASE i = Len(s) + 1
    BY <1>2, <2>1
  <2>2. CASE i \in 1..Len(s)
    BY <1>1, <1>2, <1>3, <2>2 DEF FailedSuffix
  <2> QED
    BY <1>1, <1>2, <2>1, <2>2
<1>4. n + 1 < Len(t) => t[Len(t) - (n + 1)] = "ok"
  BY <1>1, <1>2 DEF FailedSuffix
<1>5. FailedSuffix(t, n + 1)
  BY <1>1, <1>2, <1>3, <1>4 DEF FailedSuffix
<1> QED
  BY <1>2, <1>5 DEF t

LEMMA TailSuffix ==
  ASSUME NEW s, NEW n, NEW m, FailedSuffix(s, n), s # <<>>,
         m = IF n = Len(s) THEN n - 1 ELSE n
  PROVE  FailedSuffix(Tail(s), m) /\ Len(Tail(s)) = Len(s) - 1
<1> DEFINE t == Tail(s)
<1>1. s \in Seq(Replies) /\ n \in Nat /\ n <= Len(s) /\ Len(s) \in Nat /\ Len(s) >= 1
  BY DEF FailedSuffix
<1>2. /\ t \in Seq(Replies)
      /\ Len(t) = Len(s) - 1
      /\ \A i \in 1..Len(t) : t[i] = s[i + 1]
  BY <1>1
<1> HIDE DEF t
<1>3. m \in Nat /\ m <= Len(t)
  BY <1>1, <1>2
<1>4. ASSUME NEW i \in 1..Len(t), Len(t) - m < i
      PROVE  t[i] = "failed"
  BY <1>1, <1>2, <1>4 DEF FailedSuffix
<1>5. m < Len(t) => t[Len(t) - m] = "ok"
  <2>1. CASE n = Len(s)
    BY <1>1, <1>2, <2>1
  <2>2. CASE n # Len(s)
    <3>1. m = n /\ s[Len(s) - n] = "ok"
      BY <1>1, <2>2 DEF FailedSuffix
    <3>2. m < Len(t) => Len(t) - m \in 1..Len(t) /\ (Len(t) - m) + 1 = Len(s) - n
      BY <1>1, <1>2, <3>1
    <3> QED
      BY <1>2, <3>1, <3>2
  <2> QED
    BY <2>1, <2>2
<1>6. FailedSuffix(t, m)
  BY <1>2, <1>3, <1>4, <1>5 DEF FailedSuffix
<1> QED
  BY <1>2, <1>6 DEF t

\* The window of the last replies after one more, and the count with it.
LEMMA RememberKeeps ==
  ASSUME NEW s, NEW n, FailedSuffix(s, n), Len(s) <= Needed, NEW reply \in Replies,
         NEW t, NEW m,
         t = IF Len(s) < Needed THEN Append(s, reply) ELSE Append(Tail(s), reply),
         m = IF reply = "ok" THEN 0 ELSE IF n < Needed THEN n + 1 ELSE n
  PROVE  FailedSuffix(t, m) /\ Len(t) <= Needed /\ t # <<>>
<1>1. /\ s \in Seq(Replies) /\ n \in Nat /\ n <= Len(s) /\ Len(s) \in Nat
      /\ Needed \in Nat /\ Needed >= 1
  BY NeededIsPositive DEF FailedSuffix
<1>2. CASE Len(s) < Needed
  <2>1. CASE reply = "ok"
    BY <1>1, <1>2, <2>1, AppendOk
  <2>2. CASE reply # "ok"
    <3>1. reply = "failed" /\ t = Append(s, "failed") /\ m = n + 1
      BY <1>1, <1>2, <2>2 DEF Replies
    <3>2. FailedSuffix(t, m) /\ Len(t) = Len(s) + 1
      BY <3>1, AppendFailed
    <3> QED
      BY <1>1, <1>2, <3>2
  <2> QED
    BY <2>1, <2>2
<1>3. CASE ~(Len(s) < Needed)
  <2> DEFINE u == Tail(s)
             k == IF n = Len(s) THEN n - 1 ELSE n
  <2>1. s # <<>> /\ Len(s) = Needed
    BY <1>1, <1>3
  <2>2. FailedSuffix(u, k) /\ Len(u) = Needed - 1 /\ u \in Seq(Replies)
    BY <2>1, TailSuffix DEF FailedSuffix
  <2>3. reply # "ok" => m = k + 1 /\ reply = "failed"
    BY <1>1, <2>1 DEF Replies
  <2>4. t = Append(u, reply)
    BY <1>3
  <2> HIDE DEF u, k
  <2>5. CASE reply = "ok"
    <3>1. t = Append(u, "ok") /\ m = 0
      BY <2>4, <2>5
    <3>2. FailedSuffix(t, m) /\ Len(t) = Len(u) + 1
      BY <2>2, <3>1, AppendOk
    <3>3. Len(t) = Needed
      BY <1>1, <2>2, <3>2
    <3>4. t # <<>>
      BY <2>2, <3>1 DEF Replies
    <3> QED
      BY <1>1, <3>2, <3>3, <3>4
  <2>6. CASE reply # "ok"
    <3>1. t = Append(u, "failed") /\ m = k + 1
      BY <2>3, <2>4, <2>6
    <3>2. FailedSuffix(t, m) /\ Len(t) = Len(u) + 1
      BY <2>2, <3>1, AppendFailed
    <3>3. Len(t) = Needed
      BY <1>1, <2>2, <3>2
    <3>4. t # <<>>
      BY <2>2, <3>1 DEF Replies
    <3> QED
      BY <1>1, <3>2, <3>3, <3>4
  <2> QED
    BY <2>5, <2>6
<1> QED
  BY <1>2, <1>3

LEMMA HealthReplyRemembers ==
  ASSUME HealthInv, NEW reply \in Replies, HealthReply(reply)
  PROVE  /\ FailedSuffix(observed', failures') /\ Len(observed') <= Needed /\ observed' # <<>>
         /\ failures' = IF reply = "ok" THEN 0
                        ELSE IF failures < Needed THEN failures + 1 ELSE failures
<1>1. FailedSuffix(observed, failures) /\ Len(observed) <= Needed
  BY DEF HealthInv
<1>2. observed' = IF Len(observed) < Needed THEN Append(observed, reply)
                  ELSE Append(Tail(observed), reply)
  BY DEF HealthReply, Remember
<1>3. failures' = IF reply = "ok" THEN 0
                  ELSE IF failures < Needed THEN failures + 1 ELSE failures
  BY DEF HealthReply, StableObservation, UnstableObservation, CountFailure, FailuresCap, Replies
<1> QED
  BY <1>1, <1>2, <1>3, RememberKeeps

LEMMA HealthReplyKeeps ==
  ASSUME HealthInv, NEW reply \in Replies, HealthReply(reply)
  PROVE  HealthInv'
<1>1. /\ failures \in Nat /\ failures <= Len(observed) /\ Len(observed) \in Nat
      /\ Len(observed) <= Needed /\ Needed \in Nat /\ Needed >= 1
  BY NeededIsPositive DEF HealthInv, FailedSuffix
<1>3. failures' = IF reply = "ok" THEN 0
                  ELSE IF failures < Needed THEN failures + 1 ELSE failures
  BY HealthReplyRemembers
<1>4. FailedSuffix(observed', failures') /\ Len(observed') <= Needed /\ observed' # <<>>
  BY HealthReplyRemembers
<1>5. CASE reply = "ok"
  <2>1. verdict' = "running" /\ failures' = 0
    BY <1>3, <1>5 DEF HealthReply, StableObservation, UnstableObservation, Conclude
  <2> QED
    BY <1>1, <1>4, <2>1 DEF HealthReply, StableObservation, UnstableObservation, Conclude,
       Announce, HealthInv, Verdicts
<1>6. CASE reply # "ok"
  <2>1. reply = "failed"
    BY <1>6 DEF Replies
  <2>2. failures' # 0
    BY <1>1, <1>3, <2>1
  <2>3. failures' = Needed => verdict' = "stopped"
    BY <1>1, <1>3, <2>1 DEF HealthReply, StableObservation, UnstableObservation, Conclude,
       CountFailure, FailuresCap
  <2> QED
    BY <1>4, <2>1, <2>2, <2>3 DEF HealthReply, StableObservation, UnstableObservation, Conclude,
       Announce, HealthInv, Verdicts
<1> QED
  BY <1>5, <1>6

LEMMA HealthUnchangedKeeps ==
  ASSUME HealthInv, UNCHANGED <<failures, verdict, told, observed>>,
         polling' \in {"off", "on"}, outstanding' \in 0..1
  PROVE  HealthInv'
BY DEF HealthInv, FailedSuffix

LEMMA HealthInvInit == Init => HealthInv
<1> SUFFICES ASSUME Init PROVE HealthInv
  OBVIOUS
<1>1. observed = <<>> /\ observed \in Seq(Replies) /\ failures = 0 /\ Len(observed) = 0
  BY DEF Init, HealthInit
<1>2. FailedSuffix(observed, failures)
  BY <1>1 DEF FailedSuffix
<1> QED
  BY <1>1, <1>2, NeededIsPositive DEF Init, HealthInit, HealthInv, Verdicts

LEMMA HealthInvNext == HealthInv /\ [Next]_vars => HealthInv'
<1> SUFFICES ASSUME HealthInv, [Next]_vars PROVE HealthInv'
  OBVIOUS
<1>1. polling \in {"off", "on"} /\ outstanding \in 0..1
  BY DEF HealthInv
<1>2. CASE Refresh \/ BuildWindow \/ ThemeTick \/ PageStep \/ Environment \/ UNCHANGED vars
  <2>1. UNCHANGED healthVars
    BY <1>2 DEF Refresh, BuildWindow, ThemeTick, PageStep, Environment, vars
  <2> QED
    BY <1>1, <2>1, HealthUnchangedKeeps DEF healthVars
<1>3. CASE StartWatching \/ PollBackendHealth
  BY <1>1, <1>3, HealthUnchangedKeeps DEF StartWatching, StartPolling, PollBackendHealth
<1>4. CASE ReplyFinishes \/ ReplyTimesOut
  <2>1. PICK reply \in Replies : HealthReply(reply)
    BY <1>4 DEF ReplyFinishes, ReplyTimesOut, Replies
  <2> QED
    BY <2>1, HealthReplyKeeps
<1> QED
  BY <1>2, <1>3, <1>4 DEF Next, HealthStep

\* What the count says of the two ends of the window.
LEMMA SuffixReads ==
  ASSUME NEW s, NEW n, FailedSuffix(s, n), Len(s) <= Needed
  PROVE  /\ Len(s) = Needed /\ (\A i \in 1..Needed : s[i] = "failed") <=> n = Needed
         /\ s # <<>> /\ s[Len(s)] = "ok" <=> n = 0 /\ s # <<>>
<1>1. /\ s \in Seq(Replies) /\ Len(s) \in Nat /\ n \in Nat /\ n <= Len(s)
      /\ Needed \in Nat /\ Needed >= 1
  BY NeededIsPositive DEF FailedSuffix
<1>2. \A i \in 1..Len(s) : Len(s) - n < i => s[i] = "failed"
  BY DEF FailedSuffix
<1>3. n < Len(s) => s[Len(s) - n] = "ok"
  BY DEF FailedSuffix
<1>4. ASSUME n = Needed PROVE Len(s) = Needed /\ \A i \in 1..Needed : s[i] = "failed"
  <2>1. Len(s) = Needed
    BY <1>1, <1>4
  <2>2. ASSUME NEW i \in 1..Needed PROVE s[i] = "failed"
    BY <1>1, <1>2, <1>4, <2>1
  <2> QED
    BY <2>1, <2>2
<1>5. ASSUME Len(s) = Needed, \A i \in 1..Needed : s[i] = "failed", n # Needed PROVE FALSE
  <2>1. Len(s) - n \in 1..Needed /\ n < Len(s)
    BY <1>1, <1>5
  <2> QED
    BY <1>3, <1>5, <2>1
<1>6. ASSUME n = 0, s # <<>> PROVE s[Len(s)] = "ok"
  <2>1. Len(s) - n = Len(s) /\ n < Len(s)
    BY <1>1, <1>6
  <2> QED
    BY <1>3, <2>1
<1>7. ASSUME s # <<>>, s[Len(s)] = "ok", n # 0 PROVE FALSE
  <2>1. Len(s) \in 1..Len(s) /\ Len(s) - n < Len(s)
    BY <1>1, <1>7
  <2>2. s[Len(s)] = "failed"
    BY <1>2, <2>1
  <2> QED
    BY <1>7, <2>2
<1> QED
  BY <1>4, <1>5, <1>6, <1>7

\* What the application takes for the state of the server is what its last
\* replies say, for every threshold (pollBackendHealth).
THEOREM VerdictFollowsReplies == Spec => []VerdictIsDebounced
<1>1. HealthInv => VerdictIsDebounced
  BY SuffixReads DEF HealthInv, VerdictIsDebounced, AllFailed, LastOk
<1> QED
  BY <1>1, HealthInvInit, HealthInvNext, PTL DEF Spec

\* A stop is announced after Threshold failures in a row and not before, and
\* a recovery only after a stop (pollBackendHealth).
THEOREM AnnouncementsAreDue == Spec => NoFalseAlarm
<1>1. HealthInv /\ HealthInv' /\ [Next]_vars =>
        [/\ told' = "stopped" /\ told # "stopped" => AllFailed' /\ verdict = "running"
         /\ told' = "recovered" /\ told # "recovered" => LastOk' /\ verdict = "stopped"]_healthVars
  <2> SUFFICES ASSUME HealthInv, HealthInv', [Next]_vars, told' # told
               PROVE  /\ told' = "stopped" => AllFailed' /\ verdict = "running"
                      /\ told' = "recovered" => LastOk' /\ verdict = "stopped"
    BY DEF healthVars
  <2>1. PICK reply \in Replies : HealthReply(reply)
    BY DEF Next, vars, healthVars, Refresh, BuildWindow, StartWatching, StartPolling, ThemeTick,
       PageStep, HealthStep, PollBackendHealth, Environment, ReplyFinishes, ReplyTimesOut, Replies
  <2>2. PICK now \in {"running", "stopped"} :
          StableObservation(reply) /\ Conclude(now) /\ now = IF reply = "ok" THEN "running" ELSE "stopped"
    BY <2>1 DEF HealthReply
  <2>3. \/ told' = "stopped" /\ verdict = "running" /\ verdict' = "stopped" /\ now = "stopped"
        \/ told' = "recovered" /\ verdict = "stopped" /\ verdict' = "running" /\ now = "running"
    BY <2>2 DEF Conclude, Announce
  <2>4. failures' = (IF now = "running" THEN 0 ELSE Needed)
    BY <2>2, NeededIsPositive DEF StableObservation, CountFailure, FailuresCap, HealthInv, FailedSuffix
  <2>5. FailedSuffix(observed', failures') /\ Len(observed') <= Needed /\ observed' # <<>>
    BY <2>1, HealthReplyRemembers
  <2>6. now = "stopped" => AllFailed'
    BY <2>4, <2>5, SuffixReads DEF AllFailed
  <2>7. now = "running" => LastOk'
    BY <2>4, <2>5, SuffixReads DEF LastOk
  <2> QED
    BY <2>3, <2>6, <2>7
<1> QED
  BY <1>1, HealthInvInit, HealthInvNext, PTL DEF Spec, NoFalseAlarm

-----------------------------------------------------------------------------
(* The theme, and the types.                                               *)

LEMMA SurfacesAgreeNext ==
  PageInv /\ SurfacesAgree /\ [Next]_vars => SurfacesAgree'
<1> SUFFICES ASSUME PageInv, SurfacesAgree, [Next]_vars PROVE SurfacesAgree'
  OBVIOUS
<1>1. CASE Refresh
  <2>1. shown' = "nothing"
    BY <1>1 DEF Refresh, PageInv, PageAtRest, pageVars
  <2> QED
    BY <1>1, <2>1 DEF Refresh, ApplyLogoTheme, SurfacesAgree
<1>2. CASE BuildWindow
  BY <1>2 DEF BuildWindow, CreateWindow, ApplyLogoTheme, SurfacesAgree, themeVars
<1>3. CASE StartWatching \/ ThemeTick
  <2>1. SchemeChanged /\ stage # "new"
    BY <1>3 DEF StartWatching, ThemeTick
  <2>2. CASE current' = current
    BY <2>1, <2>2 DEF SchemeChanged, SurfacesAgree, pageVars
  <2>3. CASE current' # current
    BY <2>1, <2>3 DEF SchemeChanged, ApplyLogoTheme, PageThemeChanged, SurfacesAgree
  <2> QED
    BY <2>2, <2>3
<1>4. CASE PageStep
  <2>1. UNCHANGED <<logo, current, stage, paint>> /\ stage = "running"
    BY <1>4 DEF PageStep, frontVars, themeVars, PageSystem, PageUser, LoadFinishes,
       DroppedLoadReported, RetryTimerFires, RetryApplicationLoad, PageNavigates
  <2>2. shown # "nothing"
    BY <2>1 DEF PageInv, PageAtRest
  <2> QED
    BY <2>1, <2>2 DEF SurfacesAgree
<1>5. CASE HealthStep \/ Environment \/ UNCHANGED vars
  BY <1>5 DEF HealthStep, Environment, DesktopChanges, vars, frontVars, themeVars, pageVars, SurfacesAgree
<1> QED
  BY <1>1, <1>2, <1>3, <1>4, <1>5 DEF Next

LEMMA SurfacesAgreeInit == Init => SurfacesAgree
BY DEF Init, PageInit, SurfacesAgree

\* The page, the window, the tray and the task bar wear one scheme, the one
\* of the watcher, whenever no slot is running (run(), both onThemeChanged).
THEOREM OneSchemeOnAllSurfaces == Spec => []SurfacesAgree
<1> QED
  BY PageInvInit, PageInvNext, SurfacesAgreeInit, SurfacesAgreeNext, PTL DEF Spec

\* What the page and the health poll leave to be typed.
RestTypes ==
  /\ answer \in Answers
  /\ ThemeTypeOK
  /\ paint \in Schemes /\ logo \in Schemes

LEMMA ProbeIsScheme ==
  ASSUME ThemeTypeOK
  PROVE  Probe \in Schemes
<1>1. \A source \in Sources : says[source] \in Schemes \cup {"none"}
  BY DesktopsAssumption DEF ThemeTypeOK, Says
<1>2. ReadKdeConfig \in Schemes \cup {"none"}
  BY <1>1 DEF ReadKdeConfig, DetectKdeTheme, Sources
<1> QED
  BY <1>1, <1>2 DEF Probe, ThemeTypeOK, Sources

LEMMA RestTypesNext == RestTypes /\ [Next]_vars => RestTypes'
<1> SUFFICES ASSUME RestTypes, [Next]_vars PROVE RestTypes'
  OBVIOUS
<1>1. Probe \in Schemes /\ current \in Schemes
  BY ProbeIsScheme DEF RestTypes, ThemeTypeOK
<1>2. CASE Refresh
  BY <1>1, <1>2 DEF Refresh, OnTick, ApplyLogoTheme, RestTypes, ThemeTypeOK, pageVars
<1>3. CASE BuildWindow
  BY <1>1, <1>3 DEF BuildWindow, CreateWindow, ApplyLogoTheme, RestTypes, ThemeTypeOK, themeVars
<1>4. CASE StartWatching \/ ThemeTick
  BY <1>1, <1>4 DEF StartWatching, ThemeTick, OnTick, SchemeChanged, PageThemeChanged,
     ApplyLogoTheme, RestTypes, ThemeTypeOK, pageVars
<1>5. CASE PageStep
  BY <1>5 DEF PageStep, frontVars, themeVars, PageSystem, PageUser, LoadFinishes,
     DroppedLoadReported, RetryTimerFires, RetryApplicationLoad, PageNavigates,
     RestTypes, ThemeTypeOK
<1>6. CASE HealthStep \/ UNCHANGED vars
  BY <1>6 DEF HealthStep, vars, frontVars, themeVars, pageVars, RestTypes, ThemeTypeOK
<1>7. CASE Environment
  BY <1>7 DEF Environment, ServerChanges, DesktopChanges, frontVars, themeVars, pageVars,
     RestTypes, ThemeTypeOK
<1> QED
  BY <1>2, <1>3, <1>4, <1>5, <1>6, <1>7 DEF Next

LEMMA RestTypesInit == Init => RestTypes
BY DEF Init, PageInit, ThemeInit, RestTypes, ThemeTypeOK, Schemes

LEMMA InvTypes == PageInv /\ HealthInv /\ RestTypes => TypeOK
<1> SUFFICES ASSUME PageInv, HealthInv, RestTypes PROVE TypeOK
  OBVIOUS
<1>1. PageTypeOK
  BY DEF PageInv, PageNumbers, PageTypeOK, RestTypes, Schemes
<1>2. failures \in 0..FailuresCap
  BY NeededIsPositive DEF HealthInv, FailedSuffix, FailuresCap
<1>3. HealthTypeOK
  BY <1>2 DEF HealthInv, HealthTypeOK, FailedSuffix, Replies
<1> QED
  BY <1>1, <1>3 DEF PageInv, RestTypes, TypeOK

\* Every variable of the front keeps its type.
THEOREM FrontTypeCorrect == Spec => []TypeOK
<1> QED
  BY PageInvInit, PageInvNext, HealthInvInit, HealthInvNext, RestTypesInit, RestTypesNext,
     InvTypes, PTL DEF Spec
=============================================================================
