------------------------------ MODULE WebFront -------------------------------
(***************************************************************************)
(* What the user sees of the DSH server in one process of the shell: the   *)
(* window with its page, the health announcements, and the theme of both   *)
(* and of the icons.  Composes PageLoad, HealthMonitor and ThemeWatcher    *)
(* over one server and adds what DshDesktopApp does between them.          *)
(***************************************************************************)
EXTENDS PageLoad, HealthMonitor, ThemeWatcher

VARIABLES
  stage,  \* run(): "new", "refreshed", "built", "running"
  logo    \* appliedLogoTheme_, and with it the logos of tray, window and taskbar

frontVars == <<stage, logo>>
vars == <<answer, pageVars, healthVars, themeVars, frontVars>>

TypeOK ==
  /\ answer \in Answers
  /\ PageTypeOK /\ HealthTypeOK /\ ThemeTypeOK
  /\ stage \in {"new", "refreshed", "built", "running"}
  /\ logo \in Schemes

Init ==
  /\ answer \in Answers
  /\ PageInit /\ HealthInit /\ ThemeInit
  /\ stage = "new"
  /\ logo = "light"

ApplyLogoTheme(scheme) == logo' = scheme

\* Defect: only the application's slot is connected.
SchemeChangedLogoOnly ==
  UNCHANGED pageVars /\ ApplyLogoTheme(current')

\* schemeChanged has two slots: the application's and the window's.  The latter
\* repaints the page on Qt 6.7 and later, which is what the model stands for; on an
\* older Qt it does nothing, and SurfacesAgree holds of the logos only.
SchemeChanged ==
  IF current' # current
    THEN ApplyLogoTheme(current') /\ PageThemeChanged(current')
    ELSE UNCHANGED <<pageVars, logo>>

\* The start of run(): refresh(), then applyLogoTheme(current()).  Until the
\* event loop runs, message boxes may keep the user, and the desktop's theme
\* may change unseen.
Refresh ==
  /\ stage = "new" /\ stage' = "refreshed"
  /\ OnTick
  /\ ApplyLogoTheme(current')
  /\ UNCHANGED <<answer, pageVars, healthVars>>

\* The window takes its colours from current(); applyLogoTheme comes later.
BuildWindow ==
  /\ stage = "refreshed" /\ stage' = "built"
  /\ CreateWindow(current)
  /\ ApplyLogoTheme(current)
  /\ UNCHANGED <<answer, healthVars, themeVars>>

\* theme_->start() looks once more; then the health timer.
StartWatching ==
  /\ stage = "built" /\ stage' = "running"
  /\ OnTick
  /\ SchemeChanged
  /\ StartPolling
  /\ UNCHANGED answer

\* The theme timer.  The last guard only keeps the model finite.
ThemeTick ==
  /\ stage = "running"
  /\ Work < MaxWork
  /\ OnTick
  /\ SchemeChanged
  /\ UNCHANGED <<answer, healthVars, stage>>

\* Of the page and of the health poll nothing is heard before the event loop.
PageStep ==
  /\ stage = "running"
  /\ PageSystem \/ PageUser
  /\ UNCHANGED <<answer, healthVars, themeVars, frontVars>>

HealthStep ==
  /\ PollBackendHealth \/ ReplyFinishes \/ ReplyTimesOut
  /\ UNCHANGED <<answer, pageVars, themeVars, frontVars>>

Environment ==
  \/ ServerChanges /\ UNCHANGED <<pageVars, healthVars, themeVars, frontVars>>
  \/ DesktopChanges /\ UNCHANGED <<answer, pageVars, healthVars, frontVars>>

Next ==
  \/ Refresh \/ BuildWindow \/ StartWatching
  \/ ThemeTick \/ PageStep \/ HealthStep \/ Environment

Spec == Init /\ [][Next]_vars

\* The engine ends every load and reports it, timers fire, the health timer
\* goes on, and a poll ends at the latest with its time limit.
Fairness ==
  /\ WF_vars(Refresh \/ BuildWindow \/ StartWatching)
  /\ WF_vars(LoadFinishes /\ PageStep)
  /\ WF_vars(DroppedLoadReported /\ PageStep)
  /\ WF_vars(RetryTimerFires /\ PageStep)
  /\ WF_vars(HealthStep)

FairSpec == Spec /\ Fairness

-----------------------------------------------------------------------------
\* Between two events all surfaces wear the same scheme, the watcher's: the
\* logos, and the page, whose colours are set in the constructor of the window
\* and in its slot (run(), both onThemeChanged).
SurfacesAgree ==
  /\ stage # "new" => logo = current
  /\ shown # "nothing" => paint = current

\* A progress bar is not for ever: whatever the server does, the page or the
\* retry button comes (DshWindow::onApplicationLoadFinished).
StartupEnds == shown = "startup" ~> shown # "startup"

\* The retries of a server that is dead, or comes and goes, are used up: when
\* the user, the page and the theme ask for nothing more, the window comes to
\* rest, with no load and no timer left (onApplicationLoadFinished).
RetriesRunOut == <>[][~(PageUser \/ ThemeTick)]_vars => <>[](Work = 0)

\* What the application takes for the state of the server becomes the truth
\* when the truth stays the same, however the polls before it ended: nobody
\* else corrects it (pollBackendHealth).
HealthSettles ==
  /\ <>[]Healthy => <>[](verdict = "running")
  /\ <>[]~Healthy => <>[](verdict = "stopped")
=============================================================================
