----------------------------- MODULE UpdateFlow ------------------------------
(***************************************************************************)
(* The update of the backend and of the desktop, from the check to the     *)
(* hand-over to the self-update helper: DshDesktopApp::onCheckUpdates and  *)
(* finishUpdateCheck, UpdateDialog, Updater and DesktopReleaseDownloader.  *)
(*                                                                         *)
(* A dialog is modal, but the tray is not: while one is open, another      *)
(* check may open a second one over it, and only the top one hears the     *)
(* user.  Dialog d is the d-th from below.                                 *)
(***************************************************************************)
EXTENDS UpdatePlan

CONSTANTS
  MaxDialogs,  \* bound on the dialogs that are open at once
  Installed,   \* the versions of the backend at first; Unknown: none
  Registry,    \* the answers of the npm registry; Unknown: none
  Responses    \* the answers of Gitee

ASSUME FlowAssumption ==
  /\ MaxDialogs \in Nat \ {0}
  /\ Installed \subseteq Version /\ Registry \subseteq Version
  /\ Responses \subseteq {r \in Response : r.http # 1}

Dialogs    == 1..MaxDialogs
Components == {"Backend", "Desktop"}
Known      == Installed \cup Registry \cup {Unknown}

NoAsset == [format |-> "other", arch |-> "none", kind |-> "auxiliary",
            site |-> "elsewhere", name |-> "unsafe"]

VARIABLES
  app,              \* "running" or "gone"
  timer,            \* the check 60 seconds after the start: "armed", "fired"
  updateCheckInProgress,  \* 0 or 1
  worker,           \* the thread of a check: "idle", "silent", "manual"
  heard,            \* what it has read and posted; Nothing before
  updateAvailable,  \* the entry of the tray
  depth,            \* the dialogs that are open
  target, release,  \* per dialog: what its plan offers
  pending,          \* pending_
  updateInProgress, \* "no" or "yes"
  backendRunning,   \* "no" or "yes"
  button,           \* the update button: "on" or "off"
  npm,              \* the thread of the Updater: "none", "running", "ok",
                    \* "failed"; the last two are the signal under way
  net,              \* the asset that is downloaded, NoAsset without one
  installed,        \* the backend that is installed
  orphans,          \* versions that an abandoned npm still installs
  ticked,           \* history: the boxes at the last press
  result,           \* history: "none", "failed", "done" since the last press
  writer            \* history: who installed last: 0 nobody, d, or an orphan

dialogVars == <<depth, target, release, pending, updateInProgress,
                backendRunning, button, npm, net, ticked, result>>
checkVars  == <<timer, updateCheckInProgress, worker, heard, updateAvailable>>
systemVars == <<installed, orphans, writer>>
vars == <<app, checkVars, dialogVars, systemVars>>

NotYet  == [http |-> 1, body |-> "empty", releases |-> <<>>]
Nothing == [current |-> Unknown, latest |-> Unknown, response |-> NotYet]
Heard   == {Nothing} \cup
           [current : Known, latest : Registry, response : Responses]
Orphan  == MaxDialogs + 1

Offered(d) == (IF target[d] # Unknown THEN {"Backend"} ELSE {})
                \cup (IF release[d] # NoRelease THEN {"Desktop"} ELSE {})

Init ==
  /\ app = "running" /\ timer = "armed"
  /\ updateCheckInProgress = 0 /\ worker = "idle" /\ heard = Nothing
  /\ updateAvailable = "no"
  /\ depth = 0
  /\ target = [d \in Dialogs |-> Unknown]
  /\ release = [d \in Dialogs |-> NoRelease]
  /\ pending = [d \in Dialogs |-> {}]
  /\ updateInProgress = [d \in Dialogs |-> "no"]
  /\ backendRunning = [d \in Dialogs |-> "no"]
  /\ button = [d \in Dialogs |-> "off"]
  /\ npm = [d \in Dialogs |-> "none"]
  /\ net = [d \in Dialogs |-> NoAsset]
  /\ ticked = [d \in Dialogs |-> {}]
  /\ result = [d \in Dialogs |-> "none"]
  /\ installed \in Installed /\ orphans = {} /\ writer = 0

-----------------------------------------------------------------------------
(* The check.                                                              *)

\* Defect: no check is refused.
OnCheckUpdatesAlways(mode) ==
  updateCheckInProgress' = updateCheckInProgress + 1 /\ worker' = mode

OnCheckUpdates(mode) ==
  IF updateCheckInProgress = 1
    THEN UNCHANGED <<updateCheckInProgress, worker>>  \* at most a notification
    ELSE updateCheckInProgress' = 1 /\ worker' = mode

\* Sixty seconds after the start, once: a check under way is reason to drop it.
SilentCheck ==
  /\ app = "running" /\ timer = "armed" /\ timer' = "fired"
  /\ OnCheckUpdates("silent")
  /\ UNCHANGED <<app, heard, updateAvailable, dialogVars, systemVars>>

\* The tray: "check" and "update" are the same.  depth: the bound.
ManualCheck ==
  /\ app = "running" /\ depth < MaxDialogs
  /\ OnCheckUpdates("manual")
  /\ UNCHANGED <<app, timer, heard, updateAvailable, dialogVars, systemVars>>

\* The file of the package or the program: none while npm replaces them.
ReadLocalVersion == {installed, Unknown}

\* The thread has its answers, or their time limits, and posts the plan.
CheckRuns ==
  /\ app = "running" /\ worker # "idle" /\ heard = Nothing
  /\ \E current \in ReadLocalVersion, latest \in Registry,
        response \in Responses :
       heard' = [current |-> current, latest |-> latest, response |-> response]
  /\ UNCHANGED <<app, timer, updateCheckInProgress, worker, updateAvailable,
                 dialogVars, systemVars>>

\* UpdateDialog::UpdateDialog
OpenDialog(offers) ==
  LET d == depth + 1
  IN  /\ depth' = d
      /\ target' = [target EXCEPT ![d] = offers.backend]
      /\ release' = [release EXCEPT ![d] = offers.desktop]
      /\ button' = [button EXCEPT ![d] =
                      IF offers.backend # Unknown \/ offers.desktop # NoRelease
                        THEN "on" ELSE "off"]
      /\ UNCHANGED <<pending, updateInProgress, backendRunning, npm, net,
                     ticked, result>>

\* Defect: the flag is cleared when the dialog is closed.
ClearFlagLate(mode) == updateCheckInProgress' = IF mode = "manual" THEN 1 ELSE 0

\* It is cleared before the dialog is run.
ClearFlag(mode) == updateCheckInProgress' = 0

\* A silent check only notifies; a manual one opens a dialog in any case.
FinishUpdateCheck ==
  LET offers == Offers(heard)
  IN  /\ app = "running" /\ heard # Nothing
      /\ ClearFlag(worker)
      /\ worker' = "idle" /\ heard' = Nothing
      /\ updateAvailable' =
           IF offers.backend # Unknown \/ offers.desktop # NoRelease
             THEN "yes" ELSE "no"
      /\ IF worker = "manual" THEN OpenDialog(offers) ELSE UNCHANGED dialogVars
      /\ UNCHANGED <<app, timer, systemVars>>

-----------------------------------------------------------------------------
(* The dialog.                                                             *)

Top(d) == app = "running" /\ d = depth

\* No step of dialog d is left, with what the log says and the button shows.
Idle(d, outcome, shown) ==
  /\ updateInProgress' = [updateInProgress EXCEPT ![d] = "no"]
  /\ backendRunning' = [backendRunning EXCEPT ![d] = "no"]
  /\ npm' = [npm EXCEPT ![d] = "none"]
  /\ net' = [net EXCEPT ![d] = NoAsset]
  /\ button' = [button EXCEPT ![d] = shown]
  /\ result' = [result EXCEPT ![d] = outcome]

\* A step is under way: npm, or the download of an asset.
Busy(d, thread, asset) ==
  /\ updateInProgress' = [updateInProgress EXCEPT ![d] = "yes"]
  /\ backendRunning' = [backendRunning EXCEPT ![d] =
                           IF thread = "running" THEN "yes" ELSE "no"]
  /\ npm' = [npm EXCEPT ![d] = thread]
  /\ net' = [net EXCEPT ![d] = asset]
  /\ button' = [button EXCEPT ![d] = "off"]
  /\ result' = [result EXCEPT ![d] = "none"]

\* Defect: the button stays off.
FailUpdateForGood(d) == Idle(d, "failed", "off")

\* The end of a round, without the steps that were still to come: the button
\* is there again for another one.
FailUpdate(d) == Idle(d, "failed", IF Offered(d) # {} THEN "on" ELSE "off")

FinishWithMessage(d) == Idle(d, "done", "off")

\* A thread with an Updater for the version that was locked by the check.
RunBackendUpdate(d) == Busy(d, "running", NoAsset)

\* DesktopReleaseDownloader::start of the best asset.
StartDownload(d) ==
  \E i \in BestAssets(release[d].assets) :
    LET asset == release[d].assets[i]
    IN  Acceptable(asset) /\ Busy(d, "none", asset)

\* There may be no asset, and the cache directory or the file may fail.
RunDesktopUpdate(d) == StartDownload(d) \/ FailUpdate(d)

\* Of the steps that are left the backend comes first.
ProcessNextStep(d, steps) ==
  \/ /\ steps = {} /\ FinishWithMessage(d)
     /\ pending' = [pending EXCEPT ![d] = {}]
  \/ /\ "Backend" \in steps /\ RunBackendUpdate(d)
     /\ pending' = [pending EXCEPT ![d] = steps \ {"Backend"}]
  \/ /\ steps = {"Desktop"} /\ RunDesktopUpdate(d)
     /\ pending' = [pending EXCEPT ![d] = {}]

\* The button, with some of the boxes ticked that are enabled.
OnUpdate(d) ==
  /\ Top(d) /\ button[d] = "on" /\ updateInProgress[d] = "no"
  /\ \E steps \in SUBSET Offered(d) \ {{}} :
       /\ ticked' = [ticked EXCEPT ![d] = steps]
       /\ ProcessNextStep(d, steps)
  /\ UNCHANGED <<app, checkVars, systemVars, depth, target, release>>

\* Defect: the window closes at any time.
MayCloseEver(d) == TRUE

MayClose(d) == updateInProgress[d] = "no" /\ backendRunning[d] = "no"

Reject(d) ==
  /\ Top(d) /\ MayClose(d)
  /\ depth' = depth - 1
  /\ target' = [target EXCEPT ![d] = Unknown]
  /\ release' = [release EXCEPT ![d] = NoRelease]
  /\ pending' = [pending EXCEPT ![d] = {}]
  /\ button' = [button EXCEPT ![d] = "off"]
  /\ ticked' = [ticked EXCEPT ![d] = {}]
  /\ result' = [result EXCEPT ![d] = "none"]
  /\ writer' = IF writer = d THEN Orphan ELSE writer
  /\ UNCHANGED <<app, checkVars, updateInProgress, backendRunning, npm, net,
                 installed, orphans>>

-----------------------------------------------------------------------------
(* The thread of the Updater.                                              *)

\* The version is refused, a program is missing or not trusted, the start
\* fails, or npm does.
NpmFails(d) ==
  /\ app = "running" /\ npm[d] = "running"
  /\ npm' = [npm EXCEPT ![d] = "failed"]
  /\ UNCHANGED <<app, checkVars, systemVars, depth, target, release, pending,
                 updateInProgress, backendRunning, button, net, ticked, result>>

NpmInstalls(d) ==
  /\ app = "running" /\ npm[d] = "running" /\ IsValidSemVer(target[d])
  /\ npm' = [npm EXCEPT ![d] = "ok"]
  /\ installed' = target[d] /\ writer' = d
  /\ UNCHANGED <<app, checkVars, orphans, depth, target, release, pending,
                 updateInProgress, backendRunning, button, net, ticked, result>>

\* Defect: npm is waited for, for ever.
NpmTimesOutNever(d) == FALSE /\ UNCHANGED vars

\* Ten minutes.  What has become root cannot be killed by the user.
NpmTimesOut(d) ==
  /\ app = "running" /\ npm[d] = "running"
  /\ npm' = [npm EXCEPT ![d] = "failed"]
  /\ orphans' \in {orphans, orphans \cup {target[d]}}
  /\ UNCHANGED <<app, checkVars, installed, writer, depth, target, release,
                 pending, updateInProgress, backendRunning, button, net,
                 ticked, result>>

OrphanEnds ==
  /\ \E version \in orphans :
       /\ orphans' = orphans \ {version}
       /\ \/ installed' = version /\ writer' = Orphan
          \/ UNCHANGED <<installed, writer>>
  /\ UNCHANGED <<app, checkVars, dialogVars>>

\* Defect: a failure is as good as a success.
BackendFinishedAnyhow(d, ok) == ProcessNextStep(d, pending[d])

\* The slot of updateFinished(ok).
BackendFinished(d, ok) ==
  \/ ok /\ ProcessNextStep(d, pending[d])
  \/ ~ok /\ FailUpdate(d) /\ UNCHANGED pending

\* The queued signal reaches the dialog.
OnBackendUpdateFinished(d) ==
  /\ app = "running" /\ npm[d] \in {"ok", "failed"}
  /\ BackendFinished(d, npm[d] = "ok")
  /\ UNCHANGED <<app, checkVars, systemVars, depth, target, release, ticked>>

-----------------------------------------------------------------------------
(* The download.                                                           *)

\* A write that fails aborts the reply; the network or the server fails; the
\* commit or the digest fails; the file cannot be made executable; the helper
\* is missing or does not start.
DownloadFails(d) ==
  /\ app = "running" /\ net[d] # NoAsset
  /\ FailUpdate(d)
  /\ UNCHANGED <<app, checkVars, systemVars, depth, target, release, pending,
                 ticked>>

\* The process ends: its dialogs are gone, and an npm goes on by itself.
Leave ==
  /\ app' = "gone"
  /\ depth' = 0
  /\ updateInProgress' = [d \in Dialogs |-> "no"]
  /\ backendRunning' = [d \in Dialogs |-> "no"]
  /\ npm' = [d \in Dialogs |-> "none"]
  /\ net' = [d \in Dialogs |-> NoAsset]
  /\ target' = [d \in Dialogs |-> Unknown]
  /\ release' = [d \in Dialogs |-> NoRelease]
  /\ pending' = [d \in Dialogs |-> {}]
  /\ button' = [d \in Dialogs |-> "off"]
  /\ ticked' = [d \in Dialogs |-> {}]
  /\ result' = [d \in Dialogs |-> "none"]
  /\ worker' = "idle" /\ updateCheckInProgress' = 0 /\ heard' = Nothing
  /\ orphans' = orphans \cup {target[d] : d \in {e \in Dialogs : npm[e] = "running"}}
  /\ UNCHANGED <<timer, updateAvailable, installed, writer>>

\* The file is on the disk and has a digest: the helper is started, and the
\* application quits without touching the backend.  One step here, although
\* performQuit may wait for the user and for the backend while updateInProgress_
\* is still set (that wait is AppLifecycle's).
HandOver(d) ==
  /\ app = "running" /\ net[d] # NoAsset
  /\ Leave

Quit == app = "running" /\ Leave

-----------------------------------------------------------------------------
DialogStep(d) ==
  \/ OnUpdate(d) \/ Reject(d)
  \/ NpmFails(d) \/ NpmInstalls(d) \/ NpmTimesOut(d)
  \/ OnBackendUpdateFinished(d)
  \/ DownloadFails(d) \/ HandOver(d)

Next ==
  \/ SilentCheck \/ ManualCheck \/ CheckRuns \/ FinishUpdateCheck
  \/ \E d \in Dialogs : DialogStep(d)
  \/ OrphanEnds \/ Quit

Spec == Init /\ [][Next]_vars

\* FinishUpdateCheck, by what it does to the plan that was posted: while the
\* application runs nothing else takes it.
PlanTaken == app = "running" /\ heard # Nothing /\ heard' = Nothing

\* The checks have time limits, npm has one, and the event loop goes on.  The
\* user, npm and the network owe nothing.
Fairness ==
  /\ WF_vars(CheckRuns) /\ WF_heard(PlanTaken)
  /\ \A d \in Dialogs :
       WF_vars(NpmTimesOut(d)) /\ WF_vars(OnBackendUpdateFinished(d))

FairSpec == Spec /\ Fairness

-----------------------------------------------------------------------------
TypeOK ==
  /\ app \in {"running", "gone"} /\ timer \in {"armed", "fired"}
  /\ updateCheckInProgress \in 0..1 /\ updateAvailable \in {"no", "yes"}
  /\ worker \in {"idle", "silent", "manual"} /\ heard \in Heard
  /\ depth \in 0..MaxDialogs
  /\ target \in [Dialogs -> Known]
  /\ release \in [Dialogs -> Release]
  /\ pending \in [Dialogs -> SUBSET Components]
  /\ ticked \in [Dialogs -> SUBSET Components]
  /\ updateInProgress \in [Dialogs -> {"no", "yes"}]
  /\ backendRunning \in [Dialogs -> {"no", "yes"}]
  /\ button \in [Dialogs -> {"on", "off"}]
  /\ npm \in [Dialogs -> {"none", "running", "ok", "failed"}]
  /\ net \in [Dialogs -> Asset]
  /\ installed \in Known /\ orphans \subseteq Known
  /\ result \in [Dialogs -> {"none", "failed", "done"}]
  /\ writer \in 0..Orphan

\* The guard of the close button is right: a dialog that says it is busy has
\* exactly one step under way, npm or a download, whose end will be reported
\* to it, and one that can be closed has none (UpdateDialog::reject).
BusyMeansWork ==
  \A d \in Dialogs :
    /\ updateInProgress[d] = "yes" <=> npm[d] # "none" \/ net[d] # NoAsset
    /\ backendRunning[d] = "yes" <=> npm[d] # "none"
    /\ npm[d] = "none" \/ net[d] = NoAsset
    /\ d > depth => updateInProgress[d] = "no"

\* After whatever has failed the user can try again, and after a success not:
\* no dialog is left with offers, nothing to wait for and no button.
RetryIsOffered ==
  \A d \in Dialogs :
    button[d] = "on" <=>
      Offered(d) # {} /\ updateInProgress[d] = "no" /\ result[d] # "done"

\* Of a round with the backend, neither the download begins nor the end is
\* announced before the backend was installed in the version that was locked
\* by the check (unless another installation has come over it).
BackendFirst ==
  \A d \in Dialogs :
    "Backend" \in ticked[d] /\ (net[d] # NoAsset \/ result[d] = "done") =>
      installed = target[d] \/ writer \notin {0, d}

\* What is offered is an upgrade by the rules of semver.org: newer than what
\* was installed at the time of the check, or than this shell, and of the
\* releases that were announced there is no newer one.
OffersOnlyUpgrades ==
  LET offers == Offers(heard)
      announced == heard.response.releases
  IN  /\ offers.backend # Unknown =>
           /\ IsValidSemVer(offers.backend) /\ IsValidSemVer(heard.current)
           /\ Newer(offers.backend, heard.current)
      /\ offers.desktop # NoRelease =>
           /\ Newer(offers.desktop.tag, DesktopVersion)
           /\ \A i \in 1..Len(announced) :
                IsValidSemVer(announced[i].tag) =>
                  ~Newer(announced[i].tag, offers.desktop.tag)

\* How well a file fits, in each of the three respects that assetScore looks at.
FormatRank == [appimage |-> 5, deb |-> 4, rpm |-> 3, tar |-> 2, zip |-> 1, other |-> 0]
ArchRank   == [host |-> 2, none |-> 1, other |-> 0]
KindRank   == [package |-> 1, odd |-> 0, auxiliary |-> 0]

\* In no respect worse, and better in one.
PlainlyBetter(one, two) ==
  /\ FormatRank[one.format] >= FormatRank[two.format]
  /\ ArchRank[one.arch] >= ArchRank[two.arch]
  /\ KindRank[one.kind] >= KindRank[two.kind]
  /\ <<one.format, one.arch, one.kind>> # <<two.format, two.arch, two.kind>>

\* What is downloaded is of the dialog's release, and no checksum nor from
\* elsewhere.  The sum of points never lets a file overtake one that fits better in
\* every respect; so an AppImage package for this computer loses to none, and a
\* source, debug or test artefact or a file for another computer is taken only
\* where each package is in a worse format or of a worse match.  No more than that:
\* assetScore takes 30 points off such artefacts, although its comment says that
\* they must not be taken, and a debug AppImage that names this computer beats a
\* .deb that names none, and a lone source archive is taken.
DownloadsBestFit ==
  \A d \in Dialogs :
    LET assets == release[d].assets
    IN  net[d] # NoAsset =>
          /\ Selectable(net[d]) /\ Acceptable(net[d])
          /\ \E i \in 1..Len(assets) : net[d] = assets[i]
          /\ \A i \in 1..Len(assets) :
               Selectable(assets[i]) => ~PlainlyBetter(assets[i], net[d])

\* Every check comes to an end and leaves the way free for the next one, also
\* while dialogs are open (onCheckUpdates, finishUpdateCheck).
CheckEnds == []<>(updateCheckInProgress = 0)

\* The backend step of each dialog ends whatever npm does (Updater::performUpdate).
BackendStepEnds == \A d \in Dialogs : []<>(backendRunning[d] = "no")
=============================================================================
