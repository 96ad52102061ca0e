-------------------------- MODULE UpdateFlowProofs ---------------------------
(***************************************************************************)
(* Theorems about UpdateFlow, for every number of dialogs and whatever the *)
(* registry and Gitee answer.                                              *)
(***************************************************************************)
EXTENDS UpdateFlow, VersionsProofs, TLAPS

-----------------------------------------------------------------------------
(* What a check offers.                                                    *)

LEMMA NoReleaseIsRelease == NoRelease \in Release
BY DEF NoRelease, Release, Unknown, Version, Text

LEMMA ParseReleasesType ==
  ASSUME NEW releases \in Seq(Release)
  PROVE  ParseReleases(releases) \in Release
<1> DEFINE valid == {i \in 1..Len(releases) : IsValidSemVer(releases[i].tag)}
           best  == {i \in valid : \A j \in valid :
                       /\ j < i => IsBetterRelease(releases[i], releases[j])
                       /\ j > i => ~IsBetterRelease(releases[j], releases[i])}
<1>1. CASE best = {}
  BY <1>1, NoReleaseIsRelease DEF ParseReleases
<1>2. CASE best # {}
  <2>1. (CHOOSE i \in best : TRUE) \in 1..Len(releases)
    BY <1>2
  <2>2. releases[CHOOSE i \in best : TRUE] \in Release
    BY <2>1
  <2> QED
    BY <1>2, <2>2 DEF ParseReleases
<1> QED
  BY <1>1, <1>2

\* What was heard has the parts that Offers reads.
LEMMA HeardParts ==
  ASSUME NEW h \in Heard
  PROVE  /\ h.current \in Known /\ h.latest \in Known
         /\ h.response.releases \in Seq(Release)
<1>1. CASE h = Nothing
  <2>1. h.current = Unknown /\ h.latest = Unknown /\ h.response = NotYet
    BY <1>1 DEF Nothing
  <2>2. h.response.releases = <<>>
    BY <2>1 DEF NotYet
  <2>3. <<>> \in Seq(Release)
    OBVIOUS
  <2> QED
    BY <2>1, <2>2, <2>3 DEF Known
<1>2. CASE h \in [current : Known, latest : Registry, response : Responses]
  BY <1>2, FlowAssumption DEF Known, Response
<1> QED
  BY <1>1, <1>2 DEF Heard

LEMMA OffersType ==
  ASSUME NEW h \in Heard
  PROVE  /\ Offers(h).backend \in Known /\ Offers(h).desktop \in Release
         /\ Offers(h).backend # Unknown =>
              Offers(h).backend = h.latest /\ BackendUpgrade(h.current, h.latest)
<1>1. h.latest \in Known /\ Unknown \in Known
  BY HeardParts DEF Known
<1>2. ParseHttpResponse(h.response).release \in Release
  BY HeardParts, ParseReleasesType, NoReleaseIsRelease DEF ParseHttpResponse
<1>3. BackendState(h.current, h.latest) = "Available"
        => BackendUpgrade(h.current, h.latest)
  BY DEF BackendState
<1> QED
  BY <1>1, <1>2, <1>3, NoReleaseIsRelease DEF Offers

LEMMA KnownAreVersions == Known \subseteq Version
<1>1. Unknown \in Version
  BY DEF Unknown, Version, Text
<1> QED
  BY <1>1, FlowAssumption DEF Known

\* What is offered of the backend is valid and greater than what is installed.
LEMMA UpgradeIsGreater ==
  ASSUME NEW current, NEW latest, BackendUpgrade(current, latest)
  PROVE  IsValidSemVer(current) /\ IsValidSemVer(latest) /\ SemVerGreater(latest, current)
BY DEF BackendUpgrade, CompareVersions

-----------------------------------------------------------------------------
(* The file that is downloaded.                                            *)

LEMMA ScoreBound ==
  ASSUME NEW asset \in Asset
  PROVE  AssetScore(asset) \in Int /\ AssetScore(asset) <= 130
<1>1. FormatScore[asset.format] \in Int /\ FormatScore[asset.format] <= 100
  BY DEF FormatScore, Asset
<1> HIDE DEF FormatScore
<1> QED
  BY <1>1 DEF AssetScore

\* Each of the three parts of the sum follows its rank.
LEMMA BetterScoresMore ==
  ASSUME NEW one \in Asset, NEW two \in Asset,
         Selectable(one), Selectable(two), PlainlyBetter(one, two)
  PROVE  AssetScore(one) > AssetScore(two)
<1> DEFINE Format(x) == FormatScore[x.format]
           Arch(x) == IF x.arch = "host" THEN 30 ELSE IF x.arch = "other" THEN -30 ELSE 0
           Kind(x) == IF x.kind = "odd" THEN 30 ELSE 0
<1>1. /\ Format(one) \in Int /\ Format(two) \in Int /\ Format(one) >= Format(two)
      /\ one.format # two.format => Format(one) > Format(two)
  BY DEF PlainlyBetter, Asset, FormatScore, FormatRank
<1>2. /\ Arch(one) \in Int /\ Arch(two) \in Int /\ Arch(one) >= Arch(two)
      /\ one.arch # two.arch => Arch(one) > Arch(two)
  BY DEF PlainlyBetter, Asset, ArchRank
<1>3. /\ Kind(one) \in Int /\ Kind(two) \in Int /\ Kind(one) <= Kind(two)
      /\ one.kind # two.kind => Kind(one) < Kind(two)
  BY DEF PlainlyBetter, Selectable, Asset, KindRank
<1>4. one.format # two.format \/ one.arch # two.arch \/ one.kind # two.kind
  BY DEF PlainlyBetter
<1>5. /\ AssetScore(one) = Format(one) + Arch(one) - Kind(one)
      /\ AssetScore(two) = Format(two) + Arch(two) - Kind(two)
  BY DEF AssetScore
<1> HIDE DEF Format, Arch, Kind
<1> QED
  BY <1>1, <1>2, <1>3, <1>4, <1>5

LEMMA NoneBeatsTheBest ==
  ASSUME NEW assets \in Seq(Asset), NEW i \in BestAssets(assets)
  PROVE  /\ i \in 1..Len(assets) /\ Selectable(assets[i])
         /\ \A j \in 1..Len(assets) :
              Selectable(assets[j]) => ~PlainlyBetter(assets[j], assets[i])
<1>1. i \in 1..Len(assets) /\ Selectable(assets[i])
  BY DEF BestAssets
<1>2. SUFFICES ASSUME NEW j \in 1..Len(assets), Selectable(assets[j]),
                      PlainlyBetter(assets[j], assets[i])
               PROVE  FALSE
  BY <1>1
<1>3. assets[i] \in Asset /\ assets[j] \in Asset
  BY <1>1
<1>4. AssetScore(assets[j]) > AssetScore(assets[i])
  BY <1>1, <1>2, <1>3, BetterScoresMore
<1>5. /\ AssetScore(assets[i]) \in Int /\ AssetScore(assets[j]) \in Int
      /\ \/ AssetScore(assets[j]) < AssetScore(assets[i])
         \/ AssetScore(assets[j]) = AssetScore(assets[i])
  BY <1>2, <1>3, ScoreBound DEF BestAssets
<1> QED
  BY <1>4, <1>5

\* selectBestAsset returns one file, and fails only where the release has none
\* that could be taken: ties are broken by the order of the list.
THEOREM OneBestAsset ==
  ASSUME NEW assets \in Seq(Asset)
  PROVE  /\ (\E i \in 1..Len(assets) : Selectable(assets[i])) => BestAssets(assets) # {}
         /\ \A i, k \in BestAssets(assets) : i = k
<1> DEFINE F == {i \in 1..Len(assets) : Selectable(assets[i])}
           Gap(i) == 130 - AssetScore(assets[i])
           Gaps == {Gap(i) : i \in F}
<1>0. /\ Len(assets) \in Nat /\ F \in SUBSET Nat
      /\ \A i \in F : assets[i] \in Asset /\ i \in 1..Len(assets) /\ i \in Nat
  OBVIOUS
<1>1. \A i \in F : AssetScore(assets[i]) \in Int /\ Gap(i) \in Nat
  BY <1>0, ScoreBound
<1>2. ASSUME NEW m \in F PROVE BestAssets(assets) # {}
  <2>1. Gaps \in SUBSET Nat /\ Gap(m) \in Gaps
    BY <1>1, <1>2
  <2>2. PICK g \in Gaps : \A h \in Gaps : g <= h
    BY <2>1, LeastNat
  <2> DEFINE Ties == {i \in F : Gap(i) = g}
  <2>3. Ties \in SUBSET Nat /\ Ties # {}
    BY <1>0, <2>2
  <2>4. PICK i \in Ties : \A k \in Ties : i <= k
    BY <2>3, LeastNat
  <2>5. ASSUME NEW j \in F
        PROVE  \/ AssetScore(assets[j]) < AssetScore(assets[i])
               \/ AssetScore(assets[j]) = AssetScore(assets[i]) /\ i <= j
    <3>1. i \in F /\ Gap(i) = g /\ g <= Gap(j)
      BY <2>2, <2>4, <2>5
    <3>2. Gap(j) = g => i <= j
      BY <2>4, <2>5
    <3>3. AssetScore(assets[j]) \in Int /\ AssetScore(assets[i]) \in Int
      BY <1>1, <2>5, <3>1
    <3> QED
      BY <3>1, <3>2, <3>3
  <2>6. i \in F
    BY <2>4
  <2>7. i \in BestAssets(assets)
    BY <2>5, <2>6 DEF BestAssets
  <2> QED
    BY <2>7
<1>3. ASSUME NEW i \in BestAssets(assets), NEW k \in BestAssets(assets) PROVE i = k
  <2>1. i \in F /\ k \in F
    BY DEF BestAssets
  <2>2. /\ \/ AssetScore(assets[k]) < AssetScore(assets[i])
           \/ AssetScore(assets[k]) = AssetScore(assets[i]) /\ i <= k
        /\ \/ AssetScore(assets[i]) < AssetScore(assets[k])
           \/ AssetScore(assets[i]) = AssetScore(assets[k]) /\ k <= i
    BY <2>1 DEF BestAssets
  <2>3. AssetScore(assets[i]) \in Int /\ AssetScore(assets[k]) \in Int /\ i \in Nat /\ k \in Nat
    BY <1>0, <1>1, <2>1
  <2> QED
    BY <2>2, <2>3
<1> QED
  BY <1>2, <1>3

-----------------------------------------------------------------------------
(* The types.                                                              *)

LEMMA NoAssetIsAsset == NoAsset \in Asset
BY DEF NoAsset, Asset

LEMMA BestIsAsset ==
  ASSUME NEW r \in Release, NEW i \in BestAssets(r.assets)
  PROVE  r.assets[i] \in Asset /\ r.assets \in Seq(Asset)
<1>1. r.assets \in Seq(Asset)
  BY DEF Release
<1>2. i \in 1..Len(r.assets)
  BY DEF BestAssets
<1> QED
  BY <1>1, <1>2

\* The variables that a step of a round may change.
RoundTypes ==
  /\ pending \in [Dialogs -> SUBSET Components]
  /\ updateInProgress \in [Dialogs -> {"no", "yes"}]
  /\ backendRunning \in [Dialogs -> {"no", "yes"}]
  /\ button \in [Dialogs -> {"on", "off"}]
  /\ npm \in [Dialogs -> {"none", "running", "ok", "failed"}]
  /\ net \in [Dialogs -> Asset]
  /\ result \in [Dialogs -> {"none", "failed", "done"}]

LEMMA IdleTypes ==
  ASSUME RoundTypes, NEW d \in Dialogs, NEW outcome \in {"failed", "done"},
         NEW shown \in {"on", "off"}, Idle(d, outcome, shown),
         pending' \in [Dialogs -> SUBSET Components]
  PROVE  RoundTypes'
BY NoAssetIsAsset DEF RoundTypes, Idle

LEMMA BusyTypes ==
  ASSUME RoundTypes, NEW d \in Dialogs, NEW thread \in {"none", "running"},
         NEW asset \in Asset, Busy(d, thread, asset),
         pending' \in [Dialogs -> SUBSET Components]
  PROVE  RoundTypes'
BY DEF RoundTypes, Busy

LEMMA FailUpdateTypes ==
  ASSUME RoundTypes, NEW d \in Dialogs, FailUpdate(d),
         pending' \in [Dialogs -> SUBSET Components]
  PROVE  RoundTypes'
BY IdleTypes DEF FailUpdate

LEMMA RunDesktopTypes ==
  ASSUME RoundTypes, NEW d \in Dialogs, release \in [Dialogs -> Release],
         RunDesktopUpdate(d), pending' \in [Dialogs -> SUBSET Components]
  PROVE  RoundTypes'
<1>1. CASE StartDownload(d)
  <2>1. PICK i \in BestAssets(release[d].assets) : Busy(d, "none", release[d].assets[i])
    BY <1>1 DEF StartDownload
  <2>2. release[d].assets[i] \in Asset
    BY <2>1, BestIsAsset
  <2> QED
    BY <2>1, <2>2, BusyTypes
<1>2. CASE FailUpdate(d)
  BY <1>2, FailUpdateTypes
<1> QED
  BY <1>1, <1>2 DEF RunDesktopUpdate

LEMMA ProcessNextStepTypes ==
  ASSUME RoundTypes, NEW d \in Dialogs, release \in [Dialogs -> Release],
         NEW steps \in SUBSET Components, ProcessNextStep(d, steps)
  PROVE  RoundTypes'
<1>0. pending' \in [Dialogs -> SUBSET Components]
  BY DEF ProcessNextStep, RoundTypes
<1>1. CASE steps = {} /\ FinishWithMessage(d)
  BY <1>0, <1>1, IdleTypes DEF FinishWithMessage
<1>2. CASE "Backend" \in steps /\ RunBackendUpdate(d)
  BY <1>0, <1>2, BusyTypes, NoAssetIsAsset DEF RunBackendUpdate
<1>3. CASE steps = {"Desktop"} /\ RunDesktopUpdate(d)
  BY <1>0, <1>3, RunDesktopTypes
<1> QED
  BY <1>1, <1>2, <1>3 DEF ProcessNextStep

LEMMA TypeInit == Init => TypeOK
<1> SUFFICES ASSUME Init PROVE TypeOK
  OBVIOUS
<1>1. Unknown \in Known /\ installed \in Known
  BY DEF Init, Known
<1>2. MaxDialogs \in Nat
  BY FlowAssumption
<1> QED
  BY <1>1, <1>2, NoAssetIsAsset, NoReleaseIsRelease
  DEF Init, TypeOK, Heard, Orphan

\* A manual check is begun while there is room for its dialog.
Room == worker = "manual" => depth < MaxDialogs

LEMMA RoomNext == TypeOK /\ Room /\ [Next]_vars => Room'
<1> SUFFICES ASSUME TypeOK, Room, [Next]_vars PROVE Room'
  OBVIOUS
<1>a. MaxDialogs \in Nat /\ MaxDialogs > 0 /\ depth \in 0..MaxDialogs
  BY FlowAssumption DEF TypeOK
<1>1. CASE SilentCheck \/ ManualCheck
  BY <1>1 DEF SilentCheck, ManualCheck, OnCheckUpdates, Room, dialogVars
<1>2. CASE worker' = "idle"
  BY <1>2 DEF Room
<1>3. CASE worker' = worker /\ depth' = depth
  BY <1>3 DEF Room
<1>4. CASE worker' = worker /\ depth' = depth - 1
  BY <1>4, <1>a DEF Room
<1>5. CheckRuns \/ OrphanEnds => worker' = worker /\ depth' = depth
  BY DEF CheckRuns, OrphanEnds, checkVars, dialogVars
<1>6. FinishUpdateCheck \/ Quit => worker' = "idle"
  BY DEF FinishUpdateCheck, Quit, Leave
<1>7. ASSUME NEW d \in Dialogs, DialogStep(d)
      PROVE  \/ worker' = "idle"
             \/ worker' = worker /\ depth' = depth
             \/ worker' = worker /\ depth' = depth - 1
  <2>1. HandOver(d) => worker' = "idle"
    BY DEF HandOver, Leave
  <2>2. Reject(d) => worker' = worker /\ depth' = depth - 1
    BY DEF Reject, checkVars
  <2>3. OnUpdate(d) \/ OnBackendUpdateFinished(d) \/ DownloadFails(d)
          => worker' = worker /\ depth' = depth
    BY DEF OnUpdate, OnBackendUpdateFinished, DownloadFails, checkVars
  <2>4. NpmFails(d) \/ NpmInstalls(d) \/ NpmTimesOut(d)
          => worker' = worker /\ depth' = depth
    BY DEF NpmFails, NpmInstalls, NpmTimesOut, checkVars
  <2> QED
    BY <1>7, <2>1, <2>2, <2>3, <2>4 DEF DialogStep
<1>8. CASE UNCHANGED vars
  BY <1>8, <1>3 DEF vars, checkVars, dialogVars
<1> QED
  BY <1>1, <1>2, <1>3, <1>4, <1>5, <1>6, <1>7, <1>8 DEF Next

LEMMA TypeNext == TypeOK /\ Room /\ [Next]_vars => TypeOK'
<1> SUFFICES ASSUME TypeOK, Room, [Next]_vars PROVE TypeOK'
  OBVIOUS
<1>a. MaxDialogs \in Nat /\ Unknown \in Known /\ Nothing \in Heard
  BY FlowAssumption DEF Known, Heard
<1>b. RoundTypes
  BY DEF TypeOK, RoundTypes
<1>1. CASE SilentCheck
  BY <1>1 DEF SilentCheck, OnCheckUpdates, TypeOK, dialogVars, systemVars
<1>2. CASE ManualCheck
  BY <1>2 DEF ManualCheck, OnCheckUpdates, TypeOK, dialogVars, systemVars
<1>3. CASE CheckRuns
  <2>1. heard' \in Heard
    BY <1>3, <1>a DEF CheckRuns, ReadLocalVersion, Heard, TypeOK
  <2> QED
    BY <1>3, <2>1 DEF CheckRuns, TypeOK, dialogVars, systemVars
<1>4. CASE FinishUpdateCheck
  <2>0. /\ Offers(heard).backend \in Known /\ Offers(heard).desktop \in Release
        /\ heard' \in Heard
    BY <1>4, <1>a, OffersType DEF FinishUpdateCheck, TypeOK
  <2>1. CASE worker = "manual"
    <3>1. OpenDialog(Offers(heard))
      BY <1>4, <2>1 DEF FinishUpdateCheck
    <3> HIDE DEF Offers
    <3>2. depth' \in 0..MaxDialogs
      BY <3>1, <1>a, <2>1 DEF OpenDialog, Room, TypeOK
    <3>3. target' \in [Dialogs -> Known] /\ release' \in [Dialogs -> Release]
      BY <3>1, <2>0 DEF OpenDialog, TypeOK
    <3>4. button' \in [Dialogs -> {"on", "off"}]
      BY <3>1 DEF OpenDialog, TypeOK
    <3> QED
      BY <1>4, <2>0, <3>1, <3>2, <3>3, <3>4
      DEF FinishUpdateCheck, OpenDialog, ClearFlag, TypeOK, systemVars
  <2>2. CASE worker # "manual"
    BY <1>4, <2>0, <2>2
    DEF FinishUpdateCheck, ClearFlag, TypeOK, dialogVars, systemVars
  <2> QED
    BY <2>1, <2>2
<1>5. ASSUME NEW d \in Dialogs, OnUpdate(d) PROVE TypeOK'
  <2>1. PICK steps \in SUBSET Offered(d) \ {{}} :
          ticked' = [ticked EXCEPT ![d] = steps] /\ ProcessNextStep(d, steps)
    BY <1>5 DEF OnUpdate
  <2>2. steps \in SUBSET Components
    BY <2>1 DEF Offered, Components
  <2>3. RoundTypes'
    BY <1>b, <2>1, <2>2, ProcessNextStepTypes DEF TypeOK
  <2> QED
    BY <1>5, <2>1, <2>2, <2>3
    DEF OnUpdate, RoundTypes, TypeOK, checkVars, systemVars
<1>6. ASSUME NEW d \in Dialogs, Reject(d) PROVE TypeOK'
  <2>1. depth' \in 0..MaxDialogs /\ writer' \in 0..Orphan
    BY <1>6, <1>a DEF Reject, Top, TypeOK, Dialogs, Orphan
  <2> QED
    BY <1>6, <1>a, <2>1, NoReleaseIsRelease DEF Reject, TypeOK, checkVars
<1>7. ASSUME NEW d \in Dialogs, NpmFails(d) PROVE TypeOK'
  BY <1>7 DEF NpmFails, TypeOK, checkVars, systemVars
<1>8. ASSUME NEW d \in Dialogs, NpmInstalls(d) PROVE TypeOK'
  <2>1. installed' \in Known /\ writer' \in 0..Orphan
    BY <1>8, <1>a DEF NpmInstalls, TypeOK, Dialogs, Orphan
  <2> QED
    BY <1>8, <2>1 DEF NpmInstalls, TypeOK, checkVars
<1>9. ASSUME NEW d \in Dialogs, NpmTimesOut(d) PROVE TypeOK'
  <2>1. orphans' \subseteq Known
    BY <1>9 DEF NpmTimesOut, TypeOK
  <2> QED
    BY <1>9, <2>1 DEF NpmTimesOut, TypeOK, checkVars
<1>10. ASSUME NEW d \in Dialogs, OnBackendUpdateFinished(d) PROVE TypeOK'
  <2>1. \/ ProcessNextStep(d, pending[d])
        \/ FailUpdate(d) /\ UNCHANGED pending
    BY <1>10 DEF OnBackendUpdateFinished, BackendFinished
  <2>2. pending[d] \in SUBSET Components
    BY DEF TypeOK
  <2>3. ASSUME ProcessNextStep(d, pending[d]) PROVE RoundTypes'
    <3>1. PICK steps \in SUBSET Components : ProcessNextStep(d, steps)
      BY <2>2, <2>3
    <3> QED
      BY <1>b, <3>1, ProcessNextStepTypes DEF TypeOK
  <2>4. ASSUME FailUpdate(d), UNCHANGED pending PROVE RoundTypes'
    BY <1>b, <2>4, FailUpdateTypes DEF RoundTypes
  <2>5. RoundTypes'
    BY <2>1, <2>3, <2>4
  <2> QED
    BY <1>10, <2>5
    DEF OnBackendUpdateFinished, RoundTypes, TypeOK, checkVars, systemVars
<1>11. ASSUME NEW d \in Dialogs, DownloadFails(d) PROVE TypeOK'
  <2>1. RoundTypes'
    BY <1>b, <1>11, FailUpdateTypes DEF DownloadFails, RoundTypes
  <2> QED
    BY <1>11, <2>1 DEF DownloadFails, RoundTypes, TypeOK, checkVars, systemVars
<1>12. ASSUME Leave PROVE TypeOK'
  <2>1. orphans' \subseteq Known
    BY <1>12 DEF Leave, TypeOK
  <2>2. 0 \in 0..MaxDialogs
    BY <1>a
  <2>3. /\ target' \in [Dialogs -> Known] /\ release' \in [Dialogs -> Release]
        /\ net' \in [Dialogs -> Asset] /\ npm' \in [Dialogs -> {"none", "running", "ok", "failed"}]
    BY <1>12, <1>a, NoAssetIsAsset, NoReleaseIsRelease DEF Leave
  <2>4. /\ pending' \in [Dialogs -> SUBSET Components]
        /\ ticked' \in [Dialogs -> SUBSET Components]
        /\ updateInProgress' \in [Dialogs -> {"no", "yes"}]
        /\ backendRunning' \in [Dialogs -> {"no", "yes"}]
    BY <1>12 DEF Leave
  <2>5. /\ button' \in [Dialogs -> {"on", "off"}]
        /\ result' \in [Dialogs -> {"none", "failed", "done"}]
    BY <1>12 DEF Leave
  <2> QED
    BY <1>12, <1>a, <2>1, <2>2, <2>3, <2>4, <2>5 DEF Leave, TypeOK
<1>13. CASE OrphanEnds
  <2>1. installed' \in Known /\ orphans' \subseteq Known /\ writer' \in 0..Orphan
    BY <1>13, <1>a DEF OrphanEnds, TypeOK, Orphan
  <2> QED
    BY <1>13, <2>1 DEF OrphanEnds, TypeOK, checkVars, dialogVars
<1>14. CASE UNCHANGED vars
  BY <1>14 DEF vars, checkVars, dialogVars, systemVars, TypeOK
<1> QED
  BY <1>1, <1>2, <1>3, <1>4, <1>5, <1>6, <1>7, <1>8, <1>9, <1>10, <1>11, <1>12,
     <1>13, <1>14
  DEF Next, DialogStep, HandOver, Quit

\* Every variable keeps its type, however many dialogs the tray opens.
THEOREM FlowTypeCorrect == Spec => []TypeOK
<1>1. Init => TypeOK /\ Room
  BY TypeInit DEF Init, Room
<1>2. TypeOK /\ Room /\ [Next]_vars => (TypeOK /\ Room)'
  BY TypeNext, RoomNext
<1> QED
  BY <1>1, <1>2, PTL DEF Spec

-----------------------------------------------------------------------------
(* The steps of a round.                                                   *)

\* What the button, the end of npm and the end of a download do to a dialog.
RoundStep(d) ==
  /\ UNCHANGED <<depth, target, release>> /\ ~(d > depth)
  /\ \/ Idle(d, "done", "off")
     \/ FailUpdate(d)
     \/ Busy(d, "running", NoAsset)
     \/ StartDownload(d)

LEMMA ProcessIsRoundStep ==
  ASSUME NEW d \in Dialogs, NEW steps, ProcessNextStep(d, steps), ~(d > depth),
         UNCHANGED <<depth, target, release>>
  PROVE  RoundStep(d)
BY DEF ProcessNextStep, FinishWithMessage, RunBackendUpdate, RunDesktopUpdate, RoundStep

LEMMA RoundSteps ==
  ASSUME TypeOK, BusyMeansWork, NEW d \in Dialogs,
         OnUpdate(d) \/ OnBackendUpdateFinished(d) \/ DownloadFails(d)
  PROVE  RoundStep(d)
<1>1. CASE OnUpdate(d)
  <2>1. ~(d > depth) /\ UNCHANGED <<depth, target, release>>
    BY <1>1 DEF OnUpdate, Top, TypeOK, Dialogs
  <2>2. PICK steps : ProcessNextStep(d, steps)
    BY <1>1 DEF OnUpdate
  <2> QED
    BY <2>1, <2>2, ProcessIsRoundStep
<1>2. CASE OnBackendUpdateFinished(d)
  <2>1. ~(d > depth) /\ UNCHANGED <<depth, target, release>>
    BY <1>2 DEF OnBackendUpdateFinished, BusyMeansWork
  <2>2. CASE FailUpdate(d)
    BY <2>1, <2>2 DEF RoundStep
  <2>3. CASE ProcessNextStep(d, pending[d])
    <3>1. PICK steps : ProcessNextStep(d, steps)
      BY <2>3
    <3> QED
      BY <2>1, <3>1, ProcessIsRoundStep
  <2> QED
    BY <1>2, <2>2, <2>3 DEF OnBackendUpdateFinished, BackendFinished
<1>3. CASE DownloadFails(d)
  BY <1>3 DEF DownloadFails, BusyMeansWork, RoundStep
<1> QED
  BY <1>1, <1>2, <1>3

\* What StartDownload has chosen is an asset that can be downloaded.
LEMMA StartedIsAcceptable ==
  ASSUME NEW asset, Acceptable(asset)
  PROVE  asset # NoAsset
BY DEF Acceptable, NoAsset

-----------------------------------------------------------------------------
(* BusyMeansWork.                                                          *)

LEMMA BusyRound ==
  ASSUME TypeOK, BusyMeansWork, NEW d \in Dialogs, RoundStep(d)
  PROVE  BusyMeansWork'
<1>0. depth' = depth /\ ~(d > depth)
  BY DEF RoundStep
<1>1. ASSUME NEW outcome, NEW shown, Idle(d, outcome, shown) PROVE BusyMeansWork'
  BY <1>0, <1>1 DEF Idle, TypeOK, BusyMeansWork
<1>2. CASE Busy(d, "running", NoAsset)
  BY <1>0, <1>2 DEF Busy, TypeOK, BusyMeansWork
<1>3. ASSUME NEW asset, asset # NoAsset, Busy(d, "none", asset) PROVE BusyMeansWork'
  BY <1>0, <1>3 DEF Busy, TypeOK, BusyMeansWork
<1>4. CASE StartDownload(d)
  <2>1. PICK i \in BestAssets(release[d].assets) :
          Acceptable(release[d].assets[i]) /\ Busy(d, "none", release[d].assets[i])
    BY <1>4 DEF StartDownload
  <2>2. PICK asset : asset = release[d].assets[i]
    OBVIOUS
  <2> QED
    BY <1>3, <2>1, <2>2, StartedIsAcceptable
<1> QED
  BY <1>1, <1>2, <1>4 DEF RoundStep, FailUpdate

\* The steps of the check and of an npm that nobody waits for.
LEMMA CheckLeavesRounds ==
  ASSUME SilentCheck \/ ManualCheck \/ CheckRuns \/ OrphanEnds \/ UNCHANGED vars
  PROVE  UNCHANGED dialogVars
BY DEF SilentCheck, ManualCheck, CheckRuns, OrphanEnds, vars

LEMMA BusyNext == TypeOK /\ BusyMeansWork /\ [Next]_vars => BusyMeansWork'
<1> SUFFICES ASSUME TypeOK, BusyMeansWork, [Next]_vars PROVE BusyMeansWork'
  OBVIOUS
<1>1. CASE UNCHANGED dialogVars
  BY <1>1 DEF dialogVars, BusyMeansWork
<1>2. CASE FinishUpdateCheck
  <2>1. CASE worker = "manual"
    <3>1. OpenDialog(Offers(heard))
      BY <1>2, <2>1 DEF FinishUpdateCheck
    <3>2. depth' = depth + 1 /\ UNCHANGED <<updateInProgress, backendRunning, npm, net>>
      BY <3>1 DEF OpenDialog
    <3> QED
      BY <3>2 DEF TypeOK, BusyMeansWork, Dialogs
  <2> QED
    BY <1>1, <1>2, <2>1 DEF FinishUpdateCheck
<1>3. ASSUME NEW d \in Dialogs, OnUpdate(d) \/ OnBackendUpdateFinished(d) \/ DownloadFails(d)
      PROVE  BusyMeansWork'
  BY <1>3, RoundSteps, BusyRound
<1>4. ASSUME NEW d \in Dialogs, Reject(d) PROVE BusyMeansWork'
  <2>1. /\ d = depth /\ depth' = depth - 1 /\ updateInProgress[d] = "no"
        /\ UNCHANGED <<updateInProgress, backendRunning, npm, net>>
    BY <1>4 DEF Reject, Top, MayClose
  <2> QED
    BY <2>1 DEF TypeOK, BusyMeansWork, Dialogs
<1>5. ASSUME NEW d \in Dialogs, NpmFails(d) \/ NpmInstalls(d) \/ NpmTimesOut(d)
      PROVE  BusyMeansWork'
  <2>1. /\ npm[d] = "running"
        /\ npm' = [npm EXCEPT ![d] = "failed"] \/ npm' = [npm EXCEPT ![d] = "ok"]
        /\ UNCHANGED <<depth, updateInProgress, backendRunning, net>>
    BY <1>5 DEF NpmFails, NpmInstalls, NpmTimesOut
  <2> QED
    BY <2>1 DEF TypeOK, BusyMeansWork
<1>6. CASE Leave
  BY <1>6 DEF Leave, BusyMeansWork
<1> QED
  BY <1>1, <1>2, <1>3, <1>4, <1>5, <1>6, CheckLeavesRounds
  DEF Next, DialogStep, HandOver, Quit

LEMMA BusyInit == Init => BusyMeansWork
BY DEF Init, BusyMeansWork

-----------------------------------------------------------------------------
(* RetryIsOffered.                                                         *)

\* A dialog that is not open has no outcome, which a new one would inherit.
Closed == \A d \in Dialogs : d > depth => result[d] = "none"

LEMMA RetryRound ==
  ASSUME TypeOK, Closed, RetryIsOffered, NEW d \in Dialogs, RoundStep(d)
  PROVE  (Closed /\ RetryIsOffered)'
<1>0. UNCHANGED <<depth, target, release>> /\ ~(d > depth)
  BY DEF RoundStep
<1>1. CASE Idle(d, "done", "off")
  BY <1>0, <1>1 DEF Idle, TypeOK, Closed, RetryIsOffered, Offered
<1>2. CASE FailUpdate(d)
  BY <1>0, <1>2 DEF FailUpdate, Idle, TypeOK, Closed, RetryIsOffered, Offered
<1>3. ASSUME NEW thread, NEW asset, Busy(d, thread, asset)
      PROVE  (Closed /\ RetryIsOffered)'
  BY <1>0, <1>3 DEF Busy, TypeOK, Closed, RetryIsOffered, Offered
<1>4. CASE StartDownload(d)
  BY <1>3, <1>4 DEF StartDownload
<1> QED
  BY <1>1, <1>2, <1>3, <1>4 DEF RoundStep

LEMMA RetryNext ==
  TypeOK /\ BusyMeansWork /\ Closed /\ RetryIsOffered /\ [Next]_vars
    => (Closed /\ RetryIsOffered)'
<1> SUFFICES ASSUME TypeOK, BusyMeansWork, Closed, RetryIsOffered, [Next]_vars
             PROVE  (Closed /\ RetryIsOffered)'
  OBVIOUS
<1>1. CASE UNCHANGED dialogVars
  BY <1>1 DEF dialogVars, Closed, RetryIsOffered, Offered
<1>2. CASE FinishUpdateCheck
  <2>1. CASE worker = "manual"
    <3>1. PICK offers : OpenDialog(offers)
      BY <1>2, <2>1 DEF FinishUpdateCheck
    <3>2. depth' = depth + 1 /\ UNCHANGED <<updateInProgress, result>>
      BY <3>1 DEF OpenDialog
    <3>3. Closed'
      BY <3>2 DEF TypeOK, Closed, Dialogs
    <3>4. ASSUME NEW e \in Dialogs, e # depth + 1
          PROVE  Offered(e)' = Offered(e) /\ button'[e] = button[e]
      BY <3>1, <3>4 DEF OpenDialog, Offered, TypeOK
    <3>5. ASSUME NEW e \in Dialogs, e = depth + 1
          PROVE  button'[e] = "on" <=>
                   Offered(e)' # {} /\ updateInProgress'[e] = "no" /\ result'[e] # "done"
      <4>1. updateInProgress'[e] = "no" /\ result'[e] = "none"
        BY <3>2, <3>5 DEF BusyMeansWork, Closed, TypeOK, Dialogs
      <4>2. button'[e] = "on" <=> Offered(e)' # {}
        BY <3>1, <3>5 DEF OpenDialog, Offered, TypeOK
      <4> QED
        BY <4>1, <4>2
    <3> QED
      BY <3>2, <3>3, <3>4, <3>5 DEF RetryIsOffered
  <2> QED
    BY <1>1, <1>2, <2>1 DEF FinishUpdateCheck
<1>3. ASSUME NEW d \in Dialogs, OnUpdate(d) \/ OnBackendUpdateFinished(d) \/ DownloadFails(d)
      PROVE  (Closed /\ RetryIsOffered)'
  BY <1>3, RoundSteps, RetryRound
<1>4. ASSUME NEW d \in Dialogs, Reject(d) PROVE (Closed /\ RetryIsOffered)'
  <2>1. Closed'
    BY <1>4 DEF Reject, Top, TypeOK, Closed, Dialogs
  <2>2. RetryIsOffered'
    BY <1>4 DEF Reject, TypeOK, RetryIsOffered, Offered
  <2> QED
    BY <2>1, <2>2
<1>5. ASSUME NEW d \in Dialogs, NpmFails(d) \/ NpmInstalls(d) \/ NpmTimesOut(d)
      PROVE  (Closed /\ RetryIsOffered)'
  <2>1. UNCHANGED <<depth, target, release, updateInProgress, button, result>>
    BY <1>5 DEF NpmFails, NpmInstalls, NpmTimesOut
  <2> QED
    BY <2>1 DEF Closed, RetryIsOffered, Offered
<1>6. CASE Leave
  BY <1>6 DEF Leave, Closed, RetryIsOffered, Offered
<1> QED
  BY <1>1, <1>2, <1>3, <1>4, <1>5, <1>6, CheckLeavesRounds
  DEF Next, DialogStep, HandOver, Quit

LEMMA RetryInit == Init => Closed /\ RetryIsOffered
BY DEF Init, Closed, RetryIsOffered, Offered

-----------------------------------------------------------------------------
(* BackendFirst.                                                           *)

\* The backend is what the plan of dialog d has locked, or another
\* installation has come over it.
Locked(d) == installed = target[d] \/ writer \notin {0, d}

\* A success that is under way is a success of this dialog's npm.
OkIsLocked == \A d \in Dialogs : npm[d] = "ok" => Locked(d)

\* A step that ends a round well, or goes on to the download, follows a
\* success of npm or a press without the box of the backend.
LEMMA LockedRound ==
  ASSUME TypeOK, OkIsLocked, BackendFirst, NEW d \in Dialogs, RoundStep(d),
         UNCHANGED <<installed, writer>>,
         \A e \in Dialogs : e # d => ticked'[e] = ticked[e],
         \/ Locked(d)
         \/ "Backend" \notin ticked'[d]
         \/ FailUpdate(d)
         \/ Busy(d, "running", NoAsset)
  PROVE  (OkIsLocked /\ BackendFirst)'
<1>0. \A e \in Dialogs : Locked(e)' <=> Locked(e)
  BY DEF Locked, RoundStep
<1>1. \A e \in Dialogs : e # d => npm'[e] = npm[e] /\ net'[e] = net[e] /\ result'[e] = result[e]
  BY DEF RoundStep, FailUpdate, StartDownload, Idle, Busy, TypeOK
<1>2. npm'[d] # "ok"
  BY DEF RoundStep, FailUpdate, StartDownload, Idle, Busy, TypeOK
<1>3. OkIsLocked'
  BY <1>0, <1>1, <1>2 DEF OkIsLocked
<1>4. FailUpdate(d) \/ Busy(d, "running", NoAsset)
        => net'[d] = NoAsset /\ result'[d] # "done"
  BY DEF FailUpdate, Idle, Busy, TypeOK
<1>5. "Backend" \in ticked'[d] /\ (net'[d] # NoAsset \/ result'[d] = "done") => Locked(d)
  BY <1>4
<1>6. ASSUME NEW e \in Dialogs, "Backend" \in ticked'[e],
             net'[e] # NoAsset \/ result'[e] = "done"
      PROVE  Locked(e)'
  <2>1. CASE e = d
    BY <1>0, <1>5, <1>6, <2>1
  <2>2. CASE e # d
    <3>1. Locked(e)
      BY <1>1, <1>6, <2>2 DEF BackendFirst, Locked
    <3> QED
      BY <1>0, <3>1
  <2> QED
    BY <2>1, <2>2
<1>7. BackendFirst'
  BY <1>6 DEF BackendFirst, Locked
<1> QED
  BY <1>3, <1>7

\* What keeps, of every dialog, its round and what it has locked.
LEMMA LockedKept ==
  ASSUME OkIsLocked, BackendFirst,
         \A d \in Dialogs : Locked(d) => Locked(d)',
         UNCHANGED <<ticked, net, result>>,
         \A d \in Dialogs : npm'[d] = "ok" => npm[d] = "ok" \/ Locked(d)'
  PROVE  (OkIsLocked /\ BackendFirst)'
<1>1. OkIsLocked'
  BY DEF OkIsLocked
<1>2. BackendFirst'
  BY DEF BackendFirst, Locked
<1> QED
  BY <1>1, <1>2

LEMMA LockedNext ==
  TypeOK /\ BusyMeansWork /\ Closed /\ OkIsLocked /\ BackendFirst /\ [Next]_vars
    => (OkIsLocked /\ BackendFirst)'
<1> SUFFICES ASSUME TypeOK, BusyMeansWork, Closed, OkIsLocked, BackendFirst, [Next]_vars
             PROVE  (OkIsLocked /\ BackendFirst)'
  OBVIOUS
<1>1. ASSUME UNCHANGED dialogVars, UNCHANGED <<installed, writer>>
      PROVE  (OkIsLocked /\ BackendFirst)'
  BY <1>1, LockedKept DEF dialogVars, Locked
<1>2. CASE SilentCheck \/ ManualCheck \/ CheckRuns \/ UNCHANGED vars
  <2>1. UNCHANGED <<installed, writer>>
    BY <1>2 DEF SilentCheck, ManualCheck, CheckRuns, vars, systemVars
  <2> QED
    BY <1>1, <1>2, <2>1, CheckLeavesRounds
<1>3. CASE FinishUpdateCheck
  <2>0. UNCHANGED <<installed, writer>>
    BY <1>3 DEF FinishUpdateCheck, systemVars
  <2>1. CASE worker = "manual"
    <3>1. PICK offers : OpenDialog(offers)
      BY <1>3, <2>1 DEF FinishUpdateCheck
    <3>2. UNCHANGED <<npm, net, ticked, result>>
      BY <3>1 DEF OpenDialog
    <3>3. \A e \in Dialogs : e # depth + 1 => target'[e] = target[e]
      BY <3>1 DEF OpenDialog, TypeOK
    <3>4. \A e \in Dialogs : e = depth + 1 =>
            npm[e] = "none" /\ net[e] = NoAsset /\ result[e] = "none"
      BY DEF BusyMeansWork, Closed, TypeOK, Dialogs
    <3>5. OkIsLocked'
      BY <2>0, <3>2, <3>3, <3>4 DEF OkIsLocked, Locked
    <3>6. BackendFirst'
      BY <2>0, <3>2, <3>3, <3>4 DEF BackendFirst
    <3> QED
      BY <3>5, <3>6
  <2> QED
    BY <1>1, <1>3, <2>0, <2>1 DEF FinishUpdateCheck
<1>4. ASSUME NEW d \in Dialogs, OnUpdate(d) PROVE (OkIsLocked /\ BackendFirst)'
  <2>1. PICK steps \in SUBSET Offered(d) \ {{}} :
          ticked' = [ticked EXCEPT ![d] = steps] /\ ProcessNextStep(d, steps)
    BY <1>4 DEF OnUpdate
  <2>2. RoundStep(d) /\ UNCHANGED <<installed, writer>>
    BY <1>4, RoundSteps DEF OnUpdate, systemVars
  <2>3. ticked'[d] = steps /\ \A e \in Dialogs : e # d => ticked'[e] = ticked[e]
    BY <2>1 DEF TypeOK
  <2>4. "Backend" \notin steps \/ Busy(d, "running", NoAsset)
    BY <2>1 DEF ProcessNextStep, RunBackendUpdate
  <2> QED
    BY <2>2, <2>3, <2>4, LockedRound
<1>5. ASSUME NEW d \in Dialogs, OnBackendUpdateFinished(d)
      PROVE  (OkIsLocked /\ BackendFirst)'
  <2>1. RoundStep(d) /\ UNCHANGED <<installed, writer, ticked>>
    BY <1>5, RoundSteps DEF OnBackendUpdateFinished, systemVars
  <2>2. Locked(d) \/ FailUpdate(d)
    BY <1>5 DEF OnBackendUpdateFinished, BackendFinished, OkIsLocked
  <2> QED
    BY <2>1, <2>2, LockedRound
<1>6. ASSUME NEW d \in Dialogs, DownloadFails(d) PROVE (OkIsLocked /\ BackendFirst)'
  <2>1. RoundStep(d) /\ FailUpdate(d) /\ UNCHANGED <<installed, writer, ticked>>
    BY <1>6, RoundSteps DEF DownloadFails, systemVars
  <2> QED
    BY <2>1, LockedRound
<1>7. ASSUME NEW d \in Dialogs, Reject(d) PROVE (OkIsLocked /\ BackendFirst)'
  <2>1. /\ npm[d] = "none" /\ net[d] = NoAsset /\ result'[d] = "none"
        /\ UNCHANGED <<installed, npm, net>>
    BY <1>7 DEF Reject, MayClose, BusyMeansWork, TypeOK
  <2>2. \A e \in Dialogs : e # d =>
          target'[e] = target[e] /\ ticked'[e] = ticked[e] /\ result'[e] = result[e]
    BY <1>7 DEF Reject, TypeOK
  <2>3. Orphan \notin {0} \cup Dialogs
    BY FlowAssumption DEF Orphan, Dialogs
  <2>4. \A e \in Dialogs : e # d /\ Locked(e) => Locked(e)'
    BY <1>7, <2>1, <2>2, <2>3 DEF Reject, Locked
  <2>5. OkIsLocked'
    BY <2>1, <2>4 DEF OkIsLocked
  <2>6. ASSUME NEW e \in Dialogs, "Backend" \in ticked'[e],
               net'[e] # NoAsset \/ result'[e] = "done"
        PROVE  Locked(e)'
    <3>1. e # d
      BY <2>1, <2>6
    <3>2. Locked(e)
      BY <2>1, <2>2, <2>6, <3>1 DEF BackendFirst, Locked
    <3> QED
      BY <2>4, <3>1, <3>2
  <2>7. BackendFirst'
    BY <2>6 DEF BackendFirst, Locked
  <2> QED
    BY <2>5, <2>7
<1>8. ASSUME NEW d \in Dialogs, NpmFails(d) \/ NpmTimesOut(d)
      PROVE  (OkIsLocked /\ BackendFirst)'
  <2>1. /\ npm' = [npm EXCEPT ![d] = "failed"]
        /\ UNCHANGED <<installed, writer, target, ticked, net, result>>
    BY <1>8 DEF NpmFails, NpmTimesOut, systemVars
  <2>2. \A e \in Dialogs : npm'[e] = "ok" => npm[e] = "ok"
    BY <2>1 DEF TypeOK
  <2> QED
    BY <2>1, <2>2, LockedKept DEF Locked
<1>9. ASSUME NEW d \in Dialogs, NpmInstalls(d) PROVE (OkIsLocked /\ BackendFirst)'
  <2>1. /\ npm' = [npm EXCEPT ![d] = "ok"] /\ installed' = target[d] /\ writer' = d
        /\ UNCHANGED <<target, ticked, net, result>>
    BY <1>9 DEF NpmInstalls
  <2>2. \A e \in Dialogs : Locked(e)'
    BY <2>1 DEF Locked, Dialogs
  <2> QED
    BY <2>1, <2>2, LockedKept
<1>10. CASE OrphanEnds
  <2>1. UNCHANGED dialogVars /\ (writer' = Orphan \/ UNCHANGED <<installed, writer>>)
    BY <1>10 DEF OrphanEnds
  <2>2. Orphan \notin {0} \cup Dialogs
    BY FlowAssumption DEF Orphan, Dialogs
  <2>3. \A e \in Dialogs : Locked(e) => Locked(e)'
    BY <2>1, <2>2 DEF Locked, dialogVars
  <2> QED
    BY <2>1, <2>3, LockedKept DEF dialogVars
<1>11. CASE Leave
  BY <1>11 DEF Leave, OkIsLocked, BackendFirst
<1> QED
  BY <1>2, <1>3, <1>4, <1>5, <1>6, <1>7, <1>8, <1>9, <1>10, <1>11
  DEF Next, DialogStep, HandOver, Quit

LEMMA LockedInit == Init => OkIsLocked /\ BackendFirst
BY DEF Init, OkIsLocked, BackendFirst

-----------------------------------------------------------------------------
(* DownloadsBestFit.                                                       *)

\* What is downloaded is a choice of selectBestAsset of the dialog's release.
Chosen(d) ==
  \E i \in BestAssets(release[d].assets) :
    Acceptable(release[d].assets[i]) /\ net[d] = release[d].assets[i]

NetIsChosen == \A d \in Dialogs : net[d] # NoAsset => Chosen(d)

LEMMA ChosenFits == TypeOK /\ NetIsChosen => DownloadsBestFit
<1> SUFFICES ASSUME TypeOK, NetIsChosen, NEW d \in Dialogs, net[d] # NoAsset
             PROVE  /\ Selectable(net[d]) /\ Acceptable(net[d])
                    /\ \E i \in 1..Len(release[d].assets) : net[d] = release[d].assets[i]
                    /\ \A i \in 1..Len(release[d].assets) :
                         Selectable(release[d].assets[i])
                           => ~PlainlyBetter(release[d].assets[i], net[d])
  BY DEF DownloadsBestFit
<1>1. PICK i \in BestAssets(release[d].assets) :
        Acceptable(release[d].assets[i]) /\ net[d] = release[d].assets[i]
  BY DEF NetIsChosen, Chosen
<1>2. release[d].assets \in Seq(Asset)
  BY DEF TypeOK, Release
<1> QED
  BY <1>1, <1>2, NoneBeatsTheBest

LEMMA ChosenNext ==
  TypeOK /\ BusyMeansWork /\ NetIsChosen /\ [Next]_vars => NetIsChosen'
<1> SUFFICES ASSUME TypeOK, BusyMeansWork, NetIsChosen, [Next]_vars
             PROVE  NetIsChosen'
  OBVIOUS
<1>0. ASSUME NEW d \in Dialogs, release'[d] = release[d], net'[d] = net[d],
             net'[d] # NoAsset
      PROVE  Chosen(d)'
  BY <1>0 DEF NetIsChosen, Chosen
<1>1. CASE UNCHANGED <<release, net>>
  BY <1>0, <1>1 DEF NetIsChosen
<1>2. CASE FinishUpdateCheck
  <2>1. CASE worker = "manual"
    <3>1. PICK offers : OpenDialog(offers)
      BY <1>2, <2>1 DEF FinishUpdateCheck
    <3>2. \A e \in Dialogs : e # depth + 1 => release'[e] = release[e]
      BY <3>1 DEF OpenDialog, TypeOK
    <3>3. \A e \in Dialogs : e = depth + 1 => net[e] = NoAsset
      BY DEF BusyMeansWork, TypeOK, Dialogs
    <3>4. net' = net
      BY <3>1 DEF OpenDialog
    <3> QED
      BY <1>0, <3>2, <3>3, <3>4 DEF NetIsChosen
  <2> QED
    BY <1>1, <1>2, <2>1 DEF FinishUpdateCheck, dialogVars
<1>3. ASSUME NEW d \in Dialogs, RoundStep(d) PROVE NetIsChosen'
  <2>1. \A e \in Dialogs : e # d => net'[e] = net[e] /\ release'[e] = release[e]
    BY <1>3 DEF RoundStep, FailUpdate, StartDownload, Idle, Busy, TypeOK
  <2>2. net'[d] # NoAsset => Chosen(d)'
    <3>1. CASE StartDownload(d)
      <4>1. PICK i \in BestAssets(release[d].assets) :
              /\ Acceptable(release[d].assets[i])
              /\ Busy(d, "none", release[d].assets[i])
        BY <3>1 DEF StartDownload
      <4>2. net'[d] = release[d].assets[i] /\ release' = release
        BY <1>3, <4>1 DEF Busy, TypeOK, RoundStep
      <4> QED
        BY <4>1, <4>2 DEF Chosen
    <3>2. CASE ~StartDownload(d)
      BY <1>3, <3>2 DEF RoundStep, FailUpdate, Idle, Busy, TypeOK
    <3> QED
      BY <3>1, <3>2
  <2> QED
    BY <1>0, <2>1, <2>2 DEF NetIsChosen
<1>4. ASSUME NEW d \in Dialogs, Reject(d) PROVE NetIsChosen'
  <2>1. net' = net /\ net[d] = NoAsset /\ \A e \in Dialogs : e # d => release'[e] = release[e]
    BY <1>4 DEF Reject, MayClose, BusyMeansWork, TypeOK
  <2> QED
    BY <1>0, <2>1 DEF NetIsChosen
<1>5. ASSUME NEW d \in Dialogs, NpmFails(d) \/ NpmInstalls(d) \/ NpmTimesOut(d)
      PROVE  NetIsChosen'
  BY <1>1, <1>5 DEF NpmFails, NpmInstalls, NpmTimesOut
<1>6. CASE Leave
  BY <1>6 DEF Leave, NetIsChosen
<1> QED
  BY <1>1, <1>2, <1>3, <1>4, <1>5, <1>6, RoundSteps, CheckLeavesRounds
  DEF Next, DialogStep, HandOver, Quit, dialogVars

LEMMA ChosenInit == Init => NetIsChosen
BY DEF Init, NetIsChosen

-----------------------------------------------------------------------------
(* The inductive invariant, and what follows.                              *)

FlowInv ==
  /\ TypeOK /\ Room
  /\ BusyMeansWork
  /\ Closed /\ RetryIsOffered
  /\ OkIsLocked /\ BackendFirst
  /\ NetIsChosen

LEMMA FlowInvariant == Spec => []FlowInv
<1>1. Init => FlowInv
  BY TypeInit, BusyInit, RetryInit, LockedInit, ChosenInit DEF Init, Room, FlowInv
<1>2. FlowInv /\ [Next]_vars => FlowInv'
  BY TypeNext, RoomNext, BusyNext, RetryNext, LockedNext, ChosenNext DEF FlowInv
<1> QED
  BY <1>1, <1>2, PTL DEF Spec

\* A dialog is busy exactly while npm or a download will report to it, never
\* both, and one that is closed has nothing under way.
THEOREM BusyMeansWorkHolds == Spec => []BusyMeansWork
BY FlowInvariant, PTL DEF FlowInv

\* The button is there exactly while there are offers, no step is under way
\* and no round has ended well.
THEOREM RetryIsOfferedHolds == Spec => []RetryIsOffered
BY FlowInvariant, PTL DEF FlowInv

\* With the box of the backend ticked, neither the download begins nor the end
\* is announced before npm has installed the locked version.
THEOREM BackendFirstHolds == Spec => []BackendFirst
BY FlowInvariant, PTL DEF FlowInv

\* What is downloaded is of the release that the dialog shows and from Gitee, no
\* checksum, and the release has no file that is better in format,
\* computer and kind.  It may be a debug or source artefact: see DownloadsBestFit.
THEOREM DownloadsBestFitHolds == Spec => []DownloadsBestFit
<1>1. FlowInv => DownloadsBestFit
  BY ChosenFits DEF FlowInv
<1> QED
  BY <1>1, FlowInvariant, PTL

\* A backend is offered only when both versions are valid and compareSemVer
\* has the registry's for the greater: the way back is not offered then.
THEOREM OfferIsAnUpgrade ==
  ASSUME NEW h \in Heard, Offers(h).backend # Unknown
  PROVE  /\ IsValidSemVer(h.current) /\ IsValidSemVer(Offers(h).backend)
         /\ SemVerGreater(Offers(h).backend, h.current)
         /\ ~SemVerGreater(h.current, Offers(h).backend)
<1>1. Offers(h).backend = h.latest /\ BackendUpgrade(h.current, h.latest)
  BY OffersType
<1>2. h.current \in Version /\ h.latest \in Version
  BY HeardParts, KnownAreVersions
<1> QED
  BY <1>1, <1>2, UpgradeIsGreater, SemVerGreaterOneWay

-----------------------------------------------------------------------------
(***************************************************************************)
(* The release that is offered.  UpdatePlan says which entry parseRelease  *)
(* ends with; here it is shown, with the order of VersionsProofs, that its *)
(* loop does end with that one.                                            *)
(***************************************************************************)

\* The loop of parseRelease after the i-th entry: the index of best, 0 while
\* bestPtr is null.
Scan(releases) ==
  CHOOSE best : best = [i \in 0..Len(releases) |->
    IF i = 0 THEN 0
    ELSE IF /\ IsValidSemVer(releases[i].tag)
            /\ best[i - 1] = 0 \/ IsBetterRelease(releases[i], releases[best[i - 1]])
           THEN i ELSE best[i - 1]]

LEMMA ScanDefined ==
  ASSUME NEW releases \in Seq(Release)
  PROVE  /\ Scan(releases)[0] = 0
         /\ \A i \in 1..Len(releases) :
              Scan(releases)[i] =
                IF /\ IsValidSemVer(releases[i].tag)
                   /\ \/ Scan(releases)[i - 1] = 0
                      \/ IsBetterRelease(releases[i], releases[Scan(releases)[i - 1]])
                  THEN i ELSE Scan(releases)[i - 1]
<1> DEFINE E(i, b) == IF /\ IsValidSemVer(releases[i].tag)
                         /\ b = 0 \/ IsBetterRelease(releases[i], releases[b])
                        THEN i ELSE b
           G(n, f) == f = [i \in 0..n |-> IF i = 0 THEN 0 ELSE E(i, f[i - 1])]
           Bad == {n \in 0..Len(releases) : ~\E f : G(n, f)}
<1> HIDE DEF E
<1>0. Len(releases) \in Nat /\ Bad \in SUBSET Nat
  OBVIOUS
<1>1. ASSUME Bad # {} PROVE FALSE
  <2>1. PICK n \in Bad : n - 1 \notin Bad
    BY <1>0, <1>1, LeastNat
  <2>2. n # 0
    <3> SUFFICES \E f : G(0, f)
      BY <2>1
    <3> WITNESS [i \in 0..0 |-> 0]
    <3> QED
      OBVIOUS
  <2>3. n \in Nat /\ n - 1 \in Nat /\ n - 1 \in 0..Len(releases)
    BY <1>0, <2>1, <2>2
  <2>4. PICK g : G(n - 1, g)
    BY <2>1, <2>3
  <2> DEFINE f == [i \in 0..n |-> IF i = n THEN E(n, g[n - 1]) ELSE g[i]]
  <2>5. G(n, f)
    <3>1. \A i \in 0..n : f[i] = IF i = 0 THEN 0 ELSE E(i, f[i - 1])
      <4> TAKE i \in 0..n
      <4>1. CASE i = n
        BY <2>2, <2>3, <4>1
      <4>2. CASE i # n /\ i # 0
        <5>1. i \in 0..(n - 1) /\ i - 1 \in 0..n /\ i - 1 # n
          BY <2>3, <4>2
        <5>2. g[i] = E(i, g[i - 1])
          BY <2>4, <4>2, <5>1
        <5> QED
          BY <4>2, <5>1, <5>2
      <4>3. CASE i = 0
        <5>1. 0 \in 0..(n - 1)
          BY <2>3
        <5>2. g[0] = 0
          BY <2>4, <5>1
        <5> QED
          BY <2>2, <4>3, <5>2
      <4> QED
        BY <4>1, <4>2, <4>3
    <3> QED
      BY <3>1
  <2>6. \E h : G(n, h)
    BY <2>5
  <2> QED
    BY <2>1, <2>6
<1>2. \E f : G(Len(releases), f)
  BY <1>0, <1>1
<1>3. Scan(releases) = CHOOSE f : G(Len(releases), f)
  BY DEF Scan, E
<1>4. G(Len(releases), Scan(releases))
  BY <1>2, <1>3
<1>5. Scan(releases)[0] = 0
  BY <1>0, <1>4
<1>6. \A i \in 1..Len(releases) : Scan(releases)[i] = E(i, Scan(releases)[i - 1])
  <2> TAKE i \in 1..Len(releases)
  <2>1. i \in 0..Len(releases) /\ i # 0
    BY <1>0
  <2> QED
    BY <1>4, <2>1
<1> QED
  BY <1>5, <1>6 DEF E

\* Of two entries with valid tags, the better one is the one with the greater
\* tag.
LEMMA BetterIsGreater ==
  ASSUME NEW a \in Release, NEW b \in Release, IsValidSemVer(a.tag), IsValidSemVer(b.tag)
  PROVE  IsBetterRelease(a, b) <=> SemVerGreater(a.tag, b.tag)
BY DEF IsBetterRelease, CompareVersions

LEMMA BetterIsAnOrder ==
  ASSUME NEW a \in Release, NEW b \in Release, NEW c \in Release,
         IsValidSemVer(a.tag), IsValidSemVer(b.tag), IsValidSemVer(c.tag),
         IsBetterRelease(a, b)
  PROVE  /\ ~IsBetterRelease(b, a)
         /\ IsBetterRelease(b, c) => IsBetterRelease(a, c)
         /\ ~IsBetterRelease(c, b) => IsBetterRelease(a, c)
<1>1. a.tag \in Version /\ b.tag \in Version /\ c.tag \in Version
  BY DEF Release
<1>2. SemVerGreater(a.tag, b.tag)
  BY BetterIsGreater
<1>3. ~SemVerGreater(b.tag, a.tag)
  BY <1>1, <1>2, SemVerGreaterOneWay
<1>4. SemVerGreater(b.tag, c.tag) => SemVerGreater(a.tag, c.tag)
  BY <1>1, <1>2, SemVerGreaterTransitive
<1>5. ~SemVerGreater(c.tag, b.tag) => SemVerGreater(a.tag, c.tag)
  <2>1. b.tag = c.tag \/ SemVerGreater(b.tag, c.tag) \/ SemVerGreater(c.tag, b.tag)
    BY <1>1, SemVerGreaterTotal
  <2> QED
    BY <1>2, <1>4, <2>1
<1> QED
  BY <1>3, <1>4, <1>5, BetterIsGreater

\* best of the first n entries, by the words of UpdatePlan.
BestUpTo(releases, n, b) ==
  /\ b \in 1..n /\ IsValidSemVer(releases[b].tag)
  /\ \A j \in 1..n : IsValidSemVer(releases[j].tag) =>
       /\ j < b => IsBetterRelease(releases[b], releases[j])
       /\ j > b => ~IsBetterRelease(releases[j], releases[b])

LEMMA ScanStep ==
  ASSUME NEW releases \in Seq(Release), NEW n \in 1..Len(releases), NEW b,
         \/ b = 0 /\ \A j \in 1..(n - 1) : ~IsValidSemVer(releases[j].tag)
         \/ BestUpTo(releases, n - 1, b),
         NEW c,
         c = IF /\ IsValidSemVer(releases[n].tag)
                /\ b = 0 \/ IsBetterRelease(releases[n], releases[b])
               THEN n ELSE b
  PROVE  \/ c = 0 /\ \A j \in 1..n : ~IsValidSemVer(releases[j].tag)
         \/ BestUpTo(releases, n, c)
<1> DEFINE V(j) == IsValidSemVer(releases[j].tag)
           B(i, j) == IsBetterRelease(releases[i], releases[j])
<1>0. /\ Len(releases) \in Nat /\ n \in Nat
      /\ \A j \in 1..n : releases[j] \in Release
      /\ \A j \in 1..n : j \in 1..(n - 1) \/ j = n
  OBVIOUS
<1>a. \A i, j, k \in 1..n : V(i) /\ V(j) /\ V(k) /\ B(i, j) =>
        /\ ~B(j, i)
        /\ B(j, k) => B(i, k)
        /\ ~B(k, j) => B(i, k)
  BY <1>0, BetterIsAnOrder
<1>b. c = IF V(n) /\ (b = 0 \/ B(n, b)) THEN n ELSE b
  OBVIOUS
<1>c. \/ b = 0 /\ \A j \in 1..(n - 1) : ~V(j)
      \/ /\ b \in 1..(n - 1) /\ V(b)
         /\ \A j \in 1..(n - 1) : V(j) => (j < b => B(b, j)) /\ (j > b => ~B(j, b))
  BY DEF BestUpTo
<1> SUFFICES \/ c = 0 /\ \A j \in 1..n : ~V(j)
             \/ /\ c \in 1..n /\ V(c)
                /\ \A j \in 1..n : V(j) => (j < c => B(c, j)) /\ (j > c => ~B(j, c))
  BY DEF BestUpTo
<1> HIDE DEF V, B
<1>1. CASE b = 0 /\ ~V(n)
  BY <1>0, <1>1, <1>b, <1>c
<1>2. CASE b = 0 /\ V(n)
  BY <1>0, <1>2, <1>b, <1>c
<1>3. CASE b # 0 /\ ~(V(n) /\ B(n, b))
  BY <1>0, <1>3, <1>b, <1>c
<1>4. CASE b # 0 /\ V(n) /\ B(n, b)
  <2>1. c = n /\ b \in 1..(n - 1) /\ b \in 1..n /\ V(b)
    BY <1>0, <1>4, <1>b, <1>c
  <2>2. ASSUME NEW j \in 1..n, V(j), j < n PROVE B(n, j)
    <3>1. j \in 1..(n - 1) /\ n \in 1..n
      BY <1>0, <2>2
    <3>2. (j < b => B(b, j)) /\ (j > b => ~B(j, b)) /\ j \in Nat /\ b \in Nat
      BY <1>0, <1>4, <1>c, <2>1, <2>2, <3>1
    <3>3. CASE j < b
      BY <1>4, <1>a, <2>1, <2>2, <3>1, <3>2, <3>3
    <3>4. CASE j > b
      BY <1>4, <1>a, <2>1, <2>2, <3>1, <3>2, <3>4
    <3>5. CASE j = b
      BY <1>4, <3>5
    <3> QED
      BY <3>2, <3>3, <3>4, <3>5
  <2>3. \A j \in 1..n : ~(j > n)
    BY <1>0
  <2> QED
    BY <1>0, <1>4, <2>1, <2>2, <2>3
<1> QED
  BY <1>1, <1>2, <1>3, <1>4

LEMMA ScanEnds ==
  ASSUME NEW releases \in Seq(Release), NEW last, last = Scan(releases)[Len(releases)]
  PROVE  \/ last = 0 /\ \A j \in 1..Len(releases) : ~IsValidSemVer(releases[j].tag)
         \/ last # 0 /\ BestUpTo(releases, Len(releases), last)
<1> DEFINE Done(n) == \/ /\ Scan(releases)[n] = 0
                         /\ \A j \in 1..n : ~IsValidSemVer(releases[j].tag)
                      \/ BestUpTo(releases, n, Scan(releases)[n])
           Bad == {n \in 0..Len(releases) : ~Done(n)}
<1>0. Len(releases) \in Nat /\ Bad \in SUBSET Nat
  OBVIOUS
<1>1. ASSUME Bad # {} PROVE FALSE
  <2>1. PICK n \in Bad : n - 1 \notin Bad
    BY <1>0, <1>1, LeastNat
  <2>2. n # 0
    BY <2>1, ScanDefined
  <2>3. n \in 1..Len(releases) /\ n - 1 \in 0..Len(releases)
    BY <1>0, <2>1, <2>2
  <2>4. Done(n - 1)
    BY <2>1, <2>3
  <2>5. PICK b, c : b = Scan(releases)[n - 1] /\ c = Scan(releases)[n]
    OBVIOUS
  <2>6. c = IF /\ IsValidSemVer(releases[n].tag)
               /\ b = 0 \/ IsBetterRelease(releases[n], releases[b])
              THEN n ELSE b
    BY <2>3, <2>5, ScanDefined
  <2>7. \/ b = 0 /\ \A j \in 1..(n - 1) : ~IsValidSemVer(releases[j].tag)
        \/ BestUpTo(releases, n - 1, b)
    BY <2>4, <2>5
  <2>8. \/ c = 0 /\ \A j \in 1..n : ~IsValidSemVer(releases[j].tag)
        \/ BestUpTo(releases, n, c)
    BY <2>3, <2>6, <2>7, ScanStep
  <2>9. Done(n)
    BY <2>5, <2>8
  <2> QED
    BY <2>1, <2>9
<1>2. Done(Len(releases))
  BY <1>0, <1>1
<1> QED
  BY <1>0, <1>2 DEF BestUpTo

\* The loop of parseRelease, which keeps one best entry and compares it with
\* the next, ends with the entry that UpdatePlan describes, whatever the order
\* of the answer and however many of its tags are not valid.
THEOREM ScanFindsTheBest ==
  ASSUME NEW releases \in Seq(Release)
  PROVE  LET last == Scan(releases)[Len(releases)]
         IN  ParseReleases(releases) = IF last = 0 THEN NoRelease ELSE releases[last]
<1> DEFINE N == Len(releases)
           valid == {i \in 1..N : IsValidSemVer(releases[i].tag)}
           best  == {i \in valid : \A j \in valid :
                       /\ j < i => IsBetterRelease(releases[i], releases[j])
                       /\ j > i => ~IsBetterRelease(releases[j], releases[i])}
<1>0. N \in Nat
  OBVIOUS
<1>1. PICK last : last = Scan(releases)[N]
  OBVIOUS
<1>2. \/ last = 0 /\ \A j \in 1..N : ~IsValidSemVer(releases[j].tag)
      \/ last # 0 /\ BestUpTo(releases, N, last)
  BY <1>1, ScanEnds
<1>3. CASE last = 0
  <2>1. best = {}
    BY <1>2, <1>3
  <2>2. ParseReleases(releases) = NoRelease
    BY <2>1 DEF ParseReleases
  <2> QED
    BY <1>1, <1>3, <2>2
<1>4. CASE last # 0
  <2>1. last \in best
    BY <1>2, <1>4 DEF BestUpTo
  <2>2. ASSUME NEW i \in best PROVE i = last
    <3>1. i \in Nat /\ last \in Nat /\ i \in valid /\ last \in valid
      BY <1>0, <2>1
    <3>2. ~(i < last)
      BY <2>1, <3>1
    <3>3. ~(i > last)
      BY <2>1, <3>1
    <3> QED
      BY <3>1, <3>2, <3>3
  <2>3. ParseReleases(releases) = IF best = {} THEN NoRelease
                                  ELSE releases[CHOOSE i \in best : TRUE]
    BY DEF ParseReleases
  <2> HIDE DEF best
  <2>4. (CHOOSE i \in best : TRUE) = last /\ best # {}
    BY <2>1, <2>2
  <2>5. ParseReleases(releases) = releases[last]
    BY <2>3, <2>4
  <2> QED
    BY <1>1, <1>4, <2>5
<1> QED
  BY <1>3, <1>4

\* Of what Gitee announces nothing is newer than what parseRelease ends with,
\* and an answer with a valid tag in it is never taken for one without.
LEMMA NothingNewerIsAnnounced ==
  ASSUME NEW releases \in Seq(Release), NEW i \in 1..Len(releases),
         IsValidSemVer(releases[i].tag)
  PROVE  /\ IsValidSemVer(ParseReleases(releases).tag)
         /\ ~Newer(releases[i].tag, ParseReleases(releases).tag)
<1>1. PICK last : last = Scan(releases)[Len(releases)]
  OBVIOUS
<1>2. last # 0 /\ BestUpTo(releases, Len(releases), last)
  BY <1>1, ScanEnds
<1>3. ParseReleases(releases) = releases[last]
  BY <1>1, <1>2, ScanFindsTheBest
<1>4. /\ releases[last] \in Release /\ releases[i] \in Release
      /\ IsValidSemVer(releases[last].tag)
      /\ last \in Nat /\ i \in Nat
  BY <1>2 DEF BestUpTo
<1>5. ~SemVerGreater(releases[i].tag, releases[last].tag)
  <2>1. CASE i = last
    <3>1. releases[i].tag = releases[last].tag /\ releases[i].tag \in Version
      BY <1>4, <2>1 DEF Release
    <3> QED
      BY <3>1, SemVerGreaterOneWay
  <2>2. CASE i < last
    <3>1. IsBetterRelease(releases[last], releases[i])
      BY <1>2, <2>2 DEF BestUpTo
    <3>2. ~IsBetterRelease(releases[i], releases[last])
      BY <1>4, <3>1, BetterIsAnOrder
    <3> QED
      BY <1>4, <3>2, BetterIsGreater
  <2>3. CASE i > last
    <3>1. ~IsBetterRelease(releases[i], releases[last])
      BY <1>2, <2>3 DEF BestUpTo
    <3> QED
      BY <1>4, <3>1, BetterIsGreater
  <2> QED
    BY <1>4, <2>1, <2>2, <2>3
<1>6. releases[i].tag \in Version /\ releases[last].tag \in Version
  BY <1>4 DEF Release
<1> QED
  BY <1>3, <1>4, <1>5, <1>6, CompareSemVerIsSemVer

LEMMA ValidIsNotUnknown == ~IsValidSemVer(Unknown)
BY DEF IsValidSemVer, ValidNumber, IsNumericIdent, Unknown

\* What can be offered is an upgrade by the rules of semver.org.
LEMMA OffersOfHeard ==
  ASSUME NEW h \in Heard
  PROVE  /\ Offers(h).backend # Unknown =>
              /\ IsValidSemVer(Offers(h).backend) /\ IsValidSemVer(h.current)
              /\ Newer(Offers(h).backend, h.current)
         /\ Offers(h).desktop # NoRelease =>
              /\ Newer(Offers(h).desktop.tag, DesktopVersion)
              /\ \A i \in 1..Len(h.response.releases) :
                   IsValidSemVer(h.response.releases[i].tag) =>
                     ~Newer(h.response.releases[i].tag, Offers(h).desktop.tag)
<1>1. ASSUME Offers(h).backend # Unknown
      PROVE  /\ IsValidSemVer(Offers(h).backend) /\ IsValidSemVer(h.current)
             /\ Newer(Offers(h).backend, h.current)
  <2>1. Offers(h).backend = h.latest /\ BackendUpgrade(h.current, h.latest)
    BY <1>1, OffersType
  <2>2. h.current \in Version /\ h.latest \in Version
    BY HeardParts, KnownAreVersions
  <2> QED
    BY <2>1, <2>2, UpgradeIsGreater, CompareSemVerIsSemVer
<1>2. ASSUME Offers(h).desktop # NoRelease
      PROVE  /\ Newer(Offers(h).desktop.tag, DesktopVersion)
             /\ \A i \in 1..Len(h.response.releases) :
                  IsValidSemVer(h.response.releases[i].tag) =>
                    ~Newer(h.response.releases[i].tag, Offers(h).desktop.tag)
  <2>1. h.response.releases \in Seq(Release)
    BY HeardParts
  <2>2. PICK got : got = ParseHttpResponse(h.response)
    OBVIOUS
  <2>3. DesktopState(got) = "Available" /\ Offers(h).desktop = got.release
    BY <1>2, <2>2 DEF Offers
  <2>4. got.release = ParseReleases(h.response.releases)
    BY <1>2, <2>2, <2>3 DEF ParseHttpResponse
  <2>5. IsUpgrade(got.release)
    BY <2>3 DEF DesktopState
  <2>6. /\ IsValidSemVer(got.release.tag)
        /\ SemVerGreater(got.release.tag, DesktopVersion)
    BY <2>5 DEF IsUpgrade, CompareVersions
  <2>7. got.release.tag \in Version
    BY <2>1, <2>4, ParseReleasesType DEF Release
  <2>8. Newer(got.release.tag, DesktopVersion)
    BY <2>6, <2>7, DesktopVersionAssumption, CompareSemVerIsSemVer
  <2> QED
    BY <2>1, <2>3, <2>4, <2>8, NothingNewerIsAnnounced
<1> QED
  BY <1>1, <1>2

\* What is offered is an upgrade by the rules of semver.org, newer than what
\* was installed at the time of the check, or than this shell, and of the
\* releases that were announced there is no newer one: whatever the lengths of
\* the numbers and the pre-releases, and in whatever order Gitee lists them.
THEOREM OffersAreUpgrades == Spec => []OffersOnlyUpgrades
<1>1. FlowInv => heard \in Heard
  BY DEF FlowInv, TypeOK
<1>2. FlowInv => OffersOnlyUpgrades
  BY <1>1, OffersOfHeard DEF OffersOnlyUpgrades
<1> QED
  BY <1>2, FlowInvariant, PTL
=============================================================================
