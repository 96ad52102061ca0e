----------------------------- MODULE UpdatePlan ------------------------------
(***************************************************************************)
(* What one check of the updates makes of the answers it gets: the state   *)
(* of the two components (Updater::check, DesktopVersionChecker,           *)
(* UpdatePlan) and, of a release, the file that is downloaded              *)
(* (DesktopReleaseDownloader::selectBestAsset).  No state.                 *)
(***************************************************************************)
EXTENDS Versions, FiniteSets

CONSTANT DesktopVersion  \* DSH_DESKTOP_VERSION

ASSUME DesktopVersionAssumption ==
  DesktopVersion \in Version /\ IsValidSemVer(DesktopVersion)

ComponentStates == {"Current", "Available", "Unavailable", "Invalid"}

-----------------------------------------------------------------------------
(* The backend: the installed version and the registry's.                  *)

\* Updater::check
BackendUpgrade(current, latest) ==
  /\ current # Unknown /\ latest # Unknown
  /\ CompareVersions(latest, current) > 0

BackendState(current, latest) ==
  LET known == IsValidSemVer(current) /\ IsValidSemVer(latest)
  IN  IF BackendUpgrade(current, latest)
        THEN IF known THEN "Available" ELSE "Invalid"
      ELSE IF latest = Unknown THEN "Invalid"
      ELSE IF current = Unknown THEN "Unavailable"
      ELSE IF known THEN "Current" ELSE "Invalid"

-----------------------------------------------------------------------------
(* The desktop: the answer of Gitee, a status code (0: none came) and a    *)
(* body, which is empty, unreadable or a sequence of releases.             *)

\* What the name and the URL say of a file.
Asset == [format : {"appimage", "deb", "rpm", "tar", "zip", "other"},
          arch : {"host", "other", "none"},
          kind : {"package", "odd", "auxiliary"},  \* odd: source, debug, test
          site : {"gitee", "elsewhere"},           \* elsewhere, or not HTTPS
          name : {"plain", "unsafe"}]              \* what sanitizeFileName says

Release   == [tag : Version, assets : Seq(Asset)]
NoRelease == [tag |-> Unknown, assets |-> <<>>]

Response == [http : Nat, body : {"empty", "garbage", "releases"},
             releases : Seq(Release)]

\* Defect: the server's order is trusted.
IsBetterReleaseLast(candidate, best) == TRUE

\* An entry replaces the best one so far only when its version is greater.
IsBetterRelease(candidate, best) == CompareVersions(candidate.tag, best.tag) > 0

\* parseRelease: entries without a valid tag are skipped; what remains is the
\* entry that has replaced those before it and is not replaced after it.
ParseReleases(releases) ==
  LET valid == {i \in 1..Len(releases) : IsValidSemVer(releases[i].tag)}
      best  == {i \in valid : \A j \in valid :
                  /\ j < i => IsBetterRelease(releases[i], releases[j])
                  /\ j > i => ~IsBetterRelease(releases[j], releases[i])}
  IN  IF best = {} THEN NoRelease ELSE releases[CHOOSE i \in best : TRUE]

\* parseHttpResponse and parseRelease: the status of the check and the release.
ParseHttpResponse(response) ==
  LET best == ParseReleases(response.releases)
      status ==
        IF response.http = 0 THEN "Offline"
        ELSE IF response.http = 404 THEN "NoRelease"
        ELSE IF response.http \notin 200..299 THEN "InvalidResponse"
        ELSE IF response.body = "empty" THEN "NoRelease"
        ELSE IF response.body = "garbage" THEN "InvalidResponse"
        ELSE IF response.releases = <<>> THEN "NoRelease"
        ELSE IF best = NoRelease THEN "InvalidResponse" ELSE "Ok"
  IN  [status |-> status, release |-> IF status = "Ok" THEN best ELSE NoRelease]

IsUpgrade(release) ==
  /\ IsValidSemVer(release.tag)
  /\ CompareVersions(release.tag, DesktopVersion) > 0

DesktopState(result) ==
  IF result.status = "Ok"
    THEN IF ~IsValidSemVer(result.release.tag) THEN "Invalid"
         ELSE IF IsUpgrade(result.release) THEN "Available" ELSE "Current"
  ELSE IF result.status = "NoRelease" THEN "Unavailable"
  ELSE "Invalid"

-----------------------------------------------------------------------------
(* The plan: what is offered of each component, Unknown or NoRelease when  *)
(* it is not Available.                                                    *)

Offers(heard) ==
  LET result == ParseHttpResponse(heard.response)
  IN  [backend |-> IF BackendState(heard.current, heard.latest) = "Available"
                     THEN heard.latest ELSE Unknown,
       desktop |-> IF DesktopState(result) = "Available"
                     THEN result.release ELSE NoRelease]

-----------------------------------------------------------------------------
(* The file of a release that is downloaded.                               *)

\* formatScore on Linux, the only system of this shell.
FormatScore == [appimage |-> 100, deb |-> 70, rpm |-> 60,
                tar |-> 30, zip |-> 20, other |-> 10]

\* Defect: the name of an architecture counts for nothing.
AssetScoreAnyArch(asset) == FormatScore[asset.format] - (IF asset.kind = "odd" THEN 30 ELSE 0)

AssetScore(asset) ==
  FormatScore[asset.format]
    + (IF asset.arch = "host" THEN 30 ELSE IF asset.arch = "other" THEN -30 ELSE 0)
    - (IF asset.kind = "odd" THEN 30 ELSE 0)

\* isAllowedUrl and sanitizeFileName, which start() asks for.
Acceptable(asset) == asset.site = "gitee" /\ asset.name = "plain"

\* The scores other than kSkipScore.
Selectable(asset) == asset.site = "gitee" /\ asset.kind # "auxiliary"

\* The indices that selectBestAsset can return: the first of those with the
\* highest score, or none.
BestAssets(assets) ==
  {i \in 1..Len(assets) :
     /\ Selectable(assets[i])
     /\ \A j \in 1..Len(assets) :
          Selectable(assets[j]) =>
            \/ AssetScore(assets[j]) < AssetScore(assets[i])
            \/ AssetScore(assets[j]) = AssetScore(assets[i]) /\ i <= j}
=============================================================================
