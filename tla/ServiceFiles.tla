----------------------------- MODULE ServiceFiles -----------------------------
(***************************************************************************)
(* The unit files of dsh-web.service and the file of ownership records:    *)
(* ServiceProvisioner writes a unit and records it, the uninstaller looks  *)
(* at records and systemd, asks the user, and removes unit and record.     *)
(* Both are processes that may be killed between two file operations, and  *)
(* the user and systemd work on the same files.  A unit is represented by  *)
(* its ExecStart, a record by the ExecStart its fingerprint was taken of.  *)
(***************************************************************************)
CONSTANTS
  Provisioners,  \* processes that own a ServiceProvisioner, at a time
  Uninstallers,  \* uninstallers at a time
  Specs,         \* the ExecStart lines that provisioned units have
  Others,        \* ExecStart lines of units written by others
  Official,      \* those that run "dsh web"
  NoText,        \* no unit, no record
  Prints,        \* does "systemctl show" print ExecStart as the unit has it?
  Root           \* geteuid() = 0

ASSUME TextAssumption  == NoText \notin Specs \cup Others \cup Official
ASSUME FlagAssumption  == Prints \subseteq BOOLEAN /\ Root \in BOOLEAN

Scopes == {"User", "System"}
Texts  == Specs \cup Others

\* The form that systemd prints: "{ path=... ; argv[]=... ; ... }".
Expanded(t) == <<"argv", t>>

ASSUME PrintAssumption == \A t, r \in Texts : Expanded(t) # r

VARIABLES
  unit,      \* the ExecStart of each unit file
  loaded,    \* the ExecStart that systemd has loaded
  disk,      \* the records in services-owned.json
  verbatim,  \* is ExecStart printed as the unit has it?
  ppc,       \* what each provisioner does
  spec,      \* scope and ExecStart of the plan being carried out
  mem,       \* ownership_ of the provisioner
  fresh,     \* newlyProvisioned_ and provisionedScope_
  upc,       \* what each uninstaller does
  recs,      \* records that the uninstaller has loaded
  seen,      \* the unit that its discovery selected
  plan,      \* UninstallPlan::action()
  stopped,   \* stopBackendService returned true
  failed,    \* apply() is going to return false
  wrote,     \* history: units that provisioners wrote
  touched    \* history: somebody else changed a file, or systemd knew an
             \* outdated one, since the discovery of the uninstaller

files       == <<unit, loaded, disk, verbatim>>
provisioner == <<ppc, spec, mem, fresh>>
uninstaller == <<upc, recs, seen, plan, stopped, failed>>
vars        == <<files, provisioner, uninstaller, wrote, touched>>

NoSpec    == [scope |-> "User", text |-> NoText]
NoRecords == [s \in Scopes |-> NoText]
NoUnit    == [valid |-> FALSE, scope |-> "User", text |-> NoText, record |-> NoText,
              consistency |-> "NotRecorded"]

Init ==
  /\ unit \in [Scopes -> Others \cup {NoText}] /\ loaded = unit
  /\ disk = NoRecords
  /\ verbatim \in Prints
  /\ ppc = [p \in Provisioners |-> "idle"]
  /\ spec = [p \in Provisioners |-> NoSpec]
  /\ mem = [p \in Provisioners |-> NoRecords]
  /\ fresh = [p \in Provisioners |-> "None"]
  /\ upc = [u \in Uninstallers |-> "none"]
  /\ recs = [u \in Uninstallers |-> NoRecords]
  /\ seen = [u \in Uninstallers |-> NoUnit]
  /\ plan = [u \in Uninstallers |-> "none"]
  /\ stopped = [u \in Uninstallers |-> FALSE]
  /\ failed = [u \in Uninstallers |-> FALSE]
  /\ wrote = {}
  /\ touched = [u \in Uninstallers |-> FALSE]

\* A file changes under the eyes of the uninstallers other than those in Except.
Disturb(Except) ==
  touched' = [u \in Uninstallers |-> touched[u] \/ (u \notin Except /\ upc[u] # "none")]

-----------------------------------------------------------------------------
(* ServiceProvisioner.                                                     *)

\* plan(): an existing unit is left alone, and a system unit needs a writer.
\* An invalid spec changes nothing at all.
Plan(p, s, t, writer) ==
  /\ ppc[p] = "idle"
  /\ unit[s] = NoText
  /\ s = "System" => writer
  /\ spec' = [spec EXCEPT ![p] = [scope |-> s, text |-> t]]
  /\ ppc' = [ppc EXCEPT ![p] = "writing"]
  /\ UNCHANGED <<files, mem, fresh, uninstaller, wrote, touched>>

\* writeUnitFile: the commit of a QSaveFile renames, over whatever is there.
WriteUnitFile(p) ==
  LET s == spec[p].scope IN
  /\ ppc[p] = "writing"
  /\ unit' = [unit EXCEPT ![s] = spec[p].text]
  /\ wrote' = wrote \cup {<<s, spec[p].text>>}
  /\ ppc' = [ppc EXCEPT ![p] = "recording"]
  /\ Disturb({})
  /\ UNCHANGED <<loaded, disk, verbatim, spec, mem, fresh, uninstaller>>

\* Defect: what was planned is recorded, written or not.
WriteFailsRecords(p) ==
  /\ ppc[p] = "writing"
  /\ ppc' = [ppc EXCEPT ![p] = "recording"]
  /\ UNCHANGED <<files, spec, mem, fresh, uninstaller, wrote, touched>>

WriteFails(p) ==
  /\ ppc[p] = "writing"
  /\ ppc' = [ppc EXCEPT ![p] = "idle"]
  /\ spec' = [spec EXCEPT ![p] = NoSpec]
  /\ UNCHANGED <<files, mem, fresh, uninstaller, wrote, touched>>

\* Defect: the record is saved but not kept in memory.
RecordForgets(p, ok) ==
  LET s == spec[p].scope IN
  /\ ppc[p] = "recording"
  /\ disk' = IF ok THEN [mem[p] EXCEPT ![s] = spec[p].text] ELSE disk
  /\ fresh' = [fresh EXCEPT ![p] = s]
  /\ ppc' = [ppc EXCEPT ![p] = "idle"] /\ spec' = [spec EXCEPT ![p] = NoSpec]
  /\ Disturb({})
  /\ UNCHANGED <<unit, loaded, verbatim, mem, uninstaller, wrote>>

\* record() and save(): the records of this process replace the file; nobody
\* has loaded it before, and nobody asks whether it could be written.
Record(p, ok) ==
  LET s == spec[p].scope IN
  /\ ppc[p] = "recording"
  /\ mem' = [mem EXCEPT ![p][s] = spec[p].text]
  /\ IF ok THEN disk' = mem'[p] /\ Disturb({}) ELSE UNCHANGED <<disk, touched>>
  /\ fresh' = [fresh EXCEPT ![p] = s]
  /\ ppc' = [ppc EXCEPT ![p] = "idle"]
  /\ spec' = [spec EXCEPT ![p] = NoSpec]
  /\ UNCHANGED <<unit, loaded, verbatim, uninstaller, wrote>>

\* daemonReload(), refused unless a unit was written in this process.
DaemonReload(p) ==
  /\ ppc[p] = "idle" /\ fresh[p] \in Scopes
  /\ loaded' = [loaded EXCEPT ![fresh[p]] = unit[fresh[p]]]
  /\ UNCHANGED <<unit, disk, verbatim, provisioner, uninstaller, wrote, touched>>

\* The process ends or is killed; another one may take its place.
ProvisionerGone(p) ==
  /\ ppc' = [ppc EXCEPT ![p] = "idle"]
  /\ spec' = [spec EXCEPT ![p] = NoSpec]
  /\ mem' = [mem EXCEPT ![p] = NoRecords]
  /\ fresh' = [fresh EXCEPT ![p] = "None"]
  /\ UNCHANGED <<files, uninstaller, wrote, touched>>

-----------------------------------------------------------------------------
(* UninstallerMain: detection and decision.                                *)

UGoto(u, place) == upc' = [upc EXCEPT ![u] = place]

\* ownership.load(): a file that cannot be read or parsed leaves no records.
LoadRecords(u, readable) ==
  /\ upc[u] = "none"
  /\ recs' = [recs EXCEPT ![u] = IF readable THEN disk ELSE NoRecords]
  /\ touched' = [touched EXCEPT ![u] = FALSE]
  /\ UGoto(u, "discovering")
  /\ UNCHANGED <<files, provisioner, seen, plan, stopped, failed, wrote>>

\* What systemd shows of a unit that is not loaded is the file.
Shown(s) == IF loaded[s] = NoText THEN unit[s] ELSE loaded[s]

Printed(t) == IF verbatim THEN t ELSE Expanded(t)

\* Defect: a unit counts as unchanged if there is a record of it.
CheckConsistencyContains(records, s, t) ==
  IF records[s] = NoText THEN "NotRecorded" ELSE "Match"

\* checkConsistency: fingerprints are equal when the texts are.
CheckConsistency(records, s, t) ==
  IF records[s] = NoText THEN "NotRecorded"
  ELSE IF records[s] = Printed(t) THEN "Match" ELSE "Mismatch"

\* detectContext: the user unit is preferred if it runs the official program;
\* a scope that systemctl does not answer for has no unit.
Detected(records, answers) ==
  LET valid == {s \in answers : Shown(s) \in Official}
      s     == IF "User" \in valid THEN "User" ELSE "System"
  IN IF valid = {} THEN NoUnit
     ELSE [valid |-> TRUE, scope |-> s, text |-> Shown(s),
           record |-> records[s],
           consistency |-> CheckConsistency(records, s, Shown(s))]

Discover(u, answers) ==
  /\ upc[u] = "discovering"
  /\ seen' = [seen EXCEPT ![u] = Detected(recs[u], answers)]
  /\ loaded' = [s \in Scopes |-> IF s \in answers THEN Shown(s) ELSE loaded[s]]
  /\ touched' = [touched EXCEPT ![u] = @ \/ \E s \in Scopes : Shown(s) # unit[s]]
  /\ recs' = [recs EXCEPT ![u] = NoRecords]
  /\ UGoto(u, "dialog")
  /\ UNCHANGED <<unit, disk, verbatim, provisioner, plan, stopped, failed, wrote>>

\* isOwnedAndMatched.
OwnedAndMatched(d) == d.valid /\ d.record # NoText /\ d.consistency = "Match"

\* canRemoveBackend: a system unit needs root.
CanRemoveBackend(d) == OwnedAndMatched(d) /\ (d.scope = "User" \/ Root)

\* UninstallPlan::make.
MakePlan(d, ticked, confirmed) ==
  IF ~ticked THEN IF OwnedAndMatched(d) THEN "RetainBackendBecauseUnchecked"
                                        ELSE "RemoveDesktopOnly"
  ELSE IF ~confirmed THEN "BlockedMissingConfirmation"
  ELSE IF CanRemoveBackend(d) THEN "RemoveDesktopAndOwnedBackend"
  ELSE "RetainBackendBecauseUnownedOrForeign"

\* The dialog: the box can be ticked for an owned unit only, and then asks
\* again; a "no" cancels everything.  --yes leaves the box alone.
Decide(u, ticked) ==
  /\ upc[u] = "dialog"
  /\ ticked => OwnedAndMatched(seen[u])
  /\ plan' = [plan EXCEPT ![u] = MakePlan(seen[u], ticked, ticked)]
  /\ UGoto(u, IF plan'[u] = "RemoveDesktopAndOwnedBackend" THEN "stopping" ELSE "desktop")
  /\ UNCHANGED <<files, provisioner, recs, seen, stopped, failed, wrote, touched>>

-----------------------------------------------------------------------------
(* UninstallerMain and Uninstaller::apply.                                 *)

\* stopBackendService: false after a failure or 20 s; apply() follows anyway.
StopBackendService(u, ok) ==
  /\ upc[u] = "stopping"
  /\ stopped' = [stopped EXCEPT ![u] = ok]
  /\ UGoto(u, "desktop")
  /\ UNCHANGED <<files, provisioner, recs, seen, plan, failed, wrote, touched>>

\* removeDesktopFiles, of which some may stay.
RemoveDesktopFiles(u, ok) ==
  /\ upc[u] = "desktop"
  /\ failed' = [failed EXCEPT ![u] = ~ok]
  /\ UGoto(u, IF plan[u] = "RemoveDesktopAndOwnedBackend" THEN "removing" ELSE "done")
  /\ UNCHANGED <<files, provisioner, recs, seen, plan, stopped, wrote, touched>>

\* removeBackendUnit: a file that is not there counts as removed.
RemoveBackendUnit(u, ok) ==
  LET s == seen[u].scope IN
  /\ upc[u] = "removing"
  /\ unit[s] = NoText => ok
  /\ unit' = [unit EXCEPT ![s] = IF ok THEN NoText ELSE @]
  /\ failed' = [failed EXCEPT ![u] = @ \/ ~ok]
  /\ IF ok THEN Disturb({u}) ELSE UNCHANGED touched
  /\ UGoto(u, "reading")
  /\ UNCHANGED <<loaded, disk, verbatim, provisioner, recs, seen, plan, stopped, wrote>>

\* clearOwnershipRecord, whether or not the unit is gone: load() ...
ReloadRecords(u, readable) ==
  /\ upc[u] = "reading"
  /\ IF readable /\ disk[seen[u].scope] # NoText
       THEN recs' = [recs EXCEPT ![u] = disk] /\ UGoto(u, "saving")
       ELSE UNCHANGED recs /\ UGoto(u, "done")
  /\ failed' = [failed EXCEPT ![u] = @ \/ ~readable]
  /\ UNCHANGED <<files, provisioner, seen, plan, stopped, wrote, touched>>

\* Defect: the result of save() is not looked at.
SaveRecordsUnchecked(u, ok) ==
  /\ upc[u] = "saving"
  /\ disk' = IF ok THEN [recs[u] EXCEPT ![seen[u].scope] = NoText] ELSE disk
  /\ IF ok THEN Disturb({u}) ELSE UNCHANGED touched
  /\ UGoto(u, "done")
  /\ UNCHANGED <<unit, loaded, verbatim, provisioner, recs, seen, plan, stopped, failed, wrote>>

\* ... and save() without the record.
SaveRecords(u, ok) ==
  /\ upc[u] = "saving"
  /\ disk' = IF ok THEN [recs[u] EXCEPT ![seen[u].scope] = NoText] ELSE disk
  /\ failed' = [failed EXCEPT ![u] = @ \/ ~ok]
  /\ IF ok THEN Disturb({u}) ELSE UNCHANGED touched
  /\ recs' = [recs EXCEPT ![u] = NoRecords]
  /\ UGoto(u, "done")
  /\ UNCHANGED <<unit, loaded, verbatim, provisioner, seen, plan, stopped, wrote>>

\* The uninstaller ends, is cancelled in its dialog, or is killed.
UninstallerGone(u) ==
  /\ upc[u] # "none"
  /\ UGoto(u, "none")
  /\ recs' = [recs EXCEPT ![u] = NoRecords]
  /\ seen' = [seen EXCEPT ![u] = NoUnit]
  /\ plan' = [plan EXCEPT ![u] = "none"]
  /\ stopped' = [stopped EXCEPT ![u] = FALSE]
  /\ failed' = [failed EXCEPT ![u] = FALSE]
  /\ touched' = [touched EXCEPT ![u] = FALSE]
  /\ UNCHANGED <<files, provisioner, wrote>>

-----------------------------------------------------------------------------
(* The user and systemd.                                                   *)

\* Somebody else writes a unit of that name, or removes it.
Edit(s, t) ==
  /\ unit' = [unit EXCEPT ![s] = t]
  /\ Disturb({})
  /\ UNCHANGED <<loaded, disk, verbatim, provisioner, uninstaller, wrote>>

\* systemd reads the unit again, asked to or because it had dropped it.
Reload(s) ==
  /\ loaded' = [loaded EXCEPT ![s] = unit[s]]
  /\ UNCHANGED <<unit, disk, verbatim, provisioner, uninstaller, wrote, touched>>

-----------------------------------------------------------------------------
Provisioner(p) ==
  \/ \E s \in Scopes, t \in Specs, writer \in BOOLEAN : Plan(p, s, t, writer)
  \/ WriteUnitFile(p) \/ WriteFails(p)
  \/ \E ok \in BOOLEAN : Record(p, ok)
  \/ DaemonReload(p) \/ ProvisionerGone(p)

Uninstaller(u) ==
  \/ \E readable \in BOOLEAN : LoadRecords(u, readable) \/ ReloadRecords(u, readable)
  \/ \E answers \in SUBSET Scopes : Discover(u, answers)
  \/ \E ticked \in BOOLEAN : Decide(u, ticked)
  \/ \E ok \in BOOLEAN : \/ StopBackendService(u, ok) \/ RemoveDesktopFiles(u, ok)
                         \/ RemoveBackendUnit(u, ok) \/ SaveRecords(u, ok)
  \/ UninstallerGone(u)

Environment ==
  \/ \E s \in Scopes, t \in Others \cup {NoText} : Edit(s, t)
  \/ \E s \in Scopes : Reload(s)

Next ==
  \/ \E p \in Provisioners : Provisioner(p)
  \/ \E u \in Uninstallers : Uninstaller(u)
  \/ Environment

Spec == Init /\ [][Next]_vars

-----------------------------------------------------------------------------
(* Properties.                                                             *)

Actions == {"RemoveDesktopOnly", "RemoveDesktopAndOwnedBackend",
            "RetainBackendBecauseUnchecked", "RetainBackendBecauseUnownedOrForeign",
            "BlockedMissingConfirmation"}

Places == {"none", "discovering", "dialog", "stopping", "desktop", "removing", "reading",
           "saving", "done"}

Records == [Scopes -> Specs \cup {NoText}]

Selections == [valid : BOOLEAN, scope : Scopes, text : Texts \cup {NoText},
               record : Specs \cup {NoText}, consistency : {"NotRecorded", "Match", "Mismatch"}]

\* The variables have their types, and a provisioner that may reload and
\* enable a unit holds a record of it.
TypeOK ==
  /\ unit \in [Scopes -> Texts \cup {NoText}]
  /\ loaded \in [Scopes -> Texts \cup {NoText}]
  /\ disk \in Records
  /\ verbatim \in Prints
  /\ ppc \in [Provisioners -> {"idle", "writing", "recording"}]
  /\ spec \in [Provisioners -> [scope : Scopes, text : Specs \cup {NoText}]]
  /\ mem \in [Provisioners -> Records]
  /\ fresh \in [Provisioners -> Scopes \cup {"None"}]
  /\ upc \in [Uninstallers -> Places]
  /\ recs \in [Uninstallers -> Records]
  /\ seen \in [Uninstallers -> Selections]
  /\ plan \in [Uninstallers -> Actions \cup {"none"}]
  /\ stopped \in [Uninstallers -> BOOLEAN]
  /\ failed \in [Uninstallers -> BOOLEAN]
  /\ wrote \in SUBSET (Scopes \X Specs)
  /\ touched \in [Uninstallers -> BOOLEAN]
  /\ \A p \in Provisioners : fresh[p] \in Scopes => mem[p][fresh[p]] # NoText

\* Everything that a set of records claims was written by a provisioner.
Earned(records) == \A s \in Scopes : records[s] # NoText => <<s, records[s]>> \in wrote

\* Whatever write fails, whoever is killed and however the savings of several
\* processes overtake each other: services-owned.json, and every copy of it in
\* memory, claims only units that the desktop itself wrote ("ownership is
\* recorded only after a successful write", ServiceProvisioner.h).
RecordsAreEarned ==
  /\ Earned(disk)
  /\ \A p \in Provisioners : Earned(mem[p])
  /\ \A u \in Uninstallers : Earned(recs[u])

\* The uninstaller never removes a unit that the desktop did not write, not
\* even one that others put in its place before it looked: unless a file is changed
\* between its look and its removal, or systemd shows an outdated unit.  A unit is
\* told by its ExecStart, as in the code: an edit that keeps that line leaves it ours.
RemovesOnlyOwn ==
  [][\A u \in Uninstallers, s \in Scopes :
       upc[u] = "removing" /\ upc'[u] = "reading" /\ unit'[s] # unit[s] /\ ~touched[u]
         => <<s, unit[s]>> \in wrote]_vars

\* When an uninstaller that was to remove the backend ends with success, the
\* unit and its record are gone, and if one of the steps on them failed it does not
\* say so; so a second attempt is called for exactly when something is left.  A stop
\* that failed does not count (StopFailureKeeps).
SuccessMeansGone ==
  \A u \in Uninstallers :
    upc[u] = "done" /\ plan[u] = "RemoveDesktopAndOwnedBackend" /\ ~failed[u] /\ ~touched[u]
      => unit[seen[u].scope] = NoText /\ disk[seen[u].scope] = NoText

\* "Tick the box to stop and remove it as well" (UninstallDialog.cpp): a unit
\* that the desktop recorded and that still has the recorded ExecStart can be
\* removed.
OwnedCanBeRemoved ==
  \A u \in Uninstallers :
    upc[u] = "dialog" /\ seen[u].valid /\ seen[u].record = seen[u].text
      => OwnedAndMatched(seen[u])

\* "Stopping failed, the backend was kept" (UninstallerMain.cpp).
StopFailureKeeps ==
  [][\A u \in Uninstallers :
       upc[u] = "removing" /\ upc'[u] = "reading" /\ ~stopped[u] => unit' = unit]_vars
=============================================================================
