----------------------------- MODULE UpdateHelper -----------------------------
(***************************************************************************)
(* The self-update helper dsh-desktop-updater: main() of                   *)
(* DesktopUpdateHelperMain.cpp and the file exchange it calls in           *)
(* DesktopUpdateHelper.cpp.  A helper may be killed between any two system *)
(* calls, any system call may fail, and two helpers may work in the same   *)
(* directory: each system call on a shared file is an action.              *)
(***************************************************************************)
EXTENDS Integers

CONSTANTS
  Helpers,   \* runs of the helper; each is to install a program of its own
  Old,       \* the program installed at first
  Overlap    \* may a helper be launched while another one works?

ASSUME OldAssumption  == Old \notin Helpers
ASSUME FlagAssumption == Overlap \in BOOLEAN

NoFile   == "no file"
Partial  == "partial"      \* a file whose copy is not complete
Programs == Helpers \cup {Old}

ASSUME FilesAssumption == Programs \cap {NoFile, Partial} = {}

VARIABLES
  pc,        \* where each helper is; "exited" and "killed" are final
  package,   \* --source of each helper: "good", "corrupt" or "missing"
  dest,      \* --destination, one for all
  tmp,       \* .dsh-update-<base>.tmp-<suffix> of each helper
  bak,       \* .dsh-update-<base>.bak-<suffix> of each helper
  todo,      \* orphans a recovery has listed and not handled yet
  current,   \* the backup a recovery has looked at
  existed,   \* destExisted
  code       \* exit code, -1 before

files  == <<dest, tmp, bak>>
locals == <<package, todo, current, existed>>
vars   == <<pc, package, dest, tmp, bak, todo, current, existed, code>>

Init ==
  /\ pc = [h \in Helpers |-> "idle"]
  /\ package \in [Helpers -> {"good", "corrupt", "missing"}]
  /\ dest = Old
  /\ tmp = [h \in Helpers |-> NoFile]
  /\ bak = [h \in Helpers |-> NoFile]
  /\ todo = [h \in Helpers |-> {}]
  /\ current = [h \in Helpers |-> h]
  /\ existed = [h \in Helpers |-> FALSE]
  /\ code = [h \in Helpers |-> -1]

Working(h) == pc[h] \notin {"idle", "exited", "killed"}

Goto(h, place) ==
  /\ pc' = [pc EXCEPT ![h] = place]
  /\ UNCHANGED code

\* Defect: every failure ends with the same undocumented code.
ExitWithOne(h, c) ==
  /\ pc' = [pc EXCEPT ![h] = "exited"]
  /\ code' = [code EXCEPT ![h] = IF c = 0 THEN 0 ELSE 1]

Exit(h, c) ==
  /\ pc' = [pc EXCEPT ![h] = "exited"]
  /\ code' = [code EXCEPT ![h] = c]

-----------------------------------------------------------------------------
(* Start, and recovery of what killed helpers left behind.                 *)

Orphans == {<<"bak", g>> : g \in {f \in Helpers : bak[f] # NoFile}}
             \cup {<<"tmp", g>> : g \in {f \in Helpers : tmp[f] # NoFile}}

\* The application launches the helper, which lists the directory at once.
Launch(h) ==
  /\ pc[h] = "idle"
  /\ Overlap \/ \A g \in Helpers : ~Working(g)
  /\ todo' = [todo EXCEPT ![h] = Orphans]
  /\ Goto(h, "recover")
  /\ UNCHANGED <<files, package, current, existed>>

\* entryList sorts by name: backups come before temporary files.
NextOrphan(h, kind, g) ==
  /\ <<kind, g>> \in todo[h]
  /\ kind = "tmp" => \A f \in Helpers : <<"bak", f>> \notin todo[h]

\* A backup is either out of date or all there is: QFileInfo::exists decides.
InspectBackup(h, g) ==
  /\ pc[h] = "recover"
  /\ NextOrphan(h, "bak", g)
  /\ current' = [current EXCEPT ![h] = g]
  /\ Goto(h, IF dest # NoFile THEN "dropBackup" ELSE "restoreBackup")
  /\ UNCHANGED <<files, package, todo, existed>>

Handled(h, kind, g) ==
  /\ todo' = [todo EXCEPT ![h] = @ \ {<<kind, g>>}]
  /\ Goto(h, "recover")

DropBackup(h, ok) ==
  LET g == current[h] IN
  /\ pc[h] = "dropBackup"
  /\ IF ok /\ bak[g] # NoFile
       THEN bak' = [bak EXCEPT ![g] = NoFile] /\ Handled(h, "bak", g)
       ELSE Exit(h, 8) /\ UNCHANGED <<bak, todo>>
  /\ UNCHANGED <<dest, tmp, package, current, existed>>

RestoreBackup(h, ok) ==
  LET g == current[h] IN
  /\ pc[h] = "restoreBackup"
  /\ IF ok /\ bak[g] # NoFile
       THEN /\ dest' = bak[g] /\ bak' = [bak EXCEPT ![g] = NoFile]
            /\ Handled(h, "bak", g)
       ELSE Exit(h, 8) /\ UNCHANGED <<dest, bak, todo>>
  /\ UNCHANGED <<tmp, package, current, existed>>

DropTemporary(h, g, ok) ==
  /\ pc[h] = "recover"
  /\ NextOrphan(h, "tmp", g)
  /\ IF ok /\ tmp[g] # NoFile
       THEN tmp' = [tmp EXCEPT ![g] = NoFile] /\ Handled(h, "tmp", g)
       ELSE Exit(h, 8) /\ UNCHANGED <<tmp, todo>>
  /\ UNCHANGED <<dest, bak, package, current, existed>>

\* Defect: recovery looks at the backups and leaves temporary files alone.
RecoveredKeepsTemporaries(h) ==
  /\ pc[h] = "recover"
  /\ \A f \in Helpers : <<"bak", f>> \notin todo[h]
  /\ Goto(h, "wait")
  /\ UNCHANGED <<files, locals>>

Recovered(h) ==
  /\ pc[h] = "recover" /\ todo[h] = {}
  /\ Goto(h, "wait")
  /\ UNCHANGED <<files, locals>>

-----------------------------------------------------------------------------
(* Waiting for the old instance, and the checks.                           *)

\* waitForExit: the process of --pid is gone, or two minutes have passed.
Waited(h, gone) ==
  /\ pc[h] = "wait"
  /\ IF gone THEN Goto(h, "check") ELSE Exit(h, 3)
  /\ UNCHANGED <<files, locals>>

\* Defect: the digest is not compared.
CheckedSkipsDigest(h, destOk) ==
  /\ pc[h] = "check"
  /\ IF package[h] = "missing" THEN Exit(h, 4)
     ELSE IF ~destOk THEN Exit(h, 5)
     ELSE Goto(h, "copy")
  /\ UNCHANGED <<files, locals>>

\* validateSource, validateInstallDestination, verifySha256.
Checked(h, destOk) ==
  /\ pc[h] = "check"
  /\ IF package[h] = "missing" THEN Exit(h, 4)
     ELSE IF ~destOk THEN Exit(h, 5)
     ELSE IF package[h] # "good" THEN Exit(h, 6)
     ELSE Goto(h, "copy")
  /\ UNCHANGED <<files, locals>>

-----------------------------------------------------------------------------
(* atomicReplace.                                                          *)

\* Its own checks, and the creation of the temporary file.
BeginCopy(h, ok) ==
  /\ pc[h] = "copy"
  /\ IF ok
       THEN tmp' = [tmp EXCEPT ![h] = Partial] /\ Goto(h, "copying")
       ELSE Exit(h, 7) /\ UNCHANGED tmp
  /\ UNCHANGED <<dest, bak, locals>>

\* The program that a complete copy of the package is.
Content(h) == IF package[h] = "good" THEN h ELSE Partial

\* The last write.  If the name was unlinked meanwhile, the data is lost.  A
\* failed copy is removed; that removal may fail too.
EndCopy(h, ok, removed) ==
  /\ pc[h] = "copying"
  /\ tmp' = [tmp EXCEPT ![h] = IF ok /\ @ # NoFile THEN Content(h)
                               ELSE IF ~ok /\ removed THEN NoFile ELSE @]
  /\ IF ok THEN Goto(h, "permissions") ELSE Exit(h, 7)
  /\ UNCHANGED <<dest, bak, locals>>

\* The temporary file goes, if it can, and the helper gives up.
Abandon(h, removed) ==
  /\ tmp' = [tmp EXCEPT ![h] = IF removed THEN NoFile ELSE @]
  /\ Exit(h, 7)

\* destInfo is read here once, for the permissions and for destExisted.
SetPermissions(h, ok, removed) ==
  /\ pc[h] = "permissions"
  /\ existed' = [existed EXCEPT ![h] = dest # NoFile]
  /\ IF ok /\ tmp[h] # NoFile
       THEN Goto(h, IF dest # NoFile THEN "backup" ELSE "place") /\ UNCHANGED tmp
       ELSE Abandon(h, removed)
  /\ UNCHANGED <<dest, bak, package, todo, current>>

\* Defect: the old program is deleted instead of moved aside.
MoveAsideDeletes(h, ok, removed) ==
  /\ pc[h] = "backup"
  /\ dest' = NoFile
  /\ Goto(h, "place")
  /\ UNCHANGED <<tmp, bak, locals>>

MoveAside(h, ok, removed) ==
  /\ pc[h] = "backup"
  /\ IF ok /\ dest # NoFile
       THEN /\ bak' = [bak EXCEPT ![h] = dest] /\ dest' = NoFile
            /\ Goto(h, "place") /\ UNCHANGED tmp
       ELSE Abandon(h, removed) /\ UNCHANGED <<dest, bak>>
  /\ UNCHANGED locals

Place(h, ok, removed) ==
  /\ pc[h] = "place"
  /\ IF ok /\ tmp[h] # NoFile
       THEN /\ dest' = tmp[h] /\ tmp' = [tmp EXCEPT ![h] = NoFile]
            /\ IF existed[h] THEN Goto(h, "discard") ELSE Exit(h, 0)
       ELSE /\ UNCHANGED dest
            /\ IF existed[h] THEN Goto(h, "rollback") /\ UNCHANGED tmp
                             ELSE Abandon(h, removed)
  /\ UNCHANGED <<bak, locals>>

Rollback(h, ok, removed) ==
  /\ pc[h] = "rollback"
  /\ IF ok /\ bak[h] # NoFile
       THEN dest' = bak[h] /\ bak' = [bak EXCEPT ![h] = NoFile]
       ELSE UNCHANGED <<dest, bak>>
  /\ Abandon(h, removed)
  /\ UNCHANGED locals

\* Defect: a backup that stays behind is taken for a failed replacement.
DiscardReportsFailure(h, removed) ==
  /\ pc[h] = "discard"
  /\ bak' = [bak EXCEPT ![h] = IF removed THEN NoFile ELSE @]
  /\ Exit(h, IF removed THEN 0 ELSE 7)
  /\ UNCHANGED <<dest, tmp, locals>>

\* A backup that cannot be removed does not make the replacement a failure.
Discard(h, removed) ==
  /\ pc[h] = "discard"
  /\ bak' = [bak EXCEPT ![h] = IF removed THEN NoFile ELSE @]
  /\ Exit(h, 0)
  /\ UNCHANGED <<dest, tmp, locals>>

\* The helper is killed, or the machine goes down with all its helpers.
Killed(h) ==
  /\ Working(h)
  /\ Goto(h, "killed")
  /\ UNCHANGED <<files, locals>>

-----------------------------------------------------------------------------
Recovery(h, g, ok) ==
  \/ InspectBackup(h, g) \/ DropTemporary(h, g, ok)
  \/ DropBackup(h, ok) \/ RestoreBackup(h, ok)
  \/ Recovered(h)

Replacement(h, ok, removed) ==
  \/ BeginCopy(h, ok) \/ EndCopy(h, ok, removed)
  \/ SetPermissions(h, ok, removed) \/ MoveAside(h, ok, removed)
  \/ Place(h, ok, removed) \/ Rollback(h, ok, removed)
  \/ Discard(h, removed)

Step(h) ==
  \E g \in Helpers, ok, removed \in BOOLEAN :
    \/ Recovery(h, g, ok)
    \/ Waited(h, ok) \/ Checked(h, ok)
    \/ Replacement(h, ok, removed)

Next == \E h \in Helpers : Launch(h) \/ Step(h) \/ Killed(h)

Spec == Init /\ [][Next]_vars

-----------------------------------------------------------------------------
(* Properties.                                                             *)

Places == {"idle", "recover", "dropBackup", "restoreBackup", "wait", "check", "copy",
           "copying", "permissions", "backup", "place", "rollback", "discard", "exited",
           "killed"}

\* Every variable holds a value of its type.
TypeOK ==
  /\ pc \in [Helpers -> Places]
  /\ package \in [Helpers -> {"good", "corrupt", "missing"}]
  /\ dest \in Programs \cup {NoFile, Partial}
  /\ tmp \in [Helpers -> Programs \cup {NoFile, Partial}]
  /\ bak \in [Helpers -> Programs \cup {NoFile, Partial}]
  /\ todo \in [Helpers -> SUBSET ({"bak", "tmp"} \X Helpers)]
  /\ current \in [Helpers -> Helpers]
  /\ existed \in [Helpers -> BOOLEAN]
  /\ code \in [Helpers -> {-1, 0, 3, 4, 5, 6, 7, 8}]

\* Whatever helpers are killed, fail or get in each other's way, what is
\* started from the destination is a whole program whose digest was checked,
\* never the beginning of a copy.
DestinationIntact == dest \in Programs \cup {NoFile}

\* A program is never lost: if the destination is missing, a whole program is
\* in one of the backups that the next recovery finds.
NothingLost == dest = NoFile => \E h \in Helpers : bak[h] \in Programs

\* "Back to a consistent state" (recoverOrphanedDshUpdateFiles): when a helper
\* that works alone has recovered, the destination is there and nothing of the
\* earlier helpers is left, whichever system call they were killed at.
RecoveryRestores ==
  [][\A h \in Helpers : pc[h] = "recover" /\ pc'[h] = "wait" =>
       /\ dest # NoFile
       /\ \A g \in Helpers : tmp[g] = NoFile /\ bak[g] = NoFile]_vars

\* The program that the directory holds once it is recovered.
Installed ==
  IF dest # NoFile THEN dest
  ELSE IF \E h \in Helpers : bak[h] # NoFile
    THEN bak[CHOOSE h \in Helpers : bak[h] # NoFile] ELSE NoFile

Verdict(h) ==
  IF code[h] = -1 THEN "none" ELSE IF code[h] = 0 THEN "replaced" ELSE "failed"

Promise == INSTANCE AtomicInstall WITH
             installed <- Installed,
             verdict   <- [h \in Helpers |-> Verdict(h)]

\* Helpers that work one after the other replace the program in one step, and
\* exit with 0 exactly when their program is the one installed.
AtomicallyReplaced == Promise!Spec
=============================================================================
