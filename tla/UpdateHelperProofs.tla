-------------------------- MODULE UpdateHelperProofs --------------------------
(***************************************************************************)
(* Theorems about UpdateHelper for every set of helpers, whether they work *)
(* one after the other or at the same time.                                *)
(***************************************************************************)
EXTENDS UpdateHelper, TLAPS

\* Before a helper has moved the old program aside, it has no backup, and
\* nobody is about to drop one of its name.
Early == {"idle", "recover", "dropBackup", "restoreBackup", "wait", "check", "copy",
          "copying", "permissions", "backup"}

\* Nobody is going to delete the backup of f.
Kept(f) ==
  /\ pc[f] # "discard"
  /\ \A h \in Helpers : ~(pc[h] = "dropBackup" /\ current[h] = f)

NoEarlyBackup ==
  \A f \in Helpers : pc[f] \in Early =>
    /\ bak[f] = NoFile
    /\ \A h \in Helpers : /\ <<"bak", f>> \notin todo[h]
                          /\ ~(pc[h] = "dropBackup" /\ current[h] = f)

\* Complete copies are copies of the helper's own, verified package.
Complete ==
  \A h \in Helpers :
    /\ pc[h] \in {"copy", "copying", "permissions", "backup", "place"} => package[h] = "good"
    /\ pc[h] \in {"permissions", "backup", "place"} => tmp[h] \in {NoFile, h}
    /\ bak[h] \in Programs \cup {NoFile}

BackupKept ==
  dest = NoFile => \E f \in Helpers : bak[f] \in Programs /\ Kept(f)

Inv == TypeOK /\ DestinationIntact /\ Complete /\ NoEarlyBackup /\ BackupKept

USE DEF Programs

LEMMA InvInit == Init => Inv
<1> SUFFICES ASSUME Init PROVE Inv
  OBVIOUS
<1>1. TypeOK
  BY DEF Init, TypeOK, Places
<1>2. dest # NoFile
  BY FilesAssumption DEF Init
<1>3. QED BY <1>1, <1>2 DEF Init, Inv, DestinationIntact, Complete, NoEarlyBackup, BackupKept

\* A step that moves a helper on, and neither touches the destination and the
\* backups nor begins to drop one.
LEMMA QuietStep ==
  ASSUME Inv, NEW h \in Helpers, NEW p \in Places \ {"dropBackup", "discard"},
         pc' = [pc EXCEPT ![h] = p], p \in Early => pc[h] \in Early,
         \A g \in Helpers : todo'[g] \subseteq todo[g],
         UNCHANGED <<dest, bak, current>>
  PROVE  DestinationIntact' /\ NoEarlyBackup' /\ BackupKept'
<1> USE DEF Inv, TypeOK
<1>1. NoEarlyBackup'
  BY DEF NoEarlyBackup
<1>2. \A f \in Helpers : Kept(f) => Kept(f)'
  BY DEF Kept
<1>3. BackupKept'
  BY <1>2 DEF BackupKept
<1>4. QED BY <1>1, <1>3 DEF DestinationIntact

\* A helper that moves on stays early only if it was, lists nothing new, gives
\* early helpers no backup, and drops only backups that it had listed.
LEMMA EarlyStep ==
  ASSUME Inv, NEW h \in Helpers, NEW p \in Places,
         pc' = [pc EXCEPT ![h] = p], p \in Early => pc[h] \in Early,
         \A g \in Helpers : todo'[g] \subseteq todo[g],
         \A f \in Helpers : pc'[f] \in Early /\ bak[f] = NoFile => bak'[f] = NoFile,
         \A g \in Helpers : pc'[g] = "dropBackup" =>
           \/ pc[g] = "dropBackup" /\ current'[g] = current[g]
           \/ <<"bak", current'[g]>> \in todo[g]
  PROVE  NoEarlyBackup'
<1> SUFFICES ASSUME NEW f \in Helpers, pc'[f] \in Early
             PROVE  /\ bak'[f] = NoFile
                    /\ \A g \in Helpers : /\ <<"bak", f>> \notin todo'[g]
                                          /\ ~(pc'[g] = "dropBackup" /\ current'[g] = f)
  BY DEF NoEarlyBackup
<1>1. pc[f] \in Early
  BY DEF Inv, TypeOK
<1>2. /\ bak[f] = NoFile
      /\ \A g \in Helpers : /\ <<"bak", f>> \notin todo[g]
                            /\ ~(pc[g] = "dropBackup" /\ current[g] = f)
  BY <1>1 DEF Inv, NoEarlyBackup
<1>3. QED BY <1>2

LEMMA InvLaunch == ASSUME Inv, NEW h \in Helpers, Launch(h) PROVE Inv'
<1> USE DEF Launch, Goto, files
<1>1. TypeOK'
  BY DEF Inv, TypeOK, Places, Orphans
<1>2. DestinationIntact' /\ Complete'
  BY DEF Inv, TypeOK, DestinationIntact, Complete
<1>3. NoEarlyBackup'
  <2>1. \A f \in Helpers : <<"bak", f>> \in Orphans => bak[f] # NoFile
    BY DEF Orphans
  <2>2. QED BY <2>1 DEF Inv, TypeOK, NoEarlyBackup, Early
<1>4. BackupKept'
  <2>1. \A f \in Helpers : Kept(f) => Kept(f)'
    BY DEF Inv, TypeOK, Kept
  <2>2. QED BY <2>1 DEF Inv, BackupKept
<1>5. QED BY <1>1, <1>2, <1>3, <1>4 DEF Inv

LEMMA InvInspect ==
  ASSUME Inv, NEW h \in Helpers, NEW g \in Helpers, InspectBackup(h, g) PROVE Inv'
<1> USE DEF InspectBackup, Goto, files, NextOrphan
<1>1. TypeOK'
  BY DEF Inv, TypeOK, Places
<1>2. DestinationIntact' /\ Complete'
  BY DEF Inv, TypeOK, DestinationIntact, Complete
<1>3. NoEarlyBackup'
  <2>1. PICK p \in {"dropBackup", "restoreBackup"} : pc' = [pc EXCEPT ![h] = p]
    OBVIOUS
  <2>2. \A e \in Helpers : pc'[e] = "dropBackup" =>
          \/ pc[e] = "dropBackup" /\ current'[e] = current[e]
          \/ <<"bak", current'[e]>> \in todo[e]
    BY DEF Inv, TypeOK
  <2>3. QED BY <2>1, <2>2, EarlyStep DEF Places, Early
<1>4. CASE dest # NoFile
  BY <1>1, <1>2, <1>3, <1>4 DEF Inv, BackupKept
<1>5. CASE dest = NoFile
  <2>1. \A f \in Helpers : Kept(f) => Kept(f)'
    BY <1>5 DEF Inv, TypeOK, Kept
  <2>2. BackupKept'
    BY <2>1 DEF Inv, BackupKept
  <2>3. QED BY <1>1, <1>2, <1>3, <2>2 DEF Inv
<1>6. QED BY <1>4, <1>5

LEMMA InvDropBackup ==
  ASSUME Inv, NEW h \in Helpers, NEW ok \in BOOLEAN, DropBackup(h, ok) PROVE Inv'
<1> USE DEF DropBackup, Goto, Exit, Handled
<1>1. TypeOK'
  BY DEF Inv, TypeOK, Places
<1>2. DestinationIntact' /\ Complete'
  BY DEF Inv, TypeOK, DestinationIntact, Complete
<1>3. NoEarlyBackup'
  <2>1. PICK p \in {"recover", "exited"} : pc' = [pc EXCEPT ![h] = p]
    OBVIOUS
  <2>2. \A g \in Helpers : todo'[g] \subseteq todo[g]
    BY DEF Inv, TypeOK
  <2>3. \A f \in Helpers : bak[f] = NoFile => bak'[f] = NoFile
    BY DEF Inv, TypeOK
  <2>4. \A g \in Helpers : pc'[g] = "dropBackup" => pc[g] = "dropBackup" /\ UNCHANGED current
    BY DEF Inv, TypeOK
  <2>5. QED BY <2>1, <2>2, <2>3, <2>4, EarlyStep DEF Places, Early
<1>4. BackupKept'
  <2>1. \A f \in Helpers : Kept(f) => Kept(f)' /\ bak'[f] = bak[f]
    BY DEF Inv, TypeOK, Kept
  <2>2. QED BY <2>1 DEF Inv, BackupKept
<1>5. QED BY <1>1, <1>2, <1>3, <1>4 DEF Inv

LEMMA InvRestore ==
  ASSUME Inv, NEW h \in Helpers, NEW ok \in BOOLEAN, RestoreBackup(h, ok) PROVE Inv'
<1> USE DEF RestoreBackup, Goto, Exit, Handled
<1>1. TypeOK'
  BY DEF Inv, TypeOK, Places
<1>2. DestinationIntact' /\ Complete'
  BY DEF Inv, TypeOK, DestinationIntact, Complete
<1>3. NoEarlyBackup'
  <2>1. PICK p \in {"recover", "exited"} : pc' = [pc EXCEPT ![h] = p]
    OBVIOUS
  <2>2. \A g \in Helpers : todo'[g] \subseteq todo[g]
    BY DEF Inv, TypeOK
  <2>3. \A f \in Helpers : bak[f] = NoFile => bak'[f] = NoFile
    BY DEF Inv, TypeOK
  <2>4. \A g \in Helpers : pc'[g] = "dropBackup" => pc[g] = "dropBackup" /\ UNCHANGED current
    BY DEF Inv, TypeOK
  <2>5. QED BY <2>1, <2>2, <2>3, <2>4, EarlyStep DEF Places, Early
<1>4. BackupKept'
  <2>1. CASE dest' # NoFile
    BY <2>1 DEF BackupKept
  <2>2. CASE dest' = NoFile
    <3>1. UNCHANGED <<dest, bak>>
      BY <2>2 DEF Inv, TypeOK
    <3>2. \A f \in Helpers : Kept(f) => Kept(f)'
      BY DEF Inv, TypeOK, Kept
    <3>3. QED BY <3>1, <3>2 DEF Inv, BackupKept
  <2>3. QED BY <2>1, <2>2
<1>5. QED BY <1>1, <1>2, <1>3, <1>4 DEF Inv

LEMMA InvDropTemporary ==
  ASSUME Inv, NEW h \in Helpers, NEW g \in Helpers, NEW ok \in BOOLEAN,
         DropTemporary(h, g, ok)
  PROVE  Inv'
<1> USE DEF DropTemporary, Goto, Exit, Handled
<1>1. TypeOK'
  BY DEF Inv, TypeOK, Places
<1>2. Complete'
  BY DEF Inv, TypeOK, Complete
<1>3. DestinationIntact' /\ NoEarlyBackup' /\ BackupKept'
  <2>1. (\A f \in Helpers : todo'[f] \subseteq todo[f]) /\ UNCHANGED <<dest, bak, current>>
    BY DEF Inv, TypeOK
  <2>2. CASE pc' = [pc EXCEPT ![h] = "recover"]
    BY <2>2, <2>1, QuietStep DEF Places, Early
  <2>3. CASE pc' = [pc EXCEPT ![h] = "exited"]
    BY <2>3, <2>1, QuietStep DEF Places, Early
  <2>4. QED BY <2>2, <2>3
<1>4. QED BY <1>1, <1>2, <1>3 DEF Inv

\* The steps that only move a helper on.
LEMMA InvControl ==
  ASSUME Inv, NEW h \in Helpers, NEW ok \in BOOLEAN,
         Recovered(h) \/ Waited(h, ok) \/ Checked(h, ok) \/ Killed(h)
  PROVE  Inv'
<1>1. PICK p \in {"wait", "check", "copy", "exited", "killed"} :
        /\ pc' = [pc EXCEPT ![h] = p]
        /\ p \in Early => pc[h] \in Early
        /\ p = "copy" => package[h] = "good"
  BY DEF Recovered, Waited, Checked, Killed, Goto, Exit, Early
<1>2. UNCHANGED <<files, locals>>
  BY DEF Recovered, Waited, Checked, Killed
<1>3. code' \in [Helpers -> {-1, 0, 3, 4, 5, 6, 7, 8}]
  BY DEF Recovered, Waited, Checked, Killed, Goto, Exit, Inv, TypeOK
<1> USE DEF files, locals
<1>4. TypeOK'
  BY <1>1, <1>2, <1>3 DEF Inv, TypeOK, Places
<1>5. Complete'
  BY <1>1, <1>2 DEF Inv, TypeOK, Complete
<1>6. DestinationIntact' /\ NoEarlyBackup' /\ BackupKept'
  BY <1>1, <1>2, QuietStep DEF Places
<1>7. QED BY <1>4, <1>5, <1>6 DEF Inv

LEMMA InvCopy ==
  ASSUME Inv, NEW h \in Helpers, NEW ok \in BOOLEAN, NEW removed \in BOOLEAN,
         BeginCopy(h, ok) \/ EndCopy(h, ok, removed) \/ SetPermissions(h, ok, removed)
  PROVE  Inv'
<1> USE DEF BeginCopy, EndCopy, SetPermissions, Abandon, Goto, Exit, locals
<1>1. PICK p \in {"copying", "permissions", "backup", "place", "exited"} :
        /\ pc' = [pc EXCEPT ![h] = p]
        /\ p \in Early => pc[h] \in Early
  BY DEF Early
<1>2. UNCHANGED <<dest, bak, package, todo, current>>
  OBVIOUS
<1>3. TypeOK'
  <2>1. tmp' \in [Helpers -> Programs \cup {NoFile, Partial}]
    BY DEF Inv, TypeOK, Content
  <2>2. existed' \in [Helpers -> BOOLEAN] /\ code' \in [Helpers -> {-1, 0, 3, 4, 5, 6, 7, 8}]
    BY DEF Inv, TypeOK
  <2>3. pc' \in [Helpers -> Places]
    BY <1>1 DEF Inv, TypeOK, Places
  <2>4. QED BY <1>2, <2>1, <2>2, <2>3 DEF Inv, TypeOK
<1>4. Complete'
  BY DEF Inv, TypeOK, Complete, Content
<1>5. DestinationIntact' /\ NoEarlyBackup' /\ BackupKept'
  BY <1>1, <1>2, QuietStep DEF Places
<1>6. QED BY <1>3, <1>4, <1>5 DEF Inv

LEMMA InvMoveAside ==
  ASSUME Inv, NEW h \in Helpers, NEW ok \in BOOLEAN, NEW removed \in BOOLEAN,
         MoveAside(h, ok, removed)
  PROVE  Inv'
<1> USE DEF MoveAside, Abandon, Goto, Exit, locals
<1>1. TypeOK'
  BY DEF Inv, TypeOK, Places
<1>2. DestinationIntact' /\ Complete'
  BY DEF Inv, TypeOK, DestinationIntact, Complete
<1>3. CASE ok /\ dest # NoFile
  <2>1. /\ bak' = [bak EXCEPT ![h] = dest] /\ dest \in Programs
        /\ pc' = [pc EXCEPT ![h] = "place"] /\ pc[h] = "backup"
        /\ UNCHANGED <<todo, current>>
    BY <1>3 DEF Inv, DestinationIntact
  <2>2. NoEarlyBackup'
    BY <2>1 DEF Inv, TypeOK, NoEarlyBackup, Early
  <2>3. bak'[h] \in Programs /\ Kept(h)'
    BY <2>1 DEF Inv, TypeOK, NoEarlyBackup, Kept, Early
  <2>4. BackupKept'
    BY <2>3 DEF BackupKept
  <2>5. QED BY <1>1, <1>2, <2>2, <2>4 DEF Inv
<1>4. CASE ~(ok /\ dest # NoFile)
  <2>1. pc' = [pc EXCEPT ![h] = "exited"] /\ UNCHANGED <<dest, bak, todo, current>>
    BY <1>4
  <2>2. NoEarlyBackup' /\ BackupKept'
    BY <2>1, QuietStep DEF Places, Early
  <2>3. QED BY <1>1, <1>2, <2>2 DEF Inv
<1>5. QED BY <1>3, <1>4

LEMMA InvPlace ==
  ASSUME Inv, NEW h \in Helpers, NEW ok \in BOOLEAN, NEW removed \in BOOLEAN,
         Place(h, ok, removed) \/ Rollback(h, ok, removed)
  PROVE  Inv'
<1> USE DEF Place, Rollback, Abandon, Goto, Exit, locals
<1>1. TypeOK'
  BY DEF Inv, TypeOK, Places
<1>2. DestinationIntact' /\ Complete'
  BY DEF Inv, TypeOK, DestinationIntact, Complete
<1>3. NoEarlyBackup'
  <2>1. PICK p \in {"discard", "rollback", "exited"} : pc' = [pc EXCEPT ![h] = p]
    OBVIOUS
  <2>2. \A g \in Helpers : todo'[g] \subseteq todo[g]
    BY DEF Inv, TypeOK
  <2>3. \A f \in Helpers : bak[f] = NoFile => bak'[f] = NoFile
    BY DEF Inv, TypeOK
  <2>4. \A g \in Helpers : pc'[g] = "dropBackup" => pc[g] = "dropBackup" /\ UNCHANGED current
    BY DEF Inv, TypeOK
  <2>5. QED BY <2>1, <2>2, <2>3, <2>4, EarlyStep DEF Places, Early
<1>4. CASE dest' # NoFile
  BY <1>1, <1>2, <1>3, <1>4 DEF Inv, BackupKept
<1>5. CASE dest' = NoFile
  <2>1. PICK p \in {"rollback", "exited"} : pc' = [pc EXCEPT ![h] = p]
    BY <1>5, FilesAssumption DEF Inv, TypeOK, Complete
  <2>2. UNCHANGED <<dest, bak, todo, current>>
    BY <1>5, FilesAssumption DEF Inv, TypeOK, Complete
  <2>3. BackupKept'
    BY <2>1, <2>2, QuietStep DEF Places, Early
  <2>4. QED BY <1>1, <1>2, <1>3, <2>3 DEF Inv
<1>6. QED BY <1>4, <1>5

LEMMA InvDiscard ==
  ASSUME Inv, NEW h \in Helpers, NEW removed \in BOOLEAN, Discard(h, removed) PROVE Inv'
<1> USE DEF Discard, Exit, locals
<1>1. TypeOK'
  BY DEF Inv, TypeOK, Places
<1>2. DestinationIntact' /\ Complete'
  BY DEF Inv, TypeOK, DestinationIntact, Complete
<1>3. NoEarlyBackup'
  BY DEF Inv, TypeOK, NoEarlyBackup, Early
<1>4. BackupKept'
  <2>1. \A f \in Helpers : Kept(f) => Kept(f)' /\ bak'[f] = bak[f]
    BY DEF Inv, TypeOK, Kept
  <2>2. QED BY <2>1 DEF Inv, BackupKept
<1>5. QED BY <1>1, <1>2, <1>3, <1>4 DEF Inv

LEMMA InvStep == Inv /\ [Next]_vars => Inv'
<1> SUFFICES ASSUME Inv, [Next]_vars PROVE Inv'
  OBVIOUS
<1>1. CASE UNCHANGED vars
  BY <1>1 DEF vars, Inv, TypeOK, DestinationIntact, Complete, NoEarlyBackup, BackupKept, Kept
<1>2. ASSUME NEW h \in Helpers, Launch(h) \/ Killed(h) PROVE Inv'
  BY <1>2, InvLaunch, InvControl
<1>3. ASSUME NEW h \in Helpers, Step(h) PROVE Inv'
  BY <1>3, InvInspect, InvDropTemporary, InvDropBackup, InvRestore, InvControl, InvCopy,
     InvMoveAside, InvPlace, InvDiscard
     DEF Step, Recovery, Replacement
<1>4. QED BY <1>1, <1>2, <1>3 DEF Next

LEMMA InvAlways == Spec => []Inv
  BY InvInit, InvStep, PTL DEF Spec

\* The destination never holds anything but a whole program: the old one, or
\* one whose digest a helper checked.
THEOREM IntactAlways == Spec => []DestinationIntact
<1>1. Inv => DestinationIntact
  BY DEF Inv
<1>2. QED BY <1>1, InvAlways, PTL

\* When the destination is missing, a whole program is in a backup, however
\* many helpers were killed, failed, or worked at the same time.
THEOREM NothingEverLost == Spec => []NothingLost
<1>1. Inv => NothingLost
  BY DEF Inv, BackupKept, NothingLost
<1>2. QED BY <1>1, InvAlways, PTL

\* Every variable keeps its type, whatever helpers are killed or fail.
THEOREM TypeAlways == Spec => []TypeOK
<1>1. Inv => TypeOK
  BY DEF Inv
<1>2. QED BY <1>1, InvAlways, PTL
=============================================================================
