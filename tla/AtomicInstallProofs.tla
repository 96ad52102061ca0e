------------------------- MODULE AtomicInstallProofs -------------------------
(***************************************************************************)
(* Helpers that work one after the other keep the promise of               *)
(* AtomicInstall and clean up after each other, for any number of them,    *)
(* wherever they fail or are killed.                                       *)
(***************************************************************************)
EXTENDS UpdateHelperProofs

Recovering == {"recover", "dropBackup", "restoreBackup"}
BeforeMove == {"wait", "check", "copy", "copying", "permissions", "backup"}
AfterMove  == {"place", "rollback"}

OneAtATime == \A g, h \in Helpers : Working(g) /\ Working(h) => g = h

OneBackup == \A f, g \in Helpers : bak[f] # NoFile /\ bak[g] # NoFile => f = g

OthersGone(h) == \A g \in Helpers \ {h} : tmp[g] = NoFile /\ bak[g] = NoFile

\* What a recovery has listed is what is still there.
Listed(h) ==
  /\ pc[h] \in Recovering => todo[h] = Orphans
  /\ pc[h] \in {"dropBackup", "restoreBackup"} => <<"bak", current[h]>> \in todo[h]
  /\ pc[h] = "dropBackup" => dest # NoFile
  /\ pc[h] = "restoreBackup" => dest = NoFile

\* Past its recovery, a helper's place says which files there are.
Placed(h) ==
  /\ pc[h] \in BeforeMove \cup AfterMove \cup {"discard"} => OthersGone(h)
  /\ pc[h] \in BeforeMove => dest # NoFile /\ bak[h] = NoFile
  /\ pc[h] \in {"wait", "check", "copy"} => tmp[h] = NoFile
  /\ pc[h] = "copying" => tmp[h] = Partial
  /\ pc[h] \in {"permissions", "backup"} \cup AfterMove => tmp[h] = h
  /\ pc[h] \in {"backup"} \cup AfterMove => existed[h]
  /\ pc[h] \in AfterMove => dest = NoFile /\ bak[h] # NoFile
  /\ pc[h] = "discard" => dest = h

Stored(program) == dest = program \/ \E g \in Helpers : bak[g] = program

\* The program of a helper is not in use before the helper has placed it.
Fresh(h) ==
  pc[h] \in {"idle"} \cup Recovering \cup BeforeMove \cup AfterMove => ~Stored(h)

Unreported(h) == pc[h] # "exited" => code[h] = -1

Solo ==
  /\ OneAtATime /\ OneBackup
  /\ \A h \in Helpers : Listed(h) /\ Placed(h)
  /\ \A h \in Helpers : Fresh(h)
  /\ \A h \in Helpers : Unreported(h)

LEMMA SoloInit == Init => Solo
<1> SUFFICES ASSUME Init PROVE Solo
  OBVIOUS
<1>1. \A h \in Helpers : pc[h] = "idle" /\ bak[h] = NoFile /\ code[h] = -1
  BY DEF Init
<1>2. \A h \in Helpers : ~Stored(h)
  BY <1>1, OldAssumption, FilesAssumption DEF Init, Stored, Programs
<1> QED
  BY <1>1, <1>2 DEF Solo, OneAtATime, OneBackup, Working, Listed, Placed, Fresh,
     Unreported, Recovering, BeforeMove, AfterMove

-----------------------------------------------------------------------------
(* One step of one helper, the others are not at work.                     *)

\* What a step of h has to show: where h is then, that backups do not become
\* more, and that no program comes into use but that of h, by its placing.
LEMMA OneMoves ==
  ASSUME Inv, Solo, NEW h \in Helpers, NEW p \in Places,
         Working(h) \/ \A g \in Helpers : ~Working(g),
         pc[h] \notin {"exited", "killed"}, p # "idle",
         pc' = [pc EXCEPT ![h] = p],
         \E c : code' = IF p = "exited" THEN [code EXCEPT ![h] = c] ELSE code,
         OneBackup', Listed(h)', Placed(h)',
         \A g \in Helpers : Stored(g)' => Stored(g) \/ (g = h /\ p = "discard"),
         p \notin {"exited", "killed", "discard"} => pc[h] # "discard"
  PROVE  Solo'
<1>1. /\ \A g \in Helpers : pc'[g] = IF g = h THEN p ELSE pc[g]
      /\ pc \in [Helpers -> Places]
  BY DEF Inv, TypeOK
<1>2. \A g \in Helpers \ {h} : ~Working(g) /\ pc[g] \in {"idle", "exited", "killed"}
  BY DEF Solo, OneAtATime, Working
<1>3. OneAtATime'
  BY <1>1, <1>2 DEF OneAtATime, Working
<1>4. ASSUME NEW g \in Helpers PROVE Listed(g)' /\ Placed(g)'
  <2>1. CASE g = h
    BY <2>1
  <2>2. CASE g # h
    BY <1>1, <1>2, <2>2 DEF Listed, Placed, Recovering, BeforeMove, AfterMove
  <2> QED BY <2>1, <2>2
<1>5. ASSUME NEW g \in Helpers PROVE Fresh(g)'
  <2>1. CASE g = h
    <3>1. pc[h] \in {"idle"} \cup Recovering \cup BeforeMove \cup AfterMove \cup {"discard"}
      BY <1>1 DEF Places, Recovering, BeforeMove, AfterMove
    <3>2. Fresh(h)
      BY DEF Solo
    <3> QED BY <1>1, <2>1, <3>1, <3>2 DEF Fresh, Recovering, BeforeMove, AfterMove
  <2>2. CASE g # h
    BY <1>1, <2>2 DEF Fresh, Solo
  <2> QED BY <2>1, <2>2
<1>6. ASSUME NEW g \in Helpers PROVE Unreported(g)'
  BY <1>1 DEF Solo, Unreported, Inv, TypeOK
<1> QED
  BY <1>3, <1>4, <1>5, <1>6 DEF Solo

\* Nothing changes on the disk: backups and programs in use are as before.
LEMMA DiskAsBefore ==
  ASSUME Solo, UNCHANGED <<dest, bak>>
  PROVE  OneBackup' /\ \A g \in Helpers : Stored(g)' = Stored(g)
BY DEF Solo, OneBackup, Stored

LEMMA SoloLaunch ==
  ASSUME ~Overlap, Inv, Solo, NEW h \in Helpers, Launch(h) PROVE Solo'
<1> USE DEF Launch, Goto, files
<1>1. pc' = [pc EXCEPT ![h] = "recover"] /\ code' = code
  OBVIOUS
<1>2. Listed(h)' /\ Placed(h)'
  BY DEF Inv, TypeOK, Listed, Placed, Recovering, BeforeMove, AfterMove, Orphans
<1>3. OneBackup' /\ \A g \in Helpers : Stored(g)' = Stored(g)
  BY DiskAsBefore
<1> QED
  BY <1>1, <1>2, <1>3, OneMoves DEF Places

LEMMA SoloInspect ==
  ASSUME Inv, Solo, NEW h \in Helpers, NEW g \in Helpers, InspectBackup(h, g)
  PROVE  Solo'
<1> USE DEF InspectBackup, NextOrphan, Goto, files
<1>1. PICK p \in {"dropBackup", "restoreBackup"} :
        /\ pc' = [pc EXCEPT ![h] = p]
        /\ p = "dropBackup" <=> dest # NoFile
  BY Zenon
<1>2. Working(h) /\ code' = code /\ pc[h] = "recover"
  BY DEF Working
<1>3. todo[h] = Orphans /\ <<"bak", g>> \in todo[h]
  BY DEF Solo, Listed, Recovering
<1>4. Listed(h)' /\ Placed(h)'
  BY <1>1, <1>3
     DEF Inv, TypeOK, Listed, Placed, Recovering, BeforeMove, AfterMove, Orphans
<1>5. OneBackup' /\ \A f \in Helpers : Stored(f)' = Stored(f)
  BY DiskAsBefore
<1> QED
  BY <1>1, <1>2, <1>4, <1>5, OneMoves DEF Places

\* What is handled is no longer listed, and no longer there.
LEMMA HandledIsGone ==
  ASSUME Inv, NEW h \in Helpers, NEW g \in Helpers, NEW kind \in {"bak", "tmp"},
         todo[h] = Orphans, Handled(h, kind, g),
         kind = "bak" => bak' = [bak EXCEPT ![g] = NoFile] /\ tmp' = tmp,
         kind = "tmp" => tmp' = [tmp EXCEPT ![g] = NoFile] /\ bak' = bak
  PROVE  todo'[h] = Orphans'
<1>1. todo'[h] = Orphans \ {<<kind, g>>}
  BY DEF Handled, Inv, TypeOK
<1>2. Orphans' = Orphans \ {<<kind, g>>}
  <2>1. CASE kind = "bak"
    BY <2>1 DEF Orphans, Inv, TypeOK
  <2>2. CASE kind = "tmp"
    BY <2>2 DEF Orphans, Inv, TypeOK
  <2> QED BY <2>1, <2>2
<1> QED
  BY <1>1, <1>2

LEMMA SoloDropBackup ==
  ASSUME Inv, Solo, NEW h \in Helpers, NEW ok \in BOOLEAN, DropBackup(h, ok)
  PROVE  Solo'
<1> DEFINE g == current[h]
<1>1. Working(h) /\ pc[h] = "dropBackup" /\ dest' = dest /\ tmp' = tmp
  BY DEF DropBackup, Working
<1>2. /\ g \in Helpers /\ <<"bak", g>> \in todo[h] /\ todo[h] = Orphans
      /\ bak[g] # NoFile /\ dest # NoFile
  BY <1>1 DEF Solo, Listed, Recovering, Orphans, Inv, TypeOK
<1>3. CASE ok
  <2>1. bak' = [bak EXCEPT ![g] = NoFile] /\ Handled(h, "bak", g) /\ code' = code
    BY <1>2, <1>3 DEF DropBackup, Handled, Goto
  <2>2. todo'[h] = Orphans' /\ pc' = [pc EXCEPT ![h] = "recover"]
    BY <1>1, <1>2, <2>1, HandledIsGone DEF Handled, Goto
  <2>3. Listed(h)' /\ Placed(h)'
    BY <2>2 DEF Inv, TypeOK, Listed, Placed, Recovering, BeforeMove, AfterMove
  <2>4. OneBackup'
    BY <2>1 DEF Inv, TypeOK, Solo, OneBackup
  <2>5. \A f \in Helpers : Stored(f)' => Stored(f)
    BY <1>1, <2>1, FilesAssumption DEF Inv, TypeOK, Stored, Programs
  <2> QED
    BY <1>1, <2>1, <2>2, <2>3, <2>4, <2>5, OneMoves DEF Places
<1>4. CASE ~ok
  <2>1. /\ pc' = [pc EXCEPT ![h] = "exited"] /\ code' = [code EXCEPT ![h] = 8]
        /\ UNCHANGED <<dest, bak>>
    BY <1>4 DEF DropBackup, Exit
  <2>2. Listed(h)' /\ Placed(h)'
    BY <2>1 DEF Inv, TypeOK, Listed, Placed, Recovering, BeforeMove, AfterMove
  <2> QED
    BY <1>1, <2>1, <2>2, DiskAsBefore, OneMoves DEF Places
<1> QED
  BY <1>3, <1>4

LEMMA SoloRestoreBackup ==
  ASSUME Inv, Solo, NEW h \in Helpers, NEW ok \in BOOLEAN, RestoreBackup(h, ok)
  PROVE  Solo'
<1> DEFINE g == current[h]
<1>1. Working(h) /\ pc[h] = "restoreBackup" /\ tmp' = tmp
  BY DEF RestoreBackup, Working
<1>2. /\ g \in Helpers /\ <<"bak", g>> \in todo[h] /\ todo[h] = Orphans
      /\ bak[g] # NoFile /\ dest = NoFile
  BY <1>1 DEF Solo, Listed, Recovering, Orphans, Inv, TypeOK
<1>3. CASE ok
  <2>1. /\ bak' = [bak EXCEPT ![g] = NoFile] /\ Handled(h, "bak", g) /\ code' = code
        /\ dest' = bak[g]
    BY <1>2, <1>3 DEF RestoreBackup, Handled, Goto
  <2>2. todo'[h] = Orphans' /\ pc' = [pc EXCEPT ![h] = "recover"]
    BY <1>1, <1>2, <2>1, HandledIsGone DEF Handled, Goto
  <2>3. Listed(h)' /\ Placed(h)'
    BY <2>2 DEF Inv, TypeOK, Listed, Placed, Recovering, BeforeMove, AfterMove
  <2>4. OneBackup'
    BY <2>1 DEF Inv, TypeOK, Solo, OneBackup
  <2>5. \A f \in Helpers : Stored(f)' => Stored(f)
    BY <1>1, <1>2, <2>1, FilesAssumption DEF Inv, TypeOK, Stored, Programs
  <2> QED
    BY <1>1, <2>1, <2>2, <2>3, <2>4, <2>5, OneMoves DEF Places
<1>4. CASE ~ok
  <2>1. /\ pc' = [pc EXCEPT ![h] = "exited"] /\ code' = [code EXCEPT ![h] = 8]
        /\ UNCHANGED <<dest, bak>>
    BY <1>4 DEF RestoreBackup, Exit
  <2>2. Listed(h)' /\ Placed(h)'
    BY <2>1 DEF Inv, TypeOK, Listed, Placed, Recovering, BeforeMove, AfterMove
  <2> QED
    BY <1>1, <2>1, <2>2, DiskAsBefore, OneMoves DEF Places
<1> QED
  BY <1>3, <1>4

LEMMA SoloDropTemporary ==
  ASSUME Inv, Solo, NEW h \in Helpers, NEW g \in Helpers, NEW ok \in BOOLEAN,
         DropTemporary(h, g, ok)
  PROVE  Solo'
<1>1. /\ Working(h) /\ pc[h] = "recover" /\ UNCHANGED <<dest, bak>>
      /\ <<"tmp", g>> \in todo[h]
  BY DEF DropTemporary, NextOrphan, Working
<1>2. todo[h] = Orphans /\ tmp[g] # NoFile
  <2>1. todo[h] = Orphans
    BY <1>1 DEF Solo, Listed, Recovering
  <2>2. <<"tmp", g>> \in Orphans => tmp[g] # NoFile
    BY DEF Orphans
  <2> QED BY <1>1, <2>1, <2>2
<1>3. PICK p \in {"recover", "exited"} :
        /\ pc' = [pc EXCEPT ![h] = p]
        /\ \E c : code' = IF p = "exited" THEN [code EXCEPT ![h] = c] ELSE code
        /\ p = "recover" => tmp' = [tmp EXCEPT ![g] = NoFile] /\ Handled(h, "tmp", g)
  <2>1. CASE ok
    <3>1. Handled(h, "tmp", g) /\ tmp' = [tmp EXCEPT ![g] = NoFile]
      BY <1>2, <2>1 DEF DropTemporary
    <3> QED BY <3>1 DEF Handled, Goto
  <2>2. CASE ~ok
    BY <2>2 DEF DropTemporary, Exit
  <2> QED BY <2>1, <2>2
<1>4. p = "recover" => todo'[h] = Orphans'
  BY <1>1, <1>2, <1>3, HandledIsGone
<1>5. Listed(h)' /\ Placed(h)'
  BY <1>3, <1>4 DEF Inv, TypeOK, Listed, Placed, Recovering, BeforeMove, AfterMove
<1> QED
  BY <1>1, <1>3, <1>5, DiskAsBefore, OneMoves DEF Places

\* When nothing is listed any more, nothing is left, and the program is there.
LEMMA RecoveredIsClean ==
  ASSUME Inv, Solo, NEW h \in Helpers, Recovered(h)
  PROVE  dest # NoFile /\ \A g \in Helpers : tmp[g] = NoFile /\ bak[g] = NoFile
<1>1. Orphans = {}
  BY DEF Recovered, Solo, Listed, Recovering
<1>2. \A g \in Helpers : tmp[g] = NoFile /\ bak[g] = NoFile
  BY <1>1 DEF Orphans
<1>3. dest # NoFile
  BY <1>2, FilesAssumption DEF Inv, BackupKept, Programs
<1> QED
  BY <1>2, <1>3

\* The steps that only move a helper on.
LEMMA SoloControl ==
  ASSUME Inv, Solo, NEW h \in Helpers, NEW ok \in BOOLEAN,
         Recovered(h) \/ Waited(h, ok) \/ Checked(h, ok) \/ Killed(h)
  PROVE  Solo'
<1>1. PICK p \in {"wait", "check", "copy", "exited", "killed"} :
        /\ pc' = [pc EXCEPT ![h] = p]
        /\ p = "wait" => Recovered(h)
        /\ p = "check" => pc[h] = "wait"
        /\ p = "copy" => pc[h] = "check"
        /\ \E c : code' = IF p = "exited" THEN [code EXCEPT ![h] = c] ELSE code
  BY DEF Recovered, Waited, Checked, Killed, Goto, Exit
<1>2. Working(h) /\ pc[h] \notin {"exited", "killed"}
  BY DEF Recovered, Waited, Checked, Killed, Working
<1>3. UNCHANGED <<dest, tmp, bak, existed>>
  BY DEF Recovered, Waited, Checked, Killed, files, locals
<1>4. p # "discard" /\ (p \notin {"exited", "killed"} => pc[h] # "discard")
  BY <1>1 DEF Recovered
<1>5. Listed(h)'
  BY <1>1 DEF Inv, TypeOK, Listed, Recovering
<1>6. Placed(h)'
  <2>1. CASE p = "wait"
    BY <1>1, <1>3, <2>1, RecoveredIsClean
       DEF Inv, TypeOK, Placed, OthersGone, BeforeMove, AfterMove
  <2>2. CASE p \in {"check", "copy"}
    BY <1>1, <1>3, <2>2
       DEF Inv, TypeOK, Solo, Placed, OthersGone, BeforeMove, AfterMove
  <2>3. CASE p \in {"exited", "killed"}
    BY <1>1, <2>3 DEF Inv, TypeOK, Placed, BeforeMove, AfterMove
  <2> QED BY <2>1, <2>2, <2>3
<1> QED
  BY <1>1, <1>2, <1>3, <1>4, <1>5, <1>6, DiskAsBefore, OneMoves DEF Places

LEMMA SoloCopy ==
  ASSUME Inv, Solo, NEW h \in Helpers, NEW ok \in BOOLEAN, NEW removed \in BOOLEAN,
         BeginCopy(h, ok) \/ EndCopy(h, ok, removed) \/ SetPermissions(h, ok, removed)
  PROVE  Solo'
<1> USE DEF BeginCopy, EndCopy, SetPermissions, Abandon, Goto, Exit, locals
<1>1. (pc[h] \in BeforeMove /\ Placed(h) /\ package[h] = "good") \/ pc[h] = "permissions"
  BY DEF Inv, Complete, Solo, BeforeMove
<1>2. dest # NoFile /\ UNCHANGED <<dest, bak>> /\ Working(h)
  BY DEF Working, Solo, Placed, BeforeMove
<1>3. PICK p \in {"copying", "permissions", "backup", "exited"} :
        /\ pc' = [pc EXCEPT ![h] = p]
        /\ \E c : code' = IF p = "exited" THEN [code EXCEPT ![h] = c] ELSE code
  BY <1>2
<1>4. Listed(h)'
  BY <1>3 DEF Inv, TypeOK, Listed, Recovering
<1>5. Placed(h)'
  <2>1. CASE BeginCopy(h, ok)
    BY <1>3, <2>1
       DEF Inv, TypeOK, Solo, Placed, OthersGone, BeforeMove, AfterMove
  <2>2. CASE EndCopy(h, ok, removed)
    <3>1. pc[h] = "copying" /\ Placed(h) /\ tmp[h] = Partial /\ Content(h) = h
      BY <2>2 DEF Solo, Placed, Inv, Complete, Content
    <3>2. CASE ok
      <4>1. /\ tmp' = [tmp EXCEPT ![h] = h] /\ pc' = [pc EXCEPT ![h] = "permissions"]
            /\ UNCHANGED <<dest, bak, existed>>
        BY <2>2, <3>1, <3>2 DEF NoFile, Partial
      <4> HIDE DEF EndCopy
      <4> QED
        BY <3>1, <4>1 DEF Inv, TypeOK, Placed, OthersGone, BeforeMove, AfterMove
    <3>3. CASE ~ok
      BY <2>2, <3>3 DEF Inv, TypeOK, Placed, BeforeMove, AfterMove
    <3> QED BY <3>2, <3>3
  <2>3. CASE SetPermissions(h, ok, removed)
    BY <1>2, <1>3, <2>3
       DEF Inv, TypeOK, Solo, Placed, OthersGone, BeforeMove, AfterMove
  <2> QED BY <2>1, <2>2, <2>3
<1>6. OneBackup' /\ \A g \in Helpers : Stored(g)' = Stored(g)
  BY <1>2, DiskAsBefore
<1>7. pc[h] \notin {"discard", "exited", "killed"}
  OBVIOUS
<1> HIDE DEF BeginCopy, EndCopy, SetPermissions
<1> QED
  BY <1>2, <1>3, <1>4, <1>5, <1>6, <1>7, OneMoves DEF Places

\* The old program is moved aside; it is the only backup then.
LEMMA SoloMoveAside ==
  ASSUME Inv, Solo, NEW h \in Helpers, NEW ok \in BOOLEAN, NEW removed \in BOOLEAN,
         MoveAside(h, ok, removed)
  PROVE  Solo'
<1>1. /\ pc[h] = "backup" /\ Working(h) /\ UNCHANGED existed
      /\ \A g \in Helpers : bak[g] = NoFile
      /\ \A g \in Helpers \ {h} : tmp[g] = NoFile
      /\ dest # NoFile /\ tmp[h] = h /\ existed[h]
  BY DEF MoveAside, Working, Solo, Placed, OthersGone, BeforeMove, locals
<1>2. CASE ok
  <2>1. /\ bak' = [bak EXCEPT ![h] = dest] /\ dest' = NoFile /\ tmp' = tmp
        /\ pc' = [pc EXCEPT ![h] = "place"] /\ code' = code
    BY <1>1, <1>2 DEF MoveAside, Goto
  <2>2. Listed(h)' /\ Placed(h)' /\ OneBackup'
    BY <1>1, <2>1 DEF Inv, TypeOK, Listed, Placed, OthersGone, OneBackup, Recovering,
       BeforeMove, AfterMove
  <2>3. \A g \in Helpers : Stored(g)' => Stored(g)
    BY <1>1, <2>1, FilesAssumption DEF Inv, TypeOK, Stored, Programs
  <2> QED
    BY <1>1, <2>1, <2>2, <2>3, OneMoves DEF Places
<1>3. CASE ~ok
  <2>1. /\ pc' = [pc EXCEPT ![h] = "exited"] /\ code' = [code EXCEPT ![h] = 7]
        /\ UNCHANGED <<dest, bak>>
    BY <1>3 DEF MoveAside, Abandon, Exit
  <2>2. Listed(h)' /\ Placed(h)'
    BY <2>1 DEF Inv, TypeOK, Listed, Placed, Recovering, BeforeMove, AfterMove
  <2> QED
    BY <1>1, <2>1, <2>2, DiskAsBefore, OneMoves DEF Places
<1> QED
  BY <1>2, <1>3

LEMMA SoloPlace ==
  ASSUME Inv, Solo, NEW h \in Helpers, NEW ok \in BOOLEAN, NEW removed \in BOOLEAN,
         Place(h, ok, removed)
  PROVE  Solo'
<1>1. /\ pc[h] = "place" /\ Working(h) /\ UNCHANGED <<bak, existed>>
      /\ \A g \in Helpers \ {h} : bak[g] = NoFile /\ tmp[g] = NoFile
      /\ dest = NoFile /\ tmp[h] = h /\ existed[h] /\ bak[h] # NoFile
      /\ h # NoFile
  BY FilesAssumption
     DEF Place, Working, Solo, Placed, OthersGone, AfterMove, locals, Programs
<1>2. OneBackup'
  BY <1>1 DEF Solo, OneBackup
<1>3. CASE ok
  <2>1. /\ dest' = h /\ tmp' = [tmp EXCEPT ![h] = NoFile]
        /\ pc' = [pc EXCEPT ![h] = "discard"] /\ code' = code
    BY <1>1, <1>3 DEF Place, Goto
  <2>2. Listed(h)' /\ Placed(h)'
    BY <1>1, <2>1 DEF Inv, TypeOK, Listed, Placed, OthersGone, Recovering,
       BeforeMove, AfterMove
  <2>3. \A g \in Helpers : Stored(g)' => Stored(g) \/ g = h
    BY <1>1, <2>1 DEF Stored
  <2> QED
    BY <1>1, <1>2, <2>1, <2>2, <2>3, OneMoves DEF Places
<1>4. CASE ~ok
  <2>1. pc' = [pc EXCEPT ![h] = "rollback"] /\ code' = code /\ UNCHANGED <<dest, tmp>>
    BY <1>1, <1>4 DEF Place, Goto
  <2>2. Listed(h)' /\ Placed(h)'
    BY <1>1, <2>1 DEF Inv, TypeOK, Listed, Placed, OthersGone, Recovering,
       BeforeMove, AfterMove
  <2> QED
    BY <1>1, <2>1, <2>2, DiskAsBefore, OneMoves DEF Places
<1> QED
  BY <1>3, <1>4

\* The ends of a helper that had moved the old program aside.
LEMMA SoloEnd ==
  ASSUME Inv, Solo, NEW h \in Helpers, NEW ok \in BOOLEAN, NEW removed \in BOOLEAN,
         Rollback(h, ok, removed) \/ Discard(h, removed)
  PROVE  Solo'
<1>1. /\ pc[h] \in {"rollback", "discard"} /\ Working(h)
      /\ pc' = [pc EXCEPT ![h] = "exited"]
      /\ \E c : code' = [code EXCEPT ![h] = c]
  BY DEF Rollback, Discard, Abandon, Exit, Working
<1>2. Listed(h)' /\ Placed(h)'
  BY <1>1 DEF Inv, TypeOK, Listed, Placed, Recovering, BeforeMove, AfterMove
<1>3. OneBackup'
  BY DEF Rollback, Discard, Inv, TypeOK, Solo, OneBackup
<1>4. \A g \in Helpers : Stored(g)' => Stored(g)
  <2>1. CASE Rollback(h, ok, removed)
    BY <2>1, FilesAssumption DEF Rollback, Inv, TypeOK, Stored, Programs
  <2>2. CASE Discard(h, removed)
    BY <2>2, FilesAssumption DEF Discard, Inv, TypeOK, Stored, Programs
  <2> QED BY <2>1, <2>2
<1> QED
  BY <1>1, <1>2, <1>3, <1>4, OneMoves DEF Places

LEMMA SoloStep == ~Overlap /\ Inv /\ Solo /\ [Next]_vars => Solo'
<1> SUFFICES ASSUME ~Overlap, Inv, Solo, [Next]_vars PROVE Solo'
  OBVIOUS
<1>1. CASE UNCHANGED vars
  BY <1>1 DEF vars, Solo, OneAtATime, OneBackup, Working, Listed, Placed, OthersGone,
     Orphans, Fresh, Stored, Unreported
<1>2. ASSUME NEW h \in Helpers, Launch(h) \/ Killed(h) PROVE Solo'
  BY <1>2, SoloLaunch, SoloControl
<1>3. ASSUME NEW h \in Helpers, Step(h) PROVE Solo'
  BY <1>3, SoloInspect, SoloDropTemporary, SoloDropBackup, SoloRestoreBackup,
     SoloControl, SoloCopy, SoloMoveAside, SoloPlace, SoloEnd
     DEF Step, Recovery, Replacement
<1> QED
  BY <1>1, <1>2, <1>3 DEF Next

LEMMA SoloAlways == ASSUME ~Overlap PROVE Spec => [](Inv /\ Solo)
BY InvInit, InvStep, SoloInit, SoloStep, PTL DEF Spec

\* When a helper that works alone has recovered, the destination is there and
\* nothing is left of the helpers before it, wherever they were killed.
THEOREM RecoveryRestoresAll == ASSUME ~Overlap PROVE Spec => RecoveryRestores
<1>1. Inv /\ Solo /\ [Next]_vars =>
        [\A h \in Helpers : pc[h] = "recover" /\ pc'[h] = "wait" =>
           /\ dest # NoFile
           /\ \A g \in Helpers : tmp[g] = NoFile /\ bak[g] = NoFile]_vars
  <2> SUFFICES ASSUME Inv, Solo, Next, NEW h \in Helpers, pc[h] = "recover", pc'[h] = "wait"
               PROVE  /\ dest # NoFile
                      /\ \A g \in Helpers : tmp[g] = NoFile /\ bak[g] = NoFile
    OBVIOUS
  <2>1. PICK f \in Helpers : Launch(f) \/ Step(f) \/ Killed(f)
    BY DEF Next
  <2>2. f = h /\ pc'[f] = "wait" /\ pc[f] = "recover"
    <3>1. \A g \in Helpers \ {f} : pc'[g] = pc[g]
      BY <2>1 DEF Launch, Killed, Step, Recovery, Replacement, InspectBackup,
         DropTemporary, DropBackup, RestoreBackup, Recovered, Waited, Checked, BeginCopy,
         EndCopy, SetPermissions, MoveAside, Place, Rollback, Discard, Handled, Abandon,
         Goto, Exit, Inv, TypeOK
    <3> QED BY <3>1
  <2>3. Recovered(f)
    BY <2>1, <2>2 DEF Launch, Killed, Step, Recovery, Replacement, InspectBackup,
       DropTemporary, DropBackup, RestoreBackup, Waited, Checked, BeginCopy,
       EndCopy, SetPermissions, MoveAside, Place, Rollback, Discard, Handled, Abandon,
       Goto, Exit, Inv, TypeOK
  <2> QED BY <2>3, RecoveredIsClean
<1> QED
  BY <1>1, SoloAlways, PTL DEF Spec, RecoveryRestores

-----------------------------------------------------------------------------
(* The refinement: what each step is, seen through the recovery.           *)

Verdicts == [h \in Helpers |-> Verdict(h)]

LEMMA InstalledIsDest == ASSUME dest # NoFile PROVE Installed = dest
BY DEF Installed

LEMMA InstalledIsBackup ==
  ASSUME OneBackup, dest = NoFile, NEW g \in Helpers, bak[g] # NoFile
  PROVE  Installed = bak[g]
<1>1. \A f \in Helpers : bak[f] # NoFile <=> f = g
  BY DEF OneBackup
<1>2. (CHOOSE f \in Helpers : bak[f] # NoFile) = g
  BY <1>1
<1> QED
  BY <1>2 DEF Installed

\* What is installed is in use.
LEMMA InstalledIsStored ==
  ASSUME Inv, Solo PROVE Installed \in Programs /\ Stored(Installed)
<1>1. CASE dest # NoFile
  BY <1>1, InstalledIsDest DEF Inv, DestinationIntact, Stored
<1>2. CASE dest = NoFile
  <2>1. PICK g \in Helpers : bak[g] \in Programs
    BY <1>2 DEF Inv, BackupKept
  <2>2. Installed = bak[g]
    BY <1>2, <2>1, InstalledIsBackup, FilesAssumption DEF Solo
  <2> QED BY <2>1, <2>2 DEF Stored
<1> QED
  BY <1>1, <1>2

\* A step that neither ends a helper nor changes the program is none of
\* AtomicInstall.
LEMMA Stutter ==
  ASSUME Installed' = Installed, code' = code
  PROVE  UNCHANGED <<Installed, Verdicts>>
BY DEF Verdicts, Verdict

\* An exit is a report if the code is 0 exactly for the installed program.
LEMMA ExitIsReport ==
  ASSUME Inv, Solo, NEW h \in Helpers, Working(h), NEW c \in {0, 3, 4, 5, 6, 7, 8},
         code' = [code EXCEPT ![h] = c], Installed' = Installed,
         c = 0 <=> Installed = h
  PROVE  Promise!Report(h)
<1>1. code[h] = -1 /\ code \in [Helpers -> {-1, 0, 3, 4, 5, 6, 7, 8}]
  BY DEF Solo, Unreported, Working, Inv, TypeOK
<1>2. Verdict(h) = "none"
  BY <1>1 DEF Verdict
<1>3. \A g \in Helpers :
        Verdict(g)' = IF g = h THEN IF Installed = h THEN "replaced" ELSE "failed"
                      ELSE Verdict(g)
  BY <1>1 DEF Verdict
<1> QED
  BY <1>2, <1>3 DEF Promise!Report

LEMMA ExitIsFailure ==
  ASSUME Inv, Solo, NEW h \in Helpers, Working(h), NEW c \in {3, 4, 5, 6, 7, 8},
         code' = [code EXCEPT ![h] = c], Installed' = Installed, Installed # h
  PROVE  Promise!Report(h)
<1>1. c \in {0, 3, 4, 5, 6, 7, 8} /\ (c = 0 <=> Installed = h)
  OBVIOUS
<1> QED
  BY <1>1, ExitIsReport

LEMMA InstalledNext ==
  /\ dest' # NoFile => Installed' = dest'
  /\ OneBackup' /\ dest' = NoFile =>
       \A g \in Helpers : bak'[g] # NoFile => Installed' = bak'[g]
<1> DEFINE Seen ==
      /\ dest # NoFile => Installed = dest
      /\ OneBackup /\ dest = NoFile =>
           \A g \in Helpers : bak[g] # NoFile => Installed = bak[g]
<1>1. Seen
  BY InstalledIsDest, InstalledIsBackup
<1>2. Seen'
  <2> HIDE DEF Seen
  <2> QED BY <1>1, PTL
<1> QED
  BY <1>2

LEMMA SameFiles == ASSUME UNCHANGED <<dest, bak>> PROVE Installed' = Installed
BY DEF Installed

\* A step that leaves destination and backups alone, and if it ends the helper
\* does so with a failure before the program was placed.
LEMMA QuietRefines ==
  ASSUME Inv, Solo, NEW h \in Helpers, UNCHANGED <<dest, bak>>,
         \/ code' = code
         \/ /\ pc[h] \in Recovering \cup BeforeMove \cup AfterMove
            /\ \E c \in {3, 4, 5, 6, 7, 8} : code' = [code EXCEPT ![h] = c]
  PROVE  Promise!Next \/ UNCHANGED <<Installed, Verdicts>>
<1>1. Installed' = Installed
  BY SameFiles
<1>2. CASE code' = code
  BY <1>1, <1>2, Stutter
<1>3. CASE /\ pc[h] \in Recovering \cup BeforeMove \cup AfterMove
           /\ \E c \in {3, 4, 5, 6, 7, 8} : code' = [code EXCEPT ![h] = c]
  <2>1. Installed # h
    BY <1>3, InstalledIsStored DEF Solo, Fresh
  <2>2. Working(h)
    BY <1>3 DEF Working, Recovering, BeforeMove, AfterMove
  <2>3. PICK c \in {3, 4, 5, 6, 7, 8} : code' = [code EXCEPT ![h] = c]
    BY <1>3
  <2>4. Promise!Report(h)
    BY <1>1, <2>1, <2>2, <2>3, ExitIsFailure
  <2> QED BY <2>4 DEF Promise!Next
<1> QED
  BY <1>2, <1>3

LEMMA ControlRefines ==
  ASSUME Inv, Solo, NEW h \in Helpers, NEW g \in Helpers, NEW ok \in BOOLEAN,
         NEW removed \in BOOLEAN,
         \/ Launch(h) \/ Killed(h) \/ InspectBackup(h, g) \/ DropTemporary(h, g, ok)
         \/ Recovered(h) \/ Waited(h, ok) \/ Checked(h, ok)
         \/ BeginCopy(h, ok) \/ EndCopy(h, ok, removed) \/ SetPermissions(h, ok, removed)
  PROVE  Promise!Next \/ UNCHANGED <<Installed, Verdicts>>
<1>1. UNCHANGED <<dest, bak>>
  BY DEF Launch, Killed, InspectBackup, DropTemporary, Recovered, Waited, Checked,
     BeginCopy, EndCopy, SetPermissions, files
<1>2. \/ code' = code
      \/ /\ pc[h] \in Recovering \cup BeforeMove \cup AfterMove
         /\ \E c \in {3, 4, 5, 6, 7, 8} : code' = [code EXCEPT ![h] = c]
  BY DEF Launch, Killed, InspectBackup, DropTemporary, Recovered, Waited, Checked,
     BeginCopy, EndCopy, SetPermissions, Handled, Abandon, Goto, Exit, Recovering,
     BeforeMove, AfterMove
<1> QED
  BY <1>1, <1>2, QuietRefines

LEMMA DropBackupRefines ==
  ASSUME Inv, Solo, NEW h \in Helpers, NEW ok \in BOOLEAN, DropBackup(h, ok)
  PROVE  Promise!Next \/ UNCHANGED <<Installed, Verdicts>>
<1>1. pc[h] = "dropBackup" /\ dest # NoFile /\ dest' = dest
  BY DEF DropBackup, Solo, Listed
<1>2. CASE code' = code
  BY <1>1, <1>2, InstalledIsDest, InstalledNext, Stutter
<1>3. CASE code' # code
  <2>1. bak' = bak /\ code' = [code EXCEPT ![h] = 8]
    BY <1>3 DEF DropBackup, Handled, Goto, Exit
  <2> QED BY <1>1, <2>1, QuietRefines DEF Recovering
<1> QED
  BY <1>2, <1>3

LEMMA RestoreBackupRefines ==
  ASSUME Inv, Solo, NEW h \in Helpers, NEW ok \in BOOLEAN, RestoreBackup(h, ok)
  PROVE  Promise!Next \/ UNCHANGED <<Installed, Verdicts>>
<1> DEFINE g == current[h]
<1>1. pc[h] = "restoreBackup" /\ dest = NoFile /\ g \in Helpers
  BY DEF RestoreBackup, Solo, Listed, Inv, TypeOK
<1>2. CASE ok /\ bak[g] # NoFile
  <2>1. dest' = bak[g] /\ code' = code
    BY <1>2 DEF RestoreBackup, Handled, Goto
  <2>2. Installed = bak[g]
    BY <1>1, <1>2, InstalledIsBackup DEF Solo
  <2>3. Installed' = dest'
    BY <1>2, <2>1, InstalledNext
  <2> QED BY <2>1, <2>2, <2>3, Stutter
<1>3. CASE ~(ok /\ bak[g] # NoFile)
  <2>1. UNCHANGED <<dest, bak>> /\ code' = [code EXCEPT ![h] = 8]
    BY <1>3 DEF RestoreBackup, Exit
  <2> QED BY <1>1, <2>1, QuietRefines DEF Recovering
<1> QED
  BY <1>2, <1>3

LEMMA MoveAsideRefines ==
  ASSUME Inv, Solo, Solo', NEW h \in Helpers, NEW ok \in BOOLEAN, NEW removed \in BOOLEAN,
         MoveAside(h, ok, removed)
  PROVE  Promise!Next \/ UNCHANGED <<Installed, Verdicts>>
<1>1. pc[h] = "backup" /\ dest # NoFile
  BY DEF MoveAside, Solo, Placed, BeforeMove
<1>2. CASE ok
  <2>1. bak' = [bak EXCEPT ![h] = dest] /\ dest' = NoFile /\ code' = code
    BY <1>1, <1>2 DEF MoveAside, Goto
  <2>2. bak'[h] = dest /\ OneBackup'
    BY <2>1 DEF Inv, TypeOK, Solo
  <2>3. Installed' = Installed
    BY <1>1, <2>1, <2>2, InstalledIsDest, InstalledNext
  <2> QED BY <2>1, <2>3, Stutter
<1>3. CASE ~ok
  <2>1. UNCHANGED <<dest, bak>> /\ code' = [code EXCEPT ![h] = 7]
    BY <1>3 DEF MoveAside, Abandon, Exit
  <2> QED BY <1>1, <2>1, QuietRefines DEF BeforeMove
<1> QED
  BY <1>2, <1>3

\* The one step that replaces the program.
LEMMA PlaceRefines ==
  ASSUME Inv, Solo, NEW h \in Helpers, NEW ok \in BOOLEAN, NEW removed \in BOOLEAN,
         Place(h, ok, removed)
  PROVE  Promise!Next \/ UNCHANGED <<Installed, Verdicts>>
<1>1. pc[h] = "place" /\ tmp[h] = h /\ h # NoFile /\ existed[h]
  BY FilesAssumption DEF Place, Solo, Placed, AfterMove, Programs
<1>2. code' = code /\ code[h] = -1
  BY <1>1 DEF Place, Goto, Solo, Unreported
<1>3. CASE ok
  <2>1. dest' = h
    BY <1>1, <1>3 DEF Place
  <2>2. Installed' = h
    BY <1>1, <2>1, InstalledNext
  <2>3. Promise!Install(h)
    BY <1>2, <2>2 DEF Promise!Install, Verdict
  <2> QED BY <2>3 DEF Promise!Next
<1>4. CASE ~ok
  <2>1. UNCHANGED <<dest, bak>>
    BY <1>1, <1>4 DEF Place
  <2> QED BY <1>2, <2>1, QuietRefines
<1> QED
  BY <1>3, <1>4

LEMMA EndRefines ==
  ASSUME Inv, Solo, NEW h \in Helpers, NEW ok \in BOOLEAN, NEW removed \in BOOLEAN,
         Rollback(h, ok, removed) \/ Discard(h, removed)
  PROVE  Promise!Next \/ UNCHANGED <<Installed, Verdicts>>
<1>1. CASE Rollback(h, ok, removed)
  <2>1. /\ pc[h] = "rollback" /\ Working(h) /\ dest = NoFile /\ bak[h] # NoFile
        /\ code' = [code EXCEPT ![h] = 7]
    BY <1>1 DEF Rollback, Abandon, Exit, Working, Solo, Placed, AfterMove
  <2>2. Installed = bak[h] /\ Installed # h
    BY <2>1, InstalledIsBackup, InstalledIsStored DEF Solo, Fresh, AfterMove
  <2>3. Installed' = Installed
    <3>1. CASE ok
      <4>1. dest' = bak[h]
        BY <1>1, <2>1, <3>1 DEF Rollback
      <4> QED BY <2>1, <2>2, <4>1, InstalledNext
    <3>2. CASE ~ok
      BY <1>1, <3>2, SameFiles DEF Rollback
    <3> QED BY <3>1, <3>2
  <2>4. Promise!Report(h)
    BY <2>1, <2>2, <2>3, ExitIsFailure
  <2> QED BY <2>4 DEF Promise!Next
<1>2. CASE Discard(h, removed)
  <2>1. /\ Working(h) /\ dest = h /\ dest' = dest /\ h # NoFile
        /\ code' = [code EXCEPT ![h] = 0]
    BY <1>2, FilesAssumption DEF Discard, Exit, Working, Solo, Placed, Programs
  <2>2. Installed = h /\ Installed' = Installed
    BY <2>1, InstalledIsDest, InstalledNext
  <2>3. Promise!Report(h)
    BY <2>1, <2>2, ExitIsReport
  <2> QED BY <2>3 DEF Promise!Next
<1> QED
  BY <1>1, <1>2

LEMMA StepRefines ==
  Inv /\ Solo /\ Solo' /\ [Next]_vars => [Promise!Next]_<<Installed, Verdicts>>
<1> SUFFICES ASSUME Inv, Solo, Solo', [Next]_vars
             PROVE  Promise!Next \/ UNCHANGED <<Installed, Verdicts>>
  OBVIOUS
<1>1. CASE UNCHANGED vars
  BY <1>1, SameFiles, Stutter DEF vars
<1>2. ASSUME NEW h \in Helpers, Launch(h) \/ Killed(h)
      PROVE  Promise!Next \/ UNCHANGED <<Installed, Verdicts>>
  BY <1>2, ControlRefines
<1>3. ASSUME NEW h \in Helpers, Step(h)
      PROVE  Promise!Next \/ UNCHANGED <<Installed, Verdicts>>
  BY <1>3, ControlRefines, DropBackupRefines, RestoreBackupRefines, MoveAsideRefines,
     PlaceRefines, EndRefines DEF Step, Recovery, Replacement
<1> QED
  BY <1>1, <1>2, <1>3 DEF Next

\* Helpers that work one after the other implement AtomicInstall: however
\* they fail or are killed, the program that a recovery leads to is replaced
\* in one step, and the exit code is 0 exactly when the replacement is there.
THEOREM ReplacesAtomically == ASSUME ~Overlap PROVE Spec => AtomicallyReplaced
<1>1. Init => Promise!Init
  <2> SUFFICES ASSUME Init PROVE Promise!Init
    OBVIOUS
  <2>1. Installed = Old
    BY InstalledIsDest, FilesAssumption DEF Init, Programs
  <2>2. \A h \in Helpers : Verdict(h) = "none"
    BY DEF Init, Verdict
  <2> QED BY <2>1, <2>2 DEF Promise!Init
<1>2. Inv /\ Solo /\ (Inv /\ Solo)' /\ [Next]_vars
        => [Promise!Next]_<<Installed, [h \in Helpers |-> Verdict(h)]>>
  BY StepRefines DEF Verdicts
<1> QED
  BY <1>1, <1>2, SoloAlways, PTL DEF Spec, AtomicallyReplaced, Promise!Spec
=============================================================================
