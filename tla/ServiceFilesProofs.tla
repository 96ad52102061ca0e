-------------------------- MODULE ServiceFilesProofs --------------------------
(***************************************************************************)
(* Proofs about ServiceFiles, for any number of provisioners, uninstallers *)
(* and texts: types, earned records, removal of own units only, and the    *)
(* truth of a reported success.                                            *)
(***************************************************************************)
EXTENDS ServiceFiles, TLAPS

-----------------------------------------------------------------------------
(* The inductive invariant.                                                *)

\* A provisioner knows what it writes, and records what it has written.
PlansKnown ==
  \A p \in Provisioners :
    /\ ppc[p] # "idle" => spec[p].text \in Specs
    /\ ppc[p] = "recording" => <<spec[p].scope, spec[p].text>> \in wrote

\* What an uninstaller has selected was earned too, ...
SeenEarned ==
  \A u \in Uninstallers :
    seen[u].record # NoText => <<seen[u].scope, seen[u].record>> \in wrote

\* ... matches only what the record is about, ...
SeenHonest ==
  \A u \in Uninstallers :
    seen[u].valid /\ seen[u].consistency = "Match" => seen[u].record = seen[u].text

\* ... and stays as it was seen until somebody touches it.
SeenStays ==
  \A u \in Uninstallers :
    upc[u] \in {"dialog", "stopping", "desktop", "removing"} /\ seen[u].valid /\ ~touched[u]
      => unit[seen[u].scope] = seen[u].text

RemovalPlaces == {"stopping", "removing", "reading", "saving"}

\* A removal is planned for an owned unit only.
Resolved ==
  \A u \in Uninstallers :
    /\ plan[u] = "RemoveDesktopAndOwnedBackend" => OwnedAndMatched(seen[u])
    /\ upc[u] \in RemovalPlaces => plan[u] = "RemoveDesktopAndOwnedBackend"
    /\ upc[u] \in {"none", "discovering", "dialog"} => plan[u] = "none"

\* While the record is cleared, the unit is gone or a failure is known.
UnitGone ==
  \A u \in Uninstallers :
    upc[u] \in {"reading", "saving"} /\ ~failed[u] /\ ~touched[u]
      => unit[seen[u].scope] = NoText

Claims == PlansKnown /\ RecordsAreEarned /\ SeenEarned
Looks  == SeenHonest /\ SeenStays /\ Resolved /\ UnitGone /\ SuccessMeansGone

IInv == TypeOK /\ Claims /\ Looks

-----------------------------------------------------------------------------
(* Types.                                                                  *)

\* The initial states are well typed and satisfy the invariant.
LEMMA InitInv == Init => IInv
<1> SUFFICES ASSUME Init PROVE IInv
  OBVIOUS
<1> USE DEF Init
<1>1. TypeOK
  BY DEF TypeOK, Records, Selections, NoSpec, NoRecords, NoUnit, Places, Actions, Texts, Scopes
<1>2. Claims
  BY DEF Claims, PlansKnown, RecordsAreEarned, Earned, SeenEarned, NoRecords, NoUnit
<1>3. Looks
  BY DEF Looks, SeenHonest, SeenStays, Resolved, RemovalPlaces, UnitGone, SuccessMeansGone,
         NoUnit
<1> QED BY <1>1, <1>2, <1>3 DEF IInv

\* What discovery selects: a unit that systemd shows, the record of its scope,
\* and a match only if the record is of the text shown.
LEMMA DetectedIs ==
  ASSUME TypeOK, NEW records \in Records, NEW answers \in SUBSET Scopes
  PROVE  LET d == Detected(records, answers) IN
         /\ d \in Selections
         /\ d.valid => /\ d.scope \in answers
                       /\ d.text = Shown(d.scope) /\ d.record = records[d.scope]
                       /\ d.consistency = "Match" => d.record = d.text
         /\ ~d.valid => d.record = NoText
<1> DEFINE valid == {s \in answers : Shown(s) \in Official}
           s == IF "User" \in valid THEN "User" ELSE "System"
           t == Shown(s)
           d == Detected(records, answers)
<1>1. CASE valid = {}
  BY <1>1 DEF Detected, NoUnit, Selections, Scopes
<1>2. CASE valid # {}
  <2>1. s \in valid /\ s \in Scopes
    BY <1>2 DEF Scopes
  <2>2. t \in Official /\ t \in Texts \cup {NoText}
    BY <2>1 DEF TypeOK, Shown
  <2>3. t \in Texts /\ records[s] \in Specs \cup {NoText}
    BY <2>1, <2>2, TextAssumption DEF Records
  <2>4. /\ CheckConsistency(records, s, t) \in {"NotRecorded", "Match", "Mismatch"}
        /\ CheckConsistency(records, s, t) = "Match" => records[s] = t
    BY <2>3, PrintAssumption DEF CheckConsistency, Printed, Texts
  <2>5. d = [valid |-> TRUE, scope |-> s, text |-> t, record |-> records[s],
             consistency |-> CheckConsistency(records, s, t)]
    BY <1>2 DEF Detected
  <2> HIDE DEF s, t, valid
  <2>6. s \in answers
    BY <2>1 DEF valid
  <2>7. d \in Selections
    BY <2>1, <2>3, <2>4, <2>5 DEF Selections
  <2>8. d.text = Shown(d.scope)
    BY <2>5 DEF t
  <2> QED BY <2>4, <2>5, <2>6, <2>7, <2>8
<1> QED BY <1>1, <1>2

\* Every step keeps the types.
LEMMA TypeStep == TypeOK /\ PlansKnown /\ [Next]_vars => TypeOK'
<1> SUFFICES ASSUME TypeOK, PlansKnown, [Next]_vars PROVE TypeOK'
  OBVIOUS
<1> USE DEF TypeOK, files, provisioner, uninstaller
<1>1. CASE UNCHANGED vars
  BY <1>1 DEF vars
<1>2. ASSUME NEW p \in Provisioners, Provisioner(p) PROVE TypeOK'
  <2>0. NoSpec \in [scope : Scopes, text : Specs \cup {NoText}] /\ NoRecords \in Records
    BY DEF NoSpec, NoRecords, Records, Scopes
  <2>1. ASSUME NEW s \in Scopes, NEW t \in Specs, NEW writer \in BOOLEAN, Plan(p, s, t, writer)
        PROVE  TypeOK'
    BY <2>1 DEF Plan
  <2>2. CASE WriteUnitFile(p)
    <3>1. spec[p].scope \in Scopes /\ spec[p].text \in Specs
      BY <2>2 DEF WriteUnitFile, PlansKnown
    <3> QED BY <2>2, <3>1 DEF WriteUnitFile, Disturb, Texts
  <2>3. CASE WriteFails(p)
    BY <2>3, <2>0 DEF WriteFails
  <2>4. ASSUME NEW ok \in BOOLEAN, Record(p, ok) PROVE TypeOK'
    <3> DEFINE s == spec[p].scope
    <3>1. s \in Scopes /\ spec[p].text \in Specs
      BY <2>4 DEF Record, PlansKnown
    <3>2. /\ mem' = [mem EXCEPT ![p][s] = spec[p].text] /\ fresh' = [fresh EXCEPT ![p] = s]
          /\ disk' \in {mem'[p], disk} /\ touched' \in [Uninstallers -> BOOLEAN]
          /\ ppc' = [ppc EXCEPT ![p] = "idle"] /\ spec' = [spec EXCEPT ![p] = NoSpec]
          /\ UNCHANGED <<unit, loaded, verbatim, uninstaller, wrote>>
      <4>1. touched' \in [Uninstallers -> BOOLEAN]
        BY <2>4 DEF Record, Disturb
      <4> QED BY <2>4, <4>1 DEF Record
    <3> HIDE DEF s
    <3>3. mem' \in [Provisioners -> Records] /\ disk' \in Records
      <4>1. [mem[p] EXCEPT ![s] = spec[p].text] \in Records
        BY <3>1 DEF Records
      <4>2. mem' = [mem EXCEPT ![p] = [mem[p] EXCEPT ![s] = spec[p].text]]
        BY <3>2
      <4> QED BY <3>2, <4>1, <4>2
    <3>4. \A q \in Provisioners : fresh'[q] \in Scopes => mem'[q][fresh'[q]] # NoText
      BY <3>1, <3>2, TextAssumption DEF Records
    <3> QED BY <2>0, <3>1, <3>2, <3>3, <3>4
  <2>5. CASE DaemonReload(p)
    BY <2>5 DEF DaemonReload
  <2>6. CASE ProvisionerGone(p)
    BY <2>6, <2>0 DEF ProvisionerGone, Scopes
  <2> QED BY <1>2, <2>1, <2>2, <2>3, <2>4, <2>5, <2>6 DEF Provisioner
<1>3. ASSUME NEW u \in Uninstallers, Uninstaller(u) PROVE TypeOK'
  <2> USE DEF UGoto, Places
  <2>0. NoRecords \in Records /\ NoUnit \in Selections
    BY DEF NoRecords, Records, NoUnit, Selections, Scopes
  <2>1. ASSUME NEW readable \in BOOLEAN, LoadRecords(u, readable) PROVE TypeOK'
    BY <2>0, <2>1 DEF LoadRecords
  <2>2. ASSUME NEW answers \in SUBSET Scopes, Discover(u, answers) PROVE TypeOK'
    <3>1. Detected(recs[u], answers) \in Selections
      BY DetectedIs
    <3>2. \A s \in Scopes : Shown(s) \in Texts \cup {NoText}
      BY DEF Shown
    <3> QED BY <2>0, <2>2, <3>1, <3>2 DEF Discover
  <2>3. ASSUME NEW ticked \in BOOLEAN, Decide(u, ticked) PROVE TypeOK'
    <3>1. MakePlan(seen[u], ticked, ticked) \in Actions
      BY DEF MakePlan, Actions
    <3>2. PICK place \in {"stopping", "desktop"} : UGoto(u, place)
      BY <2>3 DEF Decide
    <3> QED BY <2>3, <3>1, <3>2 DEF Decide
  <2>4. ASSUME NEW ok \in BOOLEAN, StopBackendService(u, ok) PROVE TypeOK'
    BY <2>4 DEF StopBackendService
  <2>5. ASSUME NEW ok \in BOOLEAN, RemoveDesktopFiles(u, ok) PROVE TypeOK'
    <3>1. PICK place \in {"removing", "done"} : UGoto(u, place)
      BY <2>5 DEF RemoveDesktopFiles
    <3> QED BY <2>5, <3>1 DEF RemoveDesktopFiles
  <2>6. ASSUME NEW ok \in BOOLEAN, RemoveBackendUnit(u, ok) PROVE TypeOK'
    <3>1. seen[u].scope \in Scopes
      BY DEF Selections
    <3> QED BY <2>6, <3>1 DEF RemoveBackendUnit, Disturb
  <2>7. ASSUME NEW readable \in BOOLEAN, ReloadRecords(u, readable) PROVE TypeOK'
    <3>1. recs' \in [Uninstallers -> Records] /\ upc' \in [Uninstallers -> Places]
      BY <2>7 DEF ReloadRecords
    <3> QED BY <2>7, <3>1 DEF ReloadRecords
  <2>8. ASSUME NEW ok \in BOOLEAN, SaveRecords(u, ok) PROVE TypeOK'
    <3>1. [recs[u] EXCEPT ![seen[u].scope] = NoText] \in Records
      BY DEF Records, Selections
    <3> QED BY <2>0, <2>8, <3>1 DEF SaveRecords, Disturb
  <2>9. CASE UninstallerGone(u)
    BY <2>0, <2>9 DEF UninstallerGone
  <2> QED BY <1>3, <2>1, <2>2, <2>3, <2>4, <2>5, <2>6, <2>7, <2>8, <2>9 DEF Uninstaller
<1>4. CASE Environment
  <2>1. ASSUME NEW s \in Scopes, NEW t \in Others \cup {NoText}, Edit(s, t) PROVE TypeOK'
    BY <2>1 DEF Edit, Disturb, Texts
  <2>2. ASSUME NEW s \in Scopes, Reload(s) PROVE TypeOK'
    BY <2>2 DEF Reload
  <2> QED BY <1>4, <2>1, <2>2 DEF Environment
<1> QED BY <1>1, <1>2, <1>3, <1>4 DEF Next

-----------------------------------------------------------------------------
(* Records are earned.                                                     *)

\* The history only grows, so that what is earned stays earned.
LEMMA HistoryGrows ==
  ASSUME TypeOK, [Next]_vars
  PROVE  wrote \subseteq wrote'
BY DEF Next, vars, files, provisioner, uninstaller, Provisioner, Plan, WriteUnitFile,
       WriteFails, Record, DaemonReload, ProvisionerGone, Uninstaller, LoadRecords, Discover,
       Decide, StopBackendService, RemoveDesktopFiles, RemoveBackendUnit, ReloadRecords,
       SaveRecords, UninstallerGone, Environment, Edit, Reload

\* Every step keeps the claims of records, plans and selections earned.
LEMMA ClaimsStep == TypeOK /\ Claims /\ TypeOK' /\ [Next]_vars => Claims'
<1> SUFFICES ASSUME TypeOK, Claims, TypeOK', [Next]_vars PROVE Claims'
  OBVIOUS
<1> USE DEF Claims, files, provisioner, uninstaller
<1>0. wrote \subseteq wrote'
  BY HistoryGrows
<1>1. ASSUME UNCHANGED provisioner
      PROVE  PlansKnown' /\ \A q \in Provisioners : Earned(mem[q])'
  BY <1>0, <1>1 DEF PlansKnown, RecordsAreEarned, Earned
<1>2. ASSUME UNCHANGED <<recs, seen>>
      PROVE  SeenEarned' /\ \A v \in Uninstallers : Earned(recs[v])'
  BY <1>0, <1>2 DEF SeenEarned, RecordsAreEarned, Earned
<1>3. ASSUME UNCHANGED disk PROVE Earned(disk)'
  BY <1>0, <1>3 DEF RecordsAreEarned, Earned
<1>4. Earned(NoRecords)'
  BY DEF Earned, NoRecords
<1>5. ASSUME NEW r, Earned(r) PROVE \A s \in Scopes : r[s] # NoText => <<s, r[s]>> \in wrote'
  BY <1>0, <1>5 DEF Earned
<1>6. CASE UNCHANGED vars
  BY <1>1, <1>2, <1>3, <1>6 DEF vars, RecordsAreEarned
<1>7. CASE Environment
  BY <1>1, <1>2, <1>3, <1>7 DEF Environment, Edit, Reload, RecordsAreEarned
<1>8. ASSUME NEW p \in Provisioners, Provisioner(p) PROVE Claims'
  <2> USE DEF PlansKnown, RecordsAreEarned
  <2>1. ASSUME NEW s \in Scopes, NEW t \in Specs, NEW writer \in BOOLEAN, Plan(p, s, t, writer)
        PROVE  Claims'
    BY <1>2, <1>3, <2>1 DEF Plan, Earned, TypeOK
  <2>2. CASE WriteUnitFile(p)
    <3>1. PlansKnown'
      BY <1>0, <2>2 DEF WriteUnitFile, TypeOK
    <3>2. \A q \in Provisioners : Earned(mem[q])'
      BY <1>0, <2>2 DEF WriteUnitFile, Earned
    <3> QED BY <1>2, <1>3, <2>2, <3>1, <3>2 DEF WriteUnitFile
  <2>3. CASE WriteFails(p)
    BY <1>2, <1>3, <2>3 DEF WriteFails, Earned, TypeOK
  <2>4. ASSUME NEW ok \in BOOLEAN, Record(p, ok) PROVE Claims'
    <3>1. PlansKnown'
      BY <1>0, <2>4 DEF Record, TypeOK
    <3>2. \A q \in Provisioners : Earned(mem[q])'
      <4>1. mem' = [mem EXCEPT ![p][spec[p].scope] = spec[p].text]
            /\ <<spec[p].scope, spec[p].text>> \in wrote
        BY <2>4 DEF Record
      <4> QED BY <1>0, <4>1 DEF Earned, TypeOK, Records
    <3>3. Earned(disk)'
      <4>1. disk' = mem'[p] \/ disk' = disk
        BY <2>4 DEF Record
      <4> QED BY <1>3, <3>2, <4>1 DEF Earned
    <3> QED BY <1>2, <2>4, <3>1, <3>2, <3>3 DEF Record
  <2>5. CASE DaemonReload(p)
    BY <1>1, <1>2, <1>3, <2>5 DEF DaemonReload
  <2>6. CASE ProvisionerGone(p)
    BY <1>2, <1>3, <1>4, <2>6 DEF ProvisionerGone, Earned, TypeOK
  <2> QED BY <1>8, <2>1, <2>2, <2>3, <2>4, <2>5, <2>6 DEF Provisioner
<1>9. ASSUME NEW u \in Uninstallers, Uninstaller(u) PROVE Claims'
  <2> USE DEF RecordsAreEarned
  <2>1. ASSUME NEW readable \in BOOLEAN, LoadRecords(u, readable) PROVE Claims'
    BY <1>0, <1>1, <1>3, <2>1 DEF LoadRecords, Earned, NoRecords, SeenEarned, TypeOK
  <2>2. ASSUME NEW answers \in SUBSET Scopes, Discover(u, answers) PROVE Claims'
    <3> DEFINE d == Detected(recs[u], answers)
    <3>1. d.record # NoText => <<d.scope, d.record>> \in wrote
      <4>1. recs[u] \in Records /\ Earned(recs[u])
        BY DEF TypeOK
      <4>2. /\ d \in Selections /\ (~d.valid => d.record = NoText)
            /\ d.valid => d.scope \in answers /\ d.record = recs[u][d.scope]
        BY <4>1, DetectedIs
      <4> HIDE DEF d
      <4> QED BY <4>1, <4>2 DEF Earned
    <3> HIDE DEF d
    <3>2. seen' = [seen EXCEPT ![u] = d] /\ recs' = [recs EXCEPT ![u] = NoRecords]
      BY <2>2 DEF Discover, d
    <3>3. SeenEarned' /\ \A v \in Uninstallers : Earned(recs[v])'
      BY <1>0, <3>1, <3>2 DEF SeenEarned, Earned, NoRecords, TypeOK
    <3> QED BY <1>1, <1>3, <2>2, <3>3 DEF Discover
  <2>3. CASE UNCHANGED <<provisioner, disk, recs, seen>>
    BY <1>1, <1>2, <1>3, <2>3
  <2>4. ASSUME NEW readable \in BOOLEAN, ReloadRecords(u, readable) PROVE Claims'
    <3>1. recs' = [recs EXCEPT ![u] = disk] \/ recs' = recs
      BY <2>4 DEF ReloadRecords
    <3>2. SeenEarned' /\ \A v \in Uninstallers : Earned(recs[v])'
      BY <1>0, <2>4, <3>1 DEF ReloadRecords, SeenEarned, Earned, TypeOK
    <3> QED BY <1>1, <1>3, <2>4, <3>2 DEF ReloadRecords
  <2>5. ASSUME NEW ok \in BOOLEAN, SaveRecords(u, ok) PROVE Claims'
    <3>1. disk' = [recs[u] EXCEPT ![seen[u].scope] = NoText] \/ disk' = disk
      BY <2>5 DEF SaveRecords
    <3>2. Earned(disk)'
      BY <1>0, <3>1 DEF Earned, TypeOK, Records
    <3>3. SeenEarned' /\ \A v \in Uninstallers : Earned(recs[v])'
      BY <1>0, <2>5 DEF SaveRecords, SeenEarned, Earned, NoRecords, TypeOK
    <3> QED BY <1>1, <2>5, <3>2, <3>3 DEF SaveRecords
  <2>6. CASE UninstallerGone(u)
    <3>1. SeenEarned' /\ \A v \in Uninstallers : Earned(recs[v])'
      BY <1>0, <2>6 DEF UninstallerGone, SeenEarned, Earned, NoRecords, NoUnit, TypeOK
    <3> QED BY <1>1, <1>3, <2>6, <3>1 DEF UninstallerGone
  <2>7. ASSUME NEW ok \in BOOLEAN,
               \/ StopBackendService(u, ok) \/ RemoveDesktopFiles(u, ok)
               \/ RemoveBackendUnit(u, ok) \/ Decide(u, ok)
        PROVE  UNCHANGED <<provisioner, disk, recs, seen>>
    BY <2>7 DEF StopBackendService, RemoveDesktopFiles, RemoveBackendUnit, Decide
  <2> QED BY <1>9, <2>1, <2>2, <2>3, <2>4, <2>5, <2>6, <2>7 DEF Uninstaller
<1> QED BY <1>6, <1>7, <1>8, <1>9 DEF Next

\* Both together are an invariant.
LEMMA EarnedInv == Spec => [](TypeOK /\ Claims)
<1>1. Init => TypeOK /\ Claims
  BY InitInv DEF IInv
<1>2. TypeOK /\ Claims /\ [Next]_vars => (TypeOK /\ Claims)'
  BY TypeStep, ClaimsStep DEF Claims
<1> QED BY <1>1, <1>2, PTL DEF Spec

\* The types, and that what is reloaded has a record, for any number of
\* processes: ServiceProvisioner and the uninstaller keep their state legal.
THEOREM TypeCorrect == Spec => []TypeOK
BY EarnedInv, PTL

\* services-owned.json and its copies claim only units that a provisioner
\* wrote, for any number of processes that save over each other.
THEOREM EarnedAlways == Spec => []RecordsAreEarned
<1>1. TypeOK /\ Claims => RecordsAreEarned
  BY DEF Claims
<1> QED BY <1>1, EarnedInv, PTL

-----------------------------------------------------------------------------
(* What an uninstaller sees, decides and removes.                          *)

\* A step that leaves the uninstallers where they are, and the unit files as
\* they are or everybody who has looked at them disturbed.
LEMMA OthersStep ==
  ASSUME TypeOK, Looks, UNCHANGED uninstaller,
         \/ UNCHANGED <<unit, disk, touched>>
         \/ Disturb({})
  PROVE  Looks'
<1> USE DEF Looks, TypeOK, uninstaller
<1>1. \A u \in Uninstallers :
        upc[u] # "none" /\ ~touched'[u] => ~touched[u] /\ UNCHANGED <<unit, disk>>
  BY DEF Disturb
<1>2. SeenHonest' /\ Resolved'
  BY DEF SeenHonest, Resolved, OwnedAndMatched
<1>3. SeenStays' /\ UnitGone' /\ SuccessMeansGone'
  BY <1>1 DEF SeenStays, UnitGone, SuccessMeansGone
<1> QED BY <1>2, <1>3

\* The invariant split by uninstaller.
LooksOf(u) ==
  /\ seen[u].valid /\ seen[u].consistency = "Match" => seen[u].record = seen[u].text
  /\ upc[u] \in {"dialog", "stopping", "desktop", "removing"} /\ seen[u].valid /\ ~touched[u]
       => unit[seen[u].scope] = seen[u].text
  /\ plan[u] = "RemoveDesktopAndOwnedBackend" => OwnedAndMatched(seen[u])
  /\ upc[u] \in RemovalPlaces => plan[u] = "RemoveDesktopAndOwnedBackend"
  /\ upc[u] \in {"none", "discovering", "dialog"} => plan[u] = "none"
  /\ upc[u] \in {"reading", "saving"} /\ ~failed[u] /\ ~touched[u]
       => unit[seen[u].scope] = NoText
  /\ upc[u] = "done" /\ plan[u] = "RemoveDesktopAndOwnedBackend" /\ ~failed[u] /\ ~touched[u]
       => unit[seen[u].scope] = NoText /\ disk[seen[u].scope] = NoText

\* It is enough to look at each uninstaller.
LEMMA LooksSplit ==
  /\ Looks <=> \A u \in Uninstallers : LooksOf(u)
  /\ Looks' <=> \A u \in Uninstallers : LooksOf(u)'
BY DEF Looks, LooksOf, SeenHonest, SeenStays, Resolved, UnitGone, SuccessMeansGone

\* A step of one uninstaller leaves the others alone, or disturbs them.
LEMMA AloneStep ==
  ASSUME TypeOK, Looks, NEW u \in Uninstallers, NEW v \in Uninstallers, v # u,
         upc'[v] = upc[v], seen'[v] = seen[v], plan'[v] = plan[v], failed'[v] = failed[v],
         \/ UNCHANGED <<unit, disk>> /\ touched'[v] = touched[v]
         \/ Disturb({u})
  PROVE  LooksOf(v)'
<1>1. LooksOf(v)
  BY LooksSplit
<1>2. upc[v] # "none" /\ ~touched'[v] => ~touched[v] /\ UNCHANGED <<unit, disk>>
  BY DEF Disturb, TypeOK
<1> QED BY <1>1, <1>2 DEF LooksOf, OwnedAndMatched, RemovalPlaces, TypeOK

\* What an uninstaller does keeps its own part of the invariant.
LEMMA OwnStep ==
  ASSUME TypeOK, Looks, NEW u \in Uninstallers, Uninstaller(u)
  PROVE  LooksOf(u)'
<1> USE DEF TypeOK, UGoto, RemovalPlaces, files
<1>0. LooksOf(u) /\ seen[u].scope \in Scopes
  BY LooksSplit DEF Selections
<1>1. ASSUME NEW readable \in BOOLEAN, LoadRecords(u, readable) PROVE LooksOf(u)'
  BY <1>0, <1>1 DEF LooksOf, LoadRecords, OwnedAndMatched
<1>2. ASSUME NEW answers \in SUBSET Scopes, Discover(u, answers) PROVE LooksOf(u)'
  <2> DEFINE d == Detected(recs[u], answers)
  <2>1. /\ d \in Selections
        /\ d.valid => /\ d.scope \in Scopes /\ d.text = Shown(d.scope)
                      /\ d.consistency = "Match" => d.record = d.text
    BY DetectedIs
  <2>2. /\ seen' = [seen EXCEPT ![u] = d] /\ upc' = [upc EXCEPT ![u] = "dialog"]
        /\ ~touched'[u] => \A s \in Scopes : Shown(s) = unit[s]
        /\ plan' = plan /\ unit' = unit /\ upc[u] = "discovering"
    BY <1>2 DEF Discover
  <2> HIDE DEF d
  <2> QED BY <1>0, <2>1, <2>2 DEF LooksOf
<1>3. ASSUME NEW ticked \in BOOLEAN, Decide(u, ticked) PROVE LooksOf(u)'
  <2>1. MakePlan(seen[u], ticked, ticked) = "RemoveDesktopAndOwnedBackend"
          => OwnedAndMatched(seen[u])
    BY DEF MakePlan, CanRemoveBackend
  <2>2. /\ upc[u] = "dialog" /\ seen' = seen /\ unit' = unit /\ touched' = touched
        /\ plan'[u] = MakePlan(seen[u], ticked, ticked)
        /\ upc'[u] = (IF plan'[u] = "RemoveDesktopAndOwnedBackend" THEN "stopping"
                                                                   ELSE "desktop")
    BY <1>3 DEF Decide
  <2> QED BY <1>0, <2>1, <2>2 DEF LooksOf, OwnedAndMatched
<1>4. ASSUME NEW ok \in BOOLEAN, StopBackendService(u, ok) PROVE LooksOf(u)'
  BY <1>0, <1>4 DEF LooksOf, StopBackendService, OwnedAndMatched
<1>5. ASSUME NEW ok \in BOOLEAN, RemoveDesktopFiles(u, ok) PROVE LooksOf(u)'
  <2>1. /\ upc[u] = "desktop" /\ UNCHANGED <<seen, unit, touched, plan>>
        /\ upc'[u] = (IF plan[u] = "RemoveDesktopAndOwnedBackend" THEN "removing" ELSE "done")
    BY <1>5 DEF RemoveDesktopFiles
  <2> QED BY <1>0, <2>1 DEF LooksOf, OwnedAndMatched
<1>6. ASSUME NEW ok \in BOOLEAN, RemoveBackendUnit(u, ok) PROVE LooksOf(u)'
  <2>1. /\ upc[u] = "removing" /\ upc'[u] = "reading" /\ UNCHANGED <<seen, plan>>
        /\ ~failed'[u] => unit'[seen[u].scope] = NoText
    BY <1>0, <1>6 DEF RemoveBackendUnit
  <2> QED BY <1>0, <2>1 DEF LooksOf, OwnedAndMatched
<1>7. ASSUME NEW readable \in BOOLEAN, ReloadRecords(u, readable) PROVE LooksOf(u)'
  <2>1. /\ upc[u] = "reading" /\ UNCHANGED <<seen, plan, unit, disk, touched>>
        /\ failed'[u] = (failed[u] \/ ~readable)
        /\ \/ upc'[u] = "saving"
           \/ upc'[u] = "done" /\ (readable => disk[seen[u].scope] = NoText)
    BY <1>7 DEF ReloadRecords
  <2> QED BY <1>0, <2>1 DEF LooksOf, OwnedAndMatched
<1>8. ASSUME NEW ok \in BOOLEAN, SaveRecords(u, ok) PROVE LooksOf(u)'
  <2>1. /\ upc[u] = "saving" /\ upc'[u] = "done" /\ UNCHANGED <<seen, plan, unit>>
        /\ ~failed'[u] => ok /\ ~failed[u]
        /\ ok => disk' = [recs[u] EXCEPT ![seen[u].scope] = NoText]
        /\ touched'[u] = touched[u]
    BY <1>8 DEF SaveRecords, Disturb
  <2>2. ok => disk'[seen[u].scope] = NoText
    BY <1>0, <2>1 DEF Records
  <2> QED BY <1>0, <2>1, <2>2 DEF LooksOf, OwnedAndMatched
<1>9. CASE UninstallerGone(u)
  BY <1>9 DEF LooksOf, UninstallerGone, NoUnit
<1> QED BY <1>1, <1>2, <1>3, <1>4, <1>5, <1>6, <1>7, <1>8, <1>9 DEF Uninstaller

\* And it either disturbs the others or leaves the files alone.
LEMMA UninstallerFrame ==
  ASSUME TypeOK, NEW u \in Uninstallers, Uninstaller(u), NEW v \in Uninstallers, v # u
  PROVE  /\ upc'[v] = upc[v] /\ seen'[v] = seen[v] /\ plan'[v] = plan[v]
         /\ failed'[v] = failed[v]
         /\ \/ UNCHANGED <<unit, disk>> /\ touched'[v] = touched[v]
            \/ Disturb({u})
<1> USE DEF TypeOK, UGoto, files
<1>1. ASSUME NEW ok \in BOOLEAN, LoadRecords(u, ok) \/ ReloadRecords(u, ok)
      PROVE  /\ upc'[v] = upc[v] /\ seen'[v] = seen[v] /\ plan'[v] = plan[v]
             /\ failed'[v] = failed[v] /\ UNCHANGED <<unit, disk>> /\ touched'[v] = touched[v]
  BY <1>1 DEF LoadRecords, ReloadRecords
<1>2. ASSUME NEW answers \in SUBSET Scopes, Discover(u, answers)
      PROVE  /\ upc'[v] = upc[v] /\ seen'[v] = seen[v] /\ plan'[v] = plan[v]
             /\ failed'[v] = failed[v] /\ UNCHANGED <<unit, disk>> /\ touched'[v] = touched[v]
  BY <1>2 DEF Discover
<1>3. ASSUME NEW ok \in BOOLEAN,
             Decide(u, ok) \/ StopBackendService(u, ok) \/ RemoveDesktopFiles(u, ok)
      PROVE  /\ upc'[v] = upc[v] /\ seen'[v] = seen[v] /\ plan'[v] = plan[v]
             /\ failed'[v] = failed[v] /\ UNCHANGED <<unit, disk>> /\ touched'[v] = touched[v]
  BY <1>3 DEF Decide, StopBackendService, RemoveDesktopFiles
<1>4. ASSUME NEW ok \in BOOLEAN, RemoveBackendUnit(u, ok)
      PROVE  /\ upc'[v] = upc[v] /\ seen'[v] = seen[v] /\ plan'[v] = plan[v]
             /\ failed'[v] = failed[v]
             /\ \/ UNCHANGED <<unit, disk>> /\ touched'[v] = touched[v]
                \/ Disturb({u})
  BY <1>4 DEF RemoveBackendUnit
<1>5. ASSUME NEW ok \in BOOLEAN, SaveRecords(u, ok)
      PROVE  /\ upc'[v] = upc[v] /\ seen'[v] = seen[v] /\ plan'[v] = plan[v]
             /\ failed'[v] = failed[v]
             /\ \/ UNCHANGED <<unit, disk>> /\ touched'[v] = touched[v]
                \/ Disturb({u})
  BY <1>5 DEF SaveRecords
<1>6. CASE UninstallerGone(u)
  BY <1>6 DEF UninstallerGone
<1> QED BY <1>1, <1>2, <1>3, <1>4, <1>5, <1>6 DEF Uninstaller

\* Every step keeps what uninstallers know true.
LEMMA LooksStep == TypeOK /\ Looks /\ [Next]_vars => Looks'
<1> SUFFICES ASSUME TypeOK, Looks, [Next]_vars PROVE Looks'
  OBVIOUS
<1>1. CASE UNCHANGED vars
  BY <1>1, OthersStep DEF vars, files
<1>2. ASSUME NEW p \in Provisioners, Provisioner(p) PROVE Looks'
  <2>1. UNCHANGED uninstaller /\ (UNCHANGED <<unit, disk, touched>> \/ Disturb({}))
    BY <1>2 DEF Provisioner, Plan, WriteUnitFile, WriteFails, Record, DaemonReload,
                ProvisionerGone, files
  <2> QED BY <2>1, OthersStep
<1>3. ASSUME NEW u \in Uninstallers, Uninstaller(u) PROVE Looks'
  <2>1. ASSUME NEW v \in Uninstallers PROVE LooksOf(v)'
    <3>1. CASE v = u
      BY <1>3, <3>1, OwnStep
    <3>2. CASE v # u
      BY <1>3, <3>2, AloneStep, UninstallerFrame
    <3> QED BY <3>1, <3>2
  <2> QED BY <2>1, LooksSplit
<1>4. CASE Environment
  <2>1. UNCHANGED uninstaller /\ (UNCHANGED <<unit, disk, touched>> \/ Disturb({}))
    BY <1>4 DEF Environment, Edit, Reload
  <2> QED BY <2>1, OthersStep
<1> QED BY <1>1, <1>2, <1>3, <1>4 DEF Next

-----------------------------------------------------------------------------
(* The theorems.                                                           *)

LEMMA InductiveInv == Spec => []IInv
<1>1. IInv /\ [Next]_vars => IInv'
  BY TypeStep, ClaimsStep, LooksStep DEF IInv, Claims
<1> QED BY <1>1, InitInv, PTL DEF Spec

\* apply() returns success for a backend that was to be removed only when its
\* unit and its record are gone, whatever fails and whoever works beside it.
THEOREM SuccessIsTruthful == Spec => []SuccessMeansGone
<1>1. IInv => SuccessMeansGone
  BY DEF IInv, Looks
<1> QED BY <1>1, InductiveInv, PTL

\* No uninstaller removes a unit that the desktop did not write, in whichever
\* form systemd prints it, unless a file changes under its eyes.
THEOREM OnlyOwnRemoved == Spec => RemovesOnlyOwn
<1> DEFINE Removal(u, s) ==
             upc[u] = "removing" /\ upc'[u] = "reading" /\ unit'[s] # unit[s] /\ ~touched[u]
               => <<s, unit[s]>> \in wrote
<1>1. ASSUME IInv, [Next]_vars, NEW u \in Uninstallers, NEW s \in Scopes
      PROVE  Removal(u, s)
  <2> SUFFICES ASSUME upc[u] = "removing", upc'[u] = "reading", unit'[s] # unit[s], ~touched[u]
               PROVE  <<s, unit[s]>> \in wrote
    OBVIOUS
  <2>1. LooksOf(u) /\ TypeOK /\ SeenEarned
    BY <1>1, LooksSplit DEF IInv, Claims
  <2>2. PICK ok \in BOOLEAN : RemoveBackendUnit(u, ok)
    <3>1. ASSUME NEW v \in Uninstallers, Uninstaller(v) PROVE v = u
      BY <2>1, <3>1, UninstallerFrame
    <3>2. ASSUME UNCHANGED uninstaller PROVE FALSE
      BY <3>2 DEF uninstaller
    <3>3. Uninstaller(u)
      BY <1>1, <3>1, <3>2
         DEF Next, vars, Provisioner, Plan, WriteUnitFile, WriteFails, Record, DaemonReload,
             ProvisionerGone, Environment, Edit, Reload
    <3> QED BY <2>1, <3>3
         DEF Uninstaller, LoadRecords, Discover, Decide, StopBackendService,
             RemoveDesktopFiles, ReloadRecords, SaveRecords, UninstallerGone, UGoto, TypeOK
  <2>3. s = seen[u].scope
    BY <2>1, <2>2 DEF RemoveBackendUnit, TypeOK
  <2>4. OwnedAndMatched(seen[u]) /\ unit[s] = seen[u].text
    BY <2>1, <2>3 DEF LooksOf, RemovalPlaces, OwnedAndMatched
  <2>5. seen[u].record = unit[s] /\ seen[u].record # NoText
    BY <2>1, <2>4 DEF LooksOf, OwnedAndMatched
  <2> QED BY <2>1, <2>3, <2>5 DEF SeenEarned
<1>2. IInv /\ [Next]_vars => [\A u \in Uninstallers, s \in Scopes : Removal(u, s)]_vars
  BY <1>1
<1> QED BY <1>2, InductiveInv, PTL DEF Spec, RemovesOnlyOwn
=============================================================================
