------------------------- MODULE ServiceManagerProofs -------------------------
(***************************************************************************)
(* Theorems about ServiceManager for every set of unit names and every     *)
(* bound on the requests.                                                  *)
(***************************************************************************)
EXTENDS ServiceManager, SequenceTheorems, TLAPS

USE DEF Units, Scopes, Mutating, AllOps, Results, Ids

\* Where the event loop is decides what may be outstanding: nothing is
\* running between requests, a process exists exactly while a request waits
\* for it, and a discovery that waits has one candidate per finished phase.
Control ==
  /\ reqId = 0 => at = "loop" /\ proc = "none" /\ phase = "None"
  /\ at = "started" => reqId # 0 /\ proc = "none" /\ cands = <<>> /\ phase # "User"
  /\ at \in {"status", "finished"} => reqId # 0 /\ proc = "exited"
  /\ at = "loop" /\ reqId # 0 => proc \in {"starting", "running", "crashed"}
  /\ at = "loop" /\ phase = "System" => cands = <<>>
  /\ at = "loop" /\ phase = "User" => Len(cands) = 1
  /\ reqId # 0 => (phase = "None" <=> op # "Discovery")

TypedControl == TypeOK /\ Control /\ BoundedWait

LEMMA PreflightAccepts ==
  ASSUME NEW o, Preflight(o, TRUE) = "Accepted"
  PROVE  /\ reqId = 0
         /\ o \in Mutating =>
              target.has /\ target.validated /\ target.unit \in ValidUnits
  BY DEF Preflight, NeedsTarget, ChecksName

LEMMA CurrentUnitType == TypeOK => CurrentUnit \in Units
  BY UnitsAssumption DEF TypeOK, Targets, CurrentUnit

LEMMA MapProcessResultType ==
  ASSUME NEW exit PROVE MapProcessResult(exit) \in Results
  BY DEF MapProcessResult

\* selectCandidateIndex selects nothing or a valid candidate.
LEMMA PreferredIsValid ==
  ASSUME NEW cs \in Seq(Candidates), Len(cs) <= 2, Preferred(cs) # 0
  PROVE  Preferred(cs) \in DOMAIN cs /\ cs[Preferred(cs)].valid
<1> DEFINE V(s) == {i \in DOMAIN cs : cs[i].valid /\ cs[i].scope = s}
           Last(S) == CHOOSE i \in S : \A j \in S : j <= i
<1>1. \A S \in SUBSET (DOMAIN cs) : S # {} => \E i \in S : \A j \in S : j <= i
  <2> SUFFICES ASSUME NEW S \in SUBSET (DOMAIN cs), S # {}
               PROVE  \E i \in S : \A j \in S : j <= i
    OBVIOUS
  <2>1. S \subseteq {1, 2}
    <3>1. DOMAIN cs = 1 .. Len(cs) /\ Len(cs) \in Nat
      OBVIOUS
    <3>2. QED BY <3>1
  <2>2. CASE 2 \in S
    BY <2>1, <2>2
  <2>3. CASE 2 \notin S
    BY <2>1, <2>3
  <2>4. QED BY <2>2, <2>3
<1>2. ASSUME NEW s, V(s) # {} PROVE Last(V(s)) \in V(s)
  <2>1. \E i \in V(s) : \A j \in V(s) : j <= i
    BY <1>1, <1>2
  <2>2. QED BY <2>1
<1>3. Preferred(cs) = IF V("User") # {} THEN Last(V("User"))
                      ELSE IF V("System") # {} THEN Last(V("System")) ELSE 0
  BY DEF Preferred
<1>4. V("User") # {} \/ V("System") # {}
  BY <1>3
<1> HIDE DEF Last
<1>5. \E s \in {"User", "System"} : Preferred(cs) \in V(s)
  <2> HIDE DEF V
  <2>1. CASE V("User") # {}
    <3>1. Preferred(cs) = Last(V("User"))
      BY <2>1, <1>3
    <3>2. Last(V("User")) \in V("User")
      BY <2>1, <1>2
    <3> QED BY <3>1, <3>2
  <2>2. CASE V("User") = {}
    <3>1. V("System") # {}
      BY <2>2, <1>4
    <3>2. Preferred(cs) = Last(V("System"))
      BY <2>2, <3>1, <1>3
    <3>3. Last(V("System")) \in V("System")
      BY <3>1, <1>2
    <3> QED BY <3>2, <3>3
  <2> QED BY <2>1, <2>2
<1> QED BY <1>5

-----------------------------------------------------------------------------
\* Type correctness, Control and BoundedWait are inductive together.

LEMMA TypedInit == Init => TypedControl
<1> SUFFICES ASSUME Init PROVE TypedControl
  OBVIOUS
<1>1. target \in Targets /\ command \in Commands
  BY DEF Init, Targets, Commands, NoCommand
<1>2. lastStatus \in [valid : BOOLEAN, manageable : BOOLEAN, accurate : BOOLEAN,
                     moved : BOOLEAN]
  BY DEF Init, NoStatus
<1>3. log \in [Ids -> [op : AllOps, result : {"unused", "running"} \cup Results]]
  BY DEF Init, Unused
<1>4. cands \in Seq(Candidates) /\ Len(cands) <= 2
  BY DEF Init
<1>5. TypeOK
  <2>1. reqId \in {0} \cup Ids /\ nextId \in 1 .. MaxRequests + 1
    BY BoundAssumption DEF Init
  <2>2. /\ op \in AllOps /\ phase \in {"None"} \cup Scopes
        /\ proc = "none" /\ at = "loop" /\ cancelReq = {} /\ inspected = {} /\ evidence = {}
        /\ moved = FALSE /\ astray = FALSE
    BY DEF Init
  <2>3. /\ killed \in BOOLEAN /\ timerOn \in BOOLEAN /\ timedOut \in BOOLEAN
        /\ cancelled \in BOOLEAN /\ available \in BOOLEAN
    BY DEF Init
  <2>4. QED BY <1>1, <1>2, <1>3, <1>4, <2>1, <2>2, <2>3 DEF TypeOK
<1>6. Control /\ BoundedWait
  BY DEF Init, Control, BoundedWait
<1>7. QED BY <1>5, <1>6 DEF TypedControl

\* What the two setters do to the target.
LEMMA SetterKinds ==
  ASSUME NEW u \in Units \cup {NoUnit}, NEW s \in Scopes, NEW v \in BOOLEAN,
         (u # NoUnit /\ SetUnit(u, s)) \/ SetDetectedService(u, s, v)
  PROVE  /\ UNCHANGED <<requestVars, procVars, lastStatus, at, log, cancelReq>>
         /\ \/ DropTarget
            \/ u # NoUnit /\ \E w \in BOOLEAN :
                 Retarget([has |-> TRUE, unit |-> u, scope |-> s, validated |-> w],
                          IF w THEN {<<u, s, "caller">>} ELSE {})
<1>1. UNCHANGED <<requestVars, procVars, lastStatus, at, log, cancelReq>>
  BY DEF SetUnit, SetDetectedService
<1>2. CASE u # NoUnit /\ SetUnit(u, s)
  <2>1. \/ DropTarget
        \/ Retarget([has |-> TRUE, unit |-> u, scope |-> s, validated |-> FALSE],
                    IF FALSE THEN {<<u, s, "caller">>} ELSE {})
    BY <1>2, Zenon DEF SetUnit
  <2>2. QED BY <1>1, <1>2, <2>1
<1>3. CASE SetDetectedService(u, s, v)
  BY <1>1, <1>3 DEF SetDetectedService
<1>4. QED BY <1>2, <1>3

LEMMA TypedSetters ==
  ASSUME TypedControl, NEW u \in Units \cup {NoUnit}, NEW s \in Scopes, NEW v \in BOOLEAN,
         (u # NoUnit /\ SetUnit(u, s)) \/ SetDetectedService(u, s, v)
  PROVE  TypedControl'
<1> USE DEF TypedControl, targetVars, requestVars, procVars
<1>1. /\ target' \in Targets /\ moved' \in BOOLEAN /\ astray' \in BOOLEAN
      /\ evidence' \subseteq (Units \cup {NoUnit}) \X Scopes \X (Kinds \cup {"caller"})
  <2>1. CASE DropTarget
    <3>1. Untargeted(target) \in Targets
      BY DEF TypeOK, Targets, Untargeted
    <3>2. QED BY <2>1, <3>1 DEF DropTarget, TypeOK
  <2>2. ASSUME NEW w \in BOOLEAN,
               Retarget([has |-> TRUE, unit |-> u, scope |-> s, validated |-> w],
                        IF w THEN {<<u, s, "caller">>} ELSE {})
        PROVE  /\ target' \in Targets /\ moved' \in BOOLEAN /\ astray' \in BOOLEAN
               /\ evidence' \subseteq (Units \cup {NoUnit}) \X Scopes \X (Kinds \cup {"caller"})
    <3>1. target' = [has |-> TRUE, unit |-> u, scope |-> s, validated |-> w]
      BY <2>2 DEF Retarget
    <3>2. target' \in Targets
      BY <3>1 DEF Targets
    <3>3. moved' \in BOOLEAN /\ astray' \in BOOLEAN
      BY <2>2 DEF Retarget
    <3>4. evidence' \subseteq (Units \cup {NoUnit}) \X Scopes \X (Kinds \cup {"caller"})
      BY <2>2 DEF Retarget
    <3>5. QED BY <3>2, <3>3, <3>4
  <2>3. QED BY <2>1, <2>2, SetterKinds
<1>2. UNCHANGED <<requestVars, procVars, lastStatus, at, log, cancelReq>>
  BY SetterKinds
<1>3. TypeOK'
  BY <1>1, <1>2 DEF TypeOK, Commands
<1>4. Control' /\ BoundedWait'
  BY <1>2 DEF Control, BoundedWait
<1>5. QED BY <1>3, <1>4

LEMMA TypedRefuse ==
  ASSUME TypedControl, NEW o, NEW exe \in BOOLEAN, Refuse(o, exe)
  PROVE  TypedControl'
<1> USE DEF TypedControl, targetVars, procVars
<1>1. /\ available' \in BOOLEAN
      /\ UNCHANGED <<target, evidence, moved, astray, reqId, nextId, op, phase, cands,
                     inspected, procVars, lastStatus, at, log, cancelReq>>
  BY DEF Refuse, TypeOK
<1>2. TypeOK'
  BY <1>1 DEF TypeOK
<1>3. Control' /\ BoundedWait'
  BY <1>1 DEF Control, BoundedWait
<1>4. QED BY <1>2, <1>3

LEMMA TypedRequest ==
  ASSUME TypedControl, NEW o \in Ops, NEW pkexec \in BOOLEAN, Request(o, pkexec)
  PROVE  TypedControl'
<1> USE DEF TypedControl
<1>1. reqId = 0
  BY PreflightAccepts DEF Request
<1>2. command' \in Commands
  BY DEF Request, Commands, TypeOK, Targets, MayElevate
<1>3. reqId' \in Ids /\ nextId' \in 1 .. MaxRequests + 1
  BY BoundAssumption DEF Request, TypeOK
<1>4. log' \in [Ids -> [op : AllOps, result : {"unused", "running"} \cup Results]]
  BY OpsAssumption DEF Request, TypeOK
<1>5. TypeOK'
  <2>1. /\ op' \in AllOps /\ phase' \in {"None"} \cup Scopes /\ at' = "started"
        /\ timedOut' \in BOOLEAN /\ cancelled' \in BOOLEAN /\ inspected' = {}
        /\ UNCHANGED <<target, evidence, moved, astray, proc, killed, timerOn, lastStatus,
                       cancelReq>>
    BY OpsAssumption DEF Request, targetVars
  <2>2. cands' \in Seq(Candidates) /\ Len(cands') <= 2
    BY DEF Request
  <2>3. available' \in BOOLEAN
    BY DEF Request, TypeOK
  <2>4. QED BY <1>2, <1>3, <1>4, <2>1, <2>2, <2>3 DEF TypeOK
<1>6. Control' /\ BoundedWait'
  BY <1>1, <1>3 DEF Request, Control, BoundedWait, TypeOK
<1>7. QED BY <1>5, <1>6

LEMMA TypedLaunch == TypedControl /\ Launch => TypedControl'
<1> SUFFICES ASSUME TypedControl, Launch PROVE TypedControl'
  OBVIOUS
<1> USE DEF TypedControl, targetVars, requestVars
<1>1. PICK u \in Units \cup {NoUnit}, s \in Scopes, e \in BOOLEAN : StartProcess(u, s, e)
  <2>1. /\ CurrentUnit \in Units /\ target.scope \in Scopes
        /\ command.unit \in Units \cup {NoUnit} /\ command.scope \in Scopes
        /\ command.elevated \in BOOLEAN
    BY CurrentUnitType DEF TypeOK, Commands, Targets
  <2>2. \/ StartProcess(CurrentUnit, "System", FALSE)
        \/ StartProcess(CurrentUnit, target.scope, FALSE)
        \/ StartProcess(command.unit, command.scope, command.elevated)
    BY DEF Launch
  <2>3. QED BY <2>1, <2>2
<1>2. TypeOK'
  <2>1. command' \in Commands
    BY <1>1 DEF StartProcess, Commands
  <2>2. /\ proc' = "starting" /\ killed' = FALSE /\ timedOut' = FALSE /\ cancelled' = FALSE
        /\ timerOn' \in BOOLEAN
    BY <1>1 DEF StartProcess
  <2>3. at' = "loop" /\ UNCHANGED <<target, evidence, moved, astray, lastStatus, log, cancelReq>>
    BY DEF Launch
  <2>4. UNCHANGED <<reqId, nextId, op, phase, cands, available, inspected>>
    BY DEF Launch
  <2>5. /\ evidence' \subseteq (Units \cup {NoUnit}) \X Scopes \X (Kinds \cup {"caller"})
        /\ inspected' \subseteq (Units \cup {NoUnit}) \X Scopes \X Kinds
        /\ moved' \in BOOLEAN /\ astray' \in BOOLEAN /\ target' \in Targets
    BY <2>3, <2>4 DEF TypeOK
  <2>6. /\ cands' \in Seq(Candidates) /\ Len(cands') <= 2 /\ available' \in BOOLEAN
        /\ reqId' \in {0} \cup Ids /\ nextId' \in 1 .. MaxRequests + 1
        /\ op' \in AllOps /\ phase' \in {"None"} \cup Scopes
    BY <2>4 DEF TypeOK
  <2>7. QED BY <2>1, <2>2, <2>3, <2>5, <2>6 DEF TypeOK
<1>3. Control' /\ BoundedWait'
  BY <1>1 DEF Launch, StartProcess, Control, BoundedWait
<1>4. QED BY <1>2, <1>3

LEMMA TypedStarted == TypedControl /\ (ProcessStarted \/ ProcessCrashes) => TypedControl'
<1> SUFFICES ASSUME TypedControl, ProcessStarted \/ ProcessCrashes PROVE TypedControl'
  OBVIOUS
<1> USE DEF TypedControl, targetVars, requestVars
<1>1. /\ proc \in {"starting", "running"} /\ proc' \in {"running", "crashed"}
      /\ UNCHANGED <<targetVars, requestVars, command, killed, timerOn, timedOut,
                     cancelled, lastStatus, at, log, cancelReq>>
  BY DEF ProcessStarted, ProcessCrashes
<1>2. TypeOK'
  BY <1>1 DEF TypeOK
<1>3. Control'
  BY <1>1 DEF Control
<1>4. BoundedWait'
  BY <1>1 DEF BoundedWait
<1>5. QED BY <1>2, <1>3, <1>4

LEMMA TypedTimer == TypedControl /\ TimerFires => TypedControl'
  BY DEF TypedControl, TypeOK, Control, BoundedWait, TimerFires, targetVars, requestVars

LEMMA TypedCancel == TypedControl /\ Cancel => TypedControl'
  BY DEF TypedControl, TypeOK, Control, BoundedWait, Cancel, targetVars, requestVars

LEMMA TypedCleanup == TypedControl /\ CleanupCurrent => TypedControl'
<1> SUFFICES ASSUME TypedControl, CleanupCurrent PROVE TypedControl'
  OBVIOUS
<1> USE DEF TypedControl, targetVars
<1>1. command' \in Commands
  BY DEF CleanupCurrent, NoCommand, Commands
<1>2. TypeOK'
  BY <1>1 DEF CleanupCurrent, TypeOK
<1>3. Control' /\ BoundedWait'
  BY DEF CleanupCurrent, Control, BoundedWait
<1>4. QED BY <1>2, <1>3

LEMMA TypedStatusReported == TypedControl /\ StatusReported => TypedControl'
  BY DEF TypedControl, TypeOK, Control, BoundedWait, StatusReported, Answer, targetVars,
         requestVars, procVars

LEMMA TypedOneShot ==
  ASSUME TypedControl, NEW exit, NEW kind, at = "loop", reqId # 0, phase = "None",
         OneShotFinished(exit, kind)
  PROVE  TypedControl'
<1> USE DEF TypedControl, targetVars, requestVars
<1>1. log' \in [Ids -> [op : AllOps, result : {"unused", "running"} \cup Results]]
  BY MapProcessResultType DEF OneShotFinished, Answer, TypeOK
<1>2. lastStatus' \in [valid : BOOLEAN, manageable : BOOLEAN, accurate : BOOLEAN,
                      moved : BOOLEAN]
  BY DEF OneShotFinished, TypeOK, NoStatus, Manageable
<1>3. TypeOK'
  BY <1>1, <1>2 DEF OneShotFinished, Answer, TypeOK
<1>4. Control' /\ BoundedWait'
  BY DEF OneShotFinished, Answer, Control, BoundedWait
<1>5. QED BY <1>3, <1>4

LEMMA TypedFinalize ==
  ASSUME TypedControl, at = "loop", reqId # 0, phase # "None",
         NEW cs \in Seq(Candidates), Len(cs) <= 2,
         NEW seen \in SUBSET ((Units \cup {NoUnit}) \X Scopes \X Kinds), NEW found \in BOOLEAN,
         FinalizeDiscovery(cs, seen, found), UNCHANGED <<lastStatus, cancelReq>>
  PROVE  TypedControl'
<1> USE DEF TypedControl
<1>1. /\ target' \in Targets /\ moved' \in BOOLEAN /\ astray' \in BOOLEAN
      /\ evidence' \subseteq (Units \cup {NoUnit}) \X Scopes \X (Kinds \cup {"caller"})
  <2>1. CASE Preferred(cs) # 0
    <3>1. cs[Preferred(cs)] \in Candidates
      BY <2>1, PreferredIsValid
    <3>2. /\ target' = [has |-> TRUE, unit |-> cs[Preferred(cs)].unit,
                        scope |-> cs[Preferred(cs)].scope, validated |-> TRUE]
      BY <2>1 DEF FinalizeDiscovery
    <3>3. evidence' \subseteq seen /\ astray' = moved /\ moved' = moved
      BY <2>1 DEF FinalizeDiscovery
    <3>4. target' \in Targets
      BY <3>1, <3>2 DEF Candidates, Targets
    <3>5. evidence' \subseteq (Units \cup {NoUnit}) \X Scopes \X (Kinds \cup {"caller"})
      BY <3>3
    <3>6. QED BY <3>3, <3>4, <3>5 DEF TypeOK
  <2>2. CASE Preferred(cs) = 0
    <3>1. Untargeted(target) \in Targets
      BY DEF TypeOK, Targets, Untargeted
    <3>2. target' = Untargeted(target) /\ evidence' = {} /\ astray' = FALSE /\ moved' = moved
      BY <2>2 DEF FinalizeDiscovery
    <3>3. QED BY <3>1, <3>2 DEF TypeOK
  <2>3. QED BY <2>1, <2>2
<1>2. \E r \in Results : Answer(r)
  BY DEF FinalizeDiscovery
<1>3. log' \in [Ids -> [op : AllOps, result : {"unused", "running"} \cup Results]]
  BY <1>2 DEF Answer, TypeOK
<1>4. /\ at' = "finished" /\ proc' = "exited" /\ timerOn' = FALSE
      /\ cands' = cs /\ inspected' = seen /\ available' = found
      /\ UNCHANGED <<reqId, nextId, op, phase, command, killed, timedOut, cancelled,
                     lastStatus, cancelReq>>
  BY <1>2 DEF FinalizeDiscovery, Answer
<1>5. TypeOK'
  BY <1>1, <1>3, <1>4 DEF TypeOK
<1>6. Control' /\ BoundedWait'
  BY <1>4 DEF Control, BoundedWait
<1>7. QED BY <1>5, <1>6

LEMMA TypedDiscovery ==
  ASSUME TypedControl, NEW exit, NEW kind, NEW exe \in BOOLEAN,
         at = "loop", reqId # 0, phase # "None", DiscoveryFinished(exit, kind, exe)
  PROVE  TypedControl'
<1> USE DEF TypedControl
<1> DEFINE c    == Candidate(exit, kind)
           seen == inspected \cup IF c.valid THEN {<<command.unit, command.scope, kind>>} ELSE {}
           lost == [unit |-> CurrentUnit, scope |-> "User", valid |-> FALSE]
<1>1. c \in Candidates /\ lost \in Candidates
  BY CurrentUnitType DEF Candidate, Candidates, TypeOK
<1>2. seen \in SUBSET ((Units \cup {NoUnit}) \X Scopes \X Kinds)
  <2>1. c.valid => <<command.unit, command.scope, kind>> \in (Units \cup {NoUnit}) \X Scopes \X Kinds
    BY DEF TypeOK, Commands, Candidate, Validated, Kinds
  <2>2. QED BY <2>1 DEF TypeOK
<1>3. /\ phase = "System" => cands = <<>>
      /\ phase = "User" => Len(cands) = 1
      /\ phase \in Scopes /\ cands \in Seq(Candidates) /\ available \in BOOLEAN
  BY DEF Control, TypeOK
<1>4. UNCHANGED <<lastStatus, cancelReq>>
  BY DEF DiscoveryFinished
<1>5. CASE phase = "System" /\ exe
  <2>1. /\ phase' = "User" /\ cands' = Append(cands, c) /\ inspected' = seen
        /\ StartProcess(CurrentUnit, "User", FALSE)
        /\ UNCHANGED <<targetVars, reqId, nextId, op, available, at, log>>
    BY <1>5 DEF DiscoveryFinished
  <2>2. cands' \in Seq(Candidates) /\ Len(cands') = 1
    <3>. HIDE DEF c
    <3>1. cands = <<>>
      BY <1>3, <1>5
    <3>2. QED BY <1>1, <2>1, <3>1
  <2>3. command' \in Commands
    BY <2>1, CurrentUnitType DEF StartProcess, Commands
  <2>4. /\ proc' = "starting" /\ killed' = FALSE /\ timedOut' = FALSE /\ cancelled' = FALSE
        /\ timerOn' = (op # "JournalTail")
    BY <2>1 DEF StartProcess
  <2>5. TypeOK'
    <3>. HIDE DEF seen
    <3>1. /\ timerOn' \in BOOLEAN /\ killed' \in BOOLEAN /\ timedOut' \in BOOLEAN
          /\ cancelled' \in BOOLEAN /\ proc' = "starting" /\ phase' \in Scopes
      BY <2>1, <2>4
    <3>2. /\ inspected' \in SUBSET ((Units \cup {NoUnit}) \X Scopes \X Kinds)
          /\ cands' \in Seq(Candidates) /\ Len(cands') <= 2
      BY <1>2, <2>1, <2>2
    <3>3. UNCHANGED <<target, evidence, moved, astray, reqId, nextId, op, available, at, log,
                      lastStatus, cancelReq>>
      BY <1>4, <2>1 DEF targetVars
    <3>4. QED BY <2>3, <3>1, <3>2, <3>3 DEF TypeOK
  <2>6. Control' /\ BoundedWait'
    BY <1>5, <2>1, <2>2, <2>4 DEF Control, BoundedWait
  <2>7. QED BY <2>5, <2>6
<1>6. CASE phase = "System" /\ ~exe
  <2>1. FinalizeDiscovery(cands \o <<c, lost>>, seen, FALSE)
    BY <1>6 DEF DiscoveryFinished
  <2>2. cands \o <<c, lost>> \in Seq(Candidates) /\ Len(cands \o <<c, lost>>) <= 2
    BY <1>1, <1>3, <1>6
  <2>3. QED BY <1>2, <1>4, <2>1, <2>2, TypedFinalize
<1>7. CASE phase = "User" /\ exe
  <2>1. FinalizeDiscovery(Append(cands, c), seen, available)
    BY <1>7 DEF DiscoveryFinished
  <2>2. Append(cands, c) \in Seq(Candidates) /\ Len(Append(cands, c)) <= 2
    <3>. HIDE DEF c
    <3>1. cands \in Seq(Candidates) /\ Len(cands) = 1
      BY <1>3, <1>7
    <3>2. c \in Candidates
      BY <1>1
    <3>3. /\ Append(cands, c) \in Seq(Candidates)
          /\ Len(Append(cands, c)) = Len(cands) + 1
      BY <3>1, <3>2, AppendProperties
    <3>4. QED BY <3>1, <3>3
  <2>3. QED BY <1>2, <1>3, <1>4, <2>1, <2>2, TypedFinalize
<1>8. QED BY <1>5, <1>6, <1>7 DEF DiscoveryFinished

LEMMA TypedProcessEnds == TypedControl /\ ProcessEnds => TypedControl'
<1> SUFFICES ASSUME TypedControl, ProcessEnds PROVE TypedControl'
  OBVIOUS
<1>1. PICK exe \in BOOLEAN : \E exit, kind : ProcessFinished(exit, kind, exe)
  BY DEF ProcessEnds, ProcessFailsToStart, ProcessExits, CrashFinishes
<1>2. PICK exit, kind : ProcessFinished(exit, kind, exe)
  BY <1>1
<1>3. at = "loop" /\ reqId # 0
  BY DEF ProcessEnds, ProcessFailsToStart, ProcessExits, CrashFinishes, TypedControl, Control
<1>4. CASE phase = "None"
  BY <1>2, <1>3, <1>4, TypedOneShot DEF ProcessFinished
<1>5. CASE phase # "None"
  BY <1>2, <1>3, <1>5, TypedDiscovery DEF ProcessFinished
<1>6. QED BY <1>4, <1>5

\* DetectedService{} of finalizeDiscovery and of a caller is among the calls.
LEMMA CallersSet ==
  ASSUME Callers
  PROVE  \/ \E u \in Units, s \in Scopes : SetUnit(u, s)
         \/ \E u \in Units \cup {NoUnit}, s \in Scopes, v \in BOOLEAN : SetDetectedService(u, s, v)
         \/ \E o \in Ops, exe \in BOOLEAN : Refuse(o, exe)
         \/ \E o \in Ops, pkexec \in BOOLEAN : Request(o, pkexec)
         \/ Cancel
  BY DEF Callers

LEMMA TypedStep == TypedControl /\ [Next]_vars => TypedControl'
<1> SUFFICES ASSUME TypedControl, [Next]_vars PROVE TypedControl'
  OBVIOUS
<1>1. ASSUME NEW u \in Units, NEW s \in Scopes, SetUnit(u, s) PROVE TypedControl'
  BY <1>1, TypedSetters, UnitsAssumption
<1>2. ASSUME NEW u \in Units \cup {NoUnit}, NEW s \in Scopes, NEW v \in BOOLEAN,
             SetDetectedService(u, s, v)
      PROVE  TypedControl'
  BY <1>2, TypedSetters
<1>3. ASSUME NEW o \in Ops, NEW exe \in BOOLEAN, Refuse(o, exe) PROVE TypedControl'
  BY <1>3, TypedRefuse
<1>4. ASSUME NEW o \in Ops, NEW pkexec \in BOOLEAN, Request(o, pkexec) PROVE TypedControl'
  BY <1>4, TypedRequest
<1>5. CASE EventLoop
  BY <1>5, TypedLaunch, TypedStatusReported, TypedCleanup, TypedStarted, TypedProcessEnds,
     TypedTimer DEF EventLoop
<1>6. CASE Cancel
  BY <1>6, TypedCancel
<1>7. CASE UNCHANGED vars
  BY <1>7 DEF vars, TypedControl, TypeOK, Control, BoundedWait
<1>8. QED BY <1>1, <1>2, <1>3, <1>4, <1>5, <1>6, <1>7, CallersSet DEF Next

LEMMA TypedAlways == Spec => []TypedControl
  BY TypedInit, TypedStep, PTL DEF Spec

\* Every variable keeps its type, and a discovery never holds more than one
\* candidate per scope.
THEOREM TypeCorrect == Spec => []TypeOK
<1>1. TypedControl => TypeOK
  BY DEF TypedControl
<1>2. QED BY <1>1, TypedAlways, PTL

\* No request but a journal tail ever waits for a process without a timeout
\* being armed or the process being killed.
THEOREM WaitsAreBounded == Spec => []BoundedWait
<1>1. TypedControl => BoundedWait
  BY DEF TypedControl
<1>2. QED BY <1>1, TypedAlways, PTL

-----------------------------------------------------------------------------
(***************************************************************************)
(* Mutations.  Callers may set the target at any time.  As long as none     *)
(* has moved it away from the process that a discovery runs, candidates     *)
(* carry the name of the unit that was really shown.                        *)
(***************************************************************************)

\* Every valid candidate was seen, official, unless the target was moved.
Traced(cs, seen, m) ==
  \A i \in DOMAIN cs : cs[i].valid =>
    \E k \in Kinds : Validated(k) /\ (m \/ <<cs[i].unit, cs[i].scope, k>> \in seen)

\* What MutatesOnlyInspected asks for a unit in a scope.
Vouched(unit, scope) ==
  \E by \in Kinds \cup {"caller"} :
    /\ <<unit, scope, by>> \in evidence
    /\ Vouches(by, scope) \/ OwnerNotAsked(by, scope)

Trust ==
  /\ target.has /\ target.validated => astray \/ Vouched(target.unit, target.scope)
  /\ at = "loop" /\ phase # "None" => command.scope = phase
  /\ at = "loop" /\ phase # "None" => moved \/ command.unit = CurrentUnit
  /\ at = "loop" /\ phase # "None" => Traced(cands, inspected, moved)

LEMMA TrustInit == Init => Trust
  BY DEF Init, Trust

LEMMA TrustSetters ==
  ASSUME TypedControl, Trust,
         NEW u \in Units \cup {NoUnit}, NEW s \in Scopes, NEW v \in BOOLEAN,
         (u # NoUnit /\ SetUnit(u, s)) \/ SetDetectedService(u, s, v)
  PROVE  Trust'
<1>1. UNCHANGED <<at, phase, command, cands, inspected, reqId, op>>
  BY SetterKinds DEF requestVars, procVars
<1>2. CASE DropTarget
  <2>1. ~target'.has /\ CurrentUnit' = CurrentUnit /\ moved' = moved
    BY <1>2 DEF DropTarget, Untargeted, CurrentUnit
  <2>2. QED BY <1>1, <2>1 DEF Trust, Traced
<1>3. ASSUME u # NoUnit, NEW w \in BOOLEAN,
             Retarget([has |-> TRUE, unit |-> u, scope |-> s, validated |-> w],
                      IF w THEN {<<u, s, "caller">>} ELSE {})
      PROVE  Trust'
  <2>1. /\ target' = [has |-> TRUE, unit |-> u, scope |-> s, validated |-> w]
        /\ evidence' = IF w THEN {<<u, s, "caller">>} ELSE {}
    BY <1>3 DEF Retarget
  <2>2. target'.has /\ target'.validated => Vouched(target.unit, target.scope)'
    BY <2>1 DEF Vouched, Vouches
  <2>3. CurrentUnit' = u
    BY <1>3, <2>1 DEF CurrentUnit
  <2>4. at = "loop" /\ phase # "None" => reqId # 0 /\ op = "Discovery"
    BY DEF TypedControl, Control
  <2>5. /\ moved => moved'
        /\ at = "loop" /\ phase # "None" /\ u # CurrentUnit => moved'
    BY <1>3, <2>4 DEF Retarget, Relabels
  <2>6. at = "loop" /\ phase # "None" => moved' \/ command.unit = CurrentUnit'
    BY <2>3, <2>5 DEF Trust
  <2>7. at = "loop" /\ phase # "None" => Traced(cands, inspected, moved')
    BY <2>5 DEF Trust, Traced
  <2>8. QED BY <1>1, <2>2, <2>6, <2>7 DEF Trust, Traced
<1>4. QED BY <1>2, <1>3, SetterKinds

LEMMA TrustFinalize ==
  ASSUME Trust, NEW cs \in Seq(Candidates), Len(cs) <= 2, NEW seen, NEW found,
         FinalizeDiscovery(cs, seen, found), Traced(cs, seen, moved)
  PROVE  Trust'
<1>1. at' = "finished"
  BY DEF FinalizeDiscovery, Answer
<1>2. CASE Preferred(cs) # 0
  <2>1. PICK j : j = Preferred(cs)
    OBVIOUS
  <2>2. j \in DOMAIN cs /\ cs[j].valid
    BY <1>2, <2>1, PreferredIsValid
  <2>3. /\ target' = [has |-> TRUE, unit |-> cs[j].unit, scope |-> cs[j].scope,
                      validated |-> TRUE]
        /\ evidence' = {p \in seen : p[2] = cs[j].scope} /\ astray' = moved
    BY <1>2, <2>1 DEF FinalizeDiscovery
  <2>4. PICK k \in Kinds : Validated(k) /\ (moved \/ <<cs[j].unit, cs[j].scope, k>> \in seen)
    BY <2>2 DEF Traced
  <2>5. ASSUME ~moved PROVE Vouched(target.unit, target.scope)'
    <3>1. <<cs[j].unit, cs[j].scope, k>> \in evidence'
      BY <2>3, <2>4, <2>5
    <3>2. Vouches(k, cs[j].scope) \/ OwnerNotAsked(k, cs[j].scope)
      <4>1. cs[j] \in Candidates /\ cs[j].scope \in Scopes
        <5>1. cs[j] \in Candidates
          BY <2>2
        <5>2. QED BY <5>1 DEF Candidates
      <4>2. QED BY <2>4, <4>1 DEF Validated, Vouches, OwnerNotAsked, Manageable
    <3>3. QED BY <2>3, <3>1, <3>2 DEF Vouched
  <2>6. QED BY <1>1, <2>3, <2>5 DEF Trust
<1>3. CASE Preferred(cs) = 0
  <2>1. target' = Untargeted(target)
    BY <1>3 DEF FinalizeDiscovery
  <2>2. QED BY <1>1, <2>1 DEF Trust, Untargeted
<1>4. QED BY <1>2, <1>3

LEMMA TrustDiscovery ==
  ASSUME TypedControl, Trust, NEW exit, NEW kind, NEW exe \in BOOLEAN,
         at = "loop", reqId # 0, phase # "None", DiscoveryFinished(exit, kind, exe)
  PROVE  Trust'
<1> DEFINE c    == Candidate(exit, kind)
           seen == inspected \cup IF c.valid THEN {<<command.unit, command.scope, kind>>} ELSE {}
           lost == [unit |-> CurrentUnit, scope |-> "User", valid |-> FALSE]
<1>1. c \in Candidates /\ lost \in Candidates
  BY CurrentUnitType DEF Candidate, Candidates, TypeOK, TypedControl
<1>2. c.valid => kind \in Kinds /\ Validated(kind) /\ (moved \/ <<c.unit, c.scope, kind>> \in seen)
  BY DEF Candidate, Trust, Validated, Kinds
<1>3. /\ cands \in Seq(Candidates)
      /\ phase = "System" => cands = <<>>
      /\ phase = "User" => Len(cands) = 1
      /\ phase \in Scopes
  BY DEF TypedControl, TypeOK, Control
<1>4. Traced(cands, seen, moved)
  BY DEF Trust, Traced
<1>5. /\ Append(cands, c) \in Seq(Candidates)
      /\ Len(Append(cands, c)) = Len(cands) + 1
      /\ Traced(Append(cands, c), seen, moved)
  <2>. HIDE DEF c, seen
  <2>1. /\ Append(cands, c) \in Seq(Candidates)
        /\ Len(Append(cands, c)) = Len(cands) + 1
        /\ \A i \in 1 .. Len(cands) : Append(cands, c)[i] = cands[i]
        /\ Append(cands, c)[Len(cands) + 1] = c
    BY <1>1, <1>3, AppendProperties
  <2>2. DOMAIN Append(cands, c) = 1 .. Len(cands) + 1 /\ DOMAIN cands = 1 .. Len(cands)
        /\ Len(cands) \in Nat
    BY <1>3, <2>1
  <2>3. ASSUME NEW i \in DOMAIN Append(cands, c), Append(cands, c)[i].valid
        PROVE  \E k \in Kinds : Validated(k) /\
                 (moved \/ <<Append(cands, c)[i].unit, Append(cands, c)[i].scope, k>> \in seen)
    <3>1. CASE i \in DOMAIN cands
      <4>1. Append(cands, c)[i] = cands[i]
        BY <2>1, <2>2, <3>1
      <4>2. QED BY <1>4, <2>3, <3>1, <4>1 DEF Traced
    <3>2. CASE i = Len(cands) + 1
      <4>1. Append(cands, c)[i] = c
        BY <2>1, <3>2
      <4>2. QED BY <1>2, <2>3, <4>1
    <3>3. i \in DOMAIN cands \/ i = Len(cands) + 1
      BY <2>2
    <3>4. QED BY <3>1, <3>2, <3>3
  <2>4. Traced(Append(cands, c), seen, moved)
    BY <2>3 DEF Traced
  <2>5. QED BY <2>1, <2>4
<1>6. CASE phase = "System" /\ exe
  <2>1. /\ phase' = "User" /\ cands' = Append(cands, c) /\ inspected' = seen
        /\ command' = [unit |-> CurrentUnit, scope |-> "User", elevated |-> FALSE]
        /\ UNCHANGED <<target, evidence, moved, astray, at>>
    BY <1>6 DEF DiscoveryFinished, StartProcess, targetVars
  <2>2. Traced(cands, inspected, moved)'
    <3>. HIDE DEF c, seen
    <3>1. QED BY <1>5, <2>1 DEF Traced
  <2>. HIDE DEF c, seen
  <2>3. QED BY <2>1, <2>2 DEF Trust, CurrentUnit, Vouched
<1>7. CASE phase = "System" /\ ~exe
  <2>1. FinalizeDiscovery(cands \o <<c, lost>>, seen, FALSE)
    BY <1>7 DEF DiscoveryFinished
  <2>2. cands \o <<c, lost>> = <<c, lost>>
    <3>. HIDE DEF c, lost
    <3>1. cands = <<>> /\ <<c, lost>> \in Seq(Candidates)
      BY <1>1, <1>3, <1>7
    <3>2. <<>> \o <<c, lost>> = <<c, lost>>
      BY <3>1, ConcatEmptySeq
    <3>3. QED BY <3>1, <3>2
  <2>3. ~lost.valid
    OBVIOUS
  <2>4. <<c, lost>> \in Seq(Candidates) /\ Len(<<c, lost>>) <= 2
    BY <1>1
  <2>. HIDE DEF c, seen, lost
  <2>5. Traced(<<c, lost>>, seen, moved)
    BY <1>2, <2>3 DEF Traced
  <2>6. QED BY <2>1, <2>2, <2>4, <2>5, TrustFinalize
<1>8. CASE phase = "User" /\ exe
  <2>1. FinalizeDiscovery(Append(cands, c), seen, available)
    BY <1>8 DEF DiscoveryFinished
  <2>. HIDE DEF c, seen
  <2>2. Len(Append(cands, c)) <= 2
    <3>1. Len(cands) = 1 /\ Len(Append(cands, c)) = Len(cands) + 1
      BY <1>3, <1>5, <1>8
    <3>2. QED BY <3>1
  <2>3. QED BY <1>5, <2>1, <2>2, TrustFinalize
<1>9. QED BY <1>3, <1>6, <1>7, <1>8 DEF DiscoveryFinished

\* What an accepted request finds: Preflight let it pass.
LEMMA TrustRequest ==
  ASSUME TypedControl, Trust, NEW o, NEW pkexec, Request(o, pkexec)
  PROVE  /\ Trust'
         /\ op' \in Mutating => astray \/ Vouched(command'.unit, command'.scope)
<1>1. at' = "started" /\ UNCHANGED targetVars
  BY DEF Request
<1>2. Trust'
  BY <1>1 DEF Trust, targetVars, Vouched
<1>3. ASSUME op' \in Mutating PROVE astray \/ Vouched(command'.unit, command'.scope)
  <2>1. o \in Mutating /\ target.has /\ target.validated
    BY <1>3, PreflightAccepts DEF Request
  <2>2. command'.unit = target.unit /\ command'.scope = target.scope
    BY <2>1 DEF Request
  <2>3. QED BY <2>1, <2>2 DEF Trust
<1>4. QED BY <1>2, <1>3

LEMMA TrustLaunch == TypedControl /\ Trust /\ Launch => Trust'
<1> SUFFICES ASSUME TypedControl, Trust, Launch PROVE Trust'
  OBVIOUS
<1> USE DEF targetVars, requestVars
<1>1. UNCHANGED <<target, evidence, moved, astray, cands, inspected, phase, op>>
  BY DEF Launch
<1>2. cands = <<>> /\ phase # "User" /\ (phase = "None" <=> op # "Discovery")
  BY DEF Launch, TypedControl, Control
<1>3. phase # "None" => command'.unit = CurrentUnit /\ command'.scope = phase
  <2>1. phase \in {"None", "System", "User"}
    BY DEF TypedControl, TypeOK
  <2>2. QED BY <1>2, <2>1 DEF Launch, StartProcess
<1>4. CurrentUnit' = CurrentUnit
  BY <1>1 DEF CurrentUnit
<1>5. Traced(cands, inspected, moved)'
  BY <1>1, <1>2 DEF Traced
<1>6. QED BY <1>1, <1>3, <1>4, <1>5 DEF Trust, Vouched

LEMMA TrustProcessEnds == TypedControl /\ Trust /\ ProcessEnds => Trust'
<1> SUFFICES ASSUME TypedControl, Trust, ProcessEnds PROVE Trust'
  OBVIOUS
<1>1. PICK exe \in BOOLEAN : \E exit, kind : ProcessFinished(exit, kind, exe)
  BY DEF ProcessEnds, ProcessFailsToStart, ProcessExits, CrashFinishes
<1>2. PICK exit, kind : ProcessFinished(exit, kind, exe)
  BY <1>1
<1>3. at = "loop" /\ reqId # 0
  BY DEF ProcessEnds, ProcessFailsToStart, ProcessExits, CrashFinishes, TypedControl, Control
<1>4. CASE phase = "None"
  <2>1. at' \in {"status", "finished"} /\ UNCHANGED targetVars
    BY <1>2, <1>4 DEF ProcessFinished, OneShotFinished, Answer
  <2>2. QED BY <2>1 DEF Trust, targetVars, Vouched
<1>5. CASE phase # "None"
  BY <1>2, <1>3, <1>5, TrustDiscovery DEF ProcessFinished
<1>6. QED BY <1>4, <1>5

\* The remaining steps touch neither the target nor a discovery.
LEMMA TrustOthers ==
  ASSUME TypedControl, Trust,
         \/ StatusReported \/ CleanupCurrent \/ ProcessStarted \/ ProcessCrashes
         \/ TimerFires \/ Cancel \/ UNCHANGED vars \/ \E o, exe : Refuse(o, exe)
  PROVE  Trust'
<1>1. UNCHANGED <<target, evidence, astray>>
  BY DEF StatusReported, CleanupCurrent, ProcessStarted, ProcessCrashes, TimerFires, Cancel,
         Refuse, vars, targetVars
<1>2. CASE at' = "loop" /\ phase' # "None"
  <2>1. UNCHANGED <<at, phase, cands, inspected, command, moved>>
    BY <1>2 DEF StatusReported, Answer, CleanupCurrent, ProcessStarted, ProcessCrashes,
                TimerFires, Cancel, Refuse, vars, targetVars, requestVars, procVars
  <2>2. QED BY <1>1, <2>1 DEF Trust, Traced, CurrentUnit, Vouched
<1>3. CASE ~(at' = "loop" /\ phase' # "None")
  BY <1>1, <1>3 DEF Trust, Vouched
<1>4. QED BY <1>2, <1>3

LEMMA TrustStep == TypedControl /\ Trust /\ [Next]_vars => Trust'
<1> SUFFICES ASSUME TypedControl, Trust, [Next]_vars PROVE Trust'
  OBVIOUS
<1>1. ASSUME NEW u \in Units, NEW s \in Scopes, SetUnit(u, s) PROVE Trust'
  BY <1>1, TrustSetters, UnitsAssumption
<1>2. ASSUME NEW u \in Units \cup {NoUnit}, NEW s \in Scopes, NEW v \in BOOLEAN,
             SetDetectedService(u, s, v)
      PROVE  Trust'
  BY <1>2, TrustSetters
<1>3. ASSUME NEW o \in Ops, NEW pkexec \in BOOLEAN, Request(o, pkexec) PROVE Trust'
  BY <1>3, TrustRequest
<1>4. QED BY <1>1, <1>2, <1>3, TrustLaunch, TrustProcessEnds, TrustOthers, CallersSet
          DEF Next, EventLoop

LEMMA AcceptedWhenInspected ==
  ASSUME TypedControl, Trust, [Next]_vars, reqId' # reqId, op' \in Mutating
  PROVE  astray \/ Vouched(command'.unit, command'.scope)
<1>1. ~CleanupCurrent
  BY DEF CleanupCurrent
<1>2. \E o \in Ops, pkexec \in BOOLEAN : Request(o, pkexec)
  <2>1. ASSUME ProcessEnds PROVE reqId' = reqId
    <3>1. PICK exit, kind, exe : ProcessFinished(exit, kind, exe)
      BY <2>1 DEF ProcessEnds, ProcessFailsToStart, ProcessExits, CrashFinishes
    <3>2. QED BY <3>1 DEF ProcessFinished, OneShotFinished, DiscoveryFinished,
                  FinalizeDiscovery, requestVars
  <2>2. QED BY <1>1, <2>1 DEF Next, Callers, EventLoop, SetUnit, SetDetectedService, Refuse,
            Launch, StatusReported, ProcessStarted, ProcessCrashes, TimerFires, Cancel, vars,
            requestVars
<1>3. QED BY <1>2, TrustRequest

\* Whenever the setters are called: a start, stop or restart is accepted only
\* against a unit that the last discovery saw pass validation and, but for the
\* owner of a user unit, the ownership rule, or that the caller vouched for, and
\* that is still the target; or against one that was renamed while a process of
\* the discovery ran.
THEOREM MutationsAreInspected == Spec => MutatesOnlyInspected
<1>1. Init => TypedControl /\ Trust
  BY TypedInit, TrustInit
<1>2. TypedControl /\ Trust /\ [Next]_vars => (TypedControl /\ Trust)'
  BY TypedStep, TrustStep
<1>3. TypedControl /\ Trust /\ [Next]_vars =>
        [reqId' # reqId /\ op' \in Mutating =>
           \/ astray
           \/ \E by \in Kinds \cup {"caller"} :
                /\ <<command'.unit, command'.scope, by>> \in evidence
                /\ Vouches(by, command'.scope) \/ OwnerNotAsked(by, command'.scope)]_vars
  BY AcceptedWhenInspected DEF Vouched
<1>4. QED BY <1>1, <1>2, <1>3, PTL DEF Spec, MutatesOnlyInspected

-----------------------------------------------------------------------------
(***************************************************************************)
(* The manager implements the safety part of RequestServer.                *)
(***************************************************************************)

\* The log and the request being served agree.
Books ==
  /\ \A i \in Ids : log[i].result = "running" <=> i = reqId /\ at # "finished"
  /\ \A i \in Ids : i < nextId <=> log[i].result # "unused"
  /\ reqId # 0 => reqId \in Ids /\ log[reqId].op = op

BooksTyped == TypedControl /\ Books

\* What the log records of the step from one state to the next.
Accepts(o) ==
  /\ reqId = 0 /\ nextId \in Ids
  /\ reqId' = nextId /\ nextId' = nextId + 1 /\ op' = o /\ at' = "started"
  /\ log' = [log EXCEPT ![nextId] = [op |-> o, result |-> "running"]]

Answers(r) ==
  /\ reqId # 0 /\ at # "finished"
  /\ UNCHANGED <<reqId, nextId, op>>
  /\ Answer(r)

Silent ==
  \/ UNCHANGED <<reqId, nextId, op, log>> /\ (at = "finished" <=> at' = "finished")
  \/ CleanupCurrent

\* Every step accepts a request, answers the one being served, or is silent.
LEMMA StepKinds ==
  ASSUME TypedControl, [Next]_vars
  PROVE  \/ \E o \in Ops : Accepts(o)
         \/ \E r \in Results : Answers(r)
         \/ Silent
<1> USE DEF targetVars, requestVars, procVars
<1>1. ASSUME NEW o \in Ops, NEW pkexec \in BOOLEAN, Request(o, pkexec) PROVE Accepts(o)
  <2>1. reqId = 0
    BY <1>1, PreflightAccepts DEF Request
  <2>2. nextId \in Ids
    BY <1>1, BoundAssumption DEF Request, TypedControl, TypeOK
  <2>3. QED BY <1>1, <2>1, <2>2 DEF Request, Accepts
<1>2. CASE StatusReported
  <2>1. reqId # 0 /\ Answers("Success")
    BY <1>2 DEF StatusReported, Answers, TypedControl, Control
  <2>2. QED BY <2>1
<1>3. CASE ProcessEnds
  <2>1. PICK exit, kind, exe : ProcessFinished(exit, kind, exe)
    BY <1>3 DEF ProcessEnds, ProcessFailsToStart, ProcessExits, CrashFinishes
  <2>2. at = "loop" /\ reqId # 0
    BY <1>3 DEF ProcessEnds, ProcessFailsToStart, ProcessExits, CrashFinishes, TypedControl,
                Control
  <2>3. CASE phase = "None"
    <3>1. OneShotFinished(exit, kind)
      BY <2>1, <2>3 DEF ProcessFinished
    <3>2. UNCHANGED <<reqId, nextId, op>>
      BY <3>1 DEF OneShotFinished
    <3>3. \/ at' = "status" /\ UNCHANGED log
          \/ Answer(MapProcessResult(exit))
      BY <3>1 DEF OneShotFinished
    <3>4. QED BY <2>2, <3>2, <3>3, MapProcessResultType DEF Answers, Silent
  <2>4. CASE phase # "None"
    <3>1. DiscoveryFinished(exit, kind, exe)
      BY <2>1, <2>4 DEF ProcessFinished
    <3>2. CASE UNCHANGED <<reqId, nextId, op, available, at, log>>
      BY <3>2 DEF Silent
    <3>3. CASE \E cs, seen, found : FinalizeDiscovery(cs, seen, found)
      <4>1. PICK cs, seen, found : FinalizeDiscovery(cs, seen, found)
        BY <3>3
      <4>2. UNCHANGED <<reqId, nextId, op>>
        BY <4>1 DEF FinalizeDiscovery
      <4>3. \E r \in Results : Answer(r)
        BY <4>1 DEF FinalizeDiscovery
      <4>4. QED BY <2>2, <4>2, <4>3 DEF Answers
    <3>4. QED BY <3>1, <3>2, <3>3 DEF DiscoveryFinished
  <2>5. QED BY <2>3, <2>4
<1>4. ASSUME \/ \E u, s : SetUnit(u, s)
             \/ \E u, s, v : SetDetectedService(u, s, v)
             \/ \E o, exe : Refuse(o, exe)
             \/ Launch \/ ProcessStarted \/ ProcessCrashes \/ TimerFires \/ Cancel
             \/ UNCHANGED vars
      PROVE  UNCHANGED <<reqId, nextId, op, log>> /\ (at = "finished" <=> at' = "finished")
  BY <1>4 DEF SetUnit, SetDetectedService, Refuse, Launch, ProcessStarted, ProcessCrashes,
              TimerFires, Cancel, vars
<1>5. QED BY <1>1, <1>2, <1>3, <1>4 DEF Next, Callers, EventLoop, Silent

LEMMA BooksInit == Init => Books
  BY BoundAssumption DEF Init, Books, Unused

LEMMA BooksStep == BooksTyped /\ [Next]_vars => Books'
<1> SUFFICES ASSUME BooksTyped, [Next]_vars PROVE Books'
  OBVIOUS
<1>1. /\ log \in [Ids -> [op : AllOps, result : {"unused", "running"} \cup Results]]
      /\ nextId \in Nat /\ reqId \in Nat
      /\ Books
  BY BoundAssumption DEF BooksTyped, TypedControl, TypeOK
<1>2. ASSUME NEW o \in Ops, Accepts(o) PROVE Books'
  BY <1>1, <1>2 DEF Accepts, Books
<1>3. ASSUME NEW r \in Results, Answers(r) PROVE Books'
  BY <1>1, <1>3 DEF Answers, Answer, Books
<1>4. CASE Silent
  <2>1. CASE CleanupCurrent
    <3>1. at = "finished" /\ at' = "loop" /\ reqId' = 0 /\ UNCHANGED <<nextId, log>>
      BY <2>1 DEF CleanupCurrent
    <3>2. \A i \in Ids : i # 0
      BY BoundAssumption
    <3>3. QED BY <1>1, <3>1, <3>2 DEF Books
  <2>2. CASE UNCHANGED <<reqId, nextId, op, log>> /\ (at = "finished" <=> at' = "finished")
    BY <1>1, <2>2 DEF Books
  <2>3. QED BY <1>4, <2>1, <2>2 DEF Silent
<1>5. QED BY <1>2, <1>3, <1>4, StepKinds DEF BooksTyped

LEMMA PromiseInit == Init => Promise!Init
  BY DEF Init, Promise!Init, Unused

LEMMA PromiseStep ==
  BooksTyped /\ [Next]_vars =>
    [Promise!Next]_<<IF at = "finished" THEN 0 ELSE reqId, log>>
<1> SUFFICES ASSUME BooksTyped, [Next]_vars
             PROVE  [Promise!Next]_<<IF at = "finished" THEN 0 ELSE reqId, log>>
  OBVIOUS
<1>1. /\ log \in [Ids -> [op : AllOps, result : {"unused", "running"} \cup Results]]
      /\ nextId \in Nat /\ Books
      /\ reqId = 0 => at = "loop"
  BY BoundAssumption DEF BooksTyped, TypedControl, TypeOK, Control
<1>2. ASSUME NEW o \in Ops, Accepts(o) PROVE Promise!Accept(nextId, o) /\ nextId \in Ids
  <2>1. /\ log[nextId].result = "unused"
        /\ \A j \in Ids : j < nextId => log[j].result \in Results
    BY <1>1, <1>2 DEF Accepts, Books
  <2>2. QED BY <1>1, <1>2, <2>1 DEF Accepts, Promise!Accept
<1>3. ASSUME NEW r \in Results, Answers(r) PROVE Promise!Finish(reqId, r) /\ reqId \in Ids
  BY <1>1, <1>3 DEF Answers, Answer, Books, Promise!Finish
<1>4. CASE Silent
  BY <1>1, <1>4 DEF Silent, CleanupCurrent
<1>5. QED BY <1>2, <1>3, <1>4, StepKinds DEF BooksTyped, Promise!Next

\* Every behaviour of the manager is one of the request server: requests are
\* served one at a time, in the order of their ids, and each is answered at
\* most once, however timers, kills and process signals interleave.
THEOREM PromiseIsSafe == Spec => Promise!Safety
<1>1. Init => Promise!Init /\ BooksTyped
  BY PromiseInit, BooksInit, TypedInit DEF BooksTyped
<1>2. BooksTyped /\ [Next]_vars => BooksTyped'
  BY TypedStep, BooksStep DEF BooksTyped
<1>3. QED BY <1>1, <1>2, PromiseStep, PTL DEF Spec, Promise!Safety

\* A request that was answered keeps its answer: a late exit, a late timeout
\* or a kill of the process of an earlier request never answers it again.
THEOREM AnswersAreFinal ==
  Spec => [][\A i \in Ids : log[i].result \in Results => log'[i] = log[i]]_vars
<1>1. Init => BooksTyped
  BY BooksInit, TypedInit DEF BooksTyped
<1>2. BooksTyped /\ [Next]_vars => BooksTyped'
  BY TypedStep, BooksStep DEF BooksTyped
<1>3. ASSUME BooksTyped, [Next]_vars
      PROVE  \A i \in Ids : log[i].result \in Results => log'[i] = log[i]
  <2>1. /\ log \in [Ids -> [op : AllOps, result : {"unused", "running"} \cup Results]]
        /\ nextId \in Nat /\ reqId \in Nat /\ Books
    BY <1>3, BoundAssumption DEF BooksTyped, TypedControl, TypeOK
  <2>2. ASSUME NEW o \in Ops, Accepts(o)
        PROVE  \A i \in Ids : log[i].result \in Results => log'[i] = log[i]
    <3>1. log[nextId].result = "unused"
      BY <2>1, <2>2 DEF Accepts, Books
    <3> QED
      BY <2>1, <2>2, <3>1 DEF Accepts
  <2>3. ASSUME NEW r \in Results, Answers(r)
        PROVE  \A i \in Ids : log[i].result \in Results => log'[i] = log[i]
    <3>1. reqId \in Ids /\ log[reqId].result = "running"
      BY <2>1, <2>3 DEF Answers, Books
    <3> QED
      BY <2>1, <2>3, <3>1 DEF Answers, Answer
  <2>4. Silent => log' = log
    BY DEF Silent, CleanupCurrent
  <2> QED
    BY <1>3, <2>2, <2>3, <2>4, StepKinds DEF BooksTyped
<1>4. QED BY <1>1, <1>2, <1>3, PTL DEF Spec

-----------------------------------------------------------------------------
(***************************************************************************)
(* Cancellation.                                                           *)
(***************************************************************************)

\* A cancellation is remembered for as long as its one-shot process runs, and
\* a request that has not been launched, or has a result to tell, has none.
CancelKept ==
  /\ reqId \in cancelReq /\ at = "loop" /\ phase = "None" => cancelled
  /\ at \in {"started", "status"} => reqId \notin cancelReq

\* Only a request that was accepted can be cancelled.
CancelledIsOld == \A i \in cancelReq : i < nextId

LEMMA CancelInit == Init => CancelKept /\ CancelledIsOld /\ CancelledNeverSucceeds
  BY DEF Init, CancelKept, CancelledIsOld, CancelledNeverSucceeds

LEMMA OldStep == BooksTyped /\ CancelledIsOld /\ [Next]_vars => CancelledIsOld'
<1> SUFFICES ASSUME BooksTyped, CancelledIsOld, [Next]_vars PROVE CancelledIsOld'
  OBVIOUS
<1>1. nextId \in Nat /\ cancelReq \subseteq Ids
  BY BoundAssumption DEF BooksTyped, TypedControl, TypeOK
<1>2. nextId' = nextId \/ nextId' = nextId + 1
  <2>1. ASSUME NEW o \in Ops, Accepts(o) PROVE nextId' = nextId + 1
    BY <2>1 DEF Accepts
  <2>2. ASSUME NEW r \in Results, Answers(r) PROVE nextId' = nextId
    BY <2>2 DEF Answers
  <2>3. Silent => nextId' = nextId
    BY DEF Silent, CleanupCurrent
  <2>4. QED BY <2>1, <2>2, <2>3, StepKinds DEF BooksTyped
<1>3. cancelReq' = cancelReq \/ Cancel
  BY DEF Next, Callers, EventLoop, SetUnit, SetDetectedService, Refuse, Request, Cancel,
         Launch, StatusReported, CleanupCurrent, ProcessStarted, ProcessCrashes,
         ProcessEnds, ProcessFailsToStart, ProcessExits, CrashFinishes, ProcessFinished,
         OneShotFinished, DiscoveryFinished, TimerFires, vars
<1>4. CASE cancelReq' = cancelReq
  BY <1>1, <1>2, <1>4 DEF CancelledIsOld
<1>5. CASE Cancel
  <2>1. /\ at = "loop" => cancelReq' = cancelReq \cup {reqId}
        /\ at # "loop" => cancelReq' = cancelReq
        /\ reqId # 0 /\ nextId' = nextId
    BY <1>5 DEF Cancel, requestVars
  <2>2. at = "loop" => reqId < nextId
    BY <2>1 DEF BooksTyped, Books
  <2>3. QED BY <1>1, <2>1, <2>2 DEF CancelledIsOld
<1>6. QED BY <1>3, <1>4, <1>5

\* The end of a one-shot process: after a cancel() it is no success.
LEMMA CancelOneShot ==
  ASSUME BooksTyped, CancelKept, CancelledNeverSucceeds, NEW exit, NEW kind,
         at = "loop", reqId # 0, phase = "None", OneShotFinished(exit, kind)
  PROVE  (CancelKept /\ CancelledNeverSucceeds)'
<1>0. /\ log \in [Ids -> [op : AllOps, result : {"unused", "running"} \cup Results]]
      /\ reqId \in Ids /\ cancelReq \subseteq Ids
  BY DEF BooksTyped, Books, TypedControl, TypeOK
<1>1. reqId \in cancelReq => MapProcessResult(exit) # "Success"
  BY DEF CancelKept, MapProcessResult
<1>2. UNCHANGED <<reqId, cancelReq, phase>>
  BY DEF OneShotFinished, requestVars
<1>3. CASE at' = "status" /\ UNCHANGED log /\ MapProcessResult(exit) = "Success"
  BY <1>1, <1>2, <1>3 DEF CancelKept, CancelledNeverSucceeds
<1>4. CASE Answer(MapProcessResult(exit))
  <2>1. /\ at' = "finished" /\ log'[reqId].result = MapProcessResult(exit)
        /\ \A i \in Ids : i # reqId => log'[i] = log[i]
    BY <1>0, <1>4 DEF Answer
  <2>2. CancelledNeverSucceeds'
    BY <1>0, <1>1, <1>2, <2>1 DEF CancelledNeverSucceeds
  <2>3. CancelKept'
    BY <2>1 DEF CancelKept
  <2>4. QED BY <2>2, <2>3
<1>5. QED BY <1>3, <1>4 DEF OneShotFinished

\* The end of a process of a discovery concerns a discovery.
LEMMA CancelDiscovery ==
  ASSUME BooksTyped, CancelKept, CancelledNeverSucceeds, NEW exit, NEW kind, NEW exe,
         at = "loop", reqId # 0, phase # "None", DiscoveryFinished(exit, kind, exe)
  PROVE  (CancelKept /\ CancelledNeverSucceeds)'
<1>0. /\ log \in [Ids -> [op : AllOps, result : {"unused", "running"} \cup Results]]
      /\ reqId \in Ids /\ cancelReq \subseteq Ids /\ op = "Discovery"
      /\ cancelReq' = cancelReq
  BY DEF BooksTyped, Books, TypedControl, TypeOK, Control, DiscoveryFinished
<1>1. CASE phase' = "User" /\ UNCHANGED <<reqId, at, log>>
  BY <1>0, <1>1 DEF CancelKept, CancelledNeverSucceeds
<1>2. ASSUME NEW cs, NEW seen, NEW found, FinalizeDiscovery(cs, seen, found)
      PROVE  (CancelKept /\ CancelledNeverSucceeds)'
  <2>1. PICK r : Answer(r)
    BY <1>2 DEF FinalizeDiscovery
  <2>2. /\ at' = "finished" /\ log'[reqId].op = "Discovery"
        /\ \A i \in Ids : i # reqId => log'[i] = log[i]
    BY <1>0, <2>1 DEF Answer
  <2>3. QED BY <1>0, <2>2 DEF CancelKept, CancelledNeverSucceeds
<1>3. QED BY <1>1, <1>2 DEF DiscoveryFinished

LEMMA CancelStep ==
  BooksTyped /\ CancelledIsOld /\ CancelKept /\ CancelledNeverSucceeds /\ [Next]_vars
    => (CancelKept /\ CancelledNeverSucceeds)'
<1> SUFFICES ASSUME BooksTyped, CancelledIsOld, CancelKept, CancelledNeverSucceeds, [Next]_vars
             PROVE  (CancelKept /\ CancelledNeverSucceeds)'
  OBVIOUS
<1> USE DEF targetVars, requestVars, procVars
<1>0. /\ log \in [Ids -> [op : AllOps, result : {"unused", "running"} \cup Results]]
      /\ cancelReq \subseteq Ids /\ nextId \in Nat
  BY BoundAssumption DEF BooksTyped, TypedControl, TypeOK
<1>1. ASSUME NEW o \in Ops, NEW pkexec \in BOOLEAN, Request(o, pkexec)
      PROVE  (CancelKept /\ CancelledNeverSucceeds)'
  <2>1. nextId \notin cancelReq
    BY <1>0 DEF CancelledIsOld
  <2>2. reqId' = nextId /\ at' = "started" /\ cancelReq' = cancelReq
    BY <1>1 DEF Request
  <2>3. \A i \in Ids : i # nextId => log'[i] = log[i]
    BY <1>0, <1>1 DEF Request
  <2>4. QED BY <1>0, <2>1, <2>2, <2>3 DEF CancelKept, CancelledNeverSucceeds
<1>2. CASE Launch
  BY <1>2 DEF Launch, CancelKept, CancelledNeverSucceeds
<1>3. CASE StatusReported
  <2>1. reqId \notin cancelReq /\ cancelReq' = cancelReq /\ at' = "finished"
    BY <1>3 DEF StatusReported, Answer, CancelKept
  <2>2. \A i \in cancelReq : log'[i] = log[i]
    BY <1>0, <1>3, <2>1 DEF StatusReported, Answer
  <2>3. QED BY <2>1, <2>2 DEF CancelKept, CancelledNeverSucceeds
<1>4. CASE CleanupCurrent
  <2>1. 0 \notin Ids
    BY BoundAssumption
  <2>2. QED BY <1>0, <1>4, <2>1 DEF CleanupCurrent, CancelKept, CancelledNeverSucceeds
<1>5. CASE ProcessEnds
  <2>1. PICK exit, kind, exe : ProcessFinished(exit, kind, exe)
    BY <1>5 DEF ProcessEnds, ProcessFailsToStart, ProcessExits, CrashFinishes
  <2>2. at = "loop" /\ reqId # 0
    BY <1>5 DEF ProcessEnds, ProcessFailsToStart, ProcessExits, CrashFinishes, BooksTyped,
                TypedControl, Control
  <2>3. QED BY <2>1, <2>2, CancelOneShot, CancelDiscovery DEF ProcessFinished
<1>6. CASE Cancel
  <2>1. reqId # 0 /\ cancelled' = TRUE /\ UNCHANGED <<reqId, at, phase, log>>
    BY <1>6 DEF Cancel
  <2>2. CASE at = "loop"
    <3>1. cancelReq' = cancelReq \cup {reqId} /\ reqId \in Ids
      BY <1>6, <2>1, <2>2 DEF Cancel, BooksTyped, Books
    <3>2. log[reqId].result = "running"
      BY <2>2, <3>1 DEF BooksTyped, Books
    <3>3. QED BY <2>1, <2>2, <3>1, <3>2 DEF CancelKept, CancelledNeverSucceeds
  <2>3. CASE at # "loop"
    BY <1>6, <2>1, <2>3 DEF Cancel, CancelKept, CancelledNeverSucceeds
  <2>4. QED BY <2>2, <2>3
<1>7. ASSUME \/ \E u, s : SetUnit(u, s)
             \/ \E u, s, v : SetDetectedService(u, s, v)
             \/ \E o, exe : Refuse(o, exe)
             \/ ProcessStarted \/ ProcessCrashes \/ TimerFires \/ UNCHANGED vars
      PROVE  (CancelKept /\ CancelledNeverSucceeds)'
  <2>1. UNCHANGED <<reqId, phase, cancelled, at, log, cancelReq>>
    BY <1>7 DEF SetUnit, SetDetectedService, Refuse, ProcessStarted, ProcessCrashes,
                TimerFires, vars
  <2>2. QED BY <2>1 DEF CancelKept, CancelledNeverSucceeds
<1>8. QED BY <1>1, <1>2, <1>3, <1>4, <1>5, <1>6, <1>7 DEF Next, Callers, EventLoop

\* A one-shot request whose cancel() has reached its process never ends as a
\* success, however late the signal comes.
THEOREM CancelledIsNoSuccess == Spec => []CancelledNeverSucceeds
<1>1. Init => BooksTyped /\ CancelledIsOld /\ CancelKept /\ CancelledNeverSucceeds
  BY BooksInit, TypedInit, CancelInit DEF BooksTyped
<1>2. BooksTyped /\ CancelledIsOld /\ CancelKept /\ CancelledNeverSucceeds /\ [Next]_vars
        => (BooksTyped /\ CancelledIsOld /\ CancelKept /\ CancelledNeverSucceeds)'
  BY TypedStep, BooksStep, OldStep, CancelStep DEF BooksTyped
<1>3. QED BY <1>1, <1>2, PTL DEF Spec

-----------------------------------------------------------------------------
(***************************************************************************)
(* The status.                                                             *)
(***************************************************************************)

\* The arguments of a status request are those of the target, unless a caller
\* has given it another name or scope since.
Aimed ==
  op = "Status" /\ reqId # 0 /\ at \in {"started", "loop"} =>
    moved \/ <<CurrentUnit, target.scope>> = <<command.unit, command.scope>>

LEMMA AimedSetters ==
  ASSUME Aimed, NEW u \in Units \cup {NoUnit}, NEW s \in Scopes, NEW v \in BOOLEAN,
         (u # NoUnit /\ SetUnit(u, s)) \/ SetDetectedService(u, s, v)
  PROVE  Aimed' /\ lastStatus' = lastStatus
<1>1. UNCHANGED <<op, reqId, at, command, lastStatus>>
  BY SetterKinds DEF requestVars, procVars
<1>2. CASE DropTarget
  <2>1. CurrentUnit' = CurrentUnit /\ target'.scope = target.scope /\ moved' = moved
    BY <1>2 DEF DropTarget, Untargeted, CurrentUnit
  <2>2. QED BY <1>1, <2>1 DEF Aimed
<1>3. ASSUME u # NoUnit, NEW w \in BOOLEAN,
             Retarget([has |-> TRUE, unit |-> u, scope |-> s, validated |-> w],
                      IF w THEN {<<u, s, "caller">>} ELSE {})
      PROVE  Aimed' /\ lastStatus' = lastStatus
  <2>1. target' = [has |-> TRUE, unit |-> u, scope |-> s, validated |-> w]
    BY <1>3 DEF Retarget
  <2>2. CurrentUnit' = u /\ target'.scope = s
    BY <1>3, <2>1 DEF CurrentUnit
  <2>3. moved => moved'
    BY <1>3 DEF Retarget
  <2>4. ASSUME op = "Status", reqId # 0, at \in {"started", "loop"}
        PROVE  moved' \/ <<u, s>> = <<CurrentUnit, target.scope>>
    BY <1>3, <2>4 DEF Retarget, Relabels
  <2>5. QED BY <1>1, <2>2, <2>3, <2>4 DEF Aimed
<1>4. QED BY <1>2, <1>3, SetterKinds

LEMMA AimedStep ==
  ASSUME TypedControl, Aimed, StatusIsAccurate, [Next]_vars
  PROVE  (Aimed /\ StatusIsAccurate)'
<1> USE DEF targetVars, requestVars, procVars
<1>1. ASSUME NEW o \in Ops, NEW pkexec \in BOOLEAN, Request(o, pkexec)
      PROVE  (Aimed /\ StatusIsAccurate)'
  <2>1. o = "Status" => target.unit \in ValidUnits
    BY <1>1 DEF Request, Preflight, NeedsTarget, ChecksName
  <2>2. /\ op' = o /\ target' = target /\ lastStatus' = lastStatus
        /\ o = "Status" => command'.unit = target.unit /\ command'.scope = target.scope
    BY <1>1 DEF Request
  <2>3. Aimed'
    BY <2>1, <2>2, UnitsAssumption DEF Aimed, CurrentUnit
  <2>4. QED BY <2>2, <2>3 DEF StatusIsAccurate
<1>2. CASE Launch
  <2>1. /\ UNCHANGED <<target, moved, op, reqId, lastStatus>> /\ at = "started"
        /\ op = "Status" => command'.unit = command.unit /\ command'.scope = command.scope
    BY <1>2 DEF Launch, StartProcess
  <2>2. QED BY <2>1 DEF Aimed, CurrentUnit, StatusIsAccurate
<1>3. CASE StatusReported
  BY <1>3 DEF StatusReported, Answer, Aimed, StatusIsAccurate
<1>4. CASE CleanupCurrent
  BY <1>4 DEF CleanupCurrent, Aimed, StatusIsAccurate
<1>5. CASE ProcessEnds
  <2>1. PICK exit, kind, exe : ProcessFinished(exit, kind, exe)
    BY <1>5 DEF ProcessEnds, ProcessFailsToStart, ProcessExits, CrashFinishes
  <2>2. at = "loop" /\ reqId # 0
    BY <1>5 DEF ProcessEnds, ProcessFailsToStart, ProcessExits, CrashFinishes, TypedControl,
                Control
  <2>3. CASE phase = "None"
    <3>1. OneShotFinished(exit, kind)
      BY <2>1, <2>3 DEF ProcessFinished
    <3>2. at' \in {"status", "finished"}
      BY <3>1 DEF OneShotFinished, Answer
    <3>3. op = "Status" /\ ~moved =>
            (<<CurrentUnit, target.scope>> = <<command.unit, command.scope>>) = TRUE
      BY <2>2 DEF Aimed
    <3>4. \/ lastStatus' = lastStatus \/ lastStatus' = NoStatus
          \/ /\ op = "Status" /\ lastStatus'.moved = moved
             /\ lastStatus'.accurate =
                  (<<CurrentUnit, target.scope>> = <<command.unit, command.scope>>)
      BY <3>1 DEF OneShotFinished
    <3>5. lastStatus' = NoStatus => ~lastStatus'.valid
      BY DEF NoStatus
    <3>6. StatusIsAccurate'
      <4>1. CASE lastStatus' = lastStatus
        BY <4>1 DEF StatusIsAccurate
      <4>2. CASE lastStatus' = NoStatus
        BY <3>5, <4>2 DEF StatusIsAccurate
      <4>3. ASSUME op = "Status", lastStatus'.moved = moved,
                   lastStatus'.accurate =
                     (<<CurrentUnit, target.scope>> = <<command.unit, command.scope>>)
            PROVE  ~lastStatus'.moved => lastStatus'.accurate
        BY <3>3, <4>3
      <4>4. QED BY <3>4, <4>1, <4>2, <4>3 DEF StatusIsAccurate
    <3>7. QED BY <3>2, <3>6 DEF Aimed
  <2>4. CASE phase # "None"
    <3>1. op' = op /\ op = "Discovery" /\ lastStatus' = lastStatus
      BY <2>1, <2>2, <2>4
      DEF ProcessFinished, DiscoveryFinished, FinalizeDiscovery, TypedControl, Control
    <3>2. QED BY <3>1 DEF Aimed, StatusIsAccurate
  <2>5. QED BY <2>3, <2>4
<1>6. ASSUME NEW u \in Units \cup {NoUnit}, NEW s \in Scopes, NEW v \in BOOLEAN,
             (u # NoUnit /\ SetUnit(u, s)) \/ SetDetectedService(u, s, v)
      PROVE  (Aimed /\ StatusIsAccurate)'
  BY <1>6, AimedSetters DEF StatusIsAccurate
<1>7. ASSUME \/ \E o, exe : Refuse(o, exe)
             \/ ProcessStarted \/ ProcessCrashes \/ TimerFires \/ Cancel \/ UNCHANGED vars
      PROVE  (Aimed /\ StatusIsAccurate)'
  <2>1. UNCHANGED <<target, moved, op, reqId, at, command, lastStatus>>
    BY <1>7 DEF Refuse, ProcessStarted, ProcessCrashes, TimerFires, Cancel, vars
  <2>2. QED BY <2>1 DEF Aimed, CurrentUnit, StatusIsAccurate
<1>8. ASSUME NEW u \in Units PROVE u # NoUnit
  BY UnitsAssumption DEF Units
<1>9. QED BY <1>1, <1>2, <1>3, <1>4, <1>5, <1>6, <1>7, <1>8, CallersSet DEF Next, EventLoop

\* Whenever the setters are called: a status is labelled with the unit that
\* systemctl was asked about, unless a caller gave the target another name or
\* scope between the arguments and the answer of that very request.
THEOREM StatusNamesItsUnit == Spec => []StatusIsAccurate
<1>1. Init => TypedControl /\ Aimed /\ StatusIsAccurate
  BY TypedInit DEF Init, Aimed, StatusIsAccurate, NoStatus
<1>2. TypedControl /\ Aimed /\ StatusIsAccurate /\ [Next]_vars
        => (TypedControl /\ Aimed /\ StatusIsAccurate)'
  BY TypedStep, AimedStep
<1>3. QED BY <1>1, <1>2, PTL DEF Spec

-----------------------------------------------------------------------------
(***************************************************************************)
(* Discovery.  The units that a discovery has seen and its valid           *)
(* candidates have the same scopes, and the same names as well unless a    *)
(* caller has renamed the target while a process of the discovery ran.     *)
(***************************************************************************)

\* A valid candidate stands for something seen, and the reverse.
StandsFor(c, p, m) == c.valid /\ c.scope = p[2] /\ (m \/ c.unit = p[1])

Matches(cs, seen, m) ==
  /\ \A i \in DOMAIN cs : cs[i].valid => \E p \in seen : StandsFor(cs[i], p, m)
  /\ \A p \in seen : \E i \in DOMAIN cs : StandsFor(cs[i], p, m)

Discovering ==
  /\ at = "status" => op = "Status"
  /\ at = "started" => inspected = {}
  /\ at = "loop" /\ phase # "None" => Matches(cands, inspected, moved)

\* What DiscoveryTakesWhatItSaw says of the answer of a discovery.
TakesWhatItSaw ==
  /\ log'[reqId].result = "Success" <=> inspected' # {}
  /\ target'.has <=> inspected' # {}
  /\ inspected' # {} =>
       /\ target'.validated
       /\ \E p \in inspected' : p[2] = target'.scope /\ (moved \/ p[1] = target'.unit)
       /\ (\E p \in inspected' : p[2] = "User") => target'.scope = "User"

\* selectCandidateIndex finds a valid candidate if there is one, and a valid
\* user candidate before any other.
LEMMA PreferredFinds ==
  ASSUME NEW cs \in Seq(Candidates), Len(cs) <= 2
  PROVE  /\ (\E i \in DOMAIN cs : cs[i].valid) => Preferred(cs) # 0
         /\ (\E i \in DOMAIN cs : cs[i].valid /\ cs[i].scope = "User") =>
              cs[Preferred(cs)].scope = "User"
<1> DEFINE V(s) == {i \in DOMAIN cs : cs[i].valid /\ cs[i].scope = s}
           Last(S) == CHOOSE i \in S : \A j \in S : j <= i
<1>0. DOMAIN cs = 1 .. Len(cs) /\ Len(cs) \in Nat /\ \A i \in DOMAIN cs : cs[i] \in Candidates
  OBVIOUS
<1>1. ASSUME NEW s, V(s) # {} PROVE Last(V(s)) \in V(s)
  <2>1. V(s) \subseteq {1, 2}
    BY <1>0
  <2>2. \E i \in V(s) : \A j \in V(s) : j <= i
    <3>1. CASE 2 \in V(s)
      BY <2>1, <3>1
    <3>2. CASE 2 \notin V(s)
      BY <1>1, <2>1, <3>2
    <3> QED BY <3>1, <3>2
  <2> QED BY <2>2
<1>2. Preferred(cs) = IF V("User") # {} THEN Last(V("User"))
                      ELSE IF V("System") # {} THEN Last(V("System")) ELSE 0
  BY DEF Preferred
<1> HIDE DEF Last
<1>3. ASSUME NEW s, V(s) # {} PROVE Last(V(s)) # 0 /\ cs[Last(V(s))].scope = s
  <2>1. Last(V(s)) \in V(s)
    BY <1>1, <1>3
  <2> QED BY <1>0, <2>1
<1>4. (\E i \in DOMAIN cs : cs[i].valid) => V("User") # {} \/ V("System") # {}
  <2> SUFFICES ASSUME NEW i \in DOMAIN cs, cs[i].valid PROVE V("User") # {} \/ V("System") # {}
    OBVIOUS
  <2>1. cs[i].scope \in Scopes
    BY <1>0 DEF Candidates
  <2>2. i \in V(cs[i].scope)
    OBVIOUS
  <2> QED BY <2>1, <2>2
<1>5. (\E i \in DOMAIN cs : cs[i].valid /\ cs[i].scope = "User") => V("User") # {}
  OBVIOUS
<1> HIDE DEF V
<1>6. (\E i \in DOMAIN cs : cs[i].valid) => Preferred(cs) # 0
  BY <1>2, <1>3, <1>4
<1>7. V("User") # {} => cs[Preferred(cs)].scope = "User"
  BY <1>2, <1>3
<1> QED BY <1>5, <1>6, <1>7

LEMMA DiscoveryInit == Init => Discovering
  BY DEF Init, Discovering

\* finalizeDiscovery takes what the candidates say was seen.
LEMMA FinalizeTakes ==
  ASSUME NEW cs \in Seq(Candidates), Len(cs) <= 2, NEW seen, NEW found,
         BooksTyped, reqId # 0, Matches(cs, seen, moved), FinalizeDiscovery(cs, seen, found)
  PROVE  Discovering' /\ TakesWhatItSaw
<1>1. at' = "finished" /\ inspected' = seen
  BY DEF FinalizeDiscovery, Answer
<1>2. Discovering'
  BY <1>1 DEF Discovering
<1>3. log \in [Ids -> [op : AllOps, result : {"unused", "running"} \cup Results]] /\ reqId \in Ids
  BY DEF BooksTyped, TypedControl, TypeOK, Books
<1>4. CASE Preferred(cs) # 0
  <2>1. PICK k : k = Preferred(cs)
    OBVIOUS
  <2>2. k \in DOMAIN cs /\ cs[k].valid
    BY <1>4, <2>1, PreferredIsValid
  <2>3. /\ target' = [has |-> TRUE, unit |-> cs[k].unit, scope |-> cs[k].scope,
                      validated |-> TRUE]
        /\ Answer("Success")
    BY <1>4, <2>1 DEF FinalizeDiscovery
  <2>4. log'[reqId].result = "Success"
    BY <1>3, <2>3 DEF Answer
  <2>5. \E p \in seen : p[2] = cs[k].scope /\ (moved \/ p[1] = cs[k].unit)
    BY <2>2 DEF Matches, StandsFor
  <2>6. ASSUME NEW p \in seen, p[2] = "User" PROVE cs[k].scope = "User"
    <3>1. PICK i \in DOMAIN cs : cs[i].valid /\ cs[i].scope = "User"
      BY <2>6 DEF Matches, StandsFor
    <3> QED BY <2>1, <3>1, PreferredFinds
  <2> QED BY <1>1, <1>2, <2>3, <2>4, <2>5, <2>6 DEF TakesWhatItSaw
<1>5. CASE Preferred(cs) = 0
  <2>1. ~target'.has
    BY <1>5 DEF FinalizeDiscovery, Untargeted
  <2>2. Answer(IF found THEN "NotValidated" ELSE "SystemctlMissing")
    BY <1>5 DEF FinalizeDiscovery
  <2>3. log'[reqId].result # "Success"
    BY <1>3, <2>2 DEF Answer
  <2>4. seen = {}
    BY <1>5, PreferredFinds DEF Matches, StandsFor
  <2> QED BY <1>1, <1>2, <2>1, <2>3, <2>4 DEF TakesWhatItSaw
<1> QED BY <1>4, <1>5

\* The end of a phase adds a candidate and, if it is valid, what it saw.
LEMMA MatchesAppend ==
  ASSUME NEW cs \in Seq(Candidates), NEW seen, NEW c \in Candidates, NEW q, NEW m,
         Matches(cs, seen, m), c.valid => StandsFor(c, q, m)
  PROVE  /\ Append(cs, c) \in Seq(Candidates)
         /\ Len(Append(cs, c)) = Len(cs) + 1
         /\ Matches(Append(cs, c), seen \cup IF c.valid THEN {q} ELSE {}, m)
<1> DEFINE more == seen \cup IF c.valid THEN {q} ELSE {}
           app  == Append(cs, c)
<1>1. /\ app \in Seq(Candidates) /\ Len(app) = Len(cs) + 1
      /\ \A i \in 1 .. Len(cs) : app[i] = cs[i]
      /\ app[Len(cs) + 1] = c
  BY AppendProperties
<1>2. DOMAIN app = 1 .. Len(cs) + 1 /\ DOMAIN cs = 1 .. Len(cs) /\ Len(cs) \in Nat
  BY <1>1
<1> HIDE DEF app
<1>3. \A i \in DOMAIN app : (i \in DOMAIN cs /\ app[i] = cs[i]) \/ app[i] = c
  BY <1>1, <1>2
<1>4. (\A i \in DOMAIN cs : i \in DOMAIN app /\ app[i] = cs[i]) /\ Len(cs) + 1 \in DOMAIN app
  BY <1>1, <1>2
<1>5. ASSUME NEW i \in DOMAIN app, app[i].valid
      PROVE  \E p \in more : StandsFor(app[i], p, m)
  <2>1. CASE i \in DOMAIN cs /\ app[i] = cs[i]
    BY <1>5, <2>1 DEF Matches
  <2>2. CASE app[i] = c
    BY <1>5, <2>2
  <2> QED BY <1>3, <2>1, <2>2
<1>6. ASSUME NEW p \in more PROVE \E i \in DOMAIN app : StandsFor(app[i], p, m)
  <2>1. CASE p \in seen
    <3>1. PICK i \in DOMAIN cs : StandsFor(cs[i], p, m)
      BY <2>1 DEF Matches
    <3> QED BY <1>4, <3>1
  <2>2. CASE c.valid /\ p = q
    BY <1>1, <1>4, <2>2
  <2> QED BY <2>1, <2>2
<1> HIDE DEF more
<1>7. Matches(app, more, m)
  BY <1>5, <1>6 DEF Matches
<1> QED BY <1>1, <1>7 DEF app, more

LEMMA DiscoveryEnds ==
  ASSUME BooksTyped, Trust, Discovering, NEW exit, NEW kind, NEW exe \in BOOLEAN,
         at = "loop", reqId # 0, phase # "None", DiscoveryFinished(exit, kind, exe)
  PROVE  Discovering' /\ (UNCHANGED log \/ TakesWhatItSaw)
<1> DEFINE c    == Candidate(exit, kind)
           q    == <<command.unit, command.scope, kind>>
           seen == inspected \cup IF c.valid THEN {q} ELSE {}
           lost == [unit |-> CurrentUnit, scope |-> "User", valid |-> FALSE]
<1>1. c \in Candidates /\ lost \in Candidates /\ ~lost.valid
  BY CurrentUnitType DEF Candidate, Candidates, TypeOK, TypedControl, BooksTyped
<1>2. c.valid => StandsFor(c, q, moved)
  BY DEF Candidate, Trust, StandsFor
<1>3. /\ cands \in Seq(Candidates) /\ Matches(cands, inspected, moved)
      /\ phase = "System" => cands = <<>>
      /\ phase = "User" => Len(cands) = 1
      /\ phase \in Scopes
  BY DEF BooksTyped, TypedControl, TypeOK, Control, Discovering
<1>4. seen = inspected \cup IF c.valid THEN {q} ELSE {}
  OBVIOUS
<1> HIDE DEF c, seen, lost, q
<1>5. /\ Append(cands, c) \in Seq(Candidates)
      /\ Len(Append(cands, c)) = Len(cands) + 1
      /\ Matches(Append(cands, c), seen, moved)
  BY <1>1, <1>2, <1>3, <1>4, MatchesAppend
<1>6. CASE phase = "System" /\ exe
  <2>1. /\ phase' = "User" /\ cands' = Append(cands, c) /\ inspected' = seen
        /\ UNCHANGED <<at, log, moved>>
    BY <1>6 DEF DiscoveryFinished, targetVars, c, seen, q
  <2> QED BY <1>5, <2>1 DEF Discovering, Matches
<1>7. CASE phase = "System" /\ ~exe
  <2>1. FinalizeDiscovery(cands \o <<c, lost>>, seen, FALSE)
    BY <1>7 DEF DiscoveryFinished, c, seen, lost, q
  <2>2. cands \o <<c, lost>> = <<c, lost>>
    <3>1. cands = <<>> /\ <<c, lost>> \in Seq(Candidates)
      BY <1>1, <1>3, <1>7
    <3>2. <<>> \o <<c, lost>> = <<c, lost>>
      BY <3>1, ConcatEmptySeq
    <3> QED BY <3>1, <3>2
  <2>3. <<c, lost>> \in Seq(Candidates) /\ Len(<<c, lost>>) <= 2
    BY <1>1
  <2>4. inspected = {}
    BY <1>3, <1>7 DEF Matches
  <2>5. Matches(<<c, lost>>, seen, moved)
    BY <1>1, <1>2, <1>4, <2>4 DEF Matches, StandsFor
  <2> QED BY <2>1, <2>2, <2>3, <2>5, FinalizeTakes
<1>8. CASE phase = "User" /\ exe
  <2>1. FinalizeDiscovery(Append(cands, c), seen, available)
    BY <1>8 DEF DiscoveryFinished, c, seen, q
  <2>2. Len(Append(cands, c)) <= 2
    <3>1. Len(cands) = 1 /\ Len(Append(cands, c)) = Len(cands) + 1
      BY <1>3, <1>5, <1>8
    <3> QED BY <3>1
  <2> QED BY <1>5, <2>1, <2>2, FinalizeTakes
<1> QED BY <1>3, <1>6, <1>7, <1>8 DEF DiscoveryFinished

\* Every step keeps Discovering, and if it answers a discovery it does so with
\* what was seen.
LEMMA DiscoveryStep ==
  ASSUME BooksTyped, Trust, Discovering, [Next]_vars
  PROVE  /\ Discovering'
         /\ \/ reqId # 0 /\ op = "Discovery" /\ TakesWhatItSaw
            \/ \A i \in Ids : log[i].op = "Discovery" /\ log[i].result = "running"
                                => log'[i] = log[i]
<1> DEFINE Goal == /\ Discovering'
                   /\ \/ reqId # 0 /\ op = "Discovery" /\ TakesWhatItSaw
                      \/ \A i \in Ids : log[i].op = "Discovery" /\ log[i].result = "running"
                                          => log'[i] = log[i]
<1> SUFFICES Goal
  OBVIOUS
<1> USE DEF targetVars, requestVars, procVars
<1>0. /\ log \in [Ids -> [op : AllOps, result : {"unused", "running"} \cup Results]]
      /\ Books /\ Control
  BY DEF BooksTyped, TypedControl, TypeOK
<1>1. ASSUME NEW o \in Ops, NEW pkexec \in BOOLEAN, Request(o, pkexec) PROVE Goal
  <2>1. at' = "started" /\ inspected' = {}
    BY <1>1 DEF Request
  <2>2. nextId <= MaxRequests /\ log' = [log EXCEPT ![nextId] = [op |-> o, result |-> "running"]]
    BY <1>1 DEF Request
  <2>3. reqId = 0
    BY <1>1, PreflightAccepts DEF Request
  <2>4. \A i \in Ids : log[i].result = "running" => i = reqId
    BY <1>0 DEF Books
  <2>5. \A i \in Ids : log[i].result # "running"
    BY <2>3, <2>4, BoundAssumption
  <2> QED BY <2>1, <2>5 DEF Discovering
<1>2. CASE Launch
  <2>1. at' = "loop" /\ UNCHANGED <<cands, inspected, phase, log>> /\ at = "started"
    BY <1>2 DEF Launch
  <2>2. cands = <<>> /\ inspected = {}
    BY <1>0, <2>1 DEF Control, Discovering
  <2> QED BY <2>1, <2>2 DEF Discovering, Matches
<1>3. CASE StatusReported
  <2>1. at = "status" /\ at' = "finished" /\ reqId # 0
    BY <1>0, <1>3 DEF StatusReported, Answer, Control
  <2>2. op = "Status"
    BY <2>1 DEF Discovering
  <2>3. log[reqId].op = "Status" /\ reqId \in Ids
    BY <1>0, <2>1, <2>2 DEF Books
  <2>4. \A i \in Ids : log[i].op = "Discovery" => log'[i] = log[i]
    BY <1>0, <1>3, <2>3 DEF StatusReported, Answer
  <2> QED BY <2>1, <2>4 DEF Discovering
<1>4. CASE CleanupCurrent
  BY <1>4 DEF CleanupCurrent, Discovering
<1>5. CASE ProcessEnds
  <2>1. PICK exe \in BOOLEAN : \E exit, kind : ProcessFinished(exit, kind, exe)
    BY <1>5 DEF ProcessEnds, ProcessFailsToStart, ProcessExits, CrashFinishes
  <2>2. PICK exit, kind : ProcessFinished(exit, kind, exe)
    BY <2>1
  <2>3. at = "loop" /\ reqId # 0
    BY <1>0, <1>5 DEF ProcessEnds, ProcessFailsToStart, ProcessExits, CrashFinishes, Control
  <2>4. CASE phase = "None"
    <3>1. OneShotFinished(exit, kind)
      BY <2>2, <2>4 DEF ProcessFinished
    <3>2. op # "Discovery" /\ reqId \in Ids /\ log[reqId].op = op
      BY <1>0, <2>3, <2>4 DEF Control, Books
    <3>3. UNCHANGED log \/ log' = [log EXCEPT ![reqId] = [op |-> op,
                                                         result |-> MapProcessResult(exit)]]
      BY <3>1 DEF OneShotFinished, Answer
    <3>4. \A i \in Ids : log[i].op = "Discovery" => log'[i] = log[i]
      BY <1>0, <3>2, <3>3
    <3>5. at' \in {"status", "finished"} /\ (at' = "status" => op' = "Status")
      BY <3>1 DEF OneShotFinished, Answer
    <3> QED BY <3>4, <3>5 DEF Discovering
  <2>5. CASE phase # "None"
    <3>1. op = "Discovery"
      BY <1>0, <2>3, <2>5 DEF Control
    <3>2. Discovering' /\ (UNCHANGED log \/ TakesWhatItSaw)
      BY <2>2, <2>3, <2>5, DiscoveryEnds DEF ProcessFinished
    <3> QED BY <2>3, <3>1, <3>2
  <2> QED BY <2>4, <2>5
<1>6. ASSUME \/ \E u, s : SetUnit(u, s)
             \/ \E u, s, v : SetDetectedService(u, s, v)
             \/ \E o, exe : Refuse(o, exe)
             \/ ProcessStarted \/ ProcessCrashes \/ TimerFires \/ Cancel \/ UNCHANGED vars
      PROVE  Goal
  <2>1. UNCHANGED <<at, op, phase, cands, inspected, log>>
    BY <1>6 DEF SetUnit, SetDetectedService, Refuse, ProcessStarted, ProcessCrashes,
                TimerFires, Cancel, vars
  <2>2. moved => moved'
    BY <1>6 DEF SetUnit, SetDetectedService, DropTarget, Retarget, Refuse, ProcessStarted,
                ProcessCrashes, TimerFires, Cancel, vars
  <2> QED BY <2>1, <2>2 DEF Discovering, Matches, StandsFor
<1> HIDE DEF Goal
<1> QED BY <1>1, <1>2, <1>3, <1>4, <1>5, <1>6 DEF Next, Callers, EventLoop

\* Whenever the setters are called: a discovery succeeds exactly when a phase saw
\* an official unit, and then the validated target has the scope of one that it
\* saw, the user unit before the system one, and its name too unless a caller
\* renamed the target while the processes ran.
THEOREM DiscoveriesAreHonest == Spec => DiscoveryTakesWhatItSaw
<1>1. Init => BooksTyped /\ Trust /\ Discovering
  BY TypedInit, BooksInit, TrustInit, DiscoveryInit DEF BooksTyped
<1>2. BooksTyped /\ Trust /\ Discovering /\ [Next]_vars => (BooksTyped /\ Trust /\ Discovering)'
  BY TypedStep, BooksStep, TrustStep, DiscoveryStep DEF BooksTyped
<1>3. BooksTyped /\ Trust /\ Discovering /\ [Next]_vars =>
        [\A i \in Ids :
           log[i] = [op |-> "Discovery", result |-> "running"] /\ log'[i] # log[i] =>
             /\ log'[i].result = "Success" <=> inspected' # {}
             /\ target'.has <=> inspected' # {}
             /\ inspected' # {} =>
                  /\ target'.validated
                  /\ \E p \in inspected' :
                       p[2] = target'.scope /\ (moved \/ p[1] = target'.unit)
                  /\ (\E p \in inspected' : p[2] = "User") => target'.scope = "User"]_vars
  <2> SUFFICES ASSUME BooksTyped, Trust, Discovering, [Next]_vars, NEW i \in Ids,
                      log[i] = [op |-> "Discovery", result |-> "running"], log'[i] # log[i]
               PROVE  i = reqId /\ TakesWhatItSaw
    BY DEF TakesWhatItSaw
  <2>1. log[i].op = "Discovery" /\ log[i].result = "running"
    OBVIOUS
  <2>2. i = reqId
    BY <2>1 DEF BooksTyped, Books
  <2> QED BY <2>1, <2>2, DiscoveryStep
<1>4. QED BY <1>1, <1>2, <1>3, PTL DEF Spec, DiscoveryTakesWhatItSaw
=============================================================================
