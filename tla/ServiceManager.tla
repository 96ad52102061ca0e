---------------------------- MODULE ServiceManager ----------------------------
(***************************************************************************)
(* The asynchronous systemd manager, class DshServiceManager of            *)
(* src/service.  One QObject on one thread: its API calls, the signals of  *)
(* the QProcess it owns and its single-shot timeout are interleaved by the *)
(* event loop.  Signals are emitted synchronously, so a slot connected to  *)
(* operationStarted, statusResult or operationFinished runs in the middle  *)
(* of a handler and may call the API again: "at" says which of these       *)
(* windows is open.                                                        *)
(***************************************************************************)
EXTENDS Naturals, Sequences

CONSTANTS
  ValidUnits,       \* unit names that isValidUnitName accepts
  BadUnits,         \* unit names that it refuses
  NoUnit,           \* the empty name
  DefaultUnit,      \* "dsh-web.service", used while no name was ever set
  MaxRequests,      \* bound on the accepted requests of a behaviour
  Root,             \* geteuid() = 0
  Ops               \* the operations that callers ask for

ASSUME UnitsAssumption ==
  /\ DefaultUnit \in ValidUnits
  /\ ValidUnits \cap BadUnits = {}
  /\ NoUnit \notin ValidUnits \cup BadUnits

ASSUME BoundAssumption == MaxRequests \in Nat

ASSUME FlagAssumption == Root \in BOOLEAN

Units    == ValidUnits \cup BadUnits
Scopes   == {"System", "User"}
Mutating == {"Start", "Stop", "Restart"}
AllOps   == Mutating \cup {"Status", "Discovery", "JournalTail", "DaemonReload", "Enable"}

ASSUME OpsAssumption == Ops \subseteq AllOps

\* Operations that need a target, and those that check its name.
NeedsTarget  == Mutating \cup {"Status", "Enable"}
ChecksName   == NeedsTarget \cup {"JournalTail"}

\* Operations that pkexec wraps for a system unit of a non-root user.
Privileged   == Mutating \cup {"DaemonReload", "Enable"}

\* What "systemctl show" says of a unit: loaded and running the official
\* "dsh web" for this user, the same for another user, another program, or
\* not loaded.
Kinds        == {"official", "othersOfficial", "foreign", "notLoaded"}

Results      == {"Success", "Failed", "Timeout", "Cancelled", "NotValidated",
                 "SystemctlMissing"}

Ids          == 1 .. MaxRequests

VARIABLES
  target,       \* unitName_, scope_, hasTarget_, validated_
  reqId,        \* currentRequestId_, 0 for the code's -1
  nextId,       \* nextRequestId_
  op,           \* currentOperation_
  phase,        \* phase_
  command,      \* arguments of the process: unit, scope, run through pkexec
  proc,         \* process_ and how far it got; "none" is nullptr
  killed,       \* kill() was called on process_
  timerOn,      \* timeoutTimer_ is active
  timedOut,     \* timedOut_
  cancelled,    \* cancelled_
  cands,        \* discoveryCandidates_ (and lastDiscovery_ until the next request)
  available,    \* discoverySystemctlAvailable_
  lastStatus,   \* lastStatus_; accurate: it names the unit that was really shown;
                \* moved: the value of moved when it was taken
  at,           \* "loop", or the signal whose slots are running
  log,          \* history: operation and answer of every request
  cancelReq,    \* history: requests whose cancel() reached a live process
  inspected,    \* history: units this discovery saw as official, and their kind
  evidence,     \* history: what vouches for the present target
  moved,        \* history: a caller gave the target another name or scope between the
                \* arguments and the answer of the request under way
  astray        \* history: the target was adopted by a discovery that was moved

targetVars  == <<target, evidence, moved, astray>>
requestVars == <<reqId, nextId, op, phase, cands, available, inspected>>
procVars    == <<command, proc, killed, timerOn, timedOut, cancelled>>
vars        == <<target, evidence, moved, astray, reqId, nextId, op, phase, cands, available, inspected,
                 command, proc, killed, timerOn, timedOut, cancelled,
                 lastStatus, at, log, cancelReq>>

NoStatus  == [valid |-> FALSE, manageable |-> FALSE, accurate |-> TRUE, moved |-> FALSE]

NoCommand == [unit |-> NoUnit, scope |-> "User", elevated |-> FALSE]

Unused == [op |-> "Status", result |-> "unused"]

Init ==
  /\ target = [has |-> FALSE, unit |-> NoUnit, scope |-> "User", validated |-> FALSE]
  /\ reqId = 0 /\ nextId = 1 /\ op = "Status" /\ phase = "None"
  /\ command = NoCommand
  /\ proc = "none" /\ killed = FALSE
  /\ timerOn = FALSE /\ timedOut = FALSE /\ cancelled = FALSE
  /\ cands = <<>> /\ available = TRUE
  /\ lastStatus = NoStatus
  /\ at = "loop"
  /\ log = [i \in Ids |-> Unused]
  /\ cancelReq = {} /\ inspected = {} /\ evidence = {}
  /\ moved = FALSE /\ astray = FALSE

-----------------------------------------------------------------------------
\* The target.

CurrentUnit == IF target.unit = NoUnit THEN DefaultUnit ELSE target.unit

\* hasTarget_ = false leaves the other fields of the target as they were.
Untargeted(t) == [has |-> FALSE, unit |-> t.unit, scope |-> t.scope, validated |-> t.validated]

\* Setting the target to t makes the answer to come carry another label than its
\* process was started for.  The arguments of a status request are fixed when it is
\* made, those of a discovery when its process starts.
Relabels(t) ==
  /\ reqId # 0
  /\ \/ /\ op = "Status" /\ at \in {"started", "loop"}
        /\ <<t.unit, t.scope>> # <<CurrentUnit, target.scope>>
     \/ op = "Discovery" /\ at = "loop" /\ t.unit # CurrentUnit

\* A caller sets the target to t, for which ev vouches.  Neither setter looks at
\* currentRequestId_: the target may change at any time, in mid-request too.
Retarget(t, ev) ==
  /\ target' = t
  /\ evidence' = ev /\ astray' = FALSE
  /\ moved' = (moved \/ Relabels(t))

DropTarget ==
  /\ target' = Untargeted(target)
  /\ evidence' = {} /\ astray' = FALSE
  /\ UNCHANGED moved

\* Defect: a retarget forgets to reset validated_.
SetUnitKeepsValidation(u, s) ==
  /\ u \in ValidUnits
  /\ Retarget([target EXCEPT !.has = TRUE, !.unit = u, !.scope = s], {})
  /\ UNCHANGED <<requestVars, procVars, lastStatus, at, log, cancelReq>>

SetUnit(u, s) ==
  /\ IF u \in ValidUnits
       THEN Retarget([has |-> TRUE, unit |-> u, scope |-> s, validated |-> FALSE], {})
       ELSE DropTarget
  /\ UNCHANGED <<requestVars, procVars, lastStatus, at, log, cancelReq>>

SetDetectedService(u, s, valid) ==
  /\ IF u = NoUnit
       THEN DropTarget
       ELSE Retarget([has |-> TRUE, unit |-> u, scope |-> s, validated |-> valid],
                     IF valid THEN {<<u, s, "caller">>} ELSE {})
  /\ UNCHANGED <<requestVars, procVars, lastStatus, at, log, cancelReq>>

-----------------------------------------------------------------------------
\* Accepting a request.

\* The preflight of the API entry points, in the order the code checks; exe
\* says whether systemctl (journalctl for the tail) was found.
Preflight(o, exe) ==
  IF reqId # 0 THEN "Busy"
  ELSE IF o \in NeedsTarget /\ ~target.has THEN "InvalidRequest"
  ELSE IF o \in ChecksName /\ target.has /\ target.unit \notin ValidUnits THEN "InvalidUnit"
  ELSE IF o \in Mutating /\ ~target.validated THEN "NotValidated"
  ELSE IF ~exe THEN "ExecutableMissing"
  ELSE "Accepted"

\* A refused call answers at once through operationFinished and returns -1.
\* Its only trace is the systemctl flag of a discovery.
Refuse(o, exe) ==
  /\ Preflight(o, exe) # "Accepted"
  /\ available' = IF o = "Discovery" /\ Preflight(o, exe) = "ExecutableMissing"
                    THEN FALSE ELSE available
  /\ UNCHANGED <<targetVars, reqId, nextId, op, phase, cands, inspected, procVars,
                 lastStatus, at, log, cancelReq>>

\* pkexec may be missing: then plain systemctl runs.
MayElevate(o) == o \in Privileged /\ target.scope = "System" /\ ~Root

\* Defect: beginOperation leaves the candidates of the last discovery.
RequestKeepsCandidates(o, pkexec) ==
  /\ Preflight(o, TRUE) = "Accepted"
  /\ nextId <= MaxRequests
  /\ reqId' = nextId /\ nextId' = nextId + 1
  /\ op' = o
  /\ phase' = IF o = "Discovery" THEN "System" ELSE "None"
  /\ command' = [unit |-> target.unit, scope |-> target.scope, elevated |-> FALSE]
  /\ at' = "started"
  /\ inspected' = {}
  /\ log' = [log EXCEPT ![nextId] = [op |-> o, result |-> "running"]]
  /\ UNCHANGED <<targetVars, cands, available, proc, killed, timerOn, timedOut, cancelled,
                 lastStatus, cancelReq>>

\* Defect: the arguments of a one-shot operation ignore the scope of the target.
RequestIgnoresScope(o, pkexec) ==
  /\ Preflight(o, TRUE) = "Accepted"
  /\ nextId <= MaxRequests
  /\ reqId' = nextId /\ nextId' = nextId + 1
  /\ op' = o
  /\ phase' = IF o = "Discovery" THEN "System" ELSE "None"
  /\ command' = [unit |-> target.unit, scope |-> "System", elevated |-> FALSE]
  /\ cands' = <<>> /\ inspected' = {}
  /\ at' = "started"
  /\ log' = [log EXCEPT ![nextId] = [op |-> o, result |-> "running"]]
  /\ UNCHANGED <<targetVars, available, proc, killed, timerOn, timedOut, cancelled,
                 lastStatus, cancelReq>>

\* Preflight and beginOperation, up to the emission of operationStarted.  The
\* arguments of a one-shot operation are fixed here, those of a discovery or
\* a journal tail only after the slots of operationStarted have run.
Request(o, pkexec) ==
  /\ Preflight(o, TRUE) = "Accepted"
  /\ nextId <= MaxRequests
  /\ reqId' = nextId /\ nextId' = nextId + 1
  /\ op' = o
  /\ phase' = IF o = "Discovery" THEN "System" ELSE "None"
  /\ available' = IF o = "Discovery" THEN TRUE ELSE available
  /\ command' = [unit     |-> IF o = "DaemonReload" THEN NoUnit ELSE target.unit,
                 scope    |-> target.scope,
                 elevated |-> pkexec /\ MayElevate(o)]
  /\ timedOut' = FALSE /\ cancelled' = FALSE
  /\ cands' = <<>> /\ inspected' = {}
  /\ at' = "started"
  /\ log' = [log EXCEPT ![nextId] = [op |-> o, result |-> "running"]]
  /\ UNCHANGED <<targetVars, proc, killed, timerOn, lastStatus, cancelReq>>

\* Defect: the timeout is armed for the first process of a request only.
StartProcessArmsOnce(unit, scope, elevated) ==
  /\ command' = [unit |-> unit, scope |-> scope, elevated |-> elevated]
  /\ proc' = "starting" /\ killed' = FALSE
  /\ timedOut' = FALSE /\ cancelled' = FALSE
  /\ timerOn' = (op # "JournalTail" /\ proc = "none")

\* startProcess: a fresh process, fresh flags, and the timer except for the tail.
StartProcess(unit, scope, elevated) ==
  /\ command' = [unit |-> unit, scope |-> scope, elevated |-> elevated]
  /\ proc' = "starting" /\ killed' = FALSE
  /\ timedOut' = FALSE /\ cancelled' = FALSE
  /\ timerOn' = (op # "JournalTail")

\* The slots of operationStarted have returned.
Launch ==
  /\ at = "started"
  /\ \/ op = "Discovery"   /\ StartProcess(CurrentUnit, "System", FALSE)
     \/ op = "JournalTail" /\ StartProcess(CurrentUnit, target.scope, FALSE)
     \/ /\ op \notin {"Discovery", "JournalTail"}
        /\ StartProcess(command.unit, command.scope, command.elevated)
  /\ at' = "loop"
  /\ UNCHANGED <<targetVars, requestVars, lastStatus, log, cancelReq>>

-----------------------------------------------------------------------------
\* The end of a process.

\* Defect: a zero exit code wins over the cancellation.
MapProcessResultExitFirst(exit) ==
  IF exit = "ok" THEN "Success"
  ELSE IF timedOut THEN "Timeout"
  ELSE IF cancelled THEN "Cancelled"
  ELSE "Failed"

\* mapProcessResult.
MapProcessResult(exit) ==
  IF timedOut THEN "Timeout"
  ELSE IF cancelled THEN "Cancelled"
  ELSE IF exit # "ok" THEN "Failed"
  ELSE "Success"

\* evaluateManageability looks at the owner in the user scope only; discovery
\* does not look at it at all.
Manageable(kind, scope) ==
  kind = "official" \/ (kind = "othersOfficial" /\ scope = "System")

Validated(kind) == kind \in {"official", "othersOfficial"}

\* emitFinished, up to the emission of operationFinished.
Answer(result) ==
  /\ log' = [log EXCEPT ![reqId] = [op |-> op, result |-> result]]
  /\ at' = "finished"

\* onProcessFinished outside a discovery.  The snapshot of a status request is
\* labelled with the target of now, not with the one the process was given.
OneShotFinished(exit, kind) ==
  LET result == MapProcessResult(exit) IN
  /\ proc' = "exited" /\ timerOn' = FALSE
  /\ lastStatus' =
       IF op # "Status" THEN lastStatus
       ELSE IF result = "Success"
         THEN [valid |-> TRUE, manageable |-> Manageable(kind, target.scope),
               accurate |-> <<CurrentUnit, target.scope>> = <<command.unit, command.scope>>,
               moved |-> moved]
         ELSE NoStatus
  /\ IF op = "Status" /\ result = "Success"
       THEN at' = "status" /\ UNCHANGED log
       ELSE Answer(result)
  /\ UNCHANGED <<targetVars, requestVars, command, killed, timedOut, cancelled, cancelReq>>

\* The slots of statusResult have returned.
StatusReported ==
  /\ at = "status"
  /\ Answer("Success")
  /\ UNCHANGED <<targetVars, requestVars, procVars, lastStatus, cancelReq>>

\* The candidate of the phase that just ended.
Candidate(exit, kind) ==
  [unit  |-> CurrentUnit,
   scope |-> phase,
   valid |-> exit = "ok" /\ ~timedOut /\ ~cancelled /\ Validated(kind)]

\* Defect: the first valid candidate is taken, so the system unit wins.
PreferredFirst(cs) ==
  LET valid == {i \in DOMAIN cs : cs[i].valid}
  IN IF valid = {} THEN 0 ELSE CHOOSE i \in valid : \A j \in valid : i <= j

\* selectCandidateIndex: the last valid user candidate, else the last valid
\* system one.
Preferred(cs) ==
  LET valid(s) == {i \in DOMAIN cs : cs[i].valid /\ cs[i].scope = s}
      last(S)  == CHOOSE i \in S : \A j \in S : j <= i
  IN IF valid("User") # {} THEN last(valid("User"))
     ELSE IF valid("System") # {} THEN last(valid("System")) ELSE 0

\* finalizeDiscovery: the selected candidate becomes the validated target;
\* without one the target is dropped.
FinalizeDiscovery(cs, seen, found) ==
  LET sel == Preferred(cs) IN
  /\ cands' = cs /\ inspected' = seen /\ available' = found
  /\ IF sel # 0
       THEN /\ target' = [has |-> TRUE, unit |-> cs[sel].unit, scope |-> cs[sel].scope,
                          validated |-> TRUE]
            /\ evidence' = {p \in seen : p[2] = cs[sel].scope} /\ astray' = moved
            /\ Answer("Success")
       ELSE /\ target' = Untargeted(target)
            /\ evidence' = {} /\ astray' = FALSE
            /\ Answer(IF found THEN "NotValidated" ELSE "SystemctlMissing")
  /\ proc' = "exited" /\ timerOn' = FALSE
  /\ UNCHANGED <<moved, reqId, nextId, op, phase, command, killed, timedOut, cancelled>>

\* handleDiscoveryFinished: after the system phase always comes the user phase,
\* unless systemctl vanished (exe is FALSE) meanwhile.
DiscoveryFinished(exit, kind, exe) ==
  LET c    == Candidate(exit, kind)
      seen == inspected \cup IF c.valid THEN {<<command.unit, command.scope, kind>>} ELSE {}
      lost == [unit |-> CurrentUnit, scope |-> "User", valid |-> FALSE]
  IN
  /\ \/ /\ phase = "System" /\ exe
        /\ phase' = "User"
        /\ cands' = Append(cands, c) /\ inspected' = seen
        /\ StartProcess(CurrentUnit, "User", FALSE)
        /\ UNCHANGED <<targetVars, reqId, nextId, op, available, at, log>>
     \/ /\ phase = "System" /\ ~exe
        /\ FinalizeDiscovery(cands \o <<c, lost>>, seen, FALSE)
     \/ /\ phase = "User" /\ exe
        /\ FinalizeDiscovery(Append(cands, c), seen, available)
  /\ UNCHANGED <<lastStatus, cancelReq>>

\* onProcessFinished.
ProcessFinished(exit, kind, exe) ==
  IF phase = "None" THEN exe /\ OneShotFinished(exit, kind)
                    ELSE DiscoveryFinished(exit, kind, exe)

-----------------------------------------------------------------------------
\* The signals of the process and the timer.

ProcessStarted ==
  /\ at = "loop" /\ proc = "starting"
  /\ proc' = "running"
  /\ UNCHANGED <<targetVars, requestVars, command, killed, timerOn, timedOut, cancelled,
                 lastStatus, at, log, cancelReq>>

ProcessFailsToStart(exe) ==
  /\ at = "loop" /\ proc = "starting"
  /\ ProcessFinished("notStarted", "notLoaded", exe)

\* A normal exit.  A process that kill() met too late still ends this way.
ProcessExits(exit, kind, exe) ==
  /\ at = "loop" /\ proc = "running"
  /\ ProcessFinished(exit, kind, exe)

\* errorOccurred(Crashed) precedes finished(): it only takes a note.
ProcessCrashes ==
  /\ at = "loop" /\ proc = "running"
  /\ proc' = "crashed"
  /\ UNCHANGED <<targetVars, requestVars, command, killed, timerOn, timedOut, cancelled,
                 lastStatus, at, log, cancelReq>>

CrashFinishes(exe) ==
  /\ at = "loop" /\ proc = "crashed"
  /\ ProcessFinished("crash", "notLoaded", exe)

TimerFires ==
  /\ timerOn /\ reqId # 0 /\ proc # "none"
  /\ timerOn' = FALSE /\ timedOut' = TRUE /\ killed' = TRUE
  /\ UNCHANGED <<targetVars, requestVars, command, proc, cancelled, lastStatus, at, log,
                 cancelReq>>

\* Defect: cancel() answers at once and the process answers again.
CancelAnswersAtOnce ==
  /\ reqId # 0 /\ proc # "none"
  /\ cancelled' = TRUE /\ killed' = TRUE /\ timerOn' = FALSE
  /\ log' = [log EXCEPT ![reqId] = [op |-> op, result |-> "Cancelled"]]
  /\ UNCHANGED <<targetVars, requestVars, command, proc, timedOut, lastStatus, at, cancelReq>>

\* cancel() and stopJournalTail().  Before the process exists the call is lost.
Cancel ==
  /\ reqId # 0 /\ proc # "none"
  /\ cancelled' = TRUE /\ killed' = TRUE /\ timerOn' = FALSE
  /\ cancelReq' = IF at = "loop" THEN cancelReq \cup {reqId} ELSE cancelReq
  /\ UNCHANGED <<targetVars, requestVars, command, proc, timedOut, lastStatus, at, log>>

\* The slots of operationFinished have returned: cleanupCurrent.  Until here
\* the manager is busy, so a slot cannot chain the next operation.
CleanupCurrent ==
  /\ at = "finished"
  /\ proc' = "none" /\ killed' = FALSE /\ command' = NoCommand
  /\ timerOn' = FALSE /\ timedOut' = FALSE /\ cancelled' = FALSE
  /\ reqId' = 0 /\ op' = "Status" /\ phase' = "None"
  /\ inspected' = {} /\ moved' = FALSE
  /\ at' = "loop"
  /\ UNCHANGED <<target, evidence, astray, nextId, cands, available, lastStatus, log, cancelReq>>

-----------------------------------------------------------------------------
Exits == {"ok", "nonzero"}

ProcessEnds ==
  \E exe \in BOOLEAN :
    \/ ProcessFailsToStart(exe)
    \/ \E exit \in Exits, kind \in Kinds : ProcessExits(exit, kind, exe)
    \/ CrashFinishes(exe)

Callers ==
  \/ \E u \in Units, s \in Scopes : SetUnit(u, s)
  \/ \E u \in Units, s \in Scopes, v \in BOOLEAN : SetDetectedService(u, s, v)
  \/ SetDetectedService(NoUnit, "User", FALSE)
  \/ \E o \in Ops, exe \in BOOLEAN : Refuse(o, exe)
  \/ \E o \in Ops, pkexec \in BOOLEAN : Request(o, pkexec)
  \/ Cancel

EventLoop ==
  \/ Launch \/ StatusReported \/ CleanupCurrent
  \/ ProcessStarted \/ ProcessCrashes \/ ProcessEnds
  \/ TimerFires

Next == Callers \/ EventLoop

\* What a process owes: a forked one starts or fails, a crashed one is reported, a
\* killed one dies, and a privileged one (which this user may not kill) ends when
\* systemd's own job timeout ends it.  It is stated by what becomes of proc or, when
\* a discovery goes on with another process, of phase; nothing else moves them then.
ProcessOwes ==
  /\ at = "loop"
  /\ \/ proc \in {"starting", "crashed"}
     \/ proc = "running" /\ (killed \/ command.elevated)
  /\ proc' \in {"starting", "running", "crashed", "exited"}
  /\ phase' \in {"None", "System", "User"}

\* Slots return, and an armed timer fires.  Callers are not fair, and nothing makes
\* an ordinary process end by itself.
Fairness ==
  /\ WF_vars(Launch \/ StatusReported \/ CleanupCurrent)
  /\ WF_vars(TimerFires)
  /\ WF_<<proc, phase>>(ProcessOwes)

Spec     == Init /\ [][Next]_vars
FairSpec == Spec /\ Fairness

-----------------------------------------------------------------------------
\* Properties.

Candidates == [unit : Units, scope : Scopes, valid : BOOLEAN]

Commands   == [unit : Units \cup {NoUnit}, scope : Scopes, elevated : BOOLEAN]

Targets    == [has : BOOLEAN, unit : Units \cup {NoUnit}, scope : Scopes,
               validated : BOOLEAN]

\* Every variable holds a value of its type; a discovery has at most one
\* candidate per scope (DiscoveryResult of ServiceDiscovery.h).
TypeOK ==
  /\ target \in Targets
  /\ reqId \in {0} \cup Ids
  /\ nextId \in 1 .. MaxRequests + 1
  /\ op \in AllOps
  /\ phase \in {"None"} \cup Scopes
  /\ command \in Commands
  /\ proc \in {"none", "starting", "running", "crashed", "exited"}
  /\ killed \in BOOLEAN /\ timerOn \in BOOLEAN
  /\ timedOut \in BOOLEAN /\ cancelled \in BOOLEAN
  /\ cands \in Seq(Candidates) /\ Len(cands) <= 2
  /\ available \in BOOLEAN
  /\ lastStatus \in [valid : BOOLEAN, manageable : BOOLEAN, accurate : BOOLEAN,
                     moved : BOOLEAN]
  /\ at \in {"loop", "started", "status", "finished"}
  /\ log \in [Ids -> [op : AllOps, result : {"unused", "running"} \cup Results]]
  /\ cancelReq \subseteq Ids
  /\ inspected \subseteq (Units \cup {NoUnit}) \X Scopes \X Kinds
  /\ evidence \subseteq (Units \cup {NoUnit}) \X Scopes \X (Kinds \cup {"caller"})
  /\ moved \in BOOLEAN /\ astray \in BOOLEAN

\* "Bounded timeout" of the header comment: whenever a request other than a
\* journal tail is waiting for its process, either the timeout is armed or
\* the process was already killed, in both phases of a discovery; and the
\* timer is never left armed for anything else.
BoundedWait ==
  /\ reqId # 0 /\ at = "loop" /\ op # "JournalTail" => timerOn \/ killed
  /\ timerOn => /\ reqId # 0 /\ at = "loop" /\ op # "JournalTail"
                /\ proc \in {"starting", "running", "crashed"}

\* The header of DshServiceManager opens start, stop and restart only to targets
\* that passed official validation AND the ownership rule; units that are foreign
\* or another user's are to be refused.  A caller may vouch for a target itself;
\* otherwise "systemctl show" has to.
Vouches(by, scope) == by = "caller" \/ Manageable(by, scope)

\* Validation in a discovery does not ask for the owner, so that the ownership
\* rule is missing there: a user unit of another user passes for official.
OwnerNotAsked(by, scope) == by = "othersOfficial" /\ scope = "User"

\* A start, stop or restart is accepted only against the unit, in the scope, that
\* the last discovery saw pass both rules, or that the caller vouched for, and
\* only while nothing has retargeted the manager since, whenever the setters were
\* called.  The code leaves two ways past what its header says, and no third: the
\* owner of a user unit (OwnerNotAsked), and a target that was given another name
\* while a process of the discovery ran (astray).
MutatesOnlyInspected ==
  [][reqId' # reqId /\ op' \in Mutating =>
       \/ astray
       \/ \E by \in Kinds \cup {"caller"} :
            /\ <<command'.unit, command'.scope, by>> \in evidence
            /\ Vouches(by, command'.scope) \/ OwnerNotAsked(by, command'.scope)]_vars

\* A status snapshot may carry the label of a unit other than the one that
\* systemctl was asked about, since the arguments are fixed by the request and the
\* label is read when the process ends.  Only a caller that changes the target
\* between the two gets that (moved): retargets before the request, in the slots
\* of statusResult and operationFinished, during any other request, and those
\* that set the same target again, all leave the snapshot right.
StatusIsAccurate ==
  lastStatus.valid /\ ~lastStatus.moved => lastStatus.accurate

\* A one-shot request whose cancel() reached its process is not reported as
\* a success, whatever the process did before the signal arrived.
CancelledNeverSucceeds ==
  \A i \in cancelReq : log[i].op # "Discovery" => log[i].result # "Success"

\* "Cancelled: actively cancelled by cancel()" also of discoveries: a
\* discovery that was cancelled is not reported as a success.
CancelledDiscoveryNeverSucceeds ==
  \A i \in cancelReq : log[i].op = "Discovery" => log[i].result # "Success"

\* When a discovery ends it succeeds exactly when one of its phases saw an official
\* unit; when it fails there is no target.  The target it adopts has the user scope
\* if the user phase saw one, and the name of a unit that it saw, unless a caller
\* changed the name while its processes ran.
DiscoveryTakesWhatItSaw ==
  [][\A i \in Ids :
       log[i] = [op |-> "Discovery", result |-> "running"] /\ log'[i] # log[i] =>
         /\ log'[i].result = "Success" <=> inspected' # {}
         /\ target'.has <=> inspected' # {}
         /\ inspected' # {} =>
              /\ target'.validated
              /\ \E p \in inspected' :
                   p[2] = target'.scope /\ (moved \/ p[1] = target'.unit)
              /\ (\E p \in inspected' : p[2] = "User") => target'.scope = "User"]_vars

\* What the callers see of the manager: the slots of operationFinished are
\* told the answer while the manager itself still counts as busy.
Promise == INSTANCE RequestServer WITH
             Unbounded <- {"JournalTail"},
             serving   <- IF at = "finished" THEN 0 ELSE reqId,
             outcome   <- log

\* The manager keeps the promise of RequestServer: one request at a time, in
\* order, each answered exactly once, and every one but a tail eventually.
PromiseKept == Promise!Spec
=============================================================================
