----------------------------- MODULE AppLifecycle -----------------------------
(***************************************************************************)
(* Processes of the desktop application, DshDesktopApp: how one becomes    *)
(* the single instance, how a second start wakes it, and how quitting,     *)
(* restarting and the self-update hand over the single-instance socket and *)
(* the DSH server behind the window.  An instance is a slot in the process *)
(* table and is used again after its process is gone.                      *)
(***************************************************************************)
CONSTANTS
  Instances,  \* how many processes may exist at a time
  Modes,      \* the backends considered, of {"Systemd", "Supervised", "External"}
  NoOne, Stale

ASSUME ModesAssumption == Modes \subseteq {"Systemd", "Supervised", "External"}
ASSUME NamesAssumption == {NoOne, Stale} \cap Instances = {} /\ NoOne # Stale

\* Processes of others that may serve the URL: the systemd unit, or anything else.
ASSUME WebAssumption == {"down", "unit", "other"} \cap Instances = {}

VARIABLES
  pc,       \* what each process does; "none": no such process
  server,   \* singleInstanceServer_ is not null and listens
  held,     \* singleInstanceServer_ is not null
  path,     \* whose socket dsh-desktop.sock is: NoOne's, a dead process's, ...
  wake,     \* a connection waits on the socket of this process
  shown,    \* the window is visible
  intent,   \* shutdown under way: its kind, and ShutdownIntent
  parent,   \* the process whose performRestart started this one
  mode,     \* what createForHost chose
  web,      \* who serves the URL: "down", "unit", "other", or the instance
            \* whose child process does
  calm      \* history: so far no two processes have contended for the socket, and no
            \* listen() has failed for another reason than an address in use

lock    == <<server, held, path, wake>>
desktop == <<shown, intent, parent, mode>>
vars    == <<pc, lock, desktop, web, calm>>

Up == web # "down"
Kinds == {"quit", "restart", "update"}

\* kind; locked: the box was ticked and disabled; manage: the box is ticked;
\* running: the backend ran when the dialog was accepted.
Intent(kind, locked, manage, running) ==
  [kind |-> kind, locked |-> locked, manage |-> manage, running |-> running]
NoIntent == Intent("none", FALSE, FALSE, FALSE)

Init ==
  /\ pc = [i \in Instances |-> "none"]
  /\ server = [i \in Instances |-> FALSE]
  /\ held = [i \in Instances |-> FALSE]
  /\ path = NoOne
  /\ wake = [i \in Instances |-> FALSE]
  /\ shown = [i \in Instances |-> FALSE]
  /\ intent = [i \in Instances |-> NoIntent]
  /\ parent = [i \in Instances |-> NoOne]
  /\ mode \in Modes
  /\ web \in {"down"} \cup (IF mode = "Systemd" THEN {"unit"} ELSE {"other"})
  /\ calm = TRUE

Goto(i, place) == pc' = [pc EXCEPT ![i] = place]

\* Between looking at the socket and having dealt with it.
Contending(i) == pc[i] \in {"probed", "blocked", "retry", "removing"}

Contend(i) == calm' = (calm /\ \A j \in Instances : ~Contending(j))

-----------------------------------------------------------------------------
(* Start: run() up to the event loop.                                      *)

\* The user, or the session's autostart, starts the program.
Start(i) ==
  /\ pc[i] = "none"
  /\ Goto(i, "new")
  /\ UNCHANGED <<lock, desktop, web, calm>>

\* A socket somebody listens on is sent "show", and this process ends.
FoundInstance(i) ==
  /\ pc[i] = "new"
  /\ path \in Instances /\ server[path]
  /\ wake' = [wake EXCEPT ![path] = TRUE]
  /\ Goto(i, "leaving")
  /\ UNCHANGED <<server, held, path, desktop, web, calm>>

FoundNobody(i) ==
  /\ pc[i] = "new"
  /\ ~(path \in Instances /\ server[path])
  /\ Goto(i, "probed")
  /\ Contend(i)
  /\ UNCHANGED <<lock, desktop, web>>

\* The first listen(), and the second one after removeServer().
Listen(i) ==
  /\ pc[i] \in {"probed", "retry"}
  /\ held' = [held EXCEPT ![i] = TRUE]
  /\ \/ /\ path = NoOne
        /\ path' = i /\ server' = [server EXCEPT ![i] = TRUE]
        /\ Goto(i, "starting")
     \/ /\ path # NoOne
        /\ Goto(i, IF pc[i] = "probed" THEN "blocked" ELSE "starting")
        /\ UNCHANGED <<path, server>>
  /\ UNCHANGED <<wake, desktop, web, calm>>

\* Defect: an address in use is taken for a second instance's and left alone.
RemoveStaleNever(i) ==
  /\ pc[i] = "blocked"
  /\ Goto(i, "retry")
  /\ UNCHANGED <<lock, desktop, web, calm>>

\* QLocalServer::removeServer unlinks the path, whoever listens on it.
RemoveStale(i) ==
  /\ pc[i] = "blocked"
  /\ path' = NoOne
  /\ Goto(i, "retry")
  /\ UNCHANGED <<server, held, wake, desktop, web, calm>>

\* Any error but "address in use": the first listen() is tried again, with the
\* path as it is; after the second the program goes on without the lock.
ListenFails(i) ==
  /\ pc[i] \in {"probed", "retry"}
  /\ held' = [held EXCEPT ![i] = TRUE]
  /\ calm' = FALSE
  /\ Goto(i, IF pc[i] = "probed" THEN "retry" ELSE "starting")
  /\ UNCHANGED <<server, path, wake, desktop, web>>

\* Without a tray a message box waits for the user, and the program ends.
NoTray(i) ==
  /\ pc[i] = "starting"
  /\ Goto(i, "noTray")
  /\ UNCHANGED <<lock, desktop, web, calm>>

DismissNoTray(i) ==
  /\ pc[i] = "noTray"
  /\ Goto(i, "leaving")
  /\ UNCHANGED <<lock, desktop, web, calm>>

\* isRunning() decides whether the backend is to be started or, if it is a
\* remote one, the user to be warned.
ProbeBackend(i) ==
  /\ pc[i] = "starting"
  /\ Goto(i, IF Up THEN "building" ELSE "booting")
  /\ UNCHANGED <<lock, desktop, web, calm>>

\* Backend::start().  systemctl starts the unit or fails; a child process
\* fails too, and ends at once if the port is taken.
BackendStarted(i) ==
  web' \in {web} \cup (IF Up THEN {} ELSE IF mode = "Systemd" THEN {"unit"} ELSE {i})

\* The user says yes or no; a "no" leaves the backend as it is.  A remote one is
\* not started: the user dismisses the warning.
BootBackend(i) ==
  /\ pc[i] = "booting"
  /\ IF mode = "External" THEN web' = web ELSE BackendStarted(i)
  /\ Goto(i, "building")
  /\ UNCHANGED <<lock, desktop, calm>>

Build(i) ==
  /\ pc[i] = "building"
  /\ shown' = [shown EXCEPT ![i] = TRUE]
  /\ Goto(i, "loop")
  /\ UNCHANGED <<lock, intent, parent, mode, web, calm>>

-----------------------------------------------------------------------------
(* The event loop.                                                         *)

\* The event loop runs, or a nested one: that of a message box or a dialog.
Looping(i) ==
  pc[i] \in {"noTray", "booting", "building", "loop", "asking", "applying", "stranded"}


\* Before the window exists the wake-up has no effect: the window is about
\* to be shown anyway.
OnSecondInstance(i) ==
  /\ Looping(i) /\ wake[i]
  /\ wake' = [wake EXCEPT ![i] = FALSE]
  /\ shown' = [shown EXCEPT ![i] = @ \/ pc[i] \notin {"noTray", "booting", "building"}]
  /\ UNCHANGED <<pc, server, held, path, intent, parent, mode, web, calm>>

\* Tray icon, tray menu, close button.
OnTrayTriggered(i) ==
  /\ pc[i] \in {"loop", "stranded"}
  /\ shown' = [shown EXCEPT ![i] = ~@]
  /\ UNCHANGED <<pc, lock, intent, parent, mode, web, calm>>

\* runShutdownDialog up to exec(): without a running backend the box is
\* ticked and disabled, for a remote one there is no box.
AskShutdown(i, kind) ==
  /\ pc[i] = "loop" /\ kind \in {"quit", "restart"}
  /\ intent' = [intent EXCEPT ![i] =
                  Intent(kind, ~Up /\ mode # "External", FALSE, FALSE)]
  /\ Goto(i, "asking")
  /\ UNCHANGED <<lock, shown, parent, mode, web, calm>>

Reject(i) ==
  /\ pc[i] = "asking"
  /\ intent' = [intent EXCEPT ![i] = NoIntent]
  /\ Goto(i, "loop")
  /\ UNCHANGED <<lock, shown, parent, mode, web, calm>>

Accept(i, ticked) ==
  /\ pc[i] = "asking"
  /\ ticked = TRUE => mode # "External"
  /\ intent[i].locked => ticked
  /\ intent' = [intent EXCEPT ![i] = Intent(@.kind, @.locked, ticked, Up)]
  /\ Goto(i, "applying")
  /\ UNCHANGED <<lock, shown, parent, mode, web, calm>>

\* launchDesktopSelfUpdate with a helper that could be started.
SelfUpdate(i) ==
  /\ pc[i] \in {"loop", "stranded"}
  /\ intent' = [intent EXCEPT ![i] = Intent("update", FALSE, FALSE, FALSE)]
  /\ Goto(i, "closing")
  /\ UNCHANGED <<lock, shown, parent, mode, web, calm>>

-----------------------------------------------------------------------------
(* Shutdown.                                                               *)

\* Backend::stop() and restart().  A child process of its own is all that a
\* supervised backend can stop; another server on the port, an instance's child
\* too, is left alone: stop() succeeds, and the child of start() ends on the port.
BackendStopped(i) ==
  web' \in {web} \cup (IF web \in {"unit", i} THEN {"down"} ELSE {})

BackendRestarted(i) ==
  web' \in IF mode = "Systemd" THEN {"down", "unit", web}
          ELSE IF web \in {"down", i} THEN {"down", i} ELSE {web}

\* Where performQuit and performRestart go from here.
After(i) == IF intent[i].kind = "restart" THEN "closing" ELSE "leaving"

\* On its way out the process closes the window.
End(i, place) ==
  /\ Goto(i, place)
  /\ shown' = [shown EXCEPT ![i] = @ /\ place # "leaving"]

\* Defect: the box is not looked at.
ApplyIntentAlways(i) ==
  /\ pc[i] = "applying"
  /\ IF mode = "External" THEN web' = web
     ELSE IF ~intent[i].running THEN BackendStarted(i)
     ELSE IF intent[i].kind = "restart" THEN BackendRestarted(i)
     ELSE BackendStopped(i)
  /\ End(i, After(i))
  /\ UNCHANGED <<lock, intent, parent, mode, calm>>

\* applyBackendIntent: ensureBackendStarted, nothing, or stop/restart.
ApplyIntent(i) ==
  /\ pc[i] = "applying"
  /\ IF mode = "External" THEN web' = web
     ELSE IF ~intent[i].running THEN BackendStarted(i)
     ELSE IF ~intent[i].manage THEN web' = web
     ELSE IF intent[i].kind = "restart" THEN BackendRestarted(i)
     ELSE BackendStopped(i)
  /\ End(i, After(i))
  /\ UNCHANGED <<lock, intent, parent, mode, calm>>

\* What follows the release of the lock.
Released(i) ==
  IF intent[i].kind = "restart"
    THEN Goto(i, "spawning") /\ UNCHANGED intent
    ELSE /\ Goto(i, "applying")
         /\ intent' = [intent EXCEPT ![i] = Intent("update", FALSE, FALSE, Up)]

\* Defect: the new process is started before the lock is released.
CloseServerLate(i) ==
  /\ pc[i] = "closing"
  /\ Released(i)
  /\ UNCHANGED <<lock, shown, parent, mode, web, calm>>

\* Defect: the server is only scheduled for deletion, not closed.
CloseServerForgets(i) ==
  /\ pc[i] = "closing"
  /\ IF held[i]
       THEN /\ held' = [held EXCEPT ![i] = FALSE]
            /\ Goto(i, "removing") /\ Contend(i)
            /\ UNCHANGED <<server, path, wake, intent>>
       ELSE Released(i) /\ UNCHANGED <<lock, calm>>
  /\ UNCHANGED <<shown, parent, mode, web>>

\* QLocalServer::close unlinks the path if it listens; connections that wait
\* are dropped.  Without a server there is nothing to release.
CloseServer(i) ==
  /\ pc[i] = "closing"
  /\ IF held[i]
       THEN /\ server' = [server EXCEPT ![i] = FALSE]
            /\ held' = [held EXCEPT ![i] = FALSE]
            /\ wake' = [wake EXCEPT ![i] = FALSE]
            /\ path' = IF server[i] THEN NoOne ELSE path
            /\ Goto(i, "removing") /\ Contend(i)
            /\ UNCHANGED intent
       ELSE Released(i) /\ UNCHANGED <<lock, calm>>
  /\ UNCHANGED <<shown, parent, mode, web>>

\* removeServer once more: by now the path may be another process's.
RemoveServer(i) ==
  /\ pc[i] = "removing"
  /\ path' = NoOne
  /\ Released(i)
  /\ UNCHANGED <<server, held, wake, shown, parent, mode, web, calm>>

\* startDetached: a new process, and this one quits ...
Spawn(i, j) ==
  /\ pc[i] = "spawning" /\ pc[j] = "none"
  /\ pc' = [pc EXCEPT ![i] = "leaving", ![j] = "new"]
  /\ parent' = [parent EXCEPT ![j] = i]
  /\ shown' = [shown EXCEPT ![i] = FALSE]
  /\ UNCHANGED <<lock, intent, mode, web, calm>>

\* ... or a warning: shutdownStarted_ stays set and the lock is gone.
SpawnFails(i) ==
  /\ pc[i] = "spawning"
  /\ Goto(i, "stranded")
  /\ UNCHANGED <<lock, desktop, web, calm>>

\* The process is gone, and with it all that it had.
Gone(i) ==
  /\ Goto(i, "none")
  /\ server' = [server EXCEPT ![i] = FALSE]
  /\ held' = [held EXCEPT ![i] = FALSE]
  /\ wake' = [wake EXCEPT ![i] = FALSE]
  /\ shown' = [shown EXCEPT ![i] = FALSE]
  /\ intent' = [intent EXCEPT ![i] = NoIntent]
  /\ parent' = [j \in Instances |-> IF j = i \/ parent[j] = i THEN NoOne ELSE parent[j]]
  /\ UNCHANGED <<mode, calm>>

\* The destructors: a server that listens unlinks the path, a supervised
\* backend kills its child process.
Leave(i) ==
  /\ pc[i] = "leaving"
  /\ path' = IF server[i] THEN NoOne ELSE path
  /\ web' = IF web = i THEN "down" ELSE web
  /\ Gone(i)

\* Killed: nothing is cleaned up, the child (a session of its own) lives on.
Crash(i) ==
  /\ pc[i] # "none"
  /\ path' = IF path = i THEN Stale ELSE path
  /\ web' = IF web = i THEN "other" ELSE web
  /\ Gone(i)

\* Others start and stop the server; a child process dies.
WebChanges ==
  /\ web' \in {"down", IF mode = "Systemd" THEN "unit" ELSE "other"}
  /\ Up => web' = "down"
  /\ UNCHANGED <<pc, lock, desktop, calm>>

-----------------------------------------------------------------------------
\* What a process does by itself, without waiting for anybody.
Proceed(i) ==
  \/ FoundInstance(i) \/ FoundNobody(i)
  \/ Listen(i) \/ RemoveStale(i) \/ ListenFails(i)
  \/ NoTray(i) \/ ProbeBackend(i) \/ Build(i)
  \/ CloseServer(i) \/ RemoveServer(i)
  \/ (\E j \in Instances : Spawn(i, j)) \/ SpawnFails(i)
  \/ Leave(i)

\* What the user and the session do, and what waits for them.
User(i) ==
  \/ Start(i) \/ DismissNoTray(i) \/ BootBackend(i) \/ OnTrayTriggered(i)
  \/ (\E kind \in {"quit", "restart"} : AskShutdown(i, kind))
  \/ Reject(i) \/ (\E ticked \in BOOLEAN : Accept(i, ticked))
  \/ SelfUpdate(i) \/ ApplyIntent(i) \/ Crash(i)

Next == WebChanges \/ \E i \in Instances : Proceed(i) \/ OnSecondInstance(i) \/ User(i)

Spec == Init /\ [][Next]_vars

\* A step of the program's own is taken at some time; a process that waits
\* for the user does so in an event loop, which delivers connections.
Fairness == \A i \in Instances : WF_vars(Proceed(i)) /\ WF_vars(OnSecondInstance(i))

FairSpec == Spec /\ Fairness

-----------------------------------------------------------------------------
(* Properties.                                                             *)

Places == {"none", "new", "probed", "blocked", "retry", "starting", "noTray",
           "booting", "building", "loop", "asking", "applying", "closing", "removing",
           "spawning", "stranded", "leaving"}

\* The variables have their types; a process listens only through a server it
\* still holds, and connections wait only where somebody listens.
TypeOK ==
  /\ pc \in [Instances -> Places]
  /\ server \in [Instances -> BOOLEAN]
  /\ held \in [Instances -> BOOLEAN]
  /\ path \in Instances \cup {NoOne, Stale}
  /\ wake \in [Instances -> BOOLEAN]
  /\ shown \in [Instances -> BOOLEAN]
  /\ intent \in [Instances -> [kind : Kinds \cup {"none"}, locked : BOOLEAN,
                               manage : BOOLEAN, running : BOOLEAN]]
  /\ parent \in [Instances -> Instances \cup {NoOne}]
  /\ mode \in Modes
  /\ web \in Instances \cup {"down", "unit", "other"}
  /\ calm \in BOOLEAN
  /\ \A i \in Instances : (wake[i] => server[i]) /\ (server[i] => held[i])

\* The event loop serves a user, outside a shutdown that gave the lock away.
Serving(i) == pc[i] \in {"booting", "building", "loop", "asking"}

\* As long as no two processes have met at the socket, a process that serves
\* the user is the one that a further start finds: the path is its own and it
\* listens.  So there is one such process, whatever was killed, restarted or
\* updated before, and a socket left behind by a killed one is in nobody's way.
OneServing ==
  calm => \A i \in Instances : Serving(i) => path = i /\ server[i]

\* The process that performRestart starts never takes its parent for the
\* instance that runs, which would leave the user without any.
ChildFindsNoParent ==
  \A j \in Instances : pc[j] = "new" => ~(path \in Instances /\ path = parent[j] /\ server[path])

\* The box could be ticked, and the user did.
Ticked(i) == intent[i].manage /\ ~intent[i].locked

\* The box came ticked and locked because the backend was down; the backend came up
\* while the dialog was open, so that the tick is read as the wish to stop it.
LockedBoxMisread(i) == intent[i].manage /\ intent[i].locked /\ intent[i].running

\* The systemd unit goes down by itself, or by a process whose user ticked the
\* box: no process that merely starts or ends stops it, the self-update does not,
\* and a quit or restart without the tick does not, however the unit came and went
\* while the dialog was open.  One exception is in the code, against what the
\* dialog says (AskedToStartNeverStops): the locked box.  There is no other.
UnitStopsOnRequest ==
  [][web = "unit" /\ web' = "down" =>
       \/ WebChanges
       \/ \E i \in Instances :
            /\ ApplyIntent(i) /\ intent[i].kind \in {"quit", "restart"}
            /\ Ticked(i) \/ LockedBoxMisread(i)]_vars


\* What the dialogs say of the locked box: the user is told that the backend
\* is going to be started, so it is not stopped.
AskedToStartNeverStops ==
  [][\A i \in Instances :
       intent[i].locked /\ intent[i].kind = "quit" /\ ApplyIntent(i) /\ Up => web' # "down"]_vars

\* What the documentation says of the self-update: it does not stop the
\* backend, up to and with the end of the process that is replaced.
UpdateKeepsBackend ==
  [][\A i \in Instances :
       intent[i].kind = "update" /\ (ApplyIntent(i) \/ Leave(i)) /\ Up => web' # "down"]_vars
=============================================================================
