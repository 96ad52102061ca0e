-------------------------- MODULE AppLifecycleProofs --------------------------
(***************************************************************************)
(* Proofs about AppLifecycle: the types, that one process serves the user, *)
(* and that a restarted program never gives way to the one it replaces,    *)
(* for any number of processes.                                            *)
(***************************************************************************)
EXTENDS AppLifecycle, TLAPS

-----------------------------------------------------------------------------
(* The inductive invariant.                                                *)

\* While nobody met at the socket, one process at most deals with it.
OneContends ==
  \A i, j \in Instances : Contending(i) /\ Contending(j) => i = j

\* A socket somebody listens on is the one at the path.
ListensAtPath == \A i \in Instances : server[i] => path = i

\* Nobody listens while a process deals with the socket.
NobodyListens ==
  \A i \in Instances : Contending(i) => \A j \in Instances : ~server[j]

\* After removeServer the path is free.
PathFreed == \A i \in Instances : pc[i] \in {"retry", "removing"} => path = NoOne

\* From the start to the shutdown dialog a process listens.
LockedPlaces == {"starting", "booting", "building", "loop", "asking"}
Locked == \A i \in Instances : pc[i] \in LockedPlaces => server[i]

\* A server that is held listens, but for the two attempts to make it listen.
HeldListens ==
  \A i \in Instances :
    held[i] /\ pc[i] \notin {"blocked", "retry"} => server[i]

Calm == /\ OneContends /\ ListensAtPath /\ NobodyListens
        /\ PathFreed /\ Locked /\ HeldListens

\* The parent of a process has nothing left to do but to leave.
ParentLeaves ==
  \A i \in Instances :
    /\ pc[i] \in {"removing", "spawning"} => ~server[i]
    /\ parent[i] # NoOne =>
         pc[parent[i]] = "leaving" /\ ~server[parent[i]]

IInv == TypeOK /\ (calm => Calm) /\ ParentLeaves

\* The actions of a process, and the environment.
Acts(i) == Proceed(i) \/ OnSecondInstance(i) \/ User(i)

-----------------------------------------------------------------------------
(* Types.                                                                  *)

\* The initial states are well typed and satisfy the invariant.
LEMMA InitInv == Init => IInv
BY NamesAssumption, ModesAssumption
   DEF Init, IInv, TypeOK, Calm, OneContends, ListensAtPath, NobodyListens, PathFreed,
       Locked, LockedPlaces, HeldListens, ParentLeaves, Contending, Places, Kinds,
       Intent, NoIntent

\* The record of a shutdown has its type.
LEMMA IntentType ==
  ASSUME NEW kind \in Kinds \cup {"none"}, NEW locked \in BOOLEAN,
         NEW manage \in BOOLEAN, NEW running \in BOOLEAN
  PROVE  Intent(kind, locked, manage, running) \in
           [kind : Kinds \cup {"none"}, locked : BOOLEAN, manage : BOOLEAN, running : BOOLEAN]
BY DEF Intent

\* Every step keeps the types.
LEMMA TypeStep == TypeOK /\ [Next]_vars => TypeOK'
<1> SUFFICES ASSUME TypeOK, [Next]_vars PROVE TypeOK'
  OBVIOUS
<1> USE DEF TypeOK, Goto, lock, desktop
<1>1. CASE UNCHANGED vars
  BY <1>1 DEF vars
<1>2. CASE WebChanges
  BY <1>2 DEF WebChanges
<1>3. ASSUME NEW i \in Instances, Acts(i) PROVE TypeOK'
  <2>1. CASE Start(i) \/ FoundInstance(i) \/ FoundNobody(i)
    BY <2>1 DEF Start, FoundInstance, FoundNobody, Contend, Places
  <2>2. CASE Listen(i) \/ RemoveStale(i) \/ ListenFails(i)
    <3>1. CASE Listen(i) /\ path = NoOne
      BY <3>1 DEF Listen, Places
    <3>2. CASE Listen(i) /\ path # NoOne
      BY <3>2 DEF Listen, Places
    <3>3. CASE RemoveStale(i)
      BY <3>3 DEF RemoveStale, Places
    <3>4. CASE ListenFails(i)
      BY <3>4 DEF ListenFails, Places
    <3> QED BY <2>2, <3>1, <3>2, <3>3, <3>4
  <2>3. CASE NoTray(i) \/ DismissNoTray(i) \/ ProbeBackend(i) \/ Build(i)
    <3>1. CASE NoTray(i) \/ DismissNoTray(i)
      BY <3>1 DEF NoTray, DismissNoTray, Places
    <3>3. CASE Build(i)
      BY <3>3 DEF Build, Places
    <3>2. CASE ProbeBackend(i)
      <4>1. PICK place \in {"building", "booting"} : Goto(i, place)
        BY <3>2 DEF ProbeBackend
      <4>2. UNCHANGED <<server, held, path, wake, shown, intent, parent, mode, web, calm>>
        BY <3>2 DEF ProbeBackend
      <4> QED BY <4>1, <4>2 DEF Places
    <3> QED BY <2>3, <3>1, <3>2, <3>3
  <2>4. CASE BootBackend(i)
    BY <2>4 DEF BootBackend, BackendStarted, Places
  <2>5. CASE OnSecondInstance(i) \/ OnTrayTriggered(i)
    BY <2>5 DEF OnSecondInstance, OnTrayTriggered
  <2>6. CASE \E kind \in {"quit", "restart"} : AskShutdown(i, kind)
    <3>1. PICK kind \in {"quit", "restart"} : AskShutdown(i, kind)
      BY <2>6
    <3>2. Intent(kind, ~Up /\ mode # "External", FALSE, FALSE) \in
            [kind : Kinds \cup {"none"}, locked : BOOLEAN, manage : BOOLEAN, running : BOOLEAN]
      BY IntentType DEF Kinds
    <3> QED BY <3>1, <3>2 DEF AskShutdown, Places
  <2>7. CASE Reject(i)
    <3>1. NoIntent \in
            [kind : Kinds \cup {"none"}, locked : BOOLEAN, manage : BOOLEAN, running : BOOLEAN]
      BY IntentType DEF NoIntent
    <3> QED BY <2>7, <3>1 DEF Reject, Places
  <2>8. CASE \E ticked \in BOOLEAN : Accept(i, ticked)
    <3>1. PICK ticked \in BOOLEAN : Accept(i, ticked)
      BY <2>8
    <3>2. Up \in BOOLEAN
      BY DEF Up
    <3>3. Intent(intent[i].kind, intent[i].locked, ticked, Up) \in
            [kind : Kinds \cup {"none"}, locked : BOOLEAN, manage : BOOLEAN, running : BOOLEAN]
      BY <3>2, IntentType
    <3>4. intent' = [intent EXCEPT ![i] =
                       Intent(intent[i].kind, intent[i].locked, ticked, Up)]
      BY <3>1 DEF Accept
    <3> QED BY <3>1, <3>3, <3>4 DEF Accept, Places
  <2>9. CASE SelfUpdate(i)
    <3>1. Intent("update", FALSE, FALSE, FALSE) \in
            [kind : Kinds \cup {"none"}, locked : BOOLEAN, manage : BOOLEAN, running : BOOLEAN]
      BY IntentType DEF Kinds
    <3> QED BY <2>9, <3>1 DEF SelfUpdate, Places
  <2>10. CASE ApplyIntent(i)
    <3>1. web' \in Instances \cup {"down", "unit", "other"}
      BY <2>10 DEF ApplyIntent, BackendStarted, BackendStopped, BackendRestarted
    <3> QED BY <2>10, <3>1 DEF ApplyIntent, End, After, Places
  <2>11. ASSUME Released(i)
         PROVE  /\ pc' \in [Instances -> Places]
                /\ intent' \in [Instances -> [kind : Kinds \cup {"none"}, locked : BOOLEAN,
                                              manage : BOOLEAN, running : BOOLEAN]]
    <3>1. Intent("update", FALSE, FALSE, Up) \in
            [kind : Kinds \cup {"none"}, locked : BOOLEAN, manage : BOOLEAN, running : BOOLEAN]
      BY IntentType DEF Kinds, Up
    <3> QED BY <2>11, <3>1 DEF Released, Places
  <2>12. CASE CloseServer(i) \/ RemoveServer(i)
    <3>1. CASE CloseServer(i) /\ held[i]
      BY <3>1 DEF CloseServer, Contend, Places
    <3>2. CASE CloseServer(i) /\ ~held[i]
      BY <3>2, <2>11 DEF CloseServer
    <3>3. CASE RemoveServer(i)
      BY <3>3, <2>11 DEF RemoveServer
    <3> QED BY <2>12, <3>1, <3>2, <3>3
  <2>13. CASE (\E j \in Instances : Spawn(i, j)) \/ SpawnFails(i)
    <3>1. CASE SpawnFails(i)
      BY <3>1 DEF SpawnFails, Places
    <3>2. ASSUME NEW j \in Instances, Spawn(i, j) PROVE TypeOK'
      BY <3>2 DEF Spawn, Places
    <3> QED BY <2>13, <3>1, <3>2
  <2>14. CASE Leave(i) \/ Crash(i)
    <3>1. NoIntent \in
            [kind : Kinds \cup {"none"}, locked : BOOLEAN, manage : BOOLEAN, running : BOOLEAN]
      BY IntentType DEF NoIntent
    <3>2. Gone(i) /\ path' \in Instances \cup {NoOne, Stale}
            /\ web' \in Instances \cup {"down", "unit", "other"}
      BY <2>14 DEF Leave, Crash
    <3> QED BY <3>1, <3>2 DEF Gone, Places
  <2> QED BY <1>3, <2>1, <2>2, <2>3, <2>4, <2>5, <2>6, <2>7, <2>8, <2>9, <2>10, <2>12,
             <2>13, <2>14 DEF Acts, Proceed, User
<1> QED BY <1>1, <1>2, <1>3 DEF Next, Acts

\* The type invariant holds for any number of processes.
THEOREM TypeCorrect == Spec => []TypeOK
<1>1. Init => TypeOK
  BY InitInv DEF IInv
<1> QED BY <1>1, TypeStep, PTL DEF Spec

-----------------------------------------------------------------------------
(* One process serves the user.                                            *)

\* Steps after which everybody is where the invariant wants him and the
\* socket is as before.
LEMMA QuietStep ==
  ASSUME IInv, TypeOK', NEW i \in Instances, NEW place \in Places, Goto(i, place),
         place \notin {"probed", "blocked", "retry", "removing", "spawning"},
         place \in LockedPlaces => pc[i] \in LockedPlaces,
         pc[i] \notin {"probed", "blocked", "retry", "leaving"},
         server' = server, held' = held, path' = path, calm' = calm, parent' = parent
  PROVE  IInv'
<1> USE DEF IInv, TypeOK, Goto
<1>1. \A j \in Instances : pc'[j] = IF j = i THEN place ELSE pc[j]
  OBVIOUS
<1>2. \A j \in Instances : Contending(j)' => Contending(j)
  BY <1>1 DEF Contending
<1>3. ParentLeaves'
  BY <1>1, NamesAssumption DEF ParentLeaves
<1>4. ASSUME calm PROVE Calm'
  <2> USE <1>4 DEF Calm
  <2>1. OneContends' /\ NobodyListens'
    BY <1>2 DEF OneContends, NobodyListens
  <2>2. ListensAtPath' /\ PathFreed'
    BY <1>1 DEF ListensAtPath, PathFreed
  <2>3. Locked' /\ HeldListens'
    BY <1>1 DEF Locked, LockedPlaces, HeldListens
  <2> QED BY <2>1, <2>2, <2>3
<1> QED BY <1>3, <1>4

\* Nothing that the invariant is about changes.
LEMMA FrameStep ==
  ASSUME IInv, TypeOK', UNCHANGED <<pc, server, held, path, parent, calm>>
  PROVE  IInv'
BY DEF IInv, Calm, OneContends, ListensAtPath, NobodyListens, PathFreed, Locked,
       HeldListens, ParentLeaves, Contending

\* The steps of a start that look at the socket and change it.
LEMMA SocketStep ==
  ASSUME IInv, TypeOK', NEW i \in Instances,
         FoundNobody(i) \/ Listen(i) \/ RemoveStale(i) \/ ListenFails(i)
  PROVE  IInv'
<1> USE DEF IInv, TypeOK, Goto, lock, desktop
<1>1. CASE FoundNobody(i)
  <2> USE <1>1 DEF FoundNobody, Contend
  <2>1. ParentLeaves'
    BY NamesAssumption DEF ParentLeaves
  <2>2. ASSUME calm' PROVE Calm'
    <3> USE <2>2 DEF Calm
    <3>1. \A j \in Instances : ~Contending(j) /\ ~server[j]
      BY DEF ListensAtPath
    <3>2. \A j \in Instances : Contending(j)' => j = i
      BY <3>1 DEF Contending
    <3>3. OneContends' /\ NobodyListens'
      BY <3>1, <3>2 DEF OneContends, NobodyListens
    <3>4. ListensAtPath' /\ PathFreed'
      BY DEF ListensAtPath, PathFreed
    <3>5. Locked' /\ HeldListens'
      BY DEF Locked, LockedPlaces, HeldListens
    <3> QED BY <3>3, <3>4, <3>5
  <2> QED BY <2>1, <2>2
<1>2. CASE Listen(i) /\ path = NoOne
  <2> USE <1>2 DEF Listen
  <2>0. /\ pc' = [pc EXCEPT ![i] = "starting"] /\ server' = [server EXCEPT ![i] = TRUE]
        /\ held' = [held EXCEPT ![i] = TRUE] /\ path' = i /\ calm' = calm /\ parent' = parent
        /\ Contending(i)
    BY DEF Contending
  <2>1. ParentLeaves'
    BY <2>0, NamesAssumption DEF ParentLeaves
  <2>2. ASSUME calm PROVE Calm'
    <3> USE <2>2 DEF Calm
    <3>1. \A j \in Instances : ~server[j] /\ (Contending(j) => j = i)
      BY <2>0 DEF NobodyListens, OneContends
    <3>2. \A j \in Instances : ~Contending(j)'
      BY <2>0, <3>1 DEF Contending
    <3>3. OneContends' /\ NobodyListens'
      BY <3>2 DEF OneContends, NobodyListens
    <3>4. ListensAtPath'
      BY <2>0, <3>1 DEF ListensAtPath
    <3>5. PathFreed'
      BY <2>0, <3>2 DEF PathFreed, Contending
    <3>6. Locked' /\ HeldListens'
      BY <2>0 DEF Locked, LockedPlaces, HeldListens
    <3> QED BY <3>3, <3>4, <3>5, <3>6
  <2> QED BY <2>0, <2>1, <2>2
<1>3. CASE Listen(i) /\ path # NoOne
  <2> USE <1>3 DEF Listen
  <2>1. ParentLeaves'
    BY NamesAssumption DEF ParentLeaves
  <2>2. ASSUME calm PROVE Calm'
    <3> USE <2>2 DEF Calm
    <3>0. /\ pc[i] = "probed" /\ pc' = [pc EXCEPT ![i] = "blocked"] /\ Contending(i)
          /\ held' = [held EXCEPT ![i] = TRUE] /\ server' = server /\ path' = path
      BY DEF PathFreed, Contending
    <3>1. \A j \in Instances : Contending(j)' => Contending(j)
      BY <3>0 DEF Contending
    <3>2. OneContends' /\ NobodyListens'
      BY <3>0, <3>1 DEF OneContends, NobodyListens
    <3>3. ListensAtPath' /\ PathFreed'
      BY <3>0 DEF ListensAtPath, PathFreed
    <3>4. Locked' /\ HeldListens'
      BY <3>0 DEF Locked, LockedPlaces, HeldListens
    <3> QED BY <3>2, <3>3, <3>4
  <2> QED BY <2>1, <2>2
<1>4. CASE RemoveStale(i)
  <2> USE <1>4 DEF RemoveStale
  <2>1. ParentLeaves'
    BY NamesAssumption DEF ParentLeaves
  <2>2. ASSUME calm PROVE Calm'
    <3> USE <2>2 DEF Calm
    <3>1. \A j \in Instances : ~server[j]
      BY DEF NobodyListens, Contending
    <3>2. \A j \in Instances : Contending(j)' => Contending(j)
      BY DEF Contending
    <3>3. OneContends' /\ NobodyListens'
      BY <3>1, <3>2 DEF OneContends, NobodyListens
    <3>4. ListensAtPath' /\ PathFreed'
      BY <3>1 DEF ListensAtPath, PathFreed
    <3>5. Locked' /\ HeldListens'
      BY DEF Locked, LockedPlaces, HeldListens
    <3> QED BY <3>3, <3>4, <3>5
  <2> QED BY <2>1, <2>2
<1>5. CASE ListenFails(i)
  BY <1>5, NamesAssumption DEF ListenFails, ParentLeaves
<1> QED BY <1>1, <1>2, <1>3, <1>4, <1>5

\* The steps that give the lock away.
LEMMA ReleaseStep ==
  ASSUME IInv, TypeOK', NEW i \in Instances, CloseServer(i) \/ RemoveServer(i)
  PROVE  IInv'
<1> USE DEF IInv, TypeOK, Goto, lock
<1>1. CASE CloseServer(i) /\ held[i]
  <2> USE <1>1 DEF CloseServer
  <2>0. /\ pc[i] = "closing" /\ pc' = [pc EXCEPT ![i] = "removing"]
        /\ server' = [server EXCEPT ![i] = FALSE] /\ held' = [held EXCEPT ![i] = FALSE]
        /\ path' = (IF server[i] THEN NoOne ELSE path) /\ parent' = parent
        /\ calm' = (calm /\ \A j \in Instances : ~Contending(j))
    BY DEF Contend
  <2>1. ParentLeaves'
    BY <2>0, NamesAssumption DEF ParentLeaves
  <2>2. ASSUME calm' PROVE Calm'
    <3> USE <2>2, <2>0 DEF Calm
    <3>1. path' = NoOne /\ \A j \in Instances : ~server'[j] /\ ~Contending(j)
      BY DEF HeldListens, ListensAtPath
    <3>2. \A j \in Instances : Contending(j)' => j = i
      BY <3>1 DEF Contending
    <3>3. OneContends' /\ NobodyListens'
      BY <3>1, <3>2 DEF OneContends, NobodyListens
    <3>4. ListensAtPath' /\ PathFreed'
      BY <3>1 DEF ListensAtPath, PathFreed
    <3>5. \A j \in Instances : j # i => ~server[j]
      BY <3>1
    <3>6. Locked' /\ HeldListens'
      BY <3>5 DEF Locked, LockedPlaces, HeldListens
    <3> QED BY <3>3, <3>4, <3>6
  <2> QED BY <2>1, <2>2
<1>2. ASSUME ~server[i], Released(i), server' = server, held' = held, parent' = parent,
             calm' = calm, pc[i] \in {"closing", "removing"},
             path' = path \/ (pc[i] = "removing" /\ path' = NoOne)
      PROVE  IInv'
  <2> USE <1>2
  <2>0. PICK place \in {"spawning", "applying"} : pc' = [pc EXCEPT ![i] = place]
    BY DEF Released
  <2>1. ParentLeaves'
    BY <2>0, NamesAssumption DEF ParentLeaves
  <2>2. ASSUME calm PROVE Calm'
    <3> USE <2>2, <2>0 DEF Calm
    <3>1. \A j \in Instances : Contending(j)' => Contending(j)
      BY DEF Contending
    <3>2. OneContends' /\ NobodyListens'
      BY <3>1 DEF OneContends, NobodyListens
    <3>3. path' # path => \A j \in Instances : ~server[j]
      BY DEF NobodyListens, Contending
    <3>4. ListensAtPath' /\ PathFreed'
      BY <3>3 DEF ListensAtPath, PathFreed
    <3>5. Locked' /\ HeldListens'
      BY DEF Locked, LockedPlaces, HeldListens
    <3> QED BY <3>2, <3>4, <3>5
  <2> QED BY <2>1, <2>2
<1>3. CASE CloseServer(i) /\ ~held[i]
  BY <1>2, <1>3 DEF CloseServer
<1>4. CASE RemoveServer(i)
  BY <1>2, <1>4 DEF RemoveServer, ParentLeaves
<1> QED BY <1>1, <1>3, <1>4

\* A new process takes the place of one that leaves.
LEMMA SpawnStep ==
  ASSUME IInv, TypeOK', NEW i \in Instances, NEW j \in Instances, Spawn(i, j)
  PROVE  IInv'
<1> USE DEF IInv, TypeOK, Spawn, lock
<1>1. ParentLeaves'
  BY NamesAssumption DEF ParentLeaves
<1>2. ASSUME calm PROVE Calm'
  <2> USE <1>2 DEF Calm
  <2>1. \A k \in Instances : Contending(k)' => Contending(k)
    BY DEF Contending
  <2>2. OneContends' /\ NobodyListens'
    BY <2>1 DEF OneContends, NobodyListens
  <2>3. ListensAtPath' /\ PathFreed'
    BY DEF ListensAtPath, PathFreed
  <2>4. Locked' /\ HeldListens'
    BY DEF Locked, LockedPlaces, HeldListens
  <2> QED BY <2>2, <2>3, <2>4
<1> QED BY <1>1, <1>2

\* The end of a process, in order or not.
LEMMA EndStep ==
  ASSUME IInv, TypeOK', NEW i \in Instances, Leave(i) \/ Crash(i)
  PROVE  IInv'
<1> USE DEF IInv, TypeOK, Goto, Gone
<1>0. /\ pc' = [pc EXCEPT ![i] = "none"] /\ server' = [server EXCEPT ![i] = FALSE]
      /\ held' = [held EXCEPT ![i] = FALSE] /\ calm' = calm
      /\ parent' = [j \in Instances |-> IF j = i \/ parent[j] = i THEN NoOne ELSE parent[j]]
      /\ path' = path \/ (server[i] /\ path' = NoOne) \/ (path = i /\ path' = Stale)
  BY DEF Leave, Crash
<1>1. ParentLeaves'
  BY <1>0, NamesAssumption DEF ParentLeaves
<1>2. ASSUME calm PROVE Calm'
  <2> USE <1>2, <1>0 DEF Calm
  <2>1. \A k \in Instances : Contending(k)' => Contending(k) /\ k # i
    BY DEF Contending
  <2>2. OneContends' /\ NobodyListens'
    BY <2>1 DEF OneContends, NobodyListens
  <2>3. ListensAtPath' /\ PathFreed'
    BY NamesAssumption DEF ListensAtPath, PathFreed
  <2>4. Locked' /\ HeldListens'
    BY DEF Locked, LockedPlaces, HeldListens
  <2> QED BY <2>2, <2>3, <2>4
<1> QED BY <1>0, <1>1, <1>2

\* Every step keeps the invariant.
LEMMA InvStep == IInv /\ [Next]_vars => IInv'
<1> SUFFICES ASSUME IInv, [Next]_vars PROVE IInv'
  OBVIOUS
<1>0. TypeOK'
  BY TypeStep DEF IInv
<1> USE <1>0 DEF lock, desktop
<1>1. CASE UNCHANGED vars \/ WebChanges
  BY <1>1, FrameStep DEF vars, WebChanges
<1>2. ASSUME NEW i \in Instances, Acts(i) PROVE IInv'
  <2>1. CASE \/ Start(i) \/ FoundInstance(i) \/ NoTray(i) \/ DismissNoTray(i)
             \/ Build(i) \/ SpawnFails(i)
    <3>1. CASE Start(i)
      BY <3>1, QuietStep DEF Start, Places, LockedPlaces
    <3>2. CASE FoundInstance(i)
      BY <3>2, QuietStep DEF FoundInstance, Places, LockedPlaces
    <3>3. CASE NoTray(i) \/ DismissNoTray(i)
      BY <3>3, QuietStep DEF NoTray, DismissNoTray, Places, LockedPlaces
    <3>4. CASE Build(i)
      BY <3>4, QuietStep DEF Build, Places, LockedPlaces
    <3>5. CASE SpawnFails(i)
      BY <3>5, QuietStep DEF SpawnFails, Places, LockedPlaces
    <3> QED BY <2>1, <3>1, <3>2, <3>3, <3>4, <3>5
  <2>2. CASE ProbeBackend(i) \/ BootBackend(i)
    <3>1. PICK place \in {"building", "booting"} : Goto(i, place)
      BY <2>2 DEF ProbeBackend, BootBackend
    <3> QED BY <2>2, <3>1, QuietStep DEF ProbeBackend, BootBackend, Places, LockedPlaces
  <2>3. CASE Reject(i) \/ SelfUpdate(i)
    BY <2>3, QuietStep DEF Reject, SelfUpdate, Places, LockedPlaces
  <2>4. ASSUME NEW kind \in {"quit", "restart"}, AskShutdown(i, kind) PROVE IInv'
    BY <2>4, QuietStep DEF AskShutdown, Places, LockedPlaces
  <2>5. ASSUME NEW ticked \in BOOLEAN, Accept(i, ticked) PROVE IInv'
    BY <2>5, QuietStep DEF Accept, Places, LockedPlaces
  <2>6. CASE ApplyIntent(i)
    <3>1. PICK place \in {"closing", "leaving"} : Goto(i, place)
      BY <2>6 DEF ApplyIntent, End, After
    <3> QED BY <2>6, <3>1, QuietStep DEF ApplyIntent, Places, LockedPlaces
  <2>7. CASE OnSecondInstance(i) \/ OnTrayTriggered(i)
    BY <2>7, FrameStep DEF OnSecondInstance, OnTrayTriggered
  <2>8. CASE FoundNobody(i) \/ Listen(i) \/ RemoveStale(i) \/ ListenFails(i)
    BY <2>8, SocketStep
  <2>9. CASE CloseServer(i) \/ RemoveServer(i)
    BY <2>9, ReleaseStep
  <2>10. ASSUME NEW j \in Instances, Spawn(i, j) PROVE IInv'
    BY <2>10, SpawnStep
  <2>11. CASE Leave(i) \/ Crash(i)
    BY <2>11, EndStep
  <2> QED BY <1>2, <2>1, <2>2, <2>3, <2>4, <2>5, <2>6, <2>7, <2>8, <2>9, <2>10, <2>11
          DEF Acts, Proceed, User
<1> QED BY <1>1, <1>2 DEF Next, Acts

\* As long as no two processes have met at the socket, one process at most
\* serves the user, and a further start finds it.
THEOREM OneInstance == Spec => []OneServing
<1>1. IInv => OneServing
  BY DEF IInv, Calm, OneServing, Serving, Locked, LockedPlaces, ListensAtPath
<1> QED BY <1>1, InitInv, InvStep, PTL DEF Spec

\* Whatever races there were, a restarted program does not take the process
\* it replaces for a running instance.
THEOREM RestartHandsOver == Spec => []ChildFindsNoParent
<1>1. IInv => ChildFindsNoParent
  BY NamesAssumption DEF IInv, ParentLeaves, ChildFindsNoParent, TypeOK
<1> QED BY <1>1, InitInv, InvStep, PTL DEF Spec

\* What a process has noted of a shutdown: while it asks or carries out an answer,
\* a box that is ticked belongs to a quit or a restart.
Asked ==
  \A i \in Instances :
    /\ intent[i].kind \in {"none", "update"} => ~intent[i].manage
    /\ pc[i] = "asking" => intent[i].kind \in {"quit", "restart"}

LEMMA AskedStep == TypeOK /\ Asked /\ [Next]_vars => Asked'
<1> SUFFICES ASSUME TypeOK, Asked, [Next]_vars PROVE Asked'
  OBVIOUS
<1> USE DEF TypeOK, Goto, lock, desktop, Intent, NoIntent
<1>1. CASE UNCHANGED vars \/ WebChanges
  BY <1>1 DEF vars, WebChanges, Asked
<1>2. ASSUME NEW i \in Instances, Acts(i) PROVE Asked'
  <2>1. ASSUME UNCHANGED intent, NEW place, pc' = [pc EXCEPT ![i] = place], place # "asking"
        PROVE  Asked'
    BY <2>1 DEF Asked
  <2>2. CASE \/ Start(i) \/ FoundInstance(i) \/ FoundNobody(i) \/ RemoveStale(i)
             \/ NoTray(i) \/ DismissNoTray(i) \/ Build(i) \/ SpawnFails(i) \/ BootBackend(i)
    BY <2>1, <2>2 DEF Start, FoundInstance, FoundNobody, RemoveStale, NoTray, DismissNoTray,
                      Build, SpawnFails, BootBackend
  <2>3. CASE Listen(i) \/ ListenFails(i) \/ ProbeBackend(i) \/ ApplyIntent(i)
    BY <2>1, <2>3 DEF Listen, ListenFails, ProbeBackend, ApplyIntent, End, After
  <2>4. CASE OnSecondInstance(i) \/ OnTrayTriggered(i)
    BY <2>4 DEF OnSecondInstance, OnTrayTriggered, Asked
  <2>5. ASSUME NEW kind \in {"quit", "restart"}, AskShutdown(i, kind) PROVE Asked'
    BY <2>5 DEF AskShutdown, Asked
  <2>6. CASE Reject(i) \/ SelfUpdate(i)
    BY <2>6 DEF Reject, SelfUpdate, Asked
  <2>7. ASSUME NEW ticked \in BOOLEAN, Accept(i, ticked) PROVE Asked'
    BY <2>7 DEF Accept, Asked
  <2>8. CASE CloseServer(i) \/ RemoveServer(i)
    <3>1. \/ pc' = [pc EXCEPT ![i] = "removing"] /\ UNCHANGED intent
          \/ Released(i)
      BY <2>8 DEF CloseServer, RemoveServer
    <3> QED BY <2>1, <3>1 DEF Released, Asked
  <2>9. ASSUME NEW j \in Instances, Spawn(i, j) PROVE Asked'
    BY <2>9 DEF Spawn, Asked
  <2>10. CASE Leave(i) \/ Crash(i)
    BY <2>10 DEF Leave, Crash, Gone, Asked
  <2> QED BY <1>2, <2>2, <2>3, <2>4, <2>5, <2>6, <2>7, <2>8, <2>9, <2>10
          DEF Acts, Proceed, User
<1> QED BY <1>1, <1>2 DEF Next, Acts

\* The systemd unit is stopped by the action that carries out a quit or a restart
\* whose box the user ticked, or whose box was locked with the tick while the unit
\* was down, and by nothing else that the program does.
THEOREM UnitIsLeftAlone == Spec => UnitStopsOnRequest
<1>1. TypeOK /\ Asked /\ [Next]_vars =>
        [web = "unit" /\ web' = "down" =>
           \/ WebChanges
           \/ \E i \in Instances :
                /\ ApplyIntent(i) /\ intent[i].kind \in {"quit", "restart"}
                /\ Ticked(i) \/ LockedBoxMisread(i)]_vars
  <2> SUFFICES ASSUME TypeOK, Asked, Next, web = "unit", web' = "down", ~WebChanges
               PROVE  \E i \in Instances :
                        /\ ApplyIntent(i) /\ intent[i].kind \in {"quit", "restart"}
                        /\ Ticked(i) \/ LockedBoxMisread(i)
    BY DEF vars
  <2>1. PICK i \in Instances : Acts(i)
    BY DEF Next, Acts
  <2>2. web # i /\ Up
    BY WebAssumption DEF Up
  <2>3. ~BackendStarted(i)
    BY <2>2 DEF BackendStarted
  <2>4. CASE ApplyIntent(i)
    <3>1. intent[i].manage /\ intent[i].running
      BY <2>3, <2>4 DEF ApplyIntent
    <3>2. intent[i].kind \in {"quit", "restart"}
      BY <3>1 DEF Asked, TypeOK, Kinds
    <3> QED BY <2>4, <3>1, <3>2 DEF Ticked, LockedBoxMisread
  <2>5. CASE BootBackend(i) \/ Leave(i) \/ Crash(i)
    BY <2>2, <2>3, <2>5 DEF BootBackend, Leave, Crash
  <2>6. CASE Proceed(i) /\ ~Leave(i)
    BY <2>6 DEF Proceed, FoundInstance, FoundNobody, Listen, RemoveStale, ListenFails, NoTray,
                ProbeBackend, Build, CloseServer, RemoveServer, Spawn, SpawnFails
  <2>7. CASE OnSecondInstance(i)
    BY <2>7 DEF OnSecondInstance
  <2>8. CASE User(i) /\ ~ApplyIntent(i) /\ ~BootBackend(i) /\ ~Crash(i)
    BY <2>8 DEF User, Start, DismissNoTray, OnTrayTriggered, AskShutdown, Reject, Accept,
                SelfUpdate
  <2> QED BY <2>1, <2>4, <2>5, <2>6, <2>7, <2>8 DEF Acts
<1>2. Init => Asked
  <2> SUFFICES ASSUME Init, NEW i \in Instances
               PROVE  ~intent[i].manage /\ pc[i] # "asking"
    BY DEF Asked
  <2>1. pc[i] = "none" /\ intent[i] = NoIntent
    BY DEF Init
  <2>2. NoIntent.manage = FALSE
    BY DEF NoIntent, Intent
  <2> QED BY <2>1, <2>2
<1>3. Init => TypeOK
  BY InitInv DEF IInv
<1>4. QED BY <1>1, <1>2, <1>3, AskedStep, TypeStep, PTL DEF Spec, UnitStopsOnRequest
=============================================================================
