---------------------------- MODULE HealthMonitor ----------------------------
(***************************************************************************)
(* The health poll of DshDesktopApp: one request at a time, a time limit   *)
(* on each, and an announcement to the user when what is known about the   *)
(* server changes.  A failure counts only after Threshold of them in a     *)
(* row, a success at once.                                                 *)
(***************************************************************************)
EXTENDS WebServer, Sequences, Naturals

CONSTANT Threshold  \* kHealthFailureThreshold

ASSUME ThresholdAssumption == Threshold \in Nat

VARIABLES
  polling,      \* "off", or "on" when the health timer runs
  outstanding,  \* 1 while healthReply_ is not null, or 0
  failures,     \* consecutiveHealthFailures_, counted up to FailuresCap
  verdict,      \* lastBackendRunning_, or "unknown" before backendHealthKnown_
  told,         \* history: the last announcement
  observed      \* history: the replies of the last polls, the newest last

healthVars == <<polling, outstanding, failures, verdict, told, observed>>

\* qMax(1, failureThreshold)
Needed == IF Threshold > 1 THEN Threshold ELSE 1

\* From here on more failures make no difference.
FailuresCap == Needed

Verdicts == {"unknown", "running", "stopped"}

HealthTypeOK ==
  /\ polling \in {"off", "on"} /\ outstanding \in 0..1
  /\ failures \in 0..FailuresCap
  /\ verdict \in Verdicts
  /\ told \in {"nothing", "stopped", "recovered"}
  /\ observed \in Seq({"ok", "failed"}) /\ Len(observed) <= Needed

HealthInit ==
  /\ polling = "off" /\ outstanding = 0
  /\ failures = 0
  /\ verdict = "unknown"
  /\ told = "nothing"
  /\ observed = <<>>

\* run(): the timer is started and a first poll sent at once.
StartPolling ==
  /\ polling = "off"
  /\ polling' = "on" /\ outstanding' = 1
  /\ UNCHANGED <<failures, verdict, told, observed>>

\* pollBackendHealth: nothing while a reply is outstanding.
PollBackendHealth ==
  /\ polling = "on" /\ outstanding = 0
  /\ outstanding' = 1
  /\ UNCHANGED <<polling, failures, verdict, told, observed>>

\* Defect: nobody stops counting.
CountFailureForEver == failures + 1

CountFailure == IF failures < FailuresCap THEN failures + 1 ELSE failures

\* Defect: a success does not end a series of failures.
StableObservationForgetful(reply) ==
  \/ reply = "ok" /\ UNCHANGED failures
  \/ reply = "failed" /\ CountFailure >= Needed /\ failures' = CountFailure

\* backendHealthObservationStable, with the count it leaves behind.
StableObservation(reply) ==
  \/ reply = "ok" /\ failures' = 0
  \/ reply = "failed" /\ CountFailure >= Needed /\ failures' = CountFailure

\* Defect: an observation that is not stable leaves no trace.
UnstableObservationForgotten(reply) ==
  reply = "failed" /\ CountFailure < Needed /\ failures' = 0

UnstableObservation(reply) ==
  reply = "failed" /\ CountFailure < Needed /\ failures' = CountFailure

\* Only a change of something known is announced.
Announce(now) ==
  told' = (IF verdict = "stopped" /\ now = "running" THEN "recovered"
           ELSE IF verdict = "running" /\ now = "stopped" THEN "stopped" ELSE told)

\* What the last Needed replies said.
Remember(reply) ==
  observed' = (IF Len(observed) < Needed THEN Append(observed, reply)
               ELSE Append(Tail(observed), reply))

\* Defect: only the first verdict is kept.
ConcludeOnce(now) ==
  Announce(now) /\ verdict' = (IF verdict = "unknown" THEN now ELSE verdict)

Conclude(now) == Announce(now) /\ verdict' = now

\* The slot of QNetworkReply::finished.  The reply is the outstanding one:
\* no other is sent before this slot clears healthReply_.
HealthReply(reply) ==
  /\ outstanding = 1
  /\ outstanding' = 0
  /\ Remember(reply)
  /\ \/ StableObservation(reply) /\ Conclude(IF reply = "ok" THEN "running" ELSE "stopped")
     \/ UnstableObservation(reply) /\ UNCHANGED <<verdict, told>>
  /\ UNCHANGED polling

ReplyFinishes ==
  /\ answer # "slow"
  /\ HealthReply(IF Healthy THEN "ok" ELSE "failed")

\* The time limit of two seconds: abort() calls the slot.
ReplyTimesOut == answer = "slow" /\ HealthReply("failed")

-----------------------------------------------------------------------------
AllFailed == Len(observed) = Needed /\ \A i \in 1..Needed : observed[i] = "failed"
LastOk    == observed # <<>> /\ observed[Len(observed)] = "ok"

\* The verdict the user relies on is what the last replies say: running as
\* soon as one reply says so, stopped as soon as Needed replies in a row have
\* failed, and otherwise what it was.  One slow reply changes nothing
\* (DshDesktopApp.h: one jitter must not be taken for a stop).
VerdictIsDebounced ==
  /\ LastOk => verdict = "running"
  /\ AllFailed => verdict = "stopped"

\* A stop is announced only after Needed failures in a row have been seen
\* that follow a time when the server was known to run, and a recovery only
\* when a reply has just come in.
NoFalseAlarm ==
  [][/\ told' = "stopped" /\ told # "stopped" => AllFailed' /\ verdict = "running"
     /\ told' = "recovered" /\ told # "recovered" => LastOk' /\ verdict = "stopped"]_healthVars
=============================================================================
