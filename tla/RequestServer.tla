---------------------------- MODULE RequestServer -----------------------------
(***************************************************************************)
(* What DshServiceManager promises its callers, without processes, timers  *)
(* or phases: requests are served one at a time, in the order of their     *)
(* ids; a request that was accepted is answered exactly once; and every    *)
(* request but those of an unbounded operation is answered eventually.     *)
(***************************************************************************)
EXTENDS Naturals

CONSTANTS
  Ids,        \* request ids, an initial segment of the positive integers
  Ops,        \* operations
  Unbounded,  \* operations that run until they are cancelled
  Results     \* final answers

VARIABLES
  serving,    \* the request being served, 0 for none
  outcome     \* operation and answer of every request

Init ==
  /\ serving = 0
  /\ outcome = [i \in Ids |-> [op |-> "Status", result |-> "unused"]]

Accept(i, o) ==
  /\ serving = 0
  /\ outcome[i].result = "unused"
  /\ \A j \in Ids : j < i => outcome[j].result \in Results
  /\ serving' = i
  /\ outcome' = [outcome EXCEPT ![i] = [op |-> o, result |-> "running"]]

Finish(i, r) ==
  /\ serving = i
  /\ outcome[i].result = "running"
  /\ serving' = 0
  /\ outcome' = [outcome EXCEPT ![i] = [op |-> outcome[i].op, result |-> r]]

Next ==
  \E i \in Ids :
    \/ \E o \in Ops : Accept(i, o)
    \/ \E r \in Results : Finish(i, r)

FinishBounded ==
  /\ serving \in Ids /\ outcome[serving].op \notin Unbounded
  /\ \E r \in Results : Finish(serving, r)

Safety == Init /\ [][Next]_<<serving, outcome>>

Spec   == Safety /\ WF_<<serving, outcome>>(FinishBounded)
=============================================================================
