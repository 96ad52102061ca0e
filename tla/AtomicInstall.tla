---------------------------- MODULE AtomicInstall -----------------------------
(***************************************************************************)
(* What the self-update helper promises, without files: the installed      *)
(* program is replaced in one step, and a helper that ends says truthfully *)
(* whether its program is the installed one.  A helper may also be killed  *)
(* and say nothing.                                                        *)
(***************************************************************************)
CONSTANTS
  Helpers,   \* runs of the helper; each installs a program of its own
  Old        \* the program installed at first

VARIABLES
  installed, \* the program that a restored directory holds
  verdict    \* what each helper said when it ended

Init ==
  /\ installed = Old
  /\ verdict = [h \in Helpers |-> "none"]

Install(h) ==
  /\ verdict[h] = "none"
  /\ installed' = h
  /\ UNCHANGED verdict

Report(h) ==
  /\ verdict[h] = "none"
  /\ verdict' = [verdict EXCEPT ![h] = IF installed = h THEN "replaced" ELSE "failed"]
  /\ UNCHANGED installed

Next == \E h \in Helpers : Install(h) \/ Report(h)

Spec == Init /\ [][Next]_<<installed, verdict>>
=============================================================================
