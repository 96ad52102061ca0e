----------------------------- MODULE MCWebFront ------------------------------
(* Instance of WebFront for TLC. *)
EXTENDS WebFront

Silent == [s \in Sources |-> "none"]

\* A desktop that says nothing; one whose portal says dark; KDE's light colour
\* scheme beside that portal.
MCDesktops ==
  {Silent,
   [Silent EXCEPT !["portal"] = "dark"],
   [Silent EXCEPT !["portal"] = "dark", !["colours"] = "light"]}
=============================================================================
