--------------------------- MODULE MCServiceFiles ---------------------------
(* Instance of ServiceFiles for TLC. *)
EXTENDS ServiceFiles
=============================================================================
