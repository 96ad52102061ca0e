--------------------------- MODULE MCServiceManager ---------------------------
(* Instance of ServiceManager for TLC. *)
EXTENDS ServiceManager
=============================================================================
