--------------------------- MODULE MCAppLifecycle ---------------------------
(* Instance of AppLifecycle for TLC. *)
EXTENDS AppLifecycle
=============================================================================
