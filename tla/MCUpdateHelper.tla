---------------------------- MODULE MCUpdateHelper ----------------------------
(* Instance of UpdateHelper for TLC. *)
EXTENDS UpdateHelper
=============================================================================
