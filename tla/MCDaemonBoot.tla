---------------------------- MODULE MCDaemonBoot ----------------------------
(***************************************************************************)
(* Small instances of DaemonBoot for TLC.                                  *)
(***************************************************************************)
EXTENDS DaemonBoot
=============================================================================
