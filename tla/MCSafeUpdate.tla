---------------------------- MODULE MCSafeUpdate ----------------------------
(***************************************************************************)
(* SafeUpdate for TLC.                                                      *)
(***************************************************************************)
EXTENDS SafeUpdate

NoRetry == {0}
BothScripts == {"install", "deploy"}
OnlyInstall == {"install"}
=============================================================================
