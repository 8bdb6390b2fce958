--------------------------- MODULE MCAppLifecycle ---------------------------
(***************************************************************************)
(* Instances of AppLifecycle for TLC.                                      *)
(***************************************************************************)
EXTENDS AppLifecycle, TLC

CONSTANTS main, signal

\* A Launch that fails its first beat is called again; two Closes race.
CallBounds == "launch" :> 2 @@ "close" :> 2 @@ "resume" :> 1
=============================================================================
