-------------------------- MODULE MCLauncherManager --------------------------
(* TLC instances of LauncherManager; the .cfg files give the bounds.       *)
EXTENDS LauncherManager
=============================================================================
