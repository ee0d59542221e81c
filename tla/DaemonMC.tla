------------------------------ MODULE DaemonMC ------------------------------
(* Instances of Daemon for TLC.                                             *)
EXTENDS Daemon

-----------------------------------------------------------------------------
(* What the documentation and the comments say and the code does not do.    *)

\* docs/SECURITY_ASSESSMENT.md: it takes the administrator to restart the service
\* (and so to clear the lockout).  With no crash, the process ends only when told.
EndsOnlyWhenTold == [][pc' = "down" /\ pc \in Up => told # "no"]_vars
=============================================================================
