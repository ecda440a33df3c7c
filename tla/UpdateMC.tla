------------------------------ MODULE UpdateMC ------------------------------
(* A small instance of UpdateDaemon for TLC.                               *)
EXTENDS UpdateDaemon

\* The list of the code.
MCUpdates == {<<"c", "c">>}

\* Every property excuses Loose, which lasts: what comes behind it is left out.
Orderly == ~ Loose

=============================================================================
