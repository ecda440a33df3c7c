----------------------------- MODULE WatchdogMC -----------------------------
(* Small instances of Watchdog for TLC.                                    *)
EXTENDS Watchdog

CONSTANTS a, b, p1, p2, p3, c

\* Application a is seen under two process ids (before and after a restart).
MCClient == {<<a, p1>>, <<a, p2>>, <<b, p3>>}

\* The commands are read back as they were written.
MCReloaded == [x \in Cmd |-> x]

=============================================================================
