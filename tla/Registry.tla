------------------------------ MODULE Registry ------------------------------
(***************************************************************************)
(* What the daemon promises of the applications it monitors: their set     *)
(* changes by one application at a time and only while the daemon runs, a  *)
(* start brings back exactly what the file names, and the file is only     *)
(* written from the set.  Lists, counts, process ids, periods and the      *)
(* timer are not seen here; Watchdog implements this specification.        *)
(***************************************************************************)
CONSTANT Name

VARIABLES
    up,         \* the daemon runs
    monitored,  \* the applications it monitors
    saved       \* the applications its file names

registryVars == <<up, monitored, saved>>

\* The file after an attempt to save the applications of set: all of them, a
\* part of them when the write was cut, or what it was.
SaveAttempt(set) == saved' = saved \/ saved' \in SUBSET set

BringUp ==
    /\ ~ up
    /\ up' = TRUE
    /\ monitored' = saved
    /\ UNCHANGED saved

\* The daemon may die while it saves the list with one more application.
GoDown ==
    /\ up
    /\ up' = FALSE
    /\ monitored' = {}
    /\ SaveAttempt(monitored) \/ \E n \in Name : SaveAttempt(monitored \union {n})

Enter(n) ==
    /\ up
    /\ n \notin monitored
    /\ monitored' = monitored \union {n}
    /\ SaveAttempt(monitored')
    /\ UNCHANGED up

\* The file is left as it is.
Leave(n) ==
    /\ up
    /\ n \in monitored
    /\ monitored' = monitored \ {n}
    /\ UNCHANGED <<up, saved>>

SaveAgain == up /\ SaveAttempt(monitored) /\ UNCHANGED <<up, monitored>>

RegistryInit ==
    /\ up = FALSE
    /\ monitored = {}
    /\ saved = {}

RegistryNext ==
    \/ BringUp
    \/ GoDown
    \/ \E n \in Name : Enter(n) \/ Leave(n)
    \/ SaveAgain

RegistrySpec == RegistryInit /\ [][RegistryNext]_registryVars

=============================================================================
