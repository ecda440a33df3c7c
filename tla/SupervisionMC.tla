---------------------------- MODULE SupervisionMC ---------------------------
(* Small instances of Supervision for TLC.                                 *)
EXTENDS Supervision

CONSTANTS Seconds  \* the feed period of every application

MCClient == Name \X Pid
MCFeedPeriod == [n \in Name |-> Seconds]
MCCommandOf == [n \in Name |-> n]
MCReloaded == [c \in Cmd |-> c]

=============================================================================
