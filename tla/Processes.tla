------------------------------ MODULE Processes -----------------------------
(* What the daemon and the applications it monitors have in common: the    *)
(* process ids that the datagrams carry and the list of nodes holds.       *)
CONSTANT Pid
=============================================================================
