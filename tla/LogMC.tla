-------------------------------- MODULE LogMC -------------------------------
(* A small instance of LogModule for TLC.                                  *)
EXTENDS LogModule

=============================================================================
