--------------------------- MODULE RegistrationMC ---------------------------
(* A small instance of Registration for TLC.                               *)
EXTENDS Registration

CONSTANT MaxCmd  \* characters of a command

Alphabet == {"c", " ", ";", "=", "\n", "#"}

MCChar == Alphabet \union {"a", "k"}

MCAppName == {<<"a">>, <<" ", "a">>, <<"a", "=">>, <<"a", " ", "a">>}
MCCmdLine == BoundedSeq(Alphabet, MaxCmd)
MCKey == <<"k">>

=============================================================================
