---------------------------- MODULE MCSocketSetup ----------------------------
(* An instance of SocketSetup for TLC.                                      *)
EXTENDS SocketSetup

CONSTANT c1

OneClient == {c1}
\* Descriptor 0 is the process's input; three more can be opened.
FourNumbers == 0 .. 3
StandardInput == {0}
=============================================================================
