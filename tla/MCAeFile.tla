------------------------------ MODULE MCAeFile ------------------------------
(* AeFile with two fds and two procs, so that one handler can change the *)
(* events of another fd, and an fd's two procs can be the same or differ.  *)
EXTENDS AeFile, TLC

CONSTANTS p1, p2

MCProcs == {p1, p2}
=============================================================================
