---------------------------- MODULE MCWorkerLife ----------------------------
(* WorkerLife with two loops and two sockets.  The checks include liveness *)
(* and use no symmetry.                                                    *)
EXTENDS WorkerLife

CONSTANTS l1, l2, s1, s2

MCLoops == {l1, l2}
MCSockets == {s1, s2}
=============================================================================
