---------------------------- MODULE MCEmailQueue ----------------------------
(* Instance of EmailQueue for TLC: a worker with two slots and one with one. *)
EXTENDS EmailQueue, TLC

CONSTANTS j1, j2, w1, w2, a, b, c

MCSlot == {a, b, c}
MCWorkerOf == [s \in MCSlot |-> IF s = c THEN w2 ELSE w1]
=============================================================================
