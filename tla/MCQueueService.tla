--------------------------- MODULE MCQueueService ---------------------------
(* Instance of QueueService for TLC: one worker with two slots. *)
EXTENDS QueueService, TLC

CONSTANTS j1, j2, w1, a, b

MCSlot == {a, b}
MCWorkerOf == [s \in MCSlot |-> w1]
MCSymmetry == Permutations(Job) \cup Permutations(MCSlot)
=============================================================================
