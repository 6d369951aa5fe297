----------------------------- MODULE MailQueue -----------------------------
(***************************************************************************)
(* What sign-up may rely on of the e-mail queue, without workers, attempts *)
(* or locks: only an accepted job is ever mailed, an accepted job stays    *)
(* accepted, and a job that is reported complete was mailed.  How often it *)
(* is mailed, and whether at all, is not promised.                         *)
(***************************************************************************)
CONSTANT Job

VARIABLES accepted, mailed, completed

vars == <<accepted, mailed, completed>>

Init == accepted = {} /\ mailed = {} /\ completed = {}

Accept(j) ==
    /\ accepted' = accepted \cup {j}
    /\ UNCHANGED <<mailed, completed>>
Deliver(j) ==
    /\ j \in accepted
    /\ mailed' = mailed \cup {j}
    /\ UNCHANGED <<accepted, completed>>
Complete(j) ==
    /\ j \in mailed
    /\ completed' = completed \cup {j}
    /\ UNCHANGED <<accepted, mailed>>

Next == \E j \in Job : Accept(j) \/ Deliver(j) \/ Complete(j)

Spec == Init /\ [][Next]_vars
=============================================================================
