-------------------------- MODULE AccountLifecycle --------------------------
(***************************************************************************)
(* What sign-up promises about one mailbox, without requests, Redis or     *)
(* queues: an account appears once, its owner is invited by mail, and only *)
(* an invited account is ever verified.  AuthFlow implements this.         *)
(***************************************************************************)
CONSTANT Mailbox

VARIABLE account

Stage == {"absent", "unverified", "invited", "verified"}

Init == account = [m \in Mailbox |-> "absent"]

Advance(m, from, to) ==
    /\ account[m] = from
    /\ account' = [account EXCEPT ![m] = to]

SignUp(m) == Advance(m, "absent", "unverified")
Invite(m) == Advance(m, "unverified", "invited")
Verify(m) == Advance(m, "invited", "verified")

Next == \E m \in Mailbox : SignUp(m) \/ Invite(m) \/ Verify(m)

Spec == Init /\ [][Next]_account
=============================================================================
