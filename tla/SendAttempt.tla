---------------------------- MODULE SendAttempt ----------------------------
(***************************************************************************)
(* What one call of the e-mail service promises its caller, without logs,  *)
(* breakers or providers: it may send the mail, it resolves only if it     *)
(* did, and it may reject either way.  EmailDelivery implements this;      *)
(* EmailQueue builds its attempts from it.                                 *)
(***************************************************************************)
CONSTANT Call

VARIABLE stage

Init == stage = [c \in Call |-> "start"]

Advance(c, from, to) ==
    /\ stage[c] = from
    /\ stage' = [stage EXCEPT ![c] = to]

Send(c)    == Advance(c, "start", "sent")
Resolve(c) == Advance(c, "sent", "ok")
Reject(c)  == Advance(c, "start", "error") \/ Advance(c, "sent", "error")

Next == \E c \in Call : Send(c) \/ Resolve(c) \/ Reject(c)

Spec == Init /\ [][Next]_stage
=============================================================================
