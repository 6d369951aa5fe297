----------------------------- MODULE MCAuthFlow -----------------------------
(* Instances of AuthFlow for TLC: two spellings of one mailbox, and an address
   that differs from the first by its domain only. *)
EXTENDS AuthFlow, EmailAddress, TLC

Typed(capitals, dots, domain) ==
    [local |-> "johndoe", capitals |-> capitals, dots |-> dots, domain |-> domain]

MCAddress == {Typed(TRUE, TRUE, "gmail.com"), Typed(FALSE, FALSE, "gmail.com"),
              Typed(TRUE, TRUE, "example.com")}
MCNormalize == [a \in MCAddress |-> NormalizeEmail(a)]
MCMailbox == {MCNormalize[a] : a \in MCAddress}
\* Requests of one kind are interchangeable; used where nothing temporal is
\* checked but properties of single steps.
MCSymmetry == Permutations(Reg) \cup Permutations(Ver)
=============================================================================
