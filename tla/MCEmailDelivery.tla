-------------------------- MODULE MCEmailDelivery --------------------------
(* Instances of EmailDelivery for TLC: Resend first, MailerSend second. *)
EXTENDS EmailDelivery, TLC

CONSTANTS resend, mailersend

MCRank == resend :> 1 @@ mailersend :> 2
MCSymmetry == Permutations(Call)
=============================================================================
