--------------------------- MODULE MCEmailService ---------------------------
(* Instance of EmailService for TLC: Resend first, MailerSend second. *)
EXTENDS EmailService, TLC

CONSTANTS resend, mailersend

MCRank == resend :> 1 @@ mailersend :> 2
=============================================================================
