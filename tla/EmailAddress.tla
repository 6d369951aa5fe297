---------------------------- MODULE EmailAddress ----------------------------
(***************************************************************************)
(* normalizeEmail, which decides what a duplicate account is.  An address  *)
(* is the letters of its local part, whether dots separate them, whether   *)
(* some letter is a capital, and its domain.                               *)
(***************************************************************************)

DotIgnoringDomains == {"gmail.com", "googlemail.com"}

\* Lower case everywhere; no dots in the local part at the two domains.
NormalizeEmail(a) ==
    [a EXCEPT !.capitals = FALSE,
              !.dots = @ /\ a.domain \notin DotIgnoringDomains]
=============================================================================
