---------------------------- MODULE MCMigrations ----------------------------
(* Instances of Migrations for TLC: three files. *)
EXTENDS Migrations, TLC

CONSTANTS m1, m2, m3

MCRank == m1 :> 1 @@ m2 :> 2 @@ m3 :> 3
MCSymmetry == Permutations(Runner)
=============================================================================
