------------------------------ MODULE MCMigrate ------------------------------
(***************************************************************************)
(* Values for the constants of Migrate: two ids, two documents that no     *)
(* definition tells apart but by equality, and sources of up to three      *)
(* records, in which a document is replaced or deleted.                    *)
(***************************************************************************)
EXTENDS Migrate, TLC

MCIds == 1..2
Symmetry == Permutations(Vals)
==============================================================================
