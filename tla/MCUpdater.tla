------------------------------ MODULE MCUpdater ------------------------------
(* Updater with three versions; their names are interchangeable.           *)
EXTENDS Updater, TLC

VersionSymmetry == Permutations(Versions)
=============================================================================
