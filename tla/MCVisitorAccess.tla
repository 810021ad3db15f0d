-------------------------- MODULE MCVisitorAccess ---------------------------
(* Small instances of VisitorAccess for TLC. *)
EXTENDS VisitorAccess, TLC

VisitorSymmetry == Permutations(Task) \cup Permutations(VisitId)
=============================================================================
