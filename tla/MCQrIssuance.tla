---------------------------- MODULE MCQrIssuance -----------------------------
(* Small instances of QrIssuance for TLC. *)
EXTENDS QrIssuance, TLC

QrSymmetry == Permutations(Task)
=============================================================================
