------------------------------ MODULE MCUpload ------------------------------
(* Instances of Upload for TLC. *)
EXTENDS Upload, TLC

Symmetry == Permutations(Session) \cup Permutations(FileId) \cup Permutations(Request)
=============================================================================
