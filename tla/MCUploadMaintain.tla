-------------------------- MODULE MCUploadMaintain --------------------------
(* Instances of UploadMaintain for TLC. *)
EXTENDS UploadMaintain, TLC

\* For the sweep: the uploads that are never without an update for a day.
NeverStale == stale = {}

Symmetry == Permutations(Session) \cup Permutations(FileId) \cup Permutations(Request)
=============================================================================
