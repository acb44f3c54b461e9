-------------------------- MODULE MCRecordingStore --------------------------
(***************************************************************************)
(* Small instances of RecordingStore for TLC; the .cfg files give the      *)
(* constants their values.                                                 *)
(***************************************************************************)
EXTENDS RecordingStore, TLC

\* Clients choose track ids freely and the store only compares contents.
MCSymmetry == Permutations(TrackIds) \cup Permutations(Contents)
=============================================================================
