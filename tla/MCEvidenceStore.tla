-------------------------- MODULE MCEvidenceStore --------------------------
(***************************************************************************)
(* A small instance of EvidenceStore for TLC.                              *)
(***************************************************************************)
EXTENDS EvidenceStore, TLC

Interchangeable == Permutations(Drivers)
=============================================================================
