------------------------------- MODULE MCCustody -------------------------------
(* Small instances of Custody for TLC.                                       *)
EXTENDS Custody, TLC

\* Participants, mints and buckets are interchangeable.
Interchangeable == Permutations(Participants) \cup Permutations(Mints) \cup Permutations(Buckets)
=============================================================================
