------------------------------- MODULE MCRegistry -------------------------------
(* A small instance of Registry for TLC.                                       *)
EXTENDS Registry, TLC

\* Wallets other than the upgrade authority, and buckets, are interchangeable.
Interchangeable == Permutations(Wallets \ {UpgradeAuthority}) \cup Permutations(Buckets)
=============================================================================
