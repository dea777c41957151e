--------------------------- MODULE MCCollateralWindow ---------------------------
(* A small instance of CollateralWindow for TLC.                               *)
EXTENDS CollateralWindow, TLC

Interchangeable == Permutations(Participants)
=============================================================================
