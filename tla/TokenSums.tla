-------------------------------- MODULE TokenSums --------------------------------
(***************************************************************************)
(* Sums over finite functions.  Tokens are counted one by one, so that the *)
(* facts about sums are facts about cardinalities of sets.                 *)
(***************************************************************************)
EXTENDS Integers, FiniteSets

\* Token i of x exists iff 1 <= i <= f[x].
Tokens(f) == UNION {{x} \X (1 .. f[x]) : x \in DOMAIN f}

Total(f) == Cardinality(Tokens(f))
=============================================================================
