----------------------------- MODULE MCSessions -----------------------------
(* One account for TLC, its calls and tokens interchangeable.               *)
EXTENDS Sessions, TLC

Symmetry == Permutations(Call) \cup Permutations(Token) \cup Permutations(Family)
=============================================================================
