------------------------------ MODULE MCBudget ------------------------------
(* An instance of the spend meter for TLC: two agent runs, a ceiling of two     *)
(* tokens, and every usage up to the most a call takes, a negative one too.     *)
EXTENDS Budget

CONSTANTS c1, c2

SmallUsages == {-1, 1, 2}
=============================================================================
