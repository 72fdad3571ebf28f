--------------------------- MODULE MCUserAccount ---------------------------
(* UserAccount for TLC: requests are interchangeable.                      *)
EXTENDS UserAccount, TLC

Symmetry == Permutations(Requests)
============================================================================
