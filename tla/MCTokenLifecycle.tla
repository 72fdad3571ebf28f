-------------------------- MODULE MCTokenLifecycle --------------------------
EXTENDS TokenLifecycle, TLC

Symmetry == Permutations(Devices) \cup Permutations(Requests)

=============================================================================
