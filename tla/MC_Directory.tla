---------------------------- MODULE MC_Directory ----------------------------
EXTENDS Directory, TLC

Symmetry == Permutations(Users) \cup Permutations(Addrs)
=============================================================================
