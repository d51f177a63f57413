------------------------------ MODULE MCMining ------------------------------
EXTENDS Mining, TLC

MCGenesisTimes == {4, 5}

Symmetry == Permutations(Users)
=============================================================================
