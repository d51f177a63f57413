---------------------------- MODULE MCComptoken ----------------------------
EXTENDS Comptoken, TLC

MCGenesisTimes == {5}
MCGrowthLimits == {4}
Symmetry == Permutations(Users)
=============================================================================
