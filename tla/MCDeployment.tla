---------------------------- MODULE MCDeployment ----------------------------
EXTENDS Deployment, TLC

MCGenesisTimes == {5}
MCGrowthLimits == {4}
Symmetry == Permutations(Users)
=============================================================================
