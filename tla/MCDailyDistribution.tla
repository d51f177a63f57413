------------------------ MODULE MCDailyDistribution ------------------------
EXTENDS DailyDistribution

MCGenesisTimes == {5}
MCGrowthLimits == {0, 4}
=============================================================================
