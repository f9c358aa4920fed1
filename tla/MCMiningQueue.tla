--------------------------- MODULE MCMiningQueue ---------------------------
EXTENDS MiningQueue
=============================================================================
