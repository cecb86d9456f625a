---------------------------- MODULE MCShardFiles ----------------------------
EXTENDS ShardFiles, TLC

CONSTANTS u1, u2

SymmetricPuts == Permutations({u1, u2})
=============================================================================
