----------------------------- MODULE MCHomeFeed -----------------------------
(* Small instances of HomeFeed: two posts of the network group, two other  *)
(* ones, and rankings that share some of them.                             *)
EXTENDS HomeFeed, TLC

CONSTANTS r1, r2, n1, n2, t1, t2

MCPosts == {n1, n2, t1, t2}
MCNetwork == {n1, n2}
MCSteadyRankings == {<<n1, t1, n2>>, <<t2, n1, t1>>}
MCTwoRankings == {<<n1, t1>>, <<t2, n1>>}
RequestSymmetry == Permutations(Requests)
=============================================================================
