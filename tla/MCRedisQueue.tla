---------------------------- MODULE MCRedisQueue ----------------------------
(* TLC instances of RedisQueue: what differs between the runs is which of  *)
(* resizing, faults and closing happen, set in the configurations.         *)
EXTENDS RedisQueue, TLC

Symmetry == Permutations(Msg) \cup Permutations(Pushers)
=============================================================================
