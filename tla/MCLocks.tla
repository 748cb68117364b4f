------------------------------ MODULE MCLocks ------------------------------
(* The Redis locks, for TLC.                                               *)
EXTENDS RedisLocks, TLC

\* Clients are interchangeable.
ClientSymmetry == Permutations(Clients)

=============================================================================
