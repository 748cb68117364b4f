------------------------------ MODULE MCLeases ------------------------------
(* PgLeases for TLC: keyed locks and leases, two holders, two keys, a TTL of   *)
(* two ticks and clocks behind by none or one of them.                         *)
EXTENDS PgLeases, TLC

\* Holders are interchangeable, and so are keys.
Symmetric == Permutations(Holders) \cup Permutations(Keys)
=============================================================================
