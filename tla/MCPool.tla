------------------------------- MODULE MCPool -------------------------------
(* The channel pool for TLC.                                               *)
EXTENDS ChannelPool, TLC
CONSTANTS p1, p2
\* The publishers are interchangeable.
Symmetry == Permutations(Publishers)
=============================================================================
