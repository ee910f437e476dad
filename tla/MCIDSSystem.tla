---------------------------- MODULE MCIDSSystem -----------------------------
(* IDSSystem on small instances.                                           *)
EXTENDS IDSSystemInvariant, TLC

InstanceSymmetry == Permutations(Instances)
=============================================================================
