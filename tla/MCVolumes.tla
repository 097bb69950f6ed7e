------------------------------- MODULE MCVolumes -------------------------------
(* The volumes of one instance.  Runners, and volumes that all have a TTL, *)
(* are interchangeable; only safety is checked under the symmetry.         *)
EXTENDS Volumes, TLC

Symmetry == Permutations(Volumes) \cup Permutations(Runners)
================================================================================
