---- MODULE MCOCIMachine ----
(* Instances of OCIMachine for TLC. *)
EXTENDS OCIMachine, TLC

InstanceSymmetry == Permutations(Instance)
====
