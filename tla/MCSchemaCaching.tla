---------------------------- MODULE MCSchemaCaching ----------------------------
(* Validators, callers and schemas for the instances of SchemaCaching. *)
EXTENDS SchemaCaching, TLC

CONSTANTS v1, v2, c1, c2, legacy, defaults

MCCallerSymmetry == Permutations({c1, c2})

MCOptions == [v \in Validators |-> defaults]
================================================================================
