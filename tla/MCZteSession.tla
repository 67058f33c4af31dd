---------------------------- MODULE MCZteSession ----------------------------
(* ZteSession with interchangeable processes; only safety is checked. *)
EXTENDS ZteSession, TLC

Symmetry == Permutations(Procs)

=============================================================================
