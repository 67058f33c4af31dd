----------------------------- MODULE MCBandLock -----------------------------
(***************************************************************************)
(* BandLock with symmetry: bands and processes are interchangeable, and no *)
(* definition chooses among them.                                          *)
(***************************************************************************)
EXTENDS BandLock, TLC

Symmetry == Permutations(Bands) \cup Permutations(Procs)

=============================================================================
