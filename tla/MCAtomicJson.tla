---------------------------- MODULE MCAtomicJson ----------------------------
(* Bounds and symmetry for checking AtomicJson with TLC. *)
EXTENDS AtomicJson, TLC

ValueSymmetry == Permutations(Value)
=============================================================================
