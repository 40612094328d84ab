----------------------------- MODULE MCFileDesc -----------------------------
(* Handles on a small descriptor table. *)
EXTENDS FileDesc, TLC

(* Handles are interchangeable; descriptors are not: the kernel gives out    *)
(* the lowest.                                                               *)
HandleSymmetry == Permutations(Handles)
=============================================================================
