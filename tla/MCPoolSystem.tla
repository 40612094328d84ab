---------------------------- MODULE MCPoolSystem ----------------------------
(* The pool on a small instance; the constants are given in the .cfg file. *)
EXTENDS PoolSystem
=============================================================================
