------------------------------ MODULE MCLogger ------------------------------
(* Three threads that construct objects of two classes. *)
EXTENDS Logger, TLC

(* Threads are interchangeable, and so are names. *)
LoggerSymmetry == Permutations(Callers) \cup Permutations(Names)
=============================================================================
