----------------------------- MODULE MCTcpServer -----------------------------
(* The server on small instances; the constants are given in the .cfg files. *)
EXTENDS TcpServerInvariant, TLC

(* Connections are interchangeable. *)
ConnSymmetry == Permutations(Conns)
=============================================================================
