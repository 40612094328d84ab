----------------------------- MODULE MCTcpClient -----------------------------
(* The client on small instances; the constants are given in the .cfg files. *)
EXTENDS TcpClient, TLC

(* Channels are interchangeable. *)
ChannelSymmetry == Permutations(Channels)
=============================================================================
