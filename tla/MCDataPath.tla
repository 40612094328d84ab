----------------------------- MODULE MCDataPath -----------------------------
(* The data path on a small instance; the constants are given in the .cfg.   *)
EXTENDS DataPath
=============================================================================
