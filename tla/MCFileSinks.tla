---------------------------- MODULE MCFileSinks ----------------------------
(* Two old files, messages that fill half a file, the whole file or more,   *)
(* and four days of two hours.                                              *)
EXTENDS FileSinks
=============================================================================
