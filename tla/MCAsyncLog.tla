----------------------------- MODULE MCAsyncLog -----------------------------
(* A thread logs through a blocking and an overrunning logger to a pool of  *)
(* two workers and two sinks, one of which takes every level.               *)
EXTENDS AsyncLog

MCSinkLevels == <<0, 1>>
=============================================================================
