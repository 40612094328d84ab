-------------------------- MODULE TcpServerInvariant --------------------------
(***************************************************************************)
(* The inductive invariants behind TcpServer's safety properties.          *)
(*                                                                         *)
(* IInv says who may touch a connection at each stage of its life: first   *)
(* the backlog, then the accepting thread alone, then its own loop and,    *)
(* under mutex_, stop().  CloseInv says, on top of it, that a close is     *)
(* neither left half done nor made twice.                                  *)
(***************************************************************************)
EXTENDS TcpServer

(* A thread has a current connection exactly inside a connection's method.  *)
BusyLabels == AcceptLabels \cup CloseLabels \cup {"rd_read"}

CurOK == \A t \in Threads : (cur[t] # Nil) <=> (pc[t] \in BusyLabels)

(* mutex_ is held by stop() from its lock to its unlock, with handleClose   *)
(* inside, and by the accepting thread from the insert to onConnected.      *)
MutexOK ==
  /\ pc[Main] \in {"st_each"} \cup CloseLabels <=> mutex = Main
  /\ \A l \in Loops : pc[l] \in {"acc_add", "acc_setstate", "acc_connected"}
                        <=> mutex = l

(* A connection that a thread works on is in clients_, and its own loop's   *)
(* if a loop reads or closes it; so is one in a batch.                      *)
OwnerOK ==
  /\ pc[Main] \in CloseLabels => cur[Main] \in clients
  /\ \A l \in Loops :
       /\ pc[l] \in BusyLabels \ {"acc_lock"} => cur[l] \in clients
       /\ pc[l] \in CloseLabels \cup {"rd_read"} => loopOf[cur[l]] = l
       /\ active[l] \cap Conns \subseteq clients
       /\ \A c \in active[l] \cap Conns : loopOf[c] = l
       /\ cur[l] \notin active[l]

(* Until it is accepted a connection is known to the kernel only, and until *)
(* its EPOLL_CTL_ADD to the accepting thread only.                          *)
FreshOK ==
  /\ \A c \in Conns : peer[c] = "none" => c \notin backlog \cup clients
  /\ backlog \cap clients = {}
  /\ \A t \in Threads : cur[t] # Nil => /\ cur[t] \notin backlog
                                        /\ peer[cur[t]] # "none"
  /\ \A l \in Loops :
       pc[l] \in {"acc_lock", "acc_add"} =>
         /\ cur[l] \notin registered
         /\ pc[l] = "acc_lock" => cur[l] \notin clients
         /\ \A t \in Threads \ {l} : cur[t] # cur[l]
         /\ \A k \in Loops : cur[l] \notin active[k]

(* Once a loop has removed a connection, only stop() can be adding it back, *)
(* and then stop() holds mutex_.                                            *)
RemovedOK ==
  \A l \in Loops : pc[l] \in {"cl_notify", "cl_erase"} =>
    \/ cur[l] \notin registered
    \/ cur[Main] = cur[l] /\ pc[Main] \in {"cl_setstate", "cl_remove"}

(* start() has not started the loops it has not reached; stop() has joined  *)
(* the loops it has passed; a destroyed loop has no thread.                 *)
JoinOK ==
  /\ pc[Main] \in {"init", "listen", "listen_setstate"} =>
       it = 0 /\ \A l \in Loops : pc[l] = "none"
  /\ pc[Main] = "starting" => \A l \in Loops : l >= it => pc[l] = "none"
  /\ pc[Main] \in {"init", "listen", "listen_setstate", "starting", "serving"}
       => alive
  /\ pc[Main] = "waking" => it < NumLoops
  /\ pc[Main] = "joining" /\ alive =>
       \A l \in Loops : l < it => pc[l] \in {"none", "end"}
  /\ NoLoopOutlivesPool

(* enableRead() has asked for READ and nobody has asked for anything else   *)
(* before its EPOLL_CTL_ADD.                                                *)
AskOK == \A l \in Loops : pc[l] = "acc_add" => channelEvent[cur[l]] = READ

(* Before it is accepted onClose has not been called for a connection.      *)
(* Afterwards, until stop() is called, it is called once, and then nobody   *)
(* is left who could close the connection again: the kernel has forgotten   *)
(* it, it is in no batch and no thread is on its way to onClose.            *)
OnceOK ==
  /\ \A c \in Conns : peer[c] = "none" \/ c \in backlog => notified[c] = 0
  /\ ~StopRequested => \A c \in Conns :
       /\ notified[c] <= 1
       /\ notified[c] = 1 =>
            /\ c \notin registered
            /\ \A l \in Loops : c \notin active[l]
            /\ \A t \in Threads : cur[t] = c =>
                 pc[t] \in {"acc_setstate", "acc_connected", "cl_erase"}

(* onClose has been called for a connection that is about to be erased, and *)
(* not for one that is about to be inserted.                                *)
ToldOK ==
  /\ \A t \in Threads : pc[t] = "cl_erase" => notified[cur[t]] > 0
  /\ \A l \in Loops : pc[l] = "acc_lock" => notified[cur[l]] = 0

(* All of it: every handler, run by any thread at any moment, leaves each   *)
(* connection with the threads that may touch it at its stage of life.      *)
IInv ==
  /\ TypeOK
  /\ CurOK
  /\ MutexOK
  /\ OwnerOK
  /\ FreshOK
  /\ RemovedOK
  /\ JoinOK
  /\ RegisteredClient

(* What holds on top of it: no close is lost on the way and none is made    *)
(* twice, however the threads and their exceptions interleave.              *)
CloseInv ==
  /\ AskOK
  /\ OnceOK
  /\ ToldOK
  /\ NoDeafConnection
=============================================================================
