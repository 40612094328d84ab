------------------------------- MODULE Logger -------------------------------
(***************************************************************************)
(* Logger::getLogger (logger.cpp) above spdlog's registry.                 *)
(*                                                                         *)
(* Every Channel, EventLoop, TcpConnection and TcpServer asks for its      *)
(* class's logger when it is constructed, on whatever thread that happens. *)
(* getLogger looks the name up, and if there is none makes a logger and    *)
(* registers it.  The registry locks each of these two calls, and nothing  *)
(* locks the two together; registering a name that is taken throws, and    *)
(* the constructor that asked fails.                                       *)
(***************************************************************************)
CONSTANTS
  Callers,   \* the threads
  Names,     \* the names of loggers
  Nil        \* no logger

(* A logger is known by the thread that made it and its name: no thread     *)
(* makes two of the same name, see FailsOnce.                               *)
Loggers == Callers \X Names

ASSUME NilAssumption == Nil \notin Loggers

VARIABLES
  pc,        \* where each caller is: "idle" or "made"
  wanted,    \* the name each caller asks for
  loggers,   \* registry::loggers_
  handed,    \* the loggers that getLogger has returned, by name
  failed     \* which callers have had an exception, for which names

vars == <<pc, wanted, loggers, handed, failed>>

(* Every variable has its type. *)
LoggerTypeOK ==
  /\ pc \in [Callers -> {"idle", "made"}]
  /\ wanted \in [Callers -> Names]
  /\ loggers \in [Names -> Loggers \cup {Nil}]
  /\ handed \in [Names -> SUBSET Loggers]
  /\ failed \in SUBSET Loggers

Init ==
  /\ pc = [t \in Callers |-> "idle"]
  /\ wanted \in [Callers -> Names]
  /\ loggers = [n \in Names |-> Nil]
  /\ handed = [n \in Names |-> {}]
  /\ failed = {}

Return(n, logger) == handed' = [handed EXCEPT ![n] = @ \cup {logger}]

-----------------------------------------------------------------------------
(* spdlog::get finds the logger, which is returned ... *)
Found(t, n) ==
  /\ pc[t] = "idle"
  /\ loggers[n] # Nil
  /\ Return(n, loggers[n])
  /\ UNCHANGED <<pc, wanted, loggers, failed>>

(* ... or does not, and a logger is made and configured. *)
MakeAnyway(t, n) ==
  /\ pc[t] = "idle"
  /\ wanted' = [wanted EXCEPT ![t] = n]
  /\ pc' = [pc EXCEPT ![t] = "made"]
  /\ UNCHANGED <<loggers, handed, failed>>

Make(t, n) ==
  /\ pc[t] = "idle"
  /\ loggers[n] = Nil
  /\ wanted' = [wanted EXCEPT ![t] = n]
  /\ pc' = [pc EXCEPT ![t] = "made"]
  /\ UNCHANGED <<loggers, handed, failed>>

(* spdlog::register_logger takes the name, and the new logger is returned.  *)
RegisterOver(t) ==
  LET n == wanted[t] IN
  /\ pc[t] = "made"
  /\ loggers' = [loggers EXCEPT ![n] = <<t, n>>]
  /\ Return(n, <<t, n>>)
  /\ pc' = [pc EXCEPT ![t] = "idle"]
  /\ UNCHANGED <<wanted, failed>>

Register(t) ==
  LET n == wanted[t] IN
  /\ pc[t] = "made"
  /\ loggers[n] = Nil
  /\ loggers' = [loggers EXCEPT ![n] = <<t, n>>]
  /\ Return(n, <<t, n>>)
  /\ pc' = [pc EXCEPT ![t] = "idle"]
  /\ UNCHANGED <<wanted, failed>>

(* The name has been taken since the look-up: spdlog_ex.                    *)
RegisterThrows(t) ==
  LET n == wanted[t] IN
  /\ pc[t] = "made"
  /\ loggers[n] # Nil
  /\ failed' = failed \cup {<<t, n>>}
  /\ pc' = [pc EXCEPT ![t] = "idle"]
  /\ UNCHANGED <<wanted, loggers, handed>>

Next == \E t \in Callers :
  \/ \E n \in Names : Found(t, n) \/ Make(t, n)
  \/ Register(t)
  \/ RegisterThrows(t)

Spec == Init /\ [][Next]_vars

-----------------------------------------------------------------------------
(* All callers get the same logger for a name, and it is the one in the     *)
(* registry, however their look-ups and registrations interleave.           *)
OneLogger == \A n \in Names : handed[n] \subseteq {loggers[n]}

(* A caller whose registration threw finds the logger when it asks again:   *)
(* no thread loses the race for a name twice, and so makes two of it.       *)
FailsOnce == \A t \in Callers : pc[t] = "made" => <<t, wanted[t]>> \notin failed

(* A caller fails only against another one that succeeded.                  *)
SomebodyWon ==
  \A t \in Callers, n \in Names : <<t, n>> \in failed =>
    \E w \in Callers \ {t} : loggers[n] = <<w, n>>

(* A registered logger has its own name, and a caller that is about to      *)
(* register a name has not registered it before.                            *)
Contested ==
  /\ \A n \in Names : loggers[n] # Nil => \E w \in Callers : loggers[n] = <<w, n>>
  /\ \A t \in Callers : pc[t] = "made" => loggers[wanted[t]] # <<t, wanted[t]>>

LoggerInv == LoggerTypeOK /\ OneLogger /\ FailsOnce /\ SomebodyWon /\ Contested
=============================================================================
