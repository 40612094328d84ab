---------------------------- MODULE LoggerProofs ----------------------------
(***************************************************************************)
(* What getLogger gives its callers, for any number of threads and names.  *)
(***************************************************************************)
EXTENDS Logger, TLAPS

(* A look-up that finds the logger returns the one in the registry.         *)
LEMMA FoundKeeps ==
  ASSUME LoggerInv, NEW t \in Callers, NEW n \in Names, Found(t, n)
  PROVE  LoggerInv'
<1> USE DEF LoggerInv, Found, Return
<1>1. LoggerTypeOK' BY DEF LoggerTypeOK
<1>2. OneLogger' BY DEF OneLogger, LoggerTypeOK
<1>3. FailsOnce' BY DEF FailsOnce
<1>4. SomebodyWon' BY DEF SomebodyWon
<1>5. Contested' BY DEF Contested
<1> QED BY <1>1, <1>2, <1>3, <1>4, <1>5

(* A caller makes a logger only for a free name, for which nobody failed.   *)
LEMMA MakeKeeps ==
  ASSUME LoggerInv, NEW t \in Callers, NEW n \in Names, Make(t, n)
  PROVE  LoggerInv'
<1> USE DEF LoggerInv, Make
<1>1. LoggerTypeOK' BY DEF LoggerTypeOK
<1>2. OneLogger' BY DEF OneLogger
<1>3. SomebodyWon' BY DEF SomebodyWon
<1>4. FailsOnce'
  <2>1. <<t, n>> \notin failed
    <3>1. \A w \in Callers : <<w, n>> \in Loggers BY DEF Loggers
    <3> QED BY <3>1, NilAssumption DEF SomebodyWon
  <2> QED BY <2>1 DEF FailsOnce, LoggerTypeOK
<1>5. Contested'
  <2>1. <<t, n>> # Nil BY NilAssumption DEF Loggers
  <2> QED BY <2>1 DEF Contested, LoggerTypeOK
<1> QED BY <1>1, <1>2, <1>3, <1>4, <1>5

(* A registration that succeeds gives the name its only logger: nothing had *)
(* been returned for it.                                                    *)
LEMMA RegisterKeeps ==
  ASSUME LoggerInv, NEW t \in Callers, Register(t)
  PROVE  LoggerInv'
<1> USE DEF LoggerInv, Register, Return
<1>1. wanted[t] \in Names /\ <<t, wanted[t]>> \in Loggers
  BY DEF LoggerTypeOK, Loggers
<1>2. LoggerTypeOK' BY <1>1 DEF LoggerTypeOK
<1>3. OneLogger'
  <2>1. handed[wanted[t]] = {}
    BY <1>1, NilAssumption DEF OneLogger, LoggerTypeOK
  <2> QED BY <1>1, <2>1 DEF OneLogger, LoggerTypeOK
<1>4. FailsOnce' BY DEF FailsOnce, LoggerTypeOK
<1>5. SomebodyWon'
  <2> SUFFICES ASSUME NEW u \in Callers, NEW n \in Names, <<u, n>> \in failed
               PROVE  \E w \in Callers \ {u} : loggers'[n] = <<w, n>>
    BY DEF SomebodyWon
  <2>1. PICK w \in Callers \ {u} : loggers[n] = <<w, n>>
    BY DEF SomebodyWon
  <2>2. loggers[n] # Nil
    BY <2>1, NilAssumption DEF Loggers
  <2> QED BY <2>1, <2>2 DEF LoggerTypeOK
<1>6. Contested'
  <2>1. \A n \in Names : loggers'[n] # Nil => \E w \in Callers : loggers'[n] = <<w, n>>
    BY <1>1 DEF Contested, LoggerTypeOK
  <2>2. \A u \in Callers : pc'[u] = "made" => loggers'[wanted'[u]] # <<u, wanted'[u]>>
    BY <1>1 DEF Contested, LoggerTypeOK
  <2> QED BY <2>1, <2>2 DEF Contested
<1> QED BY <1>2, <1>3, <1>4, <1>5, <1>6

(* A registration that throws finds the name taken by another caller.       *)
LEMMA RegisterThrowsKeeps ==
  ASSUME LoggerInv, NEW t \in Callers, RegisterThrows(t)
  PROVE  LoggerInv'
<1> USE DEF LoggerInv, RegisterThrows
<1>1. wanted[t] \in Names /\ <<t, wanted[t]>> \in Loggers
  BY DEF LoggerTypeOK, Loggers
<1>2. LoggerTypeOK' BY <1>1 DEF LoggerTypeOK
<1>3. OneLogger' BY DEF OneLogger
<1>4. FailsOnce' BY DEF FailsOnce, LoggerTypeOK
<1>5. SomebodyWon'
  <2>1. \E w \in Callers \ {t} : loggers[wanted[t]] = <<w, wanted[t]>>
    BY <1>1 DEF Contested
  <2>2. \A u \in Callers, n \in Names :
          <<u, n>> \in failed' => <<u, n>> \in failed \/ (u = t /\ n = wanted[t])
    OBVIOUS
  <2> QED BY <2>1, <2>2 DEF SomebodyWon
<1>6. Contested' BY DEF Contested, LoggerTypeOK
<1> QED BY <1>2, <1>3, <1>4, <1>5, <1>6

(* The invariant holds for any number of threads and names.                 *)
THEOREM LoggerInductive == Spec => []LoggerInv
<1>1. Init => LoggerInv
  BY DEF Init, LoggerInv, LoggerTypeOK, OneLogger, FailsOnce, SomebodyWon, Contested
<1>2. LoggerInv /\ [Next]_vars => LoggerInv'
  <2> SUFFICES ASSUME LoggerInv, [Next]_vars PROVE LoggerInv'
    OBVIOUS
  <2>1. CASE UNCHANGED vars
    BY <2>1 DEF vars, LoggerInv, LoggerTypeOK, OneLogger, FailsOnce, SomebodyWon,
                Contested
  <2>2. CASE Next
    BY <2>2, FoundKeeps, MakeKeeps, RegisterKeeps, RegisterThrowsKeeps DEF Next
  <2> QED BY <2>1, <2>2
<1> QED BY <1>1, <1>2, PTL DEF Spec

(* Every caller that gets a logger for a name gets the same one.            *)
THEOREM SameLogger == Spec => []OneLogger
  BY LoggerInductive, PTL DEF LoggerInv

(* No caller's registration throws twice for the same name.                 *)
THEOREM RetrySucceeds == Spec => []FailsOnce
  BY LoggerInductive, PTL DEF LoggerInv

(* Whoever getLogger throws at has lost the name to a caller that got it:   *)
(* two threads never make each other fail.                                  *)
THEOREM LosersHaveWinner == Spec => []SomebodyWon
<1>1. LoggerInv => SomebodyWon BY DEF LoggerInv
<1> QED BY <1>1, LoggerInductive, PTL
=============================================================================
