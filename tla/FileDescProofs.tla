--------------------------- MODULE FileDescProofs ---------------------------
(***************************************************************************)
(* Ownership of descriptors is unique and complete, for any number of      *)
(* handles and any descriptor limit.                                       *)
(***************************************************************************)
EXTENDS FileDesc, TLAPS

(* The invalid value and the mark for "no assignment" are not descriptors.  *)
LEMMA Marks == Invalid \notin Fds /\ None \notin Fds /\ Invalid # None
  BY FdAssumption DEF Invalid, None, Fds

(* The constructor from a system call, socket() or accept4(), gives the new *)
(* handle a descriptor nobody owns.                                         *)
LEMMA OpenFdKeeps ==
  ASSUME FdInv, NEW h \in Handles, OpenFd(h)
  PROVE  FdInv'
<1> USE DEF FdInv, OpenFd
<1>1. FdTypeOK'
  BY DEF FdTypeOK
<1>2. \A g \in Handles : Owned(g)' = IF g = h THEN value'[h] ELSE Owned(g)
  BY DEF FdTypeOK, Owned
<1>3. CASE value'[h] = Invalid /\ open' = open
  <2>1. OwnedIsOpen' BY <1>2, <1>3, Marks DEF OwnedIsOpen, FdTypeOK
  <2>2. OneOwner' BY <1>2, <1>3, Marks DEF OneOwner, FdTypeOK
  <2>3. NoLeak' BY <1>2, <1>3, Marks DEF NoLeak, FdTypeOK
  <2> QED BY <1>1, <2>1, <2>2, <2>3
<1>4. CASE \E fd \in Fds \ open : value' = [value EXCEPT ![h] = fd]
                                    /\ open' = open \cup {fd}
  <2>1. PICK fd \in Fds \ open : value' = [value EXCEPT ![h] = fd]
                                   /\ open' = open \cup {fd}
    BY <1>4
  <2>2. value'[h] = fd BY <2>1 DEF FdTypeOK
  <2>3. OwnedIsOpen' BY <1>2, <2>1, <2>2, Marks DEF OwnedIsOpen, FdTypeOK
  <2>4. OneOwner'
    BY <1>2, <2>1, <2>2, Marks DEF OneOwner, OwnedIsOpen, FdTypeOK
  <2>5. NoLeak' BY <1>2, <2>1, <2>2, Marks DEF NoLeak, FdTypeOK
  <2> QED BY <1>1, <2>3, <2>4, <2>5
<1> QED BY <1>3, <1>4 DEF FdTypeOK

(* FileDesc(fd) turns a bare integer into a handle.                         *)
LEMMA AdoptKeeps ==
  ASSUME FdInv, NEW h \in Handles, NEW fd \in raw, Adopt(h, fd)
  PROVE  FdInv'
<1> USE DEF FdInv, Adopt
<1>1. FdTypeOK' BY DEF FdTypeOK
<1>2. \A g \in Handles : Owned(g)' = IF g = h THEN fd ELSE Owned(g)
  BY DEF FdTypeOK, Owned
<1>3. OwnedIsOpen' BY <1>2 DEF OwnedIsOpen, FdTypeOK
<1>4. OneOwner' BY <1>2 DEF OneOwner, FdTypeOK
<1>5. NoLeak' BY <1>2 DEF NoLeak, FdTypeOK
<1> QED BY <1>1, <1>3, <1>4, <1>5

(* release() turns a handle's descriptor into a bare integer.               *)
LEMMA ReleaseKeeps ==
  ASSUME FdInv, NEW h \in Handles, Release(h)
  PROVE  FdInv'
<1> USE DEF FdInv, Release, Idle
<1>1. FdTypeOK' BY DEF FdTypeOK
<1>2. /\ Owned(h) = value[h]
      /\ \A g \in Handles : Owned(g)' = IF g = h THEN Invalid ELSE Owned(g)
  BY DEF FdTypeOK, Owned
<1>3. OwnedIsOpen' BY <1>2 DEF OwnedIsOpen, FdTypeOK
<1>4. OneOwner' BY <1>2, Marks DEF OneOwner, FdTypeOK
<1>5. NoLeak' BY <1>2 DEF NoLeak, FdTypeOK
<1> QED BY <1>1, <1>3, <1>4, <1>5

(* The move constructor passes ownership on.                                *)
LEMMA MoveConstructKeeps ==
  ASSUME FdInv, NEW h \in Handles, NEW other \in Handles, MoveConstruct(h, other)
  PROVE  FdInv'
<1> USE DEF FdInv, MoveConstruct, Idle
<1>1. FdTypeOK' BY DEF FdTypeOK
<1>2. /\ h # other
      /\ Owned(other) = value[other]
      /\ \A g \in Handles : Owned(g)' = IF g = h THEN value[other]
                                        ELSE IF g = other THEN Invalid
                                        ELSE Owned(g)
  BY DEF FdTypeOK, Owned
<1>3. OwnedIsOpen' BY <1>2 DEF OwnedIsOpen, FdTypeOK
<1>4. OneOwner' BY <1>2, Marks DEF OneOwner, FdTypeOK
<1>5. NoLeak' BY <1>2, Marks DEF NoLeak, FdTypeOK
<1> QED BY <1>1, <1>3, <1>4, <1>5

(* Move assignment closes what the handle owned, which is nothing when a    *)
(* handle is moved into itself, and takes over what the other one owned.    *)
LEMMA MoveAssignKeeps ==
  ASSUME FdInv, NEW h \in Handles, NEW other \in Handles, MoveAssign(h, other)
  PROVE  FdInv'
<1> USE DEF FdInv, MoveAssign, Idle, CloseFd
<1> DEFINE closed == IF h = other THEN Invalid ELSE value[h]
<1>1. FdTypeOK' BY DEF FdTypeOK
<1>2. /\ Owned(other) = value[other]
      /\ Owned(h) = value[h]
      /\ open' = open \ {closed}
      /\ \A g \in Handles : Owned(g)' = IF g = h THEN value[other]
                                        ELSE IF g = other THEN Invalid
                                        ELSE Owned(g)
  BY Marks DEF FdTypeOK, Owned
<1>3. \A g \in live : g # h /\ Owned(g) # Invalid => Owned(g) # closed
  BY <1>2 DEF OneOwner
<1>4. OwnedIsOpen'
  <2>1. \A g \in live : Owned(g)' # Invalid => Owned(g)' \in open'
    BY <1>2, <1>3 DEF OwnedIsOpen, FdTypeOK
  <2>2. raw \subseteq open'
    BY <1>2, Marks DEF OwnedIsOpen, OneOwner, FdTypeOK
  <2> QED BY <2>1, <2>2 DEF OwnedIsOpen
<1>5. OneOwner' BY <1>2, Marks DEF OneOwner, FdTypeOK
<1>6. NoLeak'
  <2> SUFFICES ASSUME NEW fd \in open', fd \notin raw
               PROVE  \E g \in live : Owned(g)' = fd
    BY DEF NoLeak
  <2>1. PICK g \in live : Owned(g) = fd BY <1>2 DEF NoLeak
  <2>2. fd # Invalid /\ fd # closed BY <1>2, Marks DEF FdTypeOK
  <2>3. CASE g = other BY <1>2, <2>1, <2>3
  <2>4. CASE g # other BY <1>2, <2>1, <2>2, <2>4 DEF FdTypeOK
  <2> QED BY <2>3, <2>4
<1> QED BY <1>1, <1>4, <1>5, <1>6

(* reset() closes what the handle owned.                                    *)
LEMMA ResetKeeps ==
  ASSUME FdInv, NEW h \in Handles, Reset(h)
  PROVE  FdInv'
<1> USE DEF FdInv, Reset, Idle, CloseFd
<1>1. FdTypeOK' BY DEF FdTypeOK
<1>2. /\ Owned(h) = value[h]
      /\ \A g \in Handles : Owned(g)' = IF g = h THEN Invalid ELSE Owned(g)
  BY Marks DEF FdTypeOK, Owned
<1>3. OwnedIsOpen' BY <1>2 DEF OwnedIsOpen, OneOwner, FdTypeOK
<1>4. OneOwner' BY <1>2, Marks DEF OneOwner, FdTypeOK
<1>5. NoLeak' BY <1>2 DEF NoLeak, FdTypeOK
<1> QED BY <1>1, <1>3, <1>4, <1>5

(* Writing value_ changes nothing about ownership.                          *)
LEMMA AssignKeeps ==
  ASSUME FdInv, NEW h \in Handles, Assign(h)
  PROVE  FdInv'
<1> USE DEF FdInv, Assign
<1>1. FdTypeOK' BY DEF FdTypeOK
<1>2. \A g \in Handles : Owned(g)' = Owned(g) BY DEF FdTypeOK, Owned
<1>3. OwnedIsOpen' BY <1>2 DEF OwnedIsOpen, FdTypeOK
<1>4. OneOwner' BY <1>2 DEF OneOwner, FdTypeOK
<1>5. NoLeak' BY <1>2 DEF NoLeak, FdTypeOK
<1> QED BY <1>1, <1>3, <1>4, <1>5

(* The destructor closes what the handle owned.                             *)
LEMMA DestroyKeeps ==
  ASSUME FdInv, NEW h \in Handles, Destroy(h)
  PROVE  FdInv'
<1> USE DEF FdInv, Destroy, Idle, CloseFd
<1>1. FdTypeOK' BY DEF FdTypeOK
<1>2. Owned(h) = value[h] /\ \A g \in Handles : Owned(g)' = Owned(g)
  BY DEF Owned
<1>3. OwnedIsOpen' BY <1>2 DEF OwnedIsOpen, OneOwner, FdTypeOK
<1>4. OneOwner' BY <1>2 DEF OneOwner, FdTypeOK
<1>5. NoLeak' BY <1>2 DEF NoLeak, FdTypeOK
<1> QED BY <1>1, <1>3, <1>4, <1>5

(* The invariant holds for every handle, thread and descriptor limit.       *)
THEOREM FdInductive == Spec => []FdInv
<1>1. Init => FdInv
  BY Marks DEF Init, FdInv, FdTypeOK, OwnedIsOpen, OneOwner, NoLeak, Owned
<1>2. FdInv /\ [Next]_vars => FdInv'
  <2> SUFFICES ASSUME FdInv, [Next]_vars PROVE FdInv'
    OBVIOUS
  <2>1. CASE UNCHANGED vars
    BY <2>1 DEF vars, FdInv, FdTypeOK, OwnedIsOpen, OneOwner, NoLeak, Owned
  <2>2. CASE Next
    <3>1. PICK h \in Handles :
            \/ OpenFd(h) \/ Release(h) \/ Reset(h) \/ Assign(h) \/ Destroy(h)
            \/ \E fd \in raw : Adopt(h, fd)
            \/ \E other \in Handles : MoveConstruct(h, other) \/ MoveAssign(h, other)
      BY <2>2 DEF Next
    <3> QED
      BY <3>1, OpenFdKeeps, AdoptKeeps, ReleaseKeeps, MoveConstructKeeps,
         MoveAssignKeeps, ResetKeeps, AssignKeeps, DestroyKeeps
  <2> QED BY <2>1, <2>2
<1> QED BY <1>1, <1>2, PTL DEF Spec

(* Whatever is owned is open: no close() takes a descriptor from another    *)
(* handle, however the kernel reuses numbers.                               *)
THEOREM NoForeignClose == Spec => []OwnedIsOpen
  BY FdInductive, PTL DEF FdInv

(* A descriptor never has two owners.                                       *)
THEOREM UniqueOwner == Spec => []OneOwner
  BY FdInductive, PTL DEF FdInv

(* No descriptor leaks.                                                     *)
THEOREM EveryFdOwned == Spec => []NoLeak
  BY FdInductive, PTL DEF FdInv
=============================================================================
