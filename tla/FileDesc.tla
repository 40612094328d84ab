------------------------------ MODULE FileDesc ------------------------------
(***************************************************************************)
(* unique_handle (unique_handle.h) over file descriptors (file_desc.h):    *)
(* every operation on it that the library uses, on any number of handles   *)
(* in any number of threads, above a kernel that gives out the lowest free *)
(* number and so reuses a closed one at once.                              *)
(*                                                                         *)
(* A handle belongs to one thread at a time; what threads share is the     *)
(* kernel's table.  reset() and move assignment close the old descriptor   *)
(* and then write value_, so there is a moment in which the handle still   *)
(* names a number that another thread may have been given: closing and     *)
(* writing are two steps.  Descriptors also travel as bare integers,       *)
(* between releaseFd() or release() and the FileDesc made from them.       *)
(***************************************************************************)
EXTENDS Integers

CONSTANTS
  Handles,   \* the FileDesc objects
  MaxFds     \* the descriptor limit of the process

ASSUME FdAssumption == MaxFds \in Nat

Fds     == 0 .. MaxFds - 1
Invalid == -1         \* FileDescriptorTraits::invalid()
None    == -2         \* no assignment is under way

VARIABLES
  live,      \* the handles that exist
  value,     \* unique_handle::value_
  pending,   \* the value an assignment under way will write, or None
  raw,       \* the descriptors held as bare integers
  open       \* kernel: the open descriptors

vars == <<live, value, pending, raw, open>>

(* Every variable has its type, and only a handle that exists is being      *)
(* assigned to.                                                             *)
FdTypeOK ==
  /\ live \in SUBSET Handles
  /\ value \in [Handles -> Fds \cup {Invalid}]
  /\ pending \in [Handles -> Fds \cup {Invalid, None}]
  /\ raw \in SUBSET Fds
  /\ open \in SUBSET Fds
  /\ \A h \in Handles \ live : pending[h] = None

Init ==
  /\ live = {}
  /\ value = [h \in Handles |-> Invalid]
  /\ pending = [h \in Handles |-> None]
  /\ raw = {}
  /\ open = {}

(* A handle that exists and that its thread is done with. *)
Idle(h) == h \in live /\ pending[h] = None

(* The kernel closes descriptor fd, if it is one: unique_handle::close()    *)
(* leaves an invalid value alone.                                           *)
CloseFd(fd) == open' = open \ {fd}

-----------------------------------------------------------------------------
(* FileDesc fd(socket(...)), FileDesc fd(accept4(...)): the lowest free     *)
(* number, or -1 when the call fails, as it does when none is free.         *)
OpenFd(h) ==
  /\ h \in Handles \ live
  /\ live' = live \cup {h}
  /\ \/ \E fd \in Fds \ open :
          /\ \A other \in Fds \ open : fd <= other
          /\ value' = [value EXCEPT ![h] = fd]
          /\ open' = open \cup {fd}
     \/ /\ value' = [value EXCEPT ![h] = Invalid]
        /\ UNCHANGED open
  /\ UNCHANGED <<pending, raw>>

(* FileDesc(fd): a bare integer gets an owner again. *)
Adopt(h, fd) ==
  /\ h \in Handles \ live
  /\ fd \in raw
  /\ live' = live \cup {h}
  /\ value' = [value EXCEPT ![h] = fd]
  /\ raw' = raw \ {fd}
  /\ UNCHANGED <<pending, open>>

(* release(), which is also Channel::releaseFd. *)
ReleaseCopies(h) ==
  /\ Idle(h)
  /\ value[h] # Invalid
  /\ raw' = raw \cup {value[h]}
  /\ UNCHANGED <<live, value, pending, open>>

Release(h) ==
  /\ Idle(h)
  /\ value[h] # Invalid
  /\ value' = [value EXCEPT ![h] = Invalid]
  /\ raw' = raw \cup {value[h]}
  /\ UNCHANGED <<live, pending, open>>

(* The move constructor: value_(other.release()). *)
MoveConstruct(h, other) ==
  /\ h \in Handles \ live
  /\ Idle(other)
  /\ live' = live \cup {h}
  /\ value' = [value EXCEPT ![h] = value[other], ![other] = Invalid]
  /\ UNCHANGED <<pending, raw, open>>

(* Move assignment: reset(other.release()), on itself too.  The value left  *)
(* in this handle by release() is compared with the new one; if they        *)
(* differ it is closed, and then the new value is written.                  *)
MoveAssignNoClose(h, other) ==
  /\ Idle(h) /\ Idle(other)
  /\ LET left == [value EXCEPT ![other] = Invalid] IN
       /\ value' = left
       /\ left[h] # value[other]
       /\ pending' = [pending EXCEPT ![h] = value[other]]
  /\ UNCHANGED <<live, raw, open>>

MoveAssign(h, other) ==
  /\ Idle(h) /\ Idle(other)
  /\ LET left == [value EXCEPT ![other] = Invalid] IN
       /\ value' = left
       /\ left[h] # value[other]
       /\ CloseFd(left[h])
       /\ pending' = [pending EXCEPT ![h] = value[other]]
  /\ UNCHANGED <<live, raw>>

(* reset(): the same with the invalid value. *)
Reset(h) ==
  /\ Idle(h)
  /\ value[h] # Invalid
  /\ CloseFd(value[h])
  /\ pending' = [pending EXCEPT ![h] = Invalid]
  /\ UNCHANGED <<live, value, raw>>

(* value_ = value, at the end of reset(). *)
AssignForgotten(h) ==
  /\ pending[h] # None
  /\ pending' = [pending EXCEPT ![h] = None]
  /\ UNCHANGED <<live, value, raw, open>>

Assign(h) ==
  /\ pending[h] # None
  /\ value' = [value EXCEPT ![h] = pending[h]]
  /\ pending' = [pending EXCEPT ![h] = None]
  /\ UNCHANGED <<live, raw, open>>

(* The destructor closes; the object is gone, whatever value_ still says.   *)
Destroy(h) ==
  /\ Idle(h)
  /\ CloseFd(value[h])
  /\ live' = live \ {h}
  /\ UNCHANGED <<value, pending, raw>>

Next ==
  \E h \in Handles :
    \/ OpenFd(h) \/ Release(h) \/ Reset(h) \/ Assign(h) \/ Destroy(h)
    \/ \E fd \in raw : Adopt(h, fd)
    \/ \E other \in Handles : MoveConstruct(h, other) \/ MoveAssign(h, other)

Spec == Init /\ [][Next]_vars

-----------------------------------------------------------------------------
(* What a handle owns: while it is being assigned to, its value_ is stale.  *)
Owned(h) == IF pending[h] # None THEN pending[h] ELSE value[h]

(* Whatever a handle or a bare integer stands for is open: no close() by    *)
(* another handle, or by a stale value_, has taken it away.                 *)
OwnedIsOpen ==
  /\ \A h \in live : Owned(h) # Invalid => Owned(h) \in open
  /\ raw \subseteq open

(* A descriptor has one owner, so that no destructor closes a descriptor    *)
(* somebody else still uses.                                                *)
OneOwner ==
  /\ \A h, g \in live : Owned(h) = Owned(g) /\ Owned(h) # Invalid => h = g
  /\ \A h \in live : Owned(h) \notin raw

(* An open descriptor has an owner: none leaks, whichever way handles are   *)
(* moved, reset, released and destroyed.                                    *)
NoLeak == \A fd \in open : fd \in raw \/ \E h \in live : Owned(h) = fd

(* The three together are inductive. *)
FdInv == FdTypeOK /\ OwnedIsOpen /\ OneOwner /\ NoLeak
=============================================================================
