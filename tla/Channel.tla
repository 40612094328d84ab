------------------------------ MODULE Channel ------------------------------
(***************************************************************************)
(* Channel (channel.h, channel.cpp) and the registering half of            *)
(* EPollPoller (epollpoller.cpp), above the kernel's epoll interest list.  *)
(*                                                                         *)
(* A channel is a file descriptor, the events its owner asked for and a    *)
(* state_ byte that decides between EPOLL_CTL_ADD and EPOLL_CTL_MOD.  The  *)
(* kernel keeps its own record of what is registered, and refuses an ADD   *)
(* of a registered descriptor (EEXIST) and a MOD or DEL of one that is not *)
(* (ENOENT); EPollPoller::update turns a refusal into an AssertException.  *)
(* state_ is a plain byte, read before epoll_ctl is called and written     *)
(* after it returns, by any thread and under no lock: reading it, the call *)
(* and setState are steps of their own.                                    *)
(***************************************************************************)
EXTENDS Naturals, FiniteSets

CONSTANT Channels               \* the Channel objects

VARIABLES
  state,         \* Channel::state_
  channelEvent,  \* Channel::channelEvent_, the events asked for
  registered,    \* kernel: the channels on an epoll interest list
  mask           \* kernel: the events each registered channel waits for

channelVars == <<state, channelEvent, registered, mask>>

(* ChannelEvents and ChannelStates; a set of flags stands for a bit mask. *)
NONE  == {}
WRITE == {"OUT"}
READ  == {"IN", "PRI"}

Flags == {"IN", "PRI", "OUT", "RDHUP", "HUP", "ERR"}

ChannelStates == {"NEW", "ADD", "DEL"}

ChannelTypeOK ==
  /\ state \in [Channels -> ChannelStates]
  /\ channelEvent \in [Channels -> SUBSET Flags]
  /\ registered \in SUBSET Channels
  /\ mask \in [Channels -> SUBSET Flags]

(* The Channel constructor; the descriptor is not on any interest list. *)
ChannelInit ==
  /\ state = [ch \in Channels |-> "NEW"]
  /\ channelEvent = [ch \in Channels |-> NONE]
  /\ registered = {}
  /\ mask = [ch \in Channels |-> NONE]

-----------------------------------------------------------------------------
(* EPollPoller::updateChannel picks the epoll_ctl operation.  Its inner    *)
(* test for DEL is dead: the outer test has already taken DEL to ADD.      *)
UpdateOpt(s) == IF s \in {"NEW", "DEL"} THEN "ADD" ELSE "MOD"

(* Whether the kernel carries out epoll_ctl(opt) on the channel's          *)
(* descriptor, as far as the interest list decides it.                     *)
EpollAccepts(opt, ch) ==
  IF opt = "ADD" THEN ch \notin registered ELSE ch \in registered

(* enableRead, disableAll ...: channelEvent_ is assigned, then             *)
(* updateChannel reads state_ and is committed to UpdateOpt(state[ch]).    *)
AskFor(ch, wanted) ==
  /\ channelEvent' = [channelEvent EXCEPT ![ch] = wanted]
  /\ UNCHANGED <<state, registered, mask>>

(* EPollPoller::update: epoll_ctl(opt) succeeds.  An ADD or MOD installs   *)
(* channelEvent_ as it is now; a DEL, which is Channel::remove, forgets    *)
(* the channel and leaves state_ what it was.                              *)
CtlSucceeds(opt, ch) ==
  /\ EpollAccepts(opt, ch)
  /\ registered' = IF opt = "DEL" THEN registered \ {ch} ELSE registered \cup {ch}
  /\ mask' = [mask EXCEPT ![ch] = IF opt = "DEL" THEN NONE ELSE channelEvent[ch]]
  /\ UNCHANGED <<state, channelEvent>>

(* EPollPoller::update: epoll_ctl(opt) fails and update throws.  An ADD    *)
(* may also fail for want of kernel memory or watches (ENOMEM, ENOSPC).    *)
CtlThrows(opt, ch) ==
  /\ ~EpollAccepts(opt, ch) \/ opt = "ADD"
  /\ UNCHANGED channelVars

(* channel->setState(ChannelStates::ADD), after a successful ADD. *)
SetStateAdd(ch) ==
  /\ state' = [state EXCEPT ![ch] = "ADD"]
  /\ UNCHANGED <<channelEvent, registered, mask>>

-----------------------------------------------------------------------------
(* What epoll_wait reports for a channel whose descriptor has the          *)
(* conditions `pending': the ones asked for, and HUP and ERR always.       *)
Reported(ch, pending) == pending \cap (mask[ch] \cup {"HUP", "ERR"})

(* Channel::handleEvent: which of the three handlers runs. *)
HandleHangUpFirst(events) ==
  IF "HUP" \in events THEN "close"
  ELSE IF events \cap {"IN", "PRI", "RDHUP"} # {} THEN "read"
  ELSE IF "OUT" \in events THEN "write"
  ELSE "invalid"

HandleEvent(events) ==
  IF "HUP" \in events /\ "IN" \notin events THEN "close"
  ELSE IF events \cap {"IN", "PRI", "RDHUP"} # {} THEN "read"
  ELSE IF "OUT" \in events THEN "write"
  ELSE "invalid"
=============================================================================
