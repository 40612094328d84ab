----------------------------- MODULE FileSinks -----------------------------
(***************************************************************************)
(* The file sinks of spdlog above file_helper: rotating_file_sink, through *)
(* which librapid logs (Logger::addFileLogger, 1 MB and max_files 0),      *)
(* daily_file_sink and basic_file_sink.                                    *)
(*                                                                         *)
(* A sink is used under its mutex, so one message is handled at a time;    *)
(* but every operation on the file system may fail, which ends the call    *)
(* with an exception, and the process may die between any two of them and  *)
(* be started again.  What has been written to a stream is taken to be in  *)
(* the file.                                                               *)
(***************************************************************************)
EXTENDS Integers, Sequences

CONSTANTS
  Kinds,         \* the sinks: subset of {"rotating", "daily", "basic"}
  MaxSize,       \* max_size_ of the rotating sink
  MaxFiles,      \* max_files_ of the rotating sink
  Sizes,         \* how long formatted messages are
  Day,           \* 24 hours, in units of the clock
  RotationTime,  \* rotation_h_ and rotation_m_, in units after midnight
  MaxDelay,      \* how long a message may be under way to the sink
  MaxMessages,   \* bound: messages
  MaxClock,      \* bound: the clock
  Nil            \* no file

ASSUME SinkAssumption ==
  /\ Kinds \subseteq {"rotating", "daily", "basic"}
  /\ MaxSize \in Nat /\ MaxFiles \in Nat /\ Sizes \subseteq Nat \ {0}
  /\ Day \in Nat \ {0} /\ RotationTime \in 0..Day - 1 /\ MaxDelay \in 0..Day - 1
  /\ MaxMessages \in Nat /\ MaxClock \in Nat

(* A file is known by its index (calc_filename of the rotating sink) or by  *)
(* its date (calc_filename of the daily sink).                              *)
Date(time) == time \div Day
Names == 0..MaxFiles \cup 0..Date(MaxClock)

(* What a file holds: the messages written to it, or parts of them, and the *)
(* length that the file system keeps.                                       *)
Parts == [id : Nat, bytes : Nat, time : Nat]
Contents == [parts : Seq(Parts), length : Nat]
NewFile == [parts |-> <<>>, length |-> 0]

ASSUME NilAssumption == Nil \notin Names /\ Nil \notin Contents

VARIABLES
  kind,         \* which sink it is
  truncate,     \* truncate_ of the daily and the basic sink
  files,        \* what each file holds, or Nil
  fd,           \* the file that file_helper has open, or Nil
  filename,     \* file_helper::_filename
  pc,           \* what comes next in the sink's call
  index,        \* i of the loop in rotate_
  current_size, \* of the rotating sink
  rotation_tp,  \* of the daily sink
  clock,        \* log_clock
  msg,          \* the message
  count,        \* messages so far
  accepted,     \* what has been written, in order
  fault         \* an operation has failed or the process has died in this call

sinkVars == <<kind, truncate>>
vars == <<sinkVars, files, fd, filename, pc, index, current_size, rotation_tp, clock, msg, count,
          accepted, fault>>

(* next_rotation_tp_: the rotation of today, or else of tomorrow. *)
next_rotation_tp(now) ==
  LET today == Date(now) * Day + RotationTime
  IN  IF today > now THEN today ELSE today + Day

(* fopen, in mode "wb" or "ab". *)
Opened(name, trunc) ==
  [files EXCEPT ![name] = IF trunc \/ @ = Nil THEN NewFile ELSE @]

(* The constructors: the file is opened, and its size or the first          *)
(* rotation computed.                                                       *)
Construct ==
  LET name == IF kind = "daily" THEN Date(clock) ELSE 0
      trunc == kind # "rotating" /\ truncate IN
  /\ files' = Opened(name, trunc)
  /\ fd' = name /\ filename' = name
  /\ pc' = "idle"
  /\ current_size' = IF kind = "rotating" THEN files'[name].length ELSE 0
  /\ rotation_tp' = IF kind = "daily" THEN next_rotation_tp(clock) ELSE 0

Init ==
  /\ kind \in Kinds
  /\ truncate \in IF kind = "rotating" THEN {FALSE} ELSE BOOLEAN
  /\ files = [n \in Names |-> Nil]
  /\ fd = Nil /\ filename = Nil
  /\ pc = "dead" /\ index = 0
  /\ current_size = 0 /\ rotation_tp = 0
  /\ clock \in IF kind = "daily" THEN 0..Day - 1 ELSE {0}
  /\ msg = [id |-> 0, size |-> 0, time |-> 0] /\ count = 0
  /\ accepted = <<>>
  /\ fault = FALSE

Start ==
  /\ pc = "dead"
  /\ Construct
  /\ UNCHANGED <<sinkVars, index, clock, msg, count, accepted, fault>>

(* The process dies, at any point. *)
Die ==
  /\ pc # "dead"
  /\ pc' = "dead" /\ fd' = Nil /\ index' = 0
  /\ fault' = (fault \/ pc # "idle")
  /\ UNCHANGED <<sinkVars, files, filename, current_size, rotation_tp, clock, msg, count, accepted>>

ClockTicks ==
  /\ kind = "daily" /\ clock < MaxClock
  /\ pc \in {"dead", "idle"} \/ clock < msg.time + MaxDelay
  /\ clock' = clock + 1
  /\ UNCHANGED <<sinkVars, files, fd, filename, pc, index, current_size, rotation_tp, msg, count,
                 accepted, fault>>

-----------------------------------------------------------------------------
(* The size is that of the new file before there is one. *)
RotatingSinkItEarly(size) ==
  LET rotate == current_size + size > MaxSize IN
  /\ kind = "rotating"
  /\ current_size' = IF rotate THEN size ELSE current_size + size
  /\ fd' = IF rotate THEN Nil ELSE fd
  /\ index' = IF rotate THEN MaxFiles ELSE 0
  /\ pc' = IF ~rotate THEN "write" ELSE IF MaxFiles = 0 THEN "reopen" ELSE "remove"
  /\ UNCHANGED filename

(* The message itself is not counted. *)
RotatingSinkItLate(size) ==
  LET rotate == current_size > MaxSize IN
  /\ kind = "rotating"
  /\ current_size' = current_size + size
  /\ fd' = IF rotate THEN Nil ELSE fd
  /\ index' = IF rotate THEN MaxFiles ELSE 0
  /\ pc' = IF ~rotate THEN "write" ELSE IF MaxFiles = 0 THEN "reopen" ELSE "remove"
  /\ UNCHANGED filename

(* sink_it_ of the rotating sink: a message that does not fit closes the    *)
(* file and rotates; otherwise it is written.                               *)
RotatingSinkIt(size) ==
  LET rotate == current_size + size > MaxSize IN
  /\ kind = "rotating"
  /\ current_size' = current_size + size
  /\ fd' = IF rotate THEN Nil ELSE fd
  /\ index' = IF rotate THEN MaxFiles ELSE 0
  /\ pc' = IF ~rotate THEN "write" ELSE IF MaxFiles = 0 THEN "reopen" ELSE "remove"
  /\ UNCHANGED filename

(* The file that was open is opened again. *)
DailySinkItSameFile(time) ==
  LET rotate == time >= rotation_tp IN
  /\ kind = "daily"
  /\ fd' = IF rotate THEN Nil ELSE fd
  /\ pc' = IF rotate THEN "reopen" ELSE "write"
  /\ UNCHANGED <<filename, current_size, index>>

(* sink_it_ of the daily sink: the first message after the rotation time    *)
(* closes the file and opens the one of its own date.                       *)
DailySinkIt(time) ==
  LET rotate == time >= rotation_tp IN
  /\ kind = "daily"
  /\ fd' = IF rotate THEN Nil ELSE fd
  /\ filename' = IF rotate THEN Date(time) ELSE filename
  /\ pc' = IF rotate THEN "reopen" ELSE "write"
  /\ UNCHANGED <<current_size, index>>

BasicSinkIt ==
  /\ kind = "basic"
  /\ pc' = "write"
  /\ UNCHANGED <<fd, filename, current_size, index>>

(* base_sink::log; the message was made some time ago, and those of two     *)
(* threads may come in the other order.                                     *)
Log(size, time) ==
  /\ pc = "idle" /\ count < MaxMessages
  /\ count' = count + 1
  /\ msg' = [id |-> count + 1, size |-> size, time |-> time]
  /\ RotatingSinkIt(size) \/ DailySinkIt(time) \/ BasicSinkIt
  /\ fault' = FALSE
  /\ UNCHANGED <<sinkVars, files, rotation_tp, clock, accepted>>

(* An operation has failed: spdlog_ex leaves sink_it_. *)
Throw ==
  /\ pc' = "idle" /\ index' = 0
  /\ fault' = TRUE
  /\ UNCHANGED <<sinkVars, fd, filename, current_size, rotation_tp, clock, msg, count>>

(* rotate_: the target of a rename is removed first ... *)
RemoveTarget ==
  /\ pc = "remove"
  /\ pc' = "rename"
  /\ files' = [files EXCEPT ![index] = Nil]
  /\ UNCHANGED <<sinkVars, fd, filename, index, current_size, rotation_tp, clock, msg, count,
                 accepted, fault>>

RemoveFails ==
  /\ pc = "remove" /\ files[index] # Nil
  /\ Throw
  /\ UNCHANGED <<files, accepted>>

(* ... and then the file before it is renamed, if there is one.             *)
RenameSource ==
  /\ pc = "rename"
  /\ files' = [files EXCEPT ![index] = files[index - 1], ![index - 1] = Nil]
  /\ index' = index - 1
  /\ pc' = IF index = 1 THEN "reopen" ELSE "remove"
  /\ UNCHANGED <<sinkVars, fd, filename, current_size, rotation_tp, clock, msg, count, accepted, fault>>

(* The rotation goes on. *)
RenameFailsIgnored ==
  /\ pc = "rename" /\ files[index - 1] # Nil
  /\ index' = index - 1
  /\ pc' = IF index = 1 THEN "reopen" ELSE "remove"
  /\ UNCHANGED <<sinkVars, files, fd, filename, current_size, rotation_tp, clock, msg, count, accepted, fault>>

(* The second rename has failed too. *)
RenameFails ==
  /\ pc = "rename" /\ files[index - 1] # Nil
  /\ Throw
  /\ UNCHANGED <<files, accepted>>

(* The message for which the file was rotated is not written. *)
ReopenOnly ==
  /\ pc = "reopen"
  /\ files' = Opened(filename, kind = "rotating" \/ truncate)
  /\ fd' = filename
  /\ current_size' = IF kind = "rotating" THEN 0 ELSE current_size
  /\ rotation_tp' = IF kind = "daily" THEN next_rotation_tp(clock) ELSE rotation_tp
  /\ pc' = "idle"
  /\ UNCHANGED <<sinkVars, filename, index, clock, msg, count, accepted, fault>>

(* file_helper::open; then the size is that of the message alone, or the    *)
(* next rotation is computed from the clock.                                *)
Reopen ==
  /\ pc = "reopen"
  /\ files' = Opened(filename, kind = "rotating" \/ truncate)
  /\ fd' = filename
  /\ current_size' = IF kind = "rotating" THEN msg.size ELSE current_size
  /\ rotation_tp' = IF kind = "daily" THEN next_rotation_tp(clock) ELSE rotation_tp
  /\ pc' = "write"
  /\ UNCHANGED <<sinkVars, filename, index, clock, msg, count, accepted, fault>>

(* Five tries have failed. *)
ReopenFails ==
  /\ pc = "reopen"
  /\ Throw
  /\ UNCHANGED <<files, accepted>>

(* file_helper::write, whole or in part.  A stream that is not open is      *)
(* fwrite's undefined behaviour: the process dies.                          *)
Write(bytes) ==
  LET part == [id |-> msg.id, bytes |-> bytes, time |-> msg.time] IN
  /\ pc = "write" /\ fd # Nil
  /\ files' = IF bytes = 0 THEN files
              ELSE [files EXCEPT ![fd] = [parts |-> Append(@.parts, part), length |-> @.length + bytes]]
  /\ accepted' = IF bytes = 0 THEN accepted ELSE Append(accepted, part)
  /\ \/ bytes = msg.size /\ pc' = "idle"
        /\ UNCHANGED <<sinkVars, fd, filename, index, current_size, rotation_tp, clock, msg, count, fault>>
     \/ bytes < msg.size /\ Throw

WriteToNull ==
  /\ pc = "write" /\ fd = Nil
  /\ pc' = "dead" /\ fault' = TRUE
  /\ UNCHANGED <<sinkVars, files, fd, filename, index, current_size, rotation_tp, clock, msg, count, accepted>>

(* Only the rotating sink looks at the length of a message. *)
SizesOf(k) == IF k = "rotating" THEN Sizes ELSE {1}

Next ==
  \/ Start \/ Die \/ ClockTicks
  \/ \E size \in SizesOf(kind), time \in (clock - MaxDelay)..clock : time >= 0 /\ Log(size, time)
  \/ RemoveTarget \/ RemoveFails \/ RenameSource \/ RenameFails \/ Reopen \/ ReopenFails
  \/ \E bytes \in 0..msg.size : Write(bytes)
  \/ WriteToNull

Spec == Init /\ [][Next]_vars

-----------------------------------------------------------------------------

(* A rotation that failed half way leaves the rotating sink without a file, *)
(* and its size above the limit: every later message rotates again before   *)
(* it writes.  No message goes through a stream that is not open.           *)
NoWriteToNull == kind # "daily" /\ pc = "write" => fd # Nil

(* However rotations fail or are cut short, the files from the oldest to    *)
(* the newest hold the end of what was written, in order and without holes: *)
(* file n holds what was accepted after cut[n + 1], up to cut[n].           *)
AreCutAt(cut) ==
  /\ cut[0] = Len(accepted)
  /\ \A n \in 0..MaxFiles :
       /\ cut[n + 1] <= cut[n]
       /\ files[n] = Nil => cut[n + 1] = cut[n]
       /\ files[n] # Nil => files[n].parts = SubSeq(accepted, cut[n + 1] + 1, cut[n])
FilesAreTheEnd ==
  kind = "rotating" => \E cut \in [0..MaxFiles + 1 -> 0..Len(accepted)] : AreCutAt(cut)

(* A file of the rotating sink is not longer than max_size_, unless it is   *)
(* one message that is.                                                     *)
FilesAreBounded ==
  kind = "rotating" => \A n \in Names :
    files[n] # Nil => files[n].length <= MaxSize \/ Len(files[n].parts) = 1

(* A message is lost only to a failure in its own call: what went wrong in  *)
(* earlier ones has been made good.                                         *)
OnlyFaultsLose ==
  kind # "daily" /\ pc = "idle" /\ count > 0 /\ ~fault /\ msg.id = count =>
    accepted # <<>> /\ accepted[Len(accepted)] = [id |-> msg.id, bytes |-> msg.size, time |-> msg.time]

(* The daily sink computes its next rotation from the clock and not from    *)
(* the message, so that a message can be in the file of another day; but if *)
(* it rotates at midnight and no message is under way for a day, of a       *)
(* neighbouring one only.                                                   *)
AtMostADayOff ==
  kind = "daily" /\ RotationTime = 0 => \A n \in Names : files[n] # Nil =>
    \A k \in 1..Len(files[n].parts) : n - Date(files[n].parts[k].time) \in {-1, 0, 1}
=============================================================================
