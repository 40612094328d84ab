-------------------------- MODULE FileSinksProofs --------------------------
(***************************************************************************)
(* Proofs about the file sinks of spdlog, for every limit on the size and  *)
(* the number of files, every length of a message and every delay below a  *)
(* day.  Nothing here depends on the bounds on messages and on the clock.  *)
(*                                                                         *)
(* The argument is an inductive invariant, SinkInv, in parts: when a file  *)
(* is open (OpenOK), how the size that the sink remembers relates to the   *)
(* file (SizeOK), which name a rotation has freed (FreeOK), what a call    *)
(* without a failure has done (LossOK), and how far the file of the daily  *)
(* sink is from the clock (DayOK).                                         *)
(***************************************************************************)
EXTENDS FileSinks, SequenceTheorems, TLAPS

(* What the variables hold. *)
SinkTypeOK ==
  /\ kind \in {"rotating", "daily", "basic"} /\ truncate \in BOOLEAN
  /\ files \in [Names -> Contents \cup {Nil}]
  /\ fd \in Names \cup {Nil} /\ filename \in Names \cup {Nil}
  /\ pc \in {"dead", "idle", "remove", "rename", "reopen", "write"}
  /\ index \in 0..MaxFiles
  /\ current_size \in Nat /\ rotation_tp \in Int
  /\ clock \in Nat /\ Date(clock) <= Date(MaxClock)
  /\ msg \in [id : Nat, size : Nat, time : Nat] /\ msg.time <= clock
  /\ count \in Nat
  /\ accepted \in Seq(Parts)
  /\ fault \in BOOLEAN

(* At which steps of a call a file is open, and which: a sink that has none *)
(* is about to open it or is rotating, and a rotating sink without a file   *)
(* remembers a size that makes the next message rotate.                     *)
OpenOK ==
  /\ pc = "dead" => fd = Nil
  /\ pc \in {"remove", "rename"} => kind = "rotating" /\ index \in 1..MaxFiles
  /\ pc \in {"remove", "rename", "reopen"} => fd = Nil /\ kind # "basic"
  /\ pc # "dead" => filename \in Names
  /\ pc # "dead" /\ kind # "daily" => filename = 0
  /\ fd # Nil => fd = filename /\ files[fd] # Nil
  /\ kind = "rotating" /\ fd = Nil /\ pc # "dead" => pc # "write" /\ current_size > MaxSize
  /\ kind = "basic" /\ pc # "dead" => fd # Nil

(* current_size_ is no less than the length of the file, and a message that *)
(* is about to be written fits or is the first.                             *)
SizeOK ==
  /\ pc \notin {"dead", "idle"} => msg.size # 0
  /\ kind = "rotating" /\ pc = "idle" /\ fd # Nil => files[0].length <= current_size
  /\ kind = "rotating" /\ pc = "write" =>
       /\ files[0].length + msg.size <= current_size
       /\ current_size <= MaxSize \/ files[0].parts = <<>>

(* Half way through a rotation the next rename has a free target. *)
FreeOK ==
  kind = "rotating" =>
    /\ pc = "remove" /\ index # MaxFiles => files[index] = Nil
    /\ pc = "rename" => files[index] = Nil
    /\ pc = "reopen" /\ MaxFiles # 0 => files[0] = Nil

(* Between two calls, and also if the process has died between two calls,   *)
(* the last message is the last that was accepted.                          *)
LossOK ==
  pc \in {"idle", "dead"} /\ count > 0 /\ ~fault /\ msg.id = count =>
    accepted # <<>> /\ accepted[Len(accepted)] = [id |-> msg.id, bytes |-> msg.size, time |-> msg.time]

(* The daily sink at midnight: the file that is open is not of a day to     *)
(* come, and the next rotation is at most two midnights after its own.      *)
DayOK ==
  /\ pc \notin {"dead", "idle"} => clock <= msg.time + MaxDelay
  /\ kind = "daily" /\ RotationTime = 0 =>
       /\ fd # Nil => rotation_tp <= (fd + 2) * Day /\ fd * Day <= clock
       /\ pc = "reopen" => filename = Date(msg.time)
       /\ pc = "write" /\ fd # Nil => fd - Date(msg.time) \in {-1, 0, 1}

(* All of it, with the three properties that are inductive beside it.       *)
SinkInv ==
  /\ SinkTypeOK /\ OpenOK /\ SizeOK /\ FreeOK /\ LossOK /\ DayOK
  /\ FilesAreTheEnd /\ FilesAreBounded /\ AtMostADayOff

-----------------------------------------------------------------------------
(* The date of a time, and the midnights around it.                         *)
LEMMA DateOf ==
  ASSUME NEW x \in Nat
  PROVE  Date(x) \in Nat /\ Date(x) * Day <= x /\ x < (Date(x) + 1) * Day
BY SinkAssumption DEF Date

(* More days are more hours.                                                *)
LEMMA TimesMonotonic ==
  ASSUME NEW a \in Int, NEW b \in Int, a <= b
  PROVE  a * Day <= b * Day /\ a * Day \in Int /\ b * Day \in Int
<1>1. Day \in Nat
  BY SinkAssumption
<1>2. ASSUME NEW c \in Nat, NEW d \in Nat PROVE c * d >= 0
  OBVIOUS
<1>3. PICK c \in Nat : b = a + c
  <2>1. b - a \in Nat /\ b = a + (b - a)
    OBVIOUS
  <2> QED BY <2>1
<1>4. (a + c) * Day = a * Day + c * Day
  BY <1>1, <1>3
<1> QED BY <1>1, <1>2, <1>3, <1>4

(* Before a midnight it is an earlier day.                                  *)
LEMMA DateBelow ==
  ASSUME NEW x \in Nat, NEW n \in Int, x < n * Day
  PROVE  Date(x) < n
<1>1. SUFFICES ASSUME Date(x) >= n PROVE FALSE
  BY DateOf
<1>2. Date(x) * Day >= n * Day
  BY <1>1, DateOf, TimesMonotonic
<1> QED BY <1>2, DateOf, SinkAssumption

(* From a midnight on it is that day or a later one.                        *)
LEMMA DateAbove ==
  ASSUME NEW x \in Nat, NEW n \in Int, n * Day <= x
  PROVE  n <= Date(x)
<1>1. SUFFICES ASSUME Date(x) + 1 <= n PROVE FALSE
  BY DateOf
<1>2. (Date(x) + 1) * Day <= n * Day
  BY <1>1, DateOf, TimesMonotonic
<1> QED BY <1>2, DateOf, SinkAssumption

(* The names that the sinks use are in range.                               *)
LEMMA NameFacts ==
  /\ 0 \in Names
  /\ \A k \in 0..MaxFiles : k \in Names
  /\ \A x \in Nat : Date(x) <= Date(MaxClock) => Date(x) \in Names
BY SinkAssumption, DateOf DEF Names

(* A name is a number.                                                      *)
LEMMA NameTypes == \A n \in Names : n \in Nat /\ n # Nil
BY SinkAssumption, NilAssumption, DateOf DEF Names

(* A sink stays what it is.                                                 *)
LEMMA KindStays ==
  ASSUME Next
  PROVE  kind' = kind /\ truncate' = truncate
<1>1. ASSUME NEW bytes \in 0..msg.size, Write(bytes) PROVE kind' = kind /\ truncate' = truncate
  BY <1>1 DEF Write, Throw, sinkVars
<1>2. ASSUME NEW size, NEW time, Log(size, time) PROVE kind' = kind /\ truncate' = truncate
  BY <1>2 DEF Log, sinkVars
<1> QED BY <1>1, <1>2 DEF Next, Start, Die, ClockTicks, RemoveTarget, RemoveFails, RenameSource,
           RenameFails, Reopen, ReopenFails, WriteToNull, Throw, sinkVars

(* A later time is not of an earlier day.                                   *)
LEMMA DateMonotonic ==
  ASSUME NEW x \in Nat, NEW y \in Nat, x <= y
  PROVE  Date(x) <= Date(y)
<1>1. Date(x) * Day <= y
  BY DateOf, SinkAssumption
<1> QED BY <1>1, DateOf, DateAbove

(* The new file is a file.                                                  *)
LEMMA NewFileType == NewFile \in Contents
BY DEF NewFile, Contents, Parts

(* fopen: the file is there, and the others are as they were.               *)
LEMMA OpenedFacts ==
  ASSUME SinkTypeOK, NEW name \in Names, NEW trunc \in BOOLEAN
  PROVE  /\ Opened(name, trunc) \in [Names -> Contents \cup {Nil}]
         /\ Opened(name, trunc)[name] \in Contents /\ Opened(name, trunc)[name] # Nil
         /\ trunc \/ files[name] = Nil => Opened(name, trunc)[name] = NewFile
         /\ ~trunc /\ files[name] # Nil => Opened(name, trunc)[name] = files[name]
         /\ \A n \in Names \ {name} : Opened(name, trunc)[n] = files[n]
<1>1. files \in [Names -> Contents \cup {Nil}]
  BY DEF SinkTypeOK
<1>2. Opened(name, trunc)[name] = IF trunc \/ files[name] = Nil THEN NewFile ELSE files[name]
  BY <1>1 DEF Opened
<1>3. \A n \in Names \ {name} : Opened(name, trunc)[n] = files[n]
  BY <1>1 DEF Opened
<1>4. Opened(name, trunc)[name] \in Contents /\ Opened(name, trunc)[name] # Nil
  BY <1>1, <1>2, NewFileType, NilAssumption
<1>5. Opened(name, trunc) \in [Names -> Contents \cup {Nil}]
  BY <1>1, NewFileType DEF Opened
<1> QED BY <1>2, <1>3, <1>4, <1>5

(* The constructors, with the name that they open.                          *)
LEMMA StartFacts ==
  ASSUME SinkTypeOK, Start
  PROVE  \E name \in Names :
           /\ kind # "daily" => name = 0
           /\ kind = "daily" => name = Date(clock)
           /\ files' = Opened(name, kind # "rotating" /\ truncate)
           /\ fd' = name /\ filename' = name
           /\ current_size' = IF kind = "rotating" THEN files'[name].length ELSE 0
           /\ rotation_tp' = IF kind = "daily" THEN next_rotation_tp(clock) ELSE 0
<1> DEFINE name == IF kind = "daily" THEN Date(clock) ELSE 0
<1>1. name \in Names
  BY NameFacts DEF SinkTypeOK
<1>2. /\ kind # "daily" => name = 0
      /\ kind = "daily" => name = Date(clock)
  OBVIOUS
<1>3. /\ files' = Opened(name, kind # "rotating" /\ truncate)
      /\ fd' = name /\ filename' = name
      /\ current_size' = IF kind = "rotating" THEN files'[name].length ELSE 0
      /\ rotation_tp' = IF kind = "daily" THEN next_rotation_tp(clock) ELSE 0
  BY DEF Start, Construct
<1> HIDE DEF name
<1> QED BY <1>1, <1>2, <1>3

(* next_rotation_tp_ at midnight is the next midnight.                      *)
LEMMA NextRotation ==
  ASSUME NEW now \in Nat
  PROVE  /\ next_rotation_tp(now) \in Nat
         /\ RotationTime = 0 => next_rotation_tp(now) = (Date(now) + 1) * Day
<1>1. Date(now) \in Nat /\ Day \in Nat /\ RotationTime \in Nat
  BY DateOf, SinkAssumption
<1>2. Date(now) * Day \in Nat /\ (Date(now) + 1) * Day = Date(now) * Day + Day
  BY <1>1
<1>3. Date(now) * Day <= now
  BY DateOf
<1> QED BY <1>1, <1>2, <1>3 DEF next_rotation_tp

(* What a write does to the files and to what was accepted.                 *)
LEMMA WriteFacts ==
  ASSUME SinkTypeOK, OpenOK, NEW bytes \in 0..msg.size, Write(bytes)
  PROVE  LET part == [id |-> msg.id, bytes |-> bytes, time |-> msg.time] IN
         /\ part \in Parts
         /\ fd \in Names /\ files[fd] \in Contents
         /\ files' \in [Names -> Contents \cup {Nil}]
         /\ accepted' \in Seq(Parts)
         /\ bytes = 0 => files' = files /\ accepted' = accepted
         /\ bytes # 0 =>
              /\ accepted' = Append(accepted, part)
              /\ files'[fd] = [parts |-> Append(files[fd].parts, part), length |-> files[fd].length + bytes]
              /\ files'[fd] \in Contents
              /\ \A n \in Names \ {fd} : files'[n] = files[n]
<1> DEFINE part == [id |-> msg.id, bytes |-> bytes, time |-> msg.time]
           new == [parts |-> Append(files[fd].parts, part), length |-> files[fd].length + bytes]
<1>1. /\ fd \in Names /\ files \in [Names -> Contents \cup {Nil}] /\ files[fd] \in Contents
      /\ accepted \in Seq(Parts)
  BY DEF SinkTypeOK, OpenOK, Write
<1>2. part \in Parts /\ bytes \in Nat
  BY DEF SinkTypeOK, Parts
<1>3. files[fd].parts \in Seq(Parts) /\ files[fd].length \in Nat
  BY <1>1 DEF Contents
<1>4. /\ files' = IF bytes = 0 THEN files ELSE [files EXCEPT ![fd] = new]
      /\ accepted' = IF bytes = 0 THEN accepted ELSE Append(accepted, part)
  BY DEF Write
<1>5. Append(files[fd].parts, part) \in Seq(Parts) /\ Append(accepted, part) \in Seq(Parts)
  BY <1>1, <1>2, <1>3, AppendProperties
<1>6. new \in Contents
  BY <1>2, <1>3, <1>5 DEF Contents
<1> HIDE DEF part, new
<1>7. /\ files' \in [Names -> Contents \cup {Nil}]
      /\ bytes # 0 => files'[fd] = new /\ \A n \in Names \ {fd} : files'[n] = files[n]
  BY <1>1, <1>4, <1>6
<1> QED BY <1>1, <1>2, <1>4, <1>5, <1>6, <1>7 DEF part, new

(* What a write leaves alone, and how its call ends.                        *)
LEMMA WriteFrame ==
  ASSUME NEW bytes \in 0..msg.size, Write(bytes)
  PROVE  /\ pc = "write" /\ fd # Nil /\ pc' = "idle"
         /\ UNCHANGED <<kind, truncate, fd, filename, current_size, rotation_tp, clock, msg, count>>
         /\ \/ bytes = msg.size /\ index' = index /\ fault' = fault
            \/ bytes < msg.size /\ index' = 0 /\ fault' = TRUE
<1>1. CASE bytes = msg.size
  BY <1>1 DEF Write, Throw, sinkVars
<1>2. CASE bytes # msg.size
  BY <1>2 DEF Write, Throw, sinkVars
<1> QED BY <1>1, <1>2

(* A message is of a day that has come. *)
LEMMA MessageDate ==
  ASSUME SinkTypeOK, NEW time \in (clock - MaxDelay)..clock, time >= 0
  PROVE  Date(time) \in Names
<1>1. time \in Nat /\ clock \in Nat /\ time <= clock
  BY SinkAssumption DEF SinkTypeOK
<1>2. Date(time) <= Date(clock) /\ Date(time) \in Nat /\ Date(clock) \in Nat /\ Date(MaxClock) \in Nat
  BY <1>1, DateMonotonic, DateOf, SinkAssumption
<1> QED BY <1>1, <1>2, NameFacts DEF SinkTypeOK

(* Every step keeps the types. *)
LEMMA TypeStep ==
  ASSUME SinkTypeOK, OpenOK, Next
  PROVE  SinkTypeOK'
<1>1. CASE Start
  <2>1. PICK name \in Names :
           /\ files' = Opened(name, kind # "rotating" /\ truncate)
           /\ fd' = name /\ filename' = name
           /\ current_size' = IF kind = "rotating" THEN files'[name].length ELSE 0
           /\ rotation_tp' = IF kind = "daily" THEN next_rotation_tp(clock) ELSE 0
    BY <1>1, StartFacts
  <2>2. (kind # "rotating" /\ truncate) \in BOOLEAN
    OBVIOUS
  <2>3. files' \in [Names -> Contents \cup {Nil}] /\ files'[name] \in Contents
    BY <2>1, <2>2, OpenedFacts
  <2>4. current_size' \in Nat
    BY <2>1, <2>3 DEF Contents
  <2>5. rotation_tp' \in Int
    BY <2>1, NextRotation DEF SinkTypeOK
  <2> QED BY <1>1, <2>1, <2>3, <2>4, <2>5 DEF Start, Construct, SinkTypeOK, sinkVars
<1>2. CASE Die
  BY <1>2, SinkAssumption DEF Die, SinkTypeOK, sinkVars
<1>3. CASE ClockTicks
  <2>1. clock' = clock + 1 /\ clock' <= MaxClock /\ clock' \in Nat /\ MaxClock \in Nat
    BY <1>3, SinkAssumption DEF ClockTicks, SinkTypeOK
  <2>2. Date(clock') <= Date(MaxClock)
    BY <2>1, DateMonotonic
  <2>3. msg.time <= clock'
    BY <2>1 DEF SinkTypeOK
  <2> QED BY <1>3, <2>1, <2>2, <2>3 DEF ClockTicks, SinkTypeOK, sinkVars
<1>4. ASSUME NEW size \in SizesOf(kind), NEW time \in (clock - MaxDelay)..clock,
             time >= 0, Log(size, time)
      PROVE  SinkTypeOK'
  <2>1. size \in Nat /\ time \in Nat /\ time <= clock
    BY <1>4, SinkAssumption DEF SizesOf, SinkTypeOK
  <2>2. msg' \in [id : Nat, size : Nat, time : Nat] /\ msg'.time <= clock' /\ count' \in Nat
    BY <1>4, <2>1 DEF Log, SinkTypeOK
  <2>3. Date(time) \in Names
    BY <1>4, MessageDate
  <2>4. /\ fd' \in Names \cup {Nil} /\ filename' \in Names \cup {Nil}
        /\ pc' \in {"dead", "idle", "remove", "rename", "reopen", "write"}
        /\ index' \in 0..MaxFiles /\ current_size' \in Nat
    <3>1. CASE RotatingSinkIt(size)
      BY <3>1, <2>1, SinkAssumption DEF RotatingSinkIt, SinkTypeOK
    <3>2. CASE DailySinkIt(time)
      BY <3>2, <2>3 DEF DailySinkIt, SinkTypeOK
    <3>3. CASE BasicSinkIt
      BY <3>3 DEF BasicSinkIt, SinkTypeOK
    <3> QED BY <1>4, <3>1, <3>2, <3>3 DEF Log
  <2> QED BY <1>4, <2>2, <2>4 DEF Log, SinkTypeOK, sinkVars
<1>5. CASE RemoveTarget
  BY <1>5 DEF RemoveTarget, SinkTypeOK, sinkVars
<1>6. CASE RemoveFails
  BY <1>6, SinkAssumption DEF RemoveFails, Throw, SinkTypeOK, sinkVars
<1>7. CASE RenameSource
  <2>1. index \in 1..MaxFiles
    BY <1>7 DEF RenameSource, OpenOK
  <2>2. index - 1 \in 0..MaxFiles /\ index \in Names /\ index - 1 \in Names
    BY <2>1, NameFacts, SinkAssumption
  <2>3. files' \in [Names -> Contents \cup {Nil}]
    BY <1>7, <2>2 DEF RenameSource, SinkTypeOK
  <2> QED BY <1>7, <2>2, <2>3 DEF RenameSource, SinkTypeOK, sinkVars
<1>8. CASE RenameFails
  BY <1>8, SinkAssumption DEF RenameFails, Throw, SinkTypeOK, sinkVars
<1>9. CASE Reopen
  <2>1. filename \in Names /\ (kind = "rotating" \/ truncate) \in BOOLEAN
    BY <1>9 DEF Reopen, OpenOK, SinkTypeOK
  <2>2. files' \in [Names -> Contents \cup {Nil}]
    BY <1>9, <2>1, OpenedFacts DEF Reopen
  <2>3. rotation_tp' \in Int /\ current_size' \in Nat
    BY <1>9, NextRotation DEF Reopen, SinkTypeOK
  <2> QED BY <1>9, <2>1, <2>2, <2>3 DEF Reopen, SinkTypeOK, sinkVars
<1>10. CASE ReopenFails
  BY <1>10, SinkAssumption DEF ReopenFails, Throw, SinkTypeOK, sinkVars
<1>11. ASSUME NEW bytes \in 0..msg.size, Write(bytes)
       PROVE  SinkTypeOK'
  <2>1. files' \in [Names -> Contents \cup {Nil}] /\ accepted' \in Seq(Parts)
    BY <1>11, WriteFacts
  <2>2. index' \in {index, 0} /\ fault' \in {fault, TRUE}
    BY <1>11, WriteFrame
  <2>3. fault' \in BOOLEAN
    BY <2>2, Zenon DEF SinkTypeOK
  <2>4. index' \in 0..MaxFiles
    BY <2>2, SinkAssumption DEF SinkTypeOK
  <2> QED BY <1>11, <2>1, <2>3, <2>4, WriteFrame DEF SinkTypeOK
<1>12. CASE WriteToNull
  BY <1>12 DEF WriteToNull, SinkTypeOK, sinkVars
<1> QED
  BY <1>1, <1>2, <1>3, <1>4, <1>5, <1>6, <1>7, <1>8, <1>9, <1>10, <1>11, <1>12 DEF Next

(* A file stays open except in a rotation and when the process dies.        *)
LEMMA OpenStep ==
  ASSUME SinkTypeOK, OpenOK, SinkTypeOK', Next
  PROVE  OpenOK'
<1>1. CASE Start
  <2>1. PICK name \in Names :
           /\ kind # "daily" => name = 0
           /\ files' = Opened(name, kind # "rotating" /\ truncate)
           /\ fd' = name /\ filename' = name
    BY <1>1, StartFacts
  <2>2. (kind # "rotating" /\ truncate) \in BOOLEAN
    OBVIOUS
  <2>3. files'[name] # Nil
    BY <2>1, <2>2, OpenedFacts
  <2>4. pc' = "idle" /\ kind' = kind /\ name # Nil
    BY <1>1, NilAssumption DEF Start, Construct, sinkVars
  <2> QED BY <2>1, <2>3, <2>4 DEF OpenOK
<1> USE SinkAssumption, NilAssumption DEF SinkTypeOK, OpenOK, Names
<1>2. CASE Die
  BY <1>2 DEF Die, sinkVars
<1>3. CASE ClockTicks
  BY <1>3 DEF ClockTicks, sinkVars
<1>4. ASSUME NEW size \in SizesOf(kind), NEW time \in (clock - MaxDelay)..clock,
             time >= 0, Log(size, time)
      PROVE  OpenOK'
  <2>1. CASE RotatingSinkIt(size)
    BY <1>4, <2>1 DEF Log, RotatingSinkIt, sinkVars, SizesOf
  <2>2. CASE DailySinkIt(time)
    <3> HIDE DEF Names
    <3>1. filename' \in Names
      <4>1. Date(time) \in Names
        BY <1>4, MessageDate
      <4> QED BY <1>4, <2>2, <4>1 DEF Log, DailySinkIt
    <3> QED BY <1>4, <2>2, <3>1 DEF Log, DailySinkIt, sinkVars
  <2>3. CASE BasicSinkIt
    BY <1>4, <2>3 DEF Log, BasicSinkIt, sinkVars, SizesOf
  <2> QED BY <1>4, <2>1, <2>2, <2>3 DEF Log
<1>5. CASE RemoveTarget
  BY <1>5 DEF RemoveTarget, sinkVars
<1>6. CASE RemoveFails
  BY <1>6 DEF RemoveFails, Throw, sinkVars
<1>7. CASE RenameSource
  BY <1>7 DEF RenameSource, sinkVars
<1>8. CASE RenameFails
  BY <1>8 DEF RenameFails, Throw, sinkVars
<1>9. CASE Reopen
  <2>1. filename \in Names /\ (kind = "rotating" \/ truncate) \in BOOLEAN
    BY <1>9 DEF Reopen
  <2>2. files'[filename] # Nil
    BY <1>9, <2>1, OpenedFacts DEF Reopen
  <2> HIDE DEF Names
  <2> QED BY <1>9, <2>1, <2>2 DEF Reopen, sinkVars
<1>10. CASE ReopenFails
  BY <1>10 DEF ReopenFails, Throw, sinkVars
<1>11. ASSUME NEW bytes \in 0..msg.size, Write(bytes)
      PROVE  OpenOK'
  <2>1. files'[fd] # Nil
    BY <1>11, WriteFacts, WriteFrame
  <2> HIDE DEF Names
  <2> QED BY <1>11, <2>1, WriteFrame
<1>12. CASE WriteToNull
  BY <1>12 DEF WriteToNull, sinkVars
<1> QED BY <1>1, <1>2, <1>3, <1>4, <1>5, <1>6, <1>7, <1>8, <1>9, <1>10, <1>11, <1>12 DEF Next

(* current_size_ stays an upper bound of the length of the file.            *)
LEMMA SizeStep ==
  ASSUME SinkTypeOK, OpenOK, SizeOK, Next
  PROVE  SizeOK'
<1>1. CASE Start
  <2>1. PICK name \in Names :
           /\ kind # "daily" => name = 0
           /\ files' = Opened(name, kind # "rotating" /\ truncate)
           /\ current_size' = IF kind = "rotating" THEN files'[name].length ELSE 0
    BY <1>1, StartFacts
  <2>2. files'[name] \in Contents
    BY <2>1, OpenedFacts
  <2>3. kind = "rotating" => files'[0].length <= current_size'
    BY <2>1, <2>2 DEF Contents
  <2> QED BY <1>1, <2>3 DEF Start, Construct, sinkVars, SizeOK
<1> USE SinkAssumption, NilAssumption DEF SinkTypeOK, OpenOK, SizeOK, Contents, NewFile
<1>2. CASE Die
  BY <1>2 DEF Die, sinkVars
<1>3. CASE ClockTicks
  BY <1>3 DEF ClockTicks, sinkVars
<1>4. ASSUME NEW size \in SizesOf(kind), NEW time \in (clock - MaxDelay)..clock,
             time >= 0, Log(size, time)
      PROVE  SizeOK'
  <2>1. CASE RotatingSinkIt(size)
    <3>1. size \in Nat \ {0} /\ msg'.size = size /\ files' = files /\ kind = "rotating" /\ kind' = kind
      BY <1>4, <2>1 DEF Log, RotatingSinkIt, sinkVars, SizesOf
    <3>2. pc' # "idle"
      BY <2>1 DEF RotatingSinkIt
    <3>3. CASE current_size + size > MaxSize
      BY <2>1, <3>1, <3>3 DEF RotatingSinkIt
    <3>4. CASE ~(current_size + size > MaxSize)
      <4>1. fd # Nil /\ pc = "idle" /\ fd = 0 /\ files[0] \in Contents
        BY <1>4, <3>1, <3>4 DEF Log
      <4>2. files[0].length <= current_size /\ files[0].length \in Nat
        BY <3>1, <4>1
      <4> QED BY <2>1, <3>1, <3>2, <3>4, <4>2 DEF RotatingSinkIt
    <3> QED BY <3>3, <3>4
  <2>2. CASE DailySinkIt(time)
    BY <1>4, <2>2 DEF Log, DailySinkIt, sinkVars, SizesOf
  <2>3. CASE BasicSinkIt
    BY <1>4, <2>3 DEF Log, BasicSinkIt, sinkVars, SizesOf
  <2> QED BY <1>4, <2>1, <2>2, <2>3 DEF Log
<1>5. CASE RemoveTarget
  BY <1>5 DEF RemoveTarget, sinkVars
<1>6. CASE RemoveFails
  BY <1>6 DEF RemoveFails, Throw, sinkVars
<1>7. CASE RenameSource
  BY <1>7 DEF RenameSource, sinkVars
<1>8. CASE RenameFails
  BY <1>8 DEF RenameFails, Throw, sinkVars
<1>9. CASE Reopen
  BY <1>9 DEF Reopen, Opened, sinkVars
<1>10. CASE ReopenFails
  BY <1>10 DEF ReopenFails, Throw, sinkVars
<1>11. ASSUME NEW bytes \in 0..msg.size, Write(bytes)
      PROVE  SizeOK'
  BY <1>11 DEF Write, Throw, sinkVars
<1>12. CASE WriteToNull
  BY <1>12 DEF WriteToNull, sinkVars
<1> QED BY <1>1, <1>2, <1>3, <1>4, <1>5, <1>6, <1>7, <1>8, <1>9, <1>10, <1>11, <1>12 DEF Next

(* The name that a rotation renames to is free when it does.                *)
LEMMA FreeStep ==
  ASSUME SinkTypeOK, OpenOK, FreeOK, Next
  PROVE  FreeOK'
<1> USE SinkAssumption, NilAssumption DEF SinkTypeOK, OpenOK, FreeOK, Names
<1>1. CASE Start
  BY <1>1 DEF Start, Construct, Opened, sinkVars
<1>2. CASE Die
  BY <1>2 DEF Die, sinkVars
<1>3. CASE ClockTicks
  BY <1>3 DEF ClockTicks, sinkVars
<1>4. ASSUME NEW size \in SizesOf(kind), NEW time \in (clock - MaxDelay)..clock,
             time >= 0, Log(size, time)
      PROVE  FreeOK'
  <2>1. CASE RotatingSinkIt(size)
    BY <1>4, <2>1 DEF Log, RotatingSinkIt, sinkVars, SizesOf
  <2>2. CASE DailySinkIt(time)
    BY <1>4, <2>2 DEF Log, DailySinkIt, sinkVars, SizesOf
  <2>3. CASE BasicSinkIt
    BY <1>4, <2>3 DEF Log, BasicSinkIt, sinkVars, SizesOf
  <2> QED BY <1>4, <2>1, <2>2, <2>3 DEF Log
<1>5. CASE RemoveTarget
  BY <1>5 DEF RemoveTarget, sinkVars
<1>6. CASE RemoveFails
  BY <1>6 DEF RemoveFails, Throw, sinkVars
<1>7. CASE RenameSource
  BY <1>7 DEF RenameSource, sinkVars
<1>8. CASE RenameFails
  BY <1>8 DEF RenameFails, Throw, sinkVars
<1>9. CASE Reopen
  BY <1>9 DEF Reopen, Opened, sinkVars
<1>10. CASE ReopenFails
  BY <1>10 DEF ReopenFails, Throw, sinkVars
<1>11. ASSUME NEW bytes \in 0..msg.size, Write(bytes)
      PROVE  FreeOK'
  BY <1>11 DEF Write, Throw, sinkVars
<1>12. CASE WriteToNull
  BY <1>12 DEF WriteToNull, sinkVars
<1> QED BY <1>1, <1>2, <1>3, <1>4, <1>5, <1>6, <1>7, <1>8, <1>9, <1>10, <1>11, <1>12 DEF Next

(* A call that ends without a failure has written its message.              *)
LEMMA LossStep ==
  ASSUME SinkTypeOK, OpenOK, SizeOK, LossOK, Next
  PROVE  LossOK'
<1> USE SinkAssumption, NilAssumption DEF SinkTypeOK, SizeOK, LossOK, Parts
<1>1. CASE Start
  BY <1>1 DEF Start, Construct, Opened, sinkVars
<1>2. CASE Die
  BY <1>2 DEF Die, sinkVars
<1>3. CASE ClockTicks
  BY <1>3 DEF ClockTicks, sinkVars
<1>4. ASSUME NEW size \in SizesOf(kind), NEW time \in (clock - MaxDelay)..clock,
             time >= 0, Log(size, time)
      PROVE  LossOK'
  <2>1. CASE RotatingSinkIt(size)
    BY <1>4, <2>1 DEF Log, RotatingSinkIt, sinkVars, SizesOf
  <2>2. CASE DailySinkIt(time)
    BY <1>4, <2>2 DEF Log, DailySinkIt, sinkVars, SizesOf
  <2>3. CASE BasicSinkIt
    BY <1>4, <2>3 DEF Log, BasicSinkIt, sinkVars, SizesOf
  <2> QED BY <1>4, <2>1, <2>2, <2>3 DEF Log
<1>5. CASE RemoveTarget
  BY <1>5 DEF RemoveTarget, sinkVars
<1>6. CASE RemoveFails
  BY <1>6 DEF RemoveFails, Throw, sinkVars
<1>7. CASE RenameSource
  BY <1>7 DEF RenameSource, sinkVars
<1>8. CASE RenameFails
  BY <1>8 DEF RenameFails, Throw, sinkVars
<1>9. CASE Reopen
  BY <1>9 DEF Reopen, Opened, sinkVars
<1>10. CASE ReopenFails
  BY <1>10 DEF ReopenFails, Throw, sinkVars
<1>11. ASSUME NEW bytes \in 0..msg.size, Write(bytes)
      PROVE  LossOK'
  <2> SUFFICES ASSUME ~fault' PROVE LossOK'
    BY Zenon
  <2>1. bytes = msg.size /\ bytes # 0 /\ msg' = msg
    BY <1>11, WriteFrame
  <2> DEFINE part == [id |-> msg.id, bytes |-> msg.size, time |-> msg.time]
  <2>2. accepted' = Append(accepted, part) /\ part \in Parts /\ accepted \in Seq(Parts)
    <3> HIDE DEF LossOK, Parts
    <3> QED BY <1>11, <2>1, WriteFacts
  <2> HIDE DEF part
  <2>3. accepted' # <<>> /\ accepted'[Len(accepted')] = part
    <3> HIDE DEF LossOK, Parts, SinkTypeOK, SizeOK
    <3> QED BY <2>2, AppendProperties
  <2> QED BY <2>1, <2>3 DEF part
<1>12. CASE WriteToNull
  BY <1>12 DEF WriteToNull, sinkVars
<1> QED BY <1>1, <1>2, <1>3, <1>4, <1>5, <1>6, <1>7, <1>8, <1>9, <1>10, <1>11, <1>12 DEF Next

(* A file grows within the limit, or by one message from nothing.           *)
LEMMA BoundedStep ==
  ASSUME SinkTypeOK, OpenOK, SizeOK, FilesAreBounded, Next
  PROVE  FilesAreBounded'
<1> USE SinkAssumption, NilAssumption DEF SinkTypeOK, OpenOK, SizeOK, Names, Contents, NewFile, FilesAreBounded
<1>1. CASE Start
  BY <1>1 DEF Start, Construct, Opened, sinkVars
<1>2. CASE Die
  BY <1>2 DEF Die, sinkVars
<1>3. CASE ClockTicks
  BY <1>3 DEF ClockTicks, sinkVars
<1>4. ASSUME NEW size \in SizesOf(kind), NEW time \in (clock - MaxDelay)..clock,
             time >= 0, Log(size, time)
      PROVE  FilesAreBounded'
  <2>1. CASE RotatingSinkIt(size)
    BY <1>4, <2>1 DEF Log, RotatingSinkIt, sinkVars, SizesOf
  <2>2. CASE DailySinkIt(time)
    BY <1>4, <2>2 DEF Log, DailySinkIt, sinkVars, SizesOf
  <2>3. CASE BasicSinkIt
    BY <1>4, <2>3 DEF Log, BasicSinkIt, sinkVars, SizesOf
  <2> QED BY <1>4, <2>1, <2>2, <2>3 DEF Log
<1>5. CASE RemoveTarget
  BY <1>5 DEF RemoveTarget, sinkVars
<1>6. CASE RemoveFails
  BY <1>6 DEF RemoveFails, Throw, sinkVars
<1>7. CASE RenameSource
  <2>1. index \in Names /\ index - 1 \in Names /\ index # index - 1
    BY <1>7, NameFacts DEF RenameSource
  <2>2. \A n \in Names : files'[n] \in {files[n], files[index - 1], Nil}
    BY <1>7, <2>1 DEF RenameSource
  <2> HIDE DEF Names, Contents
  <2> QED BY <1>7, <2>1, <2>2 DEF RenameSource, sinkVars
<1>8. CASE RenameFails
  BY <1>8 DEF RenameFails, Throw, sinkVars
<1>9. CASE Reopen
  BY <1>9 DEF Reopen, Opened, sinkVars
<1>10. CASE ReopenFails
  BY <1>10 DEF ReopenFails, Throw, sinkVars
<1>11. ASSUME NEW bytes \in 0..msg.size, Write(bytes)
      PROVE  FilesAreBounded'
  <2> HIDE DEF Names
  <2>1. kind' = kind
    BY <1>11, WriteFrame
  <2>2. CASE bytes = 0
    BY <1>11, <2>1, <2>2, WriteFacts
  <2>3. CASE bytes # 0 /\ kind = "rotating"
    <3> DEFINE part == [id |-> msg.id, bytes |-> bytes, time |-> msg.time]
    <3>1. fd = 0 /\ pc = "write"
      BY <1>11, <2>3, WriteFrame
    <3>2. /\ files[fd] \in Contents /\ part \in Parts
          /\ files'[fd] = [parts |-> Append(files[fd].parts, part), length |-> files[fd].length + bytes]
          /\ \A n \in Names \ {fd} : files'[n] = files[n]
      BY <1>11, <2>3, WriteFacts
    <3> HIDE DEF part
    <3>3. /\ files'[fd].parts = Append(files[fd].parts, part)
          /\ files'[fd].length = files[fd].length + bytes
          /\ files[fd].parts \in Seq(Parts) /\ files[fd].length \in Nat
      <4> HIDE DEF SinkTypeOK, OpenOK, SizeOK, FilesAreBounded
      <4> QED BY <3>2
    <3>4. files'[fd].length <= MaxSize \/ Len(files'[fd].parts) = 1
      <4>1. CASE files[fd].parts = <<>>
        BY <3>2, <3>3, <4>1, AppendProperties
      <4>2. CASE current_size <= MaxSize
        BY <2>3, <3>1, <3>3, <4>2
      <4> QED BY <2>3, <3>1, <4>1, <4>2
    <3> QED BY <2>1, <2>3, <3>2, <3>4
  <2> QED BY <2>1, <2>2, <2>3
<1>12. CASE WriteToNull
  BY <1>12 DEF WriteToNull, sinkVars
<1> QED BY <1>1, <1>2, <1>3, <1>4, <1>5, <1>6, <1>7, <1>8, <1>9, <1>10, <1>11, <1>12 DEF Next

-----------------------------------------------------------------------------
(* A message that is late by less than a day is at most one day early for   *)
(* the file.                                                                *)
LEMMA DayBefore ==
  ASSUME NEW d \in Nat, NEW now \in Nat, NEW time \in Nat,
         d * Day <= now, now - MaxDelay <= time
  PROVE  d - 1 <= Date(time)
<1>1. Day \in Nat /\ MaxDelay \in Nat /\ MaxDelay < Day
  BY SinkAssumption
<1>2. (d - 1) * Day = d * Day - Day /\ d * Day \in Nat
  BY <1>1
<1>3. (d - 1) * Day <= time
  BY <1>1, <1>2
<1> QED BY <1>3, DateAbove

(* A message before the rotation is at most one day late for the file.      *)
LEMMA DayAfter ==
  ASSUME NEW d \in Nat, NEW time \in Nat, NEW tp \in Int, time < tp, tp <= (d + 2) * Day
  PROVE  Date(time) <= d + 1
<1>1. (d + 2) * Day \in Int
  BY SinkAssumption
<1>2. time < (d + 2) * Day
  BY <1>1
<1>3. Date(time) < d + 2
  BY <1>2, DateBelow
<1> QED BY <1>3, DateOf

(* The rotation that a late message computes from the clock is at most two  *)
(* midnights after its own day.                                             *)
LEMMA DayLate ==
  ASSUME NEW now \in Nat, NEW time \in Nat, now <= time + MaxDelay
  PROVE  (Date(now) + 1) * Day <= (Date(time) + 2) * Day
<1>1. Day \in Nat /\ MaxDelay \in Nat /\ MaxDelay < Day
  BY SinkAssumption
<1>2. Date(time) \in Nat /\ Date(now) \in Nat /\ time < (Date(time) + 1) * Day
  BY DateOf
<1>3. (Date(time) + 2) * Day = (Date(time) + 1) * Day + Day /\ (Date(time) + 1) * Day \in Nat
  BY <1>1, <1>2
<1>4. now < (Date(time) + 2) * Day
  BY <1>1, <1>2, <1>3
<1>5. Date(now) < Date(time) + 2
  BY <1>2, <1>4, DateBelow
<1> QED BY <1>2, <1>5, TimesMonotonic

(* The next rotation stays within two midnights of the file that is open.   *)
LEMMA DayStep ==
  ASSUME SinkTypeOK, OpenOK, DayOK, Next
  PROVE  DayOK'
<1>1. CASE Start
  <2>1. PICK name \in Names :
           /\ kind = "daily" => name = Date(clock)
           /\ fd' = name /\ filename' = name
           /\ rotation_tp' = IF kind = "daily" THEN next_rotation_tp(clock) ELSE 0
    BY <1>1, StartFacts
  <2>2. pc' = "idle" /\ kind' = kind /\ clock' = clock /\ clock \in Nat
    BY <1>1 DEF Start, Construct, sinkVars, SinkTypeOK
  <2>3. ASSUME kind = "daily", RotationTime = 0
        PROVE  rotation_tp' <= (fd' + 2) * Day /\ fd' * Day <= clock
    <3>1. Date(clock) \in Nat /\ Date(clock) * Day <= clock
      BY <2>2, DateOf
    <3>2. rotation_tp' = (Date(clock) + 1) * Day
      BY <2>1, <2>2, <2>3, NextRotation
    <3>3. (Date(clock) + 1) * Day <= (Date(clock) + 2) * Day
      BY <3>1, TimesMonotonic
    <3> QED BY <2>1, <2>3, <3>1, <3>2, <3>3
  <2> QED BY <2>2, <2>3 DEF DayOK
<1>2. CASE Die
  BY <1>2 DEF Die, DayOK, sinkVars
<1>3. CASE ClockTicks
  <2>1. clock' = clock + 1 /\ clock \in Nat /\ msg.time \in Nat /\ MaxDelay \in Nat /\ Day \in Nat
    BY <1>3, SinkAssumption DEF ClockTicks, SinkTypeOK
  <2>2. UNCHANGED <<kind, pc, fd, filename, rotation_tp, msg>>
    BY <1>3 DEF ClockTicks, sinkVars
  <2>3. pc \notin {"dead", "idle"} => clock' <= msg.time + MaxDelay
    BY <1>3, <2>1 DEF ClockTicks
  <2>4. ASSUME fd # Nil, fd * Day <= clock PROVE fd * Day <= clock'
    <3>1. fd \in Nat
      BY <2>4, NameTypes DEF SinkTypeOK
    <3>2. fd * Day \in Nat
      BY <2>1, <3>1
    <3> QED BY <2>1, <2>4, <3>2
  <2> QED BY <2>2, <2>3, <2>4 DEF DayOK
<1>4. ASSUME NEW size \in SizesOf(kind), NEW time \in (clock - MaxDelay)..clock,
             time >= 0, Log(size, time)
      PROVE  DayOK'
  <2>1. /\ clock \in Nat /\ MaxDelay \in Nat /\ time \in Nat /\ clock' = clock
        /\ clock - MaxDelay <= time /\ clock <= time + MaxDelay
    BY <1>4, SinkAssumption DEF SinkTypeOK, Log
  <2>2. msg'.time = time /\ kind' = kind /\ rotation_tp' = rotation_tp /\ pc = "idle"
    BY <1>4 DEF Log, sinkVars
  <2>3. CASE kind # "daily"
    BY <2>1, <2>2, <2>3 DEF DayOK
  <2>4. CASE kind = "daily"
    <3>1. DailySinkIt(time)
      BY <1>4, <2>4 DEF Log, RotatingSinkIt, BasicSinkIt
    <3>2. CASE time >= rotation_tp
      BY <2>1, <2>2, <3>1, <3>2 DEF DailySinkIt, DayOK
    <3>3. CASE ~(time >= rotation_tp)
      <4>1. fd' = fd /\ pc' = "write"
        BY <3>1, <3>3 DEF DailySinkIt
      <4>2. ASSUME fd # Nil, RotationTime = 0
            PROVE  fd - Date(time) \in {-1, 0, 1}
        <5>1. fd \in Nat /\ rotation_tp \in Int /\ time < rotation_tp
          BY <2>1, <3>3, <4>2, NameTypes DEF SinkTypeOK
        <5>2. rotation_tp <= (fd + 2) * Day /\ fd * Day <= clock
          BY <2>4, <4>2 DEF DayOK
        <5>3. Date(time) <= fd + 1
          BY <2>1, <5>1, <5>2, DayAfter
        <5>4. fd - 1 <= Date(time)
          BY <2>1, <5>1, <5>2, DayBefore
        <5>5. Date(time) \in Nat
          BY <2>1, DateOf
        <5> QED BY <5>1, <5>3, <5>4, <5>5
      <4> QED BY <2>1, <2>2, <4>1, <4>2 DEF DayOK
    <3> QED BY <3>2, <3>3
  <2> QED BY <2>3, <2>4
<1>5. CASE RemoveTarget
  BY <1>5 DEF RemoveTarget, OpenOK, DayOK, sinkVars
<1>6. CASE RemoveFails
  BY <1>6 DEF RemoveFails, Throw, OpenOK, DayOK, sinkVars
<1>7. CASE RenameSource
  BY <1>7 DEF RenameSource, OpenOK, DayOK, sinkVars
<1>8. CASE RenameFails
  BY <1>8 DEF RenameFails, Throw, OpenOK, DayOK, sinkVars
<1>9. CASE Reopen
  <2>1. /\ fd' = filename /\ UNCHANGED <<kind, clock, msg>> /\ pc = "reopen" /\ pc' = "write"
        /\ rotation_tp' = IF kind = "daily" THEN next_rotation_tp(clock) ELSE rotation_tp
    BY <1>9 DEF Reopen, sinkVars
  <2>2. clock \in Nat /\ msg.time \in Nat /\ msg.time <= clock /\ clock <= msg.time + MaxDelay
    BY <2>1 DEF SinkTypeOK, DayOK
  <2>3. ASSUME kind = "daily", RotationTime = 0
        PROVE  /\ rotation_tp' <= (fd' + 2) * Day /\ fd' * Day <= clock
               /\ fd' - Date(msg.time) = 0
    <3>1. fd' = Date(msg.time)
      BY <2>1, <2>3 DEF DayOK
    <3>2. rotation_tp' = (Date(clock) + 1) * Day
      BY <2>1, <2>2, <2>3, NextRotation
    <3>3. Date(msg.time) \in Nat /\ Date(msg.time) * Day \in Int /\ Date(msg.time) * Day <= msg.time
      BY <2>2, DateOf, SinkAssumption
    <3> QED BY <2>2, <3>1, <3>2, <3>3, DayLate
  <2> QED BY <2>1, <2>2, <2>3 DEF DayOK
<1>10. CASE ReopenFails
  BY <1>10 DEF ReopenFails, Throw, OpenOK, DayOK, sinkVars
<1>11. ASSUME NEW bytes \in 0..msg.size, Write(bytes)
       PROVE  DayOK'
  BY <1>11, WriteFrame DEF DayOK
<1>12. CASE WriteToNull
  BY <1>12 DEF WriteToNull, DayOK, sinkVars
<1> QED
  BY <1>1, <1>2, <1>3, <1>4, <1>5, <1>6, <1>7, <1>8, <1>9, <1>10, <1>11, <1>12 DEF Next

(* What is written to a dated file is of its day or a neighbouring one.     *)
LEMMA DatedStep ==
  ASSUME SinkTypeOK, OpenOK, DayOK, AtMostADayOff, Next
  PROVE  AtMostADayOff'
<1> SUFFICES ASSUME kind = "daily", RotationTime = 0, kind' = kind,
                    NEW n \in Names, files'[n] # Nil, NEW k \in 1..Len(files'[n].parts)
             PROVE  n - Date(files'[n].parts[k].time) \in {-1, 0, 1}
  <2>1. kind' = kind
    BY KindStays
  <2> QED BY <2>1 DEF AtMostADayOff
<1>1. ASSUME files'[n] = files[n] PROVE n - Date(files'[n].parts[k].time) \in {-1, 0, 1}
  BY <1>1 DEF AtMostADayOff
<1>2. ASSUME NEW name \in Names, NEW trunc \in BOOLEAN, files' = Opened(name, trunc)
      PROVE  n - Date(files'[n].parts[k].time) \in {-1, 0, 1}
  <2>1. files'[n] = files[n] \/ files'[n] = NewFile
    BY <1>2, OpenedFacts
  <2>2. files'[n] # NewFile
    BY DEF NewFile
  <2> QED BY <1>1, <2>1, <2>2
<1>3. CASE Start
  BY <1>2, <1>3, StartFacts
<1>4. CASE Reopen
  <2>1. filename \in Names /\ (kind = "rotating" \/ truncate) \in BOOLEAN
    BY <1>4 DEF Reopen, OpenOK, SinkTypeOK
  <2> QED BY <1>2, <1>4, <2>1 DEF Reopen
<1>5. ASSUME NEW bytes \in 0..msg.size, Write(bytes)
      PROVE  n - Date(files'[n].parts[k].time) \in {-1, 0, 1}
  <2> DEFINE part == [id |-> msg.id, bytes |-> bytes, time |-> msg.time]
  <2>1. CASE bytes = 0 \/ n # fd
    BY <1>1, <1>5, <2>1, WriteFacts
  <2>2. CASE bytes # 0 /\ n = fd
    <3>1. /\ files[fd] \in Contents /\ part \in Parts
          /\ files'[fd] = [parts |-> Append(files[fd].parts, part), length |-> files[fd].length + bytes]
      BY <1>5, <2>2, WriteFacts
    <3>2. fd - Date(part.time) \in {-1, 0, 1} /\ fd # Nil
      BY <1>5, WriteFrame DEF DayOK
    <3>3. files[fd] # Nil
      BY <3>1, NilAssumption
    <3> HIDE DEF part
    <3>4. files[fd].parts \in Seq(Parts) /\ files'[n].parts = Append(files[fd].parts, part)
      BY <2>2, <3>1 DEF Contents
    <3>5. CASE k = Len(files[fd].parts) + 1
      <4>1. files'[n].parts[k] = part
        BY <3>1, <3>4, <3>5, AppendProperties
      <4> QED BY <2>2, <3>2, <4>1
    <3>6. CASE k # Len(files[fd].parts) + 1
      <4>1. k \in 1..Len(files[fd].parts) /\ files'[n].parts[k] = files[fd].parts[k]
        BY <3>1, <3>4, <3>6, AppendProperties
      <4> QED BY <2>2, <3>3, <4>1 DEF AtMostADayOff
    <3> QED BY <3>5, <3>6
  <2> QED BY <2>1, <2>2
<1>6. CASE RemoveTarget \/ RenameSource
  BY <1>6 DEF RemoveTarget, RenameSource, OpenOK
<1>7. ASSUME NEW size \in SizesOf(kind), NEW time \in (clock - MaxDelay)..clock, Log(size, time)
      PROVE  n - Date(files'[n].parts[k].time) \in {-1, 0, 1}
  BY <1>1, <1>7 DEF Log
<1>8. CASE Die \/ ClockTicks \/ RemoveFails \/ RenameFails \/ ReopenFails \/ WriteToNull
  BY <1>1, <1>8 DEF Die, ClockTicks, RemoveFails, RenameFails, ReopenFails, WriteToNull
<1> QED BY <1>3, <1>4, <1>5, <1>6, <1>7, <1>8 DEF Next

-----------------------------------------------------------------------------
(* A segment of a sequence stays when something is appended.                *)
LEMMA SegmentStays ==
  ASSUME NEW s \in Seq(Parts), NEW x \in Parts, NEW a \in 0..Len(s), NEW b \in 0..Len(s)
  PROVE  SubSeq(Append(s, x), a + 1, b) = SubSeq(s, a + 1, b)
<1> DEFINE t == Append(s, x)
<1>1. /\ t \in Seq(Parts) /\ Len(t) = Len(s) + 1 /\ Len(s) \in Nat
      /\ \A i \in 1..Len(s) : t[i] = s[i] /\ s[i] \in Parts
  BY AppendProperties
<1> HIDE DEF t
<1>2. \A i \in a + 1..b : s[i] \in Parts /\ t[i] \in Parts /\ t[i] = s[i]
  BY <1>1
<1>3. /\ SubSeq(s, a + 1, b) \in Seq(Parts) /\ SubSeq(t, a + 1, b) \in Seq(Parts)
      /\ Len(SubSeq(t, a + 1, b)) = Len(SubSeq(s, a + 1, b))
      /\ Len(SubSeq(s, a + 1, b)) = IF a + 1 <= b THEN b - a ELSE 0
      /\ \A i \in 1..b - a : SubSeq(s, a + 1, b)[i] = s[a + i] /\ SubSeq(t, a + 1, b)[i] = t[a + i]
  <2>1. /\ SubSeq(s, a + 1, b) \in Seq(Parts)
        /\ Len(SubSeq(s, a + 1, b)) = IF a + 1 <= b THEN b - (a + 1) + 1 ELSE 0
        /\ \A i \in 1..b - (a + 1) + 1 : SubSeq(s, a + 1, b)[i] = s[a + 1 + i - 1]
    BY <1>2, SubSeqProperties, a + 1 \in Int, b \in Int
  <2>2. /\ SubSeq(t, a + 1, b) \in Seq(Parts)
        /\ Len(SubSeq(t, a + 1, b)) = IF a + 1 <= b THEN b - (a + 1) + 1 ELSE 0
        /\ \A i \in 1..b - (a + 1) + 1 : SubSeq(t, a + 1, b)[i] = t[a + 1 + i - 1]
    BY <1>2, SubSeqProperties, a + 1 \in Int, b \in Int
  <2>3. b - (a + 1) + 1 = b - a /\ \A i \in 1..b - a : a + 1 + i - 1 = a + i
    BY <1>1
  <2> QED BY <2>1, <2>2, <2>3
<1>4. \A i \in 1..Len(SubSeq(s, a + 1, b)) : SubSeq(t, a + 1, b)[i] = SubSeq(s, a + 1, b)[i]
  <2> SUFFICES ASSUME NEW i \in 1..Len(SubSeq(s, a + 1, b))
               PROVE  SubSeq(t, a + 1, b)[i] = SubSeq(s, a + 1, b)[i]
    OBVIOUS
  <2>1. i \in 1..b - a /\ a + i \in a + 1..b
    BY <1>3
  <2> QED BY <1>2, <1>3, <2>1
<1>5. SubSeq(t, a + 1, b) = SubSeq(s, a + 1, b)
  BY <1>3, <1>4, SeqEqual
<1> QED BY <1>5 DEF t

(* The last segment grows by what is appended.                              *)
LEMMA SegmentGrows ==
  ASSUME NEW s \in Seq(Parts), NEW x \in Parts, NEW a \in 0..Len(s)
  PROVE  SubSeq(Append(s, x), a + 1, Len(s) + 1) = Append(SubSeq(s, a + 1, Len(s)), x)
<1> DEFINE t == Append(s, x)
           m == Len(s)
           u == SubSeq(s, a + 1, m)
           v == SubSeq(t, a + 1, m + 1)
<1>1. /\ t \in Seq(Parts) /\ Len(t) = m + 1 /\ m \in Nat /\ a \in 0..m /\ t[m + 1] = x
      /\ \A i \in 1..m : t[i] = s[i] /\ s[i] \in Parts
  BY AppendProperties
<1>2. /\ u \in Seq(Parts) /\ Len(u) = m - a
      /\ \A i \in 1..m - a : u[i] = s[a + i]
  <2>1. /\ u \in Seq(Parts) /\ Len(u) = IF a + 1 <= m THEN m - (a + 1) + 1 ELSE 0
        /\ \A i \in 1..m - (a + 1) + 1 : u[i] = s[a + 1 + i - 1]
    <3>1. \A i \in a + 1..m : s[i] \in Parts
      BY <1>1
    <3> QED BY <1>1, <3>1, SubSeqProperties, a + 1 \in Int, m \in Int
  <2> HIDE DEF u, m
  <2>2. m - (a + 1) + 1 = m - a /\ (a + 1 <= m \/ m - a = 0)
    BY <1>1
  <2>3. \A i \in 1..m - a : a + 1 + i - 1 = a + i
    BY <1>1
  <2> QED BY <2>1, <2>2, <2>3
<1>3. /\ v \in Seq(Parts) /\ Len(v) = m + 1 - a
      /\ \A i \in 1..m + 1 - a : v[i] = t[a + i]
  <2>1. /\ v \in Seq(Parts) /\ Len(v) = IF a + 1 <= m + 1 THEN m + 1 - (a + 1) + 1 ELSE 0
        /\ \A i \in 1..m + 1 - (a + 1) + 1 : v[i] = t[a + 1 + i - 1]
    <3> HIDE DEF t
    <3>1. \A i \in a + 1..m + 1 : t[i] \in Parts
      BY <1>1
    <3> QED BY <1>1, <3>1, SubSeqProperties, a + 1 \in Int, m + 1 \in Int
  <2> HIDE DEF t, v, m
  <2>2. m + 1 - (a + 1) + 1 = m + 1 - a /\ a + 1 <= m + 1
    BY <1>1
  <2>3. \A i \in 1..m + 1 - a : a + 1 + i - 1 = a + i
    BY <1>1
  <2> QED BY <2>1, <2>2, <2>3
<1> HIDE DEF t, u, v, m
<1>4. /\ Append(u, x) \in Seq(Parts) /\ Len(Append(u, x)) = m - a + 1
      /\ \A i \in 1..m - a : Append(u, x)[i] = u[i]
      /\ Append(u, x)[m - a + 1] = x
  BY <1>2, AppendProperties
<1>5. \A i \in 1..Len(v) : v[i] = Append(u, x)[i]
  <2> SUFFICES ASSUME NEW i \in 1..Len(v) PROVE v[i] = Append(u, x)[i]
    OBVIOUS
  <2>1. i \in 1..m + 1 - a /\ a \in 0..m
    BY <1>3 DEF m
  <2>2. CASE i = m + 1 - a
    BY <1>1, <1>3, <1>4, <2>1, <2>2
  <2>3. CASE i # m + 1 - a
    <3>1. i \in 1..m - a /\ a + i \in 1..m
      BY <1>1, <2>1, <2>3
    <3> QED BY <1>1, <1>2, <1>3, <1>4, <2>1, <3>1
  <2> QED BY <2>2, <2>3
<1>6. Len(v) = Len(Append(u, x))
  BY <1>1, <1>3, <1>4 DEF m
<1>7. v = Append(u, x)
  BY <1>3, <1>4, <1>5, <1>6, SeqEqual
<1> QED BY <1>7 DEF t, u, v, m

-----------------------------------------------------------------------------
(* The files stay the end of what was accepted.  A rotation moves one cut   *)
(* at a time, and only its first step drops anything, the oldest file.      *)
LEMMA CutStep ==
  ASSUME SinkTypeOK, OpenOK, FreeOK, FilesAreTheEnd, Next
  PROVE  FilesAreTheEnd'
<1> SUFFICES ASSUME kind = "rotating"
             PROVE  \E new \in [0..MaxFiles + 1 -> 0..Len(accepted')] : AreCutAt(new)'
  BY KindStays DEF FilesAreTheEnd
<1> DEFINE m == Len(accepted)
<1>1. PICK cut \in [0..MaxFiles + 1 -> 0..m] : AreCutAt(cut)
  BY DEF FilesAreTheEnd
<1>2. m \in Nat /\ accepted \in Seq(Parts) /\ MaxFiles \in Nat
  BY SinkAssumption DEF SinkTypeOK
<1>3. /\ cut[0] = m
      /\ \A n \in 0..MaxFiles : /\ cut[n + 1] <= cut[n]
                                /\ files[n] = Nil => cut[n + 1] = cut[n]
                                /\ files[n] # Nil => files[n].parts = SubSeq(accepted, cut[n + 1] + 1, cut[n])
  BY <1>1 DEF AreCutAt
<1>4. \A n \in 0..MaxFiles : n \in Names /\ n + 1 \in 0..MaxFiles + 1 /\ n \in 0..MaxFiles + 1
  BY <1>2, NameFacts
<1> HIDE DEF m
<1>5. ASSUME files' = files, accepted' = accepted
      PROVE  \E new \in [0..MaxFiles + 1 -> 0..Len(accepted')] : AreCutAt(new)'
  <2>1. cut \in [0..MaxFiles + 1 -> 0..Len(accepted')]
    BY <1>1, <1>5 DEF m
  <2>2. AreCutAt(cut)'
    BY <1>1, <1>5 DEF AreCutAt
  <2> QED BY <2>1, <2>2
(* A file that comes into being is empty: the cut before it is its own.     *)
<1>6. ASSUME NEW new \in [0..MaxFiles + 1 -> 0..m], accepted' = accepted, new[0] = m,
             \A n \in 0..MaxFiles :
               /\ new[n + 1] <= new[n]
               /\ files'[n] = Nil => new[n + 1] = new[n]
               /\ files'[n] # Nil => files'[n].parts = SubSeq(accepted, new[n + 1] + 1, new[n])
      PROVE  \E c \in [0..MaxFiles + 1 -> 0..Len(accepted')] : AreCutAt(c)'
  <2>1. new \in [0..MaxFiles + 1 -> 0..Len(accepted')]
    BY <1>6 DEF m
  <2>2. AreCutAt(new)'
    BY <1>6 DEF AreCutAt, m
  <2> QED BY <2>1, <2>2
<1>7. /\ \A c \in 0..m : SubSeq(accepted, c + 1, c) = <<>>
      /\ \A file : file = NewFile => file.parts = <<>>
  <2>1. ASSUME NEW c \in 0..m PROVE SubSeq(accepted, c + 1, c) = <<>>
    BY <1>2, SubSeqEmpty, c \in Int, c + 1 \in Int, c < c + 1
  <2> QED BY <2>1 DEF NewFile
<1>8. CASE Start
  <2>1. files' = Opened(0, FALSE) /\ accepted' = accepted /\ 0 \in Names
    BY <1>8, StartFacts, NameFacts DEF Start
  <2>2. /\ \A n \in Names \ {0} : files'[n] = files[n]
        /\ files'[0] # Nil
        /\ files[0] = Nil => files'[0] = NewFile
        /\ files[0] # Nil => files'[0] = files[0]
    BY <2>1, OpenedFacts
  <2>3. files[0] = Nil => files'[0].parts = SubSeq(accepted, cut[1] + 1, cut[0])
    <3>1. ASSUME files[0] = Nil PROVE cut[1] = cut[0] /\ cut[0] \in 0..m
      <4>1. 0 \in 0..MaxFiles /\ 0 + 1 = 1
        BY <1>2
      <4> QED BY <1>1, <1>2, <1>3, <3>1, <4>1
    <3>2. ASSUME files[0] = Nil PROVE files'[0].parts = <<>>
      BY <1>7, <2>2, <3>2
    <3> QED BY <3>1, <3>2, <1>7
  <2>4. ASSUME NEW n \in 0..MaxFiles
        PROVE  /\ cut[n + 1] <= cut[n]
               /\ files'[n] = Nil => cut[n + 1] = cut[n]
               /\ files'[n] # Nil => files'[n].parts = SubSeq(accepted, cut[n + 1] + 1, cut[n])
    <3>1. CASE n = 0
      BY <1>3, <2>2, <2>3, <2>4, <3>1
    <3>2. CASE n # 0
      BY <1>3, <1>4, <2>2, <2>4, <3>2
    <3> QED BY <3>1, <3>2
  <2> QED BY <1>1, <1>3, <1>6, <2>1, <2>4
<1>9. CASE RemoveTarget
  <2>1. /\ index \in 1..MaxFiles /\ index \in Names /\ accepted' = accepted
        /\ files' = [files EXCEPT ![index] = Nil] /\ files \in [Names -> Contents \cup {Nil}]
        /\ index # MaxFiles => files[index] = Nil
    BY <1>4, <1>9 DEF RemoveTarget, OpenOK, FreeOK, SinkTypeOK
  <2>2. files'[index] = Nil /\ \A n \in Names \ {index} : files'[n] = files[n]
    BY <2>1
  <2> DEFINE new == IF index = MaxFiles THEN [cut EXCEPT ![MaxFiles + 1] = cut[MaxFiles]] ELSE cut
  <2>3. /\ new \in [0..MaxFiles + 1 -> 0..m]
        /\ \A n \in 0..MaxFiles : new[n] = cut[n]
        /\ index = MaxFiles => new[MaxFiles + 1] = cut[MaxFiles]
        /\ index # MaxFiles => new[MaxFiles + 1] = cut[MaxFiles + 1]
    BY <1>1, <1>2
  <2> HIDE DEF new
  <2>4. new[0] = m
    BY <1>2, <1>3, <2>3
  <2>5. ASSUME NEW n \in 0..MaxFiles
        PROVE  /\ new[n + 1] <= new[n]
               /\ files'[n] = Nil => new[n + 1] = new[n]
               /\ files'[n] # Nil => files'[n].parts = SubSeq(accepted, new[n + 1] + 1, new[n])
    <3>1. cut[n] \in 0..m /\ cut[n + 1] \in 0..m /\ n \in Names
      BY <1>1, <1>4
    <3>2. CASE n = MaxFiles /\ index = MaxFiles
      BY <1>2, <2>2, <2>3, <3>1, <3>2
    <3>3. CASE n = MaxFiles /\ index # MaxFiles
      BY <1>2, <1>3, <2>2, <2>3, <3>1, <3>3
    <3>4. CASE n # MaxFiles
      <4>1. n + 1 \in 0..MaxFiles /\ new[n + 1] = cut[n + 1] /\ new[n] = cut[n]
        BY <1>2, <2>3, <3>4
      <4>2. files'[n] = files[n]
        BY <2>1, <2>2, <3>1, <3>4
      <4> QED BY <1>3, <4>1, <4>2
    <3> QED BY <3>2, <3>3, <3>4
  <2> QED BY <1>6, <2>1, <2>3, <2>4, <2>5
<1>10. CASE RenameSource
  <2>1. /\ index \in 1..MaxFiles /\ index \in Names /\ index - 1 \in Names /\ accepted' = accepted
        /\ index - 1 \in 0..MaxFiles /\ index \in 0..MaxFiles
    BY <1>2, <1>4, <1>10 DEF RenameSource, OpenOK
  <2>2. /\ files'[index] = files[index - 1] /\ files'[index - 1] = Nil /\ files[index] = Nil
        /\ \A n \in Names \ {index, index - 1} : files'[n] = files[n]
    BY <1>10, <2>1 DEF RenameSource, FreeOK, SinkTypeOK
  <2> DEFINE new == [cut EXCEPT ![index] = cut[index - 1]]
  <2>3. /\ new \in [0..MaxFiles + 1 -> 0..m]
        /\ new[index] = cut[index - 1]
        /\ \A n \in 0..MaxFiles + 1 : n # index => new[n] = cut[n]
    BY <1>1, <1>2, <2>1
  <2> HIDE DEF new
  <2>4. new[0] = m
    BY <1>2, <1>3, <2>1, <2>3
  <2>5. cut[index + 1] = cut[index]
    BY <1>3, <2>1, <2>2
  <2>6. /\ cut[index - 1 + 1] <= cut[index - 1]
        /\ files[index - 1] = Nil => cut[index - 1 + 1] = cut[index - 1]
        /\ files[index - 1] # Nil => files[index - 1].parts = SubSeq(accepted, cut[index - 1 + 1] + 1, cut[index - 1])
    BY <1>3, <2>1
  <2>7. index - 1 + 1 = index
    BY <2>1
  <2>8. ASSUME NEW n \in 0..MaxFiles
        PROVE  /\ new[n + 1] <= new[n]
               /\ files'[n] = Nil => new[n + 1] = new[n]
               /\ files'[n] # Nil => files'[n].parts = SubSeq(accepted, new[n + 1] + 1, new[n])
    <3>1. CASE n = index
      <4>1. new[n + 1] = cut[index] /\ new[n] = cut[index - 1]
        BY <1>4, <2>1, <2>3, <2>5, <3>1
      <4> QED BY <2>2, <2>6, <2>7, <3>1, <4>1
    <3>2. CASE n = index - 1
      <4>1. new[n + 1] = cut[n] /\ new[n] = cut[n] /\ cut[n] \in 0..m
        BY <1>1, <1>4, <2>1, <2>3, <2>7, <3>2
      <4> QED BY <1>2, <2>2, <3>2, <4>1
    <3>3. CASE n # index /\ n # index - 1
      <4>1. new[n + 1] = cut[n + 1] /\ new[n] = cut[n] /\ files'[n] = files[n]
        BY <1>4, <2>1, <2>2, <2>3, <3>3
      <4> QED BY <1>3, <4>1
    <3> QED BY <3>1, <3>2, <3>3
  <2> QED BY <1>6, <2>1, <2>3, <2>4, <2>8
<1>11. CASE Reopen
  <2>1. /\ filename = 0 /\ 0 \in Names /\ accepted' = accepted /\ files' = Opened(0, TRUE)
        /\ MaxFiles # 0 => files[0] = Nil
    BY <1>4, <1>11, NameFacts DEF Reopen, OpenOK, FreeOK
  <2>2. files'[0] = NewFile /\ files'[0] # Nil /\ \A n \in Names \ {0} : files'[n] = files[n]
    BY <2>1, OpenedFacts
  <2> DEFINE new == [cut EXCEPT ![1] = cut[0]]
  <2>3. /\ new \in [0..MaxFiles + 1 -> 0..m] /\ new[0] = m /\ new[1] = m /\ m \in 0..m
        /\ \A n \in 0..MaxFiles + 1 : n # 1 => new[n] = cut[n]
        /\ MaxFiles # 0 => cut[1] = m
    <3>1. 0 \in 0..MaxFiles /\ 1 \in 0..MaxFiles + 1 /\ 0 \in 0..MaxFiles + 1
      BY <1>2
    <3>2. MaxFiles # 0 => cut[0 + 1] = cut[0]
      BY <1>3, <2>1, <3>1
    <3> QED BY <1>1, <1>2, <1>3, <3>1, <3>2
  <2> HIDE DEF new
  <2>4. ASSUME NEW n \in 0..MaxFiles
        PROVE  /\ new[n + 1] <= new[n]
               /\ files'[n] = Nil => new[n + 1] = new[n]
               /\ files'[n] # Nil => files'[n].parts = SubSeq(accepted, new[n + 1] + 1, new[n])
    <3>1. CASE n = 0
      <4>1. new[n + 1] = m /\ new[n] = m
        BY <2>3, <3>1
      <4>2. files'[n].parts = <<>> /\ SubSeq(accepted, m + 1, m) = <<>>
        BY <1>7, <2>2, <2>3, <3>1
      <4>3. files'[n] # Nil /\ new[n + 1] <= new[n]
        BY <1>2, <2>2, <3>1, <4>1
      <4>4. files'[n].parts = SubSeq(accepted, new[n + 1] + 1, new[n])
        BY <4>1, <4>2
      <4> QED BY <4>3, <4>4
    <3>2. CASE n # 0
      <4>1. new[n + 1] = cut[n + 1] /\ new[n] = cut[n] /\ files'[n] = files[n]
        <5>1. n \in Names \ {0} /\ n \in 0..MaxFiles + 1 /\ n + 1 \in 0..MaxFiles + 1 /\ n + 1 # 1
          BY <1>2, <1>4, <3>2
        <5>2. new[n] = cut[n]
          <6>1. CASE n = 1
            <7>1. MaxFiles # 0
              BY <1>2, <6>1
            <7> QED BY <2>3, <6>1, <7>1
          <6> QED BY <2>3, <5>1, <6>1
        <5> QED BY <2>2, <2>3, <5>1, <5>2
      <4> QED BY <1>3, <4>1
    <3> QED BY <3>1, <3>2
  <2> QED BY <1>6, <2>1, <2>3, <2>4
<1>12. ASSUME NEW bytes \in 0..msg.size, Write(bytes)
       PROVE  \E new \in [0..MaxFiles + 1 -> 0..Len(accepted')] : AreCutAt(new)'
  <2>1. CASE bytes = 0
    BY <1>5, <1>12, <2>1, WriteFacts
  <2>2. CASE bytes # 0
    <3> DEFINE part == [id |-> msg.id, bytes |-> bytes, time |-> msg.time]
    <3>1. fd = 0
      BY <1>12, WriteFrame DEF OpenOK
    <3>2. files[0] # Nil
      BY <1>12, <3>1, WriteFrame DEF OpenOK
    <3>3. /\ part \in Parts /\ files[0] \in Contents /\ accepted' = Append(accepted, part)
          /\ files'[0] = [parts |-> Append(files[0].parts, part), length |-> files[0].length + bytes]
          /\ files'[0] \in Contents
          /\ \A n \in Names \ {0} : files'[n] = files[n]
      BY <1>12, <2>2, <3>1, WriteFacts
    <3> HIDE DEF part
    <3>4. files'[0].parts = Append(files[0].parts, part)
      BY <3>3
    <3>5. Len(accepted') = m + 1
      BY <1>2, <3>3, AppendProperties DEF m
    <3>6. PICK new \in [0..MaxFiles + 1 -> 0..m + 1] :
            new[0] = m + 1 /\ \A n \in 0..MaxFiles + 1 : n # 0 => new[n] = cut[n]
      <4> DEFINE c == [cut EXCEPT ![0] = m + 1]
      <4>1. /\ c \in [0..MaxFiles + 1 -> 0..m + 1] /\ c[0] = m + 1
            /\ \A n \in 0..MaxFiles + 1 : n # 0 => c[n] = cut[n]
        BY <1>1, <1>2
      <4> HIDE DEF c
      <4> QED BY <4>1
    <3>7. ASSUME NEW n \in 0..MaxFiles
          PROVE  /\ new[n + 1] <= new[n]
                 /\ files'[n] = Nil => new[n + 1] = new[n]
                 /\ files'[n] # Nil => files'[n].parts = SubSeq(accepted', new[n + 1] + 1, new[n])
      <4>1. cut[n + 1] \in 0..m /\ cut[n] \in 0..m /\ new[n + 1] = cut[n + 1] /\ n \in Names
        BY <1>1, <1>2, <1>4, <3>6
      <4>2. CASE n = 0
        <5>1. files[0].parts = SubSeq(accepted, cut[n + 1] + 1, m)
          BY <1>3, <3>2, <4>2
        <5>2. SubSeq(accepted', cut[n + 1] + 1, m + 1) = Append(files[0].parts, part)
          BY <1>2, <3>3, <4>1, <5>1, SegmentGrows DEF m
        <5>3. files'[0] # Nil
          BY <3>3, NilAssumption
        <5>4. new[n] = m + 1 /\ new[n + 1] <= m + 1 /\ new[n + 1] = cut[n + 1]
          BY <1>2, <3>6, <4>1, <4>2
        <5> QED BY <3>4, <4>2, <5>2, <5>3, <5>4
      <4>3. CASE n # 0
        <5>1. new[n] = cut[n] /\ files'[n] = files[n]
          BY <1>4, <3>3, <3>6, <4>1, <4>3
        <5>2. SubSeq(accepted', cut[n + 1] + 1, cut[n]) = SubSeq(accepted, cut[n + 1] + 1, cut[n])
          BY <1>2, <3>3, <4>1, SegmentStays DEF m
        <5> QED BY <1>3, <4>1, <5>1, <5>2
      <4> QED BY <4>2, <4>3
    <3>8. new \in [0..MaxFiles + 1 -> 0..Len(accepted')]
      BY <3>5, <3>6
    <3>9. new[0] = Len(accepted')
      BY <3>5, <3>6
    <3>10. AreCutAt(new)'
      BY <3>7, <3>9 DEF AreCutAt
    <3> QED BY <3>8, <3>10
  <2> QED BY <2>1, <2>2
<1>13. ASSUME NEW size \in SizesOf(kind), NEW time \in (clock - MaxDelay)..clock, Log(size, time)
       PROVE  \E new \in [0..MaxFiles + 1 -> 0..Len(accepted')] : AreCutAt(new)'
  BY <1>5, <1>13 DEF Log
<1>14. CASE Die \/ ClockTicks \/ RemoveFails \/ RenameFails \/ ReopenFails \/ WriteToNull
  BY <1>5, <1>14 DEF Die, ClockTicks, RemoveFails, RenameFails, ReopenFails, WriteToNull
<1> QED BY <1>8, <1>9, <1>10, <1>11, <1>12, <1>13, <1>14 DEF Next

-----------------------------------------------------------------------------
(* Before the process first starts there is no file, and nothing accepted.  *)
LEMMA InitSink == Init => SinkInv
<1> SUFFICES ASSUME Init PROVE SinkInv
  OBVIOUS
<1> USE DEF Init
<1>1. clock \in 0..Day - 1 /\ Day \in Nat \ {0}
  BY SinkAssumption
<1>2. SinkTypeOK
  <2>1. clock \in Nat /\ clock < 1 * Day
    BY <1>1
  <2>2. Date(clock) = 0 /\ Date(MaxClock) \in Nat
    <3>1. Date(clock) \in Nat /\ Date(MaxClock) \in Nat
      BY <2>1, DateOf, SinkAssumption
    <3>2. \A n \in Int : clock < n * Day => Date(clock) < n
      BY <2>1, DateBelow
    <3>3. Date(clock) < 1
      BY <2>1, <3>2, 1 \in Int, Zenon
    <3> QED BY <3>1, <3>3
  <2>3. Date(clock) <= Date(MaxClock)
    BY <2>2
  <2>4. msg \in [id : Nat, size : Nat, time : Nat] /\ msg.time <= clock
    BY <2>1
  <2>5. kind \in {"rotating", "daily", "basic"} /\ truncate \in BOOLEAN
    BY SinkAssumption
  <2>6. accepted \in Seq(Parts)
    OBVIOUS
  <2>7. fault \in BOOLEAN
    BY Zenon
  <2> QED BY <2>1, <2>3, <2>4, <2>5, <2>6, <2>7, SinkAssumption DEF SinkTypeOK
<1>3. OpenOK /\ SizeOK /\ FreeOK /\ LossOK /\ DayOK
  BY DEF OpenOK, SizeOK, FreeOK, LossOK, DayOK
<1>4. FilesAreTheEnd
  <2>1. PICK cut \in [0..MaxFiles + 1 -> 0..Len(accepted)] : \A n \in 0..MaxFiles + 1 : cut[n] = 0
    <3> DEFINE c == [n \in 0..MaxFiles + 1 |-> 0]
    <3>1. 0 \in 0..Len(accepted)
      OBVIOUS
    <3>2. c \in [0..MaxFiles + 1 -> 0..Len(accepted)] /\ \A n \in 0..MaxFiles + 1 : c[n] = 0
      BY <3>1
    <3> HIDE DEF c
    <3> QED BY <3>2
  <2>2. \A n \in 0..MaxFiles : files[n] = Nil
    BY NameFacts
  <2>3. Len(accepted) = 0
    OBVIOUS
  <2>4. \A n \in 0..MaxFiles : cut[n + 1] = 0 /\ cut[n] = 0
    BY <2>1, SinkAssumption
  <2>5. cut[0] = 0
    BY <2>1, SinkAssumption
  <2>6. AreCutAt(cut)
    BY <2>2, <2>3, <2>4, <2>5 DEF AreCutAt
  <2> QED BY <2>1, <2>6 DEF FilesAreTheEnd
<1>5. FilesAreBounded /\ AtMostADayOff
  BY DEF FilesAreBounded, AtMostADayOff
<1> QED BY <1>2, <1>3, <1>4, <1>5 DEF SinkInv

(* Every step of the sink, of the clock and of the file system keeps the    *)
(* invariant.                                                               *)
LEMMA SinkStep == SinkInv /\ [Next]_vars => SinkInv'
<1> SUFFICES ASSUME SinkInv, [Next]_vars PROVE SinkInv'
  OBVIOUS
<1>1. CASE Next
  <2>1. /\ SinkTypeOK /\ OpenOK /\ SizeOK /\ FreeOK /\ LossOK /\ DayOK
        /\ FilesAreTheEnd /\ FilesAreBounded /\ AtMostADayOff
    BY DEF SinkInv
  <2>2. SinkTypeOK' /\ OpenOK' /\ SizeOK' /\ FreeOK' /\ LossOK' /\ DayOK'
    BY <1>1, <2>1, TypeStep, OpenStep, SizeStep, FreeStep, LossStep, DayStep
  <2>3. FilesAreTheEnd' /\ FilesAreBounded' /\ AtMostADayOff'
    BY <1>1, <2>1, CutStep, BoundedStep, DatedStep
  <2> QED BY <2>2, <2>3 DEF SinkInv
<1>2. CASE UNCHANGED vars
  BY <1>2 DEF SinkInv, SinkTypeOK, OpenOK, SizeOK, FreeOK, LossOK, DayOK, FilesAreTheEnd,
              AreCutAt, FilesAreBounded, AtMostADayOff, vars, sinkVars
<1> QED BY <1>1, <1>2

(* The sinks keep their invariant, whatever fails and whenever the process  *)
(* dies: for every limit, every number of files and every message length.   *)
THEOREM SinkIsSound == Spec => []SinkInv
<1> QED BY InitSink, SinkStep, PTL DEF Spec

(* NoWriteToNull, for all constants: after any number of failed rotations   *)
(* neither the rotating nor the basic sink writes to a closed stream.       *)
THEOREM SinksWriteToOpenFiles == Spec => []NoWriteToNull
<1>1. SinkInv => NoWriteToNull
  BY DEF SinkInv, SinkTypeOK, OpenOK, NoWriteToNull
<1> QED BY <1>1, SinkIsSound, PTL

(* FilesAreTheEnd, for all constants: rotate_ loses the oldest file and     *)
(* nothing else, and keeps the order.                                       *)
THEOREM RotationKeepsTheEnd == Spec => []FilesAreTheEnd
<1>1. SinkInv => FilesAreTheEnd
  BY DEF SinkInv
<1> QED BY <1>1, SinkIsSound, PTL

(* FilesAreBounded, for all constants: max_size_ is kept across failed      *)
(* rotations and restarts.                                                  *)
THEOREM RotatedFilesAreBounded == Spec => []FilesAreBounded
<1>1. SinkInv => FilesAreBounded
  BY DEF SinkInv
<1> QED BY <1>1, SinkIsSound, PTL

(* OnlyFaultsLose, for all constants: a call in which nothing failed has    *)
(* written its message, in whole and last.                                  *)
THEOREM CleanCallsWrite == Spec => []OnlyFaultsLose
<1>1. SinkInv => OnlyFaultsLose
  BY DEF SinkInv, LossOK, OnlyFaultsLose
<1> QED BY <1>1, SinkIsSound, PTL

(* AtMostADayOff, for all constants: with a rotation at midnight the daily  *)
(* sink is off by one day at most, if no message is late by a day.          *)
THEOREM DailyFilesAreDated == Spec => []AtMostADayOff
<1>1. SinkInv => AtMostADayOff
  BY DEF SinkInv
<1> QED BY <1>1, SinkIsSound, PTL
=============================================================================
