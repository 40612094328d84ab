------------------------------ MODULE LogText ------------------------------
(***************************************************************************)
(* What a log call becomes: logger::log formats the message (Fmt), the     *)
(* text goes through a slot of the queue to a worker (MemoryBuffer), and   *)
(* each sink of the logger gives it to its own pattern_formatter, clones   *)
(* of one another (logger::set_pattern), and prints what that makes of it; *)
(* ansicolor_sink prints a part of it in colour.                           *)
(*                                                                         *)
(* pattern_formatter keeps the broken-down time of the last message, and   *)
(* "%+" the text of it; messages come from several threads, so that times  *)
(* go back as well as forward.  A text is a sequence of characters, in     *)
(* which a name (of a logger, a level, a day, a month) is one item.        *)
(***************************************************************************)
EXTENDS Fmt

CONSTANTS
  Jobs,          \* what is logged: a pattern, a kind of calls and the number of messages
  Calls,         \* the calls of a kind
  Times,         \* when they are made
  LocalTime(_),  \* localtime: the tm of a time in seconds, with tm_gmtoff
  Name,          \* the name of the logger
  Level,         \* the level of the messages
  Pid,           \* os::pid
  ThreadId,      \* os::thread_id
  AsyncSize      \* the characters inside an async_msg

VARIABLES
  job,        \* which of the jobs
  formatter,  \* cached state of each sink's pattern_formatter
  slot,       \* the text in the slot of the queue
  msg,        \* the message, as a worker has it
  sink,       \* how many sinks have logged it; the last sink was this one
  printed,    \* what that sink printed
  count       \* messages so far

textVars == <<job, formatter, slot, msg, sink, printed, count>>
vars == <<fmtVars, textVars>>

Sinks == 1..2                   \* a file sink and a colour sink
ColorOn == "<color>"
ColorOff == "<reset>"

level_names == <<"trace", "debug", "info", "warning", "error", "critical", "off">>
short_level_names == <<"T", "D", "I", "W", "E", "C", "O">>

-----------------------------------------------------------------------------
(* fmt_helper: append_int, pad2, pad3 and pad6. *)
append_int(n) == format_int(n)
ZeroPadded(width) == [DefaultSpecs EXCEPT !.align = "numeric", !.fill = "0", !.width = width]
Digit(n) == Numerals[n + 1]

pad2(n) ==
  CASE n > 99 -> append_int(n)
    [] n > 9 /\ n <= 99 -> <<Digit(n \div 10), Digit(n % 10)>>
    [] n >= 0 /\ n <= 9 -> <<"0", Digit(n)>>
    [] OTHER -> write_int(n, "int", ZeroPadded(2))
pad3(n) ==
  CASE n > 999 -> append_int(n)
    [] n > 99 /\ n <= 999 -> append_int(n \div 100) \o pad2(n % 100)
    [] n > 9 /\ n <= 99 -> <<"0", Digit(n \div 10), Digit(n % 10)>>
    [] n >= 0 /\ n <= 9 -> <<"0", "0", Digit(n)>>
    [] OTHER -> write_int(n, "int", ZeroPadded(3))
pad6(n) == IF n > 99999 THEN append_int(n) ELSE pad3(n \div 1000) \o pad3(n % 1000)

ampm(tm) == IF tm.hour >= 12 THEN "PM" ELSE "AM"
to12h(tm) == IF tm.hour > 12 THEN tm.hour - 12 ELSE tm.hour
days == <<"Sun", "Mon", "Tue", "Wed", "Thu", "Fri", "Sat">>
full_days == <<"Sunday", "Monday", "Tuesday", "Wednesday", "Thursday", "Friday", "Saturday">>
months == <<"Jan", "Feb", "Mar", "Apr", "May", "Jun", "Jul", "Aug", "Sept", "Oct", "Nov", "Dec">>
full_months == <<"January", "February", "March", "April", "May", "June", "July", "August",
                 "September", "October", "November", "December">>

-----------------------------------------------------------------------------
(* The flag formatters. *)
hms(tm) == pad2(tm.hour) \o <<":">> \o pad2(tm.min) \o <<":">> \o pad2(tm.sec)
c_formatter(tm) ==
  <<days[tm.wday + 1], " ", months[tm.mon + 1], " ">> \o append_int(tm.mday) \o <<" ">> \o hms(tm)
    \o <<" ">> \o append_int(tm.year + 1900)
D_formatter(tm) == pad2(tm.mon + 1) \o <<"/">> \o pad2(tm.mday) \o <<"/">> \o pad2(tm.year % 100)
r_formatter(tm) ==
  pad2(to12h(tm)) \o <<":">> \o pad2(tm.min) \o <<":">> \o pad2(tm.sec) \o <<" ", ampm(tm)>>
(* utc_minutes_offset: towards zero. *)
utc_minutes_offset(tm) == IF tm.gmtoff < 0 THEN -((-tm.gmtoff) \div 60) ELSE tm.gmtoff \div 60
z_formatter(tm) ==
  LET offset == utc_minutes_offset(tm)
      minutes == IF offset < 0 THEN -offset ELSE offset IN
  <<IF offset < 0 THEN "-" ELSE "+">> \o pad2(minutes \div 60) \o <<":">> \o pad2(minutes % 60)
F_formatter(m) == write_int(m.nanos, "long_long", ZeroPadded(9))

(* full_formatter: the date and time of this second ... *)
full_datetime(tm) ==
  <<"[">> \o append_int(tm.year + 1900) \o <<"-">> \o pad2(tm.mon + 1) \o <<"-">> \o pad2(tm.mday)
    \o <<" ">> \o hms(tm) \o <<".">>
(* ... then the milliseconds, the name, the level, which is the part to     *)
(* colour, and the message.                                                 *)
full_prefix(datetime, m) ==
  datetime \o pad3(m.nanos \div 1000000) \o <<"]", " ", "[", Name, "]", " ", "[">>

(* What a flag appends, for all flags but "+", "^" and "$": who logs and    *)
(* what, ...                                                                *)
WhoText(flag) ==
  CASE flag = "n" -> <<Name>>
    [] flag = "l" -> <<level_names[Level + 1]>>
    [] flag = "L" -> <<short_level_names[Level + 1]>>
OriginText(flag, m) ==
  CASE flag = "t" -> pad6(ThreadId)
    [] flag = "P" -> append_int(Pid)
    [] flag = "i" -> pad6(m.id)
    [] flag = "v" -> m.raw
(* ... names and numbers of the date, the time of day, the fraction of the  *)
(* second ...                                                               *)
NameText(flag, tm) ==
  CASE flag = "a" -> <<days[tm.wday + 1]>>
    [] flag = "A" -> <<full_days[tm.wday + 1]>>
    [] flag \in {"b", "h"} -> <<months[tm.mon + 1]>>
    [] flag = "B" -> <<full_months[tm.mon + 1]>>
DateText(flag, tm) ==
  CASE flag = "c" -> c_formatter(tm)
    [] flag = "C" -> pad2(tm.year % 100)
    [] flag = "Y" -> append_int(tm.year + 1900)
    [] flag \in {"D", "x"} -> D_formatter(tm)
    [] flag = "m" -> pad2(tm.mon + 1)
    [] flag = "d" -> pad2(tm.mday)
HourText(flag, tm) ==
  CASE flag = "H" -> pad2(tm.hour)
    [] flag = "I" -> pad2(to12h(tm))
    [] flag = "M" -> pad2(tm.min)
    [] flag = "S" -> pad2(tm.sec)
ClockText(flag, tm) ==
  CASE flag = "p" -> <<ampm(tm)>>
    [] flag = "r" -> r_formatter(tm)
    [] flag = "R" -> pad2(tm.hour) \o <<":">> \o pad2(tm.min)
    [] flag \in {"T", "X"} -> hms(tm)
    [] flag = "z" -> z_formatter(tm)
FractionText(flag, m) ==
  CASE flag = "e" -> pad3(m.nanos \div 1000000)
    [] flag = "f" -> pad6(m.nanos \div 1000)
    [] flag = "F" -> F_formatter(m)
    [] flag = "E" -> append_int(m.secs)
(* ... and the characters of the pattern.                                   *)
FlagText(f, m, tm) ==
  CASE f.flag = "user" -> f.text
    [] f.flag \in {"n", "l", "L"} -> WhoText(f.flag)
    [] f.flag \in {"t", "P", "i", "v"} -> OriginText(f.flag, m)
    [] f.flag \in {"a", "A", "b", "h", "B"} -> NameText(f.flag, tm)
    [] f.flag \in {"c", "C", "Y", "D", "x", "m", "d"} -> DateText(f.flag, tm)
    [] f.flag \in {"H", "I", "M", "S"} -> HourText(f.flag, tm)
    [] f.flag \in {"p", "r", "R", "T", "X", "z"} -> ClockText(f.flag, tm)
    [] f.flag \in {"e", "f", "F", "E"} -> FractionText(f.flag, m)
KnownFlags ==
  {"n", "l", "L", "t", "v", "a", "A", "b", "h", "B", "c", "C", "Y", "D", "x", "m", "d", "H", "I", "M", "S",
   "e", "f", "F", "E", "p", "r", "R", "T", "X", "z", "P", "i", "+", "^", "$"}

(* handle_flag_: an unknown flag appears as it is. *)
handle_flag(c) ==
  IF c \in KnownFlags THEN <<[flag |-> c]>>
  ELSE <<[flag |-> "user", text |-> <<"%">>], [flag |-> "user", text |-> <<c>>]>>

(* compile_pattern_: characters that no "%" precedes are gathered; a "%" at *)
(* the end is left out.                                                     *)
RECURSIVE Compile(_, _, _)
Compile(pattern, i, user_chars) ==
  LET gathered == IF user_chars = <<>> THEN <<>> ELSE <<[flag |-> "user", text |-> user_chars]>> IN
  CASE i > Len(pattern) -> gathered
    [] i <= Len(pattern) /\ pattern[i] # "%" -> Compile(pattern, i + 1, Append(user_chars, pattern[i]))
    [] i = Len(pattern) /\ pattern[i] = "%" -> gathered
    [] OTHER -> gathered \o handle_flag(pattern[i + 1]) \o Compile(pattern, i + 2, <<>>)
compile_pattern(pattern) == Compile(pattern, 1, <<>>)

-----------------------------------------------------------------------------
ZeroTm == [year |-> 0, mon |-> 0, mday |-> 0, hour |-> 0, min |-> 0, sec |-> 0, wday |-> 0, gmtoff |-> 0]

(* pattern_formatter, as it is constructed or cloned. *)
NewFormatter(pattern) ==
  LET flags == compile_pattern(pattern) IN
  [flags |-> flags, secs |-> 0, tm |-> ZeroTm,
   full |-> [k \in 1..Len(flags) |-> [secs |-> 0, text |-> <<>>]]]

(* full_formatter::format: the date and time are made again in a new        *)
(* second, and the level is the range to colour.                            *)
Cached(full, m, tm) ==
  IF full.secs # m.secs \/ full.text = <<>> THEN [secs |-> m.secs, text |-> full_datetime(tm)] ELSE full
FullText(done, before, m) ==
  [done EXCEPT !.text = before \o <<level_names[Level + 1], "]", " ">> \o m.raw,
               !.from = Len(before), !.to = Len(before) + 1]
FormatFull(done, k, m) ==
  FullText(done, done.text \o full_prefix(done.full[k].text, m), m)

(* One flag of the pattern: the text so far, the range to colour, and the   *)
(* cached text of the "%+" flags.                                           *)
FormatFlag(done, k, f, m, tm) ==
  CASE f.flag = "^" -> [done EXCEPT !.from = Len(done.text)]
    [] f.flag = "$" -> [done EXCEPT !.to = Len(done.text)]
    [] f.flag = "+" -> FormatFull([done EXCEPT !.full[k] = Cached(@, m, tm)], k, m)
    [] OTHER -> [done EXCEPT !.text = @ \o FlagText(f, m, tm)]

(* Time is taken to go forward only. *)
TmOfLater(fm, m) == IF m.secs > fm.secs THEN LocalTime(m.secs) ELSE fm.tm

(* pattern_formatter::format: the time is broken down once in a second.     *)
TmOf(fm, m) == IF m.secs # fm.secs THEN LocalTime(m.secs) ELSE fm.tm
Format(fm, m) ==
  [FoldLeft(LAMBDA done, k : FormatFlag(done, k, fm.flags[k], m, TmOf(fm, m)),
            [text |-> <<>>, from |-> m.from, to |-> m.to, full |-> fm.full],
            [k \in 1..Len(fm.flags) |-> k])
   EXCEPT !.text = Append(@, "eol")]

(* An empty range switches the colour on and off. *)
ColoredAlways(text, from, to) ==
  IF to >= from
  THEN SubSeq(text, 1, from) \o <<ColorOn>> \o SubSeq(text, from + 1, to) \o <<ColorOff>>
         \o SubSeq(text, to + 1, Len(text))
  ELSE text

(* ansicolor_sink::log: the range in colour, if there is one. *)
Colored(text, from, to) ==
  IF to > from
  THEN SubSeq(text, 1, from) \o <<ColorOn>> \o SubSeq(text, from + 1, to) \o <<ColorOff>>
         \o SubSeq(text, to + 1, Len(text))
  ELSE text

NewMessage(time, id) ==
  [secs |-> time.secs, nanos |-> time.nanos, id |-> id, raw |-> <<>>, queued |-> FALSE, from |-> 0, to |-> 0]

Init ==
  /\ job \in Jobs
  /\ FmtInit(Calls[job.kind])
  /\ formatter = [s \in Sinks |-> NewFormatter(job.pattern)]
  /\ slot = NewBuffer(AsyncSize)
  /\ \E time \in Times[job.kind] : msg = NewMessage(time, 0)
  /\ sink = 0 /\ printed = <<>> /\ count = 1

(* logger::log, in fmt; an error goes to the error handler, and the message *)
(* is given up.                                                             *)
FormatMessage == FmtNext /\ UNCHANGED textVars

(* async_msg: the text is copied into a message, which is moved into a slot *)
(* of the queue that has held others, and moved out by a worker, which      *)
(* copies it into a log_msg of its own.                                     *)
ThroughQueue ==
  LET sent == append(NewBuffer(AsyncSize), data(out))
      queued == Moved(slot, sent)
      taken == Moved(NewBuffer(AsyncSize), queued) IN
  /\ status = "done" /\ ~msg.queued
  /\ slot' = MovedFrom(queued)
  /\ msg' = [msg EXCEPT !.queued = TRUE, !.raw = data(append(NewBuffer(InlineSize), data(taken)))]
  /\ UNCHANGED <<fmtVars, job, formatter, sink, printed, count>>

(* logger::sink_it_: the next sink formats and prints the message; the      *)
(* range is kept in the message, for the next sink too.                     *)
Prints(s, done) ==
  /\ sink' = s
  /\ formatter' = [formatter EXCEPT ![s] =
       [@ EXCEPT !.secs = msg.secs, !.tm = TmOf(formatter[s], msg), !.full = done.full]]
  /\ msg' = [msg EXCEPT !.from = done.from, !.to = done.to]
  /\ printed' = IF s = 2 THEN Colored(done.text, done.from, done.to) ELSE done.text
SinkLogs ==
  /\ msg.queued /\ sink < 2
  /\ Prints(sink + 1, Format(formatter[sink + 1], msg))
  /\ UNCHANGED <<fmtVars, job, slot, count>>

(* The next log call, of any thread. *)
NextCall ==
  /\ status = "error" \/ sink = 2
  /\ count < job.messages
  /\ count' = count + 1
  /\ call' \in Calls[job.kind]
  /\ it' = 1 /\ start' = 1 /\ next' = 0 /\ out' = NewBuffer(InlineSize) /\ fields' = <<>> /\ status' = "run"
  /\ \E time \in Times[job.kind] : msg' = NewMessage(time, 0)
  /\ sink' = 0 /\ printed' = <<>>
  /\ UNCHANGED <<job, formatter, slot>>

(* All messages have been logged. *)
Over ==
  /\ status = "error" \/ sink = 2
  /\ count = job.messages
  /\ UNCHANGED vars

Next == FormatMessage \/ ThroughQueue \/ SinkLogs \/ NextCall \/ Over

Spec == Init /\ [][Next]_vars

-----------------------------------------------------------------------------
(* What the comments of pattern_formatter.h say of the flags that stand for *)
(* others.                                                                  *)
Expansion(c) ==
  CASE c \in {"D", "x"} -> <<"%", "m", "/", "%", "d", "/", "%", "C">>
    [] c = "r" -> <<"%", "I", ":", "%", "M", ":", "%", "S", " ", "%", "p">>
    [] c = "R" -> <<"%", "H", ":", "%", "M">>
    [] c \in {"T", "X"} -> <<"%", "H", ":", "%", "M", ":", "%", "S">>
    [] c = "+" -> <<"[", "%", "Y", "-", "%", "m", "-", "%", "d", " ", "%", "H", ":", "%", "M", ":", "%", "S",
                    ".", "%", "e", "]", " ", "[", "%", "n", "]", " ", "[", "%", "^", "%", "l", "%", "$",
                    "]", " ", "%", "v">>
Expanded(pattern) ==
  FlattenSeq([k \in 1..Len(compile_pattern(pattern)) |->
    LET f == compile_pattern(pattern)[k] IN
    IF f.flag \in {"D", "x", "r", "R", "T", "X", "+"} THEN compile_pattern(Expansion(f.flag)) ELSE <<f>>])

(* A number in at least so many digits. *)
Padded(n, width) == LET d == Digits(n, 10, Numerals) IN
  IF Len(d) >= width THEN d ELSE Repeat("0", width - Len(d)) \o d

(* What a flag that stands for itself means. *)
Meaning(f, m) ==
  LET tm == LocalTime(m.secs) IN
  CASE f.flag \in {"^", "$"} -> <<>>
    [] f.flag = "C" -> Padded(tm.year % 100, 2) [] f.flag = "Y" -> Padded(tm.year + 1900, 4)
    [] f.flag = "m" -> Padded(tm.mon + 1, 2) [] f.flag = "d" -> Padded(tm.mday, 2)
    [] f.flag = "H" -> Padded(tm.hour, 2) [] f.flag = "M" -> Padded(tm.min, 2)
    [] f.flag = "S" -> Padded(tm.sec, 2) [] f.flag = "e" -> Padded(m.nanos \div 1000000, 3)
    [] f.flag = "f" -> Padded(m.nanos \div 1000, 6) [] f.flag = "F" -> Padded(m.nanos, 9)
    [] f.flag = "v" -> data(out) [] f.flag = "E" -> Padded(m.secs, 1) [] f.flag = "t" -> Padded(ThreadId, 6)
    [] OTHER -> FlagText(f, m, tm)
MeaningOf(flags, m) == FlattenSeq([k \in 1..Len(flags) |-> Meaning(flags[k], m)])

(* A message is printed with its own time, though the formatters keep the   *)
(* time of the last one, with the text that it was formatted to, though     *)
(* that was copied and moved in between, and every flag prints what it      *)
(* stands for.                                                              *)
WithoutColor == SelectSeq(printed, LAMBDA c : c \notin {ColorOn, ColorOff})
TimeIsItsOwn ==
  sink > 0 => WithoutColor = Append(MeaningOf(Expanded(job.pattern), msg), "eol")

(* The part that is printed in colour is the one that the pattern marks.    *)
LastIndex(flags, c) == LET at == {k \in 1..Len(flags) : flags[k].flag = c}
                       IN IF at = {} THEN 0 ELSE CHOOSE k \in at : \A j \in at : j <= k
ColorIsMarked ==
  sink = 2 =>
    LET flags == Expanded(job.pattern)
        from == Len(MeaningOf(SubSeq(flags, 1, LastIndex(flags, "^")), msg))
        to == Len(MeaningOf(SubSeq(flags, 1, LastIndex(flags, "$")), msg)) IN
    IF to > from
    THEN /\ Len(printed) = Len(WithoutColor) + 2
         /\ printed[from + 1] = ColorOn /\ printed[to + 2] = ColorOff
    ELSE printed = WithoutColor
=============================================================================
