----------------------------- MODULE MCLogText -----------------------------
(* Formats that are strings over a small alphabet, formats printed from a   *)
(* specification, as many arguments as the packed word has room for and     *)
(* more, and patterns at times on both sides of a second and of a change of *)
(* the local offset.                                                        *)
EXTENDS LogText, FiniteSets

StringsUpTo(chars, n) == UNION {[1..k -> chars] : k \in 0..n}

Arg(type, value, text, name) == [type |-> type, value |-> value, text |-> text, name |-> name]
SomeArgs == <<Arg("short", -31, <<>>, <<"n">>), Arg("const std::string &", 0, <<"a", "b", "}">>, <<>>),
              Arg("unsigned char", 12, <<>>, <<"n">>)>>

Call(fs, args) == [fs |-> fs, args |-> args, printed |-> FALSE, spec |-> DefaultSpecs, arg |-> 0]
Printed(fs, args, spec, arg) == [fs |-> fs, args |-> args, printed |-> TRUE, spec |-> spec, arg |-> arg]

(* snprintf, as far as the length of its result goes. *)
MCSnprintf(text, spec) == text \o Repeat("0", IF spec.precision < 0 THEN 0 ELSE spec.precision)

(* Every string of braces, colons, a digit, a name and a comma. *)
RawCalls ==
  {Call(fs, SomeArgs) : fs \in StringsUpTo({"{", "}", ":", "1", "n", ","}, 5)}

(* Arguments of every type with every short specification. *)
TypedArgs ==
  {Arg("int", -32, <<>>, <<>>), Arg("bool", 1, <<"true">>, <<>>), Arg("char", 10, <<"c">>, <<>>),
   Arg("char *", 0, <<>>, <<>>), Arg("char *", 26, <<"a", "b">>, <<>>), Arg("void *", 26, <<>>, <<>>),
   Arg("float", -1, <<"1", ".", "5">>, <<>>), Arg("double", 1, <<"nan">>, <<>>)}
TypedCalls ==
  {Call(<<"{", ":">> \o spec \o <<"}">>, <<arg, Arg("unsigned", 3, <<>>, <<>>)>>) :
     spec \in StringsUpTo({"=", "+", "#", "0", "3", ".", "{", "}", "x", "p", "c"}, 3), arg \in TypedArgs}

(* A specification, and the format that it is printed as. *)
Char(x, table) == IF x \in DOMAIN table THEN <<table[x]>> ELSE <<>>
FormatOf(spec, zero) ==
  <<"{", ":">> \o (IF zero \/ spec.align = "default" THEN <<>>
                   ELSE <<spec.fill>> \o Char(spec.align, [left |-> "<", right |-> ">", numeric |-> "=", center |-> "^"]))
    \o Char(spec.sign, [plus |-> "+", minus |-> "-", space |-> " "])
    \o (IF spec.hash THEN <<"#">> ELSE <<>>) \o (IF zero THEN <<"0">> ELSE <<>>)
    \o (IF spec.width = 0 THEN <<>> ELSE Digits(spec.width, 10, Numerals))
    \o (IF spec.precision < 0 THEN <<>> ELSE <<".">> \o Digits(spec.precision, 10, Numerals))
    \o (IF spec.type = End THEN <<>> ELSE <<spec.type>>) \o <<"}">>
Specs ==
  {s \in [fill : {" ", "*", "0"}, align : {"default", "left", "right", "numeric", "center"},
          sign : {"none", "plus", "minus", "space"}, hash : BOOLEAN, width : {0, 4, 7, MaxInt},
          precision : {-1}, type : {End, "d", "x", "X", "b", "o", "n"}] :
     s.align = "default" => s.fill = " "}
Numbers == {Arg("int", MaxInt, <<>>, <<>>), Arg("int", -MaxInt - 1, <<>>, <<>>),
            Arg("long", 0, <<>>, <<>>), Arg("long long", 1000, <<>>, <<>>)}
PrintedCalls ==
  {Printed(FormatOf(c[1], c[2]), <<c[3]>>, c[1], 1) :
     c \in {d \in Specs \X BOOLEAN \X Numbers : d[2] => d[1].align = "numeric" /\ d[1].fill = "0"}}

(* Digits at the powers of ten. *)
EdgeCalls ==
  {Call(<<"{", ":", type, "}">>, <<Arg("long", n, <<>>, <<>>)>>) :
     type \in {"d", "n", "b"}, n \in UNION {{10^k - 1, 10^k, -(10^k), 2^k - 1, 2^k} : k \in 0..8}}

(* Numbers that fill the buffer of snprintf, in it and past it. *)
FloatSpecs == {s \in [fill : {"*"}, align : {"default", "left", "right", "numeric", "center"}, sign : {"none", "plus"},
                       hash : BOOLEAN, width : {0, 1, 6, 9}, precision : -1..3, type : {End, "f", "G"}] :
                 s.align # "default"}
FloatCalls ==
  {Printed(FormatOf(spec, FALSE), <<Arg("double", sign, <<"1", ".", "5">>, <<>>)>>, spec, 1) :
     spec \in FloatSpecs, sign \in {-1, 1}}

(* Every argument of many, by its number and by its name. *)
Many(n) == [k \in 1..n |-> Arg("int", k, <<>>, IF k = n THEN <<"n">> ELSE <<>>)]
ManyCalls ==
  UNION {{Printed(<<"{">> \o Digits(id, 10, Numerals) \o <<"}">>, Many(n), DefaultSpecs, id + 1) : id \in 0..n - 1}
         \cup {Printed(<<"{", "n", "}">>, Many(n), DefaultSpecs, n)}
         \cup {Call(<<"{">> \o Digits(id, 10, Numerals) \o <<"}">>, Many(n)) : id \in n..n + 2} : n \in 13..17}

(* A clock of a year: summer time begins at second 46800. *)
MCLocalTime(secs) ==
  LET offset == IF secs < 46800 THEN -12630 ELSE -9000
      local == secs + offset + 86400
  IN  [year |-> 109, mon |-> 8, mday |-> 9 + local \div 86400, hour |-> (local \div 3600) % 24,
       min |-> (local \div 60) % 60, sec |-> local % 60, wday |-> (local \div 86400) % 7, gmtoff |-> offset]

LibrapidPattern == <<"[", "%", "H", ":", "%", "M", ":", "%", "S", ".", "%", "e", "]", "[", "%", "l", "]",
                     "[", "%", "n", "]", " ", "%", "v">>
FlagOrder == <<"n", "l", "L", "t", "v", "a", "A", "b", "h", "B", "c", "C", "Y", "D", "x", "m", "d", "H", "I", "M",
               "S", "e", "f", "F", "E", "p", "r", "R", "T", "X", "z", "P", "i", "+">>
AllFlags == FlattenSeq([k \in 1..Len(FlagOrder) |-> <<"%", FlagOrder[k], "|">>])
OneCall == {Call(<<"{", "}">>, <<Arg("string_view", 0, <<"a", "%">>, <<>>)>>)}
SomeCalls == {Call(<<"{", "}">>, <<Arg("const char *", 1, Repeat("a", n), <<>>)>>) : n \in 0..6}

MCCalls == [raw |-> RawCalls, typed |-> TypedCalls, printed |-> PrintedCalls, edge |-> EdgeCalls,
            float |-> FloatCalls, many |-> ManyCalls, one |-> OneCall, some |-> SomeCalls, clock |-> OneCall]
MCTimes == [kind \in DOMAIN MCCalls |->
              IF kind = "clock" THEN {[secs |-> s, nanos |-> n] : s \in {46799, 46800}, n \in {0, 7089010, 499999999}}
              ELSE {[secs |-> 46799, nanos |-> 0]}]
MCJobs ==
  [pattern : {<<"%", "v">>}, kind : {"raw", "typed", "printed", "edge", "float", "many"}, messages : {1}]
  \cup [pattern : {<<"%", "v">>}, kind : {"some"}, messages : {3}]
  \cup [pattern : {LibrapidPattern, AllFlags}, kind : {"clock"}, messages : {3}]
  \cup [pattern : StringsUpTo({"%", "v", "^", "$", "+", "q"}, 5), kind : {"one"}, messages : {1}]
=============================================================================
