-------------------------------- MODULE Fmt --------------------------------
(***************************************************************************)
(* fmt::format_to, the library that spdlog::logger formats its messages    *)
(* with: the parser of format strings (parse_format_string and what it     *)
(* calls), the numbering of arguments, the checks of a specification       *)
(* against the type of its argument, and the writing of integers, floating *)
(* point numbers, strings, characters, bools and pointers.                 *)
(*                                                                         *)
(* A string is a sequence of one-character strings.  parse_format_string   *)
(* is the state machine, a step for each turn of its loop; what a          *)
(* replacement field does is a function of the parser's state.             *)
(***************************************************************************)
EXTENDS MemoryBuffer, SequencesExt

CONSTANTS
  MaxInt,         \* numeric_limits<int>::max
  MaxLong,        \* numeric_limits<long long>::max
  MaxPackedArgs,  \* max_packed_args
  InlineSize,     \* inline_buffer_size
  Snprintf(_, _)  \* what snprintf makes of a positive number with a specification

ASSUME BufferAssumption == InlineSize \in Nat \ {0} /\ MaxPackedArgs \in Nat \ {0}
ASSUME WidthAssumption == MaxInt \in Nat /\ MaxInt >= 9 /\ MaxLong \in Nat /\ MaxLong >= MaxInt

VARIABLES
  call,    \* the format string fs and the arguments args of the call
  it,      \* where the parser is in the format string
  start,   \* where the text begins that has not been copied
  next,    \* next_arg_id_: -1 when indexing is manual
  out,     \* the buffer that is written to
  fields,  \* the replacement fields that have been written
  status   \* "run", "done" or "error", after format_error

fmtVars == <<call, it, start, next, out, fields, status>>

(* null_terminating_iterator: the end reads as a character of its own. *)
End == ""
At(i) == IF i <= Len(call.fs) THEN call.fs[i] ELSE End

Numerals == <<"0", "1", "2", "3", "4", "5", "6", "7", "8", "9", "a", "b", "c", "d", "e", "f">>
UpperNumerals == <<"0", "1", "2", "3", "4", "5", "6", "7", "8", "9", "A", "B", "C", "D", "E", "F">>
Decimals == {Numerals[k] : k \in 1..10}
DigitValue(c) == (CHOOSE k \in 1..10 : Numerals[k] = c) - 1
(* A letter or "_"; these are the letters of the formats checked here. *)
is_name_start(c) == c \in {"_", "a", "b", "B", "c", "d", "n", "o", "p", "s", "x", "X"}

Repeat(c, n) == [k \in 1..n |-> c]

-----------------------------------------------------------------------------
(* Arguments: a type, the value of an integer (or the address of a string,  *)
(* or the sign of a floating point number), and the text of a string or a   *)
(* character (or the absolute value of a floating point number).  A named   *)
(* argument is an argument with a name.                                     *)
is_integral(type) == type \in {"int", "uint", "long_long", "ulong_long", "bool", "char"}
is_arithmetic(type) == is_integral(type) \/ type \in {"double", "long_double"}
is_signed(type) == is_integral(type) => type \in {"int", "long_long", "char"}

(* make_value: the types of C++ are few to the formatter. *)
make_value(type) ==
  CASE type \in {"short", "int", "signed char", "enum"} -> "int"
    [] type \in {"unsigned short", "unsigned", "unsigned char"} -> "uint"
    [] type \in {"long", "long long"} -> "long_long"
    [] type \in {"unsigned long", "unsigned long long"} -> "ulong_long"
    [] type \in {"float", "double"} -> "double"
    [] type = "long double" -> "long_double"
    [] type \in {"char *", "const char *"} -> "cstring"
    [] type \in {"string_view", "const std::string &"} -> "string"
    [] type \in {"void *", "nullptr_t"} -> "pointer"
    [] OTHER -> type    \* bool and char
make_arg(arg) == [arg EXCEPT !.type = make_value(arg.type)]

(* format_arg_store and basic_format_args: the types of few arguments are   *)
(* packed into one word, where those after the last read as none; many are  *)
(* kept with their number.                                                  *)
IsPacked == Len(call.args) < MaxPackedArgs
get_types == [k \in 0..MaxPackedArgs |->
                IF k < Len(call.args) THEN make_value(call.args[k + 1].type) ELSE "none"]
do_get(index) ==
  IF IsPacked THEN index <= MaxPackedArgs /\ get_types[index] # "none"
  ELSE index < Len(call.args)
get(k) == make_arg(call.args[k])

DefaultSpecs ==
  [fill |-> " ", align |-> "default", sign |-> "none", hash |-> FALSE,
   width |-> 0, precision |-> -1, type |-> End]

(* A parser: where it is, the next automatic argument, the argument that it *)
(* has found (its index in args), the specification, and whether an error   *)
(* has been reported.                                                       *)
Failed(p) == [p EXCEPT !.ok = FALSE]

(* parse_nonnegative_int: the value stops growing before it can overflow.   *)
RECURSIVE ParseDigits(_, _)
ParseDigits(i, value) ==
  IF value > MaxInt \div 10 THEN [it |-> i, value |-> MaxInt + 1]
  ELSE LET v == value * 10 + DigitValue(At(i)) IN
       IF At(i + 1) \in Decimals THEN ParseDigits(i + 1, v) ELSE [it |-> i + 1, value |-> v]
parse_nonnegative_int_below(p) ==    \* the largest int is taken for an overflow
  LET n == ParseDigits(p.it, 0) IN
  [it |-> n.it, value |-> n.value, ok |-> n.value < MaxInt]
parse_nonnegative_int(p) ==
  LET n == ParseDigits(p.it, 0) IN
  [it |-> n.it, value |-> n.value, ok |-> n.value <= MaxInt]

(* The argument with this index, if there is one. *)
do_get_arg(p, id) == IF do_get(id) THEN [p EXCEPT !.arg = id + 1] ELSE Failed(p)

(* next_arg_id: the next argument, unless indexing is manual.               *)
next_arg_id(p) == IF p.next < 0 THEN Failed(p) ELSE do_get_arg([p EXCEPT !.next = @ + 1], p.next)

(* check_arg_id: indexing is manual from here, unless it is automatic       *)
(* already.                                                                 *)
check_arg_id(p, id) == IF p.next > 0 THEN Failed(p) ELSE do_get_arg([p EXCEPT !.next = -1], id)

(* arg_map: the arguments of that name, and the first of them. *)
Named(name) == {k \in 1..Len(call.args) : call.args[k].name = name}
find(named) == CHOOSE k \in named : \A j \in named : k <= j
get_named_arg(p, name) ==
  IF Named(name) = {} THEN Failed(p) ELSE [p EXCEPT !.arg = find(Named(name))]

(* parse_arg_id: nothing, a number or a name. *)
RECURSIVE NameEnd(_)
NameEnd(i) == IF is_name_start(At(i)) \/ At(i) \in Decimals THEN NameEnd(i + 1) ELSE i
parse_arg_id(p) ==
  LET c == At(p.it)
      n == parse_nonnegative_int(p)
      e == NameEnd(p.it + 1) IN
  CASE c \in {"}", ":"} -> next_arg_id(p)
    [] c \in Decimals ->
         IF ~n.ok \/ At(n.it) \notin {"}", ":"} THEN Failed(p)
         ELSE check_arg_id([p EXCEPT !.it = n.it], n.value)
    [] c \notin Decimals /\ is_name_start(c) ->
         get_named_arg([p EXCEPT !.it = e], SubSeq(call.fs, p.it, e - 1))
    [] OTHER -> Failed(p)

-----------------------------------------------------------------------------
(* parse_format_specs, in its order, with the checks of specs_checker       *)
(* against the type of the argument.                                        *)
Align(c) == CASE c = "<" -> "left" [] c = ">" -> "right" [] c = "=" -> "numeric"
              [] c = "^" -> "center" [] OTHER -> "default"

require_numeric_argument(p, type) == IF is_arithmetic(type) THEN p ELSE Failed(p)
check_sign(p, type) == IF is_arithmetic(type) /\ is_signed(type) THEN p ELSE Failed(p)

on_align(p, align, type) ==
  [(IF align = "numeric" THEN require_numeric_argument(p, type) ELSE p) EXCEPT !.spec.align = align]
on_sign(p, sign, type) == [check_sign(p, type) EXCEPT !.spec.sign = sign]
on_hash(p, type) == [require_numeric_argument(p, type) EXCEPT !.spec.hash = TRUE]
on_zero(p, type) ==
  [require_numeric_argument(p, type) EXCEPT !.spec.align = "numeric", !.spec.fill = "0"]
end_precision(p, type) == IF is_integral(type) \/ type = "pointer" THEN Failed(p) ELSE p

parse_fill_align(p, type) ==
  LET second == Align(At(p.it + 1))
      first == Align(At(p.it)) IN
  CASE second # "default" ->
         IF At(p.it) = "{" THEN Failed(p)
         ELSE on_align([p EXCEPT !.it = @ + 2, !.spec.fill = At(p.it)], second, type)
    [] second = "default" /\ first # "default" -> on_align([p EXCEPT !.it = @ + 1], first, type)
    [] OTHER -> p

parse_sign(p, type) ==
  LET sign == CASE At(p.it) = "+" -> "plus" [] At(p.it) = "-" -> "minus" [] At(p.it) = " " -> "space"
                [] OTHER -> "none" IN
  IF sign = "none" THEN p
  ELSE on_sign([p EXCEPT !.it = @ + 1], sign, type)

parse_hash(p, type) ==
  IF At(p.it) # "#" THEN p ELSE on_hash([p EXCEPT !.it = @ + 1], type)

parse_zero(p, type) ==
  IF At(p.it) # "0" THEN p ELSE on_zero([p EXCEPT !.it = @ + 1], type)

(* width_checker and precision_checker: an integer that is not negative; and *)
(* set_dynamic_spec: it fits into an int.                                    *)
is_count(arg) == is_integral(arg.type) /\ arg.type \notin {"bool", "char"} /\ arg.value >= 0
set_dynamic_spec(arg) == is_count(arg) /\ arg.value <= MaxInt

(* A number, or the argument that holds it.  The field keeps its own        *)
(* argument.                                                                *)
parse_count(p) ==
  LET n == parse_nonnegative_int(p)
      d == parse_arg_id([p EXCEPT !.it = @ + 1])
      arg == get(d.arg) IN
  CASE At(p.it) \in Decimals -> [p |-> [p EXCEPT !.it = n.it, !.ok = @ /\ n.ok], value |-> n.value]
    [] At(p.it) = "{" ->
         IF ~d.ok \/ ~set_dynamic_spec(arg) \/ At(d.it) # "}"
         THEN [p |-> Failed(p), value |-> 0]
         ELSE [p |-> [d EXCEPT !.it = @ + 1, !.arg = p.arg], value |-> arg.value]

parse_width(p) ==
  IF At(p.it) \notin Decimals \cup {"{"} THEN p
  ELSE LET n == parse_count(p) IN [n.p EXCEPT !.spec.width = n.value]

parse_precision(p, type) ==
  LET q == [p EXCEPT !.it = @ + 1] IN
  IF At(p.it) # "." THEN p
  ELSE IF At(q.it) \notin Decimals \cup {"{"} THEN Failed(p)
  ELSE LET n == parse_count(q) IN [end_precision(n.p, type) EXCEPT !.spec.precision = n.value]

parse_type(p) ==
  IF At(p.it) \in {"}", End} THEN p ELSE [p EXCEPT !.it = @ + 1, !.spec.type = At(p.it)]

(* A parser that has failed stays so, whatever is read after that. *)
parse_format_specs(p, type) ==
  IF At(p.it) \in {"}", End} THEN p
  ELSE parse_type(parse_precision(parse_width(parse_zero(parse_hash(parse_sign(parse_fill_align(
         p, type), type), type), type)), type))

-----------------------------------------------------------------------------
(* count_digits, with the number of significant bits for clz.               *)
PowersOf10 == <<0, 10, 100, 1000, 10000, 100000, 1000000, 10000000, 100000000, 1000000000>>
RECURSIVE Bits(_)
Bits(n) == IF n < 2 THEN 1 ELSE 1 + Bits(n \div 2)
count_digits_off_by_one(n) ==    \* one digit too few at the powers of ten
  LET t == (Bits(n) * 1233) \div 4096 IN
  t - (IF n <= PowersOf10[t + 1] THEN 1 ELSE 0) + 1
count_digits(n) ==
  LET t == (Bits(n) * 1233) \div 4096 IN
  t - (IF n < PowersOf10[t + 1] THEN 1 ELSE 0) + 1

(* The digits of a number, from the right into a buffer of that size; a     *)
(* separator follows every third digit but the last.                        *)
RECURSIVE Digits(_, _, _)
Digits(value, base, numerals) ==
  (IF value < base THEN <<>> ELSE Digits(value \div base, base, numerals))
    \o <<numerals[(value % base) + 1]>>
IntoBuffer(digits, size) ==
  [k \in 1..size |-> IF k > size - Len(digits) THEN digits[k - (size - Len(digits))] ELSE "?"]
format_decimal(value, size) == IntoBuffer(Digits(value, 10, Numerals), size)
format_uint(value, base, upper, size) ==
  IntoBuffer(Digits(value, base, IF upper THEN UpperNumerals ELSE Numerals), size)
add_thousands_sep(digits) ==
  LET n == Len(digits) IN
  FlattenSeq([k \in 1..n |-> IF k < n /\ (n - k) % 3 = 0 THEN <<digits[k], ",">> ELSE <<digits[k]>>])

(* int_writer::count_digits<BITS>. *)
RECURSIVE CountIn(_, _)
CountIn(n, base) == IF n < base THEN 1 ELSE 1 + CountIn(n \div base, base)

(* write_padded: fill on the side or sides that the alignment says.         *)
write_padded(text, spec) ==
  LET padding == spec.width - Len(text)
      left == CASE spec.align = "right" -> padding
                [] spec.align = "center" -> padding \div 2
                [] OTHER -> 0 IN
  IF padding <= 0 THEN text
  ELSE Repeat(spec.fill, left) \o text \o Repeat(spec.fill, padding - left)

(* basic_writer::write_int: numeric padding, or the zeros that a precision  *)
(* asks for, go between the prefix and the digits.                          *)
write_digits(prefix, digits, spec) ==
  LET size == Len(prefix) + Len(digits)
      padding == CASE spec.align = "numeric" /\ spec.width > size -> Repeat(spec.fill, spec.width - size)
                   [] spec.align # "numeric" /\ spec.precision > Len(digits) ->
                        Repeat("0", spec.precision - Len(digits))
                   [] OTHER -> <<>> IN
  write_padded(prefix \o padding \o digits, [spec EXCEPT !.align = IF @ = "default" THEN "right" ELSE @])

(* int_writer: the absolute value in the unsigned type of the argument, and *)
(* the sign.                                                                *)
Modulus(type) == 2 * ((IF type \in {"int", "uint", "bool", "char"} THEN MaxInt ELSE MaxLong) + 1)
abs_value(value, type) ==
  LET unsigned == value % Modulus(type) IN
  IF value < 0 THEN (0 - unsigned) % Modulus(type) ELSE value
SignOf(value, spec) ==
  CASE value < 0 -> <<"-">>
    [] value >= 0 /\ spec.sign = "plus" -> <<"+">>
    [] value >= 0 /\ spec.sign = "space" -> <<" ">>
    [] OTHER -> <<>>

(* format_int, which does without a specification. *)
format_int(value) ==
  (IF value < 0 THEN <<"-">> ELSE <<>>) \o Digits(abs_value(value, "long_long"), 10, Numerals)

(* handle_int_type_spec with int_writer: what is written for a type. *)
write_int(value, type, spec) ==
  LET abs == abs_value(value, type)
      sign == SignOf(value, spec)
      hash == IF spec.hash THEN <<"0", spec.type>> ELSE <<>> IN
  CASE spec.type \in {End, "d"} -> write_digits(sign, format_decimal(abs, count_digits(abs)), spec)
    [] spec.type \in {"x", "X"} ->
         write_digits(sign \o hash, format_uint(abs, 16, spec.type # "x", CountIn(abs, 16)), spec)
    [] spec.type \in {"b", "B"} ->
         write_digits(sign \o hash, format_uint(abs, 2, FALSE, CountIn(abs, 2)), spec)
    [] spec.type = "o" ->
         write_digits(IF spec.hash THEN sign \o <<"0">> ELSE sign,
                      format_uint(abs, 8, FALSE, CountIn(abs, 8)), spec)
    [] spec.type = "n" ->
         write_digits(sign, add_thousands_sep(format_decimal(abs, count_digits(abs))), spec)
handle_int_type_spec(type) == type \in {End, "d", "x", "X", "b", "B", "o", "n"}

(* write_str: no more of the string than the precision says. *)
write_str(text, spec) ==
  write_padded(IF spec.precision >= 0 /\ spec.precision < Len(text)
               THEN SubSeq(text, 1, spec.precision) ELSE text, spec)

write_char(text, spec) == write_padded(text, spec)

write_pointer(value, spec) ==
  write_int(value, "ulong_long", [spec EXCEPT !.sign = "none", !.hash = TRUE, !.type = "x"])

(* write_double_sprintf: snprintf is called again when the number and the   *)
(* character after it have not fitted.                                      *)
write_double_sprintf(arg, spec) ==
  LET number == Snprintf(arg.text, spec)
      first == NewBuffer(InlineSize)
      buffer == IF Len(number) < capacity(first) THEN first ELSE reserve(first, Len(number) + 1)
      fits == SubSeq(number, 1, IF Len(number) < capacity(buffer) THEN Len(number) ELSE capacity(buffer) - 1)
  IN  data(resize(CopyTo(buffer, 0, Append(fits, "nul")), Len(number)))

(* float_spec_handler: the type that snprintf is given. *)
FloatType(type) == IF type = End THEN "g" ELSE type

(* write_double: infinity and not-a-number have only the alignment that     *)
(* they are given; in other numbers numeric padding follows the sign.       *)
write_double(arg, spec) ==
  LET sign == SignOf(arg.value, spec)
      number == write_double_sprintf(arg, [spec EXCEPT !.type = FloatType(spec.type)])
      upper == spec.type \in {"G", "E", "F", "A"}
      narrower == [spec EXCEPT !.align = "right", !.width = IF sign # <<>> /\ @ > 0 THEN @ - 1 ELSE @] IN
  CASE arg.text = <<"nan">> -> write_padded(sign \o (IF upper THEN <<"N", "A", "N">> ELSE <<"n", "a", "n">>), spec)
    [] arg.text = <<"inf">> -> write_padded(sign \o (IF upper THEN <<"I", "N", "F">> ELSE <<"i", "n", "f">>), spec)
    [] spec.align = "numeric" /\ arg.text \notin {<<"nan">>, <<"inf">>} ->
         sign \o write_padded(number, narrower)
    [] OTHER -> write_padded(sign \o number, [spec EXCEPT !.align = IF @ = "default" THEN "right" ELSE @])
handle_float_type_spec(type) == type \in {End, "g", "G", "e", "E", "f", "F", "a", "A"}

(* What each type of argument makes of the type of the specification.       *)
handle_char_specs(spec) ==
  IF spec.type \in {End, "c"} THEN spec.align # "numeric" /\ spec.sign = "none" /\ ~spec.hash
  ELSE handle_int_type_spec(spec.type)
handle_cstring_type_spec(arg, type) == type = "p" \/ (type \in {End, "s"} /\ arg.value # 0)
check_string_type_spec(type) == type \in {End, "s"}
check_pointer_type_spec(type) == type \in {End, "p"}

(* arg_formatter: whether the argument can be written so ...                *)
Accepts(arg, spec) ==
  CASE arg.type \in {"int", "uint", "long_long", "ulong_long", "bool"} -> handle_int_type_spec(spec.type)
    [] arg.type \in {"double", "long_double"} -> handle_float_type_spec(spec.type)
    [] arg.type = "char" -> handle_char_specs(spec)
    [] arg.type = "cstring" -> handle_cstring_type_spec(arg, spec.type)
    [] arg.type = "string" -> check_string_type_spec(spec.type)
    [] arg.type = "pointer" -> check_pointer_type_spec(spec.type)

(* ... and what is written. *)
write_bool(arg, spec) ==
  IF spec.type = End THEN write_str(arg.text, spec) ELSE write_int(arg.value, "int", spec)
char_spec_handler(arg, spec) ==
  IF spec.type \in {End, "c"} THEN write_char(arg.text, spec) ELSE write_int(arg.value, "char", spec)
cstring_spec_handler(arg, spec) ==
  IF spec.type = "p" THEN write_pointer(arg.value, spec) ELSE write_str(arg.text, spec)
visit(arg, spec) ==
  CASE arg.type \in {"int", "uint", "long_long", "ulong_long"} -> write_int(arg.value, arg.type, spec)
    [] arg.type \in {"double", "long_double"} -> write_double(arg, spec)
    [] arg.type = "bool" -> write_bool(arg, spec)
    [] arg.type = "char" -> char_spec_handler(arg, spec)
    [] arg.type = "cstring" -> cstring_spec_handler(arg, spec)
    [] arg.type = "string" -> write_str(arg.text, spec)
    [] arg.type = "pointer" -> write_pointer(arg.value, spec)

-----------------------------------------------------------------------------
FmtInit(calls) ==
  /\ call \in calls
  /\ it = 1 /\ start = 1 /\ next = 0
  /\ out = NewBuffer(InlineSize) /\ fields = <<>>
  /\ status = "run"

(* on_text: what has been read since start. *)
Text(end) == SubSeq(call.fs, start, end - 1)

(* An ordinary character is left for on_text. *)
Character ==
  /\ status = "run" /\ At(it) \notin {"{", "}", End}
  /\ it' = it + 1
  /\ UNCHANGED <<call, start, next, out, fields, status>>

(* The second brace is text again. *)
EscapeKeepsBoth ==
  /\ status = "run" /\ At(it) \in {"{", "}"} /\ At(it + 1) = At(it)
  /\ out' = append(out, Text(it + 1))
  /\ it' = it + 2 /\ start' = it + 1
  /\ UNCHANGED <<call, next, fields, status>>

(* Two braces are the text up to the first of them. *)
Escape ==
  /\ status = "run" /\ At(it) \in {"{", "}"} /\ At(it + 1) = At(it)
  /\ out' = append(out, Text(it + 1))
  /\ it' = it + 2 /\ start' = it + 2
  /\ UNCHANGED <<call, next, fields, status>>

Error ==
  /\ status' = "error"
  /\ UNCHANGED <<call, it, start, next, out, fields>>

Unmatched ==
  /\ status = "run" /\ At(it) = "}" /\ At(it + 1) # "}"
  /\ Error

(* A replacement field: on_arg_id, then on_replacement_field or             *)
(* on_format_specs.                                                         *)
Parsed ==
  LET id == parse_arg_id([it |-> it + 1, next |-> next, arg |-> 0, spec |-> DefaultSpecs, ok |-> TRUE])
      p == [id EXCEPT !.it = @ + 1] IN
  IF ~id.ok THEN id
  ELSE IF At(id.it) = "}" THEN id
  ELSE IF At(id.it) = ":" THEN parse_format_specs(p, get(id.arg).type)
  ELSE Failed(id)

(* The field is what the argument has become ...                            *)
Written(p, before, text) ==
  /\ out' = append(before, text)
  /\ fields' = Append(fields, [from |-> it, to |-> p.it, arg |-> p.arg, spec |-> p.spec,
                               at |-> before.size, text |-> text])
  /\ it' = p.it + 1 /\ start' = p.it + 1
  /\ next' = p.next
  /\ UNCHANGED <<call, status>>

(* ... if the specification ends where the field does and suits it.         *)
Replaced(p, arg) ==
  IF ~p.ok \/ At(p.it) # "}" \/ ~Accepts(arg, p.spec) THEN Error
  ELSE Written(p, append(out, Text(it)), visit(arg, p.spec))

ReplacementField ==
  /\ status = "run" /\ At(it) = "{" /\ At(it + 1) # "{"
  /\ LET p == Parsed IN Replaced(p, get(p.arg))

Finish ==
  /\ status = "run" /\ At(it) = End
  /\ out' = append(out, Text(it))
  /\ status' = "done"
  /\ UNCHANGED <<call, it, start, next, fields>>

FmtNext == Character \/ Escape \/ Unmatched \/ ReplacementField \/ Finish

-----------------------------------------------------------------------------
(* What has been written is the format string with each field replaced and  *)
(* each doubled brace halved, and nothing else: doubling the braces of the  *)
(* text between the fields, and putting the fields back, gives the format   *)
(* string again.                                                            *)
Doubled(text) == FlattenSeq([k \in 1..Len(text) |->
                   IF text[k] \in {"{", "}"} THEN <<text[k], text[k]>> ELSE <<text[k]>>])
Between(k) ==
  SubSeq(data(out), IF k = 0 THEN 1 ELSE fields[k].at + Len(fields[k].text) + 1,
              IF k = Len(fields) THEN out.size ELSE fields[k + 1].at)
FormatIsEchoed ==
  status = "done" =>
    call.fs = FlattenSeq([k \in 1..2 * Len(fields) + 1 |->
                IF k % 2 = 1 THEN Doubled(Between((k - 1) \div 2))
                ELSE SubSeq(call.fs, fields[k \div 2].from, fields[k \div 2].to)])

(* A numeral, without its separators, stands for this number. *)
StandsFor(numeral, base, value) ==
  LET digit(c) == CHOOSE d \in 0..base - 1 : c \in {Numerals[d + 1], UpperNumerals[d + 1]}
      more(n, c) == IF c = "," THEN n
                    ELSE IF n > value \div base THEN value + 1 ELSE n * base + digit(c)
  IN  FoldLeft(more, 0, numeral) = value
Base(type) == CASE type \in {"x", "X"} -> 16 [] type \in {"b", "B"} -> 2 [] type = "o" -> 8 [] OTHER -> 10

(* A number is written as padding, sign, prefix, padding, digits and        *)
(* padding, with as much padding as the width asks for and where the        *)
(* alignment asks for it.                                                   *)
LaidOut(prefix, spec, text, IsNumeral(_)) ==
  LET Pads(aligns) == IF spec.align \in aligns THEN 0..spec.width ELSE {0}
  IN \E left \in Pads({"default", "right", "center"}), middle \in Pads({"numeric"}),
        right \in Pads({"left", "center"}) :
       LET from == left + Len(prefix) + middle + 1
           to == Len(text) - right
           digits == SubSeq(text, from, to) IN
       /\ from <= to
       /\ left + middle + right > 0 => Len(text) = spec.width
       /\ Len(text) >= spec.width
       /\ spec.align = "center" => right - left \in {0, 1}
       /\ text = Repeat(spec.fill, left) \o prefix \o Repeat(spec.fill, middle) \o digits
                   \o Repeat(spec.fill, right)
       /\ IsNumeral(digits)

(* The digits of an integer are the shortest numeral of its absolute value, *)
(* the smallest number of its type included.                                *)
IntegerIsWellWritten(value, spec, text) ==
  LET prefix == SignOf(value, spec) \o
        (CASE spec.hash /\ spec.type \in {"x", "X", "b", "B"} -> <<"0", spec.type>>
           [] spec.hash /\ spec.type = "o" -> <<"0">>
           [] OTHER -> <<>>)
      IsNumeral(digits) ==
        /\ \A k \in DOMAIN digits : (digits[k] = ",") <=>
             (spec.type = "n" /\ (Len(digits) - k) % 4 = 3)
        /\ digits[1] = "0" => Len(digits) = 1
        /\ \A k \in DOMAIN digits :
             digits[k] \in {","} \cup UNION {{Numerals[j], UpperNumerals[j]} : j \in 1..Base(spec.type)}
        /\ StandsFor(digits, Base(spec.type), IF value < 0 THEN -value ELSE value)
  IN  LaidOut(prefix, spec, text, IsNumeral)

(* Those of a floating point number are what snprintf makes of its absolute *)
(* value, however long that is.                                             *)
FloatIsWellWritten(arg, spec, text) ==
  LET IsNumeral(digits) == digits = Snprintf(arg.text, [spec EXCEPT !.type = FloatType(@)])
  IN  LaidOut(SignOf(arg.value, spec), spec, text, IsNumeral)

(* Every number that basic_writer has written stands for its argument and   *)
(* is laid out as its specification asks, at the ends of its type too.      *)
NumbersAreWellWritten ==
  \A k \in 1..Len(fields) :
    LET arg == get(fields[k].arg)
        spec == fields[k].spec IN
    /\ arg.type \in {"int", "uint", "long_long", "ulong_long"} =>
         IntegerIsWellWritten(arg.value, spec, fields[k].text)
    /\ arg.type = "double" /\ arg.text \notin {<<"nan">>, <<"inf">>} =>
         FloatIsWellWritten(arg, spec, fields[k].text)

(* A field that suits its argument is understood: the parser gets back      *)
(* the argument and every part of the specification that a format was       *)
(* printed from.                                                            *)
SpecsAreUnderstood ==
  call.printed => /\ status # "error"
                  /\ \A k \in 1..Len(fields) : fields[k].spec = call.spec /\ fields[k].arg = call.arg
=============================================================================
