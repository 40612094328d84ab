----------------------------- MODULE UuidProofs -----------------------------
(***************************************************************************)
(* The parser never writes beyond its array, accepts exactly the Lenient   *)
(* strings and prints a UUID back as it was, whatever the string.          *)
(***************************************************************************)
EXTENDS Uuid, SequenceTheorems, TLAPS

(* A pair of digits spans none of the four dashes and does not end behind   *)
(* the string.                                                              *)
LEMMA PairAvoidsDashes ==
  ASSUME ParseInv, Store
  PROVE  /\ i + 2 <= Length
         /\ \A d \in Dashes : i # d /\ i + 1 # d
<1>1. \A d \in Dashes : At(d) = Dash
  BY DEF ParseInv, Store, AllDashes
<1>2. At(i) # Dash /\ At(i + 1) # Dash /\ At(i + 1) # 0
  BY DEF Store, IsDigit, Dash
<1>3. \A d \in Dashes : i # d /\ i + 1 # d
  BY <1>1, <1>2
<1>4. i + 1 < Length
  BY <1>2 DEF ParseInv, Store, At, Length
<1> QED BY <1>3, <1>4 DEF ParseInv, Length

(* Every turn of the loop keeps i ahead of 2j by the dashes passed.         *)
LEMMA ParseStep == ParseInv /\ [Next]_vars => ParseInv'
<1> SUFFICES ASSUME ParseInv, [Next]_vars PROVE ParseInv'
  OBVIOUS
<1>1. CASE Check
  BY <1>1 DEF Check, ParseInv, AllDashes, At, Passed, Length
<1>2. CASE SkipDash
  <2>1. 2 * j' + Passed' <= i'
    BY <1>2 DEF SkipDash, ParseInv, Passed, Length
  <2> QED BY <1>2, <2>1 DEF SkipDash, ParseInv, AllDashes, At, Length
<1>3. CASE Store
  <2>1. i + 2 <= Length /\ i # 8 /\ i # 13 /\ i # 18 /\ i # 23
          /\ i # 7 /\ i # 12 /\ i # 17 /\ i # 22
    BY <1>3, PairAvoidsDashes DEF Dashes, ParseInv, Length
  <2>2. Passed' = Passed
    BY <1>3, <2>1 DEF Store, Passed, ParseInv, Length
  <2>3. 2 * j' + Passed' <= i'
    <3>1. Passed \in Nat BY DEF Passed
    <3> QED BY <1>3, <2>2, <3>1 DEF Store, ParseInv, Length
  <2> QED BY <1>3, <2>1, <2>3 DEF Store, ParseInv, AllDashes, At, Length
<1>4. CASE BadDigit
  BY <1>4 DEF BadDigit, ParseInv, Passed
<1>5. CASE Return
  BY <1>5 DEF Return, ParseInv, Passed
<1>6. CASE UNCHANGED vars
  BY <1>6 DEF vars, ParseInv, AllDashes, At, Passed
<1> QED BY <1>1, <1>2, <1>3, <1>4, <1>5, <1>6 DEF Next, Done

(* The loop's invariant holds for every set of strings.                     *)
THEOREM ParseInductive == Spec => []ParseInv
<1>1. Init => ParseInv
  BY InputAssumption DEF Init, ParseInv, Passed, Length
<1> QED BY <1>1, ParseStep, PTL DEF Spec

(* parse_uuid_string stores at most 16 bytes, for every string: the         *)
(* unchecked index j stays within the array.                                *)
THEOREM ParserInBounds == Spec => []InBounds
<1>1. ParseInv => InBounds
  BY DEF ParseInv, InBounds, Passed, Length
<1> QED BY <1>1, ParseInductive, PTL

-----------------------------------------------------------------------------
(* What is accepted. *)

(* The run of other characters behind the last dash that i has passed       *)
(* starts at position a.                                                    *)
RunFrom(a) ==
  /\ a \in 1 .. i + 1
  /\ a = 1 \/ str[a - 1] = Dash
  /\ \A k \in a .. i : str[k] # Dash

(* Of a string that goes through the loop, the part that i has passed is    *)
(* lenient: i is an even number of characters into its run, and the runs    *)
(* that have ended are even.                                                *)
PassedOK ==
  /\ Len(str) = Length
  /\ \A d \in Dashes : str[d + 1] = Dash
  /\ \A k \in 1 .. i : str[k] \in HexDigits \cup {Dash}
  /\ \E a \in 1 .. i + 1 : RunFrom(a) /\ (i - a + 1) % 2 = 0
  /\ \A a \in 1 .. Length : \A b \in a .. Length :
        b < i /\ IsRun(str, a, b) => (b - a + 1) % 2 = 0

AcceptInv ==
  /\ status \in {"looping", "ok"} => PassedOK
  /\ status = "checking" => i = 0
  /\ status = "ok" => i = Length
  /\ status = "invalid" => ~Lenient(str)

(* to_char accepts the hexadecimal digits and nothing else.                 *)
LEMMA DigitsAreHex ==
  ASSUME NEW c \in Int
  PROVE  IsDigit(c) <=> c \in HexDigits
  BY DEF IsDigit, HexDigits

(* Of a string that goes through the loop every position has a character.   *)
LEMMA CharsAreInts ==
  ASSUME ParseInv, PassedOK, NEW k \in 0 .. 35
  PROVE  str[k + 1] \in Int /\ At(k) = str[k + 1]
<1>1. str \in Seq(Int) /\ Len(str) = 36 /\ k + 1 \in 1 .. 36
  BY DEF ParseInv, PassedOK, Length
<1>2. str[k + 1] \in Int
  BY <1>1, ElementOfSeq
<1>3. At(k) = str[k + 1]
  BY <1>1 DEF At
<1> QED
  BY <1>2, <1>3

(* A position is in one run only.                                           *)
LEMMA OneRun ==
  ASSUME str \in Seq(Int), i \in 0 .. Length, NEW a, NEW b, RunFrom(a), RunFrom(b)
  PROVE  a = b
  BY DEF RunFrom, Length

(* A dash ends the run that i is in, which is even.                         *)
LEMMA PassDash ==
  ASSUME ParseInv, PassedOK, SkipDash
  PROVE  PassedOK'
<1>a. i \in 0 .. 35 /\ i' = i + 1 /\ str' = str /\ Len(str) = 36
  BY DEF ParseInv, PassedOK, SkipDash, Length
<1>b. str[i + 1] = Dash
  BY <1>a, CharsAreInts DEF SkipDash
<1>1. \A k \in 1 .. i + 1 : str[k] \in HexDigits \cup {Dash}
  <2>1. \A k \in 1 .. i : str[k] \in HexDigits \cup {Dash}
    BY DEF PassedOK
  <2>2. \A k \in 1 .. i + 1 : k \in 1 .. i \/ k = i + 1
    BY <1>a
  <2> QED
    BY <1>b, <2>1, <2>2
<1>2. \E a \in 1 .. i' + 1 : RunFrom(a)' /\ (i' - a + 1) % 2 = 0
  <2>1. PICK n \in 1 .. i' + 1 : n = i' + 1
    BY <1>a
  <2>2. n - 1 = i + 1 /\ (n .. i') = {}
    BY <1>a, <2>1
  <2>3. str'[n - 1] = Dash
    BY <1>a, <1>b, <2>2
  <2>4. RunFrom(n)'
    BY <2>1, <2>2, <2>3 DEF RunFrom
  <2>5. (i' - n + 1) % 2 = 0
    BY <1>a, <2>1
  <2> QED
    BY <2>1, <2>4, <2>5
<1>3. ASSUME NEW a \in 1 .. Length, NEW b \in a .. Length, b < i + 1, IsRun(str, a, b)
      PROVE  (b - a + 1) % 2 = 0
  <2>1. CASE b < i
    BY <1>3, <2>1 DEF PassedOK
  <2>2. CASE b = i
    <3>1. RunFrom(a)
      BY <1>a, <1>3, <2>2 DEF IsRun, RunFrom, Length
    <3>2. PICK e \in 1 .. i + 1 : RunFrom(e) /\ (i - e + 1) % 2 = 0
      BY DEF PassedOK
    <3>3. a = e
      BY <3>1, <3>2, OneRun DEF ParseInv
    <3> QED
      BY <2>2, <3>2, <3>3
  <2> QED
    BY <1>a, <1>3, <2>1, <2>2 DEF Length
<1> QED
  <2>2. \A k \in 1 .. i' : str'[k] \in HexDigits \cup {Dash}
    BY <1>a, <1>1
  <2>3. \A a \in 1 .. Length : \A b \in a .. Length :
          b < i' /\ IsRun(str', a, b) => (b - a + 1) % 2 = 0
    BY <1>a, <1>3
  <2>4. Len(str') = Length /\ \A d \in Dashes : str'[d + 1] = Dash
    BY <1>a DEF PassedOK
  <2> QED
    BY <1>2, <2>2, <2>3, <2>4 DEF PassedOK

(* A pair of digits is two more characters of the run that i is in.         *)
LEMMA PassPair ==
  ASSUME ParseInv, PassedOK, Store
  PROVE  PassedOK'
<1>a. i \in 0 .. 34 /\ i' = i + 2 /\ str' = str /\ Len(str) = 36
  BY PairAvoidsDashes DEF ParseInv, PassedOK, Store, Length
<1>b. str[i + 1] \in Int /\ At(i) = str[i + 1]
  BY <1>a, CharsAreInts
<1>c. str[i + 2] \in Int /\ At(i + 1) = str[i + 2]
  <2>1. i + 1 \in 0 .. 35 /\ (i + 1) + 1 = i + 2
    BY <1>a
  <2> QED
    BY <2>1, CharsAreInts
<1>d. /\ str[i + 1] \in HexDigits /\ str[i + 2] \in HexDigits
      /\ str[i + 1] # Dash /\ str[i + 2] # Dash
  BY <1>b, <1>c, DigitsAreHex DEF Store, IsDigit, Dash
<1>1. \A k \in 1 .. i' : str'[k] \in HexDigits \cup {Dash}
  <2>1. \A k \in 1 .. i : str[k] \in HexDigits \cup {Dash}
    BY DEF PassedOK
  <2>2. \A k \in 1 .. i' : k \in 1 .. i \/ k = i + 1 \/ k = i + 2
    BY <1>a
  <2> QED
    BY <1>a, <1>d, <2>1, <2>2
<1>2. \E a \in 1 .. i' + 1 : RunFrom(a)' /\ (i' - a + 1) % 2 = 0
  <2>1. PICK e \in 1 .. i + 1 : RunFrom(e) /\ (i - e + 1) % 2 = 0
    BY DEF PassedOK
  <2>2. RunFrom(e)'
    BY <1>a, <1>d, <2>1 DEF RunFrom
  <2>3. (i' - e + 1) % 2 = 0
    BY <1>a, <2>1
  <2> QED
    BY <1>a, <2>1, <2>2, <2>3
<1>3. ASSUME NEW a \in 1 .. Length, NEW b \in a .. Length, b < i', IsRun(str', a, b)
      PROVE  (b - a + 1) % 2 = 0
  <2>1. b # i /\ b # i + 1
    BY <1>a, <1>d, <1>3 DEF IsRun, Length
  <2>2. b < i
    BY <1>a, <1>3, <2>1 DEF Length
  <2> QED
    BY <1>a, <1>3, <2>2 DEF PassedOK
<1>4. Len(str') = Length /\ \A d \in Dashes : str'[d + 1] = Dash
  BY <1>a DEF PassedOK
<1> QED
  BY <1>1, <1>2, <1>3, <1>4 DEF PassedOK

(* A pair that is refused is an odd run or another character.               *)
LEMMA BadPair ==
  ASSUME ParseInv, PassedOK, BadDigit
  PROVE  ~Lenient(str)
<1> SUFFICES ASSUME Lenient(str) PROVE FALSE
  OBVIOUS
<1>a. i \in 0 .. 35 /\ Len(str) = 36
  BY DEF ParseInv, PassedOK, BadDigit, Length
<1>b. str[i + 1] \in Int /\ At(i) = str[i + 1] /\ str[i + 1] # Dash
  BY <1>a, CharsAreInts DEF BadDigit
<1>c. \A k \in 1 .. 36 : str[k] \in HexDigits \cup {Dash}
  BY DEF Lenient, Length
<1>1. str[i + 1] \in HexDigits
  <2>1. i + 1 \in 1 .. 36
    BY <1>a
  <2> QED
    BY <1>b, <1>c, <2>1
<1>2. ~IsDigit(At(i + 1))
  BY <1>b, <1>1, DigitsAreHex DEF BadDigit
<1>3. i = 35 \/ str[i + 2] = Dash
  <2>1. CASE i < 35
    <3>a. i + 1 \in 0 .. 35 /\ (i + 1) + 1 = i + 2 /\ i + 2 \in 1 .. 36
      BY <1>a, <2>1
    <3>1. At(i + 1) = str[i + 2] /\ str[i + 2] \in Int
      BY <3>a, CharsAreInts
    <3>2. str[i + 2] \in HexDigits \cup {Dash}
      BY <1>c, <3>a
    <3> QED
      BY <1>2, <3>1, <3>2, DigitsAreHex
  <2> QED
    BY <1>a, <2>1
<1>4. PICK e \in 1 .. i + 1 : RunFrom(e) /\ (i - e + 1) % 2 = 0
  BY DEF PassedOK
<1>5. IsRun(str, e, i + 1)
  <2>1. \A k \in e .. i : str[k] # Dash
    BY <1>4 DEF RunFrom
  <2>2. \A k \in e .. i + 1 : k \in e .. i \/ k = i + 1
    BY <1>a
  <2>3. \A k \in e .. i + 1 : str[k] # Dash
    BY <1>b, <2>1, <2>2
  <2>4. i + 1 = Len(str) \/ str[(i + 1) + 1] = Dash
    BY <1>a, <1>3
  <2> QED
    BY <1>4, <2>3, <2>4 DEF RunFrom, IsRun
<1>6. ((i + 1) - e + 1) % 2 = 0
  <2>1. e \in 1 .. 36 /\ i + 1 \in e .. 36
    BY <1>a
  <2> QED
    BY <1>5, <2>1 DEF Lenient, Length
<1> QED
  BY <1>a, <1>4, <1>6

(* Every turn of the loop keeps the part passed lenient, and ends in an     *)
(* exception only where no continuation could make it so.                   *)
LEMMA AcceptStep == ParseInv /\ AcceptInv /\ [Next]_vars => AcceptInv'
<1> SUFFICES ASSUME ParseInv, AcceptInv, [Next]_vars PROVE AcceptInv'
  OBVIOUS
<1>1. CASE Check
  <2>a. i = 0 /\ i' = 0 /\ str' = str /\ str \in Seq(Int)
    BY <1>1 DEF Check, AcceptInv, ParseInv
  <2>1. CASE Len(str) = Length /\ AllDashes
    <3>1. \A d \in Dashes : str[d + 1] = Dash
      BY <2>1 DEF AllDashes, At, Dashes, Length
    <3>2. RunFrom(1)' /\ (0 - 1 + 1) % 2 = 0
      BY <2>a DEF RunFrom
    <3>3. PassedOK'
      BY <2>a, <2>1, <3>1, <3>2 DEF PassedOK, Length
    <3> QED
      BY <1>1, <2>1, <3>3 DEF Check, AcceptInv
  <2>2. CASE ~(Len(str) = Length /\ AllDashes)
    <3>1. ASSUME Len(str) = 36, NEW d \in Dashes PROVE At(d) = str[d + 1]
      BY <3>1 DEF At, Dashes
    <3>2. ~Lenient(str)
      BY <2>2, <3>1 DEF Lenient, AllDashes, Length
    <3> QED
      BY <1>1, <2>2, <3>2 DEF Check, AcceptInv
  <2> QED
    BY <2>1, <2>2
<1>2. CASE SkipDash
  <2>1. PassedOK'
    BY <1>2, PassDash DEF AcceptInv, SkipDash
  <2> QED
    BY <1>2, <2>1 DEF SkipDash, AcceptInv
<1>3. CASE Store
  <2>1. PassedOK'
    BY <1>3, PassPair DEF AcceptInv, Store
  <2> QED
    BY <1>3, <2>1 DEF Store, AcceptInv
<1>4. CASE BadDigit
  <2>1. ~Lenient(str)
    BY <1>4, BadPair DEF AcceptInv, BadDigit
  <2> QED
    BY <1>4, <2>1 DEF BadDigit, AcceptInv
<1>5. CASE Return
  <2>1. i = Length
    BY <1>5 DEF Return, ParseInv, Length
  <2>2. PassedOK'
    BY <1>5 DEF Return, AcceptInv, PassedOK, RunFrom
  <2> QED
    BY <1>5, <2>1, <2>2 DEF Return, AcceptInv
<1>6. CASE UNCHANGED vars
  BY <1>6 DEF vars, AcceptInv, PassedOK, RunFrom
<1> QED BY <1>1, <1>2, <1>3, <1>4, <1>5, <1>6 DEF Next, Done

(* A string whose every character has been passed is lenient.               *)
LEMMA AcceptedIsLenient ==
  ASSUME ParseInv, AcceptInv, status = "ok"
  PROVE  Lenient(str)
<1>a. i = 36 /\ PassedOK /\ str \in Seq(Int) /\ Len(str) = 36
  BY DEF AcceptInv, ParseInv, PassedOK, Length
<1>1. ASSUME NEW a \in 1 .. Length, NEW b \in a .. Length, IsRun(str, a, b)
      PROVE  (b - a + 1) % 2 = 0
  <2>1. CASE b < 36
    BY <1>a, <1>1, <2>1 DEF PassedOK
  <2>2. CASE b = 36
    <3>1. RunFrom(a)
      BY <1>a, <1>1, <2>2 DEF IsRun, RunFrom, Length
    <3>2. PICK e \in 1 .. i + 1 : RunFrom(e) /\ (i - e + 1) % 2 = 0
      BY <1>a DEF PassedOK
    <3>3. a = e
      BY <1>a, <3>1, <3>2, OneRun DEF Length
    <3> QED
      BY <1>a, <2>2, <3>2, <3>3
  <2> QED
    BY <1>1, <2>1, <2>2 DEF Length
<1> QED
  BY <1>a, <1>1 DEF Lenient, PassedOK, Length

(* parse_uuid_string accepts the Lenient strings and throws for all others, *)
(* of any length and over any characters.                                   *)
THEOREM ParserAcceptsExactly == Spec => []AcceptsExactly
<1>1. Init => AcceptInv
  BY DEF Init, AcceptInv
<1>2. ParseInv /\ AcceptInv => AcceptsExactly
  BY AcceptedIsLenient DEF AcceptInv, AcceptsExactly
<1> QED BY <1>1, <1>2, AcceptStep, ParseInductive, PTL DEF Spec

-----------------------------------------------------------------------------
(* What is printed back. *)

(* Where the pair of byte k stands in a UUID.                               *)
Pos(k) == 2 * k + (IF k < 4 THEN 0 ELSE IF k < 6 THEN 1 ELSE IF k < 8 THEN 2
                   ELSE IF k < 10 THEN 3 ELSE 4)

(* On a UUID the parser stands at the pair of byte j, or at the dash in     *)
(* front of it, and has the bytes before j.                                 *)
PairsOK ==
  /\ bytes \in [Indices -> Int]
  /\ j \in 0 .. 16
  /\ i = Pos(j) \/ (j \in {4, 6, 8, 10} /\ i = Pos(j) - 1)
  /\ \A k \in Indices :
       k < j => bytes[k] = MakeHex(str[Pos(k) + 1], str[Pos(k) + 2])

PrintInv == WellFormed(str) => status # "invalid" /\ PairsOK

(* The characters of a UUID: a pair of digits for each byte, dashes between.*)
LEMMA PairOfDigits ==
  ASSUME WellFormed(str), NEW k \in Indices
  PROVE  /\ Pos(k) \in 0 .. 34
         /\ str[Pos(k) + 1] \in HexDigits /\ str[Pos(k) + 2] \in HexDigits
         /\ At(Pos(k)) = str[Pos(k) + 1] /\ At(Pos(k) + 1) = str[Pos(k) + 2]
<1>1. /\ Pos(k) \in 0 .. 34 /\ Pos(k) \notin Dashes /\ Pos(k) + 1 \notin Dashes
  BY DEF Pos, Indices, Dashes
<1>2. PICK p \in 0 .. 34 : p = Pos(k)
  BY <1>1
<1>3. /\ p + 1 \in 1 .. 36 /\ p + 2 \in 1 .. 36
      /\ (p + 1) - 1 = p /\ (p + 2) - 1 = p + 1
  OBVIOUS
<1>4. str[p + 1] \in HexDigits /\ str[p + 2] \in HexDigits
  BY <1>1, <1>2, <1>3 DEF WellFormed, Length
<1>5. At(p) = str[p + 1] /\ At(p + 1) = str[p + 2]
  <2>1. Len(str) = 36
    BY DEF WellFormed, Length
  <2> QED
    BY <2>1 DEF At
<1> QED
  BY <1>2, <1>4, <1>5

(* The same for the dashes.                                                 *)
LEMMA DashInside ==
  ASSUME WellFormed(str), NEW d \in Dashes
  PROVE  str[d + 1] = Dash /\ At(d) = Dash
<1>1. d \in 0 .. 35 /\ d + 1 \in 1 .. 36 /\ (d + 1) - 1 = d
  BY DEF Dashes
<1>2. str[d + 1] = Dash
  BY <1>1 DEF WellFormed, Length
<1> QED
  BY <1>1, <1>2 DEF At, WellFormed, Length

(* Every turn of the loop takes the parser over a UUID's next pair or dash. *)
LEMMA PrintStep == ParseInv /\ AcceptInv /\ PrintInv /\ [Next]_vars => PrintInv'
<1> SUFFICES ASSUME ParseInv, AcceptInv, PrintInv, [Next]_vars PROVE PrintInv'
  OBVIOUS
<1> SUFFICES ASSUME WellFormed(str') PROVE status' # "invalid" /\ PairsOK'
  BY DEF PrintInv
<1>a. str' = str
  BY DEF Next, Check, SkipDash, Store, BadDigit, Return, Done, vars
<1>b. WellFormed(str) /\ str \in Seq(Int) /\ status # "invalid" /\ PairsOK
  BY <1>a DEF PrintInv, ParseInv
<1>c. j \in 0 .. 16 /\ i \in 0 .. 36
  BY <1>b DEF PairsOK, ParseInv, Length
<1>1. CASE Check
  <2>1. AllDashes /\ Len(str) = Length
    BY <1>b, DashInside DEF AllDashes, WellFormed
  <2> QED
    BY <1>b, <1>1, <2>1 DEF Check, PairsOK
<1>d. ASSUME i < 36, i = Pos(j)
      PROVE  /\ j \in Indices /\ Pos(j) \in 0 .. 34
             /\ At(i) # Dash /\ IsDigit(At(i)) /\ IsDigit(At(i + 1))
             /\ At(i) = str[Pos(j) + 1] /\ At(i + 1) = str[Pos(j) + 2]
  <2>1. j \in Indices
    BY <1>c, <1>d DEF Pos, Indices
  <2>2. /\ Pos(j) \in 0 .. 34
        /\ str[Pos(j) + 1] \in HexDigits /\ str[Pos(j) + 2] \in HexDigits
        /\ At(Pos(j)) = str[Pos(j) + 1] /\ At(Pos(j) + 1) = str[Pos(j) + 2]
    BY <1>b, <2>1, PairOfDigits
  <2>3. HexDigits \subseteq Int /\ Dash \notin HexDigits
    BY DEF HexDigits, Dash
  <2> QED
    BY <1>d, <2>1, <2>2, <2>3, DigitsAreHex
<1>e. ASSUME i # Pos(j) PROVE i \in Dashes /\ At(i) = Dash /\ j \in {4, 6, 8, 10} /\ i + 1 = Pos(j)
  <2>1. j \in {4, 6, 8, 10} /\ i = Pos(j) - 1
    BY <1>b, <1>e DEF PairsOK
  <2>2. i \in Dashes /\ i + 1 = Pos(j)
    BY <2>1 DEF Pos, Dashes
  <2> QED
    BY <1>b, <2>1, <2>2, DashInside
<1>2. CASE SkipDash
  <2>1. i + 1 = Pos(j)
    BY <1>d, <1>e, <1>2 DEF SkipDash, Length
  <2> QED
    BY <1>b, <1>2, <2>1 DEF SkipDash, PairsOK
<1>3. CASE Store
  <2>1. i = Pos(j) /\ j \in Indices
    BY <1>d, <1>e, <1>3 DEF Store, Length
  <2>2. /\ j' = j + 1 /\ i' = i + 2 /\ status' = status
        /\ bytes' = [bytes EXCEPT ![j] = MakeHex(str[Pos(j) + 1], str[Pos(j) + 2])]
    BY <1>d, <1>3, <2>1 DEF Store, Length
  <2>3. str[Pos(j) + 1] \in HexDigits /\ str[Pos(j) + 2] \in HexDigits
    BY <1>b, <2>1, PairOfDigits
  <2>4. MakeHex(str[Pos(j) + 1], str[Pos(j) + 2]) \in Int
    BY <2>3 DEF MakeHex, ToChar, HexDigits
  <2>5. bytes' \in [Indices -> Int]
    BY <1>b, <2>2, <2>4 DEF PairsOK
  <2>6. j' \in 0 .. 16 /\ (i' = Pos(j') \/ (j' \in {4, 6, 8, 10} /\ i' = Pos(j') - 1))
    BY <2>1, <2>2 DEF Pos, Indices
  <2>7. ASSUME NEW k \in Indices, k < j'
        PROVE  bytes'[k] = MakeHex(str[Pos(k) + 1], str[Pos(k) + 2])
    <3>1. CASE k = j
      BY <1>b, <2>1, <2>2, <3>1 DEF PairsOK
    <3>2. CASE k # j
      <4>1. k < j
        BY <1>c, <2>2, <2>7, <3>2 DEF Indices
      <4> QED
        BY <1>b, <2>2, <3>2, <4>1 DEF PairsOK
    <3> QED
      BY <3>1, <3>2
  <2> QED
    BY <1>a, <1>b, <2>2, <2>5, <2>6, <2>7 DEF PairsOK
<1>4. CASE BadDigit
  BY <1>d, <1>e, <1>4 DEF BadDigit, Length
<1>5. CASE Return
  BY <1>b, <1>5 DEF Return, PairsOK
<1>6. CASE UNCHANGED vars
  BY <1>b, <1>6 DEF vars, PairsOK
<1> QED BY <1>1, <1>2, <1>3, <1>4, <1>5, <1>6 DEF Next, Done

(* One character in lower case.                                             *)
LowerChar(c) == IF c > 64 /\ c < 71 THEN c + 32 ELSE c

(* A byte prints as the two digits it was made of, in lower case.           *)
LEMMA HexOfPair ==
  ASSUME NEW a \in HexDigits, NEW b \in HexDigits
  PROVE  Hex(MakeHex(a, b)) = <<LowerChar(a), LowerChar(b)>>
<1>1. /\ ToChar(a) \in 0 .. 15 /\ ToDigit(ToChar(a)) = LowerChar(a)
      /\ ToChar(b) \in 0 .. 15 /\ ToDigit(ToChar(b)) = LowerChar(b)
  BY DEF HexDigits, ToChar, ToDigit, LowerChar
<1>2. \A x, y \in 0 .. 15 : (x * 16 + y) \div 16 = x /\ (x * 16 + y) % 16 = y
  OBVIOUS
<1>3. MakeHex(a, b) \div 16 = ToChar(a) /\ MakeHex(a, b) % 16 = ToChar(b)
  BY <1>1, <1>2 DEF MakeHex
<1> QED
  BY <1>1, <1>3 DEF Hex

(* The beginning of a string, one or two characters longer.                 *)
LEMMA Longer ==
  ASSUME NEW t \in Seq(Int), NEW n \in 0 .. Len(t)
  PROVE  /\ n + 1 <= Len(t) => SubSeq(t, 1, n) \o <<t[n + 1]>> = SubSeq(t, 1, n + 1)
         /\ n + 2 <= Len(t) => SubSeq(t, 1, n) \o <<t[n + 1], t[n + 2]>> = SubSeq(t, 1, n + 2)
  OBVIOUS

(* A string in lower case is a string as long.                              *)
LEMMA LowerType ==
  ASSUME NEW s \in Seq(Int)
  PROVE  /\ Lower(s) \in Seq(Int) /\ Len(Lower(s)) = Len(s)
         /\ \A k \in 1 .. Len(s) : Lower(s)[k] = LowerChar(s[k])
<1>1. Len(s) \in Nat /\ \A k \in 1 .. Len(s) : s[k] \in Int
  BY ElementOfSeq, LenProperties
<1>2. PICK t : t = [k \in 1 .. Len(s) |-> LowerChar(s[k])]
  OBVIOUS
<1>3. Lower(s) = t
  BY <1>2 DEF Lower, LowerChar
<1>4. \A k \in 1 .. Len(s) : LowerChar(s[k]) \in Int
  BY <1>1 DEF LowerChar
<1>5. t \in [1 .. Len(s) -> Int]
  BY <1>2, <1>4, Zenon
<1>6. t \in Seq(Int)
  <2>1. [1 .. Len(s) -> Int] \in {[1 .. n -> Int] : n \in Nat}
    BY <1>1, Zenon
  <2>2. t \in UNION {[1 .. n -> Int] : n \in Nat}
    BY <1>5, <2>1, Zenon
  <2> QED
    BY <2>2, SeqDef, Zenon
<1>7. Len(t) = Len(s)
  <2>1. 1 .. Len(t) = 1 .. Len(s) /\ Len(t) \in Nat
    BY <1>5, <1>6, LenProperties, Zenon
  <2> QED
    BY <1>1, <2>1
<1> QED
  BY <1>2, <1>3, <1>6, <1>7, Zenon

(* t has the digits of the bytes b, in pairs, and the four dashes.          *)
ReadsAs(b, t) ==
  /\ t \in Seq(Int)
  /\ Len(t) = 36
  /\ \A k \in Indices : \A p \in 0 .. 34 :
       p = Pos(k) => Hex(b[k]) = <<t[p + 1], t[p + 2]>>
  /\ \A d \in Dashes : t[d + 1] = Dash

(* Sixteen pairs and four dashes, put one behind the other, are all of t.   *)
LEMMA Pieces ==
  ASSUME NEW b, NEW t, ReadsAs(b, t)
  PROVE  Printed(b) = t
<1> DEFINE Pre(n)  == SubSeq(t, 1, n)
           Pair(n) == <<t[n + 1], t[n + 2]>>
           One(n)  == <<t[n + 1]>>
           Cat(x, y) == x \o y
<1>1. /\ Hex(b[0]) = Pair(0) /\ Hex(b[1]) = Pair(2) /\ Hex(b[2]) = Pair(4)
      /\ Hex(b[3]) = Pair(6) /\ Hex(b[4]) = Pair(9) /\ Hex(b[5]) = Pair(11)
      /\ Hex(b[6]) = Pair(14) /\ Hex(b[7]) = Pair(16) /\ Hex(b[8]) = Pair(19)
      /\ Hex(b[9]) = Pair(21) /\ Hex(b[10]) = Pair(24) /\ Hex(b[11]) = Pair(26)
      /\ Hex(b[12]) = Pair(28) /\ Hex(b[13]) = Pair(30) /\ Hex(b[14]) = Pair(32)
      /\ Hex(b[15]) = Pair(34)
  <2>1. \A k \in Indices : \A p \in 0 .. 34 : p = Pos(k) => Hex(b[k]) = Pair(p)
    BY DEF ReadsAs
  <2> HIDE DEF Pair
  <2> QED
    BY <2>1 DEF Indices, Pos
<1>2. <<Dash>> = One(8) /\ <<Dash>> = One(13)
      /\ <<Dash>> = One(18) /\ <<Dash>> = One(23)
  BY DEF ReadsAs, Dashes
<1>3. ASSUME NEW n \in 0 .. 36
      PROVE  /\ n + 1 <= 36 => Cat(Pre(n), One(n)) = Pre(n + 1)
             /\ n + 2 <= 36 => Cat(Pre(n), Pair(n)) = Pre(n + 2)
  <2>1. t \in Seq(Int) /\ n \in 0 .. Len(t) /\ Len(t) = 36
    BY DEF ReadsAs
  <2> QED
    BY <2>1, Longer
<1>4. Pair(0) = Pre(2)
  <2>1. t \in Seq(Int) /\ Len(t) = 36
    BY DEF ReadsAs
  <2> QED
    BY <2>1
<1>5. Pre(36) = t
  <2>1. t \in Seq(Int) /\ Len(t) = 36
    BY DEF ReadsAs
  <2> QED
    BY <2>1, SubSeqFull
<1> HIDE DEF Pre, Pair, One, Cat
<1>6. Printed(b) = Pre(36)
  <2>1. Pair(0) = Pre(2)
    BY <1>4
  <2>2. Cat(Pre(2), Pair(2)) = Pre(4)
    BY <1>3
  <2>3. Cat(Pre(4), Pair(4)) = Pre(6)
    BY <1>3
  <2>4. Cat(Pre(6), Pair(6)) = Pre(8)
    BY <1>3
  <2>5. Cat(Pre(8), One(8)) = Pre(9)
    BY <1>3
  <2>6. Cat(Pre(9), Pair(9)) = Pre(11)
    BY <1>3
  <2>7. Cat(Pre(11), Pair(11)) = Pre(13)
    BY <1>3
  <2>8. Cat(Pre(13), One(13)) = Pre(14)
    BY <1>3
  <2>9. Cat(Pre(14), Pair(14)) = Pre(16)
    BY <1>3
  <2>10. Cat(Pre(16), Pair(16)) = Pre(18)
    BY <1>3
  <2>11. Cat(Pre(18), One(18)) = Pre(19)
    BY <1>3
  <2>12. Cat(Pre(19), Pair(19)) = Pre(21)
    BY <1>3
  <2>13. Cat(Pre(21), Pair(21)) = Pre(23)
    BY <1>3
  <2>14. Cat(Pre(23), One(23)) = Pre(24)
    BY <1>3
  <2>15. Cat(Pre(24), Pair(24)) = Pre(26)
    BY <1>3
  <2>16. Cat(Pre(26), Pair(26)) = Pre(28)
    BY <1>3
  <2>17. Cat(Pre(28), Pair(28)) = Pre(30)
    BY <1>3
  <2>18. Cat(Pre(30), Pair(30)) = Pre(32)
    BY <1>3
  <2>19. Cat(Pre(32), Pair(32)) = Pre(34)
    BY <1>3
  <2>20. Cat(Pre(34), Pair(34)) = Pre(36)
    BY <1>3
  <2>a. Hex(b[0]) \o Hex(b[1]) \o Hex(b[2]) \o Hex(b[3]) \o <<Dash>> = Pre(9)
    BY <1>1, <1>2, <2>1, <2>2, <2>3, <2>4, <2>5 DEF Cat
  <2>b. Pre(9) \o Hex(b[4]) \o Hex(b[5]) \o <<Dash>> = Pre(14)
    BY <1>1, <1>2, <2>6, <2>7, <2>8 DEF Cat
  <2>c. Pre(14) \o Hex(b[6]) \o Hex(b[7]) \o <<Dash>> = Pre(19)
    BY <1>1, <1>2, <2>9, <2>10, <2>11 DEF Cat
  <2>d. Pre(19) \o Hex(b[8]) \o Hex(b[9]) \o <<Dash>> = Pre(24)
    BY <1>1, <1>2, <2>12, <2>13, <2>14 DEF Cat
  <2>e. Pre(24) \o Hex(b[10]) \o Hex(b[11]) \o Hex(b[12]) = Pre(30)
    BY <1>1, <2>15, <2>16, <2>17 DEF Cat
  <2>f. Pre(30) \o Hex(b[13]) \o Hex(b[14]) \o Hex(b[15]) = Pre(36)
    BY <1>1, <2>18, <2>19, <2>20 DEF Cat
  <2> QED
    BY <2>a, <2>b, <2>c, <2>d, <2>e, <2>f DEF Printed
<1> QED
  BY <1>5, <1>6

(* The bytes of a UUID print as the UUID in lower case.                     *)
LEMMA PrintsBack ==
  ASSUME ParseInv, WellFormed(str), PairsOK, i = 36
  PROVE  Printed(bytes) = Lower(str)
<1>1. j = 16
  BY DEF PairsOK, Pos
<1>a. str \in Seq(Int)
  BY DEF ParseInv
<1>b. Len(str) = 36
  BY DEF WellFormed, Length
<1>2. /\ Lower(str) \in Seq(Int) /\ Len(Lower(str)) = Len(str)
      /\ \A k \in 1 .. Len(str) : Lower(str)[k] = LowerChar(str[k])
  BY <1>a, LowerType
<1>3. PICK t : t = Lower(str)
  OBVIOUS
<1>4. t \in Seq(Int) /\ Len(t) = 36
  BY <1>b, <1>2, <1>3
<1>5. \A k \in 1 .. 36 : t[k] = LowerChar(str[k])
  BY <1>b, <1>2, <1>3
<1>6. ASSUME NEW k \in Indices, NEW p \in 0 .. 34, p = Pos(k)
      PROVE  Hex(bytes[k]) = <<t[p + 1], t[p + 2]>>
  <2>1. bytes[k] = MakeHex(str[p + 1], str[p + 2])
    <3>1. k < j
      BY <1>1 DEF Indices
    <3> QED
      BY <1>6, <3>1 DEF PairsOK
  <2>2. str[p + 1] \in HexDigits /\ str[p + 2] \in HexDigits
    BY <1>6, PairOfDigits
  <2>3. t[p + 1] = LowerChar(str[p + 1]) /\ t[p + 2] = LowerChar(str[p + 2])
    <3>1. p + 1 \in 1 .. 36 /\ p + 2 \in 1 .. 36
      OBVIOUS
    <3> QED
      BY <1>5, <3>1
  <2> QED
    BY <2>1, <2>2, <2>3, HexOfPair
<1>7. ASSUME NEW d \in Dashes PROVE t[d + 1] = Dash
  <2>1. str[d + 1] = Dash
    BY DashInside
  <2>2. d + 1 \in 1 .. 36
    BY DEF Dashes
  <2> QED
    BY <1>5, <2>1, <2>2 DEF LowerChar, Dash
<1>8. ReadsAs(bytes, t)
  BY <1>4, <1>6, <1>7 DEF ReadsAs
<1> QED
  BY <1>3, <1>8, Pieces

(* A UUID in either case is accepted and prints as itself in lower case,    *)
(* whatever its digits.                                                     *)
THEOREM UuidRoundTrip == Spec => []RoundTrip
<1>1. Init => AcceptInv /\ PrintInv
  BY DEF Init, AcceptInv, PrintInv, PairsOK, Pos, Indices
<1>2. ParseInv /\ AcceptInv /\ PrintInv => RoundTrip
  BY PrintsBack DEF ParseInv, AcceptInv, PrintInv, RoundTrip, Length
<1> QED BY <1>1, <1>2, AcceptStep, PrintStep, ParseInductive, PTL DEF Spec
=============================================================================
