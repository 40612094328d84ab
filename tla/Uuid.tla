-------------------------------- MODULE Uuid --------------------------------
(***************************************************************************)
(* parse_uuid_string and the output operator of uuid (uuid.cpp).           *)
(*                                                                         *)
(* The parser checks the length and four dashes, then walks the string     *)
(* with i and stores bytes at j without ever looking at j: a dash anywhere *)
(* is skipped, anything else must start a pair of hexadecimal digits.  One *)
(* step of the model is one turn of its loop.  Characters are their codes, *)
(* positions count from 0 as in the code.                                  *)
(***************************************************************************)
EXTENDS Integers, Sequences

CONSTANT Inputs     \* the strings given to fromString, up to their NUL

ASSUME InputAssumption == Inputs \subseteq Seq(Int)

VARIABLES
  str,      \* from_string
  i, j,     \* the loop's counters
  bytes,    \* the array of 16 bytes
  status    \* "checking", "looping", "ok" or "invalid" (an exception)

vars == <<str, i, j, bytes, status>>

Dash    == 45
Length  == 36
Dashes  == {8, 13, 18, 23}
Indices == 0 .. 15

(* from_string[k]; the character after the last is NUL. *)
At(k) == IF k < Len(str) THEN str[k + 1] ELSE 0

IsDigitOffByOne(c) == (c > 47 /\ c < 59) \/ (c > 96 /\ c < 103) \/ (c > 64 /\ c < 71)

(* to_char: what it accepts, and its result. *)
IsDigit(c) == (c > 47 /\ c < 58) \/ (c > 96 /\ c < 103) \/ (c > 64 /\ c < 71)

ToChar(c) == IF c > 47 /\ c < 58 THEN c - 48
             ELSE IF c > 96 /\ c < 103 THEN c - 87
             ELSE c - 55

MakeHex(a, b) == ToChar(a) * 16 + ToChar(b)

Init ==
  /\ str \in Inputs
  /\ i = 0
  /\ j = 0
  /\ bytes = [k \in Indices |-> 0]
  /\ status = "checking"

-----------------------------------------------------------------------------
(* The two tests in front of the loop. *)
AllDashes == \A d \in Dashes : At(d) = Dash

Check ==
  /\ status = "checking"
  /\ status' = IF Len(str) = Length /\ AllDashes THEN "looping" ELSE "invalid"
  /\ UNCHANGED <<str, i, j, bytes>>

SkipDash ==
  /\ status = "looping"
  /\ i < Length
  /\ At(i) = Dash
  /\ i' = i + 1
  /\ UNCHANGED <<str, j, bytes, status>>

(* uuid[j] = make_hex(...): j and i move on, i once more in the for.        *)
StoreSwapped ==
  /\ status = "looping"
  /\ i < Length
  /\ At(i) # Dash
  /\ IsDigit(At(i)) /\ IsDigit(At(i + 1))
  /\ bytes' = [bytes EXCEPT ![j] = MakeHex(At(i + 1), At(i))]
  /\ j' = j + 1
  /\ i' = i + 2
  /\ UNCHANGED <<str, status>>

Store ==
  /\ status = "looping"
  /\ i < Length
  /\ At(i) # Dash
  /\ IsDigit(At(i)) /\ IsDigit(At(i + 1))
  /\ bytes' = [bytes EXCEPT ![j] = MakeHex(At(i), At(i + 1))]
  /\ j' = j + 1
  /\ i' = i + 2
  /\ UNCHANGED <<str, status>>

BadDigit ==
  /\ status = "looping"
  /\ i < Length
  /\ At(i) # Dash
  /\ ~(IsDigit(At(i)) /\ IsDigit(At(i + 1)))
  /\ status' = "invalid"
  /\ UNCHANGED <<str, i, j, bytes>>

Return ==
  /\ status = "looping"
  /\ i >= Length
  /\ status' = "ok"
  /\ UNCHANGED <<str, i, j, bytes>>

Done == status \in {"ok", "invalid"} /\ UNCHANGED vars

Next == Check \/ SkipDash \/ Store \/ BadDigit \/ Return \/ Done

Spec == Init /\ [][Next]_vars

-----------------------------------------------------------------------------
(* operator<<: two lower case digits for each byte, dashes in front of the  *)
(* bytes 4, 6, 8 and 10.                                                    *)
ToDigit(n) == IF n < 10 THEN n + 48 ELSE n + 87

Hex(b) == <<ToDigit(b \div 16), ToDigit(b % 16)>>

Printed(b) ==
  Hex(b[0]) \o Hex(b[1]) \o Hex(b[2]) \o Hex(b[3]) \o <<Dash>>
    \o Hex(b[4]) \o Hex(b[5]) \o <<Dash>>
    \o Hex(b[6]) \o Hex(b[7]) \o <<Dash>>
    \o Hex(b[8]) \o Hex(b[9]) \o <<Dash>>
    \o Hex(b[10]) \o Hex(b[11]) \o Hex(b[12]) \o Hex(b[13]) \o Hex(b[14])
    \o Hex(b[15])

(* What a UUID is, and the same in lower case, with no reference to the     *)
(* parser.                                                                  *)
HexDigits == (48 .. 57) \cup (65 .. 70) \cup (97 .. 102)

WellFormed(s) ==
  /\ Len(s) = Length
  /\ \A k \in 1 .. Length : IF k - 1 \in Dashes THEN s[k] = Dash ELSE s[k] \in HexDigits

Lower(s) == [k \in 1 .. Len(s) |-> IF s[k] > 64 /\ s[k] < 71 THEN s[k] + 32 ELSE s[k]]

-----------------------------------------------------------------------------
(* No input makes the parser store beyond the array: of the 36 characters   *)
(* the four dashes cannot be part of a pair, and 16 pairs are left.         *)
InBounds == j <= 16

(* A UUID is accepted, and printing what was parsed gives it back, in lower *)
(* case.                                                                    *)
RoundTrip ==
  WellFormed(str) => status # "invalid" /\ (status = "ok" => Printed(bytes) = Lower(str))

(* s[a .. b] is a run of characters between two dashes or ends of s.        *)
IsRun(s, a, b) ==
  /\ \A k \in a .. b : s[k] # Dash
  /\ a = 1 \/ s[a - 1] = Dash
  /\ b = Len(s) \/ s[b + 1] = Dash

(* What the parser accepts, said without its loop: 36 characters, dashes at *)
(* the four places, and digits in runs of even length between any number of *)
(* further dashes.  It is more than WellFormed: a UUID with dashes in place *)
(* of a pair of digits is accepted, and no string with a digit cut off from *)
(* its pair, or with another character, is.                                 *)
Lenient(s) ==
  /\ Len(s) = Length
  /\ \A d \in Dashes : s[d + 1] = Dash
  /\ \A k \in 1 .. Length : s[k] \in HexDigits \cup {Dash}
  /\ \A a \in 1 .. Length : \A b \in a .. Length :
        IsRun(s, a, b) => (b - a + 1) % 2 = 0

(* parse_uuid_string throws for every string that is not Lenient, and for   *)
(* no other.                                                                *)
AcceptsExactly ==
  /\ status = "ok" => Lenient(str)
  /\ status = "invalid" => ~Lenient(str)

-----------------------------------------------------------------------------
(* Why InBounds holds: i is ahead of 2j by the dashes it has passed.        *)
Passed == (IF i > 8 THEN 1 ELSE 0) + (IF i > 13 THEN 1 ELSE 0)
            + (IF i > 18 THEN 1 ELSE 0) + (IF i > 23 THEN 1 ELSE 0)

ParseInv ==
  /\ str \in Seq(Int)
  /\ i \in 0 .. Length
  /\ j \in Nat
  /\ status \in {"checking", "looping", "ok", "invalid"}
  /\ status = "looping" => Len(str) = Length /\ AllDashes
  /\ 2 * j + Passed <= i
=============================================================================
