-------------------------------- MODULE MCUuid --------------------------------
(* Strings around one UUID: every way of changing two of the characters at    *)
(* the ends of its groups, of losing some of its dashes, and of being too     *)
(* long or too short.                                                         *)
EXTENDS Uuid, FiniteSets, FiniteSetsExt

(* 0123ABCD-89ef-0123-89ab-CDEF01234567 *)
Sample == << 48, 49, 50, 51, 65, 66, 67, 68, 45, 56, 57, 101, 102, 45,
             48, 49, 50, 51, 45, 56, 57, 97, 98, 45,
             67, 68, 69, 70, 48, 49, 50, 51, 52, 53, 54, 55 >>

Edges == {0, 1, 2, 6, 7, 8, 9, 12, 13, 14, 17, 18, 19, 22, 23, 24, 34, 35}

(* A dash, two digits, and characters just outside to_char's three ranges.    *)
Letters == {45, 47, 58, 64, 70, 71, 96, 102, 103}

Change(positions, f) ==
  [k \in 1 .. 36 |-> IF k - 1 \in positions THEN f[k - 1] ELSE Sample[k]]

Changed == UNION { { Change(ps, f) : f \in [ps -> Letters] } : ps \in kSubset(2, Edges) }

Undashed == { Change(ps, [p \in ps |-> 48]) : ps \in SUBSET Dashes }

Resized == { << >>, SubSeq(Sample, 1, 35), Append(Sample, 48), Append(Sample, 45) }

MCInputs == Changed \cup Undashed \cup Resized
=============================================================================
