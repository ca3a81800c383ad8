-------------------------------- MODULE Runs --------------------------------
(***************************************************************************)
(* What lib/kernel/bitmap.c promises its users: bitmap_scan returns the    *)
(* first run of cnt clear bits, or -1.  A bitmap is a function from bit    *)
(* numbers to BOOLEAN, TRUE for a bit that is set.                         *)
(***************************************************************************)
EXTENDS Integers

ClearRun(b, i, cnt) == \A k \in i .. i + cnt - 1 : k \in DOMAIN b /\ ~b[k]

FirstRun(b, cnt) ==
  IF \E i \in DOMAIN b : ClearRun(b, i, cnt)
  THEN CHOOSE i \in DOMAIN b :
         ClearRun(b, i, cnt) /\ \A k \in DOMAIN b : ClearRun(b, k, cnt) => i <= k
  ELSE -1

Full(b) == \A i \in DOMAIN b : b[i]

SetRun(b, i, cnt, v) == [k \in DOMAIN b |-> IF k \in i .. i + cnt - 1 THEN v ELSE b[k]]
=============================================================================
