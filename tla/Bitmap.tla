------------------------------- MODULE Bitmap -------------------------------
(***************************************************************************)
(* lib/kernel/bitmap.c.  bitmap_scan skips full bytes first, then the used *)
(* bits of a byte, then counts clear bits.  A bitmap has bits 0 .. n - 1,  *)
(* n a multiple of Width; Runs says what the scan should find.             *)
(***************************************************************************)
EXTENDS Runs, FiniteSets

CONSTANT Width      \* bits of a byte, 8 in the code

ASSUME BitmapAssumption == Width \in Nat \ {0}

bits_len(b) == Cardinality(DOMAIN b)
btmp_bytes_len(b) == bits_len(b) \div Width

(* The index of the first byte that is not all ones; the length if none. *)
FreeByte(b) ==
  LET f[i \in 0 .. btmp_bytes_len(b)] ==
        IF i < btmp_bytes_len(b) /\ \A k \in 0 .. Width - 1 : b[i * Width + k] THEN f[i + 1] ELSE i
  IN f[0]

(* The first clear bit of byte i. *)
FreeBit(b, i) ==
  LET f[k \in 0 .. Width] == IF k < Width /\ b[i * Width + k] THEN f[k + 1] ELSE k
  IN f[0]

(* A faulty variant: the bit that ends a run is counted for the next one. *)
RunFromOne(b, cnt, next_bit) ==
  LET f[bit \in 0 .. bits_len(b)] == [count \in Nat |->
        IF bit = bits_len(b) THEN -1
        ELSE LET c == IF b[bit] THEN 1 ELSE count + 1 IN
             IF c = cnt THEN bit - c + 1 ELSE f[bit + 1][c]]
  IN f[next_bit][1]

(* The loop over the bits from next_bit on; the one before it is clear. *)
RunFrom(b, cnt, next_bit) ==
  LET f[bit \in 0 .. bits_len(b)] == [count \in Nat |->
        IF bit = bits_len(b) THEN -1
        ELSE LET c == IF b[bit] THEN 0 ELSE count + 1 IN
             IF c = cnt THEN bit - c + 1 ELSE f[bit + 1][c]]
  IN f[next_bit][1]

(* The ASSERT of bitmap_scan fails. *)
ScanPanics(b) == FreeByte(b) >= btmp_bytes_len(b)

bitmap_scan(b, cnt) ==
  LET i == FreeByte(b)
      start == i * Width + FreeBit(b, i) IN
  IF cnt = 1 THEN start ELSE RunFrom(b, cnt, start + 1)

bitmap_set(b, bit_idx, v) == [b EXCEPT ![bit_idx] = v]
=============================================================================
