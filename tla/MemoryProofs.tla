---------------------------- MODULE MemoryProofs ----------------------------
(***************************************************************************)
(* Memory keeps MemInv, and with it what Memory promises; before that, the *)
(* scan of Bitmap, for bitmaps of every length, which Memory takes for     *)
(* FirstRun.                                                               *)
(***************************************************************************)
EXTENDS MapProofs, Bitmap, FiniteSetTheorems, WellFoundedInduction

(* The prover of the leaves that name none, with time for a slow machine. *)
USE ZenonT(60)

-----------------------------------------------------------------------------
(* Induction on the rows of a loop, with the property as a set.            *)

(* A set of naturals has a least element. *)
LEMMA Least ==
  ASSUME NEW S \in SUBSET Nat, S # {}
  PROVE  \E n \in S : \A m \in S : n <= m
<1> DEFINE R == OpToRel(<, Nat)
<1>1. IsWellFoundedOn(R, Nat)
  BY NatLessThanWellFounded
<1>2. R = {ss \in Nat \X Nat : ss[1] < ss[2]}
  BY DEF OpToRel
<1> HIDE DEF R
<1>3. PICK x \in S : \A y \in S : ~(<<y, x>> \in R)
  BY <1>1, WFMin
<1>4. ASSUME NEW y \in S PROVE x <= y
  <2>1. x \in Nat /\ y \in Nat
    OBVIOUS
  <2>2. SUFFICES ASSUME y < x PROVE FALSE
    BY <2>1, SMT
  <2>3. <<y, x>> \in R
    BY <2>1, <2>2, <1>2
  <2>4. QED BY <2>3, <1>3
<1>5. QED BY <1>4

(* A set that holds 0 and, below n, the successor of each member. *)
LEMMA Induct ==
  ASSUME NEW n \in Nat, NEW S, 0 \in S, \A k \in 0 .. n - 1 : k \in S => k + 1 \in S
  PROVE  \A k \in 0 .. n : k \in S
<1> DEFINE B == {k \in 0 .. n : k \notin S}
<1>1. SUFFICES ASSUME B # {} PROVE FALSE
  OBVIOUS
<1>2. B \in SUBSET Nat
  BY SMT
<1>3. PICK k \in B : \A m \in B : k <= m
  BY <1>1, <1>2, Least
<1>4. k \in 1 .. n
  BY <1>3, SMTT(30)
<1>5. k - 1 \in 0 .. n - 1 /\ k - 1 \in S
  BY <1>3, <1>4, SMTT(30)
<1>6. QED BY <1>3, <1>4, <1>5, SMTT(30)

(* The loops of bitmap_scan that skip over a set of indexes. *)
LEMMA SkipExists ==
  ASSUME NEW n \in Nat, NEW T
  PROVE  \E g : g = [i \in 0 .. n |-> IF i < n /\ i \in T THEN g[i + 1] ELSE i]
<1> DEFINE S == {k \in Nat : \E g : g = [i \in n - k .. n |->
                              IF i < n /\ i \in T THEN g[i + 1] ELSE i]}
<1>1. 0 \in S
  <2> DEFINE g == [i \in n - 0 .. n |-> i]
  <2>1. g = [i \in n - 0 .. n |-> IF i < n /\ i \in T THEN g[i + 1] ELSE i]
    BY SMT
  <2>2. QED BY <2>1
<1>2. ASSUME NEW k \in 0 .. n - 1, k \in S PROVE k + 1 \in S
  <2>1. PICK g : g = [i \in n - k .. n |-> IF i < n /\ i \in T THEN g[i + 1] ELSE i]
    BY <1>2
  <2> DEFINE h == [i \in n - (k + 1) .. n |->
                     IF i = n - (k + 1) THEN (IF i \in T THEN g[i + 1] ELSE i) ELSE g[i]]
  <2>2. ASSUME NEW i \in n - (k + 1) .. n
        PROVE  h[i] = IF i < n /\ i \in T THEN h[i + 1] ELSE i
    <3>1. CASE i = n - (k + 1)
      BY <3>1, SMT
    <3>2. CASE i # n - (k + 1)
      <4>1. i \in n - k .. n /\ h[i] = g[i]
        BY <3>2, SMTT(30)
      <4>2. i < n => h[i + 1] = g[i + 1]
        BY <4>1, SMT
      <4>3. QED BY <4>1, <4>2, <2>1
    <3>3. QED BY <3>1, <3>2
  <2>3. h = [i \in n - (k + 1) .. n |-> IF i < n /\ i \in T THEN h[i + 1] ELSE i]
    <3>1. h = [i \in n - (k + 1) .. n |-> h[i]]
      OBVIOUS
    <3> HIDE DEF h
    <3>2. QED BY <2>2, <3>1
  <2> HIDE DEF h
  <2>4. QED BY <2>3, SMT
<1> HIDE DEF S
<1>3. n \in S
  BY <1>1, <1>2, Induct, SMTT(30)
<1>4. n - n = 0
  BY SMT
<1>5. QED BY <1>3, <1>4 DEF S

(* They stop at the first index that is not in it. *)
LEMMA SkipValue ==
  ASSUME NEW n \in Nat, NEW T, NEW g,
         g = [i \in 0 .. n |-> IF i < n /\ i \in T THEN g[i + 1] ELSE i]
  PROVE  /\ g[0] \in 0 .. n
         /\ \A m \in 0 .. g[0] - 1 : m \in T
         /\ g[0] < n => g[0] \notin T
<1> DEFINE Stop(j) == /\ g[j] \in j .. n
                      /\ \A m \in j .. g[j] - 1 : m \in T
                      /\ g[j] < n => g[j] \notin T
           S == {k \in Nat : k <= n => Stop(n - k)}
<1>0. \A i \in 0 .. n : g[i] = IF i < n /\ i \in T THEN g[i + 1] ELSE i
  OBVIOUS
<1> HIDE DEF Stop
<1>1. 0 \in S
  <2>1. g[n] = n /\ n - 0 = n
    BY <1>0, SMT
  <2>2. QED BY <2>1, SMTT(30) DEF Stop
<1>2. ASSUME NEW k \in 0 .. n - 1, k \in S PROVE k + 1 \in S
  <2> DEFINE i == n - (k + 1)
  <2>1. i \in 0 .. n /\ i < n /\ i + 1 = n - k /\ i + 1 \in 0 .. n
    BY SMT
  <2>2. Stop(n - k)
    BY <1>2, SMT
  <2>3. Stop(i + 1)
    BY <2>1, <2>2
  <2> HIDE DEF i
  <2>4. CASE i \in T
    <3>1. g[i] = g[i + 1]
      BY <2>4, <2>1, <1>0
    <3>2. Stop(i)
      BY <3>1, <2>1, <2>3, <2>4, SMTT(30) DEF Stop
    <3>3. QED BY <3>2, SMT DEF i
  <2>5. CASE i \notin T
    <3>1. g[i] = i
      BY <2>5, <2>1, <1>0
    <3>2. Stop(i)
      BY <3>1, <2>1, <2>5, SMTT(30) DEF Stop
    <3>3. QED BY <3>2, SMT DEF i
  <2>6. QED BY <2>4, <2>5
<1> HIDE DEF S
<1>3. n \in S
  BY <1>1, <1>2, Induct, SMTT(30)
<1>4. Stop(n - n) /\ n - n = 0
  BY <1>3, SMT DEF S
<1>5. QED BY <1>4 DEF Stop

-----------------------------------------------------------------------------
(* The loops of bitmap_scan.                                               *)
Bitmaps(n) == [0 .. n - 1 -> BOOLEAN]

LEMMA BitsLen ==
  ASSUME NEW n \in Nat, NEW b \in Bitmaps(n)
  PROVE  bits_len(b) = n
<1>1. DOMAIN b = 0 .. n - 1
  BY DEF Bitmaps
<1>2. Cardinality(0 .. n - 1) = n
  BY FS_Interval, SMT
<1>3. QED BY <1>1, <1>2 DEF bits_len

(* The first loop stops at the first byte that has a clear bit. *)
LEMMA FreeByteValue ==
  ASSUME NEW b, btmp_bytes_len(b) \in Nat
  PROVE  /\ FreeByte(b) \in 0 .. btmp_bytes_len(b)
         /\ \A i \in 0 .. FreeByte(b) - 1 : \A k \in 0 .. Width - 1 : b[i * Width + k]
         /\ FreeByte(b) < btmp_bytes_len(b) =>
              \E k \in 0 .. Width - 1 : ~b[FreeByte(b) * Width + k]
<1> DEFINE n == btmp_bytes_len(b)
           T == {i \in 0 .. n : \A k \in 0 .. Width - 1 : b[i * Width + k]}
           f[i \in 0 .. n] == IF i < n /\ \A k \in 0 .. Width - 1 : b[i * Width + k]
                             THEN f[i + 1] ELSE i
<1>1. FreeByte(b) = f[0]
  BY DEF FreeByte
<1> HIDE DEF n
<1>2. n \in Nat
  BY DEF n
<1>3. PICK g : g = [i \in 0 .. n |-> IF i < n /\ i \in T THEN g[i + 1] ELSE i]
  BY <1>2, SkipExists
<1>4. \A i \in 0 .. n : i \in T <=> \A k \in 0 .. Width - 1 : b[i * Width + k]
  OBVIOUS
<1> HIDE DEF T
<1>5. g = [i \in 0 .. n |-> IF i < n /\ \A k \in 0 .. Width - 1 : b[i * Width + k]
                           THEN g[i + 1] ELSE i]
  BY <1>3, <1>4
<1>6. f = [i \in 0 .. n |-> IF i < n /\ \A k \in 0 .. Width - 1 : b[i * Width + k]
                           THEN f[i + 1] ELSE i]
  BY <1>5
<1> HIDE DEF f
<1>7. f = [i \in 0 .. n |-> IF i < n /\ i \in T THEN f[i + 1] ELSE i]
  BY <1>6, <1>4
<1>8. /\ f[0] \in 0 .. n
      /\ \A m \in 0 .. f[0] - 1 : m \in T
      /\ f[0] < n => f[0] \notin T
  BY <1>2, <1>7, SkipValue
<1>9. QED
  <2>1. f[0] \in 0 .. n /\ \A m \in 0 .. f[0] - 1 : m \in 0 .. n
    BY <1>2, <1>8, SMTT(30)
  <2>2. /\ \A m \in 0 .. f[0] - 1 : \A k \in 0 .. Width - 1 : b[m * Width + k]
        /\ f[0] < n => \E k \in 0 .. Width - 1 : ~b[f[0] * Width + k]
    BY <2>1, <1>8, <1>4
  <2>3. QED BY <2>1, <2>2, <1>1 DEF n

(* The second loop stops at the first clear bit of the byte. *)
LEMMA FreeBitValue ==
  ASSUME NEW b, NEW i
  PROVE  /\ FreeBit(b, i) \in 0 .. Width
         /\ \A k \in 0 .. FreeBit(b, i) - 1 : b[i * Width + k]
         /\ FreeBit(b, i) < Width => ~b[i * Width + FreeBit(b, i)]
<1> DEFINE T == {k \in 0 .. Width : b[i * Width + k]}
           f[k \in 0 .. Width] == IF k < Width /\ b[i * Width + k] THEN f[k + 1] ELSE k
<1>1. FreeBit(b, i) = f[0]
  BY DEF FreeBit
<1>2. Width \in Nat
  BY BitmapAssumption
<1>3. PICK g : g = [k \in 0 .. Width |-> IF k < Width /\ k \in T THEN g[k + 1] ELSE k]
  BY <1>2, SkipExists
<1>4. \A k \in 0 .. Width : k \in T <=> b[i * Width + k]
  OBVIOUS
<1> HIDE DEF T
<1>5. g = [k \in 0 .. Width |-> IF k < Width /\ b[i * Width + k] THEN g[k + 1] ELSE k]
  BY <1>3, <1>4
<1>6. f = [k \in 0 .. Width |-> IF k < Width /\ b[i * Width + k] THEN f[k + 1] ELSE k]
  BY <1>5
<1> HIDE DEF f
<1>7. f = [k \in 0 .. Width |-> IF k < Width /\ k \in T THEN f[k + 1] ELSE k]
  BY <1>6, <1>4
<1>8. /\ f[0] \in 0 .. Width
      /\ \A m \in 0 .. f[0] - 1 : m \in T
      /\ f[0] < Width => f[0] \notin T
  BY <1>2, <1>7, SkipValue
<1>9. \A m \in 0 .. f[0] - 1 : m \in 0 .. Width
  BY <1>2, <1>8, SMTT(30)
<1>10. QED BY <1>1, <1>4, <1>8, <1>9

(* So a scan that does not panic starts at the first clear bit. *)
LEMMA ScanStart ==
  ASSUME NEW n \in Nat, n % Width = 0, NEW b \in Bitmaps(n), ~ScanPanics(b)
  PROVE  LET start == FreeByte(b) * Width + FreeBit(b, FreeByte(b)) IN
         /\ start \in 0 .. n - 1 /\ ~b[start]
         /\ \A k \in 0 .. start - 1 : b[k]
<1> DEFINE i == FreeByte(b)
           k0 == FreeBit(b, i)
           q == n \div Width
<1>1. Width \in Nat /\ Width > 0
  BY BitmapAssumption, SMTT(30)
<1>2. q \in Nat /\ n = q * Width
  BY <1>1, SMTT(30)
<1>3. btmp_bytes_len(b) = q
  BY BitsLen DEF btmp_bytes_len
<1> HIDE DEF q
<1>4. /\ i \in 0 .. q /\ i < q
      /\ \A m \in 0 .. i - 1 : \A k \in 0 .. Width - 1 : b[m * Width + k]
      /\ \E k \in 0 .. Width - 1 : ~b[i * Width + k]
  <2>1. i < q /\ i \in 0 .. q
    BY <1>2, <1>3, FreeByteValue, SMTT(30) DEF ScanPanics
  <2>2. QED BY <2>1, <1>2, <1>3, FreeByteValue, SMTT(30)
<1>5. /\ k0 \in 0 .. Width /\ \A k \in 0 .. k0 - 1 : b[i * Width + k]
      /\ k0 < Width => ~b[i * Width + k0]
  BY FreeBitValue
<1> HIDE DEF i, k0
<1>6. k0 < Width
  BY <1>1, <1>4, <1>5, SMTT(30)
<1>7. i * Width + Width <= n /\ i * Width \in Nat
  BY <1>1, <1>2, <1>4, SMTT(30)
<1>8. ASSUME NEW k \in 0 .. (i * Width + k0) - 1 PROVE b[k]
  <2>1. CASE k >= i * Width
    <3>1. k - i * Width \in 0 .. k0 - 1 /\ i * Width + (k - i * Width) = k
      BY <2>1, <1>1, <1>4, <1>5, <1>7, SMTT(30)
    <3>2. QED BY <3>1, <1>5
  <2>2. CASE k < i * Width
    <3> DEFINE m == k \div Width
               r == k % Width
    <3>1. k \in Nat
      BY <1>5, <1>7, SMTT(30)
    <3>2. m \in Nat /\ r \in 0 .. Width - 1 /\ k = m * Width + r
      BY <3>1, <1>1, SMTT(30)
    <3> HIDE DEF m, r
    <3>3. m < i
      BY <3>2, <2>2, <1>1, <1>4, SMTT(30)
    <3>4. QED BY <3>2, <3>3, <1>4, SMTT(30)
  <2>3. QED BY <2>1, <2>2, <1>5, <1>7, SMTT(30)
<1>9. i * Width + k0 \in 0 .. n - 1 /\ ~b[i * Width + k0]
  BY <1>1, <1>5, <1>6, <1>7, SMTT(30)
<1>10. \A k \in 0 .. (i * Width + k0) - 1 : b[k]
  BY <1>8
<1>11. QED BY <1>9, <1>10 DEF i, k0

(* A row of the third loop, from the row after it. *)
RunRow(n, b, cnt, next, bit) == [count \in Nat |->
  IF bit = n THEN -1
  ELSE LET c == IF b[bit] THEN 0 ELSE count + 1 IN
       IF c = cnt THEN bit - c + 1 ELSE next[c]]

LEMMA RunRowAt ==
  ASSUME NEW n, NEW b, NEW cnt, NEW next, NEW bit, NEW count \in Nat
  PROVE  RunRow(n, b, cnt, next, bit)[count] =
           IF bit = n THEN -1
           ELSE LET c == IF b[bit] THEN 0 ELSE count + 1 IN
                IF c = cnt THEN bit - c + 1 ELSE next[c]
BY DEF RunRow

Rows(g, n, b, cnt) ==
  g = [bit \in 0 .. n |-> RunRow(n, b, cnt, g[bit + 1], bit)]

(* The function of the third loop exists for every bitmap and count ... *)
LEMMA RunExists ==
  ASSUME NEW n \in Nat, NEW b, NEW cnt
  PROVE  \E g : Rows(g, n, b, cnt)
<1> DEFINE Row(next, bit) == RunRow(n, b, cnt, next, bit)
           S == {k \in Nat : \E g : g = [bit \in n - k .. n |-> Row(g[bit + 1], bit)]}
<1>1. \A x, y : Row(x, n) = Row(y, n)
  BY DEF RunRow
<1> HIDE DEF Row
<1>2. 0 \in S
  <2> DEFINE g == [bit \in n - 0 .. n |-> Row(0, n)]
  <2>1. ASSUME NEW bit \in n - 0 .. n PROVE Row(0, n) = Row(g[bit + 1], bit)
    <3>1. bit = n
      BY SMT
    <3>2. QED BY <3>1, <1>1
  <2>2. g = [bit \in n - 0 .. n |-> Row(g[bit + 1], bit)]
    BY <2>1
  <2> HIDE DEF g
  <2>3. QED BY <2>2
<1>3. ASSUME NEW k \in 0 .. n - 1, k \in S PROVE k + 1 \in S
  <2>1. PICK g : g = [bit \in n - k .. n |-> Row(g[bit + 1], bit)]
    BY <1>3
  <2> DEFINE h == [bit \in n - (k + 1) .. n |->
                     IF bit = n - (k + 1) THEN Row(g[bit + 1], bit) ELSE g[bit]]
  <2>2. ASSUME NEW bit \in n - (k + 1) .. n
        PROVE  h[bit] = Row(h[bit + 1], bit)
    <3>1. h[bit] = Row(g[bit + 1], bit)
      BY <2>1, SMTT(30)
    <3>2. CASE bit = n
      BY <3>1, <3>2, <1>1
    <3>3. CASE bit # n
      <4>1. h[bit + 1] = g[bit + 1]
        BY <3>3, SMTT(30)
      <4>2. QED BY <4>1, <3>1
    <3>4. QED BY <3>2, <3>3
  <2>3. h = [bit \in n - (k + 1) .. n |-> h[bit]]
    OBVIOUS
  <2> HIDE DEF h
  <2>4. h = [bit \in n - (k + 1) .. n |-> Row(h[bit + 1], bit)]
    BY <2>2, <2>3
  <2>5. QED BY <2>4, SMTT(30)
<1> HIDE DEF S
<1>4. n \in S
  BY <1>2, <1>3, Induct, SMT
<1>5. PICK g : g = [bit \in n - n .. n |-> Row(g[bit + 1], bit)]
  BY <1>4 DEF S
<1>6. g = [bit \in 0 .. n |-> Row(g[bit + 1], bit)]
  <2>1. n - n = 0
    BY SMT
  <2>2. QED BY <1>5, <2>1
<1>7. Rows(g, n, b, cnt)
  BY <1>6 DEF Row, Rows
<1>8. QED BY <1>7

(* What FirstRun returns. *)
LEMMA FirstRunIs ==
  ASSUME NEW n \in Nat, NEW b \in Bitmaps(n), NEW cnt \in Nat \ {0}
  PROVE  /\ \A i \in 0 .. n - 1 :
              ClearRun(b, i, cnt) /\ (\A k \in 0 .. n - 1 : ClearRun(b, k, cnt) => i <= k)
                => FirstRun(b, cnt) = i
         /\ (\A i \in 0 .. n - 1 : ~ClearRun(b, i, cnt)) => FirstRun(b, cnt) = -1
<1>1. DOMAIN b = 0 .. n - 1
  BY DEF Bitmaps
<1>2. ASSUME NEW i \in 0 .. n - 1, ClearRun(b, i, cnt),
             \A k \in 0 .. n - 1 : ClearRun(b, k, cnt) => i <= k
      PROVE  FirstRun(b, cnt) = i
  <2> DEFINE P(j) == ClearRun(b, j, cnt) /\ \A k \in DOMAIN b : ClearRun(b, k, cnt) => j <= k
             j0 == CHOOSE j \in DOMAIN b : P(j)
  <2>1. FirstRun(b, cnt) = j0
    BY <1>1, <1>2 DEF FirstRun
  <2>2. j0 \in DOMAIN b /\ P(j0)
    BY <1>1, <1>2
  <2> HIDE DEF j0
  <2>3. j0 <= i /\ i <= j0
    BY <2>2, <1>1, <1>2
  <2>4. QED BY <2>1, <2>2, <2>3, <1>1, SMTT(30)
<1>3. ASSUME \A i \in 0 .. n - 1 : ~ClearRun(b, i, cnt) PROVE FirstRun(b, cnt) = -1
  BY <1>1, <1>3 DEF FirstRun
<1>4. QED BY <1>2, <1>3

(* ... a run that is clear, unless it is -1. *)
LEMMA FirstRunClear ==
  ASSUME NEW n \in Nat, NEW b \in Bitmaps(n), NEW cnt \in Nat \ {0}, FirstRun(b, cnt) # -1
  PROVE  FirstRun(b, cnt) \in 0 .. n - 1 /\ ClearRun(b, FirstRun(b, cnt), cnt)
<1> DEFINE S == {i \in 0 .. n - 1 : ClearRun(b, i, cnt)}
<1>1. S \in SUBSET Nat /\ S # {}
  <2>1. S # {}
    BY FirstRunIs
  <2>2. QED BY <2>1, SMTT(30)
<1>2. PICK i \in S : \A k \in S : i <= k
  BY <1>1, Least
<1>3. FirstRun(b, cnt) = i
  BY <1>2, FirstRunIs
<1>4. QED BY <1>2, <1>3

(* ... so RunFrom is what the rows compute ... *)
LEMMA RunFromRows ==
  ASSUME NEW b, bits_len(b) \in Nat, NEW cnt, NEW next_bit
  PROVE  \E g : /\ RunFrom(b, cnt, next_bit) = g[next_bit][1]
                /\ \A bit \in 0 .. bits_len(b) :
                     g[bit] = RunRow(bits_len(b), b, cnt, g[bit + 1], bit)
<1> DEFINE f[bit \in 0 .. bits_len(b)] == [count \in Nat |->
             IF bit = bits_len(b) THEN -1
             ELSE LET c == IF b[bit] THEN 0 ELSE count + 1 IN
                  IF c = cnt THEN bit - c + 1 ELSE f[bit + 1][c]]
<1>1. RunFrom(b, cnt, next_bit) = f[next_bit][1]
  BY DEF RunFrom
<1>2. PICK g : Rows(g, bits_len(b), b, cnt)
  <2> HIDE DEF f
  <2>1. QED BY RunExists
<1>3. f = [bit \in 0 .. bits_len(b) |-> [count \in Nat |->
             IF bit = bits_len(b) THEN -1
             ELSE LET c == IF b[bit] THEN 0 ELSE count + 1 IN
                  IF c = cnt THEN bit - c + 1 ELSE f[bit + 1][c]]]
  BY <1>2 DEF Rows, RunRow
<1> HIDE DEF f
<1>4. \A bit \in 0 .. bits_len(b) : f[bit] = RunRow(bits_len(b), b, cnt, f[bit + 1], bit)
  BY <1>3 DEF RunRow
<1>5. QED BY <1>1, <1>4

(* ... and from the first clear bit on it counts to the first run. *)
LEMMA RunValue ==
  ASSUME NEW n \in Nat, NEW b \in Bitmaps(n), NEW cnt \in Nat \ {0, 1},
         NEW start \in 0 .. n - 1, ~b[start], \A k \in 0 .. start - 1 : b[k]
  PROVE  RunFrom(b, cnt, start + 1) = FirstRun(b, cnt)
<1>1. bits_len(b) = n /\ DOMAIN b = 0 .. n - 1
  BY BitsLen DEF Bitmaps
<1>2. PICK f : /\ RunFrom(b, cnt, start + 1) = f[start + 1][1]
               /\ \A bit \in 0 .. n : f[bit] = RunRow(n, b, cnt, f[bit + 1], bit)
  BY <1>1, RunFromRows, SMTT(30)
<1> DEFINE \* count clear bits end before bit, and no run starts before them
           Seen(bit, count) ==
             /\ count < cnt /\ count <= bit
             /\ \A k \in bit - count .. bit - 1 : ~b[k]
             /\ \A i \in 0 .. n - 1 : ClearRun(b, i, cnt) => i >= bit - count
           Right(bit) == \A count \in Nat : Seen(bit, count) => f[bit][count] = FirstRun(b, cnt)
           S == {k \in Nat : Right(n - k)}
<1>3. ASSUME NEW bit \in 0 .. n
      PROVE  f[bit] = RunRow(n, b, cnt, f[bit + 1], bit)
  BY <1>2
<1>4. ASSUME NEW bit \in 0 .. n, NEW count \in Nat
      PROVE  f[bit][count] = IF bit = n THEN -1
             ELSE LET c == IF b[bit] THEN 0 ELSE count + 1 IN
                  IF c = cnt THEN bit - c + 1 ELSE f[bit + 1][c]
  <2>1. f[bit][count] = RunRow(n, b, cnt, f[bit + 1], bit)[count]
    BY <1>3
  <2>2. QED BY <2>1, RunRowAt, SMTT(30)
<1>5. \A i \in 0 .. n - 1 : ClearRun(b, i, cnt) <=>
        i + cnt <= n /\ \A k \in i .. i + cnt - 1 : ~b[k]
  <2>1. ASSUME NEW i \in 0 .. n - 1, ClearRun(b, i, cnt) PROVE i + cnt <= n
    <3>1. i + cnt - 1 \in i .. i + cnt - 1
      BY SMT
    <3>2. i + cnt - 1 \in 0 .. n - 1
      BY <3>1, <2>1, <1>1 DEF ClearRun
    <3>3. QED BY <3>2, SMTT(30)
  <2>2. QED BY <2>1, <1>1, SMTT(30) DEF ClearRun
<1> HIDE DEF Seen
<1>6. 0 \in S
  <2>1. ASSUME NEW count \in Nat, Seen(n, count) PROVE f[n][count] = FirstRun(b, cnt)
    <3>1. \A i \in 0 .. n - 1 : ~ClearRun(b, i, cnt)
      BY <2>1, <1>5, SMTT(30) DEF Seen
    <3>2. QED BY <3>1, <1>4, FirstRunIs, SMTT(30)
  <2>2. n - 0 = n
    BY SMTT(30)
  <2>3. QED BY <2>1, <2>2
<1>7. ASSUME NEW m \in 0 .. n - 1, m \in S PROVE m + 1 \in S
  <2> DEFINE bit == n - (m + 1)
  <2>1. bit \in 0 .. n - 1 /\ bit + 1 = n - m
    BY SMT
  <2>2. Right(bit + 1)
    BY <1>7, <2>1
  <2> HIDE DEF bit
  <2>3. ASSUME NEW count \in Nat, Seen(bit, count) PROVE f[bit][count] = FirstRun(b, cnt)
    <3>1. b[bit] \in BOOLEAN
      BY <2>1 DEF Bitmaps
    <3>2. CASE b[bit]
      <4>1. f[bit][count] = f[bit + 1][0]
        BY <3>2, <2>1, <1>4, SMTT(30)
      <4>2. Seen(bit + 1, 0)
        BY <3>2, <2>1, <2>3, <1>5, SMTT(30) DEF Seen
      <4>3. QED BY <4>1, <4>2, <2>2
    <3>3. CASE ~b[bit] /\ count + 1 = cnt
      <4>1. f[bit][count] = bit - count
        BY <3>3, <2>1, <1>4, SMTT(30)
      <4>2. bit - count \in 0 .. n - 1 /\ ClearRun(b, bit - count, cnt)
        BY <3>3, <2>1, <2>3, <1>5, SMTT(30) DEF Seen
      <4>3. FirstRun(b, cnt) = bit - count
        BY <4>2, <2>3, FirstRunIs DEF Seen
      <4>4. QED BY <4>1, <4>3
    <3>4. CASE ~b[bit] /\ count + 1 # cnt
      <4>1. f[bit][count] = f[bit + 1][count + 1]
        BY <3>4, <2>1, <1>4, SMTT(30)
      <4>2. Seen(bit + 1, count + 1)
        BY <3>4, <2>1, <2>3, SMTT(30) DEF Seen
      <4>3. QED BY <4>1, <4>2, <2>2, SMTT(30)
    <3>5. QED BY <3>1, <3>2, <3>3, <3>4
  <2>4. Right(bit)
    BY <2>3
  <2>5. QED BY <2>4, SMTT(30) DEF bit
<1> HIDE DEF S
<1>8. n - (start + 1) \in S
  BY <1>6, <1>7, Induct, SMTT(30)
<1>9. Right(start + 1)
  <2>1. n - (n - (start + 1)) = start + 1
    BY SMTT(30)
  <2>2. QED BY <1>8, <2>1 DEF S
<1>10. Seen(start + 1, 1)
  <2>1. \A i \in 0 .. n - 1 : ClearRun(b, i, cnt) => i >= start
    BY <1>5, SMTT(30)
  <2>2. QED BY <2>1, SMTT(30) DEF Seen
<1>11. QED BY <1>2, <1>9, <1>10

(* bitmap_scan, with its byte-wise skip and its bit-wise count, returns    *)
(* the first run of cnt clear bits, or -1 when there is none, for a bitmap *)
(* of any number of bytes.                                                 *)
THEOREM ScanFindsFirstRun ==
  ASSUME NEW n \in Nat, n % Width = 0, NEW b \in Bitmaps(n), NEW cnt \in Nat \ {0},
         ~ScanPanics(b)
  PROVE  bitmap_scan(b, cnt) = FirstRun(b, cnt)
<1> DEFINE start == FreeByte(b) * Width + FreeBit(b, FreeByte(b))
<1>1. start \in 0 .. n - 1 /\ ~b[start] /\ \A k \in 0 .. start - 1 : b[k]
  BY ScanStart
<1>2. bitmap_scan(b, cnt) = IF cnt = 1 THEN start ELSE RunFrom(b, cnt, start + 1)
  BY DEF bitmap_scan
<1> HIDE DEF start
<1>3. CASE cnt = 1
  <2>1. \A i \in 0 .. n - 1 : ClearRun(b, i, 1) <=> ~b[i]
    BY SMT DEF ClearRun, Bitmaps
  <2>2. FirstRun(b, 1) = start
    BY <2>1, <1>1, FirstRunIs, SMTT(30)
  <2>3. QED BY <2>2, <1>2, <1>3
<1>4. CASE cnt # 1
  BY <1>1, <1>2, <1>4, RunValue, SMTT(30)
<1>5. QED BY <1>3, <1>4

(* The ASSERT of bitmap_scan fails on a full bitmap only. *)
THEOREM ScanPanicsWhenFull ==
  ASSUME NEW n \in Nat, n % Width = 0, NEW b \in Bitmaps(n)
  PROVE  ScanPanics(b) <=> Full(b)
<1> DEFINE q == n \div Width
<1>1. Width \in Nat /\ Width > 0 /\ DOMAIN b = 0 .. n - 1
  BY BitmapAssumption, SMTT(30) DEF Bitmaps
<1>2. q \in Nat /\ n = q * Width /\ btmp_bytes_len(b) = q
  BY <1>1, BitsLen, SMTT(30) DEF btmp_bytes_len
<1> HIDE DEF q
<1>3. ASSUME ScanPanics(b) PROVE Full(b)
  <2>1. FreeByte(b) = q
    BY <1>2, <1>3, FreeByteValue, SMTT(30) DEF ScanPanics
  <2>2. \A i \in 0 .. q - 1 : \A k \in 0 .. Width - 1 : b[i * Width + k]
    BY <1>2, <2>1, FreeByteValue, SMTT(30)
  <2>3. ASSUME NEW j \in 0 .. n - 1 PROVE b[j]
    <3> DEFINE i == j \div Width
               k == j % Width
    <3>1. i \in Nat /\ k \in 0 .. Width - 1 /\ j = i * Width + k
      BY <1>1, SMTT(30)
    <3> HIDE DEF i, k
    <3>2. i \in 0 .. q - 1
      BY <3>1, <1>1, <1>2, SMTT(30)
    <3>3. b[i * Width + k]
      BY <3>1, <3>2, <2>2
    <3>4. QED BY <3>1, <3>3
  <2>4. QED BY <2>3, <1>1 DEF Full
<1>4. ASSUME ~ScanPanics(b) PROVE ~Full(b)
  BY <1>1, <1>4, ScanStart DEF Full
<1>5. QED BY <1>3, <1>4

-----------------------------------------------------------------------------
(* The allocator.                                                          *)

(* The bitmaps of the pools and of the spaces. *)
LEMMA PoolBitmaps ==
  ASSUME MemInv
  PROVE  /\ \A p \in Pools : \E n \in Nat : /\ n % Width = 0 /\ pool[p] \in Bitmaps(n)
                                           /\ PoolBits(p) = 0 .. n - 1
         /\ \A s \in Spaces : \E n \in Nat : /\ n % Width = 0 /\ vbits[s] \in Bitmaps(n)
                                            /\ Pages(s) = 0 .. n - 1
<1>1. ASSUME NEW p \in Pools
      PROVE  \E n \in Nat : n % Width = 0 /\ pool[p] \in Bitmaps(n) /\ PoolBits(p) = 0 .. n - 1
  <2> DEFINE n == IF p = "kernel" THEN KFrames ELSE UFrames
  <2>1. n \in Nat /\ n % Width = 0
    BY MemoryAssumption
  <2>2. PoolBits(p) = 0 .. n - 1
    BY DEF PoolBits
  <2> HIDE DEF n
  <2>3. pool[p] \in Bitmaps(n)
    BY <2>2 DEF MemInv, MemTypeOK, TypeOK, Bitmaps
  <2>4. QED BY <2>1, <2>2, <2>3
<1>2. ASSUME NEW s \in Spaces
      PROVE  \E n \in Nat : n % Width = 0 /\ vbits[s] \in Bitmaps(n) /\ Pages(s) = 0 .. n - 1
  <2> DEFINE n == IF s = "kernel" THEN KPages ELSE UPages
  <2>1. n \in Nat /\ n % Width = 0
    BY MemoryAssumption
  <2>2. Pages(s) = 0 .. n - 1
    BY DEF Pages
  <2> HIDE DEF n
  <2>3. vbits[s] \in Bitmaps(n)
    BY <2>2 DEF MemInv, MemTypeOK, TypeOK, Bitmaps
  <2>4. QED BY <2>1, <2>2, <2>3
<1>3. QED BY <1>1, <1>2

(* palloc finds a frame of its pool whose bit is clear. *)
LEMMA PallocValue ==
  ASSUME MemInv, NEW p \in Pools, ~ScanPanics(pool[p])
  PROVE  /\ palloc(p) \in Frames /\ PoolOf(palloc(p)) = p /\ ~Marked(palloc(p))
         /\ p = "kernel" => palloc(p) \in PoolBits("kernel")
<1>1. PICK n \in Nat : n % Width = 0 /\ pool[p] \in Bitmaps(n) /\ PoolBits(p) = 0 .. n - 1
  BY PoolBitmaps
<1> DEFINE i == bitmap_scan(pool[p], 1)
<1>2. i \in PoolBits(p) /\ ~pool[p][i]
  BY <1>1, ScanStart DEF bitmap_scan
<1> HIDE DEF i
<1>3. palloc(p) = i + phy_addr_start(p)
  BY DEF palloc, i
<1>4. /\ palloc(p) \in Frames /\ PoolOf(palloc(p)) = p /\ palloc(p) - phy_addr_start(p) = i
      /\ p = "kernel" => palloc(p) \in PoolBits("kernel")
  BY <1>2, <1>3, MemoryAssumption, SMTT(30) DEF Pools, PoolBits, Frames, PoolOf, phy_addr_start
<1>5. QED BY <1>2, <1>4 DEF Marked, BitOf

LEMMA PallocScanInv ==
  ASSUME MemInv, NEW t \in Threads, PallocScan(t)
  PROVE  MemInv'
<1>1. /\ cur = t /\ call[t].pc = "scan" /\ Busy(t)
      /\ UNCHANGED <<pool, vbits, pte, pde, owner, held, cur>>
  BY DEF PallocScan, At, Busy
<1>2. CASE Exhausted(pool[PF(t)])
  BY <1>1, <1>2, FullInv DEF Exhausted
<1>3. CASE /\ ~ScanPanics(pool[PF(t)]) /\ UNCHANGED panic
           /\ call' = [call EXCEPT ![t].pc = "set", ![t].frame = palloc(PF(t))]
  <2>1. PICK f \in Frames : f = palloc(PF(t)) /\ PoolOf(f) = PF(t) /\ ~Marked(f)
    BY <1>3, PallocValue DEF PF, Pools
  <2> DEFINE rec == [call[t] EXCEPT !.pc = "set", !.frame = f]
  <2>2. call[t] \in Calls /\ call' = [call EXCEPT ![t] = rec]
    BY <1>3, <2>1 DEF MemInv, MemTypeOK
  <2>3. /\ rec \in Calls /\ rec.pc = "set" /\ rec.frame = f
        /\ rec.page = call[t].page /\ rec.left = call[t].left /\ rec.run = call[t].run
    BY <2>1, <2>2 DEF Calls, Mapping
  <2> HIDE DEF rec
  <2>4. call'[t] = rec
    BY <2>2, <2>3, CallStep
  <2>5. Loose(t)' = Loose(t)
    BY <1>1, <2>3, <2>4 DEF Loose, Mapping
  <2>6. \A g \in Frames : (Taken(t, g)' <=> Taken(t, g)) /\ (GivenUp(t, g)' <=> GivenUp(t, g))
    BY <1>1, <2>3, <2>4 DEF Taken, GivenUp
  <2>7. CallView(t)'
    <3>1. CallView(t)
      BY DEF MemInv
    <3>2. ~Marked(f)'
      BY <2>1, <1>1 DEF Marked
    <3>3. MapView(t) /\ MapView(t)' /\ FrameView(t)'
      BY <3>1, <1>1, <2>1, <2>3, <2>4, SameViews DEF CallView, Mapping, FrameView
    <3>4. QED BY <3>2, <3>3, <2>3, <2>4 DEF CallView, Mapping, Marked
  <2>8. QED BY <1>1, <1>3, <2>2, <2>3, <2>5, <2>6, <2>7, MoveInv
<1>4. QED BY <1>2, <1>3 DEF PallocScan

LEMMA TableScanInv ==
  ASSUME MemInv, NEW t \in Threads, TableScan(t)
  PROVE  MemInv'
<1>1. /\ cur = t /\ call[t].pc = "table" /\ Busy(t)
      /\ UNCHANGED <<pool, vbits, pte, pde, owner, held, cur>>
  BY DEF TableScan, At, Busy
<1>2. CASE Exhausted(pool["kernel"])
  BY <1>1, <1>2, FullInv DEF Exhausted
<1>3. CASE /\ ~ScanPanics(pool["kernel"]) /\ UNCHANGED panic
           /\ call' = [call EXCEPT ![t].pc = "tset", ![t].table = palloc("kernel")]
  <2>1. PICK f \in PoolBits("kernel") : f = palloc("kernel") /\ ~Marked(f)
    BY <1>3, PallocValue DEF Pools
  <2> DEFINE rec == [call[t] EXCEPT !.pc = "tset", !.table = f]
  <2>2. call[t] \in Calls /\ call' = [call EXCEPT ![t] = rec]
    BY <1>3, <2>1 DEF MemInv, MemTypeOK
  <2>3. /\ rec \in Calls /\ rec.pc = "tset" /\ rec.frame = call[t].frame /\ rec.table = f
        /\ rec.page = call[t].page /\ rec.left = call[t].left /\ rec.run = call[t].run
    BY <2>1, <2>2 DEF Calls, Mapping
  <2> HIDE DEF rec
  <2>4. call'[t] = rec
    BY <2>2, <2>3, CallStep
  <2>5. Loose(t)' = Loose(t)
    BY <1>1, <2>3, <2>4 DEF Loose, Mapping
  <2>6. \A g \in Frames : (Taken(t, g)' <=> Taken(t, g)) /\ (GivenUp(t, g)' <=> GivenUp(t, g))
    BY <1>1, <2>3, <2>4 DEF Taken, GivenUp
  <2>7. CallView(t)'
    <3>1. CallView(t)
      BY DEF MemInv
    <3>2. ~Marked(f)'
      BY <2>1, <1>1 DEF Marked
    <3>3. MapView(t)' /\ FrameView(t)' /\ t \in Procs /\ pde[t][Dir(t)] = None /\ Dir(t)' = Dir(t)
      BY <3>1, <1>1, <2>1, <2>3, <2>4, SameViews DEF CallView, Mapping, Dir
    <3>4. QED BY <3>2, <3>3, <1>1, <2>1, <2>3, <2>4 DEF CallView, Mapping, Marked
  <2>8. QED BY <1>1, <1>3, <2>2, <2>3, <2>5, <2>6, <2>7, MoveInv
<1>4. QED BY <1>2, <1>3 DEF TableScan

LEMMA vaddr_getInv ==
  ASSUME MemInv, NEW t \in Threads, vaddr_get(t)
  PROVE  MemInv'
<1>1. /\ cur = t /\ call[t].pc = "vaddr" /\ Busy(t) /\ panic = "no"
      /\ UNCHANGED <<pool, pte, pde, owner, held, cur>>
  BY DEF vaddr_get, At, Busy
<1>2. PICK s, n, i : s = Space(t) /\ n = call[t].left /\ i = bitmap_scan(vbits[s], n)
  OBVIOUS
<1>3. \/ Exhausted(vbits[s]) /\ UNCHANGED vbits
      \/ ~ScanPanics(vbits[s]) /\ i = -1 /\ Goto(t, "rel") /\ UNCHANGED <<vbits, panic>>
      \/ /\ ~ScanPanics(vbits[s]) /\ i # -1
         /\ AssertThat(t \in Procs => i < UPages - 1)
         /\ vbits' = [vbits EXCEPT ![s] = SetRun(vbits[s], i, n, TRUE)]
         /\ call' = [call EXCEPT ![t].pc = "scan", ![t].page = i, ![t].run = <<i, n>>]
  BY <1>2 DEF vaddr_get
<1>4. CallView(t) /\ call[t] \in Calls
  BY DEF MemInv, MemTypeOK
<1>5. n \in Nat \ {0} /\ call[t].run = <<0, 0>> /\ s \in Spaces
  BY <1>1, <1>2, <1>4, SpaceFacts, SMTT(30) DEF CallView, Calls
<1>6. PICK m \in Nat : m % Width = 0 /\ vbits[s] \in Bitmaps(m) /\ Pages(s) = 0 .. m - 1
  BY <1>5, PoolBitmaps
<1>7. CASE Exhausted(vbits[s]) /\ UNCHANGED vbits
  BY <1>1, <1>7, FullInv DEF Exhausted
<1>8. CASE ~ScanPanics(vbits[s]) /\ i = -1 /\ Goto(t, "rel") /\ UNCHANGED <<vbits, panic>>
  <2> DEFINE rec == [call[t] EXCEPT !.pc = "rel"]
  <2>1. call' = [call EXCEPT ![t] = rec]
    BY <1>8 DEF Goto
  <2>2. rec \in Calls /\ rec.pc = "rel" /\ rec.run = call[t].run
    BY <1>4 DEF Calls
  <2> HIDE DEF rec
  <2>3. call'[t] = rec
    BY <2>1, <2>2, CallStep
  <2>4. Loose(t) = {} /\ Loose(t)' = {}
    BY <2>2, <2>3, <1>1 DEF Loose, Mapping
  <2>5. \A f \in Frames : (Taken(t, f)' <=> Taken(t, f)) /\ (GivenUp(t, f)' <=> GivenUp(t, f))
    BY <2>2, <2>3, <1>1 DEF Taken, GivenUp
  <2>6. CallView(t)'
    <3>1. RunPages(<<0, 0>>) = {}
      BY SMTT(30) DEF RunPages
    <3>2. QED BY <3>1, <2>2, <2>3, <1>5 DEF CallView, Mapping
  <2>7. QED BY <2>1, <2>2, <2>4, <2>5, <2>6, <1>1, <1>8, MoveInv
<1>9. CASE /\ ~ScanPanics(vbits[s]) /\ i # -1
           /\ AssertThat(t \in Procs => i < UPages - 1)
           /\ vbits' = [vbits EXCEPT ![s] = SetRun(vbits[s], i, n, TRUE)]
           /\ call' = [call EXCEPT ![t].pc = "scan", ![t].page = i, ![t].run = <<i, n>>]
  <2>1. i = FirstRun(vbits[s], n)
    BY <1>2, <1>5, <1>6, <1>9, ScanFindsFirstRun
  <2>2. i \in 0 .. m - 1 /\ ClearRun(vbits[s], i, n)
    BY <2>1, <1>5, <1>6, <1>9, FirstRunClear
  <2>3. i \in Nat /\ i \in Pages(s) /\ ~vbits[s][i]
    BY <2>2, <1>5, <1>6, SMTT(30) DEF ClearRun
  <2>4. t \in Procs => i < UPages - 1
    <3>1. SUFFICES ASSUME t \in Procs PROVE i < UPages - 1
      OBVIOUS
    <3>2. vbits[s][UPages - 1] /\ s # "kernel"
      BY <3>1, <1>1, <1>2, StackPage DEF MemInv, StackKept
    <3>3. i # UPages - 1 /\ i \in 0 .. UPages - 1
      BY <3>2, <2>3 DEF Pages
    <3>4. QED BY <3>3, MemoryAssumption, SMTT(30)
  <2>5. UNCHANGED panic
    BY <2>4, <1>9 DEF AssertThat
  <2>6. TakesRun(t, s, i, n)
    BY <2>2, <2>3, <2>5, <1>1, <1>2, <1>9 DEF TakesRun
  <2>7. QED BY <2>6, TakesRunInv
<1>10. QED BY <1>3, <1>7, <1>8, <1>9

-----------------------------------------------------------------------------
(* The theorems.                                                           *)

(* Every step of the allocator, and a switch of threads of the same kind,  *)
(* keeps MemInv: bitmaps, page tables and the calls under way agree.       *)
THEOREM Invariance ==
  ASSUME NoMixing
  PROVE  Spec => []MemInv
<1>1. Init => MemInv
  BY InitInv
<1>2. ASSUME MemInv, [Next]_vars PROVE MemInv'
  <2>1. ASSUME NEW t \in Threads, Step(t) PROVE MemInv'
    <3>1. CASE \E n \in 1 .. MaxCnt : Alloc(t, n)
      BY <3>1, <1>2, AllocInv
    <3>2. CASE \E r \in held[t] : Free(t, r)
      BY <3>2, <1>2, FreeInv
    <3>3. CASE get_a_page(t)
      BY <3>3, <1>2, get_a_pageInv
    <3>4. CASE vaddr_get(t)
      BY <3>4, <1>2, vaddr_getInv, SMTT(30)
    <3>5. CASE PallocScan(t)
      BY <3>5, <1>2, PallocScanInv
    <3>6. CASE PallocSet(t)
      BY <3>6, <1>2, PallocSetInv
    <3>7. CASE page_table_add(t)
      BY <3>7, <1>2, page_table_addInv
    <3>8. CASE TableScan(t)
      BY <3>8, <1>2, TableScanInv
    <3>9. CASE TableSet(t)
      BY <3>9, <1>2, TableSetInv
    <3>10. CASE NewTable(t)
      BY <3>10, <1>2, NewTableInv
    <3>11. CASE pfree(t)
      BY <3>11, <1>2, pfreeInv
    <3>12. CASE page_table_pte_remove(t)
      BY <3>12, <1>2, page_table_pte_removeInv
    <3>13. CASE vaddr_remove(t)
      BY <3>13, <1>2, vaddr_removeInv
    <3>14. CASE Release(t)
      BY <3>14, <1>2, ReleaseInv
    <3>15. QED BY <2>1, <3>1, <3>2, <3>3, <3>4, <3>5, <3>6, <3>7, <3>8, <3>9, <3>10,
                  <3>11, <3>12, <3>13, <3>14, SMTT(30) DEF Step
  <2>2. ASSUME NEW t \in Threads, Switch(t) PROVE MemInv'
    BY <2>2, <1>2, SwitchInv
  <2>3. CASE UNCHANGED vars
    <3>1. MemTypeOK' /\ OneCall' /\ panic' # "assert"
      BY <2>3, <1>2 DEF vars, MemInv, MemTypeOK, TypeOK, OneCall, Busy
    <3>2. QED BY <3>1, <2>3, <1>2, QuietInv DEF vars
  <2>4. QED BY <1>2, <2>1, <2>2, <2>3 DEF Next
<1>3. QED BY <1>1, <1>2, PTL DEF Spec

(* bitmap_scan finds the first run of clear bits in the bitmaps of the     *)
(* pools and of the pages, whatever was allocated and freed before.        *)
THEOREM ScansFirstFit ==
  ASSUME NoMixing
  PROVE  Spec => []FirstFit
<1>1. ASSUME MemInv PROVE FirstFit
  <2>1. SUFFICES ASSUME NEW b \in {pool[p] : p \in Pools} \cup {vbits[s] : s \in Spaces},
                        ~ScanPanics(b), NEW cnt \in 1 .. bits_len(b)
                 PROVE  bitmap_scan(b, cnt) = FirstRun(b, cnt)
    BY DEF FirstFit
  <2>2. PICK n \in Nat : n % Width = 0 /\ b \in Bitmaps(n)
    BY <1>1, PoolBitmaps
  <2>3. cnt \in Nat \ {0}
    BY <2>2, BitsLen, SMTT(30)
  <2>4. QED BY <2>1, <2>2, <2>3, ScanFindsFirstRun
<1>2. QED BY <1>1, Invariance, PTL

(* The ASSERTs of page_table_add, vaddr_get and mfree_page never fail: the *)
(* kernel stops only when a pool or an address space is full.              *)
THEOREM StopsOnlyWhenFull ==
  ASSUME NoMixing
  PROVE  Spec => []PanicsOnlyWhenFull
<1>1. MemInv => PanicsOnlyWhenFull
  BY DEF MemInv, PanicsOnlyWhenFull
<1>2. QED BY <1>1, Invariance, PTL

(* The members of Uses. *)
LEMMA UsesAre ==
  ASSUME NEW f, NEW c
  PROVE  c \in Uses(f) <=>
           \/ \E s \in Spaces : \E v \in Pages(s) : pte[s][v] = f /\ c = <<s, "page", v>>
           \/ \E p \in Procs : \E d \in Dirs : pde[p][d] = f /\ c = <<p, "table", d>>
<1> DEFINE P(s) == {<<s, "page", v>> : v \in {w \in Pages(s) : pte[s][w] = f}}
           T(p) == {<<p, "table", d>> : d \in {e \in Dirs : pde[p][e] = f}}
<1>1. \A s : c \in P(s) <=> \E v \in Pages(s) : pte[s][v] = f /\ c = <<s, "page", v>>
  OBVIOUS
<1>2. \A p : c \in T(p) <=> \E d \in Dirs : pde[p][d] = f /\ c = <<p, "table", d>>
  OBVIOUS
<1> DEFINE A == UNION {P(s) : s \in Spaces}
           B == UNION {T(p) : p \in Procs}
<1>3. c \in Uses(f) <=> c \in A \/ c \in B
  BY DEF Uses
<1> HIDE DEF P, T
<1>4. (c \in A <=> \E s \in Spaces : c \in P(s)) /\ (c \in B <=> \E p \in Procs : c \in T(p))
  OBVIOUS
<1> HIDE DEF A, B
<1>5. QED BY <1>1, <1>2, <1>3, <1>4

(* No frame is mapped twice, or used for a page and a page table.          *)
THEOREM FramesNotShared ==
  ASSUME NoMixing
  PROVE  Spec => []NoSharedFrame
<1>1. ASSUME MemInv PROVE NoSharedFrame
  <2>1. SUFFICES ASSUME NEW f \in Frames PROVE Cardinality(Uses(f)) <= 1
    BY DEF NoSharedFrame
  <2>2. f # None
    BY MemoryAssumption, SMTT(30) DEF Frames
  <2>3. ASSUME NEW a \in Uses(f), NEW b \in Uses(f) PROVE a = b
    <3>1. \A c \in Uses(f) :
            \/ \E s \in Spaces : \E v \in Pages(s) : pte[s][v] = f /\ c = <<s, "page", v>>
            \/ \E p \in Procs : \E d \in Dirs : pde[p][d] = f /\ c = <<p, "table", d>>
      BY UsesAre, SMTT(30)
    <3>2. NamedOnce
      BY <1>1 DEF MemInv
    <3>3. CASE \E s \in Spaces : \E v \in Pages(s) : pte[s][v] = f /\ a = <<s, "page", v>>
      <4>a. PICK s \in Spaces : \E v \in Pages(s) : pte[s][v] = f /\ a = <<s, "page", v>>
        BY <3>3
      <4>1. PICK v \in Pages(s) : pte[s][v] = f /\ a = <<s, "page", v>>
        BY <4>a
      <4>2. \A p \in Procs : \A d \in Dirs : pde[p][d] # f
        BY <4>1, <3>2, <2>2 DEF NamedOnce, PagesNotTables
      <4>3. \A r \in Spaces : \A w \in Pages(r) : pte[r][w] = f => r = s /\ w = v
        BY <4>1, <3>2, <2>2 DEF NamedOnce, PagesOnce
      <4>4. QED BY <4>1, <4>2, <4>3, <3>1, SMTT(30)
    <3>4. CASE \E p \in Procs : \E d \in Dirs : pde[p][d] = f /\ a = <<p, "table", d>>
      <4>1. PICK p \in Procs, d \in Dirs : pde[p][d] = f /\ a = <<p, "table", d>>
        BY <3>4
      <4>2. \A s \in Spaces : \A v \in Pages(s) : pte[s][v] # f
        BY <4>1, <3>2, <2>2 DEF NamedOnce, PagesNotTables
      <4>3. \A q \in Procs : \A e \in Dirs : pde[q][e] = f => q = p /\ e = d
        BY <4>1, <3>2, <2>2, SMTT(30) DEF NamedOnce, TablesOnce
      <4>4. QED BY <4>1, <4>2, <4>3, <3>1, SMTT(30)
    <3>5. QED BY <3>1, <3>3, <3>4
  <2>4. CASE Uses(f) = {}
    BY <2>4, FS_EmptySet, SMTT(30)
  <2>5. CASE Uses(f) # {}
    <3>1. PICK a : Uses(f) = {a}
      BY <2>3, <2>5
    <3>2. Cardinality({a}) = 1
      BY FS_Singleton
    <3>3. QED BY <3>1, <3>2, SMTT(30)
  <2>6. QED BY <2>4, <2>5
<1>2. QED BY <1>1, Invariance, PTL

(* Between calls the bitmaps say exactly what is in use, so that a call    *)
(* that failed and a run that was freed leave nothing behind.              *)
THEOREM BitsTellUse ==
  ASSUME NoMixing
  PROVE  Spec => []BitsMatchUse
<1>1. ASSUME MemInv PROVE BitsMatchUse
  <2>1. SUFFICES ASSUME \A t \in Threads : call[t].pc \in {"start", "out"}
                 PROVE  /\ \A p \in Pools : \A i \in PoolBits(p) :
                             pool[p][i] = (Uses(i + phy_addr_start(p)) # {})
                        /\ \A s \in Spaces : \A v \in Pages(s) : vbits[s][v] = (pte[s][v] # None)
    BY DEF BitsMatchUse
  <2>2. PICK t \in Threads : t = cur
    BY <1>1 DEF MemInv, MemTypeOK, TypeOK
  <2>3. Alone(t) /\ ~Busy(t)
    BY <2>1 DEF Alone, Busy
  <2>4. FramesMarked(t) /\ PagesMarked(t) /\ Loose(t) = {}
    BY <2>3, <1>1, Resting DEF MemInv
  <2>5. ASSUME NEW p \in Pools, NEW i \in PoolBits(p)
        PROVE  pool[p][i] = (Uses(i + phy_addr_start(p)) # {})
    <3> DEFINE f == i + phy_addr_start(p)
    <3>1. f \in Frames /\ PoolOf(f) = p /\ BitOf(p, f) = i
      BY MemoryAssumption, SMTT(30) DEF Pools, PoolBits, Frames, PoolOf, BitOf, phy_addr_start
    <3> HIDE DEF f
    <3>2. Marked(f) <=> Named(f)
      BY <3>1, <2>1, <2>4 DEF FramesMarked, Taken, GivenUp
    <3>3. Named(f) <=> Uses(f) # {}
      <4>1. ASSUME NEW s \in Spaces, NEW v \in Pages(s), pte[s][v] = f PROVE <<s, "page", v>> \in Uses(f)
        BY <4>1, UsesAre
      <4>2. ASSUME NEW q \in Procs, NEW d \in Dirs, pde[q][d] = f PROVE <<q, "table", d>> \in Uses(f)
        BY <4>2, UsesAre
      <4>3. ASSUME NEW c \in Uses(f) PROVE Named(f)
        BY UsesAre DEF Named
      <4>4. QED BY <4>1, <4>2, <4>3 DEF Named
    <3>4. pool[p][i] \in BOOLEAN
      BY <1>1 DEF MemInv, MemTypeOK, TypeOK
    <3>5. QED BY <3>1, <3>2, <3>3, <3>4 DEF Marked, f
  <2>6. ASSUME NEW s \in Spaces, NEW v \in Pages(s) PROVE vbits[s][v] = (pte[s][v] # None)
    <3>1. vbits[s][v] <=> pte[s][v] # None
      BY <2>4 DEF PagesMarked
    <3>2. vbits[s][v] \in BOOLEAN
      BY <1>1 DEF MemInv, MemTypeOK, TypeOK
    <3>3. QED BY <3>1, <3>2
  <2>7. QED BY <2>5, <2>6
<1>2. QED BY <1>1, Invariance, PTL
=============================================================================
