----------------------------- MODULE HeapProofs -----------------------------
(***************************************************************************)
(* Proofs about Heap, for any sizes of pages, headers and blocks, any      *)
(* number of block sizes and pages, and any sizes asked for: HeapInv is    *)
(* inductive, and PiecesDisjoint, CountsFree and EmptyArenasReturned       *)
(* follow from it.                                                         *)
(***************************************************************************)
EXTENDS Heap, FiniteSetTheorems, WellFoundedInduction, TLAPS

(* The prover of the leaves that name none, with time for a slow machine. *)
USE ZenonT(60)

-----------------------------------------------------------------------------
(* Recursion over numbers.                                                 *)

(* A set of naturals has a least element. *)
LEMMA Least ==
  ASSUME NEW S \in SUBSET Nat, S # {}
  PROVE  \E n \in S : \A m \in S : n <= m
<1> DEFINE R == OpToRel(<, Nat)
<1>1. IsWellFoundedOn(R, Nat)
  BY NatLessThanWellFounded
<1>2. R = {ss \in Nat \X Nat : ss[1] < ss[2]}
  BY DEF OpToRel
<1> HIDE DEF R
<1>3. PICK x \in S : \A y \in S : ~(<<y, x>> \in R)
  BY <1>1, WFMin
<1>4. ASSUME NEW y \in S PROVE x <= y
  <2>1. x \in Nat /\ y \in Nat
    OBVIOUS
  <2>2. SUFFICES ASSUME y < x PROVE FALSE
    BY <2>1, SMT
  <2>3. <<y, x>> \in R
    BY <2>1, <2>2, <1>2
  <2>4. QED BY <2>3, <1>3
<1>5. QED BY <1>4

(* A set that holds 0 and, below n, the successor of each member. *)
LEMMA Induct ==
  ASSUME NEW n \in Nat, NEW S, 0 \in S, \A k \in 0 .. n - 1 : k \in S => k + 1 \in S
  PROVE  \A k \in 0 .. n : k \in S
<1> DEFINE B == {k \in 0 .. n : k \notin S}
<1>1. SUFFICES ASSUME B # {} PROVE FALSE
  OBVIOUS
<1>2. B \in SUBSET Nat
  BY SMT
<1>3. PICK k \in B : \A m \in B : k <= m
  BY <1>1, <1>2, Least
<1>4. k \in 1 .. n
  BY <1>3, SMT
<1>5. k - 1 \in 0 .. n - 1 /\ k - 1 \in S
  BY <1>3, <1>4, SMT
<1>6. QED BY <1>3, <1>4, <1>5, SMT

Doubles(g, n, m) == g = [i \in 0 .. n |-> IF i = 0 THEN m ELSE 2 * g[i - 1]]

(* The recursion of block_desc_init has a solution. *)
LEMMA SizesExist ==
  ASSUME NEW n \in Nat, NEW m
  PROVE  \E g : Doubles(g, n, m)
<1> DEFINE S == {k \in Nat : \E g : g = [i \in 0 .. k |-> IF i = 0 THEN m ELSE 2 * g[i - 1]]}
<1>1. 0 \in S
  <2> DEFINE g == [i \in 0 .. 0 |-> m]
  <2>1. g = [i \in 0 .. 0 |-> IF i = 0 THEN m ELSE 2 * g[i - 1]]
    BY SMT
  <2>2. QED BY <2>1
<1>2. ASSUME NEW k \in 0 .. n - 1, k \in S PROVE k + 1 \in S
  <2>1. PICK g : g = [i \in 0 .. k |-> IF i = 0 THEN m ELSE 2 * g[i - 1]]
    BY <1>2
  <2> DEFINE h == [i \in 0 .. k + 1 |-> IF i = k + 1 THEN 2 * g[k] ELSE g[i]]
  <2>2. ASSUME NEW i \in 0 .. k + 1
        PROVE  h[i] = IF i = 0 THEN m ELSE 2 * h[i - 1]
    <3>1. CASE i = k + 1
      BY <3>1, SMT
    <3>2. CASE i # k + 1
      <4>1. i \in 0 .. k /\ h[i] = g[i]
        BY <3>2, SMT
      <4>2. i # 0 => h[i - 1] = g[i - 1]
        BY <4>1, SMT
      <4>3. QED BY <4>1, <4>2, <2>1
    <3>3. QED BY <3>1, <3>2
  <2>3. h = [i \in 0 .. k + 1 |-> IF i = 0 THEN m ELSE 2 * h[i - 1]]
    <3>1. h = [i \in 0 .. k + 1 |-> h[i]]
      OBVIOUS
    <3> HIDE DEF h
    <3>2. QED BY <2>2, <3>1
  <2> HIDE DEF h
  <2>4. QED BY <2>3, SMT
<1> HIDE DEF S
<1>3. n \in S
  BY <1>1, <1>2, Induct, SMT
<1>4. QED BY <1>3 DEF S, Doubles

(* The rows of mem_block_size. *)
LEMMA SizeRows ==
  \A d \in Descs : mem_block_size[d] = IF d = 0 THEN MinBlock ELSE 2 * mem_block_size[d - 1]
<1>1. DESC_INT - 1 \in Nat
  BY HeapAssumption, SMT
<1>2. \E g : g = [d \in Descs |-> IF d = 0 THEN MinBlock ELSE 2 * g[d - 1]]
  <2>1. PICK g : Doubles(g, DESC_INT - 1, MinBlock)
    BY <1>1, SizesExist
  <2>2. QED BY <2>1 DEF Doubles, Descs
<1>3. mem_block_size = [d \in Descs |-> IF d = 0 THEN MinBlock ELSE 2 * mem_block_size[d - 1]]
  BY <1>2 DEF mem_block_size
<1>4. QED BY <1>3

(* Every size is a positive number. *)
LEMMA SizePositive ==
  \A d \in Descs : mem_block_size[d] \in Nat \ {0}
<1> DEFINE S == {k \in Nat : k \in Descs => mem_block_size[k] \in Nat \ {0}}
<1>1. DESC_INT - 1 \in Nat /\ MinBlock \in Nat \ {0}
  BY HeapAssumption, SMT
<1>2. 0 \in S
  BY <1>1, SizeRows, SMT DEF Descs
<1>3. ASSUME NEW k \in 0 .. DESC_INT - 1 - 1, k \in S PROVE k + 1 \in S
  BY <1>1, <1>3, SizeRows, SMT DEF Descs
<1> HIDE DEF S
<1>4. \A k \in 0 .. DESC_INT - 1 : k \in S
  BY <1>1, <1>2, <1>3, Induct
<1>5. QED BY <1>4, SMT DEF S, Descs

-----------------------------------------------------------------------------
(* Free lists.                                                             *)

(* list_append of a block. *)
LEMMA AppendElems ==
  ASSUME NEW q \in Seq(Nat), NEW e \in Nat
  PROVE  /\ Append(q, e) \in Seq(Nat)
         /\ Elems(Append(q, e)) = Elems(q) \cup {e}
         /\ NoRepeat(q) /\ e \notin Elems(q) => NoRepeat(Append(q, e))
<1>1. /\ Append(q, e) \in Seq(Nat) /\ DOMAIN q = 1 .. Len(q) /\ Len(q) \in Nat
      /\ DOMAIN Append(q, e) = 1 .. Len(q) + 1
      /\ \A i \in 1 .. Len(q) : Append(q, e)[i] = q[i]
      /\ Append(q, e)[Len(q) + 1] = e
  BY SMT
<1>2. \A i : i \in 1 .. Len(q) + 1 <=> (i \in 1 .. Len(q) \/ i = Len(q) + 1)
  BY <1>1, SMT
<1>3. Elems(Append(q, e)) = Elems(q) \cup {e}
  BY <1>1, <1>2 DEF Elems
<1>4. ASSUME NoRepeat(q), e \notin Elems(q)
      PROVE  NoRepeat(Append(q, e))
  BY <1>1, <1>2, <1>4 DEF NoRepeat, Elems
<1>5. QED BY <1>1, <1>3, <1>4

(* list_pop. *)
LEMMA TailElems ==
  ASSUME NEW q \in Seq(Nat), q # <<>>
  PROVE  /\ Head(q) \in Elems(q) /\ Head(q) \in Nat /\ Tail(q) \in Seq(Nat)
         /\ NoRepeat(q) => NoRepeat(Tail(q)) /\ Elems(Tail(q)) = Elems(q) \ {Head(q)}
<1>1. /\ DOMAIN q = 1 .. Len(q) /\ Len(q) \in Nat \ {0} /\ Head(q) = q[1] /\ q[1] \in Nat
      /\ Tail(q) \in Seq(Nat) /\ DOMAIN Tail(q) = 1 .. Len(q) - 1
      /\ \A i \in 1 .. Len(q) - 1 : Tail(q)[i] = q[i + 1]
  BY SMT
<1>2. \A i \in 1 .. Len(q) - 1 : i + 1 \in 1 .. Len(q) /\ i + 1 # 1
  BY <1>1, SMT
<1>3. \A i \in 1 .. Len(q) : i # 1 => \E j \in 1 .. Len(q) - 1 : i = j + 1
  <2>1. ASSUME NEW i \in 1 .. Len(q), i # 1 PROVE i - 1 \in 1 .. Len(q) - 1 /\ i = i - 1 + 1
    BY <1>1, <2>1, SMT
  <2>2. QED BY <2>1
<1>4. 1 \in 1 .. Len(q) /\ \A i, j \in 1 .. Len(q) - 1 : i + 1 = j + 1 => i = j
  BY <1>1, SMT
<1>5. Head(q) \in Elems(q)
  BY <1>1, <1>4 DEF Elems
<1>6. ASSUME NoRepeat(q)
      PROVE  NoRepeat(Tail(q)) /\ Elems(Tail(q)) = Elems(q) \ {Head(q)}
  <2>1. NoRepeat(Tail(q))
    BY <1>1, <1>2, <1>4, <1>6, SMTT(30) DEF NoRepeat
  <2>2. Elems(Tail(q)) \subseteq Elems(q) \ {Head(q)}
    BY <1>1, <1>2, <1>4, <1>6, SMTT(30) DEF NoRepeat, Elems
  <2>3. Elems(q) \ {Head(q)} \subseteq Elems(Tail(q))
    <3>1. SUFFICES ASSUME NEW e \in Elems(q), e # Head(q) PROVE e \in Elems(Tail(q))
      OBVIOUS
    <3>2. PICK i \in 1 .. Len(q) : e = q[i] /\ i # 1
      BY <1>1, <3>1 DEF Elems
    <3>3. PICK j \in 1 .. Len(q) - 1 : i = j + 1
      BY <1>3, <3>2
    <3>4. QED BY <1>1, <3>2, <3>3 DEF Elems
  <2>4. QED BY <2>1, <2>2, <2>3
<1>7. QED BY <1>1, <1>5, <1>6

Rests(g, n, s, gone) ==
  g = [i \in 0 .. n |-> IF i = 0 THEN <<>>
                        ELSE IF s[i] \in gone THEN g[i - 1] ELSE Append(g[i - 1], s[i])]

(* The recursion of Removed has a solution. *)
LEMMA RestsExist ==
  ASSUME NEW n \in Nat, NEW s, NEW gone
  PROVE  \E g : Rests(g, n, s, gone)
<1> DEFINE Row(g, i) == IF i = 0 THEN <<>>
                        ELSE IF s[i] \in gone THEN g[i - 1] ELSE Append(g[i - 1], s[i])
           S == {k \in Nat : \E g : g = [i \in 0 .. k |-> Row(g, i)]}
<1>1. 0 \in S
  <2> DEFINE g == [i \in 0 .. 0 |-> <<>>]
  <2>1. g = [i \in 0 .. 0 |-> Row(g, i)]
    BY SMT
  <2>2. QED BY <2>1
<1>2. ASSUME NEW k \in 0 .. n - 1, k \in S PROVE k + 1 \in S
  <2>1. PICK g : g = [i \in 0 .. k |-> Row(g, i)]
    BY <1>2
  <2> DEFINE h == [i \in 0 .. k + 1 |-> IF i = k + 1 THEN Row(g, k + 1) ELSE g[i]]
  <2>2. ASSUME NEW i \in 0 .. k + 1
        PROVE  h[i] = Row(h, i)
    <3>1. i # 0 => i - 1 \in 0 .. k /\ h[i - 1] = g[i - 1]
      BY SMT
    <3>2. Row(g, i) = Row(h, i)
      BY <3>1
    <3>3. i # k + 1 => i \in 0 .. k
      BY SMT
    <3>4. h[i] = Row(g, i)
      BY <2>1, <3>3
    <3>5. QED BY <3>2, <3>4
  <2>3. h = [i \in 0 .. k + 1 |-> Row(h, i)]
    <3>1. h = [i \in 0 .. k + 1 |-> h[i]]
      OBVIOUS
    <3> HIDE DEF h
    <3>2. QED BY <2>2, <3>1
  <2> HIDE DEF h
  <2>4. QED BY <2>3, SMTT(30)
<1> HIDE DEF S
<1>3. n \in S
  BY <1>1, <1>2, Induct, SMT
<1>4. QED BY <1>3 DEF S, Rests

(* Removed leaves the other elements, each as often as before. *)
LEMMA RemovedElems ==
  ASSUME NEW s \in Seq(Nat), NEW gone, NoRepeat(s)
  PROVE  /\ Removed(s, gone) \in Seq(Nat) /\ NoRepeat(Removed(s, gone))
         /\ Elems(Removed(s, gone)) = Elems(s) \ gone
<1>1. Len(s) \in Nat /\ DOMAIN s = 1 .. Len(s) /\ \A i \in 1 .. Len(s) : s[i] \in Nat
  BY SMT
<1>2. PICK f : Rests(f, Len(s), s, gone) /\ Removed(s, gone) = f[Len(s)]
  <2> DEFINE f == CHOOSE g : Rests(g, Len(s), s, gone)
  <2>1. Rests(f, Len(s), s, gone)
    BY <1>1, RestsExist
  <2>2. Removed(s, gone) = f[Len(s)]
    BY DEF Removed, Rests
  <2>3. QED BY <2>1, <2>2
<1>3. \A i \in 0 .. Len(s) :
        f[i] = IF i = 0 THEN <<>> ELSE IF s[i] \in gone THEN f[i - 1] ELSE Append(f[i - 1], s[i])
  BY <1>2 DEF Rests
<1> DEFINE Until(k) == {s[i] : i \in 1 .. k}
           Good(k) == f[k] \in Seq(Nat) /\ NoRepeat(f[k]) /\ Elems(f[k]) = Until(k) \ gone
           S == {k \in Nat : k <= Len(s) => Good(k)}
<1> HIDE DEF Good, Until
<1>4. 0 \in S
  <2>1. f[0] = <<>> /\ Until(0) = {}
    BY <1>1, <1>3, SMT DEF Until
  <2>2. DOMAIN f[0] = {} /\ f[0] \in Seq(Nat) /\ 0 \in Nat
    BY <2>1, SMT
  <2>3. Good(0)
    BY <2>1, <2>2 DEF Elems, NoRepeat, Good
  <2>4. QED BY <2>2, <2>3
<1>5. ASSUME NEW k \in 0 .. Len(s) - 1, k \in S PROVE k + 1 \in S
  <2>1. Good(k) /\ k + 1 \in Nat /\ k + 1 \in 1 .. Len(s) /\ k + 1 \in 0 .. Len(s)
    BY <1>1, <1>5, SMT
  <2>2. f[k + 1] = IF s[k + 1] \in gone THEN f[k] ELSE Append(f[k], s[k + 1])
    BY <1>3, <2>1, SMT
  <2>3. Until(k + 1) = Until(k) \cup {s[k + 1]}
    <3>1. \A i : i \in 1 .. k + 1 <=> (i \in 1 .. k \/ i = k + 1)
      BY <1>1, <1>5, SMT
    <3>2. QED BY <3>1 DEF Until
  <2>4. s[k + 1] \notin Until(k)
    <3>1. \A i \in 1 .. k : i \in 1 .. Len(s) /\ i # k + 1
      BY <1>1, <1>5, SMT
    <3>2. QED BY <1>1, <2>1, <3>1 DEF NoRepeat, Until
  <2>5. s[k + 1] \in Nat
    BY <1>1, <2>1
  <2>6. Good(k + 1)
    <3>1. CASE s[k + 1] \in gone
      BY <2>1, <2>2, <2>3, <3>1 DEF Good
    <3>2. CASE s[k + 1] \notin gone
      <4>1. f[k] \in Seq(Nat) /\ NoRepeat(f[k]) /\ Elems(f[k]) = Until(k) \ gone
        BY <2>1 DEF Good
      <4>2. s[k + 1] \notin Elems(f[k]) /\ f[k + 1] = Append(f[k], s[k + 1])
        BY <2>2, <2>4, <3>2, <4>1
      <4> DEFINE q == f[k]
                 e == s[k + 1]
                 r == Append(q, e)
      <4>3. r \in Seq(Nat) /\ NoRepeat(r) /\ Elems(r) = Elems(q) \cup {e}
        BY <2>5, <4>1, <4>2, AppendElems
      <4> HIDE DEF r
      <4>4. QED BY <2>3, <3>2, <4>1, <4>2, <4>3 DEF Good, r
    <3>3. QED BY <3>1, <3>2
  <2>7. QED BY <2>1, <2>6
<1> HIDE DEF S
<1>6. \A k \in 0 .. Len(s) : k \in S
  BY <1>1, <1>4, <1>5, Induct
<1>7. Good(Len(s)) /\ Until(Len(s)) = Elems(s)
  BY <1>1, <1>6, SMT DEF S, Elems, Until
<1>8. QED BY <1>2, <1>7 DEF Good

-----------------------------------------------------------------------------
(* Addresses.                                                              *)

(* What \div gives for a positive divisor. *)
LEMMA DivBounds ==
  ASSUME NEW x \in Nat, NEW b \in Nat \ {0}
  PROVE  /\ x \div b \in Nat
         /\ b * (x \div b) <= x
         /\ x < b * (x \div b) + b
  BY SMT

LEMMA Numbers ==
  PG_SIZE \in Nat \ {0} /\ Header \in Nat \ {0} /\ NPages \in Nat \ {0} /\ Header < PG_SIZE
<1>1. /\ PG_SIZE \in Nat \ {0} /\ Header \in Nat \ {0} /\ NPages \in Nat \ {0}
      /\ DESC_INT \in Nat \ {0}
  BY HeapAssumption
<1>2. 0 \in Descs
  BY <1>1, SMT DEF Descs
<1>3. mem_block_size[0] \in Nat \ {0} /\ Header + mem_block_size[0] <= PG_SIZE
  BY <1>2, SizePositive, SizeAssumption
<1>4. QED BY <1>1, <1>3, SMT

(* The blocks of a size fit behind the header. *)
LEMMA BlockNumbers ==
  ASSUME NEW d \in Descs
  PROVE  /\ mem_block_size[d] \in Nat \ {0} /\ blocks_per_arena(d) \in Nat \ {0}
         /\ Header + mem_block_size[d] * blocks_per_arena(d) <= PG_SIZE
<1>1. PICK m, n : m = mem_block_size[d] /\ n = blocks_per_arena(d)
  OBVIOUS
<1>2. m \in Nat \ {0} /\ Header + m <= PG_SIZE
  BY <1>1, SizePositive, SizeAssumption
<1>3. PG_SIZE - Header \in Nat
  BY Numbers, SMT
<1>4. n \in Nat /\ m * n <= PG_SIZE - Header /\ PG_SIZE - Header < m * n + m
  BY <1>1, <1>2, <1>3, DivBounds DEF blocks_per_arena
<1>5. n # 0 /\ Header + m * n <= PG_SIZE
  BY <1>2, <1>4, Numbers, SMT
<1>6. QED BY <1>1, <1>2, <1>4, <1>5

(* A multiple of PG_SIZE is where its page begins. *)
LEMMA PageStart ==
  ASSUME NEW p \in Nat
  PROVE  /\ p * PG_SIZE \in Nat /\ (p * PG_SIZE) \div PG_SIZE = p
         /\ \A x \in Nat : p * PG_SIZE <= x /\ x < p * PG_SIZE + PG_SIZE =>
              block2arena(x) = p * PG_SIZE
<1>1. p * PG_SIZE \in Nat /\ (p * PG_SIZE) \div PG_SIZE = p
  BY Numbers, SMT
<1>2. ASSUME NEW x \in Nat, p * PG_SIZE <= x, x < p * PG_SIZE + PG_SIZE
      PROVE  block2arena(x) = p * PG_SIZE
  <2>1. PICK r \in 0 .. PG_SIZE - 1 : x = p * PG_SIZE + r
    <3>1. x - p * PG_SIZE \in 0 .. PG_SIZE - 1 /\ x = p * PG_SIZE + (x - p * PG_SIZE)
      BY <1>1, <1>2, Numbers, SMT
    <3>2. QED BY <3>1
  <2>2. x % PG_SIZE = r
    BY <2>1, Numbers, SMT
  <2>3. QED BY <1>1, <2>1, <2>2, Numbers, SMT DEF block2arena
<1>3. QED BY <1>1, <1>2

(* Bytes of a run of pages lie in its pages. *)
LEMMA ByteInPages ==
  ASSUME NEW p \in Nat, NEW k \in Nat, NEW x \in Nat,
         p * PG_SIZE <= x, x < p * PG_SIZE + k * PG_SIZE
  PROVE  x \div PG_SIZE \in p .. p + k - 1
<1>1. PICK y : y = x \div PG_SIZE
  OBVIOUS
<1>2. y \in Nat /\ PG_SIZE * y <= x /\ x < PG_SIZE * y + PG_SIZE
  BY <1>1, DivBounds, Numbers
<1>3. p <= y
  <2>1. SUFFICES ASSUME y + 1 <= p PROVE FALSE
    BY <1>2, SMT
  <2>2. (y + 1) * PG_SIZE <= p * PG_SIZE
    BY <1>2, <2>1, Numbers, SMT
  <2>3. QED BY <1>2, <2>2, Numbers, SMT
<1>4. y < p + k
  <2>1. SUFFICES ASSUME p + k <= y PROVE FALSE
    BY <1>2, SMT
  <2>2. (p + k) * PG_SIZE <= y * PG_SIZE
    BY <1>2, <2>1, Numbers, SMT
  <2>3. QED BY <1>2, <2>2, Numbers, SMT
<1>5. QED BY <1>1, <1>2, <1>3, <1>4, SMT

(* Where a block lies. *)
LEMMA BlockPlace ==
  ASSUME NEW p \in Nat, NEW d \in Descs, NEW b \in Blocks(p * PG_SIZE, d)
  PROVE  /\ b \in Nat /\ block2arena(b) = p * PG_SIZE
         /\ p * PG_SIZE + Header <= b /\ b + mem_block_size[d] <= p * PG_SIZE + PG_SIZE
<1>1. PICK m, n : m = mem_block_size[d] /\ n = blocks_per_arena(d)
  OBVIOUS
<1>2. m \in Nat \ {0} /\ n \in Nat \ {0} /\ Header + m * n <= PG_SIZE
  BY <1>1, BlockNumbers
<1>3. PICK i \in 0 .. n - 1 : b = p * PG_SIZE + Header + m * i
  BY <1>1 DEF Blocks, arena2block
<1>4. m * i \in Nat /\ m * i + m <= m * n
  <2>1. m * (i + 1) <= m * n
    BY <1>2, SMT
  <2>2. QED BY <1>2, <2>1, SMT
<1>5. p * PG_SIZE \in Nat
  BY PageStart
<1>6. b \in Nat /\ p * PG_SIZE + Header <= b /\ b + m <= p * PG_SIZE + PG_SIZE
  BY <1>2, <1>3, <1>4, <1>5, Numbers, SMT
<1>7. p * PG_SIZE <= b /\ b < p * PG_SIZE + PG_SIZE
  BY <1>2, <1>5, <1>6, Numbers, SMT
<1>8. QED BY <1>1, <1>6, <1>7, PageStart

Cut(a, d) == [i \in 1 .. blocks_per_arena(d) |-> arena2block(a, d, i - 1)]

(* A new arena is cut into blocks that do not overlap, blocks_per_arena of *)
(* them.                                                                   *)
LEMMA BlocksOf ==
  ASSUME NEW a \in Nat, NEW d \in Descs
  PROVE  /\ \A b, c \in Blocks(a, d) :
              b = c \/ b + mem_block_size[d] <= c \/ c + mem_block_size[d] <= b
         /\ IsFiniteSet(Blocks(a, d)) /\ Cardinality(Blocks(a, d)) = blocks_per_arena(d)
         /\ Cut(a, d) \in Seq(Nat) /\ Cut(a, d) # <<>>
         /\ NoRepeat(Cut(a, d)) /\ Elems(Cut(a, d)) = Blocks(a, d)
<1>1. PICK m, n : m = mem_block_size[d] /\ n = blocks_per_arena(d)
  OBVIOUS
<1>2. m \in Nat \ {0} /\ n \in Nat \ {0}
  BY <1>1, BlockNumbers
<1> DEFINE f == [i \in 1 .. n |-> a + Header + m * (i - 1)]
<1>3. ASSUME NEW i \in 1 .. n, NEW j \in 1 .. n, i < j
      PROVE  f[i] + m <= f[j]
  <2>1. i <= j - 1 /\ i \in Nat /\ j - 1 \in Nat
    BY <1>2, <1>3, SMT
  <2>2. m * i <= m * (j - 1)
    BY <1>2, <2>1, SMT
  <2>3. m * (i - 1) + m = m * i
    BY <1>2, <2>1, SMT
  <2>4. QED BY <1>2, <2>1, <2>2, <2>3, Numbers, SMT
<1>4. Blocks(a, d) = {f[i] : i \in 1 .. n}
  <2>1. \A i \in 0 .. n - 1 : i + 1 \in 1 .. n /\ i + 1 - 1 = i
    BY <1>2, SMT
  <2>2. \A i \in 1 .. n : i - 1 \in 0 .. n - 1
    BY <1>2, SMT
  <2>3. Blocks(a, d) \subseteq {f[i] : i \in 1 .. n}
    <3>1. SUFFICES ASSUME NEW b \in Blocks(a, d) PROVE b \in {f[i] : i \in 1 .. n}
      OBVIOUS
    <3>2. PICK i \in 0 .. n - 1 : b = a + Header + m * i
      BY <1>1 DEF Blocks, arena2block
    <3>3. i + 1 \in 1 .. n /\ f[i + 1] = b
      BY <2>1, <3>2, SMT
    <3>4. QED BY <3>3
  <2>4. {f[i] : i \in 1 .. n} \subseteq Blocks(a, d)
    BY <1>1, <2>2 DEF Blocks, arena2block
  <2>5. QED BY <2>3, <2>4
<1>5. \A i \in 1 .. n : f[i] \in Nat
  BY <1>2, Numbers, SMT
<1>5a. /\ f = Cut(a, d) /\ DOMAIN f = 1 .. n
       /\ f \in Seq(Nat) /\ f # <<>>
  <2>1. f = Cut(a, d)
    BY <1>1 DEF Cut, arena2block
  <2>2. f \in [1 .. n -> Nat]
    BY <1>5
  <2> HIDE DEF f
  <2>3. f \in Seq(Nat) /\ DOMAIN f = 1 .. n /\ f # <<>>
    BY <1>2, <2>2, SMT
  <2>4. QED BY <2>1, <2>3
<1> HIDE DEF f
<1>6. \A i, j \in 1 .. n : i # j => f[i] # f[j] /\ (f[i] + m <= f[j] \/ f[j] + m <= f[i])
  BY <1>2, <1>3, <1>5, SMT
<1>7. \A b, c \in Blocks(a, d) : b = c \/ b + m <= c \/ c + m <= b
  BY <1>4, <1>6
<1>8. f \in Bijection(1 .. n, Blocks(a, d))
  <2>1. f \in [1 .. n -> Blocks(a, d)]
    BY <1>4 DEF f
  <2>2. QED BY <1>4, <1>6, <2>1 DEF Bijection, Injection, Surjection, IsInjective
<1>9. n \in Nat /\ ExistsBijection(1 .. n, Blocks(a, d))
  BY <1>2, <1>8 DEF ExistsBijection
<1>10. IsFiniteSet(Blocks(a, d)) /\ Cardinality(Blocks(a, d)) = n
  BY <1>9, FS_NatBijection, FS_CountingElements
<1>11. NoRepeat(f) /\ Elems(f) = Blocks(a, d)
  BY <1>4, <1>5a, <1>6 DEF NoRepeat, Elems
<1>12. QED BY <1>1, <1>5a, <1>7, <1>10, <1>11

-----------------------------------------------------------------------------
(* Changes in one arena.                                                   *)

(* The two kinds of headers. *)
LEMMA HeaderKinds ==
  ASSUME NEW h \in Headers
  PROVE  /\ h.large \in BOOLEAN /\ h.cnt \in Nat
         /\ h.large => h.cnt # 0
         /\ ~h.large => h.desc \in Descs /\ h \in [large : {FALSE}, cnt : Nat, desc : Descs]
BY DEF Headers

(* What is known of an arena. *)
LEMMA ArenaFacts ==
  ASSUME NEW fr, NEW ar, NEW us, NEW gt, NEW spare, HeapOK(fr, ar, us, gt, spare),
         NEW a \in DOMAIN ar
  PROVE  /\ ar[a] \in Headers
         /\ a \div PG_SIZE \in 0 .. NPages - 1 /\ a = (a \div PG_SIZE) * PG_SIZE
         /\ a \div PG_SIZE \in Nat /\ a \in Nat
         /\ a \div PG_SIZE \in Extent(ar, a)
         /\ block2arena(a + Header) = a
<1>1. ar[a] \in Headers /\ \E p \in 0 .. NPages - 1 : a = p * PG_SIZE
  BY DEF HeapOK, HeapTypes
<1>2. PICK p \in 0 .. NPages - 1 : a = p * PG_SIZE
  BY <1>1
<1>3. p \in Nat
  BY SMT
<1>4. a \in Nat /\ a \div PG_SIZE = p
  BY <1>2, <1>3, PageStart
<1>5. p \in Extent(ar, a)
  <2>1. PICK k : k = IF ar[a].large THEN ar[a].cnt ELSE 1
    OBVIOUS
  <2>2. k \in Nat \ {0}
    <3>1. 1 \in Nat \ {0}
      BY SMT
    <3>2. QED BY <1>1, <2>1, <3>1, HeaderKinds
  <2>3. p \in p .. p + k - 1
    BY <1>3, <2>2, SMT
  <2>4. QED BY <1>4, <2>1, <2>3 DEF Extent
<1>6. a <= a + Header /\ a + Header < a + PG_SIZE /\ a + Header \in Nat
  BY <1>4, Numbers, SMT
<1>7. block2arena(a + Header) = a
  BY <1>2, <1>3, <1>6, PageStart
<1>8. QED BY <1>1, <1>2, <1>3, <1>4, <1>5, <1>7

(* Nothing has changed but the arena a, its blocks and pieces. *)
Elsewhere(a, fr, ar, gt, spare, fr2, ar2, gt2) ==
  /\ spare \subseteq {a}
  /\ \A x : x # a => (x \in DOMAIN ar2 <=> x \in DOMAIN ar) /\ (x \in DOMAIN ar => ar2[x] = ar[x])
  /\ \A b : block2arena(b) # a =>
       /\ \A d \in Descs : b \in Elems(fr2[d]) <=> b \in Elems(fr[d])
       /\ b \in DOMAIN gt2 <=> b \in DOMAIN gt
       /\ b \in DOMAIN gt => gt2[b] = gt[b]

(* What HeapOK says of one arena. *)
ArenaOK(a, fr, ar, gt, spare) ==
  /\ \A b \in DOMAIN gt : block2arena(b) = a => Fits(ar, gt, b)
  /\ \A d \in Descs : NoRepeat(fr[d])
  /\ \A d \in Descs : \A b \in Elems(fr[d]) : block2arena(b) = a => Listed(ar, gt, d, b)
  /\ a \in DOMAIN ar => Counted(fr, ar, gt, spare, a)

(* Another arena has its blocks and pieces as before. *)
LEMMA OtherCounted ==
  ASSUME NEW fr, NEW ar, NEW us, NEW gt, NEW spare, HeapOK(fr, ar, us, gt, spare),
         NEW fr2, NEW ar2, NEW gt2, NEW spare2, NEW a,
         Elsewhere(a, fr, ar, gt, spare, fr2, ar2, gt2), NEW x \in DOMAIN ar, x # a
  PROVE  Counted(fr2, ar2, gt2, spare2, x)
<1>1. Counted(fr, ar, gt, spare, x) /\ x \notin spare /\ ar2[x] = ar[x]
  BY DEF HeapOK, Elsewhere
<1>2. CASE ar[x].large
  <2>1. block2arena(x + Header) # a
    BY ArenaFacts
  <2>2. QED BY <1>1, <1>2, <2>1 DEF Counted, Elsewhere
<1>3. CASE ~ar[x].large
  <2>1. PICK d \in Descs : d = ar[x].desc
    BY <1>3, ArenaFacts, HeaderKinds
  <2>2. ASSUME NEW b \in Blocks(x, d)
        PROVE  (b \in Elems(fr2[d]) <=> b \in Elems(fr[d])) /\ (b \in DOMAIN gt2 <=> b \in DOMAIN gt)
    <3>1. x = (x \div PG_SIZE) * PG_SIZE /\ x \div PG_SIZE \in Nat
      BY ArenaFacts
    <3>2. block2arena(b) = x
      BY <3>1, BlockPlace
    <3>3. QED BY <3>2 DEF Elsewhere
  <2>3. Blocks(x, d) \cap Elems(fr2[d]) = Blocks(x, d) \cap Elems(fr[d])
    BY <2>2
  <2>4. QED BY <1>1, <1>3, <2>1, <2>2, <2>3 DEF Counted
<1>4. QED BY <1>2, <1>3

(* So it is enough to look at one arena. *)
LEMMA LocalStep ==
  ASSUME NEW fr, NEW ar, NEW us, NEW gt, NEW spare, HeapOK(fr, ar, us, gt, spare),
         NEW fr2, NEW ar2, NEW us2, NEW gt2, NEW spare2, NEW a,
         HeapTypes(fr2, ar2, us2, gt2), PagesAgree(ar2, us2),
         Elsewhere(a, fr, ar, gt, spare, fr2, ar2, gt2), ArenaOK(a, fr2, ar2, gt2, spare2)
  PROVE  HeapOK(fr2, ar2, us2, gt2, spare2)
<1>1. ASSUME NEW b \in DOMAIN gt2 PROVE Fits(ar2, gt2, b)
  <2>1. CASE block2arena(b) = a
    BY <2>1 DEF ArenaOK
  <2>2. CASE block2arena(b) # a
    <3>1. b \in DOMAIN gt /\ gt2[b] = gt[b]
      BY <2>2 DEF Elsewhere
    <3>2. Fits(ar, gt, b)
      BY <3>1 DEF HeapOK
    <3>3. block2arena(b) \in DOMAIN ar /\ block2arena(b) \in DOMAIN ar2 /\ ar2[block2arena(b)] = ar[block2arena(b)]
      BY <2>2, <3>2 DEF Fits, Elsewhere
    <3>4. QED BY <3>1, <3>2, <3>3 DEF Fits
  <2>3. QED BY <2>1, <2>2
<1>2. ASSUME NEW d \in Descs, NEW b \in Elems(fr2[d]) PROVE Listed(ar2, gt2, d, b)
  <2>1. CASE block2arena(b) = a
    BY <2>1 DEF ArenaOK
  <2>2. CASE block2arena(b) # a
    <3>1. b \in Elems(fr[d]) /\ (b \in DOMAIN gt2 <=> b \in DOMAIN gt)
      BY <2>2 DEF Elsewhere
    <3>2. Listed(ar, gt, d, b)
      BY <3>1 DEF HeapOK
    <3>3. block2arena(b) \in DOMAIN ar /\ block2arena(b) \in DOMAIN ar2 /\ ar2[block2arena(b)] = ar[block2arena(b)]
      BY <2>2, <3>2 DEF Listed, Elsewhere
    <3>4. QED BY <3>1, <3>2, <3>3 DEF Listed
  <2>3. QED BY <2>1, <2>2
<1>3. ASSUME NEW x \in DOMAIN ar2 PROVE Counted(fr2, ar2, gt2, spare2, x)
  <2>1. CASE x = a
    BY <2>1 DEF ArenaOK
  <2>2. CASE x # a
    <3>1. x \in DOMAIN ar
      BY <2>2 DEF Elsewhere
    <3>2. QED BY <2>2, <3>1, OtherCounted, SMT
  <2>3. QED BY <2>1, <2>2
<1>4. \A d \in Descs : NoRepeat(fr2[d])
  BY DEF ArenaOK
<1>5. QED BY <1>1, <1>2, <1>3, <1>4 DEF HeapOK

(* malloc_page for a new arena. *)
LEMMA PagesTaken ==
  ASSUME NEW ar, NEW us, PagesAgree(ar, us), NEW a, NEW h, a \notin DOMAIN ar,
         NEW p, NEW k, Extent(With(ar, a, h), a) = p .. p + k - 1, ClearRun(us, p, k)
  PROVE  PagesAgree(With(ar, a, h), SetRun(us, p, k, TRUE))
<1>1. PICK ar2, us2 : ar2 = With(ar, a, h) /\ us2 = SetRun(us, p, k, TRUE)
  OBVIOUS
<1>2. PICK X : X = p .. p + k - 1
  OBVIOUS
<1>3. /\ DOMAIN ar2 = DOMAIN ar \cup {a} /\ Extent(ar2, a) = X
      /\ \A x \in DOMAIN ar : x # a /\ ar2[x] = ar[x]
      /\ DOMAIN us2 = DOMAIN us /\ \A x \in DOMAIN us : us2[x] = IF x \in X THEN TRUE ELSE us[x]
  BY <1>1, <1>2 DEF With, SetRun
<1>4. \A x \in X : x \in DOMAIN us /\ ~us[x]
  BY <1>2 DEF ClearRun
<1>5. \A x \in DOMAIN ar : Extent(ar2, x) = Extent(ar, x)
  BY <1>3 DEF Extent
<1>6. \A x \in DOMAIN ar : Extent(ar, x) \cap X = {}
  BY <1>4 DEF PagesAgree
<1>7. PagesAgree(ar2, us2)
  BY <1>3, <1>4, <1>5, <1>6, ZenonT(60) DEF PagesAgree
<1>8. QED BY <1>1, <1>7

(* mfree_page of an arena. *)
LEMMA PagesGiven ==
  ASSUME NEW ar, NEW us, PagesAgree(ar, us), NEW a \in DOMAIN ar,
         NEW p, NEW k, Extent(ar, a) = p .. p + k - 1
  PROVE  PagesAgree(Without(ar, a), SetRun(us, p, k, FALSE))
<1>1. PICK ar2, us2 : ar2 = Without(ar, a) /\ us2 = SetRun(us, p, k, FALSE)
  OBVIOUS
<1>2. PICK X : X = p .. p + k - 1
  OBVIOUS
<1>3. /\ DOMAIN ar2 = DOMAIN ar \ {a} /\ Extent(ar, a) = X
      /\ \A x \in DOMAIN ar2 : ar2[x] = ar[x]
      /\ DOMAIN us2 = DOMAIN us /\ \A x \in DOMAIN us : us2[x] = IF x \in X THEN FALSE ELSE us[x]
  BY <1>1, <1>2 DEF Without, SetRun
<1>4. \A x \in DOMAIN ar2 : Extent(ar2, x) = Extent(ar, x)
  BY <1>3 DEF Extent
<1>5. PagesAgree(ar2, us2)
  BY <1>3, <1>4 DEF PagesAgree
<1>6. QED BY <1>1, <1>5

-----------------------------------------------------------------------------
(* The steps of sys_malloc and sys_free.                                   *)

(* A page that is not in use has no arena, and nothing lies in it. *)
LEMMA NewArena ==
  ASSUME NEW fr, NEW ar, NEW us, NEW gt, HeapOK(fr, ar, us, gt, {}),
         NEW p \in DOMAIN us, ~us[p], NEW a, a = p * PG_SIZE
  PROVE  /\ p \in Nat /\ p \in 0 .. NPages - 1 /\ a \in Nat /\ a \div PG_SIZE = p
         /\ block2arena(a + Header) = a /\ a \notin DOMAIN ar
         /\ \A b \in DOMAIN gt : block2arena(b) # a
         /\ \A d \in Descs : \A b \in Elems(fr[d]) : block2arena(b) # a
<1>1. p \in 0 .. NPages - 1
  BY DEF HeapOK, HeapTypes
<1>2. p \in Nat
  BY <1>1, SMT
<1>3. a \in Nat /\ a \div PG_SIZE = p
  BY <1>2, PageStart
<1>4. a <= a + Header /\ a + Header < a + PG_SIZE /\ a + Header \in Nat
  BY <1>3, Numbers, SMT
<1>5. block2arena(a + Header) = a
  BY <1>2, <1>4, PageStart
<1>6. a \notin DOMAIN ar
  <2>1. SUFFICES ASSUME a \in DOMAIN ar PROVE FALSE
    OBVIOUS
  <2>2. p \in Extent(ar, a)
    BY <1>3, <2>1, ArenaFacts, SMT
  <2>3. QED BY <2>1, <2>2 DEF HeapOK, PagesAgree
<1>7. \A b \in DOMAIN gt : block2arena(b) # a
  BY <1>6 DEF HeapOK, Fits
<1>8. \A d \in Descs : \A b \in Elems(fr[d]) : block2arena(b) # a
  BY <1>6 DEF HeapOK, Listed
<1>9. QED BY <1>1, <1>2, <1>3, <1>5, <1>6, <1>7, <1>8

(* Whole pages for a large size. *)
LEMMA LargeStep ==
  ASSUME NEW fr, NEW ar, NEW us, NEW gt, HeapOK(fr, ar, us, gt, {}),
         NEW size \in Nat \ {0}, NEW cnt, cnt = (size + Header + PG_SIZE - 1) \div PG_SIZE,
         NEW p \in DOMAIN us, ClearRun(us, p, cnt), NEW a, a = p * PG_SIZE
  PROVE  HeapOK(fr, With(ar, a, [large |-> TRUE, cnt |-> cnt]), SetRun(us, p, cnt, TRUE),
                With(gt, a + Header, size), {})
<1>1. cnt \in Nat \ {0} /\ Header + size <= cnt * PG_SIZE
  <2>1. size + Header + PG_SIZE - 1 \in Nat /\ PG_SIZE <= size + Header + PG_SIZE - 1
    BY Numbers, SMT
  <2>2. cnt \in Nat /\ PG_SIZE * cnt <= size + Header + PG_SIZE - 1
        /\ size + Header + PG_SIZE - 1 < PG_SIZE * cnt + PG_SIZE
    BY <2>1, Numbers, DivBounds
  <2>3. cnt # 0
    BY <2>1, <2>2, Numbers, SMT
  <2>4. Header + size <= cnt * PG_SIZE
    BY <2>2, Numbers, SMT
  <2>5. QED BY <2>2, <2>3, <2>4
<1>2. /\ p \in Nat /\ p \in 0 .. NPages - 1 /\ a \in Nat /\ a \div PG_SIZE = p
      /\ block2arena(a + Header) = a /\ a \notin DOMAIN ar
      /\ \A b \in DOMAIN gt : block2arena(b) # a
      /\ \A d \in Descs : \A b \in Elems(fr[d]) : block2arena(b) # a
  <2>1. p \in p .. p + cnt - 1
    <3>1. p \in Nat
      BY SMT DEF HeapOK, HeapTypes
    <3>2. QED BY <1>1, <3>1, SMT
  <2>2. ~us[p]
    BY <2>1 DEF ClearRun
  <2>3. QED BY <2>2, NewArena, SMT
<1>3. PICK h, ar2, us2, gt2 :
        /\ h = [large |-> TRUE, cnt |-> cnt] /\ ar2 = With(ar, a, h)
        /\ us2 = SetRun(us, p, cnt, TRUE) /\ gt2 = With(gt, a + Header, size)
  OBVIOUS
<1>4. /\ h \in Headers /\ h.large /\ h.cnt = cnt
      /\ DOMAIN ar2 = DOMAIN ar \cup {a} /\ ar2[a] = h /\ \A x \in DOMAIN ar : x # a => ar2[x] = ar[x]
      /\ DOMAIN gt2 = DOMAIN gt \cup {a + Header} /\ gt2[a + Header] = size
      /\ \A b \in DOMAIN gt : b # a + Header => gt2[b] = gt[b]
  BY <1>1, <1>3 DEF With, Headers
<1>5. HeapTypes(fr, ar2, us2, gt2)
  <2>1. us2 \in [0 .. NPages - 1 -> BOOLEAN]
    BY <1>3 DEF SetRun, HeapOK, HeapTypes
  <2>2. a + Header \in Nat
    BY <1>2, Numbers, SMT
  <2>3. HeapTypes(fr, ar, us, gt)
    BY DEF HeapOK
  <2>4. \A x \in DOMAIN ar2 : ar2[x] \in Headers /\ \E q \in 0 .. NPages - 1 : x = q * PG_SIZE
    BY <1>2, <1>4, <2>3 DEF HeapTypes
  <2>5. \A b \in DOMAIN gt2 : b \in Nat /\ gt2[b] \in Nat \ {0}
    BY <1>4, <2>2, <2>3 DEF HeapTypes
  <2>6. QED BY <2>1, <2>3, <2>4, <2>5 DEF HeapTypes
<1>6. PagesAgree(ar2, us2)
  <2>1. Extent(With(ar, a, h), a) = p .. p + cnt - 1
    BY <1>2, <1>3, <1>4 DEF Extent
  <2>2. QED BY <1>2, <1>3, <2>1, PagesTaken DEF HeapOK
<1>7. Elsewhere(a, fr, ar, gt, {}, fr, ar2, gt2)
  BY <1>2, <1>4 DEF Elsewhere
<1>8. ArenaOK(a, fr, ar2, gt2, {})
  <2>1. ASSUME NEW b \in DOMAIN gt2, block2arena(b) = a PROVE Fits(ar2, gt2, b)
    <3>1. b = a + Header
      BY <1>2, <1>4, <2>1
    <3>2. QED BY <1>1, <1>2, <1>4, <3>1 DEF Fits
  <2>2. Counted(fr, ar2, gt2, {}, a)
    BY <1>4 DEF Counted
  <2>3. QED BY <1>2, <2>1, <2>2 DEF ArenaOK, HeapOK
<1>9. HeapOK(fr, ar2, us2, gt2, {})
  BY <1>5, <1>6, <1>7, <1>8, LocalStep
<1>10. QED BY <1>3, <1>9

(* A new page is cut into free blocks. *)
LEMMA CutStep ==
  ASSUME NEW fr, NEW ar, NEW us, NEW gt, HeapOK(fr, ar, us, gt, {}),
         NEW d \in Descs, fr[d] = <<>>, NEW p \in DOMAIN us, ~us[p], NEW a, a = p * PG_SIZE
  PROVE  HeapOK([fr EXCEPT ![d] = Cut(a, d)],
                With(ar, a, [large |-> FALSE, cnt |-> blocks_per_arena(d), desc |-> d]),
                SetRun(us, p, 1, TRUE), gt, {a})
<1>1. /\ p \in Nat /\ p \in 0 .. NPages - 1 /\ a \in Nat /\ a \div PG_SIZE = p
      /\ block2arena(a + Header) = a /\ a \notin DOMAIN ar
      /\ \A b \in DOMAIN gt : block2arena(b) # a
      /\ \A e \in Descs : \A b \in Elems(fr[e]) : block2arena(b) # a
  BY NewArena, SMT
<1>2. PICK n : n = blocks_per_arena(d)
  OBVIOUS
<1>3. PICK h, fr2, ar2, us2 :
        /\ h = [large |-> FALSE, cnt |-> n, desc |-> d] /\ ar2 = With(ar, a, h)
        /\ fr2 = [fr EXCEPT ![d] = Cut(a, d)] /\ us2 = SetRun(us, p, 1, TRUE)
  OBVIOUS
<1>4. /\ n \in Nat /\ Cut(a, d) \in Seq(Nat) /\ NoRepeat(Cut(a, d))
      /\ Elems(Cut(a, d)) = Blocks(a, d) /\ Cardinality(Blocks(a, d)) = n
  BY <1>1, <1>2, BlocksOf, BlockNumbers
<1>5. HeapTypes(fr, ar, us, gt)
  BY DEF HeapOK
<1>6. /\ h \in Headers /\ ~h.large /\ h.cnt = n /\ h.desc = d
      /\ DOMAIN ar2 = DOMAIN ar \cup {a} /\ ar2[a] = h /\ \A x \in DOMAIN ar : x # a => ar2[x] = ar[x]
      /\ fr2 \in [Descs -> Seq(Nat)]
      /\ fr2[d] = Cut(a, d) /\ \A e \in Descs \ {d} : fr2[e] = fr[e]
  BY <1>3, <1>4, <1>5 DEF With, Headers, HeapTypes
<1>7. HeapTypes(fr2, ar2, us2, gt)
  <2>1. us2 \in [0 .. NPages - 1 -> BOOLEAN]
    BY <1>3, <1>5 DEF SetRun, HeapTypes
  <2>2. \A x \in DOMAIN ar2 : ar2[x] \in Headers /\ \E q \in 0 .. NPages - 1 : x = q * PG_SIZE
    BY <1>1, <1>5, <1>6 DEF HeapTypes
  <2>3. QED BY <1>5, <1>6, <2>1, <2>2 DEF HeapTypes
<1>8. PagesAgree(ar2, us2)
  <2>1. Extent(With(ar, a, h), a) = p .. p + 1 - 1
    BY <1>1, <1>3, <1>6 DEF Extent
  <2>2. \A k \in p .. p + 1 - 1 : k = p
    BY <1>1, SMT
  <2>3. ClearRun(us, p, 1)
    BY <2>2 DEF ClearRun
  <2>4. QED BY <1>1, <1>3, <2>1, <2>3, PagesTaken DEF HeapOK
<1>9. \A b \in Blocks(a, d) : block2arena(b) = a
  BY <1>1, BlockPlace
<1>10. Elems(fr[d]) = {}
  BY SMT DEF Elems
<1>11. Elsewhere(a, fr, ar, gt, {}, fr2, ar2, gt)
  <2>1. \A b : block2arena(b) # a => \A e \in Descs : b \in Elems(fr2[e]) <=> b \in Elems(fr[e])
    BY <1>4, <1>6, <1>9, <1>10, SMTT(30)
  <2>2. QED BY <1>6, <2>1 DEF Elsewhere
<1>12. ArenaOK(a, fr2, ar2, gt, {a})
  <2>1. ASSUME NEW e \in Descs, NEW b \in Elems(fr2[e]), block2arena(b) = a
        PROVE  Listed(ar2, gt, e, b)
    <3>1. e = d /\ b \in Blocks(a, d)
      BY <1>1, <1>4, <1>6, <2>1
    <3>2. QED BY <1>1, <1>6, <2>1, <3>1 DEF Listed
  <2>2. Counted(fr2, ar2, gt, {a}, a)
    <3>1. Blocks(a, d) \cap Elems(fr2[d]) = Blocks(a, d)
      BY <1>4, <1>6
    <3>2. QED BY <1>4, <1>6, <3>1 DEF Counted
  <2>3. \A e \in Descs : NoRepeat(fr2[e])
    BY <1>4, <1>6 DEF HeapOK
  <2>4. QED BY <1>1, <2>1, <2>2, <2>3 DEF ArenaOK
<1>13. HeapOK(fr2, ar2, us2, gt, {a})
  BY <1>7, <1>8, <1>11, <1>12, LocalStep
<1>14. QED BY <1>2, <1>3, <1>13

(* The count of a header is changed. *)
LEMMA NewCount ==
  ASSUME NEW ar, NEW a \in DOMAIN ar, ar[a] \in Headers, ~ar[a].large, NEW c \in Nat,
         NEW ar2, ar2 = [ar EXCEPT ![a].cnt = c]
  PROVE  /\ DOMAIN ar2 = DOMAIN ar /\ \A x \in DOMAIN ar : x # a => ar2[x] = ar[x]
         /\ ar2[a] \in Headers /\ ~ar2[a].large /\ ar2[a].cnt = c /\ ar2[a].desc = ar[a].desc
<1>1. ar[a] \in [large : {FALSE}, cnt : Nat, desc : Descs]
  BY HeaderKinds
<1>2. DOMAIN ar2 = DOMAIN ar /\ ar2[a] = [ar[a] EXCEPT !.cnt = c]
      /\ \A x \in DOMAIN ar : x # a => ar2[x] = ar[x]
  OBVIOUS
<1>3. PICK h, g : h = ar[a] /\ g = ar2[a]
  OBVIOUS
<1>4. /\ g = [h EXCEPT !.cnt = c] /\ h \in [large : {FALSE}, cnt : Nat, desc : Descs]
  BY <1>1, <1>2, <1>3
<1>5. g.large = h.large /\ g.cnt = c /\ g.desc = h.desc
  BY <1>4
<1>6. g \in [large : {FALSE}, cnt : Nat, desc : Descs]
  BY <1>4
<1>7. g \in Headers
  BY <1>6 DEF Headers
<1>8. QED BY <1>2, <1>3, <1>5, <1>7

(* With the same extents the pages are the same. *)
LEMMA PagesKept ==
  ASSUME NEW ar, NEW us, PagesAgree(ar, us), NEW ar2, DOMAIN ar2 = DOMAIN ar,
         NEW a \in DOMAIN ar, ~ar[a].large, ~ar2[a].large,
         \A x \in DOMAIN ar : x # a => ar2[x] = ar[x]
  PROVE  PagesAgree(ar2, us)
<1>1. \A x \in DOMAIN ar : Extent(ar2, x) = Extent(ar, x)
  BY DEF Extent
<1>2. QED BY <1>1 DEF PagesAgree

(* What is known of a small arena and of its free blocks. *)
SmallArena(fr, ar, gt, a, d) ==
  /\ a \in DOMAIN ar /\ ar[a] \in Headers /\ ~ar[a].large /\ ar[a].desc = d /\ d \in Descs
  /\ \A b \in Blocks(a, d) : block2arena(b) = a /\ b \in Nat /\ (b \in Elems(fr[d]) \/ b \in DOMAIN gt)
  /\ IsFiniteSet(Blocks(a, d)) /\ Cardinality(Blocks(a, d)) = blocks_per_arena(d)
  /\ IsFiniteSet(Blocks(a, d) \cap Elems(fr[d]))
  /\ ar[a].cnt = Cardinality(Blocks(a, d) \cap Elems(fr[d]))
  /\ fr[d] \in Seq(Nat) /\ NoRepeat(fr[d])
  /\ \A b \in DOMAIN gt : block2arena(b) = a => b \in Blocks(a, d) /\ gt[b] <= mem_block_size[d]
  /\ \A e \in Descs : \A b \in Elems(fr[e]) :
       block2arena(b) = a => e = d /\ b \in Blocks(a, d) /\ b \notin DOMAIN gt

LEMMA SmallFacts ==
  ASSUME NEW fr, NEW ar, NEW us, NEW gt, NEW spare, HeapOK(fr, ar, us, gt, spare),
         NEW a \in DOMAIN ar, ~ar[a].large
  PROVE  SmallArena(fr, ar, gt, a, ar[a].desc)
<1>1. PICK d \in Descs : d = ar[a].desc
  BY ArenaFacts, HeaderKinds
<1>2. ar[a] \in Headers /\ a = (a \div PG_SIZE) * PG_SIZE /\ a \div PG_SIZE \in Nat /\ a \in Nat
  BY ArenaFacts
<1>3. \A b \in Blocks(a, d) : block2arena(b) = a /\ b \in Nat
  BY <1>2, BlockPlace
<1>4. IsFiniteSet(Blocks(a, d)) /\ Cardinality(Blocks(a, d)) = blocks_per_arena(d)
  BY <1>2, BlocksOf
<1>5. IsFiniteSet(Blocks(a, d) \cap Elems(fr[d]))
  <2>1. Blocks(a, d) \cap Elems(fr[d]) \in SUBSET Blocks(a, d)
    OBVIOUS
  <2>2. QED BY <1>4, <2>1, FS_Subset
<1>6. /\ \A b \in Blocks(a, d) : b \in Elems(fr[d]) \/ b \in DOMAIN gt
      /\ ar[a].cnt = Cardinality(Blocks(a, d) \cap Elems(fr[d]))
  BY <1>1 DEF HeapOK, Counted
<1>7. fr[d] \in Seq(Nat) /\ NoRepeat(fr[d])
  BY DEF HeapOK, HeapTypes
<1>8. \A b \in DOMAIN gt : block2arena(b) = a => b \in Blocks(a, d) /\ gt[b] <= mem_block_size[d]
  BY <1>1 DEF HeapOK, Fits
<1>9. \A e \in Descs : \A b \in Elems(fr[e]) :
        block2arena(b) = a => e = d /\ b \in Blocks(a, d) /\ b \notin DOMAIN gt
  BY <1>1 DEF HeapOK, Listed
<1>10. QED BY <1>1, <1>2, <1>3, <1>4, <1>5, <1>6, <1>7, <1>8, <1>9 DEF SmallArena

(* list_pop of a free block for a caller. *)
LEMMA PopStep ==
  ASSUME NEW fr, NEW ar, NEW us, NEW gt, NEW spare, HeapOK(fr, ar, us, gt, spare),
         NEW d \in Descs, fr[d] # <<>>, NEW b, b = Head(fr[d]), NEW a, a = block2arena(b),
         spare \subseteq {a}, NEW size \in Nat \ {0}, size <= mem_block_size[d]
  PROVE  HeapOK([fr EXCEPT ![d] = Tail(fr[d])], [ar EXCEPT ![a].cnt = ar[a].cnt - 1],
                us, With(gt, b, size), {})
<1>1. HeapTypes(fr, ar, us, gt) /\ PagesAgree(ar, us) /\ fr[d] \in Seq(Nat) /\ NoRepeat(fr[d])
  BY DEF HeapOK, HeapTypes
<1>2. /\ b \in Elems(fr[d]) /\ b \in Nat /\ Tail(fr[d]) \in Seq(Nat)
      /\ NoRepeat(Tail(fr[d])) /\ Elems(Tail(fr[d])) = Elems(fr[d]) \ {b}
  BY <1>1, TailElems
<1>3. Listed(ar, gt, d, b)
  BY <1>2 DEF HeapOK
<1>4. a \in DOMAIN ar /\ ~ar[a].large /\ ar[a].desc = d /\ b \in Blocks(a, d) /\ b \notin DOMAIN gt
  BY <1>3 DEF Listed
<1>5. SmallArena(fr, ar, gt, a, d)
  <2>1. SmallArena(fr, ar, gt, a, ar[a].desc)
    BY <1>4, SmallFacts
  <2>2. QED BY <1>4, <2>1
<1>6. PICK free1, c : free1 = Blocks(a, d) \cap Elems(fr[d]) /\ c = ar[a].cnt - 1
  OBVIOUS
<1>7. c \in Nat /\ Cardinality(free1 \ {b}) = c
  <2>1. IsFiniteSet(free1) /\ b \in free1 /\ ar[a].cnt = Cardinality(free1)
    BY <1>2, <1>4, <1>5, <1>6 DEF SmallArena
  <2>2. IsFiniteSet(free1 \ {b}) /\ Cardinality(free1 \ {b}) = Cardinality(free1) - 1
    BY <2>1, FS_RemoveElement
  <2>3. QED BY <1>6, <2>1, <2>2, FS_CardinalityType
<1>8. PICK fr2, ar2, gt2 :
        /\ fr2 = [fr EXCEPT ![d] = Tail(fr[d])] /\ ar2 = [ar EXCEPT ![a].cnt = c]
        /\ gt2 = With(gt, b, size)
  OBVIOUS
<1>9. /\ DOMAIN ar2 = DOMAIN ar /\ \A x \in DOMAIN ar : x # a => ar2[x] = ar[x]
      /\ ar2[a] \in Headers /\ ~ar2[a].large /\ ar2[a].cnt = c /\ ar2[a].desc = d
  <2>1. ar[a] \in Headers
    BY <1>5 DEF SmallArena
  <2>2. QED BY <1>4, <1>7, <1>8, <2>1, NewCount, SMTT(30)
<1>10. /\ fr2 \in [Descs -> Seq(Nat)] /\ fr2[d] = Tail(fr[d])
       /\ \A e \in Descs \ {d} : fr2[e] = fr[e]
       /\ DOMAIN gt2 = DOMAIN gt \cup {b} /\ gt2[b] = size
       /\ \A x \in DOMAIN gt : gt2[x] = gt[x]
  BY <1>1, <1>2, <1>4, <1>8 DEF HeapTypes, With
<1>11. HeapTypes(fr2, ar2, us, gt2)
  BY <1>1, <1>2, <1>9, <1>10 DEF HeapTypes
<1>12. PagesAgree(ar2, us)
  BY <1>1, <1>4, <1>9, PagesKept
<1>13. Elsewhere(a, fr, ar, gt, spare, fr2, ar2, gt2)
  <2>1. \A x : block2arena(x) # a => \A e \in Descs : x \in Elems(fr2[e]) <=> x \in Elems(fr[e])
    BY <1>2, <1>10
  <2>2. QED BY <1>9, <1>10, <2>1 DEF Elsewhere
<1>14. ArenaOK(a, fr2, ar2, gt2, {})
  <2>1. ASSUME NEW x \in DOMAIN gt2, block2arena(x) = a PROVE Fits(ar2, gt2, x)
    <3>1. x \in Blocks(a, d) /\ gt2[x] <= mem_block_size[d]
      BY <1>4, <1>5, <1>10, <2>1 DEF SmallArena
    <3>2. QED BY <1>4, <1>9, <2>1, <3>1 DEF Fits
  <2>2. ASSUME NEW e \in Descs, NEW x \in Elems(fr2[e]), block2arena(x) = a
        PROVE  Listed(ar2, gt2, e, x)
    <3>1. x \in Elems(fr[e]) /\ e = d /\ x # b
      BY <1>2, <1>5, <1>10, <2>2, ZenonT(60) DEF SmallArena
    <3>2. x \in Blocks(a, d) /\ x \notin DOMAIN gt2
      BY <1>5, <1>10, <2>2, <3>1 DEF SmallArena
    <3>3. QED BY <1>4, <1>9, <2>2, <3>1, <3>2 DEF Listed
  <2>3. Counted(fr2, ar2, gt2, {}, a)
    <3>1. Blocks(a, d) \cap Elems(fr2[d]) = free1 \ {b}
      BY <1>2, <1>6, <1>10
    <3>2. \A x \in Blocks(a, d) : x \in Elems(fr2[d]) \/ x \in DOMAIN gt2
      BY <1>2, <1>5, <1>10 DEF SmallArena
    <3>3. QED BY <1>4, <1>7, <1>9, <1>10, <3>1, <3>2 DEF Counted
  <2>4. \A e \in Descs : NoRepeat(fr2[e])
    BY <1>2, <1>10 DEF HeapOK
  <2>5. QED BY <2>1, <2>2, <2>3, <2>4 DEF ArenaOK
<1>15. HeapOK(fr2, ar2, us, gt2, {})
  BY <1>11, <1>12, <1>13, <1>14, LocalStep
<1>16. QED BY <1>6, <1>8, <1>15

(* A block goes back to the free list, and one more is counted. *)
LEMMA PutStep ==
  ASSUME NEW fr, NEW ar, NEW us, NEW gt, HeapOK(fr, ar, us, gt, {}),
         NEW b \in DOMAIN gt, NEW a, a = block2arena(b), ~ar[a].large, NEW d, d = ar[a].desc
  PROVE  HeapOK([fr EXCEPT ![d] = Append(fr[d], b)], [ar EXCEPT ![a].cnt = ar[a].cnt + 1],
                us, Without(gt, b), {a})
<1>1. HeapTypes(fr, ar, us, gt) /\ PagesAgree(ar, us) /\ b \in Nat
  BY DEF HeapOK, HeapTypes
<1>2. a \in DOMAIN ar
  BY DEF HeapOK, Fits
<1>3. SmallArena(fr, ar, gt, a, d)
  <2>1. SmallArena(fr, ar, gt, a, ar[a].desc)
    BY <1>2, SmallFacts
  <2>2. QED BY <2>1
<1>4. /\ d \in Descs /\ b \in Blocks(a, d) /\ b \notin Elems(fr[d])
      /\ fr[d] \in Seq(Nat) /\ NoRepeat(fr[d]) /\ ar[a] \in Headers
  BY <1>3 DEF SmallArena
<1>5. PICK list : list = Append(fr[d], b)
  OBVIOUS
<1>6. list \in Seq(Nat) /\ NoRepeat(list) /\ Elems(list) = Elems(fr[d]) \cup {b}
  BY <1>1, <1>4, <1>5, AppendElems
<1>7. PICK free1, c : free1 = Blocks(a, d) \cap Elems(fr[d]) /\ c = ar[a].cnt + 1
  OBVIOUS
<1>8. c \in Nat /\ Cardinality(free1 \cup {b}) = c
  <2>1. IsFiniteSet(free1) /\ b \notin free1 /\ ar[a].cnt = Cardinality(free1)
    BY <1>3, <1>4, <1>7 DEF SmallArena
  <2>2. IsFiniteSet(free1 \cup {b}) /\ Cardinality(free1 \cup {b}) = Cardinality(free1) + 1
    BY <2>1, FS_AddElement
  <2>3. QED BY <1>7, <2>1, <2>2, FS_CardinalityType
<1>9. PICK fr2, ar2, gt2 :
        /\ fr2 = [fr EXCEPT ![d] = list] /\ ar2 = [ar EXCEPT ![a].cnt = c]
        /\ gt2 = Without(gt, b)
  OBVIOUS
<1>10. /\ DOMAIN ar2 = DOMAIN ar /\ \A x \in DOMAIN ar : x # a => ar2[x] = ar[x]
       /\ ar2[a] \in Headers /\ ~ar2[a].large /\ ar2[a].cnt = c /\ ar2[a].desc = d
  BY <1>2, <1>4, <1>8, <1>9, NewCount, SMTT(30)
<1>11. /\ fr2 \in [Descs -> Seq(Nat)] /\ fr2[d] = list
       /\ \A e \in Descs \ {d} : fr2[e] = fr[e]
       /\ DOMAIN gt2 = DOMAIN gt \ {b} /\ \A x \in DOMAIN gt2 : gt2[x] = gt[x]
  BY <1>1, <1>4, <1>6, <1>9 DEF HeapTypes, Without
<1>12. HeapTypes(fr2, ar2, us, gt2)
  BY <1>1, <1>10, <1>11 DEF HeapTypes
<1>13. PagesAgree(ar2, us)
  BY <1>1, <1>2, <1>10, PagesKept
<1>14. Elsewhere(a, fr, ar, gt, {}, fr2, ar2, gt2)
  <2>1. \A x : block2arena(x) # a => \A e \in Descs : x \in Elems(fr2[e]) <=> x \in Elems(fr[e])
    BY <1>6, <1>11
  <2>2. QED BY <1>10, <1>11, <2>1 DEF Elsewhere
<1>15. ArenaOK(a, fr2, ar2, gt2, {a})
  <2>1. ASSUME NEW x \in DOMAIN gt2, block2arena(x) = a PROVE Fits(ar2, gt2, x)
    <3>1. x \in Blocks(a, d) /\ gt2[x] <= mem_block_size[d]
      BY <1>3, <1>11, <2>1 DEF SmallArena
    <3>2. QED BY <1>2, <1>10, <2>1, <3>1 DEF Fits
  <2>2. ASSUME NEW e \in Descs, NEW x \in Elems(fr2[e]), block2arena(x) = a
        PROVE  Listed(ar2, gt2, e, x)
    <3>1. e = d /\ x \in Blocks(a, d) /\ x \notin DOMAIN gt2
      BY <1>3, <1>4, <1>6, <1>11, <2>2 DEF SmallArena
    <3>2. QED BY <1>2, <1>10, <2>2, <3>1 DEF Listed
  <2>3. Counted(fr2, ar2, gt2, {a}, a)
    <3>1. Blocks(a, d) \cap Elems(fr2[d]) = free1 \cup {b}
      BY <1>4, <1>6, <1>7, <1>11
    <3>2. \A x \in Blocks(a, d) : x \in Elems(fr2[d]) \/ x \in DOMAIN gt2
      BY <1>3, <1>6, <1>11 DEF SmallArena
    <3>3. QED BY <1>8, <1>10, <3>1, <3>2 DEF Counted
  <2>4. \A e \in Descs : NoRepeat(fr2[e])
    BY <1>6, <1>11 DEF HeapOK
  <2>5. QED BY <2>1, <2>2, <2>3, <2>4 DEF ArenaOK
<1>16. HeapOK(fr2, ar2, us, gt2, {a})
  BY <1>12, <1>13, <1>14, <1>15, LocalStep
<1>17. QED BY <1>5, <1>7, <1>9, <1>16

(* A count below blocks_per_arena means that a block is in use. *)
LEMMA KeepStep ==
  ASSUME NEW fr, NEW ar, NEW us, NEW gt, NEW a \in DOMAIN ar, HeapOK(fr, ar, us, gt, {a}),
         ~ar[a].large, ar[a].cnt # blocks_per_arena(ar[a].desc)
  PROVE  HeapOK(fr, ar, us, gt, {})
<1>1. PICK d : d = ar[a].desc
  OBVIOUS
<1>2. SmallArena(fr, ar, gt, a, d)
  <2>1. SmallArena(fr, ar, gt, a, ar[a].desc)
    BY SmallFacts
  <2>2. QED BY <1>1, <2>1
<1>3. \E b \in Blocks(a, d) : b \in DOMAIN gt
  <2>1. SUFFICES ASSUME \A b \in Blocks(a, d) : b \notin DOMAIN gt PROVE FALSE
    OBVIOUS
  <2>2. Blocks(a, d) \cap Elems(fr[d]) = Blocks(a, d)
    BY <1>2, <2>1 DEF SmallArena
  <2>3. QED BY <1>1, <1>2, <2>2 DEF SmallArena
<1>4. \A x \in DOMAIN ar : Counted(fr, ar, gt, {a}, x)
  BY DEF HeapOK
<1>5. ASSUME NEW x \in DOMAIN ar PROVE Counted(fr, ar, gt, {}, x)
  <2>1. CASE x = a
    BY <1>1, <1>3, <1>4, <2>1 DEF Counted
  <2>2. CASE x # a
    BY <1>4, <2>2 DEF Counted
  <2>3. QED BY <2>1, <2>2
<1>6. QED BY <1>5 DEF HeapOK

(* With blocks_per_arena counted the whole arena is on the free list, and  *)
(* the page goes back.                                                     *)
LEMMA FullStep ==
  ASSUME NEW fr, NEW ar, NEW us, NEW gt, NEW a \in DOMAIN ar, HeapOK(fr, ar, us, gt, {a}),
         ~ar[a].large, NEW d, d = ar[a].desc, ar[a].cnt = blocks_per_arena(d)
  PROVE  /\ Blocks(a, d) \subseteq Elems(fr[d])
         /\ HeapOK([fr EXCEPT ![d] = Removed(fr[d], Blocks(a, d))], Without(ar, a),
                   SetRun(us, a \div PG_SIZE, 1, FALSE), gt, {})
<1>1. HeapTypes(fr, ar, us, gt) /\ PagesAgree(ar, us)
  BY DEF HeapOK
<1>2. SmallArena(fr, ar, gt, a, d)
  <2>1. SmallArena(fr, ar, gt, a, ar[a].desc)
    BY SmallFacts
  <2>2. QED BY <2>1
<1>3. Blocks(a, d) \subseteq Elems(fr[d])
  <2>1. PICK all, free1 : all = Blocks(a, d) /\ free1 = Blocks(a, d) \cap Elems(fr[d])
    OBVIOUS
  <2>2. IsFiniteSet(all) /\ free1 \in SUBSET all /\ Cardinality(all) = Cardinality(free1)
    BY <1>2, <2>1 DEF SmallArena
  <2>3. all = free1
    BY <2>2, FS_Subset
  <2>4. QED BY <2>1, <2>3
<1>4. d \in Descs /\ fr[d] \in Seq(Nat) /\ NoRepeat(fr[d])
  BY <1>2 DEF SmallArena
<1>5. PICK list : list = Removed(fr[d], Blocks(a, d))
  OBVIOUS
<1>6. list \in Seq(Nat) /\ NoRepeat(list) /\ Elems(list) = Elems(fr[d]) \ Blocks(a, d)
  BY <1>4, <1>5, RemovedElems
<1>7. PICK p, fr2, ar2, us2 :
        /\ p = a \div PG_SIZE /\ fr2 = [fr EXCEPT ![d] = list]
        /\ ar2 = Without(ar, a) /\ us2 = SetRun(us, p, 1, FALSE)
  OBVIOUS
<1>8. /\ DOMAIN ar2 = DOMAIN ar \ {a} /\ \A x \in DOMAIN ar2 : ar2[x] = ar[x]
      /\ us2 \in [0 .. NPages - 1 -> BOOLEAN]
      /\ fr2 \in [Descs -> Seq(Nat)] /\ fr2[d] = list /\ \A e \in Descs \ {d} : fr2[e] = fr[e]
  BY <1>1, <1>4, <1>6, <1>7 DEF HeapTypes, Without, SetRun
<1>9. HeapTypes(fr2, ar2, us2, gt)
  BY <1>1, <1>8 DEF HeapTypes
<1>10. PagesAgree(ar2, us2)
  <2>1. Extent(ar, a) = p .. p + 1 - 1
    BY <1>7 DEF Extent
  <2>2. QED BY <1>1, <1>7, <2>1, PagesGiven
<1>11. Elsewhere(a, fr, ar, gt, {a}, fr2, ar2, gt)
  <2>1. \A x : block2arena(x) # a => \A e \in Descs : x \in Elems(fr2[e]) <=> x \in Elems(fr[e])
    BY <1>2, <1>6, <1>8 DEF SmallArena
  <2>2. QED BY <1>8, <2>1 DEF Elsewhere
<1>12. ArenaOK(a, fr2, ar2, gt, {})
  <2>1. \A x \in DOMAIN gt : block2arena(x) # a
    BY <1>2, <1>3, <1>4 DEF SmallArena
  <2>2. \A e \in Descs : \A x \in Elems(fr2[e]) : block2arena(x) # a
    BY <1>2, <1>6, <1>8 DEF SmallArena
  <2>3. \A e \in Descs : NoRepeat(fr2[e])
    BY <1>6, <1>8 DEF HeapOK
  <2>4. QED BY <1>8, <2>1, <2>2, <2>3 DEF ArenaOK
<1>13. HeapOK(fr2, ar2, us2, gt, {})
  BY <1>9, <1>10, <1>11, <1>12, LocalStep
<1>14. QED BY <1>3, <1>5, <1>7, <1>13

(* The pages of a large arena go back. *)
LEMMA FreeLargeStep ==
  ASSUME NEW fr, NEW ar, NEW us, NEW gt, HeapOK(fr, ar, us, gt, {}),
         NEW b \in DOMAIN gt, NEW a, a = block2arena(b), ar[a].large
  PROVE  HeapOK(fr, Without(ar, a), SetRun(us, a \div PG_SIZE, ar[a].cnt, FALSE),
                Without(gt, b), {})
<1>1. HeapTypes(fr, ar, us, gt) /\ PagesAgree(ar, us)
  BY DEF HeapOK
<1>2. a \in DOMAIN ar /\ \A x \in DOMAIN gt : block2arena(x) = a => x = a + Header
  BY DEF HeapOK, Fits
<1>3. \A d \in Descs : \A x \in Elems(fr[d]) : block2arena(x) # a
  BY DEF HeapOK, Listed
<1>4. PICK p, ar2, us2, gt2 :
        /\ p = a \div PG_SIZE /\ ar2 = Without(ar, a) /\ us2 = SetRun(us, p, ar[a].cnt, FALSE)
        /\ gt2 = Without(gt, b)
  OBVIOUS
<1>5. /\ DOMAIN ar2 = DOMAIN ar \ {a} /\ \A x \in DOMAIN ar2 : ar2[x] = ar[x]
      /\ DOMAIN gt2 = DOMAIN gt \ {b} /\ \A x \in DOMAIN gt2 : gt2[x] = gt[x]
      /\ us2 \in [0 .. NPages - 1 -> BOOLEAN]
  BY <1>1, <1>4 DEF HeapTypes, Without, SetRun
<1>6. HeapTypes(fr, ar2, us2, gt2)
  BY <1>1, <1>5 DEF HeapTypes
<1>7. PagesAgree(ar2, us2)
  <2>1. Extent(ar, a) = p .. p + ar[a].cnt - 1
    BY <1>4 DEF Extent
  <2>2. QED BY <1>1, <1>2, <1>4, <2>1, PagesGiven
<1>8. Elsewhere(a, fr, ar, gt, {}, fr, ar2, gt2)
  BY <1>5 DEF Elsewhere
<1>9. ArenaOK(a, fr, ar2, gt2, {})
  <2>1. \A x \in DOMAIN gt2 : block2arena(x) # a
    BY <1>2, <1>5
  <2>2. QED BY <1>3, <1>5, <2>1 DEF ArenaOK, HeapOK
<1>10. HeapOK(fr, ar2, us2, gt2, {})
  BY <1>6, <1>7, <1>8, <1>9, LocalStep
<1>11. QED BY <1>4, <1>10

-----------------------------------------------------------------------------
(* The steps of sys_malloc and sys_free.                                   *)

(* bitmap_scan finds a clear run where there is one. *)
LEMMA RunFound ==
  ASSUME NEW b, DOMAIN b \in SUBSET Nat, NEW cnt, \E i \in DOMAIN b : ClearRun(b, i, cnt)
  PROVE  FirstRun(b, cnt) \in DOMAIN b /\ ClearRun(b, FirstRun(b, cnt), cnt)
<1>1. PICK S : S = {i \in DOMAIN b : ClearRun(b, i, cnt)}
  OBVIOUS
<1>2. S \in SUBSET Nat /\ S # {}
  BY <1>1
<1>3. PICK n \in S : \A m \in S : n <= m
  BY <1>2, Least
<1>4. \E i \in DOMAIN b :
        ClearRun(b, i, cnt) /\ \A k \in DOMAIN b : ClearRun(b, k, cnt) => i <= k
  BY <1>1, <1>3
<1>5. QED BY <1>4 DEF FirstRun

(* A size that is not large has a block size that fits. *)
LEMMA DescFound ==
  ASSUME NEW size \in Nat, ~(size > Largest)
  PROVE  desc_idx(size) \in Descs /\ size <= mem_block_size[desc_idx(size)]
<1>1. PICK S : S = {d \in Descs : size <= mem_block_size[d]}
  OBVIOUS
<1>2. DESC_INT - 1 \in Descs /\ Descs \in SUBSET Nat
  BY HeapAssumption, SMT DEF Descs
<1>3. size <= mem_block_size[DESC_INT - 1]
  <2>1. mem_block_size[DESC_INT - 1] \in Nat
    BY <1>2, SizePositive
  <2>2. QED BY <2>1, SMT DEF Largest
<1>4. S \in SUBSET Nat /\ S # {}
  BY <1>1, <1>2, <1>3
<1>5. PICK n \in S : \A m \in S : n <= m
  BY <1>4, Least
<1>6. ASSUME NEW e \in 0 .. n - 1 PROVE size > mem_block_size[e]
  <2>1. n \in Descs
    BY <1>1
  <2>2. e \in Descs /\ ~(n <= e)
    BY <2>1, <1>2, SMTT(30) DEF Descs
  <2>3. ~(size <= mem_block_size[e])
    BY <1>1, <1>5, <2>2
  <2>4. mem_block_size[e] \in Nat
    BY <2>2, SizePositive
  <2>5. QED BY <2>3, <2>4, SMTT(30)
<1>7. \E d \in Descs : size <= mem_block_size[d] /\ \A e \in 0 .. d - 1 : size > mem_block_size[e]
  BY <1>1, <1>6
<1>8. QED BY <1>7 DEF desc_idx

LEMMA HeapInit == Init => HeapInv
<1>1. SUFFICES ASSUME Init PROVE HeapInv
  OBVIOUS
<1>2. DOMAIN arena = {} /\ DOMAIN got = {}
  BY <1>1, SMT DEF Init
<1>3. HeapTypes(free, arena, used, got)
  <2>1. <<>> \in Seq(Nat)
    BY SMT
  <2>2. QED BY <1>1, <1>2, <2>1 DEF HeapTypes, Init
<1>4. PagesAgree(arena, used)
  BY <1>1, <1>2 DEF PagesAgree, Init
<1>5. ASSUME NEW d \in Descs PROVE NoRepeat(free[d]) /\ Elems(free[d]) = {}
  <2>1. DOMAIN free[d] = {}
    BY <1>1, SMT DEF Init
  <2>2. QED BY <2>1 DEF NoRepeat, Elems
<1>6. HeapOK(free, arena, used, got, {})
  BY <1>2, <1>3, <1>4, <1>5 DEF HeapOK
<1>7. QED BY <1>1, <1>6 DEF HeapInv, Init

LEMMA LargeKeeps ==
  ASSUME HeapOK(free, arena, used, got, {}), NEW size \in Nat \ {0}, Large(size)
  PROVE  HeapOK(free', arena', used', got', {})
<1>1. PICK cnt, p, a : /\ cnt = (size + Header + PG_SIZE - 1) \div PG_SIZE
                       /\ p = FirstRun(used, cnt) /\ a = p * PG_SIZE
  OBVIOUS
<1>2. \/ UNCHANGED <<free, arena, used, got>>
      \/ /\ p # -1
         /\ used' = SetRun(used, p, cnt, TRUE)
         /\ arena' = With(arena, a, [large |-> TRUE, cnt |-> cnt])
         /\ got' = With(got, a + Header, size)
         /\ free' = free
  BY <1>1 DEF Large
<1>3. CASE UNCHANGED <<free, arena, used, got>>
  BY <1>3
<1>4. CASE ~UNCHANGED <<free, arena, used, got>>
  <2>1. DOMAIN used \in SUBSET Nat
    <3>1. used \in [0 .. NPages - 1 -> BOOLEAN]
      BY DEF HeapOK, HeapTypes
    <3>2. 0 .. NPages - 1 \in SUBSET Nat
      BY Numbers, SMT
    <3>3. QED BY <3>1, <3>2
  <2>2. \E i \in DOMAIN used : ClearRun(used, i, cnt)
    BY <1>1, <1>2, <1>4 DEF FirstRun
  <2>3. p \in DOMAIN used /\ ClearRun(used, p, cnt)
    BY <1>1, <2>1, <2>2, RunFound
  <2>4. HeapOK(free, With(arena, a, [large |-> TRUE, cnt |-> cnt]),
               SetRun(used, p, cnt, TRUE), With(got, a + Header, size), {})
    BY <1>1, <2>3, LargeStep
  <2>5. QED BY <1>2, <1>4, <2>4
<1>5. QED BY <1>3, <1>4

(* The page of a new arena. *)
LEMMA PageFound ==
  ASSUME HeapOK(free, arena, used, got, {}), ~Full(used)
  PROVE  FirstRun(used, 1) \in DOMAIN used /\ ~used[FirstRun(used, 1)]
<1>1. DOMAIN used \in SUBSET Nat
  <2>1. used \in [0 .. NPages - 1 -> BOOLEAN]
    BY DEF HeapOK, HeapTypes
  <2>2. 0 .. NPages - 1 \in SUBSET Nat
    BY Numbers, SMT
  <2>3. QED BY <2>1, <2>2
<1>2. ASSUME NEW i \in Nat PROVE \A k : k \in i .. i + 1 - 1 <=> k = i
  BY SMT
<1>3. PICK i \in DOMAIN used : ~used[i]
  BY DEF Full
<1>4. ClearRun(used, i, 1)
  BY <1>1, <1>2, <1>3 DEF ClearRun
<1>5. PICK p : p = FirstRun(used, 1)
  OBVIOUS
<1>6. p \in DOMAIN used /\ ClearRun(used, p, 1)
  BY <1>1, <1>4, <1>5, RunFound
<1>7. QED BY <1>1, <1>2, <1>5, <1>6 DEF ClearRun

LEMMA SmallKeeps ==
  ASSUME HeapOK(free, arena, used, got, {}), NEW size \in Nat \ {0}, ~(size > Largest),
         Small(size), ~(NeedsPage(size) /\ Full(used))
  PROVE  HeapOK(free', arena', used', got', {})
<1>1. PICK d, p, a, n, h :
        /\ d = desc_idx(size) /\ p = FirstRun(used, 1) /\ a = p * PG_SIZE
        /\ n = blocks_per_arena(d) /\ h = [large |-> FALSE, cnt |-> n, desc |-> d]
  OBVIOUS
<1>2. d \in Descs /\ size <= mem_block_size[d]
  <2>1. size \in Nat
    OBVIOUS
  <2>2. QED BY <1>1, <2>1, DescFound
<1>3. CASE free[d] # <<>>
  <2>1. PICK b, r : b = Head(free[d]) /\ r = block2arena(b)
    OBVIOUS
  <2>2. /\ free' = [free EXCEPT ![d] = Tail(free[d])]
        /\ arena' = [arena EXCEPT ![r].cnt = arena[r].cnt - 1]
        /\ got' = With(got, b, size) /\ used' = used
    BY <1>1, <1>3, <2>1 DEF Small, Pop
  <2>3. HeapOK([free EXCEPT ![d] = Tail(free[d])], [arena EXCEPT ![r].cnt = arena[r].cnt - 1],
               used, With(got, b, size), {})
    <3>1. PICK spare : spare = {}
      OBVIOUS
    <3>2. HeapOK(free, arena, used, got, spare) /\ spare \subseteq {r}
      BY <3>1
    <3>3. QED BY <1>2, <1>3, <2>1, <3>1, <3>2, PopStep
  <2>4. QED BY <2>2, <2>3
<1>4. CASE free[d] = <<>>
  <2>1. p \in DOMAIN used /\ ~used[p]
    BY <1>1, <1>4, PageFound DEF NeedsPage
  <2>2. PICK fr, ar, us, list :
          /\ list = Cut(a, d) /\ fr = [free EXCEPT ![d] = list]
          /\ ar = With(arena, a, h) /\ us = SetRun(used, p, 1, TRUE)
    OBVIOUS
  <2>3. HeapOK(fr, ar, us, got, {a})
    BY <1>1, <1>2, <1>4, <2>1, <2>2, CutStep
  <2>4. PICK b, r : b = Head(list) /\ r = block2arena(b)
    OBVIOUS
  <2>5. free \in [Descs -> Seq(Nat)] /\ fr[d] = list
    BY <1>2, <2>2 DEF HeapOK, HeapTypes
  <2>6. /\ free' = [free EXCEPT ![d] = Tail(list)]
        /\ arena' = [ar EXCEPT ![r].cnt = ar[r].cnt - 1]
        /\ got' = With(got, b, size) /\ used' = us
    BY <1>1, <1>4, <2>2, <2>4 DEF Small, Pop, Cut
  <2>7. p \in Nat /\ a \in Nat
    BY <1>1, <2>1, NewArena
  <2>8. list # <<>> /\ list \in Seq(Nat) /\ Elems(list) = Blocks(a, d) /\ NoRepeat(list)
    BY <1>2, <2>2, <2>7, BlocksOf
  <2>9. r = a
    <3>1. b \in Elems(list)
      BY <2>4, <2>8, TailElems
    <3>2. b \in Blocks(p * PG_SIZE, d)
      BY <1>1, <2>8, <3>1
    <3>3. block2arena(b) = p * PG_SIZE
      BY <1>2, <2>7, <3>2, BlockPlace
    <3>4. QED BY <1>1, <2>4, <3>3
  <2>10. HeapOK([fr EXCEPT ![d] = Tail(list)], [ar EXCEPT ![a].cnt = ar[a].cnt - 1],
                us, With(got, b, size), {})
    <3>1. {a} \subseteq {a}
      OBVIOUS
    <3>2. fr[d] # <<>> /\ b = Head(fr[d]) /\ a = block2arena(b)
      BY <2>4, <2>5, <2>8, <2>9
    <3>3. HeapOK([fr EXCEPT ![d] = Tail(fr[d])], [ar EXCEPT ![a].cnt = ar[a].cnt - 1],
                 us, With(got, b, size), {})
      BY <1>2, <2>3, <3>1, <3>2, PopStep
    <3>4. QED BY <2>5, <3>3
  <2>11. free' = [fr EXCEPT ![d] = Tail(list)]
    BY <2>2, <2>5, <2>6
  <2>12. QED BY <2>6, <2>9, <2>10, <2>11
<1>5. QED BY <1>3, <1>4

LEMMA MallocKeeps ==
  ASSUME HeapInv, NEW size \in Sizes, sys_malloc(size)
  PROVE  HeapInv'
<1>1. HeapOK(free, arena, used, got, {}) /\ panic \in {"no", "full"}
  BY DEF HeapInv
<1>2. size \in Nat \ {0}
  BY HeapAssumption, SMT DEF sys_malloc
<1>3. CASE NeedsPage(size) /\ Full(used)
  BY <1>1, <1>3 DEF sys_malloc, HeapInv
<1>4. CASE ~(NeedsPage(size) /\ Full(used))
  <2>1. panic' = panic
    BY <1>4 DEF sys_malloc
  <2>2. HeapOK(free', arena', used', got', {})
    <3>1. CASE size > Largest
      <4>1. Large(size)
        BY <1>4, <3>1 DEF sys_malloc
      <4>2. QED BY <1>1, <1>2, <4>1, LargeKeeps
    <3>2. CASE ~(size > Largest)
      <4>1. Small(size)
        BY <1>4, <3>2 DEF sys_malloc
      <4>2. QED BY <1>1, <1>2, <1>4, <3>2, <4>1, SmallKeeps
    <3>3. QED BY <3>1, <3>2
  <2>3. QED BY <1>1, <2>1, <2>2 DEF HeapInv
<1>5. QED BY <1>3, <1>4

LEMMA FreeKeeps ==
  ASSUME HeapInv, NEW ptr \in DOMAIN got, sys_free(ptr)
  PROVE  HeapInv'
<1>1. HeapOK(free, arena, used, got, {}) /\ panic \in {"no", "full"}
  BY DEF HeapInv
<1>2. PICK a, d, list : /\ a = block2arena(ptr) /\ d = arena[a].desc
                        /\ list = Append(free[d], ptr)
  OBVIOUS
<1>3. got' = Without(got, ptr)
  BY DEF sys_free
<1>4. CASE arena[a].large
  <2>1. /\ used' = SetRun(used, a \div PG_SIZE, arena[a].cnt, FALSE)
        /\ arena' = Without(arena, a) /\ free' = free /\ panic' = panic
    BY <1>2, <1>4 DEF sys_free
  <2>2. HeapOK(free, Without(arena, a), SetRun(used, a \div PG_SIZE, arena[a].cnt, FALSE),
               Without(got, ptr), {})
    BY <1>1, <1>2, <1>4, FreeLargeStep
  <2>3. QED BY <1>1, <1>3, <2>1, <2>2 DEF HeapInv
<1>5. CASE ~arena[a].large
  <2>1. PICK fr, ar, gt :
          /\ fr = [free EXCEPT ![d] = list] /\ ar = [arena EXCEPT ![a].cnt = arena[a].cnt + 1]
          /\ gt = Without(got, ptr)
    OBVIOUS
  <2>2. HeapOK(fr, ar, used, gt, {a})
    BY <1>1, <1>2, <1>5, <2>1, PutStep
  <2>3. a \in DOMAIN arena /\ arena[a] \in Headers /\ d \in Descs /\ free \in [Descs -> Seq(Nat)]
    <3>1. a \in DOMAIN arena
      BY <1>1, <1>2 DEF HeapOK, Fits
    <3>2. arena[a] \in Headers /\ free \in [Descs -> Seq(Nat)]
      BY <1>1, <3>1 DEF HeapOK, HeapTypes
    <3>3. QED BY <1>2, <1>5, <3>1, <3>2, HeaderKinds
  <2>4. /\ a \in DOMAIN ar /\ ~ar[a].large /\ ar[a].desc = d /\ ar[a].cnt = arena[a].cnt + 1
        /\ Without(ar, a) = Without(arena, a)
    <3>1. PICK c : c = arena[a].cnt + 1
      OBVIOUS
    <3>2. arena[a].cnt + 1 \in Nat
      <4>1. arena[a].cnt \in Nat
        BY <2>3, HeaderKinds
      <4>2. QED BY <4>1, SMT
    <3>3. /\ DOMAIN ar = DOMAIN arena /\ \A x \in DOMAIN arena : x # a => ar[x] = arena[x]
          /\ ar[a] \in Headers /\ ~ar[a].large /\ ar[a].cnt = c /\ ar[a].desc = d
      <4>1. ar = [arena EXCEPT ![a].cnt = c] /\ c \in Nat
        BY <2>1, <3>1, <3>2
      <4>2. arena[a] \in Headers /\ ~arena[a].large /\ a \in DOMAIN arena
        BY <1>5, <2>3
      <4>3. /\ DOMAIN ar = DOMAIN arena /\ \A x \in DOMAIN arena : x # a => ar[x] = arena[x]
            /\ ar[a] \in Headers /\ ~ar[a].large /\ ar[a].cnt = c /\ ar[a].desc = arena[a].desc
        BY <4>1, <4>2, NewCount, SMTT(30)
      <4>4. QED BY <1>2, <4>3
    <3>4. Without(ar, a) = Without(arena, a)
      BY <3>3 DEF Without
    <3>5. QED BY <2>3, <3>1, <3>3, <3>4
  <2>5. fr[d] = list /\ \A s : [fr EXCEPT ![d] = s] = [free EXCEPT ![d] = s]
    BY <2>1, <2>3
  <2>6. CASE LastBlock(a, d)
    <3>1. /\ panic' = IF Blocks(a, d) \subseteq Elems(list) THEN panic ELSE "assert"
          /\ free' = [free EXCEPT ![d] = Removed(list, Blocks(a, d))]
          /\ used' = SetRun(used, a \div PG_SIZE, 1, FALSE)
          /\ arena' = Without(arena, a)
      BY <1>2, <1>5, <2>6 DEF sys_free
    <3>2. ar[a].cnt = blocks_per_arena(d)
      BY <2>4, <2>6 DEF LastBlock
    <3>3. /\ Blocks(a, d) \subseteq Elems(fr[d])
          /\ HeapOK([fr EXCEPT ![d] = Removed(fr[d], Blocks(a, d))], Without(ar, a),
                    SetRun(used, a \div PG_SIZE, 1, FALSE), gt, {})
      <4>1. d = ar[a].desc
        BY <2>4
      <4>2. QED BY <2>2, <2>4, <3>2, <4>1, FullStep
    <3>4. panic' = panic
      BY <2>5, <3>1, <3>3
    <3>5. HeapOK(free', arena', used', got', {})
      BY <1>3, <2>1, <2>4, <2>5, <3>1, <3>3
    <3>6. QED BY <1>1, <3>4, <3>5 DEF HeapInv
  <2>7. CASE ~LastBlock(a, d)
    <3>1. free' = fr /\ arena' = ar /\ used' = used /\ panic' = panic
      BY <1>2, <1>5, <2>1, <2>7 DEF sys_free
    <3>2. ar[a].cnt # blocks_per_arena(ar[a].desc)
      BY <2>4, <2>7 DEF LastBlock
    <3>3. HeapOK(fr, ar, used, gt, {})
      BY <2>2, <2>4, <3>2, KeepStep
    <3>4. QED BY <1>1, <1>3, <2>1, <3>1, <3>3 DEF HeapInv
  <2>8. QED BY <2>6, <2>7
<1>6. QED BY <1>4, <1>5

LEMMA HeapStep == HeapInv /\ [Next]_vars => HeapInv'
<1> SUFFICES ASSUME HeapInv, [Next]_vars PROVE HeapInv'
  OBVIOUS
<1>1. ASSUME NEW size \in Sizes, sys_malloc(size) PROVE HeapInv'
  BY <1>1, MallocKeeps
<1>2. ASSUME NEW ptr \in DOMAIN got, sys_free(ptr) PROVE HeapInv'
  BY <1>2, FreeKeeps
<1>3. CASE UNCHANGED vars
  BY <1>3 DEF vars, HeapInv
<1>4. QED BY <1>1, <1>2, <1>3 DEF Next

(* Free lists, headers, pages and what the callers hold agree after every  *)
(* call of sys_malloc and sys_free, for any sizes asked for.               *)
THEOREM HeapInvariance == Spec => []HeapInv
BY HeapInit, HeapStep, PTL DEF Spec

-----------------------------------------------------------------------------
(* What the callers of the heap rely on.                                   *)

(* A piece lies behind the header of its arena and inside its pages. *)
LEMMA PieceInside ==
  ASSUME HeapOK(free, arena, used, got, {}), NEW b \in DOMAIN got,
         NEW a, a = block2arena(b), NEW x \in Bytes(b)
  PROVE  /\ a \in DOMAIN arena /\ a \in Nat /\ x \in Nat /\ a + Header <= x
         /\ x \div PG_SIZE \in Extent(arena, a)
<1>1. a \in DOMAIN arena /\ Fits(arena, got, b)
  BY DEF HeapOK, Fits
<1>2. PICK p, k, size : /\ p = a \div PG_SIZE /\ k = (IF arena[a].large THEN arena[a].cnt ELSE 1)
                        /\ size = got[b]
  OBVIOUS
<1>3. arena[a] \in Headers /\ a = p * PG_SIZE /\ p \in Nat /\ a \in Nat
  BY <1>1, <1>2, ArenaFacts
<1>4. b \in Nat /\ size \in Nat \ {0}
  BY <1>2 DEF HeapOK, HeapTypes
<1>5. a + Header <= b /\ b + size <= p * PG_SIZE + k * PG_SIZE /\ k \in Nat
  <2>1. CASE arena[a].large
    <3>1. b = a + Header /\ Header + size <= k * PG_SIZE /\ k \in Nat
      BY <1>1, <1>2, <1>3, <2>1, HeaderKinds DEF Fits
    <3>2. PICK z, w : z = k * PG_SIZE /\ w = p * PG_SIZE
      OBVIOUS
    <3>3. z \in Nat /\ w \in Nat
      BY <1>3, <3>1, <3>2, Numbers, SMTT(30)
    <3>4. a + Header <= b /\ b + size <= w + z
      BY <1>3, <1>4, <3>1, <3>2, <3>3, Numbers, SMTT(30)
    <3>5. QED BY <3>1, <3>2, <3>4
  <2>2. CASE ~arena[a].large
    <3>1. PICK d \in Descs : d = arena[a].desc
      BY <1>3, <2>2, HeaderKinds
    <3>2. b \in Blocks(p * PG_SIZE, d) /\ size <= mem_block_size[d] /\ k = 1
      BY <1>1, <1>2, <1>3, <2>2, <3>1 DEF Fits
    <3>3. /\ p * PG_SIZE + Header <= b /\ b + mem_block_size[d] <= p * PG_SIZE + PG_SIZE
          /\ mem_block_size[d] \in Nat
      BY <1>3, <3>2, BlockPlace, BlockNumbers
    <3>4. PICK w, m : w = p * PG_SIZE /\ m = mem_block_size[d]
      OBVIOUS
    <3>5. w \in Nat /\ m \in Nat
      BY <1>3, <3>3, <3>4
    <3>6. w + Header <= b /\ b + size <= w + k * PG_SIZE /\ k \in Nat
      BY <1>4, <3>2, <3>3, <3>4, <3>5, Numbers, SMTT(30)
    <3>7. QED BY <1>3, <3>4, <3>6
  <2>3. QED BY <2>1, <2>2
<1>6. PICK z, w : z = k * PG_SIZE /\ w = p * PG_SIZE
  OBVIOUS
<1>7. z \in Nat /\ w \in Nat /\ a = w
  BY <1>3, <1>5, <1>6, Numbers, SMTT(30)
<1>8. x \in b .. b + size - 1
  BY <1>2 DEF Bytes
<1>9. x \in Nat /\ a + Header <= x /\ w <= x /\ x < w + z
  BY <1>4, <1>5, <1>6, <1>7, <1>8, Numbers, SMTT(30)
<1>10. x \div PG_SIZE \in p .. p + k - 1
  BY <1>3, <1>5, <1>6, <1>9, ByteInPages
<1>11. QED BY <1>1, <1>2, <1>3, <1>9, <1>10 DEF Extent

(* A byte of a header is in the first page of its arena. *)
LEMMA HeaderInside ==
  ASSUME HeapOK(free, arena, used, got, {}), NEW a \in DOMAIN arena, NEW x \in a .. a + Header - 1
  PROVE  x \div PG_SIZE \in Extent(arena, a)
<1>1. PICK p : p = a \div PG_SIZE
  OBVIOUS
<1>2. a = p * PG_SIZE /\ p \in Nat /\ a \in Nat /\ p \in Extent(arena, a)
  BY <1>1, ArenaFacts
<1>3. PICK z : z = 1 * PG_SIZE
  OBVIOUS
<1>4. x \in Nat /\ a <= x /\ x < a + z
  BY <1>2, <1>3, Numbers, SMTT(30)
<1>5. x \div PG_SIZE \in p .. p + 1 - 1
  BY <1>2, <1>3, <1>4, ByteInPages
<1>6. x \div PG_SIZE = p
  BY <1>2, <1>5, SMTT(30)
<1>7. QED BY <1>2, <1>6

(* Two pieces of one arena are apart. *)
LEMMA PiecesApart ==
  ASSUME HeapOK(free, arena, used, got, {}), NEW b \in DOMAIN got, NEW c \in DOMAIN got \ {b},
         block2arena(b) = block2arena(c), NEW x \in Bytes(b), NEW y \in Bytes(c)
  PROVE  x # y
<1>1. PICK a : a = block2arena(b) /\ a = block2arena(c)
  OBVIOUS
<1>2. a \in DOMAIN arena /\ Fits(arena, got, b) /\ Fits(arena, got, c)
  BY <1>1 DEF HeapOK, Fits
<1>3. ~arena[a].large
  BY <1>1, <1>2 DEF Fits
<1>4. arena[a] \in Headers /\ a \in Nat
  BY <1>2, ArenaFacts
<1>5. PICK d \in Descs : d = arena[a].desc
  BY <1>3, <1>4, HeaderKinds
<1>6. PICK m, s, t : m = mem_block_size[d] /\ s = got[b] /\ t = got[c]
  OBVIOUS
<1>7. b \in Blocks(a, d) /\ c \in Blocks(a, d) /\ s <= m /\ t <= m
  BY <1>1, <1>2, <1>3, <1>5, <1>6 DEF Fits
<1>8. b + m <= c \/ c + m <= b
  BY <1>4, <1>6, <1>7, BlocksOf
<1>9. b \in Nat /\ c \in Nat /\ s \in Nat /\ t \in Nat /\ m \in Nat
  <2>1. m \in Nat
    BY <1>6, BlockNumbers
  <2>2. QED BY <1>6, <2>1 DEF HeapOK, HeapTypes
<1>10. x \in b .. b + s - 1 /\ y \in c .. c + t - 1
  BY <1>6 DEF Bytes
<1>11. QED BY <1>7, <1>8, <1>9, <1>10, SMTT(30)

LEMMA InvPiecesDisjoint == HeapInv => PiecesDisjoint
<1> SUFFICES ASSUME HeapInv PROVE PiecesDisjoint
  OBVIOUS
<1>1. HeapOK(free, arena, used, got, {})
  BY DEF HeapInv
<1>2. /\ \A a, b \in DOMAIN arena : a # b => Extent(arena, a) \cap Extent(arena, b) = {}
      /\ \A a \in DOMAIN arena : \A x \in Extent(arena, a) : x \in DOMAIN used /\ used[x]
  BY <1>1 DEF HeapOK, PagesAgree
<1>3. ASSUME NEW p \in DOMAIN got, NEW q \in DOMAIN got \ {p}, NEW x \in Bytes(p), x \in Bytes(q)
      PROVE  FALSE
  <2>1. CASE block2arena(p) = block2arena(q)
    BY <1>1, <1>3, <2>1, PiecesApart
  <2>2. CASE block2arena(p) # block2arena(q)
    <3>1. /\ block2arena(p) \in DOMAIN arena /\ x \div PG_SIZE \in Extent(arena, block2arena(p))
          /\ block2arena(q) \in DOMAIN arena /\ x \div PG_SIZE \in Extent(arena, block2arena(q))
      BY <1>1, <1>3, PieceInside
    <3>2. QED BY <1>2, <2>2, <3>1
  <2>3. QED BY <2>1, <2>2
<1>4. ASSUME NEW p \in DOMAIN got, NEW x \in Bytes(p)
      PROVE  /\ x \div PG_SIZE < NPages /\ used[x \div PG_SIZE]
             /\ \A a \in DOMAIN arena : x \notin a .. a + Header - 1
  <2>1. PICK a, n : a = block2arena(p) /\ n = x \div PG_SIZE
    OBVIOUS
  <2>2. a \in DOMAIN arena /\ a \in Nat /\ x \in Nat /\ a + Header <= x /\ n \in Extent(arena, a)
    BY <1>1, <2>1, PieceInside
  <2>3. n \in DOMAIN used /\ used[n]
    BY <1>2, <2>2
  <2>4. n < NPages
    <3>1. n \in 0 .. NPages - 1
      BY <1>1, <2>3 DEF HeapOK, HeapTypes
    <3>2. QED BY <3>1, Numbers, SMTT(30)
  <2>5. ASSUME NEW c \in DOMAIN arena, x \in c .. c + Header - 1 PROVE FALSE
    <3>1. n \in Extent(arena, c)
      BY <1>1, <2>1, <2>5, HeaderInside
    <3>2. c = a
      BY <1>2, <2>2, <3>1
    <3>3. QED BY <2>2, <2>5, <3>2, Numbers, SMTT(30)
  <2>6. QED BY <2>1, <2>3, <2>4, <2>5
<1>5. QED BY <1>3, <1>4 DEF PiecesDisjoint

(* Positions of a list without repetitions and the elements there. *)
LEMMA PositionsCount ==
  ASSUME NEW s \in Seq(Nat), NoRepeat(s), NEW B
  PROVE  Cardinality({i \in DOMAIN s : s[i] \in B}) = Cardinality(B \cap Elems(s))
<1>1. PICK S, T : S = {i \in DOMAIN s : s[i] \in B} /\ T = B \cap Elems(s)
  OBVIOUS
<1>2. IsFiniteSet(S)
  <2>1. DOMAIN s = 1 .. Len(s) /\ 1 \in Int /\ Len(s) \in Int
    BY SMT
  <2>2. IsFiniteSet(DOMAIN s)
    BY <2>1, FS_Interval
  <2>3. S \in SUBSET DOMAIN s
    BY <1>1
  <2>4. QED BY <2>2, <2>3, FS_Subset
<1>3. PICK f : f = [i \in S |-> s[i]]
  OBVIOUS
<1>4. f \in [S -> T]
  BY <1>1, <1>3 DEF Elems
<1>5. \A i, j \in DOMAIN f : f[i] = f[j] => i = j
  BY <1>1, <1>3 DEF NoRepeat
<1>6. \A x \in T : \E i \in S : f[i] = x
  BY <1>1, <1>3 DEF Elems
<1>7. ExistsBijection(S, T)
  BY <1>4, <1>5, <1>6 DEF ExistsBijection, Bijection, Injection, Surjection, IsInjective
<1>8. Cardinality(T) = Cardinality(S)
  BY <1>2, <1>7, FS_Bijection
<1>9. QED BY <1>1, <1>8

LEMMA InvCountsFree == HeapInv => CountsFree
<1> SUFFICES ASSUME HeapInv, NEW a \in DOMAIN arena, ~arena[a].large
             PROVE  LET d == arena[a].desc
                        here == {i \in DOMAIN free[d] : free[d][i] \in Blocks(a, d)} IN
                    /\ arena[a].cnt = Cardinality(here)
                    /\ Cardinality(here) = Cardinality(Blocks(a, d) \cap Elems(free[d]))
                    /\ Blocks(a, d) = {free[d][i] : i \in here} \cup (Blocks(a, d) \cap DOMAIN got)
                    /\ {free[d][i] : i \in here} \cap DOMAIN got = {}
  BY DEF CountsFree
<1>1. HeapOK(free, arena, used, got, {})
  BY DEF HeapInv
<1>2. PICK d, s, B, here : /\ d = arena[a].desc /\ s = free[d] /\ B = Blocks(a, d)
                           /\ here = {i \in DOMAIN s : s[i] \in B}
  OBVIOUS
<1>3. SmallArena(free, arena, got, a, d)
  <2>1. SmallArena(free, arena, got, a, arena[a].desc)
    BY <1>1, SmallFacts
  <2>2. QED BY <1>2, <2>1
<1>4. /\ s \in Seq(Nat) /\ NoRepeat(s) /\ arena[a].cnt = Cardinality(B \cap Elems(s))
      /\ \A b \in B : b \in Elems(s) \/ b \in DOMAIN got
      /\ \A b \in B : b \in Elems(s) => b \notin DOMAIN got
  BY <1>2, <1>3 DEF SmallArena
<1>5. Cardinality(here) = Cardinality(B \cap Elems(s))
  <2>1. Cardinality({i \in DOMAIN s : s[i] \in B}) = Cardinality(B \cap Elems(s))
    BY <1>4, PositionsCount
  <2>2. QED BY <1>2, <2>1
<1>6. {s[i] : i \in here} = B \cap Elems(s)
  BY <1>2, SMT DEF Elems
<1>7. B = {s[i] : i \in here} \cup (B \cap DOMAIN got) /\ {s[i] : i \in here} \cap DOMAIN got = {}
  BY <1>4, <1>6
<1>8. QED BY <1>2, <1>4, <1>5, <1>7, SMTT(30)

LEMMA InvEmptyArenasReturned == HeapInv => EmptyArenasReturned
<1> SUFFICES ASSUME HeapInv PROVE EmptyArenasReturned
  OBVIOUS
<1>1. HeapOK(free, arena, used, got, {}) /\ panic # "assert"
  BY DEF HeapInv
<1>2. ASSUME NEW a \in DOMAIN arena PROVE \E p \in DOMAIN got : block2arena(p) = a
  <2>1. Counted(free, arena, got, {}, a)
    BY <1>1 DEF HeapOK
  <2>2. CASE arena[a].large
    <3>1. a + Header \in DOMAIN got
      BY <2>1, <2>2 DEF Counted
    <3>2. block2arena(a + Header) = a
      BY <1>1, ArenaFacts
    <3>3. QED BY <3>1, <3>2
  <2>3. CASE ~arena[a].large
    <3>1. PICK b \in Blocks(a, arena[a].desc) : b \in DOMAIN got
      BY <2>1, <2>3 DEF Counted
    <3>2. SmallArena(free, arena, got, a, arena[a].desc)
      BY <1>1, <2>3, SmallFacts
    <3>3. block2arena(b) = a
      BY <3>2 DEF SmallArena
    <3>4. QED BY <3>1, <3>3
  <2>4. QED BY <2>2, <2>3
<1>3. ASSUME got = <<>>, NEW p \in DOMAIN used, used[p] PROVE FALSE
  <2>1. DOMAIN got = {}
    BY <1>3, SMTT(30)
  <2>2. \E a \in DOMAIN arena : p \in Extent(arena, a)
    BY <1>1, <1>3 DEF HeapOK, PagesAgree
  <2>3. QED BY <1>2, <2>1, <2>2
<1>4. \A d \in Descs : \A b \in Elems(free[d]) : block2arena(b) \in DOMAIN arena
  BY <1>1 DEF HeapOK, Listed
<1>5. QED BY <1>1, <1>2, <1>3, <1>4 DEF EmptyArenasReturned

(* What sys_malloc hands to two callers never overlaps, nor does it touch  *)
(* a header or a free page, for any sizes and any order of calls.          *)
THEOREM PiecesNeverOverlap == Spec => []PiecesDisjoint
BY HeapInvariance, InvPiecesDisjoint, PTL

(* The count of an arena header, which decides when sys_free gives the     *)
(* page back, is the number of its blocks on the free list.                *)
THEOREM CountsAreExact == Spec => []CountsFree
BY HeapInvariance, InvCountsFree, PTL

(* The ASSERT of sys_free never fails, and no page is lost: an arena is    *)
(* kept only while a caller holds a part of it.                            *)
THEOREM NoPageLeaks == Spec => []EmptyArenasReturned
BY HeapInvariance, InvEmptyArenasReturned, PTL
=============================================================================
