-------------------------------- MODULE Heap --------------------------------
(***************************************************************************)
(* The heap of kernel/memory.c: sys_malloc and sys_free.  A page is an     *)
(* arena: a header and blocks of one size, or the start of a large run of  *)
(* pages.  Free blocks are kept in one list per size.                      *)
(*                                                                         *)
(* Addresses are numbers, so arena2block and block2arena are the code's.   *)
(* The whole of a call holds the lock of the pool, and nothing else        *)
(* touches arenas and lists: a call is one step.  Pages come from          *)
(* malloc_page and go back through mfree_page (module Memory), here a set. *)
(***************************************************************************)
EXTENDS Runs, Sequences, FiniteSets

CONSTANTS
  PG_SIZE,      \* bytes of a page, 4096 in the code
  Header,       \* sizeof(struct arena), 12
  MinBlock,     \* the smallest block, 16
  DESC_INT,     \* number of block sizes, 7
  NPages,       \* pages of the pool
  Sizes         \* the sizes asked for

ASSUME HeapAssumption ==
  /\ {PG_SIZE, Header, MinBlock, DESC_INT, NPages} \subseteq Nat \ {0}
  /\ Sizes \subseteq Nat

VARIABLES
  free,     \* per size, the free_list: a sequence of block addresses
  arena,    \* the header of every page in use that has one
  used,     \* the pages that are allocated
  got,      \* what the callers hold: address -> size asked for
  panic     \* "no", "full" (bitmap_scan of a full pool) or "assert"

vars == <<free, arena, used, got, panic>>

Descs == 0 .. DESC_INT - 1

(* block_desc_init: every size is twice the one before. *)
mem_block_size[d \in Descs] == IF d = 0 THEN MinBlock ELSE 2 * mem_block_size[d - 1]
blocks_per_arena(d) == (PG_SIZE - Header) \div mem_block_size[d]
Largest == mem_block_size[DESC_INT - 1]      \* 1024 in the code

(* A block of every size fits into a page. *)
ASSUME SizeAssumption == \A d \in Descs : Header + mem_block_size[d] <= PG_SIZE

arena2block(a, d, i) == a + Header + mem_block_size[d] * i
block2arena(b) == b - (b % PG_SIZE)

Blocks(a, d) == {arena2block(a, d, i) : i \in 0 .. blocks_per_arena(d) - 1}
Elems(s) == {s[i] : i \in DOMAIN s}

Init ==
  /\ free = [d \in Descs |-> <<>>]
  /\ arena = <<>>
  /\ used = [p \in 0 .. NPages - 1 |-> FALSE]
  /\ got = <<>>
  /\ panic = "no"

-----------------------------------------------------------------------------
(* list_remove of the members of gone. *)
Removed(list, gone) ==
  LET rest[n \in 0 .. Len(list)] ==
        IF n = 0 THEN <<>>
        ELSE IF list[n] \in gone THEN rest[n - 1] ELSE Append(rest[n - 1], list[n])
  IN rest[Len(list)]

With(f, x, y) == [z \in DOMAIN f \cup {x} |-> IF z = x THEN y ELSE f[z]]
Without(f, x) == [z \in DOMAIN f \ {x} |-> f[z]]

(* A faulty variant: the header is not counted. *)
LargeNoHeader(size) ==
  LET cnt == (size + PG_SIZE - 1) \div PG_SIZE
      p == FirstRun(used, cnt)
      a == p * PG_SIZE IN
  IF p = -1 THEN UNCHANGED <<free, arena, used, got>>
  ELSE /\ used' = SetRun(used, p, cnt, TRUE)
       /\ arena' = With(arena, a, [large |-> TRUE, cnt |-> cnt])
       /\ got' = With(got, a + Header, size)
       /\ UNCHANGED free

(* block_size > 1024: whole pages; the caller gets what follows the header. *)
Large(size) ==
  LET cnt == (size + Header + PG_SIZE - 1) \div PG_SIZE
      p == FirstRun(used, cnt)
      a == p * PG_SIZE IN
  IF p = -1 THEN UNCHANGED <<free, arena, used, got>>
  ELSE /\ used' = SetRun(used, p, cnt, TRUE)
       /\ arena' = With(arena, a, [large |-> TRUE, cnt |-> cnt])
       /\ got' = With(got, a + Header, size)
       /\ UNCHANGED free

(* The smallest size that fits. *)
desc_idx(size) ==
  CHOOSE d \in Descs : size <= mem_block_size[d] /\ \A e \in 0 .. d - 1 : size > mem_block_size[e]

(* A faulty variant: the header keeps its count. *)
PopNoCount(d, list, ar, size) ==
  /\ free' = [free EXCEPT ![d] = Tail(list)]
  /\ arena' = ar
  /\ got' = With(got, Head(list), size)

(* list_pop, and one free block less in its arena. *)
Pop(d, list, ar, size) ==
  LET b == Head(list) IN
  /\ free' = [free EXCEPT ![d] = Tail(list)]
  /\ arena' = [ar EXCEPT ![block2arena(b)].cnt = @ - 1]
  /\ got' = With(got, b, size)

(* The free list is empty: a new arena is cut into blocks first. *)
Small(size) ==
  LET d == desc_idx(size)
      p == FirstRun(used, 1)
      n == blocks_per_arena(d)
      cut == [i \in 1 .. n |-> arena2block(p * PG_SIZE, d, i - 1)] IN
  IF free[d] # <<>>
  THEN Pop(d, free[d], arena, size) /\ UNCHANGED used
  ELSE /\ used' = SetRun(used, p, 1, TRUE)
       /\ Pop(d, cut, With(arena, p * PG_SIZE, [large |-> FALSE, cnt |-> n, desc |-> d]), size)

NeedsPage(size) == size > Largest \/ free[desc_idx(size)] = <<>>

sys_malloc(size) ==
  /\ panic = "no" /\ 0 < size /\ size < NPages * PG_SIZE
  /\ IF NeedsPage(size) /\ Full(used)
     THEN panic' = "full" /\ UNCHANGED <<free, arena, used, got>>
     ELSE (IF size > Largest THEN Large(size) ELSE Small(size)) /\ UNCHANGED panic

(* A faulty variant: the count is compared before it is raised. *)
LastBlockLate(a, d) == arena[a].cnt = blocks_per_arena(d)

(* ++a->cnt == blocks_per_arena *)
LastBlock(a, d) == arena[a].cnt + 1 = blocks_per_arena(d)

(* The last block of an arena: its blocks leave the free list, each        *)
(* asserted to be there, and the page goes back.                           *)
sys_free(ptr) ==
  /\ panic = "no" /\ ptr \in DOMAIN got
  /\ got' = Without(got, ptr)
  /\ LET a == block2arena(ptr) IN
     IF arena[a].large
     THEN /\ used' = SetRun(used, a \div PG_SIZE, arena[a].cnt, FALSE)
          /\ arena' = Without(arena, a)
          /\ UNCHANGED <<free, panic>>
     ELSE LET d == arena[a].desc
              list == Append(free[d], ptr) IN
          IF LastBlock(a, d)
          THEN /\ panic' = IF Blocks(a, d) \subseteq Elems(list) THEN panic ELSE "assert"
               /\ free' = [free EXCEPT ![d] = Removed(list, Blocks(a, d))]
               /\ used' = SetRun(used, a \div PG_SIZE, 1, FALSE)
               /\ arena' = Without(arena, a)
          ELSE /\ free' = [free EXCEPT ![d] = list]
               /\ arena' = [arena EXCEPT ![a].cnt = @ + 1]
               /\ UNCHANGED <<used, panic>>

Next == (\E size \in Sizes : sys_malloc(size)) \/ (\E ptr \in DOMAIN got : sys_free(ptr))

Spec == Init /\ [][Next]_vars

-----------------------------------------------------------------------------
(* The bytes of a piece of memory a caller holds. *)
Bytes(ptr) == ptr .. ptr + got[ptr] - 1

(* What two callers hold never overlaps, and no byte of it belongs to a    *)
(* page that is free or to the header of an arena.                         *)
PiecesDisjoint ==
  \A p \in DOMAIN got :
    /\ \A q \in DOMAIN got \ {p} : Bytes(p) \cap Bytes(q) = {}
    /\ \A x \in Bytes(p) : /\ x \div PG_SIZE < NPages /\ used[x \div PG_SIZE]
                           /\ \A a \in DOMAIN arena : x \notin a .. a + Header - 1

(* The count in a header is the number of blocks of the arena on the free  *)
(* list, and each block is either there, once, or held by a caller.        *)
CountsFree ==
  \A a \in DOMAIN arena : ~arena[a].large =>
    LET d == arena[a].desc
        here == {i \in DOMAIN free[d] : free[d][i] \in Blocks(a, d)} IN
    /\ arena[a].cnt = Cardinality(here)
    /\ Cardinality(here) = Cardinality(Blocks(a, d) \cap Elems(free[d]))
    /\ Blocks(a, d) = {free[d][i] : i \in here} \cup (Blocks(a, d) \cap DOMAIN got)
    /\ {free[d][i] : i \in here} \cap DOMAIN got = {}

(* No page leaks and none is kept without need: with nothing handed out    *)
(* every page is free, and every arena has a block in use.  The ASSERT of  *)
(* sys_free holds: when the count says that every block of an arena is     *)
(* free, they are all on the free list.                                    *)
EmptyArenasReturned ==
  /\ panic # "assert"
  /\ panic = "no" =>
    /\ \A a \in DOMAIN arena : \E p \in DOMAIN got : block2arena(p) = a
    /\ got = <<>> => \A p \in DOMAIN used : ~used[p]
    /\ \A d \in Descs : \A b \in Elems(free[d]) : block2arena(b) \in DOMAIN arena

-----------------------------------------------------------------------------
(* The inductive invariant behind all three, of free lists fr, headers ar, *)
(* pages us and pieces gt.  In the middle of a call the arenas in spare    *)
(* may have no block in use.                                               *)

Headers ==
  [large : {TRUE}, cnt : Nat \ {0}] \cup [large : {FALSE}, cnt : Nat, desc : Descs]

HeapTypes(fr, ar, us, gt) ==
  /\ fr \in [Descs -> Seq(Nat)]
  /\ us \in [0 .. NPages - 1 -> BOOLEAN]
  /\ \A a \in DOMAIN ar : ar[a] \in Headers /\ \E p \in 0 .. NPages - 1 : a = p * PG_SIZE
  /\ \A b \in DOMAIN gt : b \in Nat /\ gt[b] \in Nat \ {0}

(* The pages of an arena. *)
Extent(ar, a) ==
  a \div PG_SIZE .. a \div PG_SIZE + (IF ar[a].large THEN ar[a].cnt ELSE 1) - 1

(* The pages in use are those of the arenas, each of one. *)
PagesAgree(ar, us) ==
  /\ \A a \in DOMAIN ar : \A x \in Extent(ar, a) : x \in DOMAIN us /\ us[x]
  /\ \A a, b \in DOMAIN ar : a # b => Extent(ar, a) \cap Extent(ar, b) = {}
  /\ \A x \in DOMAIN us : us[x] => \E a \in DOMAIN ar : x \in Extent(ar, a)

(* A piece is what follows the header of a large arena, or one block. *)
Fits(ar, gt, b) ==
  LET a == block2arena(b) IN
  /\ a \in DOMAIN ar
  /\ IF ar[a].large THEN b = a + Header /\ Header + gt[b] <= ar[a].cnt * PG_SIZE
     ELSE b \in Blocks(a, ar[a].desc) /\ gt[b] <= mem_block_size[ar[a].desc]

(* A free list has blocks of arenas of its size that nobody holds. *)
Listed(ar, gt, d, b) ==
  LET a == block2arena(b) IN
  /\ a \in DOMAIN ar /\ ~ar[a].large /\ ar[a].desc = d
  /\ b \in Blocks(a, d) /\ b \notin DOMAIN gt

(* Every block is free or held; the count is of the free ones. *)
Counted(fr, ar, gt, spare, a) ==
  IF ar[a].large THEN a + Header \in DOMAIN gt
  ELSE LET blocks == Blocks(a, ar[a].desc)
           listed == Elems(fr[ar[a].desc]) IN
       /\ \A b \in blocks : b \in listed \/ b \in DOMAIN gt
       /\ ar[a].cnt = Cardinality(blocks \cap listed)
       /\ a \in spare \/ \E b \in blocks : b \in DOMAIN gt

NoRepeat(s) == \A i, j \in DOMAIN s : s[i] = s[j] => i = j

HeapOK(fr, ar, us, gt, spare) ==
  /\ HeapTypes(fr, ar, us, gt) /\ PagesAgree(ar, us)
  /\ \A b \in DOMAIN gt : Fits(ar, gt, b)
  /\ \A d \in Descs : NoRepeat(fr[d]) /\ \A b \in Elems(fr[d]) : Listed(ar, gt, d, b)
  /\ \A a \in DOMAIN ar : Counted(fr, ar, gt, spare, a)

HeapInv == HeapOK(free, arena, used, got, {}) /\ panic \in {"no", "full"}
=============================================================================
