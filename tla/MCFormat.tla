------------------------------ MODULE MCFormat ------------------------------
(* Disks as a partitioning program leaves them: p and l are the lengths of *)
(* primary and logical partitions, in sectors, 0 where an entry is unused; *)
(* entry `at' of the first table is the extended partition, if there is    *)
(* one.  One primary partition of every length that gives a bitmap of one  *)
(* to three sectors; then disks of several partitions.                     *)
EXTENDS Format, FiniteSetsExt

Sum(s, n) == FoldLeft(LAMBDA a, b : a + b, 0, SubSeq(s, 1, n))
Entry(type, start, cnt) == [fs_type |-> type, start_lba |-> start, sec_cnt |-> cnt]
Unused == Entry(0, 0, 0)
Normal(start, cnt) == IF cnt = 0 THEN Unused ELSE Entry(131, start, cnt)

Disk(p, at, l) ==
  LET start(k) == 1 + Sum(p, k - 1)
      base == 1 + Sum(p, Len(p))            \* of the extended partition
      table(j) == Sum(l, j - 1) + j - 1     \* of logical partition j, in it
      entry(k) == IF k = at THEN Entry(5, base, Sum(l, Len(l)) + Len(l))
                  ELSE IF k \in DOMAIN p THEN Normal(start(k), p[k]) ELSE Unused
      kept(s, lba(_)) == SelectSeq([k \in DOMAIN s |-> [start_lba |-> lba(k), sec_cnt |-> s[k]]],
                                   LAMBDA part : part.sec_cnt # 0) IN
  [tables |-> [lba \in {0} \cup {base + table(j) : j \in DOMAIN l} |->
                 IF lba = 0 THEN [k \in Entries |-> entry(k)]
                 ELSE LET j == CHOOSE i \in DOMAIN l : base + table(i) = lba IN
                      [k \in Entries |->
                         IF k = 1 THEN Normal(1, l[j])
                         ELSE IF k = 2 /\ j < Len(l) THEN Entry(5, table(j + 1), 1 + l[j + 1])
                         ELSE Unused]],
   primary |-> kept(p, start),
   logical |-> kept(l, LAMBDA j : base + table(j) + 1)]

Repeat(n, k) == [i \in 1 .. k |-> n]
Chains == {<<17>>, <<20, 17>>, <<17, 0, 33>>, <<0, 20>>} \cup {Repeat(17, k) : k \in 7 .. 10}

MCDisks ==
  {Disk(<<n>>, 0, <<>>) : n \in 17 .. 60}
  \cup {Disk(p, 0, <<>>) : p \in {<<20, 0, 33>>, <<0, 20, 17, 33>>, <<17, 17, 17>>}}
  \cup {Disk(<<0, 20, 33>>, 1, l) : l \in Chains}
  \cup {Disk(<<20, 0, 33, 17>>, 2, l) : l \in Chains}
  \cup {Disk(<<20>>, 4, l) : l \in Chains}
=============================================================================
