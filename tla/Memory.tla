------------------------------- MODULE Memory -------------------------------
(***************************************************************************)
(* The page allocator of kernel/memory.c: the kernel and the user pool of  *)
(* page frames, the virtual address bitmaps and the page tables,           *)
(* used by kernel threads and user processes that the scheduler switches   *)
(* at any point.                                                           *)
(*                                                                         *)
(* The locks of the pools appear as in Mutex, which sync.c implements:     *)
(* taken in one step when free.  The bitmap of a pool is scanned in one    *)
(* step and changed in another, since nothing but the lock keeps others    *)
(* out: page tables are taken without it.  vaddr_get is one step, scan and *)
(* all: an address bitmap is only used by holders of the pool's lock.      *)
(*                                                                         *)
(*   start   start_process            table, tset, tmap                    *)
(*   out     no call                          a new page table             *)
(*   vaddr   vaddr_get                pfree, unmap, vfree                  *)
(*   scan, set, map                           mfree_page, page by page     *)
(*           palloc, page_table_add   rel     lock_release                 *)
(***************************************************************************)
EXTENDS Bitmap

CONSTANTS
  KThreads,     \* kernel threads (pgdir is NULL)
  Procs,        \* user processes
  KFrames,      \* frames of the kernel pool; user_pool.phy_addr_start
  UFrames,      \* frames of the user pool
  KPages,       \* pages of the kernel's virtual address pool
  UPages,       \* pages of a process; the last one is its stack
  DirSize,      \* pages per page table, 1024 in the code
  MaxCnt,       \* bound: most pages of one call
  Groups,       \* sets of threads that use the allocator at the same time
  None          \* NULL; a page that is not present

ASSUME MemoryAssumption ==
  /\ KThreads \cap Procs = {} /\ "kernel" \notin Procs
  /\ None \notin KThreads \cup Procs /\ None \notin Nat
  /\ KFrames \in Nat /\ UFrames \in Nat /\ KPages \in Nat \ {0}
  /\ UPages \in Nat \ {0} /\ DirSize \in Nat \ {0} /\ MaxCnt \in Nat \ {0}
  /\ \A n \in {KFrames, UFrames, KPages, UPages} : n % Width = 0
  /\ Groups \subseteq SUBSET (KThreads \cup Procs)

VARIABLES
  pool,     \* pool_bitmap of both pools
  vbits,    \* vaddr_bitmap of the kernel and of every process
  pte,      \* the frame a page is mapped to, None with P = 0
  pde,      \* the frame of a page table of a process
  owner,    \* who holds the lock of a pool
  call,     \* per thread: where it is (pc) and the locals of the call
  held,     \* per thread: the runs of pages it has got, as <<first, cnt>>
  cur,      \* the running thread
  panic     \* "no", "full" (the ASSERT of bitmap_scan) or "assert" (others)

vars == <<pool, vbits, pte, pde, owner, call, held, cur, panic>>

Threads == KThreads \cup Procs
Spaces == Procs \cup {"kernel"}
Pools == {"kernel", "user"}
Frames == 0 .. KFrames + UFrames - 1
Dirs == 0 .. (UPages - 1) \div DirSize
Pages(s) == 0 .. (IF s = "kernel" THEN KPages ELSE UPages) - 1
PoolBits(p) == 0 .. (IF p = "kernel" THEN KFrames ELSE UFrames) - 1
phy_addr_start(p) == IF p = "kernel" THEN 0 ELSE KFrames

Space(t) == IF t \in Procs THEN t ELSE "kernel"
(* PF_KERNEL for a thread without page directory, PF_USER with one. *)
PF(t) == IF t \in Procs THEN "user" ELSE "kernel"

(* No call: the locals are dead. *)
Idle(p) == [pc |-> p, page |-> 0, left |-> 0, frame |-> None, table |-> None,
            run |-> <<0, 0>>, masked |-> FALSE]

TypeOK ==
  /\ \A p \in Pools : pool[p] \in [PoolBits(p) -> BOOLEAN]
  /\ \A s \in Spaces : /\ vbits[s] \in [Pages(s) -> BOOLEAN]
                       /\ pte[s] \in [Pages(s) -> Frames \cup {None}]
  /\ pde \in [Procs -> [Dirs -> PoolBits("kernel") \cup {None}]]
  /\ owner \in [Pools -> Threads \cup {None}]
  /\ cur \in Threads
  /\ panic \in {"no", "full", "assert"}

Init ==
  /\ pool = [p \in Pools |-> [i \in PoolBits(p) |-> FALSE]]
  /\ vbits = [s \in Spaces |-> [v \in Pages(s) |-> FALSE]]
  /\ pte = [s \in Spaces |-> [v \in Pages(s) |-> None]]
  /\ pde = [p \in Procs |-> [d \in Dirs |-> None]]
  /\ owner = [p \in Pools |-> None]
  /\ call = [t \in Threads |-> Idle(IF t \in Procs THEN "start" ELSE "out")]
  /\ held = [t \in Threads |-> {}]
  /\ cur \in Threads
  /\ panic = "no"

-----------------------------------------------------------------------------
At(t, p) == cur = t /\ call[t].pc = p /\ panic = "no"
Goto(t, p) == call' = [call EXCEPT ![t].pc = p]
AssertThat(b) == panic' = IF b THEN panic ELSE "assert"

(* A scan of a full bitmap fails the ASSERT of bitmap_scan. *)
Exhausted(b) == ScanPanics(b) /\ panic' = "full" /\ UNCHANGED call

(* A faulty variant: the lock is not waited for. *)
LockNoWait(t) == owner' = [owner EXCEPT ![PF(t)] = t]

Lock(t) == owner[PF(t)] = None /\ owner' = [owner EXCEPT ![PF(t)] = t]

(* malloc_page with the lock: get_kernel_pages, sys_malloc.  A process is  *)
(* in a system call then, behind an interrupt gate: interrupts are off.    *)
Alloc(t, n) ==
  /\ At(t, "out") /\ Lock(t)
  /\ call' = [call EXCEPT ![t] = [@ EXCEPT !.pc = "vaddr", !.left = n, !.masked = t \in Procs]]
  /\ UNCHANGED <<pool, vbits, pte, pde, held, cur, panic>>

(* The run found starts below the stack, the last page of a process. *)
vaddr_get(t) ==
  /\ At(t, "vaddr")
  /\ LET b == vbits[Space(t)]
         n == call[t].left
         i == bitmap_scan(b, n) IN
     \/ Exhausted(b) /\ UNCHANGED vbits
     \/ ~ScanPanics(b) /\ i = -1 /\ Goto(t, "rel") /\ UNCHANGED <<vbits, panic>>
     \/ /\ ~ScanPanics(b) /\ i # -1
        /\ AssertThat(t \in Procs => i < UPages - 1)
        /\ vbits' = [vbits EXCEPT ![Space(t)] = SetRun(b, i, n, TRUE)]
        /\ call' = [call EXCEPT ![t].pc = "scan", ![t].page = i, ![t].run = <<i, n>>]
  /\ UNCHANGED <<pool, pte, pde, owner, held, cur>>

(* get_a_page for the stack of a process: the page is given. *)
get_a_page(t) ==
  /\ At(t, "start") /\ Lock(t)
  /\ vbits' = [vbits EXCEPT ![t][UPages - 1] = TRUE]
  /\ call' = [call EXCEPT ![t] = [@ EXCEPT !.pc = "scan", !.page = UPages - 1, !.left = 1]]
  /\ UNCHANGED <<pool, pte, pde, held, cur, panic>>

(* palloc: the frame of the first clear bit, and the bit of a frame.  Its  *)
(* two halves, for a page and for a page table.                            *)
palloc(p) == bitmap_scan(pool[p], 1) + phy_addr_start(p)
BitOf(p, f) == f - phy_addr_start(p)

PallocScan(t) ==
  /\ At(t, "scan")
  /\ \/ Exhausted(pool[PF(t)])
     \/ /\ ~ScanPanics(pool[PF(t)])
        /\ call' = [call EXCEPT ![t].pc = "set", ![t].frame = palloc(PF(t))]
        /\ UNCHANGED panic
  /\ UNCHANGED <<pool, vbits, pte, pde, owner, held, cur>>

PallocSet(t) ==
  /\ At(t, "set")
  /\ pool' = [pool EXCEPT ![PF(t)] = bitmap_set(@, BitOf(PF(t), call[t].frame), TRUE)]
  /\ Goto(t, "map")
  /\ UNCHANGED <<vbits, pte, pde, owner, held, cur, panic>>

TableScan(t) ==
  /\ At(t, "table")
  /\ \/ Exhausted(pool["kernel"])
     \/ /\ ~ScanPanics(pool["kernel"])
        /\ call' = [call EXCEPT ![t].pc = "tset", ![t].table = palloc("kernel")]
        /\ UNCHANGED panic
  /\ UNCHANGED <<pool, vbits, pte, pde, owner, held, cur>>

TableSet(t) ==
  /\ At(t, "tset")
  /\ pool' = [pool EXCEPT !["kernel"] = bitmap_set(@, BitOf("kernel", call[t].table), TRUE)]
  /\ Goto(t, "tmap")
  /\ UNCHANGED <<vbits, pte, pde, owner, held, cur, panic>>

(* page_table_add.  The page tables of the kernel exist from boot on; one  *)
(* of a process comes from palloc(&kernel_pool), whatever lock is held,    *)
(* and is cleared.  Then the next round of the loop in malloc_page.        *)
Dir(t) == call[t].page \div DirSize
HasTable(t) == t \in KThreads \/ pde[t][Dir(t)] # None

Map(t, mapped) ==
  LET c == call[t] IN
  /\ pte' = [mapped EXCEPT ![Space(t)][c.page] = c.frame]
  /\ AssertThat(mapped[Space(t)][c.page] = None)
  /\ call' = [call EXCEPT ![t] = [c EXCEPT !.page = c.page + 1, !.left = c.left - 1,
                    !.frame = None, !.table = None, !.pc = IF c.left = 1 THEN "rel" ELSE "scan"]]

page_table_add(t) ==
  /\ At(t, "map")
  /\ IF HasTable(t) THEN Map(t, pte)
                    ELSE Goto(t, "table") /\ UNCHANGED <<pte, panic>>
  /\ UNCHANGED <<pool, vbits, pde, owner, held, cur>>

NewTable(t) ==
  /\ At(t, "tmap")
  /\ pde' = [pde EXCEPT ![t][Dir(t)] = call[t].table]
  /\ Map(t, [pte EXCEPT ![t] = [v \in Pages(t) |-> IF v \div DirSize = Dir(t) THEN None ELSE @[v]]])
  /\ UNCHANGED <<pool, vbits, owner, held, cur>>

(* sys_free of a run of pages: mfree_page with the lock.  The first frame  *)
(* tells the pool the others are asserted to be in.                        *)
Free(t, r) ==
  /\ At(t, "out") /\ Lock(t) /\ r \in held[t]
  /\ held' = [held EXCEPT ![t] = @ \ {r}]
  /\ call' = [call EXCEPT ![t] = [@ EXCEPT !.pc = "pfree", !.page = r[1], !.left = r[2], !.run = r,
                                 !.masked = t \in Procs, !.frame = pte[Space(t)][r[1]]]]
  /\ UNCHANGED <<pool, vbits, pte, pde, cur, panic>>

PoolOf(f) == IF f >= KFrames THEN "user" ELSE "kernel"

pfree(t) ==
  /\ At(t, "pfree")
  /\ LET f == pte[Space(t)][call[t].page] IN
     /\ AssertThat(PoolOf(f) = PoolOf(call[t].frame))
     /\ pool' = [pool EXCEPT ![PoolOf(f)] = bitmap_set(@, BitOf(PoolOf(f), f), FALSE)]
  /\ Goto(t, "unmap")
  /\ UNCHANGED <<vbits, pte, pde, owner, held, cur>>

(* A faulty variant: the page stays present. *)
page_table_pte_keep(t) ==
  /\ At(t, "unmap")
  /\ LET c == call[t] IN
     call' = [call EXCEPT ![t] = [c EXCEPT !.page = c.page + 1, !.left = c.left - 1,
                                           !.pc = IF c.left = 1 THEN "vfree" ELSE "pfree"]]
  /\ UNCHANGED <<pool, vbits, pte, pde, owner, held, cur, panic>>

(* The page is no longer present; the TLB is not modelled. *)
page_table_pte_remove(t) ==
  /\ At(t, "unmap")
  /\ pte' = [pte EXCEPT ![Space(t)][call[t].page] = None]
  /\ LET c == call[t] IN
     call' = [call EXCEPT ![t] = [c EXCEPT !.page = c.page + 1, !.left = c.left - 1,
                                           !.pc = IF c.left = 1 THEN "vfree" ELSE "pfree"]]
  /\ UNCHANGED <<pool, vbits, pde, owner, held, cur, panic>>

(* A faulty variant: only the first page of the run is given back. *)
vaddr_removeOne(t) ==
  /\ At(t, "vfree")
  /\ vbits' = [vbits EXCEPT ![Space(t)][call[t].run[1]] = FALSE]
  /\ call' = [call EXCEPT ![t].pc = "rel", ![t].run = <<0, 0>>]
  /\ UNCHANGED <<pool, pte, pde, owner, held, cur, panic>>

vaddr_remove(t) ==
  /\ At(t, "vfree")
  /\ LET r == call[t].run IN
     vbits' = [vbits EXCEPT ![Space(t)] = SetRun(@, r[1], r[2], FALSE)]
  /\ call' = [call EXCEPT ![t].pc = "rel", ![t].run = <<0, 0>>]
  /\ UNCHANGED <<pool, pte, pde, owner, held, cur, panic>>

(* lock_release and return; run is empty when there is nothing to hand out. *)
Release(t) ==
  /\ At(t, "rel")
  /\ owner' = [owner EXCEPT ![PF(t)] = None]
  /\ held' = [held EXCEPT ![t] = @ \cup {r \in {call[t].run} : r[2] > 0}]
  /\ call' = [call EXCEPT ![t] = Idle("out")]
  /\ UNCHANGED <<pool, vbits, pte, pde, cur, panic>>

-----------------------------------------------------------------------------
(* The timer interrupt or a wait for a lock switches threads; interrupts   *)
(* are on but in a system call that has the lock.                          *)
Switch(t) ==
  /\ panic = "no" /\ ~call[cur].masked
  /\ \E g \in Groups : {cur, t} \subseteq g
  /\ cur' = t
  /\ UNCHANGED <<pool, vbits, pte, pde, owner, call, held, panic>>

Step(t) ==
  \/ \E n \in 1 .. MaxCnt : Alloc(t, n)
  \/ \E r \in held[t] : Free(t, r)
  \/ get_a_page(t) \/ vaddr_get(t) \/ PallocScan(t) \/ PallocSet(t)
  \/ page_table_add(t) \/ TableScan(t) \/ TableSet(t) \/ NewTable(t)
  \/ pfree(t) \/ page_table_pte_remove(t) \/ vaddr_remove(t) \/ Release(t)

Next == \E t \in Threads : Step(t) \/ Switch(t)

Spec == Init /\ [][Next]_vars

-----------------------------------------------------------------------------
(* The places that name a frame: pages and page tables. *)
Uses(f) ==
  (UNION {{<<s, "page", v>> : v \in {w \in Pages(s) : pte[s][w] = f}} : s \in Spaces})
  \cup (UNION {{<<p, "table", d>> : d \in {e \in Dirs : pde[p][e] = f}} : p \in Procs})

(* bitmap_scan finds the first run of cnt clear bits in every bitmap the   *)
(* allocators make, wherever it starts and across bytes, and -1 when there *)
(* is none: the byte-wise skip and the bit-wise count miss no run and      *)
(* return no used bit.                                                     *)
FirstFit ==
  \A b \in {pool[p] : p \in Pools} \cup {vbits[s] : s \in Spaces} :
    ~ScanPanics(b) => \A cnt \in 1 .. bits_len(b) : bitmap_scan(b, cnt) = FirstRun(b, cnt)

(* No frame is mapped twice: palloc never gives a page frame that another  *)
(* page or a page table already uses, in this space or in another.         *)
NoSharedFrame == \A f \in Frames : Cardinality(Uses(f)) <= 1

(* With no call under way the bitmaps say exactly what is in use: a frame  *)
(* has its bit set when a page or a page table uses it, a page when it is  *)
(* mapped.  A failed call and a freed run leave nothing behind.            *)
BitsMatchUse ==
  (panic = "no" /\ \A t \in Threads : call[t].pc \in {"start", "out"}) =>
    /\ \A p \in Pools : \A i \in PoolBits(p) : pool[p][i] = (Uses(i + phy_addr_start(p)) # {})
    /\ \A s \in Spaces : \A v \in Pages(s) : vbits[s][v] = (pte[s][v] # None)

(* The ASSERTs of page_table_add (`pte repeat'), vaddr_get (the stack) and *)
(* mfree_page (the pool) hold; the kernel stops only when a pool is full.  *)
PanicsOnlyWhenFull == panic # "assert"
-----------------------------------------------------------------------------
(* The inductive invariant behind these properties, for threads of one     *)
(* kind: MemMixed shows what happens when a kernel thread and a process    *)
(* allocate at the same time.                                              *)
NoMixing == \A g \in Groups : g \subseteq KThreads \/ g \subseteq Procs

Mapping == {"scan", "set", "map", "table", "tset", "tmap"}
Calls == [pc : Mapping \cup {"start", "out", "vaddr", "pfree", "unmap", "vfree", "rel"},
          page : Nat, left : Nat, frame : Frames \cup {None},
          table : PoolBits("kernel") \cup {None}, run : Nat \X Nat, masked : BOOLEAN]

MemTypeOK ==
  /\ TypeOK
  /\ DOMAIN pool = Pools /\ DOMAIN vbits = Spaces /\ DOMAIN pte = Spaces
  /\ call \in [Threads -> Calls]
  /\ held \in [Threads -> SUBSET (Nat \X Nat)]

Busy(t) == call[t].pc \notin {"start", "out"}

(* Nobody but t is in a call: so when t is in one, since the threads of a  *)
(* kind take turns with one lock.                                          *)
Alone(t) == \A u \in Threads \ {t} : ~Busy(u)
OneCall ==
  \A t \in Threads : Busy(t) => owner[PF(t)] = t /\ (t \in Procs <=> cur \in Procs)

RunPages(r) == r[1] .. r[1] + r[2] - 1

(* Pages whose bit is set although they are not mapped: the call has yet   *)
(* to map them, or has unmapped them and yet to give them back.            *)
Loose(t) ==
  LET c == call[t] IN
  IF c.pc \in Mapping THEN c.page .. c.page + c.left - 1
  ELSE IF c.pc \in {"pfree", "unmap"} THEN c.run[1] .. c.page - 1
  ELSE IF c.pc = "vfree" THEN RunPages(c.run) ELSE {}

PagesMarked(t) ==
  /\ \A s \in Spaces : \A v \in Pages(s) :
       vbits[s][v] <=> pte[s][v] # None \/ (s = Space(t) /\ v \in Loose(t))
  /\ \A v \in Loose(t) : v \in Pages(Space(t)) /\ pte[Space(t)][v] = None

(* A frame whose bit is set and that is to be named, or the other way. *)
Taken(t, f) ==
  \/ call[t].pc \in {"map", "table", "tset", "tmap"} /\ call[t].frame = f
  \/ call[t].pc = "tmap" /\ call[t].table = f
GivenUp(t, f) == call[t].pc = "unmap" /\ pte[Space(t)][call[t].page] = f

Named(f) ==
  \/ \E s \in Spaces : \E v \in Pages(s) : pte[s][v] = f
  \/ \E p \in Procs : \E d \in Dirs : pde[p][d] = f
Marked(f) == pool[PoolOf(f)][BitOf(PoolOf(f), f)]

FramesMarked(t) ==
  \A f \in Frames : /\ Marked(f) <=> (Named(f) /\ ~GivenUp(t, f)) \/ Taken(t, f)
                    /\ Taken(t, f) => ~Named(f)

(* A frame is named once, by a space of its pool; a page of a process that *)
(* is mapped has a page table.                                             *)
PagesOnce == \A s, r \in Spaces : \A v \in Pages(s), w \in Pages(r) :
  pte[s][v] = pte[r][w] /\ pte[s][v] # None => s = r /\ v = w
TablesOnce == \A p, q \in Procs : \A d, e \in Dirs :
  pde[p][d] = pde[q][e] /\ pde[p][d] # None => p = q /\ d = e
PagesNotTables == \A s \in Spaces : \A v \in Pages(s) : \A p \in Procs : \A d \in Dirs :
  pte[s][v] = pde[p][d] => pte[s][v] = None
PagesInPool == \A s \in Spaces : \A v \in Pages(s) : pte[s][v] # None =>
  /\ PoolOf(pte[s][v]) = IF s = "kernel" THEN "kernel" ELSE "user"
  /\ s # "kernel" => pde[s][v \div DirSize] # None
NamedOnce == PagesOnce /\ TablesOnce /\ PagesNotTables /\ PagesInPool

(* The pages of a run belong to its owner, below the stack. *)
RunOf(t, r) ==
  /\ r[2] > 0
  /\ \A v \in RunPages(r) : /\ v \in Pages(Space(t)) /\ vbits[Space(t)][v]
                            /\ t \in Procs => v # UPages - 1
RunsApart(t, r, u, q) == Space(t) = Space(u) => RunPages(r) \cap RunPages(q) = {}

HeldRuns ==
  /\ \A t \in Threads : \A r \in held[t] :
       RunOf(t, r) /\ \A v \in RunPages(r) : pte[Space(t)][v] # None
  /\ \A t, u \in Threads : \A r \in held[t], q \in held[u] :
       RunsApart(t, r, u, q) \/ (t = u /\ r = q)

CallRun(t) == call[t].run[2] > 0 =>
  RunOf(t, call[t].run) /\ \A u \in Threads : \A q \in held[u] : RunsApart(t, call[t].run, u, q)

(* What a call that maps pages knows, and one that frees them. *)
MapView(t) ==
  LET c == call[t] IN
  /\ c.left > 0
  /\ \/ c.run[2] = 0 /\ t \in Procs /\ c.page = UPages - 1 /\ c.left = 1
     \/ c.run[2] > 0 /\ c.run[1] <= c.page /\ c.page + c.left = c.run[1] + c.run[2]
  /\ \A v \in RunPages(c.run) : v < c.page => pte[Space(t)][v] # None
FreeView(t) ==
  LET c == call[t] IN
  /\ c.left > 0 /\ c.run[2] > 0 /\ c.run[1] <= c.page /\ c.page + c.left = c.run[1] + c.run[2]
  /\ \A v \in RunPages(c.run) : v >= c.page => pte[Space(t)][v] # None
FrameView(t) == call[t].frame \in Frames /\ PoolOf(call[t].frame) = PF(t)

CallView(t) ==
  LET c == call[t] IN
  /\ c.pc \in {"start", "out"} => c = Idle(c.pc)
  /\ c.pc = "start" => t \in Procs /\ held[t] = {}
  /\ c.pc = "vaddr" => c.left > 0 /\ c.run = <<0, 0>>
  /\ c.pc \in Mapping => MapView(t)
  /\ c.pc \in (Mapping \ {"scan"}) \cup {"pfree", "unmap"} => FrameView(t)
  /\ c.pc = "set" => ~Marked(c.frame)
  /\ c.pc \in {"table", "tset", "tmap"} => t \in Procs /\ pde[t][Dir(t)] = None
  /\ c.pc \in {"tset", "tmap"} => c.table \in PoolBits("kernel")
  /\ c.pc = "tset" => ~Marked(c.table)
  /\ c.pc \in {"pfree", "unmap"} => FreeView(t)
  /\ c.pc = "vfree" => c.run[2] > 0
  /\ c.pc = "rel" => \A v \in RunPages(c.run) : pte[Space(t)][v] # None

(* The last page of a process that has started is its stack. *)
StackKept == \A t \in Procs :
  IF call[t].pc = "start" THEN pte[t][UPages - 1] = None ELSE vbits[t][UPages - 1]

MemInv ==
  /\ MemTypeOK /\ OneCall /\ NamedOnce /\ HeldRuns /\ StackKept
  /\ \A t \in Threads : /\ CallView(t) /\ CallRun(t)
                        /\ Alone(t) => FramesMarked(t) /\ PagesMarked(t)
  /\ panic # "assert"
=============================================================================
