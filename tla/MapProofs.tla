------------------------------ MODULE MapProofs ------------------------------
(***************************************************************************)
(* Lemmas on the steps of Memory that take frames from a pool, map them    *)
(* and give them back, and on those that change the bitmaps of the pages:  *)
(* each keeps MemInv.                                                      *)
(***************************************************************************)
EXTENDS Memory, TLAPS

(* The prover of the leaves that name none, with time for a slow machine. *)
USE ZenonT(60)

-----------------------------------------------------------------------------
(* The allocator.                                                          *)

(* The space of a thread and its pool. *)
LEMMA SpaceFacts ==
  ASSUME NEW t \in Threads
  PROVE  /\ Space(t) \in Spaces /\ PF(t) \in Pools
         /\ PF(t) = IF Space(t) = "kernel" THEN "kernel" ELSE "user"
         /\ (t \in Procs <=> Space(t) # "kernel")
BY MemoryAssumption DEF Space, Spaces, PF, Pools, Threads

LEMMA StackPage ==
  \A p \in Procs : /\ p \in Spaces /\ p \in Threads /\ p # "kernel" /\ Space(p) = p
                   /\ UPages - 1 \in Pages(p)
BY MemoryAssumption, SMT DEF Spaces, Threads, Space, Pages

(* A thread that is in a call, or gets the lock for one, is the only one. *)
LEMMA Turn ==
  ASSUME MemInv, NEW t \in Threads, cur = t, Busy(t) \/ owner[PF(t)] = None
  PROVE  Alone(t)
<1>1. SUFFICES ASSUME NEW u \in Threads \ {t}, Busy(u) PROVE FALSE
  BY DEF Alone
<1>2. owner[PF(u)] = u /\ (u \in Procs <=> t \in Procs)
  BY <1>1 DEF MemInv, OneCall
<1>3. PF(u) = PF(t)
  BY <1>2 DEF PF
<1>4. u # None /\ t # None
  BY MemoryAssumption DEF Threads
<1>5. Busy(t) => owner[PF(t)] = t
  BY DEF MemInv, OneCall
<1>6. QED BY <1>2, <1>3, <1>4, <1>5

(* The call of a thread that is not in one. *)
LEMMA Resting ==
  ASSUME MemInv, NEW u \in Threads, ~Busy(u)
  PROVE  call[u] = Idle(call[u].pc) /\ call[u].run = <<0, 0>> /\ Loose(u) = {}
<1>1. call[u].pc \in {"start", "out"}
  BY DEF Busy
<1>2. call[u] = Idle(call[u].pc)
  <2>1. CallView(u)
    BY DEF MemInv
  <2>2. QED BY <1>1, <2>1 DEF CallView
<1>3. call[u].run = <<0, 0>>
  BY <1>2, SMT DEF Idle
<1>4. QED BY <1>1, <1>2, <1>3 DEF Loose, Mapping

(* A step of t leaves the views of the others alone. *)
LEMMA OthersRest ==
  ASSUME MemInv, NEW t \in Threads, Alone(t),
         \A u \in Threads \ {t} : call'[u] = call[u] /\ held'[u] = held[u],
         FramesMarked(t)', PagesMarked(t)', CallView(t)', CallRun(t)'
  PROVE  \A u \in Threads : /\ CallView(u)' /\ CallRun(u)'
                            /\ Alone(u)' => FramesMarked(u)' /\ PagesMarked(u)'
<1>1. SUFFICES ASSUME NEW u \in Threads, u # t
               PROVE  /\ CallView(u)' /\ CallRun(u)'
                      /\ Alone(u)' => FramesMarked(u)' /\ PagesMarked(u)'
  OBVIOUS
<1>2. call'[u] = call[u] /\ held'[u] = held[u] /\ ~Busy(u)
  BY <1>1 DEF Alone
<1>3. call[u].pc \in {"start", "out"} /\ call[u] = Idle(call[u].pc) /\ call[u].run = <<0, 0>>
  BY <1>2, Resting DEF Busy
<1>4. CallView(u)'
  <2>1. CallView(u)
    BY DEF MemInv
  <2>2. call[u].pc = "start" => u \in Procs /\ held[u] = {}
    BY <2>1 DEF CallView
  <2>3. QED BY <1>2, <1>3, <2>2 DEF CallView, Mapping
<1>5. CallRun(u)'
  BY <1>2, <1>3, SMT DEF CallRun
<1>6. ASSUME Alone(u)' PROVE FramesMarked(u)' /\ PagesMarked(u)'
  <2>1. call'[t].pc \in {"start", "out"}
    BY <1>1, <1>6 DEF Alone, Busy
  <2>2. Loose(u)' = {} /\ Loose(t)' = {}
    BY <2>1, <1>2, <1>3 DEF Loose, Mapping
  <2>3. \A f \in Frames : /\ Taken(u, f)' = FALSE /\ Taken(t, f)' = FALSE
                          /\ GivenUp(u, f)' = FALSE /\ GivenUp(t, f)' = FALSE
    BY <2>1, <1>2, <1>3 DEF Taken, GivenUp
  <2>4. FramesMarked(u)'
    BY <2>3 DEF FramesMarked
  <2>5. PagesMarked(u)'
    BY <2>2 DEF PagesMarked
  <2>6. QED BY <2>4, <2>5
<1>7. QED BY <1>4, <1>5, <1>6

(* What a step that leaves the tables alone keeps. *)
LEMMA SameTables ==
  ASSUME MemInv, UNCHANGED <<pte, pde>>
  PROVE  NamedOnce' /\ \A f : Named(f)' <=> Named(f)
<1>1. NamedOnce'
  BY SMT DEF MemInv, NamedOnce, PagesOnce, TablesOnce, PagesNotTables, PagesInPool
<1>2. QED BY <1>1 DEF Named

LEMMA SameRuns ==
  ASSUME MemInv, UNCHANGED <<vbits, pte, held>>
  PROVE  HeldRuns'
BY DEF MemInv, HeldRuns, RunOf, RunsApart

(* A step that starts no process keeps the stacks. *)
LEMMA SameStacks ==
  ASSUME MemInv, UNCHANGED vbits, NEW t \in Threads,
         \A u \in Threads \ {t} : call'[u] = call[u],
         call[t].pc # "start", call'[t].pc # "start",
         \A p \in Procs \ {t} : pte'[p][UPages - 1] = pte[p][UPages - 1]
  PROVE  StackKept'
<1>1. SUFFICES ASSUME NEW p \in Procs
               PROVE  IF call'[p].pc = "start" THEN pte'[p][UPages - 1] = None
                                               ELSE vbits[p][UPages - 1]
  BY DEF StackKept
<1>2. p \in Threads /\ (call[p].pc = "start" <=> call'[p].pc = "start")
  BY DEF Threads
<1>3. IF call[p].pc = "start" THEN pte[p][UPages - 1] = None ELSE vbits[p][UPages - 1]
  BY DEF MemInv, StackKept
<1>4. QED BY <1>2, <1>3

(* What a call knows while its locals stay. *)
LEMMA SameViews ==
  ASSUME NEW t, UNCHANGED pte, call'[t].page = call[t].page, call'[t].left = call[t].left,
         call'[t].run = call[t].run
  PROVE  /\ MapView(t)' <=> MapView(t)
         /\ FreeView(t)' <=> FreeView(t)
         /\ call'[t].frame = call[t].frame => (FrameView(t)' <=> FrameView(t))
BY DEF MapView, FreeView, FrameView

(* lock_acquire: the call of t begins. *)
LEMMA OneCallLock ==
  ASSUME MemInv, NEW t \in Threads, cur = t, Lock(t), UNCHANGED cur,
         \A u \in Threads \ {t} : call'[u] = call[u]
  PROVE  OneCall'
<1>1. owner[PF(t)] = None /\ Alone(t) /\ owner' = [owner EXCEPT ![PF(t)] = t]
  BY Turn DEF Lock
<1>2. owner'[PF(t)] = t
  BY <1>1 DEF MemInv, MemTypeOK, TypeOK, PF, Pools
<1>3. \A u \in Threads \ {t} : ~Busy(u)'
  BY <1>1 DEF Alone, Busy
<1>4. QED BY <1>2, <1>3 DEF OneCall

LEMMA OneCallStep ==
  ASSUME MemInv, NEW t \in Threads, Busy(t), UNCHANGED <<cur, owner>>,
         \A u \in Threads \ {t} : call'[u] = call[u]
  PROVE  OneCall'
BY DEF MemInv, OneCall, Busy

LEMMA CallStep ==
  ASSUME MemInv, NEW t \in Threads, NEW rec \in Calls, call' = [call EXCEPT ![t] = rec]
  PROVE  /\ call' \in [Threads -> Calls] /\ call'[t] = rec
         /\ \A u \in Threads \ {t} : call'[u] = call[u]
BY DEF MemInv, MemTypeOK

LEMMA AllocInv ==
  ASSUME MemInv, NEW t \in Threads, NEW n \in 1 .. MaxCnt, Alloc(t, n)
  PROVE  MemInv'
<1> USE DEF At
<1>1. /\ cur = t /\ call[t].pc = "out" /\ Lock(t) /\ ~Busy(t) /\ n \in Nat /\ n > 0
      /\ UNCHANGED <<pool, vbits, pte, pde, held, cur, panic>>
  BY MemoryAssumption, SMT DEF Alloc, Busy
<1>2. Alone(t)
  BY <1>1, Turn DEF Lock
<1>3. call[t] \in Calls /\ call[t].run = <<0, 0>>
  BY <1>1, Resting DEF MemInv, MemTypeOK
<1> DEFINE m == t \in Procs
           rec == [call[t] EXCEPT !.pc = "vaddr", !.left = n, !.masked = m]
<1>3a. call' = [call EXCEPT ![t] = rec] /\ m \in BOOLEAN
  BY SMT DEF Alloc
<1> HIDE DEF m
<1>3b. rec \in Calls /\ rec.pc = "vaddr" /\ rec.left = n /\ rec.run = <<0, 0>>
  BY <1>1, <1>3, <1>3a DEF Calls
<1> HIDE DEF rec
<1>4. /\ call' \in [Threads -> Calls]
      /\ \A u \in Threads \ {t} : call'[u] = call[u]
      /\ call'[t].pc = "vaddr" /\ call'[t].left = n /\ call'[t].run = <<0, 0>>
  BY <1>3a, <1>3b, CallStep
<1>5. MemTypeOK'
  BY <1>1, <1>4 DEF MemInv, MemTypeOK, TypeOK, Lock, PF, Pools
<1>6. OneCall'
  BY <1>1, <1>4, OneCallLock
<1>7. NamedOnce' /\ HeldRuns' /\ StackKept' /\ \A f : Named(f)' <=> Named(f)
  BY <1>1, <1>4, SameTables, SameRuns, SameStacks
<1>8. FramesMarked(t)'
  <2>1. FramesMarked(t)
    BY <1>2 DEF MemInv
  <2>2. \A f : Taken(t, f) = Taken(t, f)' /\ GivenUp(t, f) = GivenUp(t, f)' /\ Marked(f)' = Marked(f)
    BY <1>1, <1>4 DEF Taken, GivenUp, Marked
  <2>3. QED BY <2>1, <2>2, <1>7 DEF FramesMarked
<1>9. PagesMarked(t)'
  <2>1. Loose(t) = {} /\ Loose(t)' = {}
    BY <1>1, <1>4, Resting DEF Loose, Mapping
  <2>2. PagesMarked(t)
    BY <1>2 DEF MemInv
  <2>3. QED BY <2>1, <2>2, <1>1 DEF PagesMarked
<1>10. CallView(t)' /\ CallRun(t)'
  BY <1>1, <1>4, SMT DEF CallView, CallRun, Mapping
<1>11. QED
  BY <1>1, <1>2, <1>4, <1>5, <1>6, <1>7, <1>8, <1>9, <1>10, OthersRest DEF MemInv

(* A step of a call that changes at most a bit of a pool. *)
LEMMA PoolInv ==
  ASSUME MemInv, NEW t \in Threads, cur = t, Busy(t), NEW rec \in Calls,
         call' = [call EXCEPT ![t] = rec], rec.run = call[t].run, rec.pc # "start",
         UNCHANGED <<vbits, pte, pde, owner, held, cur, panic>>,
         DOMAIN pool' = Pools, \A p \in Pools : pool'[p] \in [PoolBits(p) -> BOOLEAN],
         Loose(t)' = Loose(t), FramesMarked(t)', CallView(t)'
  PROVE  MemInv'
<1>1. /\ call' \in [Threads -> Calls] /\ call'[t] = rec
      /\ \A u \in Threads \ {t} : call'[u] = call[u]
  BY CallStep
<1>2. Alone(t)
  BY Turn
<1>3. MemTypeOK' /\ OneCall'
  BY <1>1, OneCallStep DEF MemInv, MemTypeOK, TypeOK
<1>4. NamedOnce' /\ HeldRuns' /\ StackKept'
  BY <1>1, SameTables, SameRuns, SameStacks DEF Busy
<1>5. PagesMarked(t)'
  <2>1. PagesMarked(t)
    BY <1>2 DEF MemInv
  <2>2. QED BY <2>1 DEF PagesMarked
<1>6. CallRun(t)'
  <2>1. CallRun(t)
    BY DEF MemInv
  <2>2. QED BY <2>1, <1>1 DEF CallRun, RunOf, RunsApart
<1>7. \A u \in Threads : /\ CallView(u)' /\ CallRun(u)'
                         /\ Alone(u)' => FramesMarked(u)' /\ PagesMarked(u)'
  BY <1>1, <1>2, <1>5, <1>6, OthersRest
<1>8. QED BY <1>3, <1>4, <1>7 DEF MemInv

(* A step that moves the call of t on and changes nothing else. *)
LEMMA MoveInv ==
  ASSUME MemInv, NEW t \in Threads, cur = t, Busy(t), NEW rec \in Calls,
         call' = [call EXCEPT ![t] = rec], rec.run = call[t].run, rec.pc # "start",
         UNCHANGED <<pool, vbits, pte, pde, owner, held, cur, panic>>,
         Loose(t)' = Loose(t),
         \A f \in Frames : (Taken(t, f)' <=> Taken(t, f)) /\ (GivenUp(t, f)' <=> GivenUp(t, f)),
         CallView(t)'
  PROVE  MemInv'
<1>1. FramesMarked(t) /\ \A f : Marked(f)' = Marked(f)
  BY Turn DEF MemInv, Marked
<1>2. FramesMarked(t)'
  BY <1>1, SameTables DEF FramesMarked
<1>3. DOMAIN pool' = Pools /\ \A p \in Pools : pool'[p] \in [PoolBits(p) -> BOOLEAN]
  BY DEF MemInv, MemTypeOK, TypeOK
<1>4. QED BY <1>2, <1>3, PoolInv

(* A step that changes at most the thread that runs, or stops the kernel. *)
LEMMA QuietInv ==
  ASSUME MemInv, UNCHANGED <<pool, vbits, pte, pde, owner, held, call>>,
         MemTypeOK', OneCall', panic' # "assert"
  PROVE  MemInv'
<1>1. NamedOnce' /\ HeldRuns' /\ StackKept'
  BY SameTables, SameRuns DEF MemInv, StackKept
<1>2. ASSUME NEW t \in Threads
      PROVE  /\ CallView(t)' /\ CallRun(t)'
             /\ Alone(t)' => FramesMarked(t)' /\ PagesMarked(t)'
  <2>1. CallView(t) /\ CallRun(t) /\ (Alone(t) => FramesMarked(t) /\ PagesMarked(t))
    BY DEF MemInv
  <2>2. CallView(t)'
    BY <2>1, SameViews, SMT DEF CallView, Marked, Dir
  <2>3. CallRun(t)'
    BY <2>1 DEF CallRun, RunOf, RunsApart
  <2>4. ASSUME Alone(t)' PROVE FramesMarked(t)' /\ PagesMarked(t)'
    <3>1. Alone(t)
      BY <2>4 DEF Alone, Busy
    <3>2. FramesMarked(t)'
      BY <3>1, <2>1, SameTables DEF FramesMarked, Marked, Taken, GivenUp
    <3>3. PagesMarked(t)'
      BY <3>1, <2>1 DEF PagesMarked, Loose
    <3>4. QED BY <3>2, <3>3
  <2>5. QED BY <2>2, <2>3, <2>4
<1>3. QED BY <1>1, <1>2 DEF MemInv

(* The ASSERT of bitmap_scan fails: the kernel stops. *)
LEMMA FullInv ==
  ASSUME MemInv, UNCHANGED <<pool, vbits, pte, pde, owner, held, cur, call>>, panic' = "full"
  PROVE  MemInv'
<1>1. MemTypeOK' /\ OneCall'
  BY DEF MemInv, MemTypeOK, TypeOK, OneCall, Busy
<1>2. QED BY <1>1, QuietInv

(* bitmap_set of the bit of a frame changes no other. *)
LEMMA MarkOne ==
  ASSUME MemInv, NEW f \in Frames, NEW v \in BOOLEAN,
         pool' = [pool EXCEPT ![PoolOf(f)] = bitmap_set(@, BitOf(PoolOf(f), f), v)]
  PROVE  /\ \A p \in Pools : pool'[p] \in [PoolBits(p) -> BOOLEAN]
         /\ DOMAIN pool' = Pools
         /\ \A g \in Frames : Marked(g)' = IF g = f THEN v ELSE Marked(g)
<1>1. \A g \in Frames : /\ PoolOf(g) \in Pools /\ BitOf(PoolOf(g), g) \in PoolBits(PoolOf(g))
                        /\ g = BitOf(PoolOf(g), g) + phy_addr_start(PoolOf(g))
  BY MemoryAssumption, SMT DEF Pools, PoolBits, Frames, PoolOf, phy_addr_start, BitOf
<1>2. DOMAIN pool = Pools /\ \A p \in Pools : pool[p] \in [PoolBits(p) -> BOOLEAN]
  BY DEF MemInv, MemTypeOK, TypeOK
<1>3. /\ \A p \in Pools : pool'[p] \in [PoolBits(p) -> BOOLEAN]
      /\ DOMAIN pool' = Pools
  BY <1>1, <1>2 DEF bitmap_set
<1>4. ASSUME NEW g \in Frames
      PROVE  Marked(g)' = IF g = f THEN v ELSE Marked(g)
  <2>1. CASE PoolOf(g) = PoolOf(f)
    <3>1. (g = f) <=> (BitOf(PoolOf(g), g) = BitOf(PoolOf(f), f))
      BY <2>1, <1>1
    <3>2. pool'[PoolOf(g)] = [pool[PoolOf(f)] EXCEPT ![BitOf(PoolOf(f), f)] = v]
      BY <2>1, <1>1, <1>2 DEF bitmap_set
    <3>3. QED BY <3>1, <3>2, <2>1, <1>1, <1>2 DEF Marked
  <2>2. CASE PoolOf(g) # PoolOf(f)
    <3>1. pool'[PoolOf(g)] = pool[PoolOf(g)]
      BY <2>2, <1>1, <1>2
    <3>2. QED BY <3>1, <2>2, SMT DEF Marked
  <2>3. QED BY <2>1, <2>2
<1>5. QED BY <1>3, <1>4

LEMMA PallocSetInv ==
  ASSUME MemInv, NEW t \in Threads, PallocSet(t)
  PROVE  MemInv'
<1>1. /\ cur = t /\ call[t].pc = "set" /\ Busy(t)
      /\ UNCHANGED <<vbits, pte, pde, owner, held, cur, panic>>
  BY DEF PallocSet, At, Busy
<1>2. CallView(t) /\ FramesMarked(t)
  BY <1>1, Turn DEF MemInv
<1>3. PICK f \in Frames : f = call[t].frame /\ PoolOf(f) = PF(t) /\ ~Marked(f)
  BY <1>1, <1>2 DEF CallView, FrameView, Mapping
<1>4. pool' = [pool EXCEPT ![PoolOf(f)] = bitmap_set(@, BitOf(PoolOf(f), f), TRUE)]
  BY <1>3 DEF PallocSet
<1>5. /\ DOMAIN pool' = Pools /\ \A p \in Pools : pool'[p] \in [PoolBits(p) -> BOOLEAN]
      /\ \A g \in Frames : Marked(g)' = IF g = f THEN TRUE ELSE Marked(g)
  BY <1>4, MarkOne
<1> DEFINE rec == [call[t] EXCEPT !.pc = "map"]
<1>6. /\ rec \in Calls /\ rec.pc = "map" /\ rec.frame = f
      /\ rec.page = call[t].page /\ rec.left = call[t].left /\ rec.run = call[t].run
      /\ call' = [call EXCEPT ![t] = rec]
  BY <1>3, SMTT(30) DEF MemInv, MemTypeOK, Calls, Mapping, PallocSet, Goto
<1> HIDE DEF rec
<1>7. call'[t] = rec
  BY <1>6, CallStep
<1>8. Loose(t)' = Loose(t)
  BY <1>1, <1>6, <1>7 DEF Loose, Mapping
<1>9. FramesMarked(t)'
  <2>1. \A g \in Frames : /\ Taken(t, g)' <=> g = f
                          /\ ~Taken(t, g) /\ ~GivenUp(t, g) /\ ~GivenUp(t, g)'
    BY <1>1, <1>6, <1>7 DEF Taken, GivenUp
  <2>2. ~Named(f)
    BY <2>1, <1>2, <1>3 DEF FramesMarked
  <2>3. QED BY <2>1, <2>2, <1>1, <1>2, <1>5, SameTables DEF FramesMarked
<1>10. CallView(t)'
  <2>1. MapView(t)' /\ FrameView(t)'
    BY <1>1, <1>2, <1>3, <1>6, <1>7, SameViews DEF CallView, Mapping
  <2>2. QED BY <2>1, <1>6, <1>7 DEF CallView, Mapping
<1>11. QED BY <1>1, <1>5, <1>6, <1>8, <1>9, <1>10, PoolInv

LEMMA TableSetInv ==
  ASSUME MemInv, NEW t \in Threads, TableSet(t)
  PROVE  MemInv'
<1>1. /\ cur = t /\ call[t].pc = "tset" /\ Busy(t)
      /\ UNCHANGED <<vbits, pte, pde, owner, held, cur, panic>>
  BY DEF TableSet, At, Busy
<1>2. CallView(t) /\ FramesMarked(t)
  BY <1>1, Turn DEF MemInv
<1>3. PICK f \in PoolBits("kernel") : f = call[t].table /\ ~Marked(f)
  BY <1>1, <1>2 DEF CallView
<1>4. f \in Frames /\ PoolOf(f) = "kernel"
  BY <1>3, MemoryAssumption, SMT DEF PoolBits, Frames, PoolOf
<1>5. pool' = [pool EXCEPT ![PoolOf(f)] = bitmap_set(@, BitOf(PoolOf(f), f), TRUE)]
  BY <1>3, <1>4 DEF TableSet
<1>6. /\ DOMAIN pool' = Pools /\ \A p \in Pools : pool'[p] \in [PoolBits(p) -> BOOLEAN]
      /\ \A g \in Frames : Marked(g)' = IF g = f THEN TRUE ELSE Marked(g)
  BY <1>4, <1>5, MarkOne
<1> DEFINE rec == [call[t] EXCEPT !.pc = "tmap"]
<1>7. /\ rec \in Calls /\ rec.pc = "tmap" /\ rec.frame = call[t].frame /\ rec.table = f
      /\ rec.page = call[t].page /\ rec.left = call[t].left /\ rec.run = call[t].run
      /\ call' = [call EXCEPT ![t] = rec]
  BY <1>3, ZenonT(60) DEF MemInv, MemTypeOK, Calls, Mapping, TableSet, Goto
<1> HIDE DEF rec
<1>8. call'[t] = rec
  BY <1>7, CallStep
<1>9. Loose(t)' = Loose(t)
  BY <1>1, <1>7, <1>8 DEF Loose, Mapping
<1>10. FramesMarked(t)'
  <2>1. \A g \in Frames : /\ Taken(t, g)' <=> g = f \/ Taken(t, g)
                          /\ ~GivenUp(t, g) /\ ~GivenUp(t, g)'
    BY <1>1, <1>7, <1>8 DEF Taken, GivenUp
  <2>2. ~Named(f)
    BY <2>1, <1>2, <1>3, <1>4 DEF FramesMarked
  <2>3. QED BY <2>1, <2>2, <1>1, <1>2, <1>6, SameTables DEF FramesMarked
<1>11. CallView(t)'
  <2>1. MapView(t)' /\ FrameView(t)' /\ t \in Procs /\ pde[t][Dir(t)] = None /\ Dir(t)' = Dir(t)
    BY <1>1, <1>2, <1>3, <1>7, <1>8, SameViews DEF CallView, Mapping, Dir
  <2>2. QED BY <2>1, <1>1, <1>3, <1>7, <1>8 DEF CallView, Mapping
<1>12. QED BY <1>1, <1>6, <1>7, <1>9, <1>10, <1>11, PoolInv

LEMMA pfreeInv ==
  ASSUME MemInv, NEW t \in Threads, pfree(t)
  PROVE  MemInv'
<1>1. /\ cur = t /\ call[t].pc = "pfree" /\ Busy(t)
      /\ UNCHANGED <<vbits, pte, pde, owner, held, cur>>
  BY DEF pfree, At, Busy
<1>2. CallView(t) /\ CallRun(t) /\ FramesMarked(t) /\ call[t] \in Calls
  BY <1>1, Turn DEF MemInv, MemTypeOK
<1>2a. FreeView(t) /\ FrameView(t)
  BY <1>1, <1>2 DEF CallView
<1> DEFINE s == Space(t)
           v == call[t].page
<1>3. v \in RunPages(call[t].run) /\ v \in Pages(s) /\ s \in Spaces
  <2>1. call[t].run \in Nat \X Nat /\ v \in Nat /\ call[t].left \in Nat
    BY <1>2 DEF Calls
  <2>2. v \in RunPages(call[t].run) /\ call[t].run[2] > 0
    BY <2>1, <1>2a, SMT DEF FreeView, RunPages
  <2>3. QED BY <2>2, <1>2, SpaceFacts DEF CallRun, RunOf
<1>4. PICK f \in Frames : f = pte[s][v]
  <2>1. pte[s][v] # None
    <3>1. v \in Nat
      BY <1>2 DEF Calls
    <3>2. QED BY <3>1, <1>2a, <1>3, SMT DEF FreeView
  <2>2. pte[s] \in [Pages(s) -> Frames \cup {None}]
    BY <1>3 DEF MemInv, MemTypeOK, TypeOK
  <2>3. QED BY <2>1, <2>2, <1>3
<1>5. f # None /\ PoolOf(f) = PF(t) /\ PoolOf(call[t].frame) = PF(t) /\ Named(f)
  <2>1. f # None
    BY MemoryAssumption, SMT DEF Frames
  <2>2. PoolOf(f) = PF(t)
    BY <2>1, <1>3, <1>4, SpaceFacts DEF MemInv, NamedOnce, PagesInPool
  <2>3. QED BY <2>1, <2>2, <1>2a, <1>3, <1>4 DEF FrameView, Named
<1>6. /\ pool' = [pool EXCEPT ![PoolOf(f)] = bitmap_set(@, BitOf(PoolOf(f), f), FALSE)]
      /\ UNCHANGED panic
  BY <1>4, <1>5 DEF pfree, AssertThat
<1>7. /\ DOMAIN pool' = Pools /\ \A p \in Pools : pool'[p] \in [PoolBits(p) -> BOOLEAN]
      /\ \A g \in Frames : Marked(g)' = IF g = f THEN FALSE ELSE Marked(g)
  BY <1>6, MarkOne
<1> DEFINE rec == [call[t] EXCEPT !.pc = "unmap"]
<1>8. /\ rec \in Calls /\ rec.pc = "unmap" /\ rec.frame = call[t].frame
      /\ rec.page = call[t].page /\ rec.left = call[t].left /\ rec.run = call[t].run
      /\ call' = [call EXCEPT ![t] = rec]
  BY <1>2 DEF MemInv, MemTypeOK, Calls, Mapping, pfree, Goto
<1> HIDE DEF rec
<1>9. call'[t] = rec
  BY <1>8, CallStep
<1>10. Loose(t)' = Loose(t)
  BY <1>1, <1>8, <1>9 DEF Loose, Mapping
<1>11. FramesMarked(t)'
  <2>1. \A g \in Frames : /\ GivenUp(t, g)' <=> g = f
                          /\ ~GivenUp(t, g) /\ ~Taken(t, g) /\ ~Taken(t, g)'
    BY <1>1, <1>4, <1>8, <1>9 DEF Taken, GivenUp
  <2>2. QED BY <2>1, <1>1, <1>2, <1>5, <1>7, SameTables DEF FramesMarked
<1>12. CallView(t)'
  <2>1. FreeView(t)' /\ FrameView(t)'
    BY <1>1, <1>2a, <1>8, <1>9, SameViews
  <2>2. QED BY <2>1, <1>8, <1>9 DEF CallView, Mapping
<1>13. QED BY <1>1, <1>6, <1>7, <1>8, <1>10, <1>11, <1>12, PoolInv

(* The page table of a page of a process. *)
LEMMA DirOf ==
  ASSUME NEW v \in 0 .. UPages - 1
  PROVE  v \div DirSize \in Dirs
<1> DEFINE a == v \div DirSize
           ra == v % DirSize
           n == (UPages - 1) \div DirSize
           rn == (UPages - 1) % DirSize
<1>1. DirSize \in Nat /\ DirSize > 0 /\ UPages \in Nat /\ UPages > 0
  BY MemoryAssumption, SMT
<1>2. /\ a \in Nat /\ ra \in 0 .. DirSize - 1 /\ v = a * DirSize + ra
      /\ n \in Nat /\ rn \in 0 .. DirSize - 1 /\ UPages - 1 = n * DirSize + rn
  BY <1>1, SMT
<1>3. Dirs = 0 .. n
  BY DEF Dirs
<1> HIDE DEF a, ra, n, rn
<1>4. a <= n
  <2>1. SUFFICES ASSUME a >= n + 1 PROVE FALSE
    BY <1>2, SMT
  <2>2. a * DirSize >= n * DirSize + DirSize
    BY <2>1, <1>1, <1>2, SMT
  <2>3. QED BY <2>2, <1>1, <1>2, SMT
<1>5. QED BY <1>2, <1>3, <1>4, SMT DEF a

(* A step of a call that changes the page tables. *)
LEMMA TableInv ==
  ASSUME MemInv, NEW t \in Threads, cur = t, Busy(t), NEW rec \in Calls,
         call' = [call EXCEPT ![t] = rec], rec.run = call[t].run, rec.pc # "start",
         UNCHANGED <<pool, vbits, owner, held, cur, panic>>,
         \A p \in Procs \ {t} : pte'[p][UPages - 1] = pte[p][UPages - 1],
         DOMAIN pte' = Spaces, \A s \in Spaces : pte'[s] \in [Pages(s) -> Frames \cup {None}],
         pde' \in [Procs -> [Dirs -> PoolBits("kernel") \cup {None}]],
         \A u \in Threads : \A r \in held[u] : \A v \in RunPages(r) : pte'[Space(u)][v] # None,
         NamedOnce', FramesMarked(t)', PagesMarked(t)', CallView(t)'
  PROVE  MemInv'
<1>1. /\ call' \in [Threads -> Calls] /\ call'[t] = rec
      /\ \A u \in Threads \ {t} : call'[u] = call[u]
  BY CallStep
<1>2. Alone(t)
  BY Turn
<1>3. MemTypeOK' /\ OneCall'
  BY <1>1, OneCallStep DEF MemInv, MemTypeOK, TypeOK
<1>4. HeldRuns' /\ StackKept'
  <2>1. HeldRuns
    BY DEF MemInv
  <2>2. HeldRuns'
    BY <2>1, SMT DEF HeldRuns, RunOf, RunsApart
  <2>3. QED BY <2>2, <1>1, SameStacks DEF Busy
<1>5. CallRun(t)'
  <2>1. CallRun(t)
    BY DEF MemInv
  <2>2. QED BY <2>1, <1>1 DEF CallRun, RunOf, RunsApart
<1>6. \A u \in Threads : /\ CallView(u)' /\ CallRun(u)'
                         /\ Alone(u)' => FramesMarked(u)' /\ PagesMarked(u)'
  BY <1>1, <1>2, <1>5, OthersRest
<1>7. QED BY <1>3, <1>4, <1>6 DEF MemInv

(* A round of the loop in malloc_page ends: the page is mapped, to a       *)
(* frame that nothing names yet, in a page table that may be new.          *)
MapsPage(t, s, v, f, d, b) ==
  /\ cur = t /\ call[t].pc \in {"map", "tmap"}
  /\ s = Space(t) /\ v = call[t].page /\ f = call[t].frame
  /\ d = call[t].page \div DirSize /\ b = call[t].table
  /\ DOMAIN pte' = Spaces /\ \A r \in Spaces : pte'[r] \in [Pages(r) -> Frames \cup {None}]
  /\ \A r \in Spaces : \A w \in Pages(r) : pte'[r][w] = IF r = s /\ w = v THEN f ELSE pte[r][w]
  /\ pde' \in [Procs -> [Dirs -> PoolBits("kernel") \cup {None}]]
  /\ \A p \in Procs : \A e \in Dirs :
       pde'[p][e] = IF call[t].pc = "tmap" /\ p = t /\ e = d THEN b ELSE pde[p][e]
  /\ t \in Procs => pde'[t][d] # None
  /\ call' = [call EXCEPT ![t] =
                 [call[t] EXCEPT !.page = call[t].page + 1, !.left = call[t].left - 1,
                    !.frame = None, !.table = None,
                    !.pc = IF call[t].left = 1 THEN "rel" ELSE "scan"]]
  /\ UNCHANGED <<pool, vbits, owner, held, cur, panic>>

LEMMA MappedInv ==
  ASSUME MemInv, NEW t \in Threads, NEW s, NEW v, NEW f, NEW d, NEW b,
         MapsPage(t, s, v, f, d, b)
  PROVE  MemInv'
<1>a. /\ cur = t /\ call[t].pc \in {"map", "tmap"}
      /\ s = Space(t) /\ v = call[t].page /\ f = call[t].frame
      /\ d = call[t].page \div DirSize /\ b = call[t].table
  BY DEF MapsPage
<1>b. \A r \in Spaces : \A w \in Pages(r) : pte'[r][w] = IF r = s /\ w = v THEN f ELSE pte[r][w]
  BY DEF MapsPage
<1>c. /\ \A p \in Procs : \A e \in Dirs :
           pde'[p][e] = IF call[t].pc = "tmap" /\ p = t /\ e = d THEN b ELSE pde[p][e]
      /\ t \in Procs => pde'[t][d] # None
  BY DEF MapsPage
<1>d. UNCHANGED <<pool, vbits, owner, held, cur, panic>>
  BY DEF MapsPage
<1>1. Busy(t) /\ call[t].pc \in Mapping
  BY <1>a DEF Busy, Mapping
<1>2. Alone(t)
  BY <1>a, <1>1, Turn
<1>3. CallView(t) /\ FramesMarked(t) /\ PagesMarked(t) /\ NamedOnce /\ call[t] \in Calls
  BY <1>2 DEF MemInv, MemTypeOK
<1>4. MapView(t) /\ FrameView(t)
  BY <1>a, <1>3 DEF CallView, Mapping
<1>5. v \in Nat /\ call[t].left \in Nat /\ call[t].run \in Nat \X Nat /\ call[t].left > 0
  BY <1>a, <1>3, <1>4 DEF Calls, MapView
<1>6. Loose(t) = v .. v + call[t].left - 1 /\ v \in Loose(t)
  BY <1>a, <1>1, <1>5, SMT DEF Loose
<1>7. s \in Spaces /\ v \in Pages(s) /\ pte[s][v] = None
  BY <1>a, <1>3, <1>6, SpaceFacts DEF PagesMarked
<1>8. /\ f \in Frames /\ f # None /\ PoolOf(f) = PF(t) /\ Taken(t, f) /\ ~Named(f)
      /\ call[t].pc = "tmap" =>
           /\ b \in Frames /\ b # None /\ b # f /\ Taken(t, b) /\ ~Named(b) /\ t \in Procs
           /\ d \in Dirs /\ pde[t][d] = None
  <2>1. f \in Frames /\ PoolOf(f) = PF(t) /\ Taken(t, f) /\ ~Named(f) /\ f # None
    <3>1. f \in Frames /\ PoolOf(f) = PF(t)
      BY <1>a, <1>4 DEF FrameView
    <3>2. f # None
      BY <3>1, MemoryAssumption, SMT DEF Frames
    <3>3. Taken(t, f)
      BY <1>a DEF Taken
    <3>4. ~Named(f)
      BY <3>1, <3>3, <1>3 DEF FramesMarked
    <3>5. QED BY <3>1, <3>2, <3>3, <3>4
  <2>2. ASSUME call[t].pc = "tmap"
        PROVE  /\ b \in Frames /\ b # None /\ b # f /\ Taken(t, b) /\ ~Named(b) /\ t \in Procs
               /\ d \in Dirs /\ pde[t][d] = None
    <3>1. b \in PoolBits("kernel") /\ t \in Procs /\ pde[t][d] = None
      BY <2>2, <1>a, <1>3 DEF CallView, Dir
    <3>2. b \in Frames /\ b # None /\ PoolOf(b) = "kernel"
      BY <3>1, MemoryAssumption, SMT DEF PoolBits, Frames, PoolOf
    <3>3. Taken(t, b) /\ ~Named(b)
      BY <2>2, <3>2, <1>a, <1>3 DEF Taken, FramesMarked
    <3>4. b # f
      BY <3>1, <3>2, <2>1 DEF PF
    <3>5. v \in 0 .. UPages - 1
      BY <3>1, <1>a, <1>7, MemoryAssumption DEF Pages, Space
    <3>6. d \in Dirs
      BY <3>5, <1>a, DirOf
    <3>7. QED BY <3>1, <3>2, <3>3, <3>4, <3>6
  <2>3. QED BY <2>1, <2>2
<1> DEFINE rec == [call[t] EXCEPT !.page = call[t].page + 1, !.left = call[t].left - 1,
                     !.frame = None, !.table = None,
                     !.pc = IF call[t].left = 1 THEN "rel" ELSE "scan"]
<1>9. /\ rec \in Calls /\ rec.page = v + 1 /\ rec.left = call[t].left - 1
      /\ rec.run = call[t].run /\ rec.pc = IF call[t].left = 1 THEN "rel" ELSE "scan"
  <2> DEFINE p == IF call[t].left = 1 THEN "rel" ELSE "scan"
             n == call[t].left - 1
  <2>1. p \in {"rel", "scan"} /\ n \in Nat /\ v + 1 \in Nat
    BY <1>5, SMT
  <2> HIDE DEF p, n
  <2>2. rec = [call[t] EXCEPT !.page = v + 1, !.left = n, !.frame = None, !.table = None, !.pc = p]
    BY <1>a DEF p, n
  <2>3. rec \in Calls /\ rec.page = v + 1 /\ rec.left = n /\ rec.run = call[t].run /\ rec.pc = p
    BY <2>1, <2>2, <1>3, ZenonT(60) DEF Calls, Mapping
  <2>4. QED BY <2>3 DEF p, n
<1>10. call' = [call EXCEPT ![t] = rec]
  BY DEF MapsPage
<1> HIDE DEF rec
<1>11. call'[t] = rec
  BY <1>9, <1>10, CallStep
<1>e. /\ pte'[s][v] = f
      /\ \A r \in Spaces : \A w \in Pages(r) : ~(r = s /\ w = v) => pte'[r][w] = pte[r][w]
  BY <1>b, <1>7
<1>f. /\ call[t].pc = "tmap" => t \in Procs /\ d \in Dirs /\ pde'[t][d] = b
      /\ \A p \in Procs : \A e \in Dirs :
           ~(call[t].pc = "tmap" /\ p = t /\ e = d) => pde'[p][e] = pde[p][e]
  BY <1>c, <1>8
<1>12. \A r \in Spaces : \A w \in Pages(r) : pte[r][w] # None => pte'[r][w] = pte[r][w]
  BY <1>e, <1>7
<1>13. FramesMarked(t)'
  <2>1. \A g \in Frames : /\ ~Taken(t, g)' /\ ~GivenUp(t, g) /\ ~GivenUp(t, g)'
                          /\ Marked(g)' = Marked(g)
    BY <1>a, <1>d, <1>9, <1>11 DEF Taken, GivenUp, Marked
  <2>2. ASSUME NEW g \in Frames PROVE Named(g)' <=> Named(g) \/ Taken(t, g)
    <3>1. g # None
      BY MemoryAssumption, SMT DEF Frames
    <3>2. Taken(t, g) <=> g = f \/ (call[t].pc = "tmap" /\ g = b)
      BY <1>a DEF Taken
    <3>3. (\E r \in Spaces : \E w \in Pages(r) : pte'[r][w] = g) <=>
            g = f \/ \E r \in Spaces : \E w \in Pages(r) : pte[r][w] = g
      <4>1. ASSUME NEW r \in Spaces, NEW w \in Pages(r), pte'[r][w] = g
            PROVE  g = f \/ pte[r][w] = g
        BY <4>1, <1>e
      <4>2. ASSUME NEW r \in Spaces, NEW w \in Pages(r), pte[r][w] = g
            PROVE  pte'[r][w] = g
        BY <4>2, <3>1, <1>12
      <4>3. QED BY <4>1, <4>2, <1>e, <1>7
    <3>4. (\E p \in Procs : \E e \in Dirs : pde'[p][e] = g) <=>
            (call[t].pc = "tmap" /\ g = b) \/ \E p \in Procs : \E e \in Dirs : pde[p][e] = g
      BY <3>1, <1>c, <1>8, SMT
    <3>5. QED BY <3>2, <3>3, <3>4 DEF Named
  <2>3. QED BY <2>1, <2>2, <1>3 DEF FramesMarked
<1>14. NamedOnce'
  <2>1. \A r \in Spaces : \A w \in Pages(r) : pte[r][w] # f /\ (call[t].pc = "tmap" => pte[r][w] # b)
    BY <1>8 DEF Named
  <2>2. \A p \in Procs : \A e \in Dirs : pde[p][e] # f /\ (call[t].pc = "tmap" => pde[p][e] # b)
    BY <1>8 DEF Named
  <2>3. \A r, q \in Spaces : \A w \in Pages(r), x \in Pages(q) :
          pte'[r][w] = pte'[q][x] /\ pte'[r][w] # None => r = q /\ w = x
    <3>1. SUFFICES ASSUME NEW r \in Spaces, NEW q \in Spaces, NEW w \in Pages(r), NEW x \in Pages(q),
                          pte'[r][w] = pte'[q][x], pte'[r][w] # None
                   PROVE  r = q /\ w = x
      OBVIOUS
    <3>2. CASE r = s /\ w = v
      BY <3>1, <3>2, <2>1, <1>e, SMT
    <3>3. CASE q = s /\ x = v
      BY <3>1, <3>3, <2>1, <1>e, SMT
    <3>4. CASE ~(r = s /\ w = v) /\ ~(q = s /\ x = v)
      <4>1. pte[r][w] = pte[q][x] /\ pte[r][w] # None
        BY <3>1, <3>4, <1>e
      <4>2. QED BY <4>1, <1>3 DEF NamedOnce, PagesOnce
    <3>5. QED BY <3>2, <3>3, <3>4
  <2>4. \A p, q \in Procs : \A e, x \in Dirs :
          pde'[p][e] = pde'[q][x] /\ pde'[p][e] # None => p = q /\ e = x
    <3>1. SUFFICES ASSUME NEW p \in Procs, NEW q \in Procs, NEW e \in Dirs, NEW x \in Dirs,
                          pde'[p][e] = pde'[q][x], pde'[p][e] # None
                   PROVE  p = q /\ e = x
      BY SMT
    <3>2. CASE call[t].pc = "tmap" /\ p = t /\ e = d
      BY <3>1, <3>2, <2>2, <1>f
    <3>3. CASE call[t].pc = "tmap" /\ q = t /\ x = d
      BY <3>1, <3>3, <2>2, <1>f, SMT
    <3>4. CASE ~(call[t].pc = "tmap" /\ p = t /\ e = d) /\ ~(call[t].pc = "tmap" /\ q = t /\ x = d)
      <4>1. pde[p][e] = pde[q][x] /\ pde[p][e] # None
        BY <3>1, <3>4, <1>f
      <4>2. QED BY <4>1, <1>3, SMT DEF NamedOnce, TablesOnce
    <3>5. QED BY <3>2, <3>3, <3>4
  <2>5. \A r \in Spaces : \A w \in Pages(r) : \A p \in Procs : \A e \in Dirs :
          pte'[r][w] = pde'[p][e] => pte'[r][w] = None
    <3>1. SUFFICES ASSUME NEW r \in Spaces, NEW w \in Pages(r), NEW p \in Procs, NEW e \in Dirs,
                          pte'[r][w] = pde'[p][e]
                   PROVE  pte'[r][w] = None
      OBVIOUS
    <3>2. CASE r = s /\ w = v
      <4>1. pde'[p][e] # f
        BY <2>2, <1>f, <1>8
      <4>2. QED BY <4>1, <3>1, <3>2, <1>e
    <3>3. CASE ~(r = s /\ w = v)
      <4>1. pte'[r][w] = pte[r][w]
        BY <3>3, <1>e
      <4>2. pde'[p][e] = pde[p][e]
        BY <4>1, <3>1, <2>1, <1>f
      <4>3. QED BY <4>1, <4>2, <3>1, <1>3 DEF NamedOnce, PagesNotTables
    <3>4. QED BY <3>2, <3>3
  <2>6. ASSUME NEW r \in Spaces, NEW w \in Pages(r), pte'[r][w] # None
        PROVE  /\ PoolOf(pte'[r][w]) = IF r = "kernel" THEN "kernel" ELSE "user"
               /\ r # "kernel" => pde'[r][w \div DirSize] # None
    <3>1. CASE r = s /\ w = v
      BY <3>1, <1>a, <1>b, <1>c, <1>7, <1>8, SpaceFacts DEF Space
    <3>2. CASE ~(r = s /\ w = v)
      <4>1. /\ pte'[r][w] = pte[r][w]
            /\ PoolOf(pte[r][w]) = IF r = "kernel" THEN "kernel" ELSE "user"
            /\ r # "kernel" => pde[r][w \div DirSize] # None
        <5>1. pte'[r][w] = pte[r][w]
          BY <3>2, <1>e
        <5>2. QED BY <5>1, <2>6, <1>3 DEF NamedOnce, PagesInPool
      <4>2. r # "kernel" => r \in Procs /\ w \div DirSize \in Dirs
        BY DirOf DEF Spaces, Pages
      <4>3. QED BY <4>1, <4>2, <1>a, <1>c, <1>8
    <3>3. QED BY <3>1, <3>2
  <2>7. QED BY <2>3, <2>4, <2>5, <2>6 DEF NamedOnce, PagesOnce, TablesOnce, PagesNotTables, PagesInPool
<1>15. PagesMarked(t)'
  <2>1. Loose(t)' = Loose(t) \ {v}
    <3>1. CASE call[t].left = 1
      <4>1. Loose(t)' = {}
        BY <3>1, <1>9, <1>11 DEF Loose, Mapping
      <4>2. Loose(t) = {v}
        BY <3>1, <1>5, <1>6, SMT
      <4>3. QED BY <4>1, <4>2
    <3>2. CASE call[t].left # 1
      <4>1. Loose(t)' = v + 1 .. (v + 1) + (call[t].left - 1) - 1
        BY <3>2, <1>9, <1>11 DEF Loose, Mapping
      <4>2. QED BY <4>1, <1>5, <1>6, SMTT(30)
    <3>3. QED BY <3>1, <3>2
  <2>2. ASSUME NEW r \in Spaces, NEW w \in Pages(r)
        PROVE  vbits[r][w] <=> pte'[r][w] # None \/ (r = s /\ w \in Loose(t)')
    <3>1. vbits[r][w] <=> pte[r][w] # None \/ (r = s /\ w \in Loose(t))
      BY <1>a, <1>3 DEF PagesMarked
    <3>2. CASE r = s /\ w = v
      BY <3>1, <3>2, <1>e, <1>6, <1>8
    <3>3. CASE ~(r = s /\ w = v)
      BY <3>1, <3>3, <2>1, <1>e
    <3>4. QED BY <3>2, <3>3
  <2>3. \A w \in Loose(t)' : w \in Pages(s) /\ pte'[s][w] = None
    BY <2>1, <1>a, <1>e, <1>3, <1>7, SMT DEF PagesMarked
  <2>4. QED BY <2>2, <2>3, <1>a, <1>d DEF PagesMarked
<1>16. CallView(t)'
  <2>1. \A w \in RunPages(call[t].run) : w < v + 1 => pte'[s][w] # None
    <3>1. SUFFICES ASSUME NEW w \in RunPages(call[t].run), w < v + 1 PROVE pte'[s][w] # None
      OBVIOUS
    <3>2. w \in Pages(s)
      <4>1. call[t].run[2] > 0
        BY <3>1, <1>5, SMT DEF RunPages
      <4>2. CallRun(t)
        BY DEF MemInv
      <4>3. QED BY <4>1, <4>2, <3>1, <1>a DEF CallRun, RunOf
    <3>3. CASE w = v
      BY <3>3, <3>2, <1>b, <1>7, <1>8
    <3>4. CASE w # v
      <4>1. w < v
        <5>1. w \in Int
          BY <3>1, <1>5, SMT DEF RunPages
        <5>2. QED BY <5>1, <3>1, <3>4, <1>5, SMT
      <4>2. pte[s][w] # None
        BY <4>1, <3>1, <1>a, <1>4 DEF MapView
      <4>3. QED BY <4>2, <3>2, <1>7, <1>12
    <3>5. QED BY <3>3, <3>4
  <2>2. CASE call[t].left = 1
    <3>1. \A w \in RunPages(call[t].run) : w < v + 1
      BY <2>2, <1>a, <1>4, <1>5, SMT DEF MapView, RunPages
    <3>2. QED BY <3>1, <2>1, <2>2, <1>a, <1>9, <1>11 DEF CallView, Mapping
  <2>3. CASE call[t].left # 1
    <3>1. MapView(t)'
      <4>1. /\ call[t].run[2] > 0 /\ call[t].run[1] <= v
            /\ v + call[t].left = call[t].run[1] + call[t].run[2]
        BY <2>3, <1>a, <1>4 DEF MapView
      <4>2. /\ call[t].run[1] <= v + 1 /\ call[t].left - 1 > 0
            /\ (v + 1) + (call[t].left - 1) = call[t].run[1] + call[t].run[2]
        <5>1. /\ call[t].run[1] \in Nat /\ call[t].run[2] \in Nat
              /\ v \in Nat /\ call[t].left \in Nat /\ call[t].left > 0
          BY <1>5
        <5>2. QED BY <5>1, <4>1, <2>3, SMT
      <4>3. QED BY <4>1, <4>2, <2>1, <1>a, <1>9, <1>11 DEF MapView
    <3>2. QED BY <3>1, <2>3, <1>9, <1>11 DEF CallView, Mapping
  <2>4. QED BY <2>2, <2>3
<1>17. \A u \in Threads : \A r \in held[u] : \A w \in RunPages(r) : pte'[Space(u)][w] # None
  <2>1. HeldRuns
    BY DEF MemInv
  <2>2. QED BY <2>1, <1>12, SpaceFacts DEF HeldRuns, RunOf
<1>17a. \A p \in Procs \ {t} : pte'[p][UPages - 1] = pte[p][UPages - 1]
  BY <1>a, <1>b, StackPage DEF Space
<1>18. QED BY <1>17a, <1>a, <1>d, <1>1, <1>9, <1>10, <1>13, <1>14, <1>15, <1>16, <1>17, TableInv DEF MapsPage

LEMMA page_table_addInv ==
  ASSUME MemInv, NEW t \in Threads, page_table_add(t)
  PROVE  MemInv'
<1>1. cur = t /\ call[t].pc = "map" /\ Busy(t) /\ UNCHANGED <<pool, vbits, pde, owner, held, cur>>
  BY DEF page_table_add, At, Busy
<1>2. CallView(t) /\ PagesMarked(t) /\ call[t] \in Calls
  BY <1>1, Turn DEF MemInv, MemTypeOK
<1>3. MapView(t) /\ FrameView(t)
  BY <1>1, <1>2 DEF CallView, Mapping
<1>4. CASE HasTable(t)
  <2> DEFINE s == Space(t)
             v == call[t].page
             f == call[t].frame
  <2>1. v \in Nat /\ call[t].left \in Nat /\ call[t].left > 0
    BY <1>2, <1>3 DEF Calls, MapView
  <2>2. v \in Loose(t)
    BY <2>1, <1>1, SMT DEF Loose, Mapping
  <2>3. s \in Spaces /\ v \in Pages(s) /\ pte[s][v] = None
    BY <2>2, <1>2, SpaceFacts DEF PagesMarked
  <2>4. pte' = [pte EXCEPT ![s][v] = f] /\ panic' = panic
    BY <2>3, <1>4 DEF page_table_add, Map, AssertThat
  <2>5. f \in Frames
    BY <1>3 DEF FrameView
  <2> HIDE DEF s, v, f
  <2>6. /\ DOMAIN pte = Spaces /\ \A r \in Spaces : pte[r] \in [Pages(r) -> Frames \cup {None}]
        /\ pde \in [Procs -> [Dirs -> PoolBits("kernel") \cup {None}]]
    BY DEF MemInv, MemTypeOK, TypeOK
  <2>7. /\ DOMAIN pte' = Spaces /\ \A r \in Spaces : pte'[r] \in [Pages(r) -> Frames \cup {None}]
        /\ \A r \in Spaces : \A w \in Pages(r) : pte'[r][w] = IF r = s /\ w = v THEN f ELSE pte[r][w]
    BY <2>3, <2>4, <2>5, <2>6
  <2>8. t \in Procs => pde[t][call[t].page \div DirSize] # None
    BY <1>4, MemoryAssumption DEF HasTable, Dir
  <2>9. call' = [call EXCEPT ![t] =
                 [call[t] EXCEPT !.page = call[t].page + 1, !.left = call[t].left - 1,
                    !.frame = None, !.table = None,
                    !.pc = IF call[t].left = 1 THEN "rel" ELSE "scan"]]
    BY <1>4 DEF page_table_add, Map
  <2>10. MapsPage(t, s, v, f, call[t].page \div DirSize, call[t].table)
    BY <1>1, <2>4, <2>6, <2>7, <2>8, <2>9 DEF MapsPage, s, v, f
  <2>11. QED BY <2>10, MappedInv
<1>5. CASE ~HasTable(t)
  <2> DEFINE rec == [call[t] EXCEPT !.pc = "table"]
  <2>1. call' = [call EXCEPT ![t] = rec] /\ UNCHANGED <<pte, panic>>
    BY <1>5 DEF page_table_add, Goto, MemInv, MemTypeOK
  <2>2. /\ rec \in Calls /\ rec.pc = "table" /\ rec.frame = call[t].frame
        /\ rec.page = call[t].page /\ rec.left = call[t].left /\ rec.run = call[t].run
    BY <1>2 DEF Calls, Mapping
  <2> HIDE DEF rec
  <2>3. call'[t] = rec
    BY <2>1, <2>2, CallStep
  <2>4. Loose(t)' = Loose(t)
    BY <1>1, <2>2, <2>3 DEF Loose, Mapping
  <2>5. \A g \in Frames : (Taken(t, g)' <=> Taken(t, g)) /\ (GivenUp(t, g)' <=> GivenUp(t, g))
    BY <1>1, <2>2, <2>3 DEF Taken, GivenUp
  <2>6. CallView(t)'
    <3>1. MapView(t)' /\ FrameView(t)'
      BY <1>3, <2>1, <2>2, <2>3, SameViews
    <3>2. t \in Procs /\ pde[t][Dir(t)] = None /\ Dir(t)' = Dir(t)
      BY <1>5, <2>2, <2>3 DEF HasTable, Dir, Threads
    <3>3. QED BY <3>1, <3>2, <1>1, <2>2, <2>3 DEF CallView, Mapping
  <2>7. QED BY <1>1, <2>1, <2>2, <2>4, <2>5, <2>6, MoveInv
<1>6. QED BY <1>4, <1>5

LEMMA NewTableInv ==
  ASSUME MemInv, NEW t \in Threads, NewTable(t)
  PROVE  MemInv'
<1>1. cur = t /\ call[t].pc = "tmap" /\ Busy(t) /\ UNCHANGED <<pool, vbits, owner, held, cur>>
  BY DEF NewTable, At, Busy
<1>2. CallView(t) /\ PagesMarked(t) /\ NamedOnce /\ call[t] \in Calls
  BY <1>1, Turn DEF MemInv, MemTypeOK
<1>3. /\ MapView(t) /\ FrameView(t) /\ t \in Procs /\ pde[t][Dir(t)] = None
      /\ call[t].table \in PoolBits("kernel")
  BY <1>1, <1>2 DEF CallView, Mapping
<1> DEFINE v == call[t].page
           f == call[t].frame
           d == call[t].page \div DirSize
           mapped == [pte EXCEPT ![t] =
                        [w \in Pages(t) |-> IF w \div DirSize = Dir(t) THEN None ELSE @[w]]]
<1>4. v \in Nat /\ call[t].left \in Nat /\ call[t].left > 0 /\ Space(t) = t /\ t \in Spaces /\ t # "kernel"
  BY <1>2, <1>3, MemoryAssumption DEF Calls, MapView, Space, Spaces
<1>5. v \in Pages(t) /\ pte[t][v] = None
  <2>1. v \in Loose(t)
    BY <1>1, <1>4, SMT DEF Loose, Mapping
  <2>2. QED BY <2>1, <1>2, <1>4 DEF PagesMarked
<1>6. /\ DOMAIN pte = Spaces /\ \A r \in Spaces : pte[r] \in [Pages(r) -> Frames \cup {None}]
      /\ pde \in [Procs -> [Dirs -> PoolBits("kernel") \cup {None}]]
  BY DEF MemInv, MemTypeOK, TypeOK
<1>7. /\ DOMAIN mapped = Spaces
      /\ \A r \in Spaces : /\ mapped[r] \in [Pages(r) -> Frames \cup {None}]
                            /\ \A w \in Pages(r) : mapped[r][w] = pte[r][w]
  <2>1. \A w \in Pages(t) : w \div DirSize = Dir(t) => pte[t][w] = None
    BY <1>2, <1>3, <1>4 DEF NamedOnce, PagesInPool
  <2>2. mapped[t] = [w \in Pages(t) |-> IF w \div DirSize = Dir(t) THEN None ELSE pte[t][w]]
    BY <1>4, <1>6
  <2>3. /\ mapped[t] \in [Pages(t) -> Frames \cup {None}]
        /\ \A w \in Pages(t) : mapped[t][w] = pte[t][w]
    BY <2>1, <2>2, <1>4, <1>6
  <2>4. DOMAIN mapped = Spaces /\ \A r \in Spaces \ {t} : mapped[r] = pte[r]
    BY <1>6
  <2> HIDE DEF mapped
  <2>5. QED BY <2>3, <2>4, <1>6
<1>8. /\ pte' = [mapped EXCEPT ![t][v] = f] /\ panic' = IF mapped[t][v] = None THEN panic ELSE "assert"
      /\ pde' = [pde EXCEPT ![t][d] = call[t].table]
      /\ call' = [call EXCEPT ![t] =
                 [call[t] EXCEPT !.page = call[t].page + 1, !.left = call[t].left - 1,
                    !.frame = None, !.table = None,
                    !.pc = IF call[t].left = 1 THEN "rel" ELSE "scan"]]
  BY <1>4 DEF NewTable, Map, AssertThat, Dir
<1> HIDE DEF mapped
<1>9. f \in Frames /\ UNCHANGED panic
  BY <1>3, <1>4, <1>5, <1>7, <1>8 DEF FrameView
<1>10. d \in Dirs
  BY <1>4, <1>5, DirOf DEF Pages
<1> HIDE DEF v, f, d
<1>11. /\ DOMAIN pte' = Spaces /\ \A r \in Spaces : pte'[r] \in [Pages(r) -> Frames \cup {None}]
       /\ \A r \in Spaces : \A w \in Pages(r) : pte'[r][w] = IF r = t /\ w = v THEN f ELSE pte[r][w]
  BY <1>4, <1>5, <1>7, <1>8, <1>9, SMT
<1>12. /\ pde' \in [Procs -> [Dirs -> PoolBits("kernel") \cup {None}]]
       /\ \A p \in Procs : \A e \in Dirs :
            pde'[p][e] = IF p = t /\ e = d THEN call[t].table ELSE pde[p][e]
       /\ pde'[t][d] # None
  <2>1. call[t].table # None
    BY <1>3, MemoryAssumption, SMTT(30) DEF PoolBits
  <2>2. QED BY <2>1, <1>3, <1>6, <1>8, <1>10
<1>13. MapsPage(t, t, v, f, d, call[t].table)
  BY <1>1, <1>4, <1>8, <1>9, <1>11, <1>12, SMT DEF MapsPage, v, f, d
<1>14. QED BY <1>13, MappedInv

-----------------------------------------------------------------------------
(* The start, the release of a run, and thread switches.                   *)

LEMMA InitInv ==
  ASSUME Init
  PROVE  MemInv
<1>1. \A p : Idle(p).pc = p /\ Idle(p).run = <<0, 0>> /\ (p \in {"start", "out"} => Idle(p) \in Calls)
  BY DEF Idle, Calls
<1>2. \A t \in Threads : /\ call[t] = Idle(call[t].pc) /\ call[t].pc \in {"start", "out"}
                         /\ call[t].pc = "start" <=> t \in Procs
                         /\ call[t] \in Calls /\ call[t].run = <<0, 0>> /\ held[t] = {}
  BY <1>1, SMT DEF Init
<1>3. /\ \A s \in Spaces : \A v \in Pages(s) : pte[s][v] = None /\ vbits[s][v] = FALSE
      /\ \A p \in Procs : \A d \in Dirs : pde[p][d] = None
      /\ \A p \in Pools : \A i \in PoolBits(p) : pool[p][i] = FALSE
  BY DEF Init
<1>4. MemTypeOK
  <2>1. call \in [Threads -> Calls] /\ held \in [Threads -> SUBSET (Nat \X Nat)]
    BY <1>1 DEF Init
  <2>2. QED BY <2>1 DEF Init, MemTypeOK, TypeOK
<1>5. OneCall /\ NamedOnce
  BY <1>2, <1>3 DEF OneCall, Busy, NamedOnce, PagesOnce, TablesOnce, PagesNotTables, PagesInPool
<1>6. HeldRuns
  BY <1>2 DEF HeldRuns
<1>7. StackKept
  BY <1>2, <1>3, StackPage DEF StackKept
<1>8. ASSUME NEW t \in Threads
      PROVE  CallView(t) /\ CallRun(t) /\ FramesMarked(t) /\ PagesMarked(t)
  <2>1. CallView(t) /\ CallRun(t)
    BY <1>2, SMT DEF CallView, CallRun, Mapping
  <2>2. PagesMarked(t)
    BY <1>2, <1>3 DEF PagesMarked, Loose, Mapping
  <2>3. ASSUME NEW f \in Frames PROVE ~Marked(f) /\ ~Named(f) /\ ~Taken(t, f)
    <3>1. f # None
      BY MemoryAssumption, SMT DEF Frames
    <3>2. PoolOf(f) \in Pools /\ BitOf(PoolOf(f), f) \in PoolBits(PoolOf(f))
      BY MemoryAssumption, SMT DEF Frames, PoolOf, Pools, BitOf, PoolBits, phy_addr_start
    <3>3. QED BY <3>1, <3>2, <1>2, <1>3, SMT DEF Marked, Named, Taken
  <2>4. QED BY <2>1, <2>2, <2>3 DEF FramesMarked
<1>9. QED BY <1>4, <1>5, <1>6, <1>7, <1>8 DEF MemInv, Init

(* The scheduler takes another thread, of the same kind. *)
LEMMA SwitchInv ==
  ASSUME NoMixing, MemInv, NEW t \in Threads, Switch(t)
  PROVE  MemInv'
<1>1. cur' = t /\ UNCHANGED <<pool, vbits, pte, pde, owner, call, held, panic>>
  BY DEF Switch
<1>2. cur \in Procs <=> t \in Procs
  BY MemoryAssumption DEF Switch, NoMixing
<1>3. OneCall'
  BY <1>1, <1>2 DEF MemInv, OneCall, Busy
<1>4. MemTypeOK'
  BY <1>1 DEF MemInv, MemTypeOK, TypeOK
<1>5. QED BY <1>1, <1>3, <1>4, QuietInv DEF MemInv

(* A step that changes the bitmap of a space, at the start of a call or at *)
(* its end: no frame is on its way.                                        *)
VbitsStep(t) ==
  /\ call' \in [Threads -> Calls] /\ \A u \in Threads \ {t} : call'[u] = call[u]
  /\ {call[t].pc, call'[t].pc} \subseteq {"start", "out", "vaddr", "scan", "vfree", "rel"}
  /\ UNCHANGED <<pool, pte, pde, held, cur, panic>>
  /\ owner' \in [Pools -> Threads \cup {None}]
  /\ DOMAIN vbits' = Spaces /\ \A s \in Spaces : vbits'[s] \in [Pages(s) -> BOOLEAN]
  /\ \A u \in Threads : \A r \in held[u] : \A v \in RunPages(r) : vbits'[Space(u)][v]

LEMMA VbitsInv ==
  ASSUME MemInv, NEW t \in Threads, Alone(t), VbitsStep(t), OneCall', StackKept',
         PagesMarked(t)', CallView(t)', CallRun(t)'
  PROVE  MemInv'
<1>1. /\ call' \in [Threads -> Calls] /\ \A u \in Threads \ {t} : call'[u] = call[u]
      /\ UNCHANGED <<pool, pte, pde, held, cur, panic>>
  BY DEF VbitsStep
<1>2. MemTypeOK'
  BY DEF VbitsStep, MemInv, MemTypeOK, TypeOK
<1>3. NamedOnce' /\ \A f : Named(f)' <=> Named(f)
  BY <1>1, SameTables
<1>4. FramesMarked(t)'
  <2>1. FramesMarked(t) /\ \A f : Marked(f)' = Marked(f)
    BY <1>1 DEF MemInv, Marked
  <2>2. \A f \in Frames : ~Taken(t, f) /\ ~Taken(t, f)' /\ ~GivenUp(t, f) /\ ~GivenUp(t, f)'
    BY DEF VbitsStep, Taken, GivenUp
  <2>3. QED BY <2>1, <2>2, <1>3 DEF FramesMarked
<1>5. HeldRuns'
  <2>1. HeldRuns /\ \A u \in Threads : \A r \in held[u] : \A v \in RunPages(r) : vbits'[Space(u)][v]
    BY DEF MemInv, VbitsStep
  <2>2. QED BY <2>1, <1>1 DEF HeldRuns, RunOf, RunsApart
<1>6. \A u \in Threads : /\ CallView(u)' /\ CallRun(u)'
                         /\ Alone(u)' => FramesMarked(u)' /\ PagesMarked(u)'
  BY <1>1, <1>4, OthersRest
<1>7. QED BY <1>1, <1>2, <1>3, <1>5, <1>6 DEF MemInv

LEMMA get_a_pageInv ==
  ASSUME MemInv, NEW t \in Threads, get_a_page(t)
  PROVE  MemInv'
<1>1. /\ cur = t /\ call[t].pc = "start" /\ ~Busy(t) /\ Lock(t)
      /\ UNCHANGED <<pool, pte, pde, held, cur, panic>>
  BY DEF get_a_page, At, Busy
<1>2. Alone(t)
  BY <1>1, Turn DEF Lock
<1>3. CallView(t) /\ PagesMarked(t) /\ call[t] \in Calls
  BY <1>2 DEF MemInv, MemTypeOK
<1>4. /\ t \in Procs /\ held[t] = {} /\ call[t].run = <<0, 0>> /\ Loose(t) = {}
      /\ Space(t) = t /\ t \in Spaces /\ t # "kernel"
  BY <1>1, <1>3, Resting, MemoryAssumption DEF CallView, Space, Spaces
<1> DEFINE v == UPages - 1
           rec == [call[t] EXCEPT !.pc = "scan", !.page = v, !.left = 1]
<1>5. v \in Nat /\ v \in Pages(t)
  BY <1>4, MemoryAssumption, SMT DEF Pages
<1>6. call' = [call EXCEPT ![t] = rec] /\ vbits' = [vbits EXCEPT ![t][v] = TRUE]
  BY DEF get_a_page
<1> HIDE DEF v
<1>7. rec \in Calls /\ rec.pc = "scan" /\ rec.page = v /\ rec.left = 1 /\ rec.run = <<0, 0>>
  BY <1>3, <1>4, <1>5 DEF Calls, Mapping
<1> HIDE DEF rec
<1>8. /\ call' \in [Threads -> Calls] /\ call'[t] = rec
      /\ \A u \in Threads \ {t} : call'[u] = call[u]
  BY <1>6, <1>7, CallStep
<1>9. /\ DOMAIN vbits' = Spaces /\ \A s \in Spaces : vbits'[s] \in [Pages(s) -> BOOLEAN]
      /\ \A s \in Spaces : \A w \in Pages(s) : vbits'[s][w] = IF s = t /\ w = v THEN TRUE ELSE vbits[s][w]
  BY <1>4, <1>5, <1>6 DEF MemInv, MemTypeOK, TypeOK
<1>10. VbitsStep(t)
  <2>1. owner' \in [Pools -> Threads \cup {None}]
    BY <1>1, SpaceFacts DEF Lock, MemInv, MemTypeOK, TypeOK
  <2>2. ASSUME NEW u \in Threads, NEW r \in held[u], NEW w \in RunPages(r) PROVE vbits'[Space(u)][w]
    <3>1. Space(u) \in Spaces /\ w \in Pages(Space(u)) /\ vbits[Space(u)][w]
      BY SpaceFacts DEF MemInv, HeldRuns, RunOf
    <3>2. QED BY <3>1, <1>9
  <2>3. QED BY <2>1, <2>2, <1>1, <1>7, <1>8, <1>9 DEF VbitsStep
<1>11. OneCall'
  BY <1>1, <1>8, OneCallLock
<1>12. StackKept'
  <2>1. SUFFICES ASSUME NEW p \in Procs
                 PROVE  IF call'[p].pc = "start" THEN pte[p][v] = None ELSE vbits'[p][v]
    BY <1>1 DEF StackKept, v
  <2>2. p \in Spaces /\ v \in Pages(p) /\ p \in Threads
    BY StackPage DEF v
  <2>3. CASE p = t
    BY <2>2, <2>3, <1>7, <1>8, <1>9
  <2>4. CASE p # t
    <3>1. IF call[p].pc = "start" THEN pte[p][v] = None ELSE vbits[p][v]
      BY DEF MemInv, StackKept, v
    <3>2. QED BY <3>1, <2>2, <2>4, <1>8, <1>9
  <2>5. QED BY <2>3, <2>4
<1>13. PagesMarked(t)'
  <2>1. Loose(t)' = {v}
    BY <1>5, <1>7, <1>8, SMT DEF Loose, Mapping
  <2>2. pte[t][v] = None
    BY <1>1, <1>4 DEF MemInv, StackKept, v
  <2>3. ASSUME NEW s \in Spaces, NEW w \in Pages(s)
        PROVE  vbits'[s][w] <=> pte[s][w] # None \/ (s = t /\ w = v)
    <3>1. vbits[s][w] <=> pte[s][w] # None
      BY <1>3, <1>4 DEF PagesMarked
    <3>2. QED BY <3>1, <1>9
  <2>4. QED BY <2>1, <2>2, <2>3, <1>1, <1>4, <1>5 DEF PagesMarked
<1>14. CallView(t)' /\ CallRun(t)'
  <2>1. RunPages(<<0, 0>>) = {}
    BY SMTT(30) DEF RunPages
  <2>2. MapView(t)'
    BY <2>1, <1>4, <1>7, <1>8, SMT DEF MapView, v
  <2>3. CallView(t)'
    BY <2>2, <1>7, <1>8 DEF CallView, Mapping
  <2>4. CallRun(t)'
    BY <1>7, <1>8, SMTT(30) DEF CallRun
  <2>5. QED BY <2>3, <2>4
<1>15. QED BY <1>2, <1>10, <1>11, <1>12, <1>13, <1>14, VbitsInv

LEMMA vaddr_removeInv ==
  ASSUME MemInv, NEW t \in Threads, vaddr_remove(t)
  PROVE  MemInv'
<1>1. /\ cur = t /\ call[t].pc = "vfree" /\ Busy(t)
      /\ UNCHANGED <<pool, pte, pde, owner, held, cur, panic>>
  BY DEF vaddr_remove, At, Busy
<1>2. Alone(t)
  BY <1>1, Turn
<1>3. CallView(t) /\ CallRun(t) /\ PagesMarked(t) /\ HeldRuns /\ call[t] \in Calls
  BY <1>2 DEF MemInv, MemTypeOK
<1>4. PICK s, i, n : s = Space(t) /\ i = call[t].run[1] /\ n = call[t].run[2]
  OBVIOUS
<1>5. i \in Nat /\ n \in Nat /\ call[t].run = <<i, n>> /\ s \in Spaces
  BY <1>3, <1>4, SpaceFacts, SMT DEF Calls
<1>6. n > 0
  BY <1>1, <1>3, <1>4 DEF CallView
<1>7. RunPages(call[t].run) = i .. i + n - 1 /\ Loose(t) = i .. i + n - 1
  BY <1>1, <1>4 DEF RunPages, Loose, Mapping
<1>8. RunOf(t, call[t].run) /\ \A u \in Threads : \A q \in held[u] : RunsApart(t, call[t].run, u, q)
  BY <1>3, <1>4, <1>6 DEF CallRun
<1> DEFINE rec == [call[t] EXCEPT !.pc = "rel", !.run = <<0, 0>>]
<1>9. call' = [call EXCEPT ![t] = rec] /\ vbits' = [vbits EXCEPT ![s] = SetRun(vbits[s], i, n, FALSE)]
  BY <1>3, <1>4 DEF vaddr_remove, MemInv, MemTypeOK, Calls
<1>10. rec \in Calls /\ rec.pc = "rel" /\ rec.run = <<0, 0>>
  BY <1>3 DEF Calls
<1> HIDE DEF rec
<1>11. /\ call' \in [Threads -> Calls] /\ call'[t] = rec
       /\ \A u \in Threads \ {t} : call'[u] = call[u]
  BY <1>9, <1>10, CallStep
<1>12. /\ DOMAIN vbits' = Spaces /\ \A r \in Spaces : vbits'[r] \in [Pages(r) -> BOOLEAN]
       /\ \A r \in Spaces : \A w \in Pages(r) :
            vbits'[r][w] = IF r = s /\ w \in i .. i + n - 1 THEN FALSE ELSE vbits[r][w]
  <2>1. PICK a : a = SetRun(vbits[s], i, n, FALSE)
    OBVIOUS
  <2>2. DOMAIN vbits = Spaces /\ \A r \in Spaces : vbits[r] \in [Pages(r) -> BOOLEAN]
    BY DEF MemInv, MemTypeOK, TypeOK
  <2>3. /\ a \in [Pages(s) -> BOOLEAN]
        /\ \A w \in Pages(s) : a[w] = IF w \in i .. i + n - 1 THEN FALSE ELSE vbits[s][w]
    BY <2>1, <2>2, <1>5 DEF SetRun
  <2>4. vbits' = [vbits EXCEPT ![s] = a]
    BY <2>1, <1>9
  <2>5. QED BY <2>2, <2>3, <2>4, <1>5
<1>13. VbitsStep(t)
  <2>1. owner' \in [Pools -> Threads \cup {None}]
    BY <1>1 DEF MemInv, MemTypeOK, TypeOK
  <2>2. ASSUME NEW u \in Threads, NEW r \in held[u], NEW w \in RunPages(r) PROVE vbits'[Space(u)][w]
    <3>1. Space(u) \in Spaces /\ w \in Pages(Space(u)) /\ vbits[Space(u)][w]
      BY <1>3, SpaceFacts DEF HeldRuns, RunOf
    <3>2. ~(Space(u) = s /\ w \in i .. i + n - 1)
      BY <1>4, <1>7, <1>8 DEF RunsApart
    <3>3. QED BY <3>1, <3>2, <1>12
  <2>3. QED BY <2>1, <2>2, <1>1, <1>10, <1>11, <1>12 DEF VbitsStep
<1>14. OneCall'
  BY <1>1, <1>11, OneCallStep
<1>15. StackKept'
  <2>1. SUFFICES ASSUME NEW p \in Procs
                 PROVE  IF call'[p].pc = "start" THEN pte[p][UPages - 1] = None
                                                 ELSE vbits'[p][UPages - 1]
    BY <1>1 DEF StackKept
  <2>2. p \in Spaces /\ UPages - 1 \in Pages(p) /\ p \in Threads /\ p # "kernel" /\ Space(p) = p
    BY StackPage
  <2>3. ~(p = s /\ UPages - 1 \in i .. i + n - 1)
    <3>1. t \in Procs => UPages - 1 \notin i .. i + n - 1
      BY <1>7, <1>8 DEF RunOf
    <3>2. QED BY <3>1, <2>2, <1>4 DEF Space
  <2>4. call'[p].pc = "start" <=> call[p].pc = "start"
    BY <2>2, <1>1, <1>10, <1>11
  <2>5. IF call[p].pc = "start" THEN pte[p][UPages - 1] = None ELSE vbits[p][UPages - 1]
    BY DEF MemInv, StackKept
  <2>6. QED BY <2>2, <2>3, <2>4, <2>5, <1>12
<1>16. PagesMarked(t)'
  <2>1. Loose(t)' = {}
    BY <1>10, <1>11 DEF Loose, Mapping
  <2>2. ASSUME NEW r \in Spaces, NEW w \in Pages(r) PROVE vbits'[r][w] <=> pte[r][w] # None
    <3>1. vbits[r][w] <=> pte[r][w] # None \/ (r = s /\ w \in i .. i + n - 1)
      BY <1>3, <1>4, <1>7 DEF PagesMarked
    <3>2. r = s /\ w \in i .. i + n - 1 => pte[r][w] = None
      BY <1>3, <1>4, <1>7 DEF PagesMarked
    <3>3. QED BY <3>1, <3>2, <1>12
  <2>3. QED BY <2>1, <2>2, <1>1 DEF PagesMarked
<1>17. CallView(t)' /\ CallRun(t)'
  <2>1. RunPages(<<0, 0>>) = {}
    BY SMT DEF RunPages
  <2>2. CallView(t)'
    BY <2>1, <1>10, <1>11 DEF CallView, Mapping
  <2>3. CallRun(t)'
    BY <1>10, <1>11, SMT DEF CallRun
  <2>4. QED BY <2>2, <2>3
<1>18. QED BY <1>2, <1>13, <1>14, <1>15, <1>16, <1>17, VbitsInv

(* lock_release: what the call mapped is handed out. *)
LEMMA ReleaseInv ==
  ASSUME MemInv, NEW t \in Threads, Release(t)
  PROVE  MemInv'
<1>1. /\ cur = t /\ call[t].pc = "rel" /\ Busy(t)
      /\ UNCHANGED <<pool, vbits, pte, pde, cur, panic>>
  BY DEF Release, At, Busy
<1>2. Alone(t)
  BY <1>1, Turn
<1>3. /\ CallView(t) /\ CallRun(t) /\ PagesMarked(t) /\ FramesMarked(t) /\ HeldRuns
      /\ call[t] \in Calls /\ held \in [Threads -> SUBSET (Nat \X Nat)]
      /\ owner \in [Pools -> Threads \cup {None}]
  BY <1>2 DEF MemInv, MemTypeOK, TypeOK
<1>4. PICK q : q = call[t].run
  OBVIOUS
<1>5. q \in Nat \X Nat
  BY <1>3, <1>4 DEF Calls
<1>6. /\ owner' = [owner EXCEPT ![PF(t)] = None] /\ call' = [call EXCEPT ![t] = Idle("out")]
      /\ held' = [held EXCEPT ![t] = held[t] \cup {r \in {q} : r[2] > 0}]
  BY <1>4 DEF Release
<1>7. Idle("out") \in Calls /\ Idle("out").pc = "out" /\ Idle("out").run = <<0, 0>>
  BY DEF Idle, Calls
<1>8. /\ call' \in [Threads -> Calls] /\ call'[t] = Idle("out")
      /\ \A u \in Threads \ {t} : call'[u] = call[u]
  BY <1>6, <1>7, CallStep
<1>9. /\ held' \in [Threads -> SUBSET (Nat \X Nat)]
      /\ \A u \in Threads \ {t} : held'[u] = held[u]
      /\ \A r \in held'[t] : r \in held[t] \/ (r = q /\ q[2] > 0)
  BY <1>3, <1>5, <1>6
<1>10. MemTypeOK'
  <2>1. owner' \in [Pools -> Threads \cup {None}]
    BY <1>3, <1>6
  <2>2. QED BY <2>1, <1>1, <1>8, <1>9 DEF MemInv, MemTypeOK, TypeOK
<1>11. OneCall'
  BY <1>2, <1>7, <1>8 DEF OneCall, Busy, Alone
<1>12. NamedOnce' /\ StackKept' /\ \A f : Named(f)' <=> Named(f)
  BY <1>1, <1>7, <1>8, SameTables, SameStacks
<1>13. HeldRuns'
  <2>1. q[2] > 0 => RunOf(t, q) /\ \A u \in Threads : \A r \in held[u] : RunsApart(t, q, u, r)
    BY <1>3, <1>4 DEF CallRun
  <2>2. \A v \in RunPages(q) : pte[Space(t)][v] # None
    BY <1>1, <1>3, <1>4 DEF CallView
  <2>3. ASSUME NEW u \in Threads, NEW r \in held'[u]
        PROVE  RunOf(u, r) /\ \A v \in RunPages(r) : pte[Space(u)][v] # None
    BY <2>1, <2>2, <1>3, <1>9 DEF HeldRuns
  <2>4. ASSUME NEW a \in Threads, NEW b \in Threads, NEW r \in held'[a], NEW x \in held'[b]
        PROVE  RunsApart(a, r, b, x) \/ (a = b /\ r = x)
    <3>1. CASE r \in held[a] /\ x \in held[b]
      BY <3>1, <1>3 DEF HeldRuns
    <3>2. CASE a = t /\ r = q /\ q[2] > 0 /\ x \in held[b]
      BY <3>2, <2>1
    <3>3. CASE b = t /\ x = q /\ q[2] > 0 /\ r \in held[a]
      <4>1. RunsApart(t, q, a, r)
        BY <3>3, <2>1
      <4>2. QED BY <4>1, <3>3 DEF RunsApart
    <3>4. CASE a = t /\ r = q /\ b = t /\ x = q
      BY <3>4
    <3>5. QED BY <3>1, <3>2, <3>3, <3>4, <1>9
  <2>5. \A u \in Threads : \A r : RunOf(u, r)' <=> RunOf(u, r)
    BY <1>1 DEF RunOf
  <2>6. QED BY <2>3, <2>4, <2>5, <1>1 DEF HeldRuns, RunsApart
<1>14. FramesMarked(t)'
  <2>1. \A f \in Frames : /\ ~Taken(t, f) /\ ~Taken(t, f)' /\ ~GivenUp(t, f) /\ ~GivenUp(t, f)'
                          /\ Marked(f)' = Marked(f)
    BY <1>1, <1>7, <1>8 DEF Taken, GivenUp, Marked
  <2>2. QED BY <2>1, <1>3, <1>12 DEF FramesMarked
<1>15. PagesMarked(t)'
  <2>1. Loose(t) = {} /\ Loose(t)' = {}
    BY <1>1, <1>7, <1>8 DEF Loose, Mapping
  <2>2. QED BY <2>1, <1>1, <1>3 DEF PagesMarked
<1>16. CallView(t)' /\ CallRun(t)'
  BY <1>7, <1>8, SMT DEF CallView, CallRun, Mapping
<1>17. \A u \in Threads : /\ CallView(u)' /\ CallRun(u)'
                          /\ Alone(u)' => FramesMarked(u)' /\ PagesMarked(u)'
  BY <1>2, <1>8, <1>9, <1>14, <1>15, <1>16, OthersRest
<1>18. QED BY <1>1, <1>10, <1>11, <1>12, <1>13, <1>17 DEF MemInv

(* mfree_page begins with a run that was handed out. *)
LEMMA FreeInv ==
  ASSUME MemInv, NEW t \in Threads, NEW r \in held[t], Free(t, r)
  PROVE  MemInv'
<1>1. /\ cur = t /\ call[t].pc = "out" /\ ~Busy(t) /\ Lock(t)
      /\ UNCHANGED <<pool, vbits, pte, pde, cur, panic>>
  BY DEF Free, At, Busy
<1>2. Alone(t)
  BY <1>1, Turn DEF Lock
<1>3. /\ PagesMarked(t) /\ FramesMarked(t) /\ HeldRuns /\ NamedOnce
      /\ call[t] \in Calls /\ held \in [Threads -> SUBSET (Nat \X Nat)]
      /\ owner \in [Pools -> Threads \cup {None}]
      /\ \A s \in Spaces : pte[s] \in [Pages(s) -> Frames \cup {None}]
  BY <1>2 DEF MemInv, MemTypeOK, TypeOK
<1>4. PICK s, i, n : s = Space(t) /\ i = r[1] /\ n = r[2]
  OBVIOUS
<1>5. i \in Nat /\ n \in Nat /\ r = <<i, n>> /\ s \in Spaces
  BY <1>3, <1>4, SpaceFacts, SMT
<1>6. RunOf(t, r) /\ n > 0 /\ \A v \in RunPages(r) : pte[s][v] # None
  BY <1>3, <1>4 DEF HeldRuns, RunOf
<1>7. RunPages(r) = i .. i + n - 1 /\ i \in RunPages(r)
  BY <1>4, <1>5, <1>6, SMT DEF RunPages
<1>8. PICK f : f = pte[s][i]
  OBVIOUS
<1>9. f \in Frames /\ PoolOf(f) = PF(t)
  <2>1. i \in Pages(s) /\ f # None
    BY <1>4, <1>6, <1>7, <1>8 DEF RunOf
  <2>2. f \in Frames
    BY <2>1, <1>3, <1>5, <1>8
  <2>3. PoolOf(f) = IF s = "kernel" THEN "kernel" ELSE "user"
    BY <2>1, <1>3, <1>5, <1>8 DEF NamedOnce, PagesInPool
  <2>4. QED BY <2>2, <2>3, <1>4, SpaceFacts
<1> DEFINE m == t \in Procs
           rec == [call[t] EXCEPT !.pc = "pfree", !.page = i, !.left = n, !.run = r,
                                  !.masked = m, !.frame = f]
<1>10. /\ call' = [call EXCEPT ![t] = rec] /\ held' = [held EXCEPT ![t] = held[t] \ {r}]
       /\ m \in BOOLEAN
  BY <1>4, <1>8, SMT DEF Free
<1> HIDE DEF m
<1>11. /\ rec \in Calls /\ rec.pc = "pfree" /\ rec.page = i /\ rec.left = n /\ rec.run = r
       /\ rec.frame = f
  BY <1>3, <1>5, <1>9, <1>10 DEF Calls
<1> HIDE DEF rec
<1>12. /\ call' \in [Threads -> Calls] /\ call'[t] = rec
       /\ \A u \in Threads \ {t} : call'[u] = call[u]
  BY <1>10, <1>11, CallStep
<1>13. /\ held' \in [Threads -> SUBSET (Nat \X Nat)]
       /\ \A u \in Threads \ {t} : held'[u] = held[u]
       /\ held'[t] = held[t] \ {r}
       /\ \A u \in Threads : held'[u] \subseteq held[u]
  BY <1>3, <1>10
<1>14. MemTypeOK'
  <2>1. owner' \in [Pools -> Threads \cup {None}]
    BY <1>1, <1>3, SpaceFacts DEF Lock
  <2>2. QED BY <2>1, <1>1, <1>12, <1>13 DEF MemInv, MemTypeOK, TypeOK
<1>15. OneCall'
  BY <1>1, <1>12, OneCallLock
<1>16. NamedOnce' /\ StackKept' /\ \A g : Named(g)' <=> Named(g)
  BY <1>1, <1>11, <1>12, SameTables, SameStacks
<1>17. \A u \in Threads : \A q : RunOf(u, q)' <=> RunOf(u, q)
  BY <1>1 DEF RunOf
<1>18. HeldRuns'
  BY <1>1, <1>3, <1>13, <1>17, SMT DEF HeldRuns, RunsApart
<1>19. FramesMarked(t)'
  <2>1. \A g \in Frames : /\ ~Taken(t, g) /\ ~Taken(t, g)' /\ ~GivenUp(t, g) /\ ~GivenUp(t, g)'
                          /\ Marked(g)' = Marked(g)
    BY <1>1, <1>11, <1>12 DEF Taken, GivenUp, Marked
  <2>2. QED BY <2>1, <1>3, <1>16 DEF FramesMarked
<1>20. PagesMarked(t)'
  <2>1. Loose(t) = {}
    BY <1>1 DEF Loose, Mapping
  <2>2. Loose(t)' = i .. i - 1
    BY <1>4, <1>11, <1>12 DEF Loose, Mapping
  <2>3. Loose(t)' = {}
    BY <2>2, <1>5, SMT
  <2>4. QED BY <2>1, <2>3, <1>1, <1>3 DEF PagesMarked
<1>21. CallView(t)'
  <2>1. i <= i /\ i + n = i + n
    BY <1>5, SMT
  <2>2. FreeView(t)'
    BY <2>1, <1>1, <1>4, <1>6, <1>11, <1>12 DEF FreeView
  <2>3. FrameView(t)'
    BY <1>9, <1>11, <1>12 DEF FrameView
  <2>4. QED BY <2>2, <2>3, <1>11, <1>12 DEF CallView, Mapping
<1>22. CallRun(t)'
  <2>1. ASSUME NEW u \in Threads, NEW q \in held'[u] PROVE RunsApart(t, r, u, q)
    <3>1. q \in held[u] /\ ~(t = u /\ r = q)
      BY <1>13
    <3>2. QED BY <3>1, <1>3 DEF HeldRuns
  <2>2. QED BY <2>1, <1>6, <1>11, <1>12, <1>17 DEF CallRun, RunsApart
<1>23. \A u \in Threads : /\ CallView(u)' /\ CallRun(u)'
                          /\ Alone(u)' => FramesMarked(u)' /\ PagesMarked(u)'
  BY <1>2, <1>12, <1>13, <1>19, <1>20, <1>21, <1>22, OthersRest
<1>24. QED BY <1>1, <1>14, <1>15, <1>16, <1>18, <1>23 DEF MemInv

(* vaddr_get: a run of clear bits, which is below the stack, is taken. *)
TakesRun(t, s, i, n) ==
  /\ cur = t /\ call[t].pc = "vaddr" /\ s = Space(t) /\ n = call[t].left
  /\ i \in Nat /\ ClearRun(vbits[s], i, n)
  /\ vbits' = [vbits EXCEPT ![s] = SetRun(vbits[s], i, n, TRUE)]
  /\ call' = [call EXCEPT ![t].pc = "scan", ![t].page = i, ![t].run = <<i, n>>]
  /\ UNCHANGED <<pool, pte, pde, owner, held, cur, panic>>

LEMMA TakesRunInv ==
  ASSUME MemInv, NEW t \in Threads, NEW s, NEW i, NEW n, TakesRun(t, s, i, n)
  PROVE  MemInv'
<1>1. /\ cur = t /\ call[t].pc = "vaddr" /\ Busy(t) /\ s = Space(t) /\ n = call[t].left /\ i \in Nat
      /\ UNCHANGED <<pool, pte, pde, owner, held, cur, panic>>
  BY DEF TakesRun, Busy
<1>2. Alone(t)
  BY <1>1, Turn
<1>3. /\ CallView(t) /\ PagesMarked(t) /\ HeldRuns /\ call[t] \in Calls
      /\ DOMAIN vbits = Spaces /\ \A r \in Spaces : vbits[r] \in [Pages(r) -> BOOLEAN]
  BY <1>2 DEF MemInv, MemTypeOK, TypeOK
<1>4. n \in Nat /\ n > 0 /\ s \in Spaces
  BY <1>1, <1>3, SpaceFacts DEF CallView, Calls
<1>5. \A w \in i .. i + n - 1 : w \in Pages(s) /\ ~vbits[s][w]
  BY <1>3, <1>4 DEF TakesRun, ClearRun
<1>6. t \in Procs => UPages - 1 \notin i .. i + n - 1
  <2>1. SUFFICES ASSUME t \in Procs PROVE vbits[t][UPages - 1] /\ s = t
    BY <1>5
  <2>2. QED BY <2>1, <1>1 DEF MemInv, StackKept, Space
<1> DEFINE rec == [call[t] EXCEPT !.pc = "scan", !.page = i, !.run = <<i, n>>]
<1>7. call' = [call EXCEPT ![t] = rec]
  BY <1>3 DEF TakesRun, MemInv, MemTypeOK, Calls
<1>8. /\ rec \in Calls /\ rec.pc = "scan" /\ rec.page = i /\ rec.run = <<i, n>> /\ rec.left = n
  BY <1>1, <1>3, <1>4 DEF Calls, Mapping
<1> HIDE DEF rec
<1>9. /\ call' \in [Threads -> Calls] /\ call'[t] = rec
      /\ \A u \in Threads \ {t} : call'[u] = call[u]
  BY <1>7, <1>8, CallStep
<1>10. /\ DOMAIN vbits' = Spaces /\ \A r \in Spaces : vbits'[r] \in [Pages(r) -> BOOLEAN]
       /\ \A r \in Spaces : \A w \in Pages(r) :
            vbits'[r][w] = IF r = s /\ w \in i .. i + n - 1 THEN TRUE ELSE vbits[r][w]
  <2>1. PICK a : a = SetRun(vbits[s], i, n, TRUE)
    OBVIOUS
  <2>2. /\ a \in [Pages(s) -> BOOLEAN]
        /\ \A w \in Pages(s) : a[w] = IF w \in i .. i + n - 1 THEN TRUE ELSE vbits[s][w]
    BY <2>1, <1>3, <1>4 DEF SetRun
  <2>3. vbits' = [vbits EXCEPT ![s] = a]
    BY <2>1 DEF TakesRun
  <2>4. QED BY <2>2, <2>3, <1>3, <1>4
<1>11. \A r \in Spaces : \A w \in Pages(r) : vbits[r][w] => vbits'[r][w]
  BY <1>10
<1>12. RunPages(<<i, n>>) = i .. i + n - 1
  BY DEF RunPages
<1>13. VbitsStep(t)
  <2>1. owner' \in [Pools -> Threads \cup {None}]
    BY <1>1 DEF MemInv, MemTypeOK, TypeOK
  <2>2. ASSUME NEW u \in Threads, NEW r \in held[u], NEW w \in RunPages(r) PROVE vbits'[Space(u)][w]
    <3>1. Space(u) \in Spaces /\ w \in Pages(Space(u)) /\ vbits[Space(u)][w]
      BY <1>3, SpaceFacts DEF HeldRuns, RunOf
    <3>2. QED BY <3>1, <1>11
  <2>3. QED BY <2>1, <2>2, <1>1, <1>8, <1>9, <1>10 DEF VbitsStep
<1>14. OneCall'
  BY <1>1, <1>9, OneCallStep
<1>15. StackKept'
  <2>1. SUFFICES ASSUME NEW p \in Procs
                 PROVE  IF call'[p].pc = "start" THEN pte[p][UPages - 1] = None
                                                 ELSE vbits'[p][UPages - 1]
    BY <1>1 DEF StackKept
  <2>2. p \in Spaces /\ UPages - 1 \in Pages(p) /\ p \in Threads
    BY StackPage
  <2>3. call'[p].pc = "start" <=> call[p].pc = "start"
    BY <2>2, <1>1, <1>8, <1>9
  <2>4. IF call[p].pc = "start" THEN pte[p][UPages - 1] = None ELSE vbits[p][UPages - 1]
    BY DEF MemInv, StackKept
  <2>5. QED BY <2>2, <2>3, <2>4, <1>11
<1>16. PagesMarked(t)'
  <2>1. Loose(t) = {}
    BY <1>1 DEF Loose, Mapping
  <2>2. Loose(t)' = i .. i + n - 1
    BY <1>8, <1>9 DEF Loose, Mapping
  <2>3. ASSUME NEW r \in Spaces, NEW w \in Pages(r)
        PROVE  vbits'[r][w] <=> pte[r][w] # None \/ (r = s /\ w \in i .. i + n - 1)
    <3>1. vbits[r][w] <=> pte[r][w] # None
      BY <2>1, <1>3 DEF PagesMarked
    <3>2. QED BY <3>1, <1>10
  <2>4. \A w \in i .. i + n - 1 : w \in Pages(s) /\ pte[s][w] = None
    BY <1>1, <1>3, <1>4, <1>5 DEF PagesMarked
  <2>5. QED BY <2>2, <2>3, <2>4, <1>1 DEF PagesMarked
<1>17. CallView(t)'
  <2>1. \A v \in i .. i + n - 1 : ~(v < i)
    BY <1>1, <1>4, SMT
  <2>2. i <= i /\ i + n = i + n
    BY <1>1, <1>4, SMT
  <2>3. MapView(t)'
    <3>1. <<i, n>>[1] = i /\ <<i, n>>[2] = n
      OBVIOUS
    <3>2. QED BY <3>1, <2>1, <2>2, <1>4, <1>8, <1>9, <1>12 DEF MapView
  <2>4. QED BY <2>3, <1>8, <1>9 DEF CallView, Mapping
<1>18. CallRun(t)'
  <2>1. RunOf(t, <<i, n>>)'
    BY <1>1, <1>4, <1>5, <1>6, <1>10, <1>12 DEF RunOf
  <2>2. ASSUME NEW u \in Threads, NEW q \in held[u] PROVE RunsApart(t, <<i, n>>, u, q)
    <3>1. Space(u) = s => \A w \in RunPages(q) : w \notin i .. i + n - 1
      BY <1>3, <1>5 DEF HeldRuns, RunOf
    <3>2. QED BY <3>1, <1>1, <1>12 DEF RunsApart
  <2>3. QED BY <2>1, <2>2, <1>1, <1>8, <1>9 DEF CallRun, RunsApart
<1>19. QED BY <1>2, <1>13, <1>14, <1>15, <1>16, <1>17, <1>18, VbitsInv

LEMMA page_table_pte_removeInv ==
  ASSUME MemInv, NEW t \in Threads, page_table_pte_remove(t)
  PROVE  MemInv'
<1>1. /\ cur = t /\ call[t].pc = "unmap" /\ Busy(t)
      /\ UNCHANGED <<pool, vbits, pde, owner, held, cur, panic>>
  BY DEF page_table_pte_remove, At, Busy
<1>2. /\ CallView(t) /\ CallRun(t) /\ FramesMarked(t) /\ PagesMarked(t) /\ NamedOnce
      /\ HeldRuns /\ call[t] \in Calls
  BY <1>1, Turn DEF MemInv, MemTypeOK
<1>3. FreeView(t) /\ FrameView(t)
  BY <1>1, <1>2 DEF CallView
<1>4. PICK s, v, n, r1, r2 : /\ s = Space(t) /\ v = call[t].page /\ n = call[t].left
                             /\ r1 = call[t].run[1] /\ r2 = call[t].run[2]
  OBVIOUS
<1>5. v \in Nat /\ n \in Nat /\ r1 \in Nat /\ r2 \in Nat /\ call[t].run = <<r1, r2>>
  BY <1>2, <1>4, SMT DEF Calls
<1>6. n > 0 /\ r2 > 0 /\ r1 <= v /\ v + n = r1 + r2
  BY <1>3, <1>4 DEF FreeView
<1>7. RunPages(call[t].run) = r1 .. r1 + r2 - 1 /\ v \in r1 .. r1 + r2 - 1
  BY <1>5, <1>6, SMT DEF RunPages
<1>8. s \in Spaces /\ v \in Pages(s) /\ pte[s][v] # None
  <2>1. v \in RunPages(call[t].run)
    BY <1>7
  <2>2. v \in Pages(s)
    BY <2>1, <1>2, <1>4, <1>6 DEF CallRun, RunOf
  <2>3. pte[s][v] # None
    BY <2>1, <1>3, <1>4, <1>5, SMT DEF FreeView
  <2>4. QED BY <2>2, <2>3, <1>4, SpaceFacts
<1>9. /\ DOMAIN pte = Spaces /\ \A r \in Spaces : pte[r] \in [Pages(r) -> Frames \cup {None}]
      /\ pde \in [Procs -> [Dirs -> PoolBits("kernel") \cup {None}]]
  BY DEF MemInv, MemTypeOK, TypeOK
<1>10. pte' = [pte EXCEPT ![s][v] = None]
  BY <1>4 DEF page_table_pte_remove
<1>11. /\ DOMAIN pte' = Spaces /\ \A r \in Spaces : pte'[r] \in [Pages(r) -> Frames \cup {None}]
       /\ \A r \in Spaces : \A w \in Pages(r) : pte'[r][w] = IF r = s /\ w = v THEN None ELSE pte[r][w]
  BY <1>8, <1>9, <1>10
<1>11a. /\ pte'[s][v] = None
        /\ \A r \in Spaces : \A w \in Pages(r) : ~(r = s /\ w = v) => pte'[r][w] = pte[r][w]
  BY <1>8, <1>11
<1>12. PICK f \in Frames : f = pte[s][v]
  BY <1>8, <1>9
<1> DEFINE p == IF n = 1 THEN "vfree" ELSE "pfree"
           rec == [call[t] EXCEPT !.page = v + 1, !.left = n - 1, !.pc = p]
<1>13. call' = [call EXCEPT ![t] = rec]
  BY <1>4 DEF page_table_pte_remove
<1>14. p \in {"vfree", "pfree"} /\ n - 1 \in Nat /\ v + 1 \in Nat
  <2>1. p \in {"vfree", "pfree"}
    OBVIOUS
  <2> HIDE DEF p
  <2>2. n - 1 \in Nat /\ v + 1 \in Nat
    BY <1>5, <1>6, SMT
  <2>3. QED BY <2>1, <2>2
<1>15. p = IF n = 1 THEN "vfree" ELSE "pfree"
  OBVIOUS
<1> HIDE DEF p
<1>16. /\ rec \in Calls /\ rec.page = v + 1 /\ rec.left = n - 1 /\ rec.pc = p
       /\ rec.run = call[t].run /\ rec.frame = call[t].frame
  BY <1>2, <1>14 DEF Calls
<1> HIDE DEF rec
<1>17. call'[t] = rec
  BY <1>13, <1>16, CallStep
<1>18. FramesMarked(t)'
  <2>1. \A g \in Frames : /\ ~Taken(t, g) /\ ~Taken(t, g)' /\ ~GivenUp(t, g)'
                          /\ GivenUp(t, g) <=> g = f
                          /\ Marked(g)' = Marked(g)
    BY <1>1, <1>4, <1>12, <1>14, <1>16, <1>17 DEF Taken, GivenUp, Marked
  <2>2. ASSUME NEW g \in Frames PROVE Named(g)' <=> Named(g) /\ g # f
    <3>1. g # None
      BY MemoryAssumption, SMTT(30) DEF Frames
    <3>2. (\E r \in Spaces : \E w \in Pages(r) : pte'[r][w] = g) <=>
            g # f /\ \E r \in Spaces : \E w \in Pages(r) : pte[r][w] = g
      BY <3>1, <1>2, <1>8, <1>11, <1>12, SMT DEF NamedOnce, PagesOnce
    <3>3. \A q \in Procs : \A e \in Dirs : pde[q][e] # f
      BY <1>2, <1>8, <1>12 DEF NamedOnce, PagesNotTables
    <3>4. QED BY <3>2, <3>3, <1>1 DEF Named
  <2>3. QED BY <2>1, <2>2, <1>2 DEF FramesMarked
<1>19. NamedOnce'
  <2>1. \A r \in Spaces : \A w \in Pages(r) : pte'[r][w] # None => pte'[r][w] = pte[r][w]
    BY <1>11a
  <2>2. PagesOnce'
    BY <2>1, <1>2, SMTT(30) DEF NamedOnce, PagesOnce
  <2>3. TablesOnce'
    BY <1>1, <1>2, SMTT(30) DEF NamedOnce, TablesOnce
  <2>4. PagesNotTables'
    BY <2>1, <1>1, <1>2, SMTT(30) DEF NamedOnce, PagesNotTables
  <2>5. PagesInPool'
    BY <2>1, <1>1, <1>2, SMTT(30) DEF NamedOnce, PagesInPool
  <2>6. QED BY <2>2, <2>3, <2>4, <2>5 DEF NamedOnce
<1>20. PagesMarked(t)'
  <2>1. Loose(t) = r1 .. v - 1
    BY <1>1, <1>4 DEF Loose, Mapping
  <2>2. Loose(t)' = r1 .. v
    <3>1. CASE n = 1
      <4>1. Loose(t)' = r1 .. r1 + r2 - 1
        BY <3>1, <1>7, <1>15, <1>16, <1>17 DEF Loose, Mapping
      <4>2. QED BY <4>1, <3>1, <1>5, <1>6, SMT
    <3>2. CASE n # 1
      <4>1. Loose(t)' = r1 .. (v + 1) - 1
        BY <3>2, <1>4, <1>15, <1>16, <1>17 DEF Loose, Mapping
      <4>2. QED BY <4>1, <1>5, SMT
    <3>3. QED BY <3>1, <3>2
  <2>3. Loose(t)' = Loose(t) \cup {v}
    BY <2>1, <2>2, <1>5, <1>6, SMT
  <2>4. \A r \in Spaces : \A w \in Pages(r) :
          vbits[r][w] <=> pte'[r][w] # None \/ (r = s /\ w \in Loose(t)')
    <3>1. SUFFICES ASSUME NEW r \in Spaces, NEW w \in Pages(r)
                   PROVE  vbits[r][w] <=> pte'[r][w] # None \/ (r = s /\ w \in Loose(t)')
      OBVIOUS
    <3>2. vbits[r][w] <=> pte[r][w] # None \/ (r = s /\ w \in Loose(t))
      BY <1>2, <1>4 DEF PagesMarked
    <3>3. CASE r = s /\ w = v
      BY <3>2, <3>3, <2>3, <1>8
    <3>4. CASE ~(r = s /\ w = v)
      BY <3>2, <3>4, <2>3, <1>11a
    <3>5. QED BY <3>3, <3>4
  <2>5. \A w \in Loose(t)' : w \in Pages(s) /\ pte'[s][w] = None
    BY <2>3, <1>2, <1>4, <1>8, <1>11a, SMTT(30) DEF PagesMarked
  <2>6. QED BY <2>4, <2>5, <1>1, <1>4 DEF PagesMarked
<1>21. CallView(t)'
  <2>1. CASE n = 1
    BY <2>1, <1>4, <1>6, <1>15, <1>16, <1>17 DEF CallView, Mapping
  <2>2. CASE n # 1
    <3>1. \A w \in r1 .. r1 + r2 - 1 : w >= v + 1 => pte'[s][w] # None
      <4>1. SUFFICES ASSUME NEW w \in r1 .. r1 + r2 - 1, w >= v + 1 PROVE pte'[s][w] # None
        OBVIOUS
      <4>2. w \in Pages(s) /\ w # v /\ w >= v
        <5>1. w \in Pages(s)
          BY <4>1, <1>2, <1>4, <1>6, <1>7 DEF CallRun, RunOf
        <5>2. QED BY <5>1, <4>1, <1>5, SMT
      <4>3. pte[s][w] # None
        BY <4>1, <4>2, <1>3, <1>4, <1>7 DEF FreeView
      <4>4. QED BY <4>2, <4>3, <1>8, <1>11
    <3>2. n - 1 > 0 /\ r1 <= v + 1 /\ (v + 1) + (n - 1) = r1 + r2
      BY <2>2, <1>5, <1>6, SMT
    <3>3. FreeView(t)'
      BY <3>1, <3>2, <1>4, <1>6, <1>7, <1>16, <1>17 DEF FreeView
    <3>4. FrameView(t)'
      BY <1>3, <1>16, <1>17 DEF FrameView
    <3>5. QED BY <3>3, <3>4, <2>2, <1>15, <1>16, <1>17 DEF CallView, Mapping
  <2>3. QED BY <2>1, <2>2
<1>22. \A u \in Threads : \A r \in held[u] : \A w \in RunPages(r) : pte'[Space(u)][w] # None
  <2>1. SUFFICES ASSUME NEW u \in Threads, NEW r \in held[u], NEW w \in RunPages(r)
                 PROVE  pte'[Space(u)][w] # None
    OBVIOUS
  <2>2. Space(u) \in Spaces /\ w \in Pages(Space(u)) /\ pte[Space(u)][w] # None
    BY <1>2, SpaceFacts DEF HeldRuns, RunOf
  <2>3. ~(Space(u) = s /\ w = v)
    BY <1>2, <1>4, <1>6, <1>7 DEF CallRun, RunsApart
  <2>4. QED BY <2>2, <2>3, <1>11
<1>22a. \A q \in Procs \ {t} : pte'[q][UPages - 1] = pte[q][UPages - 1]
  BY <1>4, <1>11, StackPage DEF Space
<1>23. QED BY <1>14, <1>22a, <1>1, <1>9, <1>11, <1>13, <1>16, <1>18, <1>19, <1>20, <1>21, <1>22, TableInv
=============================================================================
