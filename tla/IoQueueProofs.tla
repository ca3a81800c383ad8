--------------------------- MODULE IoQueueProofs ---------------------------
(***************************************************************************)
(* Proofs about IoQueue, for any threads, users and bufsize: IoInv is      *)
(* inductive, so no assertion of ioqueue.c, sync.c or thread.c fails and   *)
(* the queue keeps the order of the characters.                            *)
(***************************************************************************)
EXTENDS IoQueue, SyncProofs

(* The prover of the leaves that name none, with time for a slow machine. *)
USE ZenonT(60)

-----------------------------------------------------------------------------
(* The ring.                                                               *)

Wrap(a, b) == IF a < 0 THEN a + b ELSE IF a < b THEN a ELSE a - b

(* % on the arguments that occur: less than one turn away from 0 .. b - 1. *)
LEMMA ModWrap ==
  ASSUME NEW b \in Nat \ {0}, NEW a \in Int, -b <= a, a < 2 * b
  PROVE  a % b = Wrap(a, b) /\ Wrap(a, b) \in 0 .. b - 1
<1>1. a % b \in 0 .. b - 1 /\ (a \div b) \in Int /\ a = b * (a \div b) + (a % b)
  BY SMT
<1>2. PICK q \in Int, r \in 0 .. b - 1 : r = a % b /\ a = b * q + r
  BY <1>1
<1>3. q \in {-1, 0, 1}
  <2>1. ASSUME q >= 2 PROVE FALSE
    <3>1. b * q >= b * 2
      BY <2>1, SMT
    <3>2. QED BY <1>2, <3>1, SMT
  <2>2. ASSUME q <= -2 PROVE FALSE
    <3>1. b * q <= b * (-2)
      BY <2>2, SMT
    <3>2. QED BY <1>2, <3>1, SMT
  <2>3. QED BY <2>1, <2>2, SMT
<1>4. r = Wrap(a, b)
  BY <1>2, <1>3, SMT DEF Wrap
<1>5. QED BY <1>2, <1>4

(* The next position, or number, of a ring of b. *)
LEMMA NextWrap ==
  ASSUME NEW b \in Nat \ {0}, NEW x \in 0 .. b - 1
  PROVE  (x + 1) % b = Wrap(x + 1, b) /\ Wrap(x + 1, b) \in 0 .. b - 1
<1>1. x + 1 \in Int /\ -b <= x + 1 /\ x + 1 < 2 * b
  BY SMT
<1>2. QED BY <1>1, ModWrap

(* Going on from x by one in a ring of b: the way to it from y is one      *)
(* longer, the way from it to y one shorter.                               *)
LEMMA WrapStep ==
  ASSUME NEW b \in Nat \ {0}, NEW x \in 0 .. b - 1, NEW y \in 0 .. b - 1,
         NEW z, z = Wrap(x + 1, b)
  PROVE  /\ Wrap(x - y, b) + 1 < b => Wrap(z - y, b) = Wrap(x - y, b) + 1
         /\ Wrap(y - x, b) > 0 => Wrap(y - z, b) = Wrap(y - x, b) - 1
         /\ \A i \in Nat : i + 1 < b => Wrap(z + i, b) = Wrap(x + (i + 1), b)
<1>1. CASE x + 1 = b
  <2>1. z = 0
    BY <1>1, SMT DEF Wrap
  <2>2. QED BY <1>1, <2>1, SMT DEF Wrap
<1>2. CASE x + 1 < b
  <2>1. z = x + 1
    BY <1>2, SMT DEF Wrap
  <2>2. QED BY <1>2, <2>1, SMT DEF Wrap
<1>3. QED BY <1>1, <1>2, SMT

(* FirstInFirstOut of the ring bf with head h and tail t, when a           *)
(* characters have been put and k taken.                                   *)
Fifo(bf, h, t, a, k) ==
  LET n == (h - t) % bufsize IN
  /\ (a - k) % CharMod = n
  /\ \A i \in 0 .. n - 1 : bf[(t + i) % bufsize] = (k + i) % CharMod

(* The same with the number n of characters in the queue named and the     *)
(* wrapping around spelled out.                                            *)
Ordered(bf, h, t, a, k, n) ==
  /\ n = Wrap(h - t, bufsize)
  /\ Wrap(a - k, CharMod) = n
  /\ \A i \in 0 .. n - 1 : bf[Wrap(t + i, bufsize)] = Wrap(k + i, CharMod)

LEMMA SpellOut ==
  ASSUME NEW bf, NEW h \in Positions, NEW t \in Positions, NEW a \in Chars, NEW k \in Chars
  PROVE  Fifo(bf, h, t, a, k) <=> \E n \in Positions : Ordered(bf, h, t, a, k, n)
<1>1. bufsize \in Nat \ {0} /\ CharMod \in Nat \ {0} /\ CharMod = 2 * bufsize
  BY IoqAssumption, SMT DEF CharMod
<1>2. h \in Int /\ t \in Int /\ a \in Int /\ k \in Int
      /\ 0 <= h /\ h < bufsize /\ 0 <= t /\ t < bufsize
      /\ 0 <= a /\ a < CharMod /\ 0 <= k /\ k < CharMod
  BY <1>1, SMT DEF Positions, Chars
<1>3. (h - t) % bufsize = Wrap(h - t, bufsize) /\ Wrap(h - t, bufsize) \in Positions
  BY <1>1, <1>2, ModWrap, SMT DEF Positions
<1>4. (a - k) % CharMod = Wrap(a - k, CharMod)
  BY <1>1, <1>2, ModWrap, SMT
<1>5. ASSUME NEW i \in Positions
      PROVE  /\ (t + i) % bufsize = Wrap(t + i, bufsize)
             /\ (k + i) % CharMod = Wrap(k + i, CharMod)
  <2>1. i \in Int /\ 0 <= i /\ i < bufsize
    BY <1>1, SMT DEF Positions
  <2>2. (t + i) % bufsize = Wrap(t + i, bufsize)
    <3>1. t + i \in Int /\ -bufsize <= t + i /\ t + i < 2 * bufsize
      BY <1>1, <1>2, <2>1, SMT
    <3>2. QED BY <1>1, <3>1, ModWrap
  <2>3. (k + i) % CharMod = Wrap(k + i, CharMod)
    <3>1. k + i \in Int /\ -CharMod <= k + i /\ k + i < 2 * CharMod
      BY <1>1, <1>2, <2>1, SMT
    <3>2. QED BY <1>1, <3>1, ModWrap
  <2>4. QED BY <2>2, <2>3
<1>6. PICK m \in Positions : m = Wrap(h - t, bufsize)
  BY <1>3
<1>7. \A i \in 0 .. m - 1 : i \in Positions
  BY <1>1, <1>6, SMT DEF Positions
<1>8. Fifo(bf, h, t, a, k) <=>
        /\ Wrap(a - k, CharMod) = m
        /\ \A i \in 0 .. m - 1 : bf[Wrap(t + i, bufsize)] = Wrap(k + i, CharMod)
  BY <1>3, <1>4, <1>5, <1>6, <1>7 DEF Fifo
<1>9. QED BY <1>6, <1>8 DEF Ordered

(* ioq_putchar on a queue that is not full: the new character goes behind  *)
(* the others and overwrites none of them.                                 *)
LEMMA PutKeepsOrder ==
  ASSUME NEW bf \in [Positions -> Chars], NEW h \in Positions, NEW t \in Positions,
         NEW a \in Chars, NEW k \in Chars, Fifo(bf, h, t, a, k), next_pos(h) # t
  PROVE  /\ [bf EXCEPT ![h] = a] \in [Positions -> Chars]
         /\ next_pos(h) \in Positions /\ (a + 1) % CharMod \in Chars
         /\ Fifo([bf EXCEPT ![h] = a], next_pos(h), t, (a + 1) % CharMod, k)
<1>1. /\ bufsize \in Nat \ {0, 1} /\ CharMod \in Nat \ {0} /\ CharMod = 2 * bufsize
      /\ Positions = 0 .. bufsize - 1 /\ Chars = 0 .. CharMod - 1
  BY IoqAssumption, SMT DEF CharMod, Positions, Chars
<1>2. PICK n \in Positions : Ordered(bf, h, t, a, k, n)
  BY SpellOut
<1>3. PICK g \in Positions : g = next_pos(h) /\ g = Wrap(h + 1, bufsize)
  BY <1>1, NextWrap DEF next_pos
<1>4. PICK e \in Chars : e = (a + 1) % CharMod /\ e = Wrap(a + 1, CharMod)
  BY <1>1, NextWrap
<1>5. PICK c \in [Positions -> Chars] : c = [bf EXCEPT ![h] = a]
  OBVIOUS
<1>6. g # t
  BY <1>3
<1>7. n + 1 \in Positions /\ n + 1 = Wrap(g - t, bufsize) /\ Wrap(e - k, CharMod) = n + 1
  <2>1. n = Wrap(h - t, bufsize) /\ Wrap(a - k, CharMod) = n
    BY <1>2 DEF Ordered
  <2>2. n + 1 \in Positions /\ n + 1 = Wrap(g - t, bufsize)
    BY <1>1, <1>3, <1>6, <2>1, SMTT(30) DEF Wrap
  <2>3. Wrap(e - k, CharMod) = n + 1
    <3>1. n + 1 < CharMod /\ CharMod \in Nat \ {0} /\ a \in 0 .. CharMod - 1 /\ k \in 0 .. CharMod - 1
      BY <1>1, <2>2, SMT
    <3>2. QED BY <1>4, <2>1, <3>1, WrapStep, SMT
  <2>4. QED BY <2>2, <2>3
<1>8. ASSUME NEW i \in 0 .. n
      PROVE  c[Wrap(t + i, bufsize)] = Wrap(k + i, CharMod)
  <2>1. Wrap(t + i, bufsize) \in Positions /\ (Wrap(t + i, bufsize) = h <=> i = n)
    BY <1>1, <1>2, <1>7, SMTT(30) DEF Ordered, Wrap
  <2>2. CASE i = n
    <3>1. Wrap(k + n, CharMod) = a
      BY <1>1, <1>2, SMTT(30) DEF Ordered, Wrap
    <3>2. QED BY <1>5, <2>1, <2>2, <3>1
  <2>3. CASE i # n
    <3>1. i \in 0 .. n - 1
      BY <1>1, <2>3, SMT
    <3>2. QED BY <1>2, <1>5, <2>1, <2>3, <3>1 DEF Ordered
  <2>4. QED BY <2>2, <2>3
<1>9. Ordered(c, g, t, e, k, n + 1)
  <2>1. (n + 1) - 1 = n
    BY <1>1, SMT
  <2>2. QED BY <1>7, <1>8, <2>1 DEF Ordered
<1>10. Fifo(c, g, t, e, k)
  BY <1>7, <1>9, SpellOut
<1>11. QED BY <1>3, <1>4, <1>5, <1>10

(* ioq_getchar on a queue that is not empty takes the oldest character. *)
LEMMA GetKeepsOrder ==
  ASSUME NEW bf \in [Positions -> Chars], NEW h \in Positions, NEW t \in Positions,
         NEW a \in Chars, NEW k \in Chars, Fifo(bf, h, t, a, k), h # t
  PROVE  /\ next_pos(t) \in Positions /\ (k + 1) % CharMod \in Chars
         /\ Fifo(bf, h, next_pos(t), a, (k + 1) % CharMod)
<1>1. /\ bufsize \in Nat \ {0, 1} /\ CharMod \in Nat \ {0} /\ CharMod = 2 * bufsize
      /\ Positions = 0 .. bufsize - 1 /\ Chars = 0 .. CharMod - 1
  BY IoqAssumption, SMT DEF CharMod, Positions, Chars
<1>2. PICK n \in Positions : Ordered(bf, h, t, a, k, n)
  BY SpellOut
<1>3. PICK g \in Positions : g = next_pos(t) /\ g = Wrap(t + 1, bufsize)
  BY <1>1, NextWrap DEF next_pos
<1>4. PICK e \in Chars : e = (k + 1) % CharMod /\ e = Wrap(k + 1, CharMod)
  BY <1>1, NextWrap
<1>5. n - 1 \in Positions /\ n - 1 = Wrap(h - g, bufsize) /\ Wrap(a - e, CharMod) = n - 1
  <2>1. n = Wrap(h - t, bufsize) /\ Wrap(a - k, CharMod) = n
    BY <1>2 DEF Ordered
  <2>2. n - 1 \in Positions /\ n - 1 = Wrap(h - g, bufsize)
    BY <1>1, <1>3, <2>1, SMT DEF Wrap
  <2>3. Wrap(a - e, CharMod) = n - 1
    <3>1. n > 0 /\ CharMod \in Nat \ {0} /\ a \in 0 .. CharMod - 1 /\ k \in 0 .. CharMod - 1
      BY <1>1, <2>2, SMT
    <3>2. QED BY <1>4, <2>1, <3>1, WrapStep, SMT
  <2>4. QED BY <2>2, <2>3
<1>6. ASSUME NEW i \in 0 .. (n - 1) - 1
      PROVE  bf[Wrap(g + i, bufsize)] = Wrap(e + i, CharMod)
  <2>1. i + 1 \in 0 .. n - 1 /\ i \in Nat /\ i + 1 < bufsize
    BY <1>1, <1>5, SMT
  <2>2. Wrap(g + i, bufsize) = Wrap(t + (i + 1), bufsize)
    BY <1>1, <1>3, <2>1, SMT DEF Wrap
  <2>3. Wrap(e + i, CharMod) = Wrap(k + (i + 1), CharMod)
    <3>1. i + 1 < CharMod /\ CharMod \in Nat \ {0} /\ a \in 0 .. CharMod - 1 /\ k \in 0 .. CharMod - 1
      BY <1>1, <2>1, SMT
    <3>2. QED BY <1>4, <2>1, <3>1, WrapStep, SMT
  <2>4. QED BY <1>2, <2>1, <2>2, <2>3 DEF Ordered
<1>7. Ordered(bf, h, g, a, e, n - 1)
  BY <1>5, <1>6 DEF Ordered
<1>8. Fifo(bf, h, g, a, e)
  BY <1>5, <1>7, SpellOut
<1>9. QED BY <1>3, <1>4, <1>8

-----------------------------------------------------------------------------
(* The threads.                                                            *)

RingOK ==
  /\ buf \in [Positions -> Chars] /\ head \in Positions /\ tail \in Positions
  /\ accepted \in Chars /\ taken \in Chars /\ FirstInFirstOut

(* IoInv part by part. *)
LEMMA IoParts ==
  IoInv <=> /\ LockInv(Nest) /\ UsersOK /\ SlotsAgree /\ RingOK
            /\ slot \in [Sides -> Threads \cup {NoThread}]
            /\ io \in [Threads -> {"out", "loop", "wait", "woken"}]
BY DEF IoInv, TypeOK, LockInv, RingOK

LEMMA IoPartsNext ==
  ASSUME /\ LockInv(Nest)' /\ UsersOK' /\ SlotsAgree' /\ RingOK'
         /\ slot' \in [Sides -> Threads \cup {NoThread}]
         /\ io' \in [Threads -> {"out", "loop", "wait", "woken"}]
  PROVE  IoInv'
BY DEF IoInv, TypeOK, LockInv, RingOK

(* Only threads other than idle use the queue. *)
LEMMA UsersNotIdle ==
  ASSUME UsersOK
  PROVE  Consumers \cup Producers \subseteq Threads \ {Idle}
BY IoqAssumption DEF UsersOK

(* A running thread does not sleep. *)
LEMMA RunnerAwake ==
  ASSUME NEW n, LockInv(n), NEW t \in Threads, Runs(t)
  PROVE  t \notin Sleepers
BY RunningFacts DEF Sleepers

(* A step that the queue does not see. *)
LEMMA QuietStep ==
  ASSUME IoInv, NEW n, n = Nest, LockInv(n)', Sleepers' = Sleepers, UNCHANGED <<ioqvars, users>>
  PROVE  IoInv'
<1>1. UNCHANGED <<buf, head, tail, slot, io, accepted, taken, Consumers, Producers>>
  BY DEF ioqvars, users
<1>2. LockInv(Nest)'
  <2>1. Nest' = n
    BY <1>1 DEF Nest
  <2>2. QED BY <2>1
<1>3. /\ UsersOK /\ SlotsAgree /\ RingOK /\ slot \in [Sides -> Threads \cup {NoThread}]
      /\ io \in [Threads -> {"out", "loop", "wait", "woken"}]
  BY IoParts
<1>4. UsersOK' /\ SlotsAgree'
  BY <1>1, <1>3 DEF UsersOK, SlotsAgree, Side
<1>5. RingOK'
  BY <1>1, <1>3 DEF RingOK, FirstInFirstOut
<1>6. QED BY <1>1, <1>2, <1>3, <1>4, <1>5, IoPartsNext

(* The thread t moves to p without a look at the slots or the ring. *)
Moves(t, p) ==
  /\ Runs(t) /\ io' = [io EXCEPT ![t] = p] /\ p \in {"out", "loop", "wait", "woken"}
  /\ t \in Consumers \cup Producers
  /\ UNCHANGED <<buf, head, tail, slot, accepted, taken, users>>

LEMMA MoveStep ==
  ASSUME IoInv, NEW t \in Threads, NEW p, Moves(t, p), LockInv(Nest)', Sleepers' = Sleepers
  PROVE  IoInv'
<1>1. /\ UNCHANGED <<buf, head, tail, slot, accepted, taken, Consumers, Producers>>
      /\ Runs(t) /\ io' = [io EXCEPT ![t] = p] /\ p \in {"out", "loop", "wait", "woken"}
      /\ t \in Consumers \cup Producers
  BY DEF Moves, users
<1>2. /\ UsersOK /\ SlotsAgree /\ RingOK /\ slot \in [Sides -> Threads \cup {NoThread}]
      /\ io \in [Threads -> {"out", "loop", "wait", "woken"}] /\ LockInv(Nest)
  BY IoParts
<1>3. /\ io' \in [Threads -> {"out", "loop", "wait", "woken"}]
      /\ \A u \in Threads : u # t => io'[u] = io[u]
  BY <1>1, <1>2
<1>4. UsersOK'
  BY <1>1, <1>2, <1>3 DEF UsersOK
<1>5. SlotsAgree'
  <2>1. t \notin Sleepers /\ Sleepers \subseteq Threads
    BY <1>1, <1>2, RunnerAwake DEF Sleepers
  <2>2. QED BY <1>1, <1>2, <1>3, <2>1, SMTT(30) DEF SlotsAgree, Side
<1>6. RingOK'
  BY <1>1, <1>2 DEF RingOK, FirstInFirstOut
<1>7. QED BY <1>1, <1>2, <1>3, <1>4, <1>5, <1>6, IoPartsNext

(* The caller turns interrupts off. *)
LEMMA EnterInv ==
  ASSUME IoInv, NEW t \in Threads, Enter(t), UNCHANGED users
  PROVE  IoInv'
<1>1. LockInv(Nest) /\ io \in [Threads -> {"out", "loop", "wait", "woken"}]
  BY IoParts
<1>2. /\ Runs(t) /\ io[t] = "out" /\ io' = [io EXCEPT ![t] = "loop"] /\ cli' = cli \cup {t}
      /\ UNCHANGED <<sched, value, waiters, holder, repeat, lk, la, idlepc>>
  BY DEF Enter, InIoq, At, IoGoto
<1>3. Moves(t, "loop")
  BY <1>2 DEF Moves, Enter
<1>4. Nest' = Nest
  BY <1>1, <1>2 DEF Nest
<1>5. /\ cli' \in SUBSET Threads /\ idlepc' \in {"block", "sti", "hlt"} /\ SchedOK(sched')
      /\ Sleepers' = Sleepers
  BY <1>1, <1>2 DEF LockInv, SyncTypeOK, Sleepers
<1>6. LockInv(Nest)'
  <2>1. PICK n : n = Nest
    OBVIOUS
  <2>2. LockInv(n)'
    BY <1>1, <1>2, <1>5, <2>1, ScheduleStep
  <2>3. QED BY <1>4, <2>1, <2>2
<1>7. QED BY <1>3, <1>5, <1>6, MoveStep

(* The queue is empty, or full: lock_acquire is called. *)
LEMMA AcquireInv ==
  ASSUME IoInv, NEW t \in Threads, Acquire(t), UNCHANGED users
  PROVE  IoInv'
<1>1. /\ LockInv(Nest) /\ io \in [Threads -> {"out", "loop", "wait", "woken"}] /\ UsersOK
      /\ cli \in SUBSET Threads
  BY IoParts DEF LockInv, SyncTypeOK
<1>2. /\ Runs(t) /\ io[t] = "loop" /\ io' = [io EXCEPT ![t] = "wait"] /\ UNCHANGED cli
      /\ lock_acquire(t, Ioq)
  BY DEF Acquire, InIoq, At, IoGoto
<1>3. t \in Consumers \cup Producers /\ t # Idle
  BY <1>1, <1>2, UsersNotIdle DEF UsersOK
<1>4. Moves(t, "wait")
  BY <1>2, <1>3 DEF Moves, Acquire
<1>5. Ioq \in Locks
  BY IoqAssumption
<1>6. Nest' = [Nest EXCEPT ![t][Ioq] = @ + 1]
  <2>1. Locks = {Ioq}
    BY IoqAssumption
  <2>2. QED BY <1>1, <1>2, <2>1, SMT DEF Nest
<1>7. LockInv(Nest)'
  <2>1. PICK n : n = Nest
    OBVIOUS
  <2>2. PICK m : m = [n EXCEPT ![t][Ioq] = @ + 1]
    OBVIOUS
  <2>3. cli' \in SUBSET Threads /\ LockInv(n)
    BY <1>1, <1>2, <2>1
  <2>4. LockInv(m)'
    BY <1>2, <1>3, <1>5, <2>2, <2>3, LockAcquireCall
  <2>5. Nest' = m
    BY <1>6, <2>1, <2>2
  <2>6. QED BY <2>4, <2>5
<1>8. Sleepers' = Sleepers
  BY <1>1, <1>2, OtherStepFrame DEF lock_acquire
<1>9. QED BY <1>4, <1>7, <1>8, MoveStep

(* Back from ioq_wait: lock_release is called. *)
LEMMA ReleaseInv ==
  ASSUME IoInv, NEW t \in Threads, Release(t), UNCHANGED users
  PROVE  IoInv'
<1>1. /\ LockInv(Nest) /\ io \in [Threads -> {"out", "loop", "wait", "woken"}] /\ UsersOK
      /\ cli \in SUBSET Threads
  BY IoParts DEF LockInv, SyncTypeOK
<1>2. /\ Runs(t) /\ io[t] = "woken" /\ io' = [io EXCEPT ![t] = "loop"] /\ UNCHANGED cli
      /\ lock_release(t, Ioq)
  BY DEF Release, InIoq, At, IoGoto
<1>3. t \in Consumers \cup Producers /\ t # Idle
  BY <1>1, <1>2, UsersNotIdle DEF UsersOK
<1>4. Moves(t, "loop")
  BY <1>2, <1>3 DEF Moves, Release
<1>5. Ioq \in Locks /\ Nest[t][Ioq] > 0
  BY <1>2, IoqAssumption, SMT DEF Nest
<1>6. Nest' = [Nest EXCEPT ![t][Ioq] = @ - 1]
  <2>1. Locks = {Ioq}
    BY IoqAssumption
  <2>2. QED BY <1>1, <1>2, <2>1, SMTT(30) DEF Nest
<1>7. LockInv(Nest)'
  <2>1. PICK n : n = Nest
    OBVIOUS
  <2>2. PICK m : m = [n EXCEPT ![t][Ioq] = @ - 1]
    OBVIOUS
  <2>3. cli' \in SUBSET Threads /\ LockInv(n) /\ n[t][Ioq] > 0
    BY <1>1, <1>2, <1>5, <2>1
  <2>4. LockInv(m)'
    BY <1>2, <1>3, <1>5, <2>2, <2>3, LockReleaseCall
  <2>5. Nest' = m
    BY <1>6, <2>1, <2>2
  <2>6. QED BY <2>4, <2>5
<1>8. Sleepers' = Sleepers
  BY <1>1, <1>2, OtherStepFrame DEF lock_release
<1>9. QED BY <1>4, <1>7, <1>8, MoveStep

(* A thread outside sync.c on the way to ioq_wait or back holds the lock.  *)
LEMMA WaiterHolds ==
  ASSUME LockInv(Nest), NEW t \in Threads, lk[t] = "out", io[t] \in {"wait", "woken"}
  PROVE  holder[Ioq] = t /\ la[t] = NoSema /\ t # Idle
<1>1. Ioq \in Locks /\ NoSema # Ioq /\ Nest[t][Ioq] = 1
  BY IoqAssumption, SyncAssumption DEF Nest
<1>2. PICK n : n = Nest
  OBVIOUS
<1>3. ThreadView(n, t) /\ LockView(n, t, Ioq) /\ n[t][Ioq] = 1
  BY <1>1, <1>2 DEF LockInv
<1>4. la[t] = NoSema /\ t # Idle
  BY <1>1, <1>3, SMTT(30) DEF ThreadView
<1>5. holder[Ioq] = t
  BY <1>1, <1>3, <1>4, SMT DEF LockView
<1>6. QED BY <1>4, <1>5

(* ioq_wait: the slot is free, since a thread that sleeps in a slot holds  *)
(* the lock, as the caller does.                                           *)
LEMMA WaitInv ==
  ASSUME IoInv, NEW t \in Threads, ioq_wait(t), UNCHANGED users
  PROVE  IoInv'
<1>1. /\ LockInv(Nest) /\ UsersOK /\ SlotsAgree /\ RingOK
      /\ slot \in [Sides -> Threads \cup {NoThread}]
      /\ io \in [Threads -> {"out", "loop", "wait", "woken"}]
      /\ cli \in SUBSET Threads /\ idlepc \in {"block", "sti", "hlt"} /\ SchedOK(sched)
  BY IoParts DEF LockInv, SyncTypeOK
<1>2. /\ Runs(t) /\ lk[t] = "out" /\ io[t] = "wait" /\ io' = [io EXCEPT ![t] = "woken"]
      /\ slot' = [slot EXCEPT ![Side(t)] = t]
      /\ sched' = IF slot[Side(t)] # NoThread THEN Panic(sched) ELSE thread_block(sched)
      /\ UNCHANGED <<value, waiters, holder, repeat, lk, la, cli, idlepc>>
      /\ UNCHANGED <<buf, head, tail, accepted, taken, Consumers, Producers>>
  BY DEF ioq_wait, InIoq, At, IoGoto, users
<1>3. holder[Ioq] = t /\ la[t] = NoSema /\ t # Idle /\ Side(t) \in Sides /\ sched.cur = t
  BY <1>1, <1>2, WaiterHolds DEF Side, Sides, Runs
<1>4. Sleepers = {}
  <2>1. t \notin Sleepers
    BY <1>1, <1>2, RunnerAwake
  <2>2. ASSUME NEW u \in Sleepers PROVE FALSE
    <3>1. u \in Threads /\ lk[u] = "out" /\ io[u] = "woken"
      BY <1>1 DEF SlotsAgree, Sleepers
    <3>2. holder[Ioq] = u
      BY <1>1, <3>1, WaiterHolds
    <3>3. QED BY <1>3, <2>1, <3>2
  <2>3. QED BY <2>2
<1>5. \A r \in Sides : slot[r] = NoThread
  BY <1>1, <1>4 DEF SlotsAgree
<1>6. SchedOK(sched') /\ Blocked(sched') \ {Idle} = (Blocked(sched) \cup {t}) \ {Idle}
  BY <1>1, <1>2, <1>3, <1>5, BlockProperties
<1>7. LockInv(Nest)'
  <2>1. PICK n : n = Nest
    OBVIOUS
  <2>2. \A u \in Threads : u # Idle /\ la[u] # NoSema =>
          (sched'.status[u] = "BLOCKED" <=> sched.status[u] = "BLOCKED")
    BY <1>3, <1>6, SMT DEF Blocked
  <2>3. cli' \in SUBSET Threads /\ idlepc' \in {"block", "sti", "hlt"}
    BY <1>1, <1>2
  <2>4. LockInv(n)'
    BY <1>1, <1>2, <1>6, <2>1, <2>2, <2>3, ScheduleStep
  <2>5. Nest' = n
    BY <1>1, <1>2, <2>1 DEF Nest
  <2>6. QED BY <2>4, <2>5
<1>8. Sleepers' = {t}
  BY <1>2, <1>3, <1>4, <1>6 DEF Sleepers, Blocked
<1>9. /\ io' \in [Threads -> {"out", "loop", "wait", "woken"}] /\ io'[t] = "woken"
      /\ \A u \in Threads : io'[u] # "out" => io[u] # "out"
      /\ slot' \in [Sides -> Threads \cup {NoThread}] /\ slot'[Side(t)] = t
      /\ \A r \in Sides : slot'[r] # NoThread => r = Side(t)
  BY <1>1, <1>2, <1>3, <1>5
<1>10. UsersOK' /\ SlotsAgree'
  <2>1. \A u : Side(u)' = Side(u)
    BY <1>2 DEF Side
  <2>2. SlotsAgree'
    BY <1>8, <1>9, <2>1 DEF SlotsAgree
  <2>3. UsersOK'
    BY <1>1, <1>2, <1>9 DEF UsersOK
  <2>4. QED BY <2>2, <2>3
<1>11. RingOK'
  BY <1>1, <1>2 DEF RingOK, FirstInFirstOut
<1>12. QED BY <1>7, <1>9, <1>10, <1>11, IoPartsNext

(* wakeup finds a blocked thread in the slot, or none. *)
LEMMA WakeupFacts ==
  ASSUME LockInv(Nest), SlotsAgree, slot \in [Sides -> Threads \cup {NoThread}],
         NEW r \in Sides, wakeup(r)
  PROVE  /\ SchedOK(sched') /\ slot' = [slot EXCEPT ![r] = NoThread]
         /\ \A u \in Threads : sched'.status[u] = "BLOCKED" <=>
                               sched.status[u] = "BLOCKED" /\ u # slot[r]
         /\ slot[r] \in Threads => la[slot[r]] = NoSema
<1>1. SchedOK(sched) /\ NoThread \notin Threads
  BY SyncAssumption DEF LockInv
<1>2. CASE slot[r] = NoThread
  BY <1>1, <1>2 DEF wakeup
<1>3. CASE slot[r] # NoThread
  <2>1. PICK u \in Threads : u = slot[r]
    BY <1>3
  <2>2. u \in Sleepers /\ sched.status[u] = "BLOCKED" /\ lk[u] = "out" /\ u # Idle
    BY <1>3, <2>1 DEF SlotsAgree, Sleepers
  <2>3. PICK n : n = Nest
    OBVIOUS
  <2>4. ThreadView(n, u)
    BY <2>3 DEF LockInv
  <2>5. la[u] = NoSema
    BY <2>2, <2>4 DEF ThreadView
  <2>6. sched' = thread_unblock(sched, u) /\ slot' = [slot EXCEPT ![r] = NoThread]
    BY <1>3, <2>1 DEF wakeup
  <2>7. QueueOK(sched)
    BY <1>1 DEF SchedOK, QueueOK
  <2>8. /\ QueueOK(sched') /\ sched'.cur = sched.cur
        /\ Blocked(sched') = Blocked(sched) \ {u}
        /\ \A v \in Threads : sched'.status[v] = "RUNNING" <=> sched.status[v] = "RUNNING"
    BY <2>2, <2>6, <2>7, UnblockProperties
  <2>9. SchedOK(sched')
    BY <1>1, <2>8 DEF SchedOK, QueueOK
  <2>10. \A v \in Threads : sched'.status[v] = "BLOCKED" <=>
                            sched.status[v] = "BLOCKED" /\ v # u
    BY <2>8 DEF Blocked
  <2>11. QED BY <2>1, <2>5, <2>6, <2>9, <2>10
<1>4. QED BY <1>2, <1>3

(* A character moves and the other side is woken; a thread of the queue    *)
(* may leave it at the same time.                                          *)
Wakes(r) ==
  /\ wakeup(r) /\ UNCHANGED <<value, waiters, holder, repeat, lk, la, users>>
  /\ cli' \in SUBSET Threads /\ idlepc' \in {"block", "sti", "hlt"}
  /\ \/ UNCHANGED io
     \/ \E t \in Threads : Runs(t) /\ io[t] = "loop" /\ io' = [io EXCEPT ![t] = "out"]

LEMMA WakeStep ==
  ASSUME IoInv, NEW r \in Sides, Wakes(r), RingOK'
  PROVE  IoInv'
<1>1. /\ LockInv(Nest) /\ UsersOK /\ SlotsAgree
      /\ slot \in [Sides -> Threads \cup {NoThread}]
      /\ io \in [Threads -> {"out", "loop", "wait", "woken"}]
  BY IoParts
<1>2. /\ wakeup(r) /\ UNCHANGED <<value, waiters, holder, repeat, lk, la>>
      /\ cli' \in SUBSET Threads /\ idlepc' \in {"block", "sti", "hlt"}
      /\ UNCHANGED <<Consumers, Producers>>
  BY DEF Wakes, users
<1>3. /\ io' \in [Threads -> {"out", "loop", "wait", "woken"}]
      /\ \A t \in Threads : /\ io'[t] # "out" => io[t] # "out"
                            /\ t \in Sleepers => io'[t] = io[t]
                            /\ io'[t] \in {"wait", "woken"} <=> io[t] \in {"wait", "woken"}
  <2>1. CASE UNCHANGED io
    BY <1>1, <2>1
  <2>2. CASE \E t \in Threads : Runs(t) /\ io[t] = "loop" /\ io' = [io EXCEPT ![t] = "out"]
    <3>1. PICK t \in Threads : Runs(t) /\ io[t] = "loop" /\ io' = [io EXCEPT ![t] = "out"]
      BY <2>2
    <3>2. t \notin Sleepers
      BY <1>1, <3>1, RunnerAwake
    <3>3. QED BY <1>1, <3>1, <3>2
  <2>3. QED BY <2>1, <2>2 DEF Wakes
<1>4. /\ SchedOK(sched') /\ slot' = [slot EXCEPT ![r] = NoThread]
      /\ \A u \in Threads : sched'.status[u] = "BLOCKED" <=>
                            sched.status[u] = "BLOCKED" /\ u # slot[r]
      /\ slot[r] \in Threads => la[slot[r]] = NoSema
  BY <1>1, <1>2, WakeupFacts
<1>5. LockInv(Nest)'
  <2>1. PICK n : n = Nest
    OBVIOUS
  <2>2. \A u \in Threads : u # Idle /\ la[u] # NoSema =>
          (sched'.status[u] = "BLOCKED" <=> sched.status[u] = "BLOCKED")
    BY <1>4
  <2>3. LockInv(n)'
    BY <1>1, <1>2, <1>4, <2>1, <2>2, ScheduleStep
  <2>4. Nest' = n
    BY <1>3, <2>1 DEF Nest
  <2>5. QED BY <2>3, <2>4
<1>6. Sleepers' = Sleepers \ {slot[r]}
  BY <1>2, <1>4 DEF Sleepers
<1>7. UsersOK'
  BY <1>1, <1>2, <1>3 DEF UsersOK
<1>8. SlotsAgree'
  <2>1. \A u : Side(u)' = Side(u)
    BY <1>2 DEF Side
  <2>2. Sleepers \subseteq Threads /\ \A u : Side(u) \in Sides
    BY DEF Sleepers, Side, Sides
  <2>3. ASSUME NEW u \in Sleepers, u # slot[r] PROVE io'[u] = "woken" /\ slot'[Side(u)] = u
    <3>1. io[u] = "woken" /\ slot[Side(u)] = u /\ io'[u] = io[u]
      BY <1>1, <1>3, <2>2, <2>3 DEF SlotsAgree
    <3>2. QED BY <1>1, <1>4, <2>2, <2>3, <3>1
  <2>4. ASSUME NEW q \in Sides, slot'[q] # NoThread
        PROVE  slot'[q] \in Sleepers \ {slot[r]} /\ Side(slot'[q]) = q
    <3>1. q # r /\ slot'[q] = slot[q]
      BY <1>1, <1>4, <2>4
    <3>2. slot[q] \in Sleepers /\ Side(slot[q]) = q
      BY <1>1, <2>4, <3>1 DEF SlotsAgree
    <3>3. slot[r] # slot[q]
      BY <1>1, <2>4, <3>1, <3>2 DEF SlotsAgree
    <3>4. QED BY <3>1, <3>2, <3>3
  <2>5. QED BY <1>6, <2>1, <2>3, <2>4 DEF SlotsAgree
<1>9. QED BY <1>1, <1>3, <1>4, <1>5, <1>7, <1>8, IoPartsNext

(* The ring after ioq_putchar and after ioq_getchar. *)
LEMMA PutRing ==
  ASSUME RingOK, ~ioq_full, ioq_put
  PROVE  RingOK'
<1>1. /\ buf' = [buf EXCEPT ![head] = accepted] /\ head' = next_pos(head)
      /\ accepted' = (accepted + 1) % CharMod /\ tail' = tail /\ taken' = taken
      /\ next_pos(head) # tail
  BY DEF ioq_put, ioq_full
<1>2. /\ buf \in [Positions -> Chars] /\ head \in Positions /\ tail \in Positions
      /\ accepted \in Chars /\ taken \in Chars /\ Fifo(buf, head, tail, accepted, taken)
  BY DEF RingOK, FirstInFirstOut, Fifo
<1>3. /\ buf' \in [Positions -> Chars] /\ head' \in Positions /\ accepted' \in Chars
      /\ Fifo(buf', head', tail', accepted', taken')
  <2>1. /\ [buf EXCEPT ![head] = accepted] \in [Positions -> Chars]
        /\ next_pos(head) \in Positions /\ (accepted + 1) % CharMod \in Chars
        /\ Fifo([buf EXCEPT ![head] = accepted], next_pos(head), tail,
                (accepted + 1) % CharMod, taken)
    BY <1>1, <1>2, PutKeepsOrder
  <2>2. QED BY <1>1, <2>1
<1>4. FirstInFirstOut'
  BY <1>3 DEF FirstInFirstOut, Fifo
<1>5. QED BY <1>1, <1>2, <1>3, <1>4 DEF RingOK

LEMMA GetRing ==
  ASSUME RingOK, ~ioq_empty, ioq_get
  PROVE  RingOK'
<1>1. /\ buf' = buf /\ head' = head /\ accepted' = accepted
      /\ tail' = next_pos(tail) /\ taken' = (taken + 1) % CharMod /\ head # tail
  BY DEF ioq_get, ioq_empty
<1>2. /\ buf \in [Positions -> Chars] /\ head \in Positions /\ tail \in Positions
      /\ accepted \in Chars /\ taken \in Chars /\ Fifo(buf, head, tail, accepted, taken)
  BY DEF RingOK, FirstInFirstOut, Fifo
<1>3. /\ tail' \in Positions /\ taken' \in Chars
      /\ Fifo(buf', head', tail', accepted', taken')
  BY <1>1, <1>2, GetKeepsOrder
<1>4. FirstInFirstOut'
  BY <1>3 DEF FirstInFirstOut, Fifo
<1>5. QED BY <1>1, <1>2, <1>3, <1>4 DEF RingOK

(* The end of ioq_getchar or ioq_putchar. *)
LEMMA TransferInv ==
  ASSUME IoInv, NEW t \in Threads, Transfer(t), UNCHANGED users
  PROVE  IoInv'
<1>1. RingOK /\ cli \in SUBSET Threads /\ idlepc \in {"block", "sti", "hlt"}
  BY IoParts DEF LockInv, SyncTypeOK
<1>2. /\ Runs(t) /\ io[t] = "loop" /\ io' = [io EXCEPT ![t] = "out"] /\ cli' = cli \ {t}
      /\ UNCHANGED <<value, waiters, holder, repeat, lk, la, users>> /\ UNCHANGED idlepc
  BY DEF Transfer, InIoq, At, IoGoto
<1>3. ASSUME NEW r \in Sides, wakeup(r) PROVE Wakes(r)
  BY <1>1, <1>2, <1>3 DEF Wakes
<1>4. CASE t \in Consumers
  <2>1. ioq_get /\ ~ioq_empty
    BY <1>4 DEF Transfer, MustWait
  <2>2. Wakes("producer") /\ "producer" \in Sides
    BY <1>3, <2>1 DEF ioq_get, Sides
  <2>3. RingOK'
    BY <1>1, <2>1, GetRing
  <2>4. QED BY <2>2, <2>3, WakeStep
<1>5. CASE t \notin Consumers
  <2>1. ioq_put /\ ~ioq_full
    BY <1>5 DEF Transfer, MustWait
  <2>2. Wakes("consumer") /\ "consumer" \in Sides
    BY <1>3, <2>1 DEF ioq_put, Sides
  <2>3. RingOK'
    BY <1>1, <2>1, PutRing
  <2>4. QED BY <2>2, <2>3, WakeStep
<1>6. QED BY <1>4, <1>5

(* The keyboard interrupt. *)
LEMMA KeyboardInv ==
  ASSUME IoInv, intr_keyboard_handler
  PROVE  IoInv'
<1>1. /\ RingOK /\ cli \in SUBSET Threads /\ idlepc \in {"block", "sti", "hlt"}
      /\ LockInv(Nest) /\ SchedOK(sched)
  BY IoParts DEF LockInv, SyncTypeOK
<1>2. /\ UNCHANGED <<value, waiters, holder, repeat, lk, la, users>> /\ cli' \in SUBSET Threads
      /\ idlepc' \in {"block", "sti", "hlt"}
  BY <1>1 DEF intr_keyboard_handler, LeaveHalt
<1>3. CASE ioq_full
  <2>1. UNCHANGED sched /\ UNCHANGED <<ioqvars, users>>
    BY <1>3 DEF intr_keyboard_handler
  <2>2. PICK n : n = Nest
    OBVIOUS
  <2>3. SchedOK(sched') /\ \A u \in Threads : u # Idle /\ la[u] # NoSema =>
          (sched'.status[u] = "BLOCKED" <=> sched.status[u] = "BLOCKED")
    BY <1>1, <2>1
  <2>4. LockInv(n)'
    BY <1>1, <1>2, <2>2, <2>3, ScheduleStep
  <2>5. Sleepers' = Sleepers
    BY <1>2, <2>1 DEF Sleepers
  <2>6. QED BY <2>1, <2>2, <2>4, <2>5, QuietStep
<1>4. CASE ~ioq_full
  <2>1. ioq_put /\ UNCHANGED io
    BY <1>4 DEF intr_keyboard_handler
  <2>2. Wakes("consumer") /\ "consumer" \in Sides
    BY <1>2, <2>1 DEF Wakes, ioq_put, Sides
  <2>3. RingOK'
    BY <1>1, <1>4, <2>1, PutRing
  <2>4. QED BY <2>2, <2>3, WakeStep
<1>5. QED BY <1>3, <1>4

(* Steps of a thread or of the clock that do not touch the queue. *)
LEMMA ElsewhereInv ==
  ASSUME IoInv, UNCHANGED <<ioqvars, users>>,
         \/ Tick \/ idle
         \/ \E t \in Threads : SyncStep(t) \/ kernel_thread(t)
         \/ UNCHANGED <<sched, value, waiters, holder, repeat, lk, la, cli, idlepc>>
  PROVE  IoInv'
<1>1. LockInv(Nest)
  BY IoParts
<1>2. PICK n : n = Nest
  OBVIOUS
<1>3. LockInv(n)
  BY <1>1, <1>2
<1>4. ASSUME UNCHANGED <<sched, value, waiters, holder, repeat, lk, la, idlepc>>,
             cli' \subseteq cli
      PROVE  LockInv(n)' /\ Sleepers' = Sleepers
  <2>1. /\ cli' \in SUBSET Threads /\ idlepc' \in {"block", "sti", "hlt"} /\ SchedOK(sched')
        /\ \A u \in Threads : u # Idle /\ la[u] # NoSema =>
             (sched'.status[u] = "BLOCKED" <=> sched.status[u] = "BLOCKED")
    BY <1>3, <1>4 DEF LockInv, SyncTypeOK
  <2>2. LockInv(n)'
    BY <1>3, <1>4, <2>1, ScheduleStep
  <2>3. Sleepers' = Sleepers
    BY <1>4 DEF Sleepers
  <2>4. QED BY <2>2, <2>3
<1>5. LockInv(n)' /\ Sleepers' = Sleepers
  <2>1. CASE Tick
    BY <1>3, <2>1, TickInv, OtherStepFrame
  <2>2. CASE idle
    BY <1>3, <2>2, IdleInv, OtherStepFrame
  <2>3. ASSUME NEW t \in Threads, SyncStep(t) PROVE LockInv(n)' /\ Sleepers' = Sleepers
    BY <1>3, <2>3, SyncStepInv, SyncStepFrame
  <2>4. ASSUME NEW t \in Threads, kernel_thread(t) PROVE LockInv(n)' /\ Sleepers' = Sleepers
    BY <1>4, <2>4 DEF kernel_thread
  <2>5. CASE UNCHANGED <<sched, value, waiters, holder, repeat, lk, la, cli, idlepc>>
    BY <1>4, <2>5
  <2>6. QED BY <2>1, <2>2, <2>3, <2>4, <2>5
<1>6. QED BY <1>2, <1>5, QuietStep

-----------------------------------------------------------------------------
(* The state after ioqueue_init. *)
LEMMA IoInitInv == Init => IoInv
<1> SUFFICES ASSUME Init PROVE IoInv
  OBVIOUS
<1>1. /\ SyncInit /\ buf = [i \in Positions |-> 0] /\ head = 0 /\ tail = 0
      /\ slot = [r \in Sides |-> NoThread] /\ io = [t \in Threads |-> "out"]
      /\ accepted = 0 /\ taken = 0
      /\ \E u \in Users : Consumers = u.consumers /\ Producers = u.producers
  BY DEF Init, ioqueue_init
<1>2. LockInv(Nest) /\ Blocked(sched) = {}
  <2>1. Nest = [t \in Threads |-> [l \in Locks |-> 0]]
    BY <1>1 DEF Nest
  <2>2. PICK n : n = Nest
    OBVIOUS
  <2>3. LockInv(n) /\ Blocked(sched) = {}
    BY <1>1, <2>1, <2>2, SyncInitInv
  <2>4. QED BY <2>2, <2>3
<1>3. SlotsAgree /\ UsersOK
  <2>1. Sleepers = {}
    BY <1>2 DEF Sleepers, Blocked
  <2>2. QED BY <1>1, <2>1 DEF SlotsAgree, UsersOK
<1>4. RingOK
  <2>1. bufsize \in Nat \ {0, 1} /\ CharMod = 2 * bufsize /\ CharMod \in Nat \ {0}
    BY IoqAssumption, SMT DEF CharMod
  <2>2. 0 \in Positions /\ 0 \in Chars
    BY <2>1, SMT DEF Positions, Chars
  <2>3. (head - tail) % bufsize = 0 /\ (accepted - taken) % CharMod = 0
    <3>1. head - tail = 0 /\ accepted - taken = 0
      BY <1>1, SMT
    <3>2. 0 % bufsize = 0 /\ 0 % CharMod = 0
      BY <2>1, SMT
    <3>3. QED BY <3>1, <3>2
  <2>4. FirstInFirstOut
    BY <2>3, SMT DEF FirstInFirstOut
  <2>5. QED BY <1>1, <2>2, <2>4 DEF RingOK
<1>5. QED BY <1>1, <1>2, <1>3, <1>4, IoParts

(* Every step preserves the invariant. *)
LEMMA IoNextInv == IoInv /\ [Next]_vars => IoInv'
<1> SUFFICES ASSUME IoInv, [Next]_vars PROVE IoInv'
  OBVIOUS
<1>1. CASE Clock
  BY <1>1, ElsewhereInv DEF Clock
<1>2. CASE intr_keyboard_handler
  BY <1>2, KeyboardInv
<1>3. ASSUME NEW t \in Threads, Step(t) PROVE IoInv'
  <2> UNCHANGED users
    BY <1>3 DEF Step
  <2>1. CASE Enter(t)
    BY <2>1, EnterInv
  <2>2. CASE Acquire(t)
    BY <2>2, AcquireInv
  <2>3. CASE ioq_wait(t)
    BY <2>3, WaitInv
  <2>4. CASE Release(t)
    BY <2>4, ReleaseInv
  <2>5. CASE Transfer(t)
    BY <2>5, TransferInv
  <2>6. CASE kernel_thread(t) /\ UNCHANGED ioqvars
    BY <2>6, ElsewhereInv
  <2>7. CASE SyncStep(t) /\ UNCHANGED ioqvars
    BY <2>7, ElsewhereInv
  <2>8. CASE idle /\ UNCHANGED ioqvars
    BY <2>8, ElsewhereInv
  <2>9. QED BY <1>3, <2>1, <2>2, <2>3, <2>4, <2>5, <2>6, <2>7, <2>8 DEF Step
<1>4. CASE UNCHANGED vars
  <2>1. /\ UNCHANGED <<ioqvars, users>>
        /\ UNCHANGED <<sched, value, waiters, holder, repeat, lk, la, cli, idlepc>>
    BY <1>4 DEF vars, ioqvars
  <2>2. QED BY <2>1, ElsewhereInv
<1>5. QED BY <1>1, <1>2, <1>3, <1>4 DEF Next

(* The inductive invariant of ioqueue.c on sync.c and the scheduler. *)
THEOREM QueueInvariance == Spec => []IoInv
BY IoInitInv, IoNextInv, PTL DEF Spec

(* No ASSERT of ioqueue.c, sync.c or thread.c fails, for any number of     *)
(* readers and writers and any size of the queue: ioq_wait finds its slot  *)
(* free and wakeup finds a thread that sleeps.                             *)
THEOREM NobodyPanics == Spec => []NoPanic
<1>1. IoInv => NoPanic
  <2>1. IoInv => SchedOK(sched)
    BY IoParts DEF LockInv
  <2>2. QED BY <2>1 DEF SchedOK, NoPanic
<1>2. QED BY <1>1, QueueInvariance, PTL

(* The ring of ioqueue.c keeps the order of the characters and loses none, *)
(* whoever waits, is woken or is interrupted by the keyboard meanwhile.    *)
THEOREM KeepsOrder == Spec => []FirstInFirstOut
<1>1. IoInv => FirstInFirstOut
  BY DEF IoInv
<1>2. QED BY <1>1, QueueInvariance, PTL
=============================================================================
