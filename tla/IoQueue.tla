------------------------------ MODULE IoQueue ------------------------------
(***************************************************************************)
(* device/ioqueue.c, the ring buffer between the keyboard interrupt and    *)
(* the threads that read it, with threads that write to such a queue too.  *)
(*                                                                         *)
(* ioq_getchar and ioq_putchar run with interrupts off (they assert it),   *)
(* so another thread runs only where they block: in lock_acquire and in    *)
(* the thread_block of ioq_wait.  io[t] is the position of thread t:       *)
(*                                                                         *)
(*   out    not in ioqueue.c         wait   lock held, about to ioq_wait   *)
(*   loop   at the test of `while`   woken  back from ioq_wait             *)
(*                                                                         *)
(* Characters are numbered modulo CharMod in the order in which they are   *)
(* put, so that order and loss can be seen; accepted and taken count them. *)
(***************************************************************************)
EXTENDS Sync

CONSTANTS
  Ioq,        \* the lock of the queue
  Users,      \* who may use the queue: records of consumers and producers
  bufsize     \* 64 in ioqueue.h

ASSUME IoqAssumption ==
  /\ Locks = {Ioq}
  /\ \A u \in Users : /\ u.consumers \cup u.producers \subseteq Threads \ {Idle}
                      /\ u.consumers \cap u.producers = {}
  /\ bufsize \in Nat \ {0, 1}

VARIABLES
  buf, head, tail,  \* the ring
  slot,             \* the fields consumer and producer: the waiting threads
  io,
  accepted, taken,  \* characters put and got so far, modulo CharMod
  Consumers,        \* threads that call ioq_getchar, the same all the time
  Producers         \* threads that call ioq_putchar

ioqvars == <<buf, head, tail, slot, io, accepted, taken>>
users == <<Consumers, Producers>>
vars == <<sched, value, waiters, holder, repeat, lk, la, cli, idlepc,
          buf, head, tail, slot, io, accepted, taken, users>>

CharMod == 2 * bufsize
Positions == 0 .. bufsize - 1
Chars == 0 .. CharMod - 1
Sides == {"consumer", "producer"}

TypeOK ==
  /\ SyncTypeOK
  /\ buf \in [Positions -> Chars]
  /\ head \in Positions /\ tail \in Positions
  /\ slot \in [Sides -> Threads \cup {NoThread}]
  /\ io \in [Threads -> {"out", "loop", "wait", "woken"}]
  /\ accepted \in Chars /\ taken \in Chars

ioqueue_init ==
  /\ buf = [i \in Positions |-> 0]
  /\ head = 0 /\ tail = 0
  /\ slot = [r \in Sides |-> NoThread]

Init ==
  /\ SyncInit
  /\ ioqueue_init
  /\ io = [t \in Threads |-> "out"]
  /\ accepted = 0 /\ taken = 0
  /\ \E u \in Users : Consumers = u.consumers /\ Producers = u.producers

-----------------------------------------------------------------------------
(* A faulty variant: the test for a full queue does not wrap around. *)
ioq_fullNoWrap == head + 1 = tail

next_pos(pos) == (pos + 1) % bufsize
ioq_full == next_pos(head) = tail
ioq_empty == head = tail

Side(t) == IF t \in Consumers THEN "consumer" ELSE "producer"
MustWait(t) == IF t \in Consumers THEN ioq_empty ELSE ioq_full

IoGoto(t, p) == io' = [io EXCEPT ![t] = p]
InIoq(t, p) == At(t, "out") /\ io[t] = p

(* The caller turns interrupts off and calls ioq_getchar or ioq_putchar.   *)
Enter(t) ==
  /\ t \in Consumers \cup Producers
  /\ InIoq(t, "out") /\ t \notin cli
  /\ cli' = cli \cup {t}
  /\ IoGoto(t, "loop")
  /\ UNCHANGED <<sched, value, waiters, holder, repeat, lk, la, idlepc,
                 buf, head, tail, slot, accepted, taken>>

(* The queue is empty (full): lock_acquire in the body of the loop. *)
Acquire(t) ==
  /\ InIoq(t, "loop") /\ MustWait(t)
  /\ lock_acquire(t, Ioq)
  /\ IoGoto(t, "wait")
  /\ UNCHANGED <<cli, buf, head, tail, slot, accepted, taken>>

(* ioq_wait: the running thread puts itself in the slot and blocks. *)
ioq_wait(t) ==
  /\ InIoq(t, "wait")
  /\ sched' = IF slot[Side(t)] # NoThread THEN Panic(sched)
              ELSE thread_block(sched)
  /\ slot' = [slot EXCEPT ![Side(t)] = t]
  /\ IoGoto(t, "woken")
  /\ UNCHANGED <<value, waiters, holder, repeat, lk, la, cli, idlepc,
                 buf, head, tail, accepted, taken>>

Release(t) ==
  /\ InIoq(t, "woken")
  /\ lock_release(t, Ioq)
  /\ IoGoto(t, "loop")
  /\ UNCHANGED <<cli, buf, head, tail, slot, accepted, taken>>

(* Faulty variants: the slot is not cleared; the thread is not woken. *)
wakeupKeep(r) ==
  /\ sched' = IF slot[r] = NoThread THEN sched ELSE thread_unblock(sched, slot[r])
  /\ UNCHANGED slot
wakeupForget(r) == slot' = [slot EXCEPT ![r] = NoThread] /\ UNCHANGED sched

(* wakeup of the thread in slot r, if there is one. *)
wakeup(r) ==
  IF slot[r] = NoThread THEN UNCHANGED <<sched, slot>>
  ELSE /\ sched' = thread_unblock(sched, slot[r])
       /\ slot' = [slot EXCEPT ![r] = NoThread]

(* The rest of ioq_putchar, after its loop. *)
ioq_put ==
  /\ buf' = [buf EXCEPT ![head] = accepted]
  /\ head' = next_pos(head)
  /\ accepted' = (accepted + 1) % CharMod
  /\ wakeup("consumer")
  /\ UNCHANGED <<tail, taken>>

(* The rest of ioq_getchar, after its loop. *)
ioq_get ==
  /\ tail' = next_pos(tail)
  /\ taken' = (taken + 1) % CharMod
  /\ wakeup("producer")
  /\ UNCHANGED <<buf, head, accepted>>

(* The loop ends; the caller restores its interrupt flag. *)
Transfer(t) ==
  /\ InIoq(t, "loop") /\ ~MustWait(t)
  /\ (IF t \in Consumers THEN ioq_get ELSE ioq_put)
  /\ cli' = cli \ {t}
  /\ IoGoto(t, "out")
  /\ UNCHANGED <<value, waiters, holder, repeat, lk, la, idlepc>>

(* intr_keyboard_handler on a key that has a character: the character is   *)
(* dropped when the queue is full, so that ioq_putchar never blocks here.  *)
intr_keyboard_handler ==
  /\ ~sched.panic /\ IntrOn
  /\ IF ioq_full THEN UNCHANGED <<sched, ioqvars>> ELSE ioq_put /\ UNCHANGED io
  /\ LeaveHalt
  /\ UNCHANGED <<value, waiters, holder, repeat, lk, la, cli, users>>

-----------------------------------------------------------------------------
Step(t) ==
  /\ \/ Enter(t) \/ Acquire(t) \/ ioq_wait(t) \/ Release(t) \/ Transfer(t)
     \/ io[t] = "out" /\ kernel_thread(t) /\ UNCHANGED ioqvars
     \/ SyncStep(t) /\ UNCHANGED ioqvars
     \/ t = Idle /\ idle /\ UNCHANGED ioqvars
  /\ UNCHANGED users

Clock == Tick /\ UNCHANGED <<ioqvars, users>>

Next == Clock \/ intr_keyboard_handler \/ \E t \in Threads : Step(t)

Spec == Init /\ [][Next]_vars

(* As in LockClients; nobody has to press a key. *)
FairSpec == Spec /\ SF_vars(Clock) /\ \A t \in Threads : SF_vars(Step(t))

-----------------------------------------------------------------------------
(* No assertion fails: ioq_wait never finds another thread in its slot and *)
(* wakeup never wakes a thread that is not blocked, although the slot is   *)
(* written under the lock by the sleeper and without it by the waker.      *)
NoPanic == ~sched.panic

(* The queue keeps order: between tail and head lie exactly the characters *)
(* that were accepted and not yet taken, oldest first, so no character is  *)
(* lost, duplicated or overwritten when the indices wrap around.           *)
FirstInFirstOut ==
  LET n == (head - tail) % bufsize IN
  /\ (accepted - taken) % CharMod = n
  /\ \A i \in 0 .. n - 1 : buf[(tail + i) % bufsize] = (taken + i) % CharMod

(* Every character that readers of the keyboard find in the queue is taken *)
(* in the end: a reader that sleeps when it arrives is woken, and one that *)
(* waits for the lock does not keep the others from it.                    *)
EveryCharTaken ==
  \A i \in Positions : Producers = {} /\ tail = i /\ ~ioq_empty ~> tail # i

(* `the buffer is empty: block the consumer': no thread sleeps in ioq_wait *)
(* when it could go on, whoever uses the queue.                            *)
SleepsForAReason ==
  /\ slot["consumer"] # NoThread => ioq_empty
  /\ slot["producer"] # NoThread => ioq_full

(* A producer that found the queue full gets its character in. *)
ProducerReturns ==
  \A t \in Threads \ {Idle} : t \in Producers /\ io[t] # "out" ~> io[t] = "out"

-----------------------------------------------------------------------------
(* The inductive invariant behind NoPanic and FirstInFirstOut. *)

(* The lock is called for on the way to ioq_wait and given back after it. *)
Nest ==
  [t \in Threads |-> [l \in Locks |-> IF io[t] \in {"wait", "woken"} THEN 1 ELSE 0]]

(* The threads that sleep outside sync.c are those in the slots, each in   *)
(* the slot of its side.                                                   *)
SlotsAgree ==
  /\ \A t \in Sleepers : io[t] = "woken" /\ slot[Side(t)] = t
  /\ \A r \in Sides : slot[r] # NoThread => slot[r] \in Sleepers /\ Side(slot[r]) = r

UsersOK ==
  /\ \E u \in Users : Consumers = u.consumers /\ Producers = u.producers
  /\ \A t \in Threads : io[t] # "out" => t \in Consumers \cup Producers

IoInv == TypeOK /\ LockInv(Nest) /\ UsersOK /\ SlotsAgree /\ FirstInFirstOut
=============================================================================
