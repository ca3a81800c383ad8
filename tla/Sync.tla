-------------------------------- MODULE Sync --------------------------------
(***************************************************************************)
(* thread/sync.c on top of thread/thread.c: semaphores, recursive locks,   *)
(* the clock interrupt and the idle thread.                                *)
(*                                                                         *)
(* What runs with interrupts off is one action.  Everything else can be    *)
(* interrupted between two instructions, so lock_acquire and lock_release, *)
(* which touch holder and holder_repeat_nr with interrupts on, are cut     *)
(* into one action per access to shared state.  lk[t] says where in        *)
(* sync.c thread t is and la[t] the semaphore or lock it was called with:  *)
(*                                                                         *)
(*   out    not in sync.c            sema_down entered by lock_acquire or  *)
(*   check  holder == self?    down  by a direct call                      *)
(*   inc    holder_repeat_nr++ woken resumed in the loop of sema_down,     *)
(*   own    holder = self            interrupts still off                  *)
(*   count  holder_repeat_nr = 1                                           *)
(*   rel    holder == self?    clr   holder = NULL                         *)
(*   dec    holder_repeat_nr-- zero  holder_repeat_nr = 0                  *)
(*   up     sema_up                                                        *)
(*                                                                         *)
(* Modules that use locks extend this one and add their own variables.     *)
(***************************************************************************)
EXTENDS Sched

CONSTANTS
  Locks,      \* the locks, each with the semaphore inside it
  Semas,      \* the semaphores used directly
  NoThread,   \* NULL
  NoSema      \* la of a thread that is not in sync.c

ASSUME SyncAssumption ==
  /\ Locks \cap Semas = {}
  /\ NoThread \notin Threads
  /\ NoSema \notin Locks \cup Semas

VARIABLES
  sched,      \* the scheduler's state, see Sched
  value,      \* sema->value
  waiters,    \* sema->waiters
  holder,     \* lock->holder
  repeat,     \* lock->holder_repeat_nr
  lk, la,     \* position in sync.c and its argument, per thread
  cli,        \* threads that run (or will resume) with interrupts off
              \* because of code outside sync.c
  idlepc      \* where the idle thread is in its loop

semavars == <<value, waiters>>
lockvars == <<holder, repeat>>
syncvars == <<sched, value, waiters, holder, repeat, lk, la, cli, idlepc>>

AllSemas == Locks \cup Semas
LockPC == {"out", "check", "inc", "down", "woken", "own", "count",
           "rel", "dec", "clr", "zero", "up"}

SyncTypeOK ==
  /\ sched \in SchedState
  /\ value \in [AllSemas -> {0, 1}]
  /\ waiters \in [AllSemas -> Seq(Threads)]
  /\ holder \in [Locks -> Threads \cup {NoThread}]
  /\ repeat \in [Locks -> Nat]
  /\ lk \in [Threads -> LockPC]
  /\ la \in [Threads -> AllSemas \cup {NoSema}]
  /\ cli \in SUBSET Threads
  /\ idlepc \in {"block", "sti", "hlt"}

(* Locks start free (sema_init 1), the other semaphores at 0 (disk_done).  *)
(* A thread that has not run yet is switched to with interrupts off.       *)
LocksInit ==
  /\ value = [x \in AllSemas |-> IF x \in Locks THEN 1 ELSE 0]
  /\ waiters = [x \in AllSemas |-> <<>>]
  /\ holder = [l \in Locks |-> NoThread]
  /\ repeat = [l \in Locks |-> 0]
  /\ lk = [t \in Threads |-> "out"]
  /\ la = [t \in Threads |-> NoSema]
  /\ cli = Threads \ {Main}
  /\ idlepc = "block"

SyncInit == sched = SchedInit /\ LocksInit

-----------------------------------------------------------------------------
(* t is executing instructions. *)
Runs(t) == sched.cur = t /\ ~sched.panic
At(t, p) == Runs(t) /\ lk[t] = p
Goto(t, p) == lk' = [lk EXCEPT ![t] = p] /\ UNCHANGED la
Return(t) == lk' = [lk EXCEPT ![t] = "out"] /\ la' = [la EXCEPT ![t] = NoSema]

(* The interrupt flag of the running thread. *)
IntrOn == sched.cur \notin cli /\ lk[sched.cur] # "woken"

(* An ASSERT of code that runs with interrupts on. *)
Assert(P) == sched' = IF P THEN sched ELSE Panic(sched)

-----------------------------------------------------------------------------
(* A call from client code: an action of the client, which also says what  *)
(* becomes of cli.                                                         *)
Call(t, p, x) ==
  /\ At(t, "out")
  /\ lk' = [lk EXCEPT ![t] = p]
  /\ la' = [la EXCEPT ![t] = x]
  /\ UNCHANGED <<sched, value, waiters, holder, repeat, idlepc>>

lock_acquire(t, l) == Call(t, "check", l)
lock_release(t, l) == Call(t, "rel", l)

(* lock_acquire: if (plock->holder == running_thread()). *)
AcquireCheck(t) ==
  /\ At(t, "check")
  /\ Goto(t, IF holder[la[t]] = t THEN "inc" ELSE "down")
  /\ UNCHANGED <<sched, value, waiters, holder, repeat, cli, idlepc>>

AcquireAgain(t) ==
  /\ At(t, "inc")
  /\ repeat' = [repeat EXCEPT ![la[t]] = @ + 1]
  /\ Return(t)
  /\ UNCHANGED <<sched, value, waiters, holder, cli, idlepc>>

(* sema_down from its entry, or from where thread_block returns, up to the *)
(* next thread_block or to the end.                                        *)
sema_down(t) ==
  /\ Runs(t) /\ lk[t] \in {"down", "woken"}
  /\ LET x == la[t] IN
     \/ /\ value[x] = 0
        /\ waiters' = [waiters EXCEPT ![x] = Append(@, t)]
        /\ sched' = IF t \in Range(waiters[x]) THEN Panic(sched)
                    ELSE thread_block(sched)
        /\ Goto(t, "woken")
        /\ UNCHANGED value
     \/ /\ value[x] # 0
        /\ value' = [value EXCEPT ![x] = @ - 1]
        /\ Assert(value'[x] = 0)
        /\ (IF x \in Locks THEN Goto(t, "own") ELSE Return(t))
        /\ UNCHANGED waiters
  /\ UNCHANGED <<holder, repeat, cli, idlepc>>

SetHolder(t) ==
  /\ At(t, "own")
  /\ holder' = [holder EXCEPT ![la[t]] = t]
  /\ Goto(t, "count")
  /\ UNCHANGED <<sched, value, waiters, repeat, cli, idlepc>>

SetRepeat(t) ==
  /\ At(t, "count")
  /\ Assert(repeat[la[t]] = 0)
  /\ repeat' = [repeat EXCEPT ![la[t]] = 1]
  /\ Return(t)
  /\ UNCHANGED <<value, waiters, holder, cli, idlepc>>

(* A faulty variant: an outer acquire is taken for the last one. *)
ReleaseCheckEarly(t) ==
  /\ At(t, "rel")
  /\ Assert(holder[la[t]] = t /\ repeat[la[t]] >= 1)
  /\ Goto(t, IF repeat[la[t]] > 2 THEN "dec" ELSE "clr")
  /\ UNCHANGED <<value, waiters, holder, repeat, cli, idlepc>>

(* lock_release: the two ASSERTs and the test of holder_repeat_nr. *)
ReleaseCheck(t) ==
  /\ At(t, "rel")
  /\ Assert(holder[la[t]] = t /\ repeat[la[t]] >= 1)
  /\ Goto(t, IF repeat[la[t]] > 1 THEN "dec" ELSE "clr")
  /\ UNCHANGED <<value, waiters, holder, repeat, cli, idlepc>>

ReleaseOnce(t) ==
  /\ At(t, "dec")
  /\ repeat' = [repeat EXCEPT ![la[t]] = @ - 1]
  /\ Return(t)
  /\ UNCHANGED <<sched, value, waiters, holder, cli, idlepc>>

ClearHolder(t) ==
  /\ At(t, "clr")
  /\ holder' = [holder EXCEPT ![la[t]] = NoThread]
  /\ Goto(t, "zero")
  /\ UNCHANGED <<sched, value, waiters, repeat, cli, idlepc>>

(* A faulty variant: holder_repeat_nr is left as it was. *)
KeepRepeat(t) ==
  /\ At(t, "zero")
  /\ Goto(t, "up")
  /\ UNCHANGED <<sched, value, waiters, holder, repeat, cli, idlepc>>

ClearRepeat(t) ==
  /\ At(t, "zero")
  /\ repeat' = [repeat EXCEPT ![la[t]] = 0]
  /\ Goto(t, "up")
  /\ UNCHANGED <<sched, value, waiters, holder, cli, idlepc>>

(* A faulty variant: nobody is woken. *)
UpNoWake(x) ==
  /\ value' = [value EXCEPT ![x] = @ + 1]
  /\ UNCHANGED <<waiters, sched>>

(* sema_up on x: wakes the first waiter, if any, and adds one.  The woken  *)
(* thread is put at the front of the ready list; the caller keeps the CPU. *)
Up(x) ==
  /\ value' = [value EXCEPT ![x] = @ + 1]
  /\ waiters' = [waiters EXCEPT ![x] = IF @ = <<>> THEN @ ELSE Tail(@)]
  /\ sched' = IF value[x] # 0 THEN Panic(sched)
              ELSE IF waiters[x] = <<>> THEN sched
              ELSE thread_unblock(sched, Head(waiters[x]))

sema_up(t) ==
  /\ At(t, "up")
  /\ Up(la[t])
  /\ Return(t)
  /\ UNCHANGED <<holder, repeat, cli, idlepc>>

SyncStep(t) ==
  \/ AcquireCheck(t) \/ AcquireAgain(t) \/ sema_down(t)
  \/ SetHolder(t)    \/ SetRepeat(t)
  \/ ReleaseCheck(t) \/ ReleaseOnce(t) \/ ClearHolder(t) \/ ClearRepeat(t)
  \/ sema_up(t)

-----------------------------------------------------------------------------
(* kernel_thread: the first instructions of a new thread. *)
kernel_thread(t) ==
  /\ At(t, "out") /\ t \in cli
  /\ cli' = cli \ {t}
  /\ UNCHANGED <<sched, value, waiters, holder, repeat, lk, la, idlepc>>

(* The loop of idle: thread_block, then sti; hlt, which only an interrupt  *)
(* ends.  thread_block comes back with interrupts on, so the clock can     *)
(* strike before hlt is reached.                                           *)
IdleBlock ==
  /\ Runs(Idle) /\ Idle \notin cli /\ idlepc = "block"
  /\ sched' = thread_block(sched)
  /\ idlepc' = "sti"
  /\ UNCHANGED <<value, waiters, holder, repeat, lk, la, cli>>

IdleHalt ==
  /\ Runs(Idle) /\ idlepc = "sti"
  /\ idlepc' = "hlt"
  /\ UNCHANGED <<sched, value, waiters, holder, repeat, lk, la, cli>>

idle == IdleBlock \/ IdleHalt

(* What an interrupt does to the loop of idle besides its handler. *)
LeaveHalt ==
  idlepc' = IF sched.cur = Idle /\ idlepc = "hlt" THEN "block" ELSE idlepc

(* The clock interrupt, intr_timer_handler. *)
Tick ==
  /\ ~sched.panic /\ IntrOn
  /\ sched' = intr_timer_handler(sched)
  /\ LeaveHalt
  /\ UNCHANGED <<value, waiters, holder, repeat, lk, la, cli>>

(* thread_yield called outside sync.c. *)
Yield(t) ==
  /\ At(t, "out")
  /\ sched' = thread_yield(sched)
  /\ UNCHANGED <<value, waiters, holder, repeat, lk, la, cli, idlepc>>
-----------------------------------------------------------------------------
(* What sync.c keeps, whoever calls it: n[t][l] is the number of acquires  *)
(* of lock l that t has called, less the releases.  A client that knows n  *)
(* has LockInv(n) as a part of its inductive invariant.                    *)

(* No lost wakeup: a semaphore that is up while threads wait on it has     *)
(* already made one of them runnable, and that one will look again at      *)
(* value in the loop of sema_down.                                         *)
NoLostWakeup ==
  \A x \in AllSemas :
    value[x] = 1 /\ waiters[x] # <<>> =>
      \E t \in Threads :
        la[t] = x /\ lk[t] = "woken" /\ sched.status[t] # "BLOCKED"

(* t owns l from the decrement of the semaphore to its increment. *)
Owner(t, l) == holder[l] = t \/ (la[t] = l /\ lk[t] \in {"own", "zero", "up"})

(* What a lock looks like to a thread at each point of sync.c: how holder  *)
(* and holder_repeat_nr relate to the calls the thread has made.           *)
LockView(n, t, l) ==
  IF la[t] # l
  THEN IF n[t][l] = 0 THEN holder[l] # t ELSE holder[l] = t /\ repeat[l] = n[t][l]
  ELSE /\ lk[t] = "check" => \/ n[t][l] = 1 /\ holder[l] # t
                             \/ n[t][l] > 1 /\ holder[l] = t /\ repeat[l] = n[t][l] - 1
       /\ lk[t] = "inc" => n[t][l] > 1 /\ holder[l] = t /\ repeat[l] = n[t][l] - 1
       /\ lk[t] \in {"down", "woken"} => n[t][l] = 1 /\ holder[l] # t
       /\ lk[t] = "own" => n[t][l] = 1 /\ holder[l] = NoThread /\ repeat[l] = 0
       /\ lk[t] = "count" => n[t][l] = 1 /\ holder[l] = t /\ repeat[l] = 0
       /\ lk[t] = "rel" => holder[l] = t /\ repeat[l] = n[t][l] + 1
       /\ lk[t] = "dec" => n[t][l] > 0 /\ holder[l] = t /\ repeat[l] = n[t][l] + 1
       /\ lk[t] = "clr" => n[t][l] = 0 /\ holder[l] = t /\ repeat[l] = 1
       /\ lk[t] = "zero" => n[t][l] = 0 /\ holder[l] = NoThread
       /\ lk[t] = "up" => n[t][l] = 0 /\ holder[l] = NoThread /\ repeat[l] = 0

(* Where a thread can be: idle stays out of sync.c, a semaphore that is    *)
(* not in a lock is only waited for, and in sync.c only sema_down blocks.  *)
ThreadView(n, t) ==
  /\ lk[t] = "out" <=> la[t] = NoSema
  /\ la[t] \in Semas => lk[t] \in {"down", "woken"}
  /\ t = Idle => lk[t] = "out" /\ \A l \in Locks : n[t][l] = 0
  /\ sched.status[t] = "BLOCKED" /\ lk[t] # "out" => lk[t] = "woken"

(* A lock whose semaphore is up has no owner and a clear count; a lock has *)
(* one owner at most.                                                      *)
OneOwner(l) ==
  /\ value[l] = 1 => repeat[l] = 0 /\ \A t \in Threads : ~Owner(t, l)
  /\ \A t, u \in Threads : Owner(t, l) /\ Owner(u, l) => t = u

(* The threads that a client has blocked, outside sync.c. *)
Sleepers == {t \in Threads \ {Idle} : sched.status[t] = "BLOCKED" /\ lk[t] = "out"}

WaitersAgree ==
  \A x \in AllSemas :
    /\ IsInjective(waiters[x])
    /\ \A t \in Threads :
         t \in Range(waiters[x]) <=>
           t # Idle /\ sched.status[t] = "BLOCKED" /\ la[t] = x

LockInv(n) ==
  /\ SyncTypeOK /\ n \in [Threads -> [Locks -> Nat]]
  /\ SchedOK(sched)
  /\ WaitersAgree
  /\ \A t \in Threads : ThreadView(n, t)
  /\ \A t \in Threads, l \in Locks : LockView(n, t, l)
  /\ \A l \in Locks : OneOwner(l)
  /\ NoLostWakeup
=============================================================================
