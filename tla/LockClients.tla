---------------------------- MODULE LockClients ----------------------------
(***************************************************************************)
(* Kernel threads that use locks the way the callers of sync.c do: acquire *)
(* and release are paired, a lock may be acquired again by its holder      *)
(* (sys_malloc and the page allocators do), and no two different locks are *)
(* held at once (no function of the repository nests them).                *)
(***************************************************************************)
EXTENDS Sync

CONSTANT MaxNest    \* bound: how often a thread acquires a lock it holds

ASSUME NestAssumption == MaxNest \in Nat

VARIABLE nest       \* nest[t][l]: acquires of l called by t, less releases

vars == <<sched, value, waiters, holder, repeat, lk, la, cli, idlepc, nest>>

TypeOK ==
  /\ SyncTypeOK
  /\ nest \in [Threads -> [Locks -> 0 .. MaxNest]]

Init ==
  /\ SyncInit
  /\ nest = [t \in Threads |-> [l \in Locks |-> 0]]

Acquire(t, l) ==
  /\ t \notin cli
  /\ nest[t][l] < MaxNest
  /\ \A k \in Locks \ {l} : nest[t][k] = 0
  /\ lock_acquire(t, l)
  /\ nest' = [nest EXCEPT ![t][l] = @ + 1]
  /\ UNCHANGED cli

Release(t, l) ==
  /\ nest[t][l] > 0
  /\ lock_release(t, l)
  /\ nest' = [nest EXCEPT ![t][l] = @ - 1]
  /\ UNCHANGED cli

YieldCPU(t) == t \notin cli /\ Yield(t) /\ UNCHANGED nest

(* What thread t does next when it runs. *)
Step(t) ==
  \/ \E l \in Locks : t # Idle /\ (Acquire(t, l) \/ Release(t, l))
  \/ t # Idle /\ YieldCPU(t)
  \/ (kernel_thread(t) \/ SyncStep(t)) /\ UNCHANGED nest
  \/ t = Idle /\ idle /\ UNCHANGED nest

Clock == Tick /\ UNCHANGED nest

Next == Clock \/ \E t \in Threads : Step(t)

Spec == Init /\ [][Next]_vars

(* A thread that runs again and again executes instructions: a clock tick  *)
(* is 10 ms.  The clock keeps striking: the 8259A latches IRQ0 while the   *)
(* interrupt flag is off and delivers it when the flag is next on, so it   *)
(* is enough that interrupts are on again and again.                       *)
Fairness == SF_vars(Clock) /\ \A t \in Threads : SF_vars(Step(t))

FairSpec == Spec /\ Fairness

-----------------------------------------------------------------------------
(* No ASSERT or PANIC of thread.c and sync.c is ever reached: the lists,   *)
(* the statuses, the binary semaphore and the recursion count stay as the  *)
(* assertions of thread_unblock, schedule, thread_yield, sema_down,        *)
(* sema_up, lock_acquire and lock_release expect, whatever the clock       *)
(* interrupts.                                                             *)
NoPanic == ~sched.panic

(* t is between the return of its lock_acquire(l) and its call of the      *)
(* matching lock_release(l).                                               *)
Acquiring(t, l) ==
  la[t] = l /\ lk[t] \in {"check", "inc", "down", "woken", "own", "count"}
InCS(t, l) == nest[t][l] > (IF Acquiring(t, l) THEN 1 ELSE 0)

(* At most one thread is between lock_acquire and lock_release of a lock.  *)
MutualExclusion ==
  \A l \in Locks : \A t, u \in Threads : InCS(t, l) /\ InCS(u, l) => t = u

(* general_tag links a thread into the ready list or into one waiters      *)
(* list, never into two and never twice into one: a second insertion would *)
(* corrupt both lists.  The ready list holds exactly the READY threads,    *)
(* a blocked thread other than idle is in the waiters list of the          *)
(* semaphore it called sema_down on, and only the current thread runs.     *)
ListsAgree ==
  /\ IsInjective(sched.ready)
  /\ \A x \in AllSemas : IsInjective(waiters[x])
  /\ \A t \in Threads :
       /\ sched.status[t] = "RUNNING" <=> t = sched.cur
       /\ sched.status[t] = "READY" <=> t \in Range(sched.ready)
       /\ \A x \in AllSemas :
            t \in Range(waiters[x]) <=>
              t # Idle /\ sched.status[t] = "BLOCKED" /\ la[t] = x

(* Every ready thread gets the CPU, although thread_unblock lets woken     *)
(* threads overtake it at the front of the ready list: time slices are not *)
(* renewed when a thread blocks, so overtaking ends.                       *)
ReadyRuns ==
  \A t \in Threads : sched.status[t] = "READY" ~> sched.cur = t

-----------------------------------------------------------------------------
(* The inductive invariant behind the safety properties. *)

(* Where a client can be: a new thread is outside sync.c, and a thread     *)
(* uses one lock at a time.                                                *)
ClientView(t) ==
  /\ t \in cli => lk[t] = "out" /\ \A l \in Locks : nest[t][l] = 0
  /\ la[t] \in Locks \cup {NoSema}
  /\ \A l, k \in Locks : l # k /\ (nest[t][l] > 0 \/ la[t] = l) => nest[t][k] = 0

(* Scheduler, waiters and every thread's view of every lock agree, and     *)
(* only sema_down blocks.                                                  *)
IInv ==
  /\ TypeOK
  /\ LockInv(nest)
  /\ Sleepers = {}
  /\ \A t \in Threads : ClientView(t)

-----------------------------------------------------------------------------
(* sync.c implements the abstract Mutex.  A thread owns a lock from the    *)
(* decrement in sema_down to the increment in sema_up.                     *)
OwnerOf(l) ==
  IF \E t \in Threads : Owner(t, l)
  THEN CHOOSE t \in Threads : Owner(t, l) ELSE NoThread
Wanting(l) == {t \in Threads : la[t] = l /\ lk[t] \in {"down", "woken"}}

M == INSTANCE Mutex WITH owner <- [l \in Locks |-> OwnerOf(l)],
                         want  <- [l \in Locks |-> Wanting(l)]

(* Every step of the lock code is a request, a grant to a waiting thread   *)
(* of a lock that has no owner, a release by the owner, or invisible.      *)
MutexSafety == M!Spec

(* Every behaviour of the lock code is one of the abstract mutex,          *)
(* including that a free lock somebody waits for is granted.               *)
ImplementsMutex == M!FairSpec
=============================================================================
