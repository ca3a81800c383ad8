------------------------------- MODULE Sched -------------------------------
(***************************************************************************)
(* The scheduler of thread/thread.c as functions on the scheduler's state: *)
(* each operator takes the state before a call and returns the state after *)
(* it, so that a caller running with interrupts off (sema_down, sema_up,   *)
(* the timer handler ...) composes them into one atomic step.              *)
(*                                                                         *)
(* All of this code runs with the interrupt flag off on the one CPU, hence *)
(* its atomicity.  An ASSERT or PANIC of the code that fails sets panic    *)
(* (panic_spin in kernel/debug.c turns interrupts off and loops for ever); *)
(* what the state is besides is then irrelevant.                           *)
(***************************************************************************)
EXTENDS Integers, Sequences, Functions

CONSTANTS
  Threads,    \* the task_structs of the system
  Idle,       \* idle_thread
  Main,       \* main_thread
  Priority,   \* priority[t]: the time slice of t, in clock ticks
  StartOrder  \* the order of the thread_start calls; idle is the first

ASSUME ThreadAssumption ==
  /\ Idle \in Threads
  /\ Main \in Threads \ {Idle}
  /\ Priority \in [Threads -> Nat]
  /\ StartOrder \in Seq(Threads)
  /\ Len(StartOrder) > 0 /\ StartOrder[1] = Idle
  /\ Range(StartOrder) = Threads \ {Main} /\ IsInjective(StartOrder)

(* TASK_HANGING, TASK_WAITING and TASK_DIED are never given to a thread by *)
(* any caller in the repository.                                           *)
Status == {"RUNNING", "READY", "BLOCKED"}

SchedState ==
  [cur    : Threads,                 \* running_thread()
   status : [Threads -> Status],
   ready  : Seq(Threads),            \* thread_ready_list
   ticks  : [Threads -> Nat],        \* what is left of the time slice
   panic  : BOOLEAN]

Panic(s) == [s EXCEPT !.panic = TRUE]

(* After thread_init and the other thread_start calls: main runs, every    *)
(* other thread has been appended to the ready list.                       *)
SchedInit ==
  [cur    |-> Main,
   status |-> [t \in Threads |-> IF t = Main THEN "RUNNING" ELSE "READY"],
   ready  |-> StartOrder,
   ticks  |-> Priority,
   panic  |-> FALSE]

(* The scheduler's data agree with each other: one thread runs, the ready  *)
(* list holds each READY thread once and no other.                         *)
SchedOK(s) ==
  /\ s \in SchedState
  /\ ~s.panic
  /\ IsInjective(s.ready)
  /\ \A t \in Threads : s.status[t] = "RUNNING" <=> t = s.cur
  /\ \A t \in Threads : s.status[t] = "READY" <=> t \in Range(s.ready)

-----------------------------------------------------------------------------
(* thread_unblock pushes to the FRONT of the ready list. *)
thread_unblock(s, t) ==
  IF s.status[t] # "BLOCKED" \/ t \in Range(s.ready)
  THEN Panic(s)
  ELSE [s EXCEPT !.ready = <<t>> \o @, !.status[t] = "READY"]

(* Faulty variants: the running thread is requeued without a look at its   *)
(* status; a thread that has used up its slice goes to the front.          *)
RequeueAlways(s) ==
  [s EXCEPT !.ready = Append(@, s.cur), !.status[s.cur] = "READY"]
RequeueInFront(s) ==
  IF s.status[s.cur] # "RUNNING" THEN s
  ELSE [s EXCEPT !.ready = <<s.cur>> \o @,
                 !.ticks[s.cur] = Priority[s.cur],
                 !.status[s.cur] = "READY"]

(* The first part of schedule: a thread that is still RUNNING has used up  *)
(* its slice and goes to the back of the ready list with a new one.        *)
Requeue(s) ==
  IF s.status[s.cur] # "RUNNING" THEN s
  ELSE IF s.cur \in Range(s.ready) THEN Panic(s)
  ELSE [s EXCEPT !.ready = Append(@, s.cur),
                 !.ticks[s.cur] = Priority[s.cur],
                 !.status[s.cur] = "READY"]

(* The second part: the idle thread stands in when nobody is ready. *)
EnsureReady(s) ==
  IF s.ready = <<>> THEN thread_unblock(s, Idle) ELSE s

(* The third part: list_pop and switch_to. *)
SwitchTo(s) ==
  IF s.panic THEN s
  ELSE [s EXCEPT !.cur = Head(s.ready),
                 !.ready = Tail(s.ready),
                 !.status[Head(s.ready)] = "RUNNING"]

schedule(s) == SwitchTo(EnsureReady(Requeue(s)))

thread_block(s) == schedule([s EXCEPT !.status[s.cur] = "BLOCKED"])

(* thread_yield does not give the thread a new slice: schedule sees READY. *)
thread_yield(s) ==
  IF s.cur \in Range(s.ready) THEN Panic(s)
  ELSE schedule([s EXCEPT !.ready = Append(@, s.cur),
                          !.status[s.cur] = "READY"])

intr_timer_handler(s) ==
  IF s.ticks[s.cur] = 0 THEN schedule(s)
  ELSE [s EXCEPT !.ticks[s.cur] = @ - 1]
=============================================================================
