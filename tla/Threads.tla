------------------------------ MODULE Threads -------------------------------
(***************************************************************************)
(* Creation of threads and processes at run time (thread_start of          *)
(* thread/thread.c, process_execute of userprog/process.c) under the       *)
(* scheduler and the locks of Sync, with the lists as the pointers of      *)
(* List: every action of Sync that moves a thread between lists is taken   *)
(* together with the calls of list.c that the code makes for it.           *)
(*                                                                         *)
(* mk[t] is the position of t in a creation, new[t] the thread it makes:   *)
(*                                                                         *)
(*   out   no creation              walk   list_search of the ready list   *)
(*   inc, rel, ret  allocate_pid    link   list_append to it               *)
(*   dir   create_page_dir          walk2, link2  the same for the list    *)
(*   both  both lists, with                of all threads                  *)
(*         interrupts off: process_execute                                 *)
(***************************************************************************)
EXTENDS Sync, FiniteSets

CONSTANTS
  Procs,      \* the user processes among the threads
  Creators,   \* the threads that create others
  pid_lock,   \* as in thread.c
  Console,    \* a lock that threads use besides
  Programs    \* what may be going on: sets of "start", "execute", "lock"

ASSUME CreateAssumption ==
  /\ Procs \subseteq Threads \ {Idle, Main} /\ Creators \subseteq Threads \ Procs
  /\ Locks = {pid_lock, Console} /\ pid_lock # Console /\ Semas = {}
  /\ Programs \subseteq SUBSET {"start", "execute", "lock"}

VARIABLES
  mem,        \* the pointers of all lists
  all,        \* the threads put in thread_all_list, in order
  made,       \* the threads that have a task_struct
  mk, new,    \* see above
  item,       \* where the search of a creation is
  next_pid, pid,
  pgdir,      \* the processes that have a page directory in their task_struct
  cr3, esp0,  \* whose page directory and stack the CPU and the TSS have
  doing       \* the member of Programs, the same all the time

makevars == <<all, made, mk, new, item, next_pid, pid, pgdir>>
cpuvars == <<mem, cr3, esp0>>
vars == <<sched, value, waiters, holder, repeat, lk, la, cli, idlepc,
          mem, all, made, mk, new, item, next_pid, pid, pgdir, cr3, esp0, doing>>

(* general_tag and all_list_tag of a thread. *)
tag(t) == <<"general", t>>
all_tag(t) == <<"all", t>>
Bound == Cardinality(Threads) + 1       \* longer than any list
Tags == {tag(t) : t \in Threads} \cup {all_tag(t) : t \in Threads}

L == INSTANCE List WITH Lists <- {"ready", "all"} \cup Locks, Elems <- Tags, NULL <- NoThread

TypeOK ==
  /\ SyncTypeOK
  /\ mem \in L!Links
  /\ all \in Seq(Threads) /\ made \subseteq Threads
  /\ mk \in [Threads -> {"out", "inc", "rel", "ret", "walk", "link", "walk2", "link2", "dir", "both"}]
  /\ new \in [Threads -> Threads \cup {NoThread}]
  /\ item \in [Threads -> L!Nodes \cup {NoThread}]
  /\ next_pid \in Nat /\ pid \in [Threads -> Nat] /\ pgdir \subseteq Procs
  /\ cr3 \in Procs \cup {"kernel"} /\ esp0 \in Procs \cup {NoThread}

(* After thread_init: main runs, idle is ready; a thread that is yet to be *)
(* made has no status, the value given it here is never looked at.         *)
Init ==
  /\ sched = [SchedInit EXCEPT !.ready = <<Idle>>,
                 !.status = [t \in Threads |-> IF t \in {Main, Idle} THEN @[t] ELSE "BLOCKED"]]
  /\ LocksInit
  /\ mem = L!list_append(L!list_append(L!list_append(L!list_init,
                 "all", all_tag(Main)), "ready", tag(Idle)), "all", all_tag(Idle))
  /\ all = <<Main, Idle>> /\ made = {Main, Idle}
  /\ mk = [t \in Threads |-> "out"] /\ new = [t \in Threads |-> NoThread]
  /\ item = [t \in Threads |-> NoThread]
  /\ next_pid = 2
  /\ pid = [t \in Threads |-> IF t = Main THEN 1 ELSE IF t = Idle THEN 2 ELSE 0]
  /\ pgdir = {} /\ cr3 = "kernel" /\ esp0 = NoThread
  /\ doing \in Programs

-----------------------------------------------------------------------------
(* page_dir_activate and update_tss_esp, which threads without a page      *)
(* directory do not need.                                                  *)
process_activate(t) ==
  /\ cr3' = IF t \in pgdir THEN t ELSE "kernel"
  /\ esp0' = IF t \in pgdir THEN t ELSE esp0

(* schedule, called with the threads as in s and the pointers as in m; the *)
(* element that list_pop returns is inside the next task.                  *)
schedule_links(s, m) ==
  LET put == IF s.status[s.cur] = "RUNNING" THEN L!list_append(m, "ready", tag(s.cur)) ELSE m
      some == IF L!list_empty(put, "ready") THEN L!list_push(put, "ready", tag(Idle)) ELSE put IN
  /\ mem' = L!list_pop(some, "ready")
  /\ process_activate(L!first(some, "ready")[2])

Links(m) == mem' = m /\ UNCHANGED <<cr3, esp0>>

(* The actions of Sync with what they do to the pointers. *)
Clock ==
  /\ Tick
  /\ IF sched.ticks[sched.cur] = 0 THEN schedule_links(sched, mem) ELSE Links(mem)
  /\ UNCHANGED <<makevars, doing>>

Down(t) ==
  /\ sema_down(t)
  /\ IF value[la[t]] # 0 THEN Links(mem)
     ELSE schedule_links([sched EXCEPT !.status[t] = "BLOCKED"],
                         L!list_append(mem, la[t], tag(t)))
  /\ UNCHANGED <<makevars, doing>>

WakeUp(t) ==
  /\ sema_up(t)
  /\ LET x == la[t] IN
     Links(IF L!list_empty(mem, x) THEN mem
           ELSE L!list_push(L!list_pop(mem, x), "ready", L!first(mem, x)))
  /\ UNCHANGED <<makevars, doing>>

YieldCPU(t) ==
  /\ t \notin cli /\ mk[t] = "out" /\ Yield(t)
  /\ schedule_links([sched EXCEPT !.status[t] = "READY"], L!list_append(mem, "ready", tag(t)))
  /\ UNCHANGED <<makevars, doing>>

IdleLoop ==
  /\ \/ IdleBlock /\ schedule_links([sched EXCEPT !.status[Idle] = "BLOCKED"], mem)
     \/ IdleHalt /\ Links(mem)
  /\ UNCHANGED <<makevars, doing>>

(* The rest of Sync touches no list. *)
LockStep(t) ==
  /\ kernel_thread(t) \/ (SyncStep(t) /\ lk[t] \notin {"down", "woken", "up"})
  /\ UNCHANGED <<makevars, cpuvars, doing>>

(* Threads that use a lock of their own meanwhile, console_put_str. *)
Use(t) ==
  /\ "lock" \in doing /\ t \notin cli \cup {Idle} /\ mk[t] = "out"
  /\ IF holder[Console] = t THEN lock_release(t, Console) ELSE lock_acquire(t, Console)
  /\ UNCHANGED <<cli, makevars, cpuvars, doing>>

-----------------------------------------------------------------------------
Making(t, p) == At(t, "out") /\ mk[t] = p
MakeGoto(t, p) == mk' = [mk EXCEPT ![t] = p]

(* thread_start or process_execute, up to the lock of allocate_pid; the    *)
(* page of the task_struct is a matter of Memory.                          *)
Create(t, n) ==
  /\ t \in Creators /\ t \notin cli /\ Making(t, "out") /\ holder[Console] # t
  /\ (IF n \in Procs THEN "execute" ELSE "start") \in doing
  /\ n \notin made /\ \A u \in Threads : new[u] # n
  /\ new' = [new EXCEPT ![t] = n]
  /\ lock_acquire(t, pid_lock)
  /\ MakeGoto(t, "inc")
  /\ UNCHANGED <<cli, all, made, item, next_pid, pid, pgdir, cpuvars, doing>>

(* allocate_pid: the number is taken under the lock and read again after   *)
(* it, as the value to return.                                             *)
Increment(t) ==
  /\ Making(t, "inc")
  /\ next_pid' = next_pid + 1
  /\ MakeGoto(t, "rel")
  /\ UNCHANGED <<syncvars, all, made, new, item, pid, pgdir, cpuvars, doing>>

ReleasePid(t) ==
  /\ Making(t, "rel")
  /\ lock_release(t, pid_lock)
  /\ MakeGoto(t, "ret")
  /\ UNCHANGED <<cli, all, made, new, item, next_pid, pid, pgdir, cpuvars, doing>>

(* The task_struct that is filled in, with pgdir = NULL; p is what comes   *)
(* next.                                                                   *)
Filled(t, p) ==
  /\ Making(t, "ret")
  /\ pid' = [pid EXCEPT ![new[t]] = next_pid]
  /\ made' = made \cup {new[t]}
  /\ sched' = [sched EXCEPT !.status[new[t]] = "READY", !.ticks[new[t]] = Priority[new[t]]]
  /\ item' = [item EXCEPT ![t] = L!head("ready")]
  /\ MakeGoto(t, p)
  /\ UNCHANGED <<value, waiters, holder, repeat, lk, la, cli, idlepc, all, new, next_pid, pgdir, cpuvars, doing>>

(* A faulty variant: a process is in the lists before it has its pages. *)
init_threadBare(t) == Filled(t, IF new[t] \in Procs THEN "both" ELSE "walk")

(* The rest of init_thread, and thread_create. *)
init_thread(t) == Filled(t, IF new[t] \in Procs THEN "dir" ELSE "walk")

(* create_page_dir; the pages themselves are a matter of Memory. *)
create_page_dir(t) ==
  /\ Making(t, "dir")
  /\ pgdir' = pgdir \cup {new[t]}
  /\ MakeGoto(t, "both")
  /\ UNCHANGED <<syncvars, all, made, new, item, next_pid, pid, cpuvars, doing>>

(* One round of list_search with interrupts on.  A walk that has come to   *)
(* NULL, or to the end of another list, is not followed any further.       *)
Search(t, p, l, target, q) ==
  /\ Making(t, p) /\ item[t] \in Tags \cup {L!head(l)}
  /\ LET x == mem.next[item[t]] IN
     /\ Assert(x # target)
     /\ item' = [item EXCEPT ![t] = IF x = L!tail(l) THEN L!head("all") ELSE x]
     /\ MakeGoto(t, IF x = L!tail(l) THEN q ELSE p)
  /\ UNCHANGED <<value, waiters, holder, repeat, lk, la, cli, idlepc,
                 all, made, new, next_pid, pid, pgdir, cpuvars, doing>>

(* The two list_append of thread_start: the new thread may run after the   *)
(* first.                                                                  *)
LinkReady(t) ==
  /\ Making(t, "link")
  /\ sched' = [sched EXCEPT !.ready = Append(@, new[t])]
  /\ Links(L!list_append(mem, "ready", tag(new[t])))
  /\ MakeGoto(t, "walk2")
  /\ UNCHANGED <<value, waiters, holder, repeat, lk, la, cli, idlepc,
                 all, made, new, item, next_pid, pid, pgdir, doing>>

LinkAll(t) ==
  /\ Making(t, "link2")
  /\ all' = Append(all, new[t])
  /\ Links(L!list_append(mem, "all", all_tag(new[t])))
  /\ MakeGoto(t, "out")
  /\ new' = [new EXCEPT ![t] = NoThread] /\ item' = [item EXCEPT ![t] = NoThread]
  /\ UNCHANGED <<syncvars, made, next_pid, pid, pgdir, doing>>

thread_start(t) ==
  \/ Search(t, "walk", "ready", tag(new[t]), "link") \/ LinkReady(t)
  \/ Search(t, "walk2", "all", all_tag(new[t]), "link2") \/ LinkAll(t)

(* The end of process_execute: both lists with interrupts off. *)
process_execute(t) ==
  /\ Making(t, "both")
  /\ LET n == new[t]
         found == L!list_search(mem, "ready", tag(n), Bound) \/ L!list_search(mem, "all", all_tag(n), Bound) IN
     /\ sched' = IF found THEN Panic(sched) ELSE [sched EXCEPT !.ready = Append(@, n)]
     /\ Links(L!list_append(L!list_append(mem, "ready", tag(n)), "all", all_tag(n)))
     /\ all' = Append(all, n)
  /\ MakeGoto(t, "out")
  /\ new' = [new EXCEPT ![t] = NoThread] /\ item' = [item EXCEPT ![t] = NoThread]
  /\ UNCHANGED <<value, waiters, holder, repeat, lk, la, cli, idlepc, made, next_pid, pid, pgdir, doing>>

Step(t) ==
  \/ \E n \in Threads : Create(t, n)
  \/ Increment(t) \/ ReleasePid(t) \/ init_thread(t) \/ create_page_dir(t) \/ thread_start(t) \/ process_execute(t)
  \/ Use(t) \/ LockStep(t) \/ Down(t) \/ WakeUp(t) \/ (t # Idle /\ YieldCPU(t))
  \/ t = Idle /\ IdleLoop

Next == Clock \/ \E t \in Threads : Step(t)

Spec == Init /\ [][Next]_vars

(* As in LockClients. *)
FairSpec == Spec /\ SF_vars(Clock) /\ \A t \in Threads : SF_vars(Step(t))

-----------------------------------------------------------------------------
Tagged(s, f(_)) == [i \in DOMAIN s |-> f(s[i])]

(* Lists as pointers are the sequences that Sched and Sync take them for:  *)
(* in every state the pointers of the ready list, of the waiters of a lock *)
(* and of the list of all threads spell these threads, forward and         *)
(* backward, and a walk ends with them.                                    *)
ListsSpelled ==
  ~sched.panic =>
    \A l \in {"ready", "all"} \cup Locks :
      LET s == IF l = "all" THEN Tagged(all, all_tag)
               ELSE Tagged(IF l = "ready" THEN sched.ready ELSE waiters[l], tag) IN
      L!Spells(mem, l, s) /\ L!Walk(mem, l, Bound) = s

(* A creation comes to its end, although the clock may interrupt the       *)
(* search of thread_start at every step and threads move meanwhile: the    *)
(* walk neither leaves the ready list nor goes round in it.                *)
CreationEnds == \A t \in Creators : mk[t] # "out" ~> mk[t] = "out"

(* Where a thread can be: it has the CPU, a process with its own page      *)
(* directory and its own stack for interrupts; it is in the ready list; in *)
(* the waiters of a lock; nobody but its creator knows it yet; or it is    *)
(* idle and sleeps.                                                        *)
OnCPU(t) ==
  /\ sched.cur = t
  /\ cr3 = (IF t \in Procs THEN t ELSE "kernel")
  /\ t \in Procs => esp0 = t
Times(s, t) == Cardinality({i \in DOMAIN s : s[i] = t})
BeingMade(t) == \E u \in Creators : new[u] = t /\ mk[u] \in {"dir", "walk", "link", "both"}
IdleSleeps == sched.status[Idle] = "BLOCKED"
One(P) == IF P THEN 1 ELSE 0

(* No thread is lost or met twice, though creation, clock, locks and       *)
(* thread_yield hand threads from list to list and thread_start lets a     *)
(* thread go before it is done with it: whoever has a task_struct is in    *)
(* exactly one place, and whoever runs does so on its own pages.           *)
PlacedOnce ==
  ~sched.panic =>
    \A t \in made :
      Times(sched.ready, t) + Times(waiters[pid_lock], t) + Times(waiters[Console], t)
        + One(OnCPU(t)) + One(BeingMade(t)) + One(t = Idle /\ IdleSleeps) = 1

(* `the lock of the pid': no two threads have the same number. *)
PidsUnique == \A t, u \in made : pid[t] = pid[u] => t = u
=============================================================================
