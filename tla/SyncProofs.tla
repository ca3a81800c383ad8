---------------------------- MODULE SyncProofs -----------------------------
(***************************************************************************)
(* What every operator of Sched preserves, for any set of threads and any  *)
(* priorities; then every action of Sync: each preserves LockInv(n), for   *)
(* any n, or turns it into LockInv of the new count. First the steps of    *)
(* lock_acquire and lock_release outside their semaphore, then the calls,  *)
(* sema_down and sema_up, the clock, thread_yield and idle.                *)
(***************************************************************************)
EXTENDS Sync, TLAPS

(* The prover of the leaves that name none, with time for a slow machine. *)
USE ZenonT(60)

-----------------------------------------------------------------------------
(* The scheduler.                                                          *)

(* list_append of a new element. *)
LEMMA AppendRange ==
  ASSUME NEW S, NEW q \in Seq(S), NEW e \in S
  PROVE  /\ Append(q, e) \in Seq(S) /\ Append(q, e) # <<>>
         /\ Range(Append(q, e)) = Range(q) \cup {e}
         /\ IsInjective(q) /\ e \notin Range(q) => IsInjective(Append(q, e))
<1>1. /\ Append(q, e) \in Seq(S) /\ Append(q, e) # <<>>
      /\ Len(Append(q, e)) = Len(q) + 1
      /\ \A i \in 1 .. Len(q) : Append(q, e)[i] = q[i]
      /\ Append(q, e)[Len(q) + 1] = e
  BY SMT
<1>2. Range(q) = {q[i] : i \in 1 .. Len(q)}
  BY SMT DEF Range
<1>3. Range(Append(q, e)) = {Append(q, e)[i] : i \in 1 .. Len(q) + 1}
  BY <1>1, SMT DEF Range
<1>4. Range(Append(q, e)) \subseteq Range(q) \cup {e}
  BY <1>1, <1>2, <1>3, SMT
<1>5. Range(q) \cup {e} \subseteq Range(Append(q, e))
  BY <1>1, <1>2, <1>3, SMT
<1>6. ASSUME IsInjective(q), e \notin Range(q)
      PROVE  IsInjective(Append(q, e))
  BY <1>1, <1>2, <1>6, SMT DEF IsInjective
<1>7. QED BY <1>1, <1>4, <1>5, <1>6

(* list_push of a new element. *)
LEMMA PushRange ==
  ASSUME NEW S, NEW q \in Seq(S), NEW e \in S
  PROVE  /\ <<e>> \o q \in Seq(S) /\ <<e>> \o q # <<>>
         /\ Range(<<e>> \o q) = Range(q) \cup {e}
         /\ IsInjective(q) /\ e \notin Range(q) => IsInjective(<<e>> \o q)
<1>1. /\ <<e>> \in Seq(S) /\ Len(<<e>>) = 1 /\ <<e>>[1] = e
  BY SMT
<1>2. /\ <<e>> \o q \in Seq(S)
      /\ Len(<<e>> \o q) = 1 + Len(q)
      /\ \A i \in 1 .. 1 + Len(q) :
           (<<e>> \o q)[i] = IF i <= 1 THEN e ELSE q[i - 1]
  BY <1>1, SMT
<1>3. <<e>> \o q # <<>>
  BY <1>2, SMT
<1>4. Range(<<e>> \o q) = Range(q) \cup {e}
  <2>1. Range(q) = {q[i] : i \in 1 .. Len(q)}
    BY SMT DEF Range
  <2>2. Range(<<e>> \o q) = {(<<e>> \o q)[i] : i \in 1 .. 1 + Len(q)}
    BY <1>2, SMTT(30) DEF Range
  <2>3. Range(<<e>> \o q) \subseteq Range(q) \cup {e}
    BY <1>2, <2>1, <2>2, SMT
  <2>4. e \in Range(<<e>> \o q)
    BY <1>2, <2>2, SMT
  <2>5. ASSUME NEW i \in 1 .. Len(q) PROVE q[i] \in Range(<<e>> \o q)
    <3>1. i + 1 \in 1 .. 1 + Len(q) /\ (<<e>> \o q)[i + 1] = q[i]
      BY <1>2, SMT
    <3>2. QED BY <2>2, <3>1
  <2>6. QED BY <2>1, <2>3, <2>4, <2>5
<1>5. ASSUME IsInjective(q), e \notin Range(q)
      PROVE  IsInjective(<<e>> \o q)
  BY <1>2, <1>5, SMT DEF Range, IsInjective
<1>6. QED BY <1>2, <1>3, <1>4, <1>5

(* list_pop of a non-empty list. *)
LEMMA PopRange ==
  ASSUME NEW S, NEW q \in Seq(S), q # <<>>, IsInjective(q)
  PROVE  /\ Head(q) \in S /\ Head(q) \in Range(q) /\ Tail(q) \in Seq(S)
         /\ Range(Tail(q)) = Range(q) \ {Head(q)}
         /\ IsInjective(Tail(q))
<1>1. /\ Len(q) \in Nat \ {0} /\ Head(q) = q[1] /\ Tail(q) \in Seq(S)
      /\ Len(Tail(q)) = Len(q) - 1
      /\ \A i \in 1 .. Len(q) - 1 : Tail(q)[i] = q[i + 1]
  BY SMT
<1>2. Range(q) = {q[i] : i \in 1 .. Len(q)}
  BY SMT DEF Range
<1>3. Range(Tail(q)) = {Tail(q)[i] : i \in 1 .. Len(q) - 1}
  <2>1. DOMAIN Tail(q) = 1 .. Len(Tail(q))
    BY <1>1, SMT
  <2>2. QED BY <1>1, <2>1 DEF Range
<1>4. Head(q) \in S /\ Head(q) \in Range(q)
  BY <1>1, <1>2, SMT
<1>5. \A i, j \in 1 .. Len(q) : q[i] = q[j] => i = j
  BY SMT DEF IsInjective
<1>6. IsInjective(Tail(q))
  BY <1>1, <1>5, SMT DEF IsInjective
<1>7. Range(Tail(q)) \subseteq Range(q) \ {Head(q)}
  BY <1>1, <1>2, <1>3, <1>5, SMT
<1>8. ASSUME NEW x \in Range(q) \ {Head(q)}
      PROVE  x \in Range(Tail(q))
  <2>1. PICK i \in 1 .. Len(q) : x = q[i]
    BY <1>2
  <2>2. i # 1 /\ i - 1 \in 1 .. Len(q) - 1 /\ Tail(q)[i - 1] = x
    BY <1>1, <2>1, SMT
  <2>3. QED BY <1>3, <2>2
<1>9. QED BY <1>1, <1>4, <1>6, <1>7, <1>8
-----------------------------------------------------------------------------
(* SchedOK without the clause about the current thread: what holds between *)
(* the parts of schedule.                                                  *)
QueueOK(s) ==
  /\ s \in SchedState
  /\ ~s.panic
  /\ IsInjective(s.ready)
  /\ \A t \in Threads : s.status[t] = "READY" <=> t \in Range(s.ready)

NobodyRuns(s) == \A t \in Threads : s.status[t] # "RUNNING"

Blocked(s) == {t \in Threads : s.status[t] = "BLOCKED"}

(* Unblocking a blocked thread fails no ASSERT, moves it to the ready list *)
(* and changes nothing else.                                               *)
LEMMA UnblockProperties ==
  ASSUME NEW s, QueueOK(s), NEW t \in Threads, s.status[t] = "BLOCKED"
  PROVE  LET r == thread_unblock(s, t) IN
         /\ QueueOK(r) /\ r.ready # <<>> /\ r.cur = s.cur
         /\ Blocked(r) = Blocked(s) \ {t}
         /\ \A u \in Threads : r.status[u] = "RUNNING" <=> s.status[u] = "RUNNING"
<1> DEFINE r == thread_unblock(s, t)
<1>1. t \notin Range(s.ready)
  BY DEF QueueOK
<1>2. r = [s EXCEPT !.ready = <<t>> \o @, !.status[t] = "READY"]
  BY <1>1 DEF thread_unblock
<1>3. s \in SchedState
  BY DEF QueueOK
<1>4. /\ r.cur = s.cur /\ r.ready = <<t>> \o s.ready /\ r.ticks = s.ticks
      /\ r.panic = s.panic /\ r.status = [s.status EXCEPT ![t] = "READY"]
      /\ r = [cur |-> r.cur, status |-> r.status, ready |-> r.ready,
              ticks |-> r.ticks, panic |-> r.panic]
  BY <1>2, <1>3 DEF SchedState
<1>5. /\ r.ready \in Seq(Threads) /\ r.ready # <<>>
      /\ Range(r.ready) = Range(s.ready) \cup {t}
      /\ IsInjective(r.ready)
  BY <1>1, <1>3, <1>4, PushRange, SMT DEF QueueOK, SchedState
<1>6. r \in SchedState
  BY <1>3, <1>4, <1>5 DEF SchedState, Status
<1>7. \A u \in Threads : r.status[u] = IF u = t THEN "READY" ELSE s.status[u]
  BY <1>3, <1>4 DEF SchedState
<1> HIDE DEF r
<1>8. QueueOK(r)
  BY <1>4, <1>5, <1>6, <1>7 DEF QueueOK
<1>9. /\ Blocked(r) = Blocked(s) \ {t}
      /\ \A u \in Threads : r.status[u] = "RUNNING" <=> s.status[u] = "RUNNING"
  BY <1>7 DEF Blocked
<1>10. QED BY <1>4, <1>5, <1>8, <1>9 DEF r

(* Appending the current thread to the ready list with status READY, as    *)
(* both schedule and thread_yield do; r may also have new time slices.     *)
LEMMA AppendCurProperties ==
  ASSUME NEW s, SchedOK(s), NEW r \in SchedState,
         r.ready = Append(s.ready, s.cur), r.panic = s.panic, r.cur = s.cur,
         r.status = [s.status EXCEPT ![s.cur] = "READY"]
  PROVE  /\ QueueOK(r) /\ NobodyRuns(r) /\ r.ready # <<>>
         /\ Blocked(r) = Blocked(s)
<1>1. s \in SchedState /\ s.cur \in Threads /\ s.ready \in Seq(Threads)
  BY DEF SchedOK, SchedState
<1>2. s.cur \notin Range(s.ready)
  BY <1>1 DEF SchedOK
<1>3. /\ r.ready # <<>> /\ IsInjective(r.ready)
      /\ Range(r.ready) = Range(s.ready) \cup {s.cur}
  BY <1>1, <1>2, AppendRange, SMT DEF SchedOK
<1>4. \A u \in Threads :
        r.status[u] = IF u = s.cur THEN "READY" ELSE s.status[u]
  BY <1>1 DEF SchedState
<1>5. QED
  BY <1>1, <1>3, <1>4, SMT DEF SchedOK, QueueOK, NobodyRuns, Blocked

(* The first part of schedule. *)
LEMMA RequeueProperties ==
  ASSUME NEW s, SchedOK(s)
  PROVE  LET r == Requeue(s) IN
         QueueOK(r) /\ NobodyRuns(r) /\ r.ready # <<>> /\ Blocked(r) = Blocked(s)
<1> DEFINE r == Requeue(s)
<1>1. /\ s \in SchedState /\ s.cur \in Threads /\ s.status[s.cur] = "RUNNING"
      /\ s.cur \notin Range(s.ready) /\ s.ready \in Seq(Threads)
  BY DEF SchedOK, SchedState
<1>2. r = [s EXCEPT !.ready = Append(@, s.cur),
                    !.ticks[s.cur] = Priority[s.cur],
                    !.status[s.cur] = "READY"]
  BY <1>1 DEF Requeue
<1>3. /\ r.cur = s.cur /\ r.ready = Append(s.ready, s.cur) /\ r.panic = s.panic
      /\ r.status = [s.status EXCEPT ![s.cur] = "READY"]
      /\ r.ticks = [s.ticks EXCEPT ![s.cur] = Priority[s.cur]]
      /\ r = [cur |-> r.cur, status |-> r.status, ready |-> r.ready,
              ticks |-> r.ticks, panic |-> r.panic]
  BY <1>1, <1>2 DEF SchedState
<1>4. r \in SchedState
  <2>1. r.ready \in Seq(Threads) /\ r.cur \in Threads /\ r.panic \in BOOLEAN
    BY <1>1, <1>3, AppendRange, SMT DEF SchedState
  <2>2. r.status \in [Threads -> Status]
    BY <1>1, <1>3 DEF SchedState, Status
  <2>3. r.ticks \in [Threads -> Nat]
    BY <1>1, <1>3, ThreadAssumption, SMT DEF SchedState
  <2> HIDE DEF r
  <2>4. QED BY <1>3, <2>1, <2>2, <2>3 DEF SchedState
<1> HIDE DEF r
<1>5. QED BY <1>3, <1>4, AppendCurProperties DEF r

(* EnsureReady: when no thread is ready and none runs, idle is blocked, so *)
(* the ASSERT of thread_unblock(idle_thread) holds.                        *)
LEMMA EnsureReadyProperties ==
  ASSUME NEW s, QueueOK(s), NobodyRuns(s)
  PROVE  LET r == EnsureReady(s) IN
         /\ QueueOK(r) /\ NobodyRuns(r) /\ r.ready # <<>>
         /\ Blocked(r) \ {Idle} = Blocked(s) \ {Idle}
         /\ s.ready # <<>> => r = s
<1>1. CASE s.ready # <<>>
  BY <1>1 DEF EnsureReady
<1>2. CASE s.ready = <<>>
  <2>1. Range(s.ready) = {}
    BY <1>2, SMT DEF Range
  <2>2. s.status[Idle] = "BLOCKED"
    BY <2>1, ThreadAssumption DEF QueueOK, NobodyRuns, SchedState, Status
  <2>3. EnsureReady(s) = thread_unblock(s, Idle)
    BY <1>2 DEF EnsureReady
  <2>4. Idle \in Threads
    BY ThreadAssumption
  <2> DEFINE r == thread_unblock(s, Idle)
  <2>5. /\ QueueOK(r) /\ r.ready # <<>> /\ Blocked(r) = Blocked(s) \ {Idle}
        /\ \A u \in Threads : r.status[u] = "RUNNING" <=> s.status[u] = "RUNNING"
    BY <2>2, <2>4, UnblockProperties
  <2> HIDE DEF r
  <2>6. NobodyRuns(r)
    BY <2>5 DEF NobodyRuns
  <2>7. EnsureReady(s) = r
    BY <2>3 DEF r
  <2>8. QED BY <1>2, <2>5, <2>6, <2>7
<1>3. QED BY <1>1, <1>2

(* The last part of schedule: the head of the ready list runs. *)
LEMMA SwitchToProperties ==
  ASSUME NEW s, QueueOK(s), NobodyRuns(s), s.ready # <<>>
  PROVE  SchedOK(SwitchTo(s)) /\ Blocked(SwitchTo(s)) = Blocked(s)
<1> DEFINE r == SwitchTo(s)
           h == Head(s.ready)
<1>1. s \in SchedState /\ s.ready \in Seq(Threads) /\ IsInjective(s.ready)
  BY DEF QueueOK, SchedState
<1>2. /\ h \in Threads /\ h \in Range(s.ready) /\ Tail(s.ready) \in Seq(Threads)
      /\ Range(Tail(s.ready)) = Range(s.ready) \ {h}
      /\ IsInjective(Tail(s.ready))
  BY <1>1, PopRange
<1>3. r = [s EXCEPT !.cur = h, !.ready = Tail(s.ready), !.status[h] = "RUNNING"]
  BY DEF SwitchTo, QueueOK
<1> HIDE DEF h
<1>4. /\ r.cur = h /\ r.ready = Tail(s.ready) /\ r.panic = s.panic
      /\ r.status = [s.status EXCEPT ![h] = "RUNNING"] /\ r.ticks = s.ticks
      /\ r = [cur |-> r.cur, status |-> r.status, ready |-> r.ready,
              ticks |-> r.ticks, panic |-> r.panic]
  BY <1>1, <1>3 DEF SchedState
<1>5. r \in SchedState
  BY <1>1, <1>2, <1>4, ZenonT(60) DEF SchedState, Status
<1> HIDE DEF r
<1>6. \A u \in Threads : r.status[u] = IF u = h THEN "RUNNING" ELSE s.status[u]
  BY <1>1, <1>4 DEF SchedState
<1>7. s.status[h] = "READY"
  BY <1>2 DEF QueueOK
<1>8. SchedOK(r)
  BY <1>2, <1>4, <1>5, <1>6, <1>7, SMT DEF SchedOK, QueueOK, NobodyRuns
<1>9. Blocked(r) = Blocked(s)
  BY <1>6, <1>7 DEF Blocked
<1>10. QED BY <1>8, <1>9 DEF r

(* schedule called by a running thread (the clock): nobody is blocked or   *)
(* unblocked, no ASSERT fails.                                             *)
LEMMA ScheduleProperties ==
  ASSUME NEW s, SchedOK(s)
  PROVE  SchedOK(schedule(s)) /\ Blocked(schedule(s)) = Blocked(s)
<1> DEFINE r == Requeue(s)
<1>1. QueueOK(r) /\ NobodyRuns(r) /\ r.ready # <<>> /\ Blocked(r) = Blocked(s)
  BY RequeueProperties
<1> HIDE DEF r
<1>2. EnsureReady(r) = r
  BY <1>1 DEF EnsureReady
<1>3. SchedOK(SwitchTo(r)) /\ Blocked(SwitchTo(r)) = Blocked(r)
  BY <1>1, SwitchToProperties
<1>4. schedule(s) = SwitchTo(r)
  BY <1>2 DEF schedule, r
<1>5. QED BY <1>1, <1>3, <1>4

(* thread_block: the caller becomes blocked; only idle can lose that       *)
(* status, when nobody else is ready.                                      *)
LEMMA BlockProperties ==
  ASSUME NEW s, SchedOK(s)
  PROVE  /\ SchedOK(thread_block(s))
         /\ Blocked(thread_block(s)) \ {Idle} = (Blocked(s) \cup {s.cur}) \ {Idle}
<1> DEFINE r == [s EXCEPT !.status[s.cur] = "BLOCKED"]
<1>1. s \in SchedState /\ s.cur \in Threads
  BY DEF SchedOK, SchedState
<1>2. /\ r.cur = s.cur /\ r.ready = s.ready /\ r.panic = s.panic
      /\ r.status = [s.status EXCEPT ![s.cur] = "BLOCKED"] /\ r \in SchedState
  BY <1>1 DEF SchedState, Status
<1> HIDE DEF r
<1>3. \A u \in Threads :
        r.status[u] = IF u = s.cur THEN "BLOCKED" ELSE s.status[u]
  BY <1>1, <1>2 DEF SchedState
<1>4. QueueOK(r) /\ NobodyRuns(r) /\ Blocked(r) = Blocked(s) \cup {s.cur}
  BY <1>1, <1>2, <1>3, SMT DEF SchedOK, QueueOK, NobodyRuns, Blocked
<1>5. Requeue(r) = r
  BY <1>1, <1>2, <1>3 DEF Requeue
<1> DEFINE e == EnsureReady(r)
<1>6. /\ QueueOK(e) /\ NobodyRuns(e) /\ e.ready # <<>>
      /\ Blocked(e) \ {Idle} = Blocked(r) \ {Idle}
  BY <1>4, EnsureReadyProperties
<1>7. thread_block(s) = SwitchTo(e)
  BY <1>5 DEF thread_block, schedule, r
<1> HIDE DEF e
<1>8. SchedOK(SwitchTo(e)) /\ Blocked(SwitchTo(e)) = Blocked(e)
  BY <1>6, SwitchToProperties
<1>9. QED BY <1>4, <1>6, <1>7, <1>8

(* thread_yield blocks nobody and fails no ASSERT. *)
LEMMA YieldProperties ==
  ASSUME NEW s, SchedOK(s)
  PROVE  SchedOK(thread_yield(s)) /\ Blocked(thread_yield(s)) = Blocked(s)
<1> DEFINE r == [s EXCEPT !.ready = Append(@, s.cur), !.status[s.cur] = "READY"]
<1>1. /\ s \in SchedState /\ s.cur \in Threads /\ s.ready \in Seq(Threads)
      /\ s.cur \notin Range(s.ready)
  BY DEF SchedOK, SchedState
<1>2. /\ r.cur = s.cur /\ r.ready = Append(s.ready, s.cur) /\ r.panic = s.panic
      /\ r.status = [s.status EXCEPT ![s.cur] = "READY"] /\ r \in SchedState
  BY <1>1, AppendRange DEF SchedState, Status
<1>3. thread_yield(s) = schedule(r)
  BY <1>1 DEF thread_yield
<1> HIDE DEF r
<1>4. QueueOK(r) /\ NobodyRuns(r) /\ r.ready # <<>> /\ Blocked(r) = Blocked(s)
  BY <1>2, AppendCurProperties
<1>5. Requeue(r) = r /\ EnsureReady(r) = r
  BY <1>1, <1>2, <1>4 DEF Requeue, EnsureReady, NobodyRuns
<1>6. schedule(r) = SwitchTo(r)
  BY <1>5 DEF schedule
<1>7. SchedOK(SwitchTo(r)) /\ Blocked(SwitchTo(r)) = Blocked(r)
  BY <1>4, SwitchToProperties
<1>8. QED BY <1>3, <1>4, <1>6, <1>7

(* The clock handler blocks nobody and fails no ASSERT. *)
LEMMA TimerProperties ==
  ASSUME NEW s, SchedOK(s)
  PROVE  /\ SchedOK(intr_timer_handler(s))
         /\ Blocked(intr_timer_handler(s)) = Blocked(s)
<1>1. CASE s.ticks[s.cur] = 0
  BY <1>1, ScheduleProperties DEF intr_timer_handler
<1>2. CASE s.ticks[s.cur] # 0
  <2>1. s \in SchedState /\ s.cur \in Threads /\ s.ticks \in [Threads -> Nat]
    BY DEF SchedOK, SchedState
  <2>2. PICK n \in Nat : n = s.ticks[s.cur] - 1
    BY <1>2, <2>1, SMT
  <2> DEFINE r == [s EXCEPT !.ticks[s.cur] = n]
  <2>3. intr_timer_handler(s) = r
    BY <1>2, <2>2 DEF intr_timer_handler
  <2>4. /\ r \in SchedState /\ r.cur = s.cur /\ r.status = s.status
        /\ r.ready = s.ready /\ r.panic = s.panic
    BY <2>1 DEF SchedState
  <2> HIDE DEF r
  <2>5. SchedOK(r) /\ Blocked(r) = Blocked(s)
    BY <2>4 DEF SchedOK, Blocked
  <2>6. QED BY <2>3, <2>5
<1>3. QED BY <1>1, <1>2

-----------------------------------------------------------------------------
(* Steps of one thread inside sync.c.                                      *)

(* Facts about the running thread. *)
LEMMA RunningFacts ==
  ASSUME NEW n, LockInv(n), NEW t \in Threads, Runs(t)
  PROVE  /\ sched \in SchedState /\ sched.cur = t
         /\ sched.status[t] = "RUNNING" /\ sched.status[t] # "BLOCKED"
BY DEF LockInv, SchedOK, Runs

(* What LockInv knows of one thread that is in sync.c with lock l. *)
LEMMA AtLock ==
  ASSUME NEW n, LockInv(n), NEW t \in Threads, lk[t] \notin {"out", "down", "woken"}
  PROVE  la[t] \in Locks /\ t # Idle /\ LockView(n, t, la[t]) /\ OneOwner(la[t])
<1>1. ThreadView(n, t) /\ la[t] \in AllSemas \cup {NoSema}
  BY DEF LockInv, SyncTypeOK
<1>2. la[t] \in Locks /\ t # Idle
  BY <1>1 DEF ThreadView, AllSemas
<1>3. QED BY <1>2 DEF LockInv

(* A step of t that leaves the scheduler and the semaphores alone and      *)
(* moves t to p, in or out of sync.c with the lock l.  Whoever changes     *)
(* holder or holder_repeat_nr owns the lock, so that no other view of it   *)
(* changes.                                                                *)
LocalStep(n, m, t, l, p, x, g, r, c) ==
  /\ Runs(t) /\ t # Idle /\ la[t] \in {l, NoSema} /\ lk[t] # "woken"
  /\ UNCHANGED <<sched, value, waiters, idlepc>> /\ cli' \in SUBSET Threads
  /\ p \in LockPC \ {"woken"} /\ x \in {l, NoSema} /\ (p = "out" <=> x = NoSema)
  /\ lk' = [lk EXCEPT ![t] = p] /\ la' = [la EXCEPT ![t] = x]
  /\ g \in {t, NoThread, holder[l]} /\ holder' = [holder EXCEPT ![l] = g]
  /\ r \in Nat /\ repeat' = [repeat EXCEPT ![l] = r]
  /\ c \in Nat /\ m = [n EXCEPT ![t][l] = c]
  /\ (g = holder[l] /\ r = repeat[l]) \/ Owner(t, l)

LEMMA LocalStepInv ==
  ASSUME NEW n, NEW m, NEW t \in Threads, NEW l \in Locks, NEW p, NEW x, NEW g, NEW r, NEW c,
         LockInv(n), LocalStep(n, m, t, l, p, x, g, r, c),
         LockView(m, t, l)', Owner(t, l)' => Owner(t, l)
  PROVE  LockInv(m)'
<1>1. /\ sched.status[t] # "BLOCKED" /\ l # NoSema /\ NoThread \notin Threads /\ l \in AllSemas
      /\ lk \in [Threads -> LockPC] /\ la \in [Threads -> AllSemas \cup {NoSema}]
      /\ holder \in [Locks -> Threads \cup {NoThread}] /\ repeat \in [Locks -> Nat]
      /\ n \in [Threads -> [Locks -> Nat]]
  <2>1. Runs(t)
    BY DEF LocalStep
  <2>2. sched.status[t] # "BLOCKED"
    BY <2>1, RunningFacts
  <2>3. l # NoSema /\ NoThread \notin Threads /\ l \in AllSemas
    BY SyncAssumption DEF AllSemas
  <2>4. QED BY <2>2, <2>3 DEF LockInv, SyncTypeOK
<1>2. /\ \A u \in Threads : u # t => la'[u] = la[u] /\ lk'[u] = lk[u] /\ m[u] = n[u]
      /\ lk'[t] = p /\ la'[t] = x /\ m[t][l] = c
      /\ \A k \in Locks : k # l => m[t][k] = n[t][k] /\ holder'[k] = holder[k] /\ repeat'[k] = repeat[k]
      /\ holder'[l] = g /\ repeat'[l] = r
  BY <1>1 DEF LocalStep
<1>3. SyncTypeOK' /\ m \in [Threads -> [Locks -> Nat]]
  BY <1>1 DEF LocalStep, LockInv, SyncTypeOK
<1>4. SchedOK(sched)'
  BY DEF LocalStep, LockInv, SchedOK
<1>5. WaitersAgree'
  <2>1. \A u \in Threads : sched.status[u] = "BLOCKED" => la'[u] = la[u]
    BY <1>1, <1>2
  <2>2. UNCHANGED <<sched, waiters>> /\ \A u \in Threads : la'[u] # la[u] => sched.status[u] # "BLOCKED"
    BY <2>1 DEF LocalStep
  <2>3. QED BY <2>1, <2>2 DEF LockInv, WaitersAgree
<1>6. NoLostWakeup'
  <2>1. \A u \in Threads : lk[u] = "woken" => lk'[u] = "woken" /\ la'[u] = la[u]
    BY <1>2 DEF LocalStep
  <2>2. UNCHANGED <<sched, value, waiters>>
    BY DEF LocalStep
  <2>3. ASSUME NEW x1 \in AllSemas, value[x1] = 1, waiters[x1] # <<>>
        PROVE  \E u \in Threads : la'[u] = x1 /\ lk'[u] = "woken" /\ sched.status[u] # "BLOCKED"
    <3>1. PICK u \in Threads : la[u] = x1 /\ lk[u] = "woken" /\ sched.status[u] # "BLOCKED"
      BY <2>3 DEF LockInv, NoLostWakeup
    <3>2. QED BY <2>1, <3>1
  <2>4. QED BY <2>2, <2>3 DEF NoLostWakeup
<1>7. ASSUME NEW u \in Threads PROVE ThreadView(m, u)'
  <2>1. ThreadView(n, u) /\ UNCHANGED sched
    BY DEF LockInv, LocalStep
  <2>2. CASE u # t
    BY <1>2, <2>1, <2>2 DEF ThreadView
  <2>3. CASE u = t
    <3>1. /\ t # Idle /\ (p = "out" <=> x = NoSema) /\ p # "woken" /\ x \notin Semas
      BY SyncAssumption DEF LocalStep
    <3>2. QED BY <3>1, <1>1, <1>2, <2>1, <2>3 DEF ThreadView
  <2>4. QED BY <2>2, <2>3
<1>8. ASSUME NEW u \in Threads, NEW k \in Locks PROVE LockView(m, u, k)'
  <2>1. LockView(n, u, k) /\ OneOwner(k)
    BY DEF LockInv
  <2>2. CASE u = t /\ k = l
    BY <2>2
  <2>3. CASE k # l
    <3>1. (la'[u] = k <=> la[u] = k) /\ (la[u] = k => lk'[u] = lk[u])
      BY <1>1, <1>2, <2>3, SyncAssumption, SMT DEF LocalStep
    <3>2. m[u][k] = n[u][k] /\ holder'[k] = holder[k] /\ repeat'[k] = repeat[k]
      BY <1>2, <2>3
    <3>3. QED BY <2>1, <3>1, <3>2 DEF LockView
  <2>4. CASE u # t /\ k = l
    <3>1. la'[u] = la[u] /\ lk'[u] = lk[u] /\ m[u][k] = n[u][k]
      BY <1>2, <2>4
    <3>2. CASE holder'[l] = holder[l] /\ repeat'[l] = repeat[l]
      BY <2>1, <2>4, <3>1, <3>2 DEF LockView
    <3>3. CASE Owner(t, l)
      <4>1. ~Owner(u, l) /\ holder'[l] # u
        BY <1>1, <1>2, <2>1, <2>4, <3>3, SMT DEF OneOwner, LocalStep, Owner
      <4>2. n[u][l] \in Nat
        BY <1>1, SMT
      <4>3. QED BY <2>1, <2>4, <3>1, <4>1, <4>2 DEF LockView, Owner
    <3>4. QED BY <1>2, <3>2, <3>3 DEF LocalStep
  <2>5. QED BY <2>2, <2>3, <2>4
<1>9. ASSUME NEW k \in Locks PROVE OneOwner(k)'
  <2>1. OneOwner(k) /\ UNCHANGED value
    BY DEF LockInv, LocalStep
  <2>2. CASE k # l
    <3>1. \A u \in Threads : Owner(u, k)' <=> Owner(u, k)
      BY <1>1, <1>2, <2>2, SyncAssumption, SMT DEF LocalStep, Owner
    <3>2. QED BY <1>2, <2>1, <2>2, <3>1 DEF OneOwner
  <2>3. CASE k = l
    <3>1. \A u \in Threads : Owner(u, l)' => Owner(u, l)
      BY <1>1, <1>2, SMT DEF LocalStep, Owner
    <3>2. repeat'[l] = repeat[l] \/ Owner(t, l)
      BY <1>2 DEF LocalStep
    <3>3. QED BY <2>1, <2>3, <3>1, <3>2 DEF OneOwner
  <2>4. QED BY <2>2, <2>3
<1>10. QED BY <1>3, <1>4, <1>5, <1>6, <1>7, <1>8, <1>9 DEF LockInv

(* A step inside sync.c: the calls made, and so n, stay what they were. *)
InsideStep(t, l, p, x, g, r) ==
  /\ Runs(t) /\ UNCHANGED <<sched, value, waiters, cli, idlepc>>
  /\ p \in LockPC \ {"woken"} /\ x \in {l, NoSema} /\ (p = "out" <=> x = NoSema)
  /\ lk' = [lk EXCEPT ![t] = p] /\ la' = [la EXCEPT ![t] = x]
  /\ g \in {t, NoThread, holder[l]} /\ holder' = [holder EXCEPT ![l] = g]
  /\ r \in Nat /\ repeat' = [repeat EXCEPT ![l] = r]
  /\ (g = holder[l] /\ r = repeat[l]) \/ Owner(t, l)

LEMMA InsideStepInv ==
  ASSUME NEW n, NEW t \in Threads, NEW l \in Locks, NEW p, NEW x, NEW g, NEW r,
         LockInv(n), lk[t] \notin {"out", "down", "woken"}, la[t] = l,
         InsideStep(t, l, p, x, g, r),
         LockView(n, t, l)', Owner(t, l)' => Owner(t, l)
  PROVE  LockInv(n)'
<1>1. n \in [Threads -> [Locks -> Nat]] /\ cli \in SUBSET Threads
  BY DEF LockInv, SyncTypeOK
<1>2. t # Idle
  BY AtLock
<1>3. n = [n EXCEPT ![t][l] = n[t][l]] /\ n[t][l] \in Nat
  BY <1>1
<1>4. LocalStep(n, n, t, l, p, x, g, r, n[t][l])
  BY <1>1, <1>2, <1>3 DEF LocalStep, InsideStep
<1>5. QED BY <1>4, LocalStepInv

(* lock_acquire: if (plock->holder == running_thread()). *)
LEMMA AcquireCheckInv ==
  ASSUME NEW n, LockInv(n), NEW t \in Threads, AcquireCheck(t)
  PROVE  LockInv(n)'
<1>1. Runs(t) /\ lk[t] = "check"
  BY DEF AcquireCheck, At
<1>2. PICK k \in Locks : la[t] = k /\ LockView(n, t, k) /\ OneOwner(k)
  BY <1>1, AtLock
<1>3. /\ lk \in [Threads -> LockPC] /\ la \in [Threads -> AllSemas \cup {NoSema}]
      /\ holder \in [Locks -> Threads \cup {NoThread}] /\ repeat \in [Locks -> Nat]
      /\ n \in [Threads -> [Locks -> Nat]] /\ NoThread \notin Threads /\ NoSema \notin Locks
  BY SyncAssumption DEF LockInv, SyncTypeOK
<1>4. InsideStep(t, k, IF holder[k] = t THEN "inc" ELSE "down", k, holder[k], repeat[k])
  BY <1>1, <1>2, <1>3 DEF AcquireCheck, At, Goto, Return, Assert, InsideStep, LockPC, LockView, Owner
<1>5. LockView(n, t, k)' /\ (Owner(t, k)' => Owner(t, k))
  BY <1>1, <1>2, <1>3, <1>4 DEF InsideStep, LockView, Owner, OneOwner
<1>6. QED BY <1>1, <1>2, <1>4, <1>5, InsideStepInv

(* lock_acquire: holder_repeat_nr++. *)
LEMMA AcquireAgainInv ==
  ASSUME NEW n, LockInv(n), NEW t \in Threads, AcquireAgain(t)
  PROVE  LockInv(n)'
<1>1. Runs(t) /\ lk[t] = "inc"
  BY DEF AcquireAgain, At
<1>2. PICK k \in Locks : la[t] = k /\ LockView(n, t, k) /\ OneOwner(k)
  BY <1>1, AtLock
<1>3. /\ lk \in [Threads -> LockPC] /\ la \in [Threads -> AllSemas \cup {NoSema}]
      /\ holder \in [Locks -> Threads \cup {NoThread}] /\ repeat \in [Locks -> Nat]
      /\ n \in [Threads -> [Locks -> Nat]] /\ NoThread \notin Threads /\ NoSema \notin Locks
  BY SyncAssumption DEF LockInv, SyncTypeOK
<1>4. InsideStep(t, k, "out", NoSema, holder[k], repeat[k] + 1)
  BY <1>1, <1>2, <1>3, SMTT(30) DEF AcquireAgain, At, Goto, Return, Assert, InsideStep, LockPC, LockView, Owner
<1>5. LockView(n, t, k)' /\ (Owner(t, k)' => Owner(t, k))
  BY <1>1, <1>2, <1>3, <1>4, SMT DEF InsideStep, LockView, Owner, OneOwner
<1>6. QED BY <1>1, <1>2, <1>4, <1>5, InsideStepInv

(* lock_acquire: holder = running_thread(). *)
LEMMA SetHolderInv ==
  ASSUME NEW n, LockInv(n), NEW t \in Threads, SetHolder(t)
  PROVE  LockInv(n)'
<1>1. Runs(t) /\ lk[t] = "own"
  BY DEF SetHolder, At
<1>2. PICK k \in Locks : la[t] = k /\ LockView(n, t, k) /\ OneOwner(k)
  BY <1>1, AtLock
<1>3. /\ lk \in [Threads -> LockPC] /\ la \in [Threads -> AllSemas \cup {NoSema}]
      /\ holder \in [Locks -> Threads \cup {NoThread}] /\ repeat \in [Locks -> Nat]
      /\ n \in [Threads -> [Locks -> Nat]] /\ NoThread \notin Threads /\ NoSema \notin Locks
  BY SyncAssumption DEF LockInv, SyncTypeOK
<1>4. InsideStep(t, k, "count", k, t, repeat[k])
  BY <1>1, <1>2, <1>3 DEF SetHolder, At, Goto, Return, Assert, InsideStep, LockPC, LockView, Owner
<1>5. LockView(n, t, k)' /\ (Owner(t, k)' => Owner(t, k))
  BY <1>1, <1>2, <1>3, <1>4 DEF InsideStep, LockView, Owner, OneOwner
<1>6. QED BY <1>1, <1>2, <1>4, <1>5, InsideStepInv

(* lock_acquire: the ASSERT on holder_repeat_nr, which then becomes 1. *)
LEMMA SetRepeatInv ==
  ASSUME NEW n, LockInv(n), NEW t \in Threads, SetRepeat(t)
  PROVE  LockInv(n)'
<1>1. Runs(t) /\ lk[t] = "count"
  BY DEF SetRepeat, At
<1>2. PICK k \in Locks : la[t] = k /\ LockView(n, t, k) /\ OneOwner(k)
  BY <1>1, AtLock
<1>3. /\ lk \in [Threads -> LockPC] /\ la \in [Threads -> AllSemas \cup {NoSema}]
      /\ holder \in [Locks -> Threads \cup {NoThread}] /\ repeat \in [Locks -> Nat]
      /\ n \in [Threads -> [Locks -> Nat]] /\ NoThread \notin Threads /\ NoSema \notin Locks
  BY SyncAssumption DEF LockInv, SyncTypeOK
<1>4. InsideStep(t, k, "out", NoSema, holder[k], 1)
  BY <1>1, <1>2, <1>3 DEF SetRepeat, At, Goto, Return, Assert, InsideStep, LockPC, LockView, Owner
<1>5. LockView(n, t, k)' /\ (Owner(t, k)' => Owner(t, k))
  BY <1>1, <1>2, <1>3, <1>4, SMT DEF InsideStep, LockView, Owner, OneOwner
<1>6. QED BY <1>1, <1>2, <1>4, <1>5, InsideStepInv

(* lock_release: its two ASSERTs and the test of holder_repeat_nr. *)
LEMMA ReleaseCheckInv ==
  ASSUME NEW n, LockInv(n), NEW t \in Threads, ReleaseCheck(t)
  PROVE  LockInv(n)'
<1>1. Runs(t) /\ lk[t] = "rel"
  BY DEF ReleaseCheck, At
<1>2. PICK k \in Locks : la[t] = k /\ LockView(n, t, k) /\ OneOwner(k)
  BY <1>1, AtLock
<1>3. /\ lk \in [Threads -> LockPC] /\ la \in [Threads -> AllSemas \cup {NoSema}]
      /\ holder \in [Locks -> Threads \cup {NoThread}] /\ repeat \in [Locks -> Nat]
      /\ n \in [Threads -> [Locks -> Nat]] /\ NoThread \notin Threads /\ NoSema \notin Locks
  BY SyncAssumption DEF LockInv, SyncTypeOK
<1>4. InsideStep(t, k, IF repeat[k] > 1 THEN "dec" ELSE "clr", k, holder[k], repeat[k])
  BY <1>1, <1>2, <1>3, SMTT(30) DEF ReleaseCheck, At, Goto, Return, Assert, InsideStep, LockPC, LockView, Owner
<1>5. LockView(n, t, k)' /\ (Owner(t, k)' => Owner(t, k))
  BY <1>1, <1>2, <1>3, <1>4, SMT DEF InsideStep, LockView, Owner, OneOwner
<1>6. QED BY <1>1, <1>2, <1>4, <1>5, InsideStepInv

(* lock_release: holder_repeat_nr--. *)
LEMMA ReleaseOnceInv ==
  ASSUME NEW n, LockInv(n), NEW t \in Threads, ReleaseOnce(t)
  PROVE  LockInv(n)'
<1>1. Runs(t) /\ lk[t] = "dec"
  BY DEF ReleaseOnce, At
<1>2. PICK k \in Locks : la[t] = k /\ LockView(n, t, k) /\ OneOwner(k)
  BY <1>1, AtLock
<1>3. /\ lk \in [Threads -> LockPC] /\ la \in [Threads -> AllSemas \cup {NoSema}]
      /\ holder \in [Locks -> Threads \cup {NoThread}] /\ repeat \in [Locks -> Nat]
      /\ n \in [Threads -> [Locks -> Nat]] /\ NoThread \notin Threads /\ NoSema \notin Locks
  BY SyncAssumption DEF LockInv, SyncTypeOK
<1>4. InsideStep(t, k, "out", NoSema, holder[k], repeat[k] - 1)
  BY <1>1, <1>2, <1>3, SMTT(30) DEF ReleaseOnce, At, Goto, Return, Assert, InsideStep, LockPC, LockView, Owner
<1>5. LockView(n, t, k)' /\ (Owner(t, k)' => Owner(t, k))
  BY <1>1, <1>2, <1>3, <1>4, SMT DEF InsideStep, LockView, Owner, OneOwner
<1>6. QED BY <1>1, <1>2, <1>4, <1>5, InsideStepInv

(* lock_release: holder = NULL. *)
LEMMA ClearHolderInv ==
  ASSUME NEW n, LockInv(n), NEW t \in Threads, ClearHolder(t)
  PROVE  LockInv(n)'
<1>1. Runs(t) /\ lk[t] = "clr"
  BY DEF ClearHolder, At
<1>2. PICK k \in Locks : la[t] = k /\ LockView(n, t, k) /\ OneOwner(k)
  BY <1>1, AtLock
<1>3. /\ lk \in [Threads -> LockPC] /\ la \in [Threads -> AllSemas \cup {NoSema}]
      /\ holder \in [Locks -> Threads \cup {NoThread}] /\ repeat \in [Locks -> Nat]
      /\ n \in [Threads -> [Locks -> Nat]] /\ NoThread \notin Threads /\ NoSema \notin Locks
  BY SyncAssumption DEF LockInv, SyncTypeOK
<1>4. InsideStep(t, k, "zero", k, NoThread, repeat[k])
  BY <1>1, <1>2, <1>3 DEF ClearHolder, At, Goto, Return, Assert, InsideStep, LockPC, LockView, Owner
<1>5. LockView(n, t, k)' /\ (Owner(t, k)' => Owner(t, k))
  BY <1>1, <1>2, <1>3, <1>4 DEF InsideStep, LockView, Owner, OneOwner
<1>6. QED BY <1>1, <1>2, <1>4, <1>5, InsideStepInv

(* lock_release: holder_repeat_nr = 0. *)
LEMMA ClearRepeatInv ==
  ASSUME NEW n, LockInv(n), NEW t \in Threads, ClearRepeat(t)
  PROVE  LockInv(n)'
<1>1. Runs(t) /\ lk[t] = "zero"
  BY DEF ClearRepeat, At
<1>2. PICK k \in Locks : la[t] = k /\ LockView(n, t, k) /\ OneOwner(k)
  BY <1>1, AtLock
<1>3. /\ lk \in [Threads -> LockPC] /\ la \in [Threads -> AllSemas \cup {NoSema}]
      /\ holder \in [Locks -> Threads \cup {NoThread}] /\ repeat \in [Locks -> Nat]
      /\ n \in [Threads -> [Locks -> Nat]] /\ NoThread \notin Threads /\ NoSema \notin Locks
  BY SyncAssumption DEF LockInv, SyncTypeOK
<1>4. InsideStep(t, k, "up", k, holder[k], 0)
  BY <1>1, <1>2, <1>3 DEF ClearRepeat, At, Goto, Return, Assert, InsideStep, LockPC, LockView, Owner
<1>5. LockView(n, t, k)' /\ (Owner(t, k)' => Owner(t, k))
  BY <1>1, <1>2, <1>3, <1>4 DEF InsideStep, LockView, Owner, OneOwner
<1>6. QED BY <1>1, <1>2, <1>4, <1>5, InsideStepInv

-----------------------------------------------------------------------------
(* Calls from a client, and steps of the scheduler.                        *)

(* The call of lock_acquire adds one to the calls the thread has made. *)
LEMMA LockAcquireCall ==
  ASSUME NEW n, LockInv(n), NEW t \in Threads, t # Idle, NEW l \in Locks,
         lock_acquire(t, l), cli' \in SUBSET Threads,
         NEW m, m = [n EXCEPT ![t][l] = @ + 1]
  PROVE  LockInv(m)'
<1>1. Runs(t) /\ lk[t] = "out"
  BY DEF lock_acquire, Call, At
<1>2. ThreadView(n, t) /\ LockView(n, t, l) /\ OneOwner(l)
  BY DEF LockInv
<1>3. la[t] = NoSema
  BY <1>1, <1>2 DEF ThreadView
<1>4. /\ lk \in [Threads -> LockPC] /\ la \in [Threads -> AllSemas \cup {NoSema}]
      /\ holder \in [Locks -> Threads \cup {NoThread}] /\ repeat \in [Locks -> Nat]
      /\ n \in [Threads -> [Locks -> Nat]] /\ NoThread \notin Threads /\ NoSema \notin Locks
  BY SyncAssumption DEF LockInv, SyncTypeOK
<1>5. LocalStep(n, m, t, l, "check", l, holder[l], repeat[l], n[t][l] + 1)
  BY <1>1, <1>3, <1>4, SMT DEF lock_acquire, Call, LocalStep, LockPC
<1>6. m[t][l] = n[t][l] + 1
  BY <1>4
<1>7. LockView(m, t, l)' /\ (Owner(t, l)' => Owner(t, l))
  BY <1>1, <1>2, <1>3, <1>4, <1>5, <1>6, SMT DEF LocalStep, LockView, Owner
<1>8. QED BY <1>5, <1>7, LocalStepInv

(* The call of lock_release takes one off them; there is one to take off. *)
LEMMA LockReleaseCall ==
  ASSUME NEW n, LockInv(n), NEW t \in Threads, t # Idle, NEW l \in Locks, n[t][l] > 0,
         lock_release(t, l), cli' \in SUBSET Threads,
         NEW m, m = [n EXCEPT ![t][l] = @ - 1]
  PROVE  LockInv(m)'
<1>1. Runs(t) /\ lk[t] = "out"
  BY DEF lock_release, Call, At
<1>2. ThreadView(n, t) /\ LockView(n, t, l) /\ OneOwner(l)
  BY DEF LockInv
<1>3. la[t] = NoSema
  BY <1>1, <1>2 DEF ThreadView
<1>4. /\ lk \in [Threads -> LockPC] /\ la \in [Threads -> AllSemas \cup {NoSema}]
      /\ holder \in [Locks -> Threads \cup {NoThread}] /\ repeat \in [Locks -> Nat]
      /\ n \in [Threads -> [Locks -> Nat]] /\ NoThread \notin Threads /\ NoSema \notin Locks
  BY SyncAssumption DEF LockInv, SyncTypeOK
<1>5. LocalStep(n, m, t, l, "rel", l, holder[l], repeat[l], n[t][l] - 1)
  BY <1>1, <1>3, <1>4, SMT DEF lock_release, Call, LocalStep, LockPC
<1>6. m[t][l] = n[t][l] - 1
  BY <1>4
<1>7. LockView(m, t, l)' /\ (Owner(t, l)' => Owner(t, l))
  BY <1>1, <1>2, <1>3, <1>4, <1>5, <1>6, SMT DEF LocalStep, LockView, Owner
<1>8. QED BY <1>5, <1>7, LocalStepInv

(* Steps that leave the semaphores and the locks alone, and block or wake  *)
(* no thread that is in sync.c: the clock, thread_yield, the loop of idle, *)
(* and a client that blocks or unblocks a thread by itself.                *)
LEMMA ScheduleStep ==
  ASSUME NEW n, LockInv(n), UNCHANGED <<value, waiters, holder, repeat, lk, la>>,
         cli' \in SUBSET Threads, idlepc' \in {"block", "sti", "hlt"}, SchedOK(sched'),
         \A t \in Threads : t # Idle /\ la[t] # NoSema =>
           (sched'.status[t] = "BLOCKED" <=> sched.status[t] = "BLOCKED")
  PROVE  LockInv(n)'
<1>1. SyncTypeOK' /\ n \in [Threads -> [Locks -> Nat]]
  BY DEF LockInv, SyncTypeOK, SchedOK
<1>2. WaitersAgree'
  <2>1. \A x \in AllSemas : x # NoSema
    BY SyncAssumption DEF AllSemas
  <2>2. SUFFICES ASSUME NEW x \in AllSemas
                 PROVE  /\ IsInjective(waiters[x])
                        /\ \A u \in Threads : u \in Range(waiters[x]) <=>
                             u # Idle /\ sched'.status[u] = "BLOCKED" /\ la[u] = x
    BY DEF WaitersAgree
  <2>3. /\ IsInjective(waiters[x])
        /\ \A u \in Threads : u \in Range(waiters[x]) <=>
             u # Idle /\ sched.status[u] = "BLOCKED" /\ la[u] = x
    BY DEF LockInv, WaitersAgree
  <2>4. QED BY <2>1, <2>3
<1>3. ASSUME NEW t \in Threads PROVE ThreadView(n, t)'
  <2>1. ThreadView(n, t)
    BY DEF LockInv
  <2>2. QED BY <2>1 DEF ThreadView
<1>4. ASSUME NEW t \in Threads, NEW l \in Locks PROVE LockView(n, t, l)'
  <2>1. LockView(n, t, l)
    BY DEF LockInv
  <2>2. QED BY <2>1 DEF LockView
<1>5. ASSUME NEW l \in Locks PROVE OneOwner(l)'
  <2>1. OneOwner(l)
    BY DEF LockInv
  <2>2. QED BY <2>1 DEF OneOwner, Owner
<1>6. NoLostWakeup'
  <2>1. SUFFICES ASSUME NEW x \in AllSemas, value[x] = 1, waiters[x] # <<>>
                 PROVE  \E u \in Threads : la[u] = x /\ lk[u] = "woken"
                                         /\ sched'.status[u] # "BLOCKED"
    BY DEF NoLostWakeup
  <2>2. PICK u \in Threads : la[u] = x /\ lk[u] = "woken" /\ sched.status[u] # "BLOCKED"
    BY <2>1 DEF LockInv, NoLostWakeup
  <2>3. ThreadView(n, u)
    BY DEF LockInv
  <2>4. u # Idle /\ la[u] # NoSema
    BY <2>2, <2>3 DEF ThreadView
  <2>5. QED BY <2>2, <2>4
<1>7. QED BY <1>1, <1>2, <1>3, <1>4, <1>5, <1>6 DEF LockInv

(* The clock interrupt. *)
LEMMA TickInv ==
  ASSUME NEW n, LockInv(n), Tick
  PROVE  LockInv(n)' /\ Blocked(sched') = Blocked(sched)
<1>1. SchedOK(sched') /\ Blocked(sched') = Blocked(sched)
  BY TimerProperties DEF Tick, LockInv
<1>2. idlepc' \in {"block", "sti", "hlt"} /\ cli' \in SUBSET Threads
  BY DEF Tick, LeaveHalt, LockInv, SyncTypeOK
<1>3. \A t \in Threads : sched'.status[t] = "BLOCKED" <=> sched.status[t] = "BLOCKED"
  BY <1>1 DEF Blocked
<1>4. UNCHANGED <<value, waiters, holder, repeat, lk, la>>
  BY DEF Tick
<1>5. QED BY <1>1, <1>2, <1>3, <1>4, ScheduleStep

(* thread_yield. *)
LEMMA YieldInv ==
  ASSUME NEW n, LockInv(n), NEW t \in Threads, Yield(t)
  PROVE  LockInv(n)' /\ Blocked(sched') = Blocked(sched)
<1>1. SchedOK(sched') /\ Blocked(sched') = Blocked(sched)
  BY YieldProperties DEF Yield, LockInv
<1>2. idlepc' \in {"block", "sti", "hlt"} /\ cli' \in SUBSET Threads
  BY DEF Yield, LockInv, SyncTypeOK
<1>3. \A u \in Threads : sched'.status[u] = "BLOCKED" <=> sched.status[u] = "BLOCKED"
  BY <1>1 DEF Blocked
<1>4. UNCHANGED <<value, waiters, holder, repeat, lk, la>>
  BY DEF Yield
<1>5. QED BY <1>1, <1>2, <1>3, <1>4, ScheduleStep

(* The two steps of the idle loop. *)
LEMMA IdleInv ==
  ASSUME NEW n, LockInv(n), idle
  PROVE  LockInv(n)' /\ Blocked(sched') \ {Idle} = Blocked(sched) \ {Idle}
<1>1. /\ cli' \in SUBSET Threads /\ idlepc' \in {"block", "sti", "hlt"}
      /\ UNCHANGED <<value, waiters, holder, repeat, lk, la>>
  BY DEF idle, IdleBlock, IdleHalt, LockInv, SyncTypeOK
<1>2. SchedOK(sched') /\ Blocked(sched') \ {Idle} = Blocked(sched) \ {Idle}
  <2>1. CASE IdleBlock
    BY <2>1, BlockProperties DEF IdleBlock, Runs, LockInv
  <2>2. CASE IdleHalt
    BY <2>2 DEF IdleHalt, LockInv
  <2>3. QED BY <2>1, <2>2 DEF idle
<1>3. \A u \in Threads : u # Idle =>
        (sched'.status[u] = "BLOCKED" <=> sched.status[u] = "BLOCKED")
  BY <1>2 DEF Blocked
<1>4. QED BY <1>1, <1>2, <1>3, ScheduleStep

(* The state after the thread_start calls. *)
LEMMA SyncInitInv ==
  ASSUME NEW n, n = [t \in Threads |-> [l \in Locks |-> 0]], SyncInit
  PROVE  LockInv(n) /\ Blocked(sched) = {}
<1>1. /\ sched = SchedInit /\ value = [x \in AllSemas |-> IF x \in Locks THEN 1 ELSE 0]
      /\ waiters = [x \in AllSemas |-> <<>>] /\ holder = [l \in Locks |-> NoThread]
      /\ repeat = [l \in Locks |-> 0] /\ lk = [t \in Threads |-> "out"]
      /\ la = [t \in Threads |-> NoSema] /\ cli = Threads \ {Main} /\ idlepc = "block"
  BY DEF SyncInit, LocksInit
<1>2. /\ SchedInit.cur = Main /\ SchedInit.ready = StartOrder /\ SchedInit.panic = FALSE
      /\ SchedInit.status = [t \in Threads |-> IF t = Main THEN "RUNNING" ELSE "READY"]
      /\ SchedInit \in SchedState
  BY ThreadAssumption DEF SchedInit, SchedState, Status
<1>3. SchedOK(sched)
  BY <1>1, <1>2, ThreadAssumption DEF SchedOK
<1>4. \A t \in Threads : sched.status[t] # "BLOCKED"
  BY <1>1, <1>2
<1>5. SyncTypeOK
  BY <1>1, <1>3, SMT DEF SyncTypeOK, LockPC, AllSemas, SchedOK
<1>6. WaitersAgree
  BY <1>1, <1>4, SMT DEF WaitersAgree, IsInjective, Range
<1>7. \A t \in Threads : ThreadView(n, t)
  BY <1>1, <1>4, SyncAssumption DEF ThreadView
<1>8. \A t \in Threads, l \in Locks : LockView(n, t, l)
  BY <1>1, SyncAssumption, SMT DEF LockView
<1>9. \A l \in Locks : OneOwner(l)
  BY <1>1, SyncAssumption DEF OneOwner, Owner
<1>10. NoLostWakeup
  BY <1>1 DEF NoLostWakeup
<1>11. n \in [Threads -> [Locks -> Nat]] /\ Blocked(sched) = {}
  BY <1>4 DEF Blocked
<1>12. QED BY <1>3, <1>5, <1>6, <1>7, <1>8, <1>9, <1>10, <1>11 DEF LockInv

-----------------------------------------------------------------------------
(* Semaphores.                                                             *)

(* What LockInv knows of a thread in sema_down. *)
LEMMA AtDown ==
  ASSUME NEW n, LockInv(n), NEW t \in Threads, lk[t] \in {"down", "woken"}
  PROVE  la[t] \in AllSemas /\ t # Idle
<1>1. ThreadView(n, t) /\ la[t] \in AllSemas \cup {NoSema}
  BY DEF LockInv, SyncTypeOK
<1>2. QED BY <1>1 DEF ThreadView

(* sema_down on a semaphore that is down: the thread waits. *)
LEMMA DownBlocks ==
  ASSUME NEW n, LockInv(n), NEW t \in Threads, sema_down(t), value[la[t]] = 0
  PROVE  /\ LockInv(n)' /\ UNCHANGED <<la, value>>
         /\ Blocked(sched') \ {Idle} = (Blocked(sched) \cup {t}) \ {Idle}
<1>1. Runs(t) /\ lk[t] \in {"down", "woken"} /\ UNCHANGED <<holder, repeat, cli, idlepc>>
  BY DEF sema_down
<1>2. t # Idle /\ sched.cur = t /\ sched.status[t] = "RUNNING"
  BY <1>1, AtDown, RunningFacts
<1>3. PICK y \in AllSemas : la[t] = y
  BY <1>1, AtDown
<1>4. /\ lk \in [Threads -> LockPC] /\ la \in [Threads -> AllSemas \cup {NoSema}]
      /\ value \in [AllSemas -> {0, 1}] /\ waiters \in [AllSemas -> Seq(Threads)]
  BY DEF LockInv, SyncTypeOK
<1>5. \A x \in AllSemas :
        /\ IsInjective(waiters[x])
        /\ \A u \in Threads : u \in Range(waiters[x]) <=>
             u # Idle /\ sched.status[u] = "BLOCKED" /\ la[u] = x
  BY DEF LockInv, WaitersAgree
<1>6. t \notin Range(waiters[y])
  BY <1>2, <1>5
<1>7. /\ waiters' = [waiters EXCEPT ![y] = Append(@, t)] /\ sched' = thread_block(sched)
      /\ lk' = [lk EXCEPT ![t] = "woken"] /\ UNCHANGED <<la, value>>
  BY <1>3, <1>6 DEF sema_down, Goto
<1>8. SchedOK(sched') /\ Blocked(sched') \ {Idle} = (Blocked(sched) \cup {t}) \ {Idle}
  BY <1>2, <1>7, BlockProperties DEF LockInv
<1>9. \A u \in Threads \ {Idle} :
        sched'.status[u] = "BLOCKED" <=> sched.status[u] = "BLOCKED" \/ u = t
  BY <1>8 DEF Blocked
<1>10. /\ waiters'[y] \in Seq(Threads) /\ IsInjective(waiters'[y])
       /\ Range(waiters'[y]) = Range(waiters[y]) \cup {t}
  BY <1>4, <1>5, <1>6, <1>7, AppendRange, SMT
<1>11. SyncTypeOK' /\ n \in [Threads -> [Locks -> Nat]]
  <2>1. waiters' \in [AllSemas -> Seq(Threads)]
    BY <1>4, <1>7, <1>10
  <2>2. lk' \in [Threads -> LockPC]
    BY <1>4, <1>7 DEF LockPC
  <2>3. QED BY <1>1, <1>7, <1>8, <2>1, <2>2 DEF LockInv, SyncTypeOK, SchedOK
<1>12. WaitersAgree'
  <2>1. \A x \in AllSemas : x # y => waiters'[x] = waiters[x]
    BY <1>4, <1>7
  <2>2. SUFFICES ASSUME NEW x \in AllSemas
                 PROVE  /\ IsInjective(waiters'[x])
                        /\ \A u \in Threads : u \in Range(waiters'[x]) <=>
                             u # Idle /\ sched'.status[u] = "BLOCKED" /\ la'[u] = x
    BY DEF WaitersAgree
  <2>3. CASE x = y
    BY <1>2, <1>3, <1>5, <1>7, <1>9, <1>10, <2>3, SMTT(30)
  <2>4. CASE x # y
    BY <1>2, <1>3, <1>5, <1>7, <1>9, <2>1, <2>4, SMT
  <2>5. QED BY <2>3, <2>4
<1>13. ASSUME NEW u \in Threads PROVE ThreadView(n, u)'
  <2>1. ThreadView(n, u) /\ (lk'[u] = lk[u] \/ u = t)
    BY <1>4, <1>7 DEF LockInv
  <2>2. lk'[t] = "woken"
    BY <1>4, <1>7
  <2>3. QED BY <1>1, <1>2, <1>7, <1>9, <2>1, <2>2 DEF ThreadView
<1>14. ASSUME NEW u \in Threads, NEW k \in Locks PROVE LockView(n, u, k)'
  <2>1. LockView(n, u, k) /\ UNCHANGED <<la, holder, repeat>>
    BY <1>1, <1>7 DEF LockInv
  <2>2. lk'[u] = lk[u] \/ (lk[u] \in {"down", "woken"} /\ lk'[u] = "woken")
    BY <1>1, <1>4, <1>7
  <2>3. QED BY <2>1, <2>2 DEF LockView
<1>15. ASSUME NEW k \in Locks PROVE OneOwner(k)'
  <2>1. \A u \in Threads : Owner(u, k)' <=> Owner(u, k)
    BY <1>1, <1>4, <1>7 DEF Owner
  <2>2. OneOwner(k) /\ UNCHANGED <<value, repeat>>
    BY <1>1, <1>7 DEF LockInv
  <2>3. QED BY <2>1, <2>2 DEF OneOwner
<1>16. NoLostWakeup'
  <2>1. SUFFICES ASSUME NEW x \in AllSemas, value[x] = 1, waiters'[x] # <<>>
                 PROVE  \E u \in Threads : la[u] = x /\ lk'[u] = "woken"
                                         /\ sched'.status[u] # "BLOCKED"
    BY <1>7 DEF NoLostWakeup
  <2>2. x # y /\ waiters[x] # <<>>
    BY <1>3, <1>4, <1>7, <2>1, SMT
  <2>3. PICK u \in Threads : la[u] = x /\ lk[u] = "woken" /\ sched.status[u] # "BLOCKED"
    BY <2>1, <2>2 DEF LockInv, NoLostWakeup
  <2>4. u # t /\ u # Idle
    BY <1>3, <2>2, <2>3, AtDown
  <2>5. lk'[u] = lk[u]
    BY <1>4, <1>7, <2>4
  <2>6. QED BY <1>9, <2>3, <2>4, <2>5
<1>17. QED BY <1>7, <1>8, <1>11, <1>12, <1>13, <1>14, <1>15, <1>16 DEF LockInv

(* sema_down on a semaphore that is up: the thread takes it. *)
LEMMA DownTakes ==
  ASSUME NEW n, LockInv(n), NEW t \in Threads, sema_down(t), value[la[t]] # 0
  PROVE  LockInv(n)' /\ UNCHANGED <<sched, waiters>>
<1>1. Runs(t) /\ lk[t] \in {"down", "woken"} /\ UNCHANGED <<holder, repeat, cli, idlepc>>
  BY DEF sema_down
<1>2. t # Idle /\ sched.status[t] = "RUNNING"
  BY <1>1, AtDown, RunningFacts
<1>3. PICK y \in AllSemas : la[t] = y
  BY <1>1, AtDown
<1>4. /\ lk \in [Threads -> LockPC] /\ la \in [Threads -> AllSemas \cup {NoSema}]
      /\ value \in [AllSemas -> {0, 1}] /\ waiters \in [AllSemas -> Seq(Threads)]
      /\ holder \in [Locks -> Threads \cup {NoThread}]
  BY DEF LockInv, SyncTypeOK
<1>5. value[y] = 1 /\ y # NoSema
  BY <1>3, <1>4, SyncAssumption DEF AllSemas
<1> DEFINE p == IF y \in Locks THEN "own" ELSE "out"
           z == IF y \in Locks THEN y ELSE NoSema
<1>6. /\ lk' = [lk EXCEPT ![t] = p] /\ la' = [la EXCEPT ![t] = z]
      /\ p \in {"own", "out"} /\ z \in AllSemas \cup {NoSema}
      /\ IF y \in Locks THEN p = "own" /\ z = y ELSE p = "out" /\ z = NoSema
  BY <1>3, <1>4, <1>5 DEF sema_down, Goto, Return
<1> HIDE DEF p, z
<1>7. value' = [value EXCEPT ![y] = 0] /\ UNCHANGED <<sched, waiters>>
  BY <1>3, <1>4, <1>5, SMT DEF sema_down, Assert
<1>8. \A u \in Threads : u # t => lk'[u] = lk[u] /\ la'[u] = la[u]
  BY <1>4, <1>6
<1>9. lk'[t] = p /\ la'[t] = z /\ \A x \in AllSemas : x # y => value'[x] = value[x]
  BY <1>4, <1>6, <1>7
<1>10. SyncTypeOK' /\ SchedOK(sched)' /\ n \in [Threads -> [Locks -> Nat]]
  BY <1>1, <1>4, <1>6, <1>7 DEF LockInv, SyncTypeOK, LockPC, SchedOK
<1>11. WaitersAgree'
  <2>1. \A u \in Threads : sched.status[u] = "BLOCKED" => la'[u] = la[u]
    BY <1>2, <1>8
  <2>2. QED BY <1>2, <1>7, <2>1 DEF LockInv, WaitersAgree
<1>12. ASSUME NEW u \in Threads PROVE ThreadView(n, u)'
  <2>1. ThreadView(n, u)
    BY DEF LockInv
  <2>2. CASE u # t
    BY <1>7, <1>8, <2>1, <2>2 DEF ThreadView
  <2>3. CASE u = t
    BY <1>2, <1>5, <1>6, <1>7, <1>9, <2>1, <2>3, SyncAssumption, SMT DEF ThreadView
  <2>4. QED BY <2>2, <2>3
<1>13. \A k \in Locks : k = y => repeat[k] = 0 /\ holder[k] = NoThread
  <2>1. \A k \in Locks : OneOwner(k)
    BY DEF LockInv
  <2>2. QED BY <1>4, <1>5, <2>1 DEF OneOwner, Owner
<1>14. ASSUME NEW u \in Threads, NEW k \in Locks PROVE LockView(n, u, k)'
  <2>1. LockView(n, u, k) /\ UNCHANGED <<holder, repeat>>
    BY <1>1 DEF LockInv
  <2>2. CASE u # t
    BY <1>8, <2>1, <2>2 DEF LockView
  <2>3. CASE u = t /\ k = y
    BY <1>1, <1>3, <1>6, <1>9, <1>13, <2>1, <2>3 DEF LockView
  <2>4. CASE u = t /\ k # y
    <3>1. la[t] # k /\ la'[t] # k
      BY <1>3, <1>6, <1>9, <2>4, SyncAssumption
    <3>2. QED BY <2>1, <2>4, <3>1 DEF LockView
  <2>5. QED BY <2>2, <2>3, <2>4
<1>15. ASSUME NEW k \in Locks PROVE OneOwner(k)'
  <2>1. OneOwner(k) /\ k \in AllSemas /\ UNCHANGED <<holder, repeat>>
    BY <1>1 DEF LockInv, AllSemas
  <2>2. CASE k = y
    <3>1. \A u \in Threads : u # t => ~Owner(u, k)'
      BY <1>5, <1>8, <2>1, <2>2 DEF OneOwner, Owner
    <3>2. value'[k] # 1
      BY <1>4, <1>7, <2>1, <2>2, SMT
    <3>3. QED BY <3>1, <3>2 DEF OneOwner
  <2>3. CASE k # y
    <3>1. \A u \in Threads : Owner(u, k)' <=> Owner(u, k)
      BY <1>3, <1>6, <1>8, <1>9, <2>1, <2>3, SyncAssumption DEF Owner
    <3>2. value'[k] = value[k]
      BY <1>9, <2>1, <2>3
    <3>3. QED BY <2>1, <3>1, <3>2 DEF OneOwner
  <2>4. QED BY <2>2, <2>3
<1>16. NoLostWakeup'
  <2>1. SUFFICES ASSUME NEW x \in AllSemas, value'[x] = 1, waiters[x] # <<>>
                 PROVE  \E u \in Threads : la'[u] = x /\ lk'[u] = "woken"
                                         /\ sched.status[u] # "BLOCKED"
    BY <1>7 DEF NoLostWakeup
  <2>2. x # y /\ value[x] = 1
    BY <1>4, <1>7, <2>1, SMT
  <2>3. PICK u \in Threads : la[u] = x /\ lk[u] = "woken" /\ sched.status[u] # "BLOCKED"
    BY <2>1, <2>2 DEF LockInv, NoLostWakeup
  <2>4. QED BY <1>3, <1>8, <2>2, <2>3
<1>17. QED BY <1>7, <1>10, <1>11, <1>12, <1>14, <1>15, <1>16 DEF LockInv

(* What sema_up does to the scheduler: it wakes the first waiter, if any.  *)
Woken(x, u) == waiters[x] # <<>> /\ u = Head(waiters[x])

LEMMA UpFacts ==
  ASSUME NEW n, LockInv(n), NEW x \in AllSemas, value[x] = 0, Up(x)
  PROVE  /\ value' = [value EXCEPT ![x] = 1]
         /\ waiters' \in [AllSemas -> Seq(Threads)]
         /\ \A y \in AllSemas : y # x => waiters'[y] = waiters[y]
         /\ IsInjective(waiters'[x])
         /\ \A u \in Threads :
              /\ u \in Range(waiters'[x]) <=> u \in Range(waiters[x]) /\ ~Woken(x, u)
              /\ Woken(x, u) => u # Idle /\ la[u] = x /\ lk[u] = "woken"
         /\ waiters'[x] # <<>> => \E u \in Threads : Woken(x, u)
         /\ SchedOK(sched') /\ sched'.cur = sched.cur
         /\ \A u \in Threads : sched'.status[u] = "BLOCKED" <=>
              sched.status[u] = "BLOCKED" /\ ~Woken(x, u)
<1> DEFINE h == Head(waiters[x])
<1>1. /\ value \in [AllSemas -> {0, 1}] /\ waiters \in [AllSemas -> Seq(Threads)]
      /\ la \in [Threads -> AllSemas \cup {NoSema}] /\ NoSema \notin AllSemas
  BY SyncAssumption DEF LockInv, SyncTypeOK, AllSemas
<1>2. /\ value' = [value EXCEPT ![x] = 1]
      /\ waiters' = [waiters EXCEPT ![x] = IF @ = <<>> THEN @ ELSE Tail(@)]
      /\ sched' = IF waiters[x] = <<>> THEN sched ELSE thread_unblock(sched, h)
  BY <1>1, SMT DEF Up
<1>3. /\ IsInjective(waiters[x])
      /\ \A u \in Threads : u \in Range(waiters[x]) <=>
           u # Idle /\ sched.status[u] = "BLOCKED" /\ la[u] = x
  BY DEF LockInv, WaitersAgree
<1>4. waiters[x] # <<>> =>
        /\ h \in Threads /\ h \in Range(waiters[x]) /\ Tail(waiters[x]) \in Seq(Threads)
        /\ Range(Tail(waiters[x])) = Range(waiters[x]) \ {h}
        /\ IsInjective(Tail(waiters[x]))
  BY <1>1, <1>3, PopRange
<1>5. waiters[x] # <<>> => h # Idle /\ sched.status[h] = "BLOCKED" /\ la[h] = x
  BY <1>3, <1>4
<1>6. waiters[x] # <<>> => lk[h] = "woken"
  <2>1. waiters[x] # <<>> => ThreadView(n, h)
    BY <1>4 DEF LockInv
  <2>2. QED BY <1>1, <1>5, <2>1 DEF ThreadView
<1> HIDE DEF h
<1>7. /\ waiters' \in [AllSemas -> Seq(Threads)] /\ IsInjective(waiters'[x])
      /\ \A y \in AllSemas : y # x => waiters'[y] = waiters[y]
      /\ waiters'[x] = IF waiters[x] = <<>> THEN waiters[x] ELSE Tail(waiters[x])
  BY <1>1, <1>2, <1>3, <1>4
<1>8. \A u : Woken(x, u) <=> waiters[x] # <<>> /\ u = h
  BY DEF Woken, h
<1>9. /\ SchedOK(sched') /\ sched'.cur = sched.cur
      /\ \A u \in Threads : sched'.status[u] = "BLOCKED" <=>
           sched.status[u] = "BLOCKED" /\ ~Woken(x, u)
  <2>1. CASE waiters[x] = <<>>
    BY <1>2, <1>8, <2>1 DEF LockInv
  <2>2. CASE waiters[x] # <<>>
    <3>1. QueueOK(sched)
      BY DEF LockInv, SchedOK, QueueOK
    <3> DEFINE r == thread_unblock(sched, h)
    <3>2. /\ QueueOK(r) /\ r.cur = sched.cur
          /\ Blocked(r) = Blocked(sched) \ {h}
          /\ \A u \in Threads : r.status[u] = "RUNNING" <=> sched.status[u] = "RUNNING"
      BY <1>4, <1>5, <2>2, <3>1, UnblockProperties
    <3> HIDE DEF r
    <3>3. SchedOK(r)
      BY <3>2 DEF LockInv, SchedOK, QueueOK
    <3>4. \A u \in Threads :
            r.status[u] = "BLOCKED" <=> sched.status[u] = "BLOCKED" /\ u # h
      BY <3>2 DEF Blocked
    <3>5. sched' = r
      BY <1>2, <2>2 DEF r
    <3>6. QED BY <1>8, <2>2, <3>2, <3>3, <3>4, <3>5
  <2>3. QED BY <2>1, <2>2
<1>10. ASSUME NEW u \in Threads
       PROVE  /\ u \in Range(waiters'[x]) <=> u \in Range(waiters[x]) /\ ~Woken(x, u)
              /\ Woken(x, u) => u # Idle /\ la[u] = x /\ lk[u] = "woken"
  BY <1>4, <1>5, <1>6, <1>7, <1>8
<1>11. waiters'[x] # <<>> => \E u \in Threads : Woken(x, u)
  BY <1>4, <1>7, <1>8
<1>12. QED BY <1>2, <1>7, <1>9, <1>10, <1>11

(* sema_up on x, by the thread that is about to release the lock x, or on  *)
(* a semaphore outside the locks by an interrupt handler.                  *)
UpReturns(x) ==
  /\ UNCHANGED <<holder, repeat>>
  /\ cli' \in SUBSET Threads /\ idlepc' \in {"block", "sti", "hlt"}
  /\ lk' \in [Threads -> LockPC] /\ la' \in [Threads -> AllSemas \cup {NoSema}]
  /\ \A u \in Threads :
       \/ lk'[u] = lk[u] /\ la'[u] = la[u]
       \/ lk[u] = "up" /\ la[u] = x /\ lk'[u] = "out" /\ la'[u] = NoSema
  /\ x \in Locks => \E u \in Threads : lk[u] = "up" /\ la[u] = x /\ la'[u] = NoSema

LEMMA UpInv ==
  ASSUME NEW n, LockInv(n), NEW x \in AllSemas, value[x] = 0, Up(x),
         UpReturns(x)
  PROVE  LockInv(n)'
<1>1. /\ value' = [value EXCEPT ![x] = 1] /\ waiters' \in [AllSemas -> Seq(Threads)]
      /\ SchedOK(sched')
  BY UpFacts
<1>2. \A u \in Threads : sched'.status[u] = "BLOCKED" <=>
        sched.status[u] = "BLOCKED" /\ ~Woken(x, u)
  BY UpFacts
<1>3. \A u \in Threads : Woken(x, u) => u # Idle /\ la[u] = x /\ lk[u] = "woken"
  BY UpFacts
<1>4. value \in [AllSemas -> {0, 1}] /\ NoSema \notin AllSemas /\ NoThread \notin Threads
  BY SyncAssumption DEF LockInv, SyncTypeOK, AllSemas
<1>5. \A u \in Threads : lk[u] = "up" => sched.status[u] # "BLOCKED" /\ u # Idle
  <2>1. \A u \in Threads : ThreadView(n, u)
    BY DEF LockInv
  <2>2. QED BY <2>1 DEF ThreadView
<1>6. SyncTypeOK' /\ n \in [Threads -> [Locks -> Nat]]
  BY <1>1, <1>4 DEF UpReturns, LockInv, SyncTypeOK, SchedOK
<1>7. WaitersAgree'
  <2>1. SUFFICES ASSUME NEW y \in AllSemas
                 PROVE  /\ IsInjective(waiters'[y])
                        /\ \A u \in Threads : u \in Range(waiters'[y]) <=>
                             u # Idle /\ sched'.status[u] = "BLOCKED" /\ la'[u] = y
    BY DEF WaitersAgree
  <2>2. /\ IsInjective(waiters[y])
        /\ \A u \in Threads : u \in Range(waiters[y]) <=>
             u # Idle /\ sched.status[u] = "BLOCKED" /\ la[u] = y
    BY DEF LockInv, WaitersAgree
  <2>3. \A u \in Threads : sched.status[u] = "BLOCKED" => la'[u] = la[u]
    BY <1>5 DEF UpReturns
  <2>4. CASE y = x
    <3>1. /\ IsInjective(waiters'[x])
          /\ \A u \in Threads : u \in Range(waiters'[x]) <=>
               u \in Range(waiters[x]) /\ ~Woken(x, u)
      BY UpFacts
    <3>2. QED BY <1>2, <2>2, <2>3, <2>4, <3>1
  <2>5. CASE y # x
    <3>1. waiters'[y] = waiters[y]
      BY <2>5, UpFacts
    <3>2. QED BY <1>2, <1>3, <2>2, <2>3, <2>5, <3>1, SMT
  <2>6. QED BY <2>4, <2>5
<1>8. ASSUME NEW u \in Threads PROVE ThreadView(n, u)'
  <2>1. ThreadView(n, u)
    BY DEF LockInv
  <2>2. QED BY <1>2, <1>4, <1>5, <2>1 DEF UpReturns, ThreadView, AllSemas
<1>9. ASSUME NEW u \in Threads, NEW k \in Locks PROVE LockView(n, u, k)'
  <2>1. LockView(n, u, k) /\ k # NoSema
    BY SyncAssumption DEF LockInv
  <2>2. CASE lk'[u] = lk[u] /\ la'[u] = la[u]
    BY <2>1, <2>2 DEF UpReturns, LockView
  <2>3. CASE lk[u] = "up" /\ la[u] = x /\ lk'[u] = "out" /\ la'[u] = NoSema
    BY <1>4, <2>1, <2>3 DEF UpReturns, LockView
  <2>4. QED BY <2>2, <2>3 DEF UpReturns
<1>10. ASSUME NEW k \in Locks PROVE OneOwner(k)'
  <2>1. OneOwner(k) /\ k \in AllSemas
    BY DEF LockInv, AllSemas
  <2>2. CASE k = x
    <3>1. PICK t \in Threads : lk[t] = "up" /\ la[t] = x /\ la'[t] = NoSema
      BY <2>2 DEF UpReturns
    <3>2. LockView(n, t, x)
      BY <2>2 DEF LockInv
    <3>3. repeat[x] = 0 /\ holder[x] = NoThread /\ Owner(t, x)
      BY <3>1, <3>2 DEF LockView, Owner
    <3>4. \A u \in Threads : u # t => ~Owner(u, x)
      BY <2>1, <2>2, <3>3 DEF OneOwner
    <3>5. \A u \in Threads : ~Owner(u, x)'
      BY <1>4, <3>1, <3>3, <3>4, SMT DEF UpReturns, Owner
    <3>6. QED BY <2>2, <3>3, <3>5 DEF UpReturns, OneOwner
  <2>3. CASE k # x
    <3>1. \A u \in Threads : Owner(u, k)' <=> Owner(u, k)
      BY <1>4, <2>1, <2>3, SMT DEF UpReturns, Owner
    <3>2. value'[k] = value[k]
      BY <1>1, <1>4, <2>1, <2>3
    <3>3. QED BY <2>1, <3>1, <3>2 DEF UpReturns, OneOwner
  <2>4. QED BY <2>2, <2>3
<1>11. NoLostWakeup'
  <2>1. SUFFICES ASSUME NEW y \in AllSemas, value'[y] = 1, waiters'[y] # <<>>
                 PROVE  \E u \in Threads : la'[u] = y /\ lk'[u] = "woken"
                                         /\ sched'.status[u] # "BLOCKED"
    BY DEF NoLostWakeup
  <2>2. CASE y = x
    <3>1. PICK u \in Threads : Woken(x, u)
      BY <2>1, <2>2, UpFacts
    <3>2. QED BY <1>2, <1>3, <2>2, <3>1, SMT DEF UpReturns
  <2>3. CASE y # x
    <3>1. value[y] = 1 /\ waiters[y] # <<>>
      <4>1. waiters'[y] = waiters[y]
        BY <2>3, UpFacts
      <4>2. QED BY <1>1, <1>4, <2>1, <2>3, <4>1
    <3>2. PICK u \in Threads : la[u] = y /\ lk[u] = "woken" /\ sched.status[u] # "BLOCKED"
      BY <3>1 DEF LockInv, NoLostWakeup
    <3>3. QED BY <1>2, <3>2 DEF UpReturns
  <2>4. QED BY <2>2, <2>3
<1>12. QED BY <1>1, <1>6, <1>7, <1>8, <1>9, <1>10, <1>11 DEF LockInv

(* sema_up called by lock_release. *)
LEMMA SemaUpInv ==
  ASSUME NEW n, LockInv(n), NEW t \in Threads, sema_up(t)
  PROVE  LockInv(n)'
<1>1. Runs(t) /\ lk[t] = "up"
  BY DEF sema_up, At
<1>2. PICK k \in Locks : la[t] = k /\ OneOwner(k)
  BY <1>1, AtLock
<1>3. /\ value \in [AllSemas -> {0, 1}] /\ lk \in [Threads -> LockPC] /\ k \in AllSemas
      /\ la \in [Threads -> AllSemas \cup {NoSema}]
  BY DEF LockInv, SyncTypeOK, AllSemas
<1>4. value[k] = 0
  BY <1>1, <1>2, <1>3 DEF OneOwner, Owner
<1>5. /\ Up(k) /\ lk' = [lk EXCEPT ![t] = "out"] /\ la' = [la EXCEPT ![t] = NoSema]
      /\ UNCHANGED <<holder, repeat, cli, idlepc>>
  BY <1>2 DEF sema_up, Return
<1>6. cli' \in SUBSET Threads /\ idlepc' \in {"block", "sti", "hlt"}
  BY <1>5 DEF LockInv, SyncTypeOK
<1>7. lk' \in [Threads -> LockPC] /\ la' \in [Threads -> AllSemas \cup {NoSema}]
  BY <1>3, <1>5 DEF LockPC
<1>8. /\ \A u \in Threads : u # t => lk'[u] = lk[u] /\ la'[u] = la[u]
      /\ lk'[t] = "out" /\ la'[t] = NoSema
  BY <1>3, <1>5
<1>9. UpReturns(k)
  BY <1>1, <1>2, <1>5, <1>6, <1>7, <1>8 DEF UpReturns
<1>10. QED BY <1>3, <1>4, <1>5, <1>9, UpInv

(* Every step inside sync.c keeps LockInv, and no assertion in it fails. *)
LEMMA SyncStepInv ==
  ASSUME NEW n, LockInv(n), NEW t \in Threads, SyncStep(t)
  PROVE  LockInv(n)'
BY AcquireCheckInv, AcquireAgainInv, DownBlocks, DownTakes, SetHolderInv, SetRepeatInv,
   ReleaseCheckInv, ReleaseOnceInv, ClearHolderInv, ClearRepeatInv, SemaUpInv
DEF SyncStep

(* A step inside sync.c moves only the thread that takes it, and neither   *)
(* blocks nor wakes a thread on behalf of a client.                        *)
LEMMA SyncStepFrame ==
  ASSUME NEW n, LockInv(n), NEW t \in Threads, SyncStep(t)
  PROVE  /\ Runs(t) /\ lk[t] # "out" /\ t # Idle /\ UNCHANGED <<cli, idlepc>>
         /\ \A u \in Threads : u # t => lk'[u] = lk[u] /\ la'[u] = la[u]
         /\ la'[t] \in {la[t], NoSema}
         /\ Sleepers' = Sleepers
<1>1. /\ lk \in [Threads -> LockPC] /\ la \in [Threads -> AllSemas \cup {NoSema}]
      /\ sched \in SchedState /\ value \in [AllSemas -> {0, 1}] /\ NoSema \notin AllSemas
  BY SyncAssumption DEF LockInv, SyncTypeOK, AllSemas
<1>2. Runs(t) /\ lk[t] # "out" /\ UNCHANGED <<cli, idlepc>>
  BY DEF SyncStep, AcquireCheck, AcquireAgain, sema_down, SetHolder, SetRepeat,
     ReleaseCheck, ReleaseOnce, ClearHolder, ClearRepeat, sema_up, At
<1>3. t # Idle /\ sched.cur = t /\ sched.status[t] # "BLOCKED"
  <2>1. ThreadView(n, t)
    BY DEF LockInv
  <2>2. QED BY <1>2, <2>1, RunningFacts DEF ThreadView
<1>4. /\ \A u \in Threads : u # t => lk'[u] = lk[u] /\ la'[u] = la[u]
      /\ la'[t] \in {la[t], NoSema}
  BY <1>1 DEF SyncStep, AcquireCheck, AcquireAgain, sema_down, SetHolder, SetRepeat,
     ReleaseCheck, ReleaseOnce, ClearHolder, ClearRepeat, sema_up, Goto, Return
<1>5. ASSUME sched' = sched PROVE Sleepers' = Sleepers
  BY <1>3, <1>4, <1>5 DEF Sleepers
<1>6. ASSUME \A u \in Threads \ {Idle} :
               sched'.status[u] = "BLOCKED" /\ lk'[u] = "out" <=>
               sched.status[u] = "BLOCKED" /\ lk[u] = "out"
      PROVE  Sleepers' = Sleepers
  BY <1>6 DEF Sleepers
<1>7. ASSUME sema_down(t) PROVE Sleepers' = Sleepers
  <2>1. CASE value[la[t]] # 0
    <3>1. sched' = sched
      BY <1>7, <2>1, DownTakes
    <3>2. QED BY <1>5, <3>1
  <2>2. CASE value[la[t]] = 0
    <3>1. Blocked(sched') \ {Idle} = (Blocked(sched) \cup {t}) \ {Idle}
      BY <1>7, <2>2, DownBlocks
    <3>2. \A u \in Threads \ {Idle} :
            sched'.status[u] = "BLOCKED" <=> sched.status[u] = "BLOCKED" \/ u = t
      BY <3>1 DEF Blocked
    <3>3. lk'[t] = "woken"
      BY <1>1, <1>7, <2>2 DEF sema_down, Goto
    <3>4. ASSUME NEW u \in Threads \ {Idle}
          PROVE  sched'.status[u] = "BLOCKED" /\ lk'[u] = "out" <=>
                 sched.status[u] = "BLOCKED" /\ lk[u] = "out"
      BY <1>3, <1>4, <3>2, <3>3
    <3>5. QED BY <1>6, <3>4
  <2>3. QED BY <2>1, <2>2
<1>8. ASSUME sema_up(t) PROVE Sleepers' = Sleepers
  <2>1. lk[t] = "up"
    BY <1>8 DEF sema_up, At
  <2>2. PICK k \in Locks : la[t] = k /\ OneOwner(k)
    BY <2>1, AtLock
  <2>3. k \in AllSemas /\ value[k] = 0
    BY <1>1, <2>1, <2>2 DEF OneOwner, Owner, AllSemas
  <2>4. Up(k)
    BY <1>8, <2>2 DEF sema_up
  <2>5. \A u \in Threads : Woken(k, u) => lk[u] = "woken"
    BY <2>3, <2>4, UpFacts
  <2>6. \A u \in Threads : sched'.status[u] = "BLOCKED" <=>
          sched.status[u] = "BLOCKED" /\ ~Woken(k, u)
    BY <2>3, <2>4, UpFacts
  <2>7. ASSUME NEW u \in Threads \ {Idle}
        PROVE  sched'.status[u] = "BLOCKED" /\ lk'[u] = "out" <=>
               sched.status[u] = "BLOCKED" /\ lk[u] = "out"
    BY <1>3, <1>4, <2>5, <2>6
  <2>8. QED BY <1>6, <2>7
<1>9. ASSUME SetRepeat(t) \/ ReleaseCheck(t) PROVE Sleepers' = Sleepers
  <2>1. ~sched'.panic
    BY SyncStepInv DEF LockInv, SchedOK
  <2>2. Panic(sched).panic = TRUE
    BY <1>1 DEF Panic, SchedState
  <2>3. sched' = sched
    BY <1>9, <2>1, <2>2 DEF SetRepeat, ReleaseCheck, Assert
  <2>4. QED BY <1>5, <2>3
<1>10. QED BY <1>2, <1>3, <1>4, <1>5, <1>7, <1>8, <1>9
      DEF SyncStep, AcquireCheck, AcquireAgain, SetHolder, ReleaseOnce, ClearHolder, ClearRepeat

(* Nor does a call, the clock, thread_yield or the idle thread. *)
LEMMA OtherStepFrame ==
  ASSUME NEW n, LockInv(n),
         \/ \E t \in Threads : \E p, x : Call(t, p, x)
         \/ Tick \/ idle \/ \E t \in Threads : Yield(t)
  PROVE  Sleepers' = Sleepers
<1>1. ASSUME UNCHANGED lk, Blocked(sched') \ {Idle} = Blocked(sched) \ {Idle}
      PROVE  Sleepers' = Sleepers
  BY <1>1 DEF Sleepers, Blocked
<1>2. ASSUME NEW t \in Threads, NEW p, NEW x, Call(t, p, x) PROVE Sleepers' = Sleepers
  <2>1. Runs(t) /\ UNCHANGED sched /\ lk' = [lk EXCEPT ![t] = p] /\ lk \in [Threads -> LockPC]
    BY <1>2 DEF Call, At, LockInv, SyncTypeOK
  <2>2. sched.status[t] # "BLOCKED"
    BY <2>1, RunningFacts
  <2>3. QED BY <2>1, <2>2 DEF Sleepers
<1>3. CASE Tick
  BY <1>1, <1>3, TickInv DEF Tick
<1>4. CASE idle
  BY <1>1, <1>4, IdleInv DEF idle, IdleBlock, IdleHalt
<1>5. ASSUME NEW t \in Threads, Yield(t) PROVE Sleepers' = Sleepers
  BY <1>1, <1>5, YieldInv DEF Yield
<1>6. QED BY <1>2, <1>3, <1>4, <1>5
=============================================================================
