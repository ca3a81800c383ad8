------------------------------- MODULE Mutex -------------------------------
(***************************************************************************)
(* What sync.c promises its callers, without scheduler, semaphores or      *)
(* interrupts: a lock has at most one owner, only the owner may enter      *)
(* again, the lock becomes free when every acquire has been matched, and a *)
(* free lock that somebody wants is granted to somebody.                   *)
(***************************************************************************)
EXTENDS Integers

CONSTANTS Threads, Locks, NoThread

VARIABLES
  owner,    \* owner[l]: the thread that owns l, or NoThread
  want      \* want[l]: the threads blocked in, or on their way into, l

mvars == <<owner, want>>

Init ==
  /\ owner = [l \in Locks |-> NoThread]
  /\ want = [l \in Locks |-> {}]

Request(t, l) ==
  /\ owner[l] # t /\ t \notin want[l]
  /\ want' = [want EXCEPT ![l] = @ \cup {t}]
  /\ UNCHANGED owner

Grant(t, l) ==
  /\ owner[l] = NoThread /\ t \in want[l]
  /\ owner' = [owner EXCEPT ![l] = t]
  /\ want' = [want EXCEPT ![l] = @ \ {t}]

Free(t, l) ==
  /\ owner[l] = t
  /\ owner' = [owner EXCEPT ![l] = NoThread]
  /\ UNCHANGED want

Next == \E t \in Threads, l \in Locks : Request(t, l) \/ Grant(t, l) \/ Free(t, l)

Spec == Init /\ [][Next]_mvars

(* A lock that is free is granted to one of those who want it. *)
Fairness == \A l \in Locks : WF_mvars(\E t \in Threads : Grant(t, l))

FairSpec == Spec /\ Fairness
=============================================================================
