--------------------------- MODULE MCLockClients ---------------------------
(* Three threads and idle contend for one lock. *)
EXTENDS LockClients
CONSTANTS idle_t, main_t, a, b, l1, null, nosema

MCThreads == {idle_t, main_t, a, b}
MCPriority == [t \in {idle_t, main_t, a, b} |-> 1]
MCStart == <<idle_t, a, b>>
=============================================================================
