----------------------------- MODULE MCThreads -----------------------------
(* Main makes two kernel threads, or two processes while they use a lock.  *)
EXTENDS Threads
CONSTANTS idle_t, main_t, a, b, p, q, pl, con, null, nosema

MCThreads == {idle_t, main_t, a, b, p, q}
MCPriority == [t \in MCThreads |-> 0]
MCStart == <<idle_t, a, b, p, q>>
MCPrograms == {{"start"}, {"execute", "lock"}}
=============================================================================
