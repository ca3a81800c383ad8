----------------------------- MODULE MCIoQueue -----------------------------
(* One reader of the keyboard; two; two, and the main thread writes. *)
EXTENDS IoQueue
CONSTANTS idle_t, main_t, c, d, ioq, null, nosema

MCThreads == {idle_t, main_t, c, d}
MCPriority == [t \in MCThreads |-> 1]
MCStart == <<idle_t, c, d>>
Use(readers, writers) == [consumers |-> readers, producers |-> writers]
MCUsers == {Use({c}, {}), Use({c, d}, {}), Use({c, d}, {main_t})}
MCWriter == {Use({c}, {main_t})}
=============================================================================
