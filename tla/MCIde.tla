------------------------------- MODULE MCIde -------------------------------
(* Two threads on the disks of one channel: a read that is cut into two    *)
(* commands and a write of one of its sectors.                             *)
EXTENDS Ide
CONSTANTS idle_t, main_t, a, b, ch, dd, null, nosema

MCThreads == {idle_t, main_t, a, b}
MCPriority == [t \in MCThreads |-> 0]
MCStart == <<idle_t, a, b>>
Call1(o, h, l, n) == [op |-> o, hd |-> h, lba |-> l, cnt |-> n]
MCRequests == {Call1("read", 1, 0, 3), Call1("write", 1, 1, 1)}
=============================================================================
