----------------------------- MODULE Partitions -----------------------------
(***************************************************************************)
(* Finding the partitions (device/ide.c): ide_init visits the channels,    *)
(* and partition_scan reads the partition tables of the second disk of     *)
(* each, the first one in sector 0 and one more for each logical           *)
(* partition, chained by entries of type 5 and read by recursion.          *)
(*                                                                         *)
(* A disk of the machine is its tables, by sector, and the partitions it   *)
(* was given when they were written: those of the first table and, in the  *)
(* order of the chain, the logical ones.  A step is one entry of a table;  *)
(* scan is the stack of the tables being read.                             *)
(***************************************************************************)
EXTENDS Integers, SequencesExt

CONSTANTS
  Channels,     \* number of IDE channels, channel_cnt
  Primary,      \* primary partitions of a disk, 4
  Logical,      \* logical partitions of a disk, 8
  Disks         \* records [tables, primary, logical]

Entries == 1 .. 4
None == [start_lba |-> 0, sec_cnt |-> 0]

VARIABLES
  disks,            \* the second disk of each channel
  parts,            \* parts[c][i]: primary_partition, then logical_partition
  scan,             \* the calls of partition_scan: [ext_lba, part_num]
  scan_no,          \* channel_no of ide_init
  ext_lba_base,     \* global variables
  p_no, l_no,
  panic             \* ASSERT(p_no < 4) failed

scanvars == <<parts, scan, scan_no, ext_lba_base, p_no, l_no, panic>>

-----------------------------------------------------------------------------
(* A sector that holds no table reads as an empty one. *)
boot_sector(c, lba) ==
  IF lba \in DOMAIN disks[c].tables THEN disks[c].tables[lba]
  ELSE [k \in Entries |-> [fs_type |-> 0, start_lba |-> 0, sec_cnt |-> 0]]

ScanCall(ext_lba) == [ext_lba |-> ext_lba, part_num |-> 0]

ScanInit ==
  /\ disks \in [0 .. Channels - 1 -> Disks]
  /\ parts = [c \in 0 .. Channels - 1 |-> [i \in 0 .. Primary + Logical - 1 |-> None]]
  /\ scan = <<ScanCall(0)>> /\ scan_no = 0
  /\ ext_lba_base = 0 /\ p_no = 0 /\ l_no = 0
  /\ panic = FALSE

(* A faulty variant: the link is taken from the table it is in. *)
next_tableHere(e, ext_lba) == e.start_lba + ext_lba

(* Where the table is that an entry of type 5 names. *)
next_table(e, ext_lba) == e.start_lba + ext_lba_base

(* One entry of the table on top of the stack. *)
partition_scan ==
  LET top == Last(scan)
      e == boot_sector(scan_no, top.ext_lba)[top.part_num + 1]
      rest == Append(Front(scan), [top EXCEPT !.part_num = @ + 1])
      part == [start_lba |-> top.ext_lba + e.start_lba, sec_cnt |-> e.sec_cnt] IN
  /\ scan # <<>> /\ top.part_num < 4 /\ ~panic
  /\ \/ /\ e.fs_type = 5
        /\ scan' = Append(rest, ScanCall(next_table(e, top.ext_lba)))
        /\ ext_lba_base' = IF ext_lba_base = 0 THEN e.start_lba ELSE ext_lba_base
        /\ UNCHANGED <<parts, p_no, l_no, panic>>
     \/ /\ e.fs_type = 0
        /\ scan' = rest
        /\ UNCHANGED <<parts, ext_lba_base, p_no, l_no, panic>>
     \/ /\ e.fs_type \notin {0, 5} /\ top.ext_lba = 0
        /\ parts' = [parts EXCEPT ![scan_no][p_no] = part]
        /\ p_no' = p_no + 1 /\ panic' = (p_no + 1 >= Primary)
        /\ scan' = rest
        /\ UNCHANGED <<ext_lba_base, l_no>>
     \/ /\ e.fs_type \notin {0, 5} /\ top.ext_lba # 0
        /\ parts' = [parts EXCEPT ![scan_no][Primary + l_no] = part]
        /\ l_no' = l_no + 1
        /\ scan' = IF l_no + 1 >= Logical THEN Front(scan) ELSE rest
        /\ UNCHANGED <<ext_lba_base, p_no, panic>>
  /\ UNCHANGED <<disks, scan_no>>

ScanReturn ==
  /\ scan # <<>> /\ Last(scan).part_num = 4 /\ ~panic
  /\ scan' = Front(scan)
  /\ UNCHANGED <<disks, parts, scan_no, ext_lba_base, p_no, l_no, panic>>

(* The loop of ide_init: the next channel. *)
NextChannel ==
  /\ scan = <<>> /\ scan_no < Channels
  /\ scan_no' = scan_no + 1
  /\ scan' = IF scan_no + 1 < Channels THEN <<ScanCall(0)>> ELSE <<>>
  /\ p_no' = 0 /\ l_no' = 0
  /\ UNCHANGED <<disks, parts, ext_lba_base, panic>>

ScanNext == partition_scan \/ ScanReturn \/ NextChannel
ScanDone == scan_no = Channels

-----------------------------------------------------------------------------
Found(c) == {parts[c][i] : i \in 0 .. Primary + Logical - 1} \ {None}
Written(c) ==
  LET d == disks[c] IN
  ToSet(d.primary) \cup ToSet(SubSeq(d.logical, 1, IF Len(d.logical) < Logical THEN Len(d.logical) ELSE Logical))

(* `at most four primary partitions': a table of as many is accepted. *)
FourPrimaries == ~panic
=============================================================================
