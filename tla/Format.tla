------------------------------- MODULE Format -------------------------------
(***************************************************************************)
(* Making and finding file systems (fs/fs.c): once the partitions are      *)
(* known, filesys_init visits them, formats those without a file system    *)
(* and mounts one; partition_format lays out the super block, the two      *)
(* bitmaps, the inode table and the data blocks, and writes them in this   *)
(* order.                                                                  *)
(*                                                                         *)
(* A file system on a disk is the content of its super block with the      *)
(* block bitmap, and how many of the five areas are written.               *)
(***************************************************************************)
EXTENDS Partitions

CONSTANTS
  SECTOR_SIZE,          \* bytes of a sector, 512 in the code
  MAX_FILES_PER_PART,   \* inodes of a partition, 4096
  InodeSize,            \* sizeof(struct inode)
  PowerFails,           \* whether the machine may stop at any moment
  NoFs

BITS_PER_SECTOR == 8 * SECTOR_SIZE
DIV_ROUND_UP(x, step) == (x + step - 1) \div step

inode_bitmap_sects == DIV_ROUND_UP(MAX_FILES_PER_PART, BITS_PER_SECTOR)
inode_table_sects == DIV_ROUND_UP(InodeSize * MAX_FILES_PER_PART, SECTOR_SIZE)
used_sects == 2 + inode_bitmap_sects + inode_table_sects    \* boot sector, super block

(* Partitions are not tiny: the subtractions of partition_format do not    *)
(* wrap, and the bitmap does not end in its first byte.                    *)
SecCnts == {n \in Nat : n > used_sects + 9}

ASSUME FormatAssumption ==
  /\ {SECTOR_SIZE, MAX_FILES_PER_PART, InodeSize, Channels, Primary, Logical} \subseteq Nat \ {0}
  /\ PowerFails \in BOOLEAN
  /\ \A d \in Disks : \A lba \in DOMAIN d.tables : \A k \in Entries :
       LET e == d.tables[lba][k] IN
       lba \in Nat /\ e.start_lba \in Nat /\ (e.fs_type \notin {0, 5} => e.sec_cnt \in SecCnts)

VARIABLES
  fs,           \* fs[c]: the file systems on the second disk of channel c
  channel_no,   \* the loops of filesys_init
  part_idx,
  areas,        \* areas partition_format has written, 0 when it is not running
  mounted       \* the super block in memory, or NoFs

fsvars == <<fs, channel_no, part_idx, areas, mounted>>
vars == <<disks, scanvars, fsvars>>

-----------------------------------------------------------------------------
(* A faulty variant: the blocks the bitmap takes are counted as data. *)
bit_lenAll(sec_cnt) == sec_cnt - used_sects

(* block_bitmap_bit_len, the number of data blocks. *)
bit_len(sec_cnt) ==
  LET free_sects == sec_cnt - used_sects IN
  free_sects - DIV_ROUND_UP(free_sects, BITS_PER_SECTOR)

(* The block bitmap as written: the root's block and the tail of the last  *)
(* sector are marked, then the valid bits of its first byte are cleared.   *)
block_bitmap(len) ==
  LET last_byte == len \div 8
      last_bit == len % 8
      last_size == SECTOR_SIZE - (last_byte % SECTOR_SIZE) IN
  [i \in 0 .. DIV_ROUND_UP(len, BITS_PER_SECTOR) * BITS_PER_SECTOR - 1 |->
     IF i \div 8 = last_byte THEN i % 8 > last_bit
     ELSE i = 0 \/ i \div 8 \in last_byte .. last_byte + last_size - 1]

(* The super block of a partition and its bitmap. *)
super_block(p) ==
  LET len == bit_len(p.sec_cnt)
      block_bitmap_sects == DIV_ROUND_UP(len, BITS_PER_SECTOR)
      block_bitmap_lba == p.start_lba + 2
      inode_bitmap_lba == block_bitmap_lba + block_bitmap_sects
      inode_table_lba == inode_bitmap_lba + inode_bitmap_sects IN
  [part_lba_base |-> p.start_lba, sec_cnt |-> p.sec_cnt,
   block_bitmap_lba |-> block_bitmap_lba, block_bitmap_sects |-> block_bitmap_sects,
   inode_bitmap_lba |-> inode_bitmap_lba, inode_table_lba |-> inode_table_lba,
   data_start_lba |-> inode_table_lba + inode_table_sects,
   bitmap |-> block_bitmap(len)]

(* What a disk holds for partition p: a sector after its first one with    *)
(* the magic number, or none.                                              *)
OnDisk(c, p) == {s \in fs[c] : s.sb.part_lba_base = p.start_lba}

FsInit == channel_no = 0 /\ part_idx = 0 /\ areas = 0 /\ mounted = NoFs

Init == ScanInit /\ FsInit /\ fs = [c \in 0 .. Channels - 1 |-> {}]

Scanning == ScanNext /\ UNCHANGED fsvars

(* The inner loop of filesys_init: a partition that does not exist, or has *)
(* a file system.                                                          *)
SkipPartition ==
  /\ ScanDone /\ channel_no < Channels /\ part_idx < Primary + Logical /\ areas = 0
  /\ LET p == parts[channel_no][part_idx] IN p.sec_cnt = 0 \/ OnDisk(channel_no, p) # {}
  /\ part_idx' = part_idx + 1
  /\ UNCHANGED <<disks, scanvars, fs, channel_no, areas, mounted>>

(* One without: partition_format up to the first write. *)
partition_format ==
  /\ ScanDone /\ channel_no < Channels /\ part_idx < Primary + Logical /\ areas = 0
  /\ LET p == parts[channel_no][part_idx] IN
     /\ p.sec_cnt # 0 /\ OnDisk(channel_no, p) = {}
     /\ fs' = [fs EXCEPT ![channel_no] = @ \cup {[sb |-> super_block(p), written |-> 1]}]
  /\ areas' = 1
  /\ UNCHANGED <<disks, scanvars, channel_no, part_idx, mounted>>

(* Its other writes; after the last one the loop goes on. *)
WriteArea ==
  /\ areas \in 1 .. 4
  /\ LET mine == OnDisk(channel_no, parts[channel_no][part_idx]) IN
     fs' = [fs EXCEPT ![channel_no] =
              (@ \ mine) \cup {[s EXCEPT !.written = areas + 1] : s \in mine}]
  /\ areas' = (areas + 1) % 5
  /\ part_idx' = IF areas = 4 THEN part_idx + 1 ELSE part_idx
  /\ UNCHANGED <<disks, scanvars, channel_no, mounted>>

(* The next disk; part_idx stays what it is. *)
NextDisk ==
  /\ channel_no < Channels /\ part_idx = Primary + Logical
  /\ channel_no' = channel_no + 1
  /\ UNCHANGED <<disks, scanvars, fs, part_idx, areas, mounted>>

(* mount_partition of sdb1, the first primary partition. *)
mount_partition ==
  /\ channel_no = Channels /\ mounted = NoFs
  /\ \E s \in OnDisk(0, parts[0][0]) : mounted' = s.sb
  /\ UNCHANGED <<disks, scanvars, fs, channel_no, part_idx, areas>>

(* The next start of the machine finds the disks as they are. *)
Restart ==
  /\ PowerFails \/ mounted # NoFs
  /\ parts' = [c \in 0 .. Channels - 1 |-> [i \in 0 .. Primary + Logical - 1 |-> None]]
  /\ scan' = <<ScanCall(0)>> /\ scan_no' = 0
  /\ ext_lba_base' = 0 /\ p_no' = 0 /\ l_no' = 0
  /\ channel_no' = 0 /\ part_idx' = 0 /\ areas' = 0 /\ mounted' = NoFs
  /\ UNCHANGED <<disks, panic, fs>>

Next == Scanning \/ SkipPartition \/ partition_format \/ WriteArea \/ NextDisk \/ mount_partition \/ Restart

Spec == Init /\ [][Next]_vars

-----------------------------------------------------------------------------
Supers == UNION {{s.sb : s \in fs[c]} : c \in 0 .. Channels - 1}
Blocks(sb) == 0 .. bit_len(sb.sec_cnt) - 1

(* The parts of the layout, as sets of sectors. *)
Layout(sb) ==
  <<{sb.part_lba_base + 1},
    sb.block_bitmap_lba .. sb.block_bitmap_lba + sb.block_bitmap_sects - 1,
    sb.inode_bitmap_lba .. sb.inode_bitmap_lba + inode_bitmap_sects - 1,
    sb.inode_table_lba .. sb.inode_table_lba + inode_table_sects - 1,
    {sb.data_start_lba + i : i \in Blocks(sb)}>>

(* partition_format keeps the areas apart and inside the partition: the    *)
(* second rounding of the size of the bitmap never makes the data blocks   *)
(* run into the inode table or past the last sector.                       *)
LayoutFits ==
  \A sb \in Supers : \A i \in 1 .. 5 :
    /\ Layout(sb)[i] \subseteq sb.part_lba_base + 1 .. sb.part_lba_base + sb.sec_cnt - 1
    /\ \A j \in 1 .. i - 1 : Layout(sb)[i] \cap Layout(sb)[j] = {}

(* Every data block but the root's has a bit in the bitmap and is free. *)
BlocksFree ==
  \A sb \in Supers : \A i \in Blocks(sb) :
    i \in DOMAIN sb.bitmap /\ sb.bitmap[i] = (i = 0)

(* `clear the valid bits again': a clear bit stands for a data block. *)
FreeBitsAreBlocks ==
  \A sb \in Supers : \A i \in DOMAIN sb.bitmap : ~sb.bitmap[i] => i \in Blocks(sb)

(* `search the disks for file systems, format a partition without one':    *)
(* once filesys_init is through, the file systems are those of the         *)
(* partitions in the tables, each in its place and complete, however the   *)
(* tables are chained and whatever entries are unused.                     *)
EveryPartitionReady ==
  channel_no = Channels =>
    \A c \in 0 .. Channels - 1 :
      /\ {[start_lba |-> s.sb.part_lba_base, sec_cnt |-> s.sb.sec_cnt] : s \in fs[c]} = Written(c)
      /\ \A s \in fs[c] : s.written = 5
      /\ Found(c) = Written(c)
=============================================================================
