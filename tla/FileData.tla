------------------------------ MODULE FileData ------------------------------
(***************************************************************************)
(* The contents of files (fs/file.c, fs/inode.c): file_write appends to a  *)
(* file and allocates its blocks, file_read and sys_lseek read it back,    *)
(* inode_release gives the blocks of a deleted file back.                  *)
(*                                                                         *)
(* An inode has Direct blocks of its own and one block, i_sectors[Direct], *)
(* with a table of Indirect more.  Blocks are named by their index in the  *)
(* block bitmap; block 0 is the root directory's, so 0 is `no block', as a *)
(* zero address is in the code.  A byte of contents is <<file, position>>. *)
(* One thread is in the file system at a time, as in the code's own use of *)
(* it: a call is a step.                                                   *)
(***************************************************************************)
EXTENDS Integers, Sequences, FiniteSets

CONSTANTS
  Files,
  BLOCK_SIZE,       \* 512 in the code
  Direct,           \* 12
  Indirect,         \* 128
  NBlocks,          \* blocks of the partition
  IdxMod,           \* 2^8: block_bitmap_idx of file_write is a uint8_t
  MaxWrite,         \* bound: most bytes of one call
  MaxSize,          \* bound: the callers write no file longer than this
  Junk              \* what is outside a buffer, or in a block never written

ASSUME FileDataAssumption ==
  {BLOCK_SIZE, Direct, Indirect, NBlocks, IdxMod, MaxWrite, MaxSize} \subseteq Nat \ {0}

VARIABLES
  block_bitmap,
  disk,         \* block -> its contents: bytes, or a table of blocks
  inode,        \* file -> [i_size, i_sectors]
  fd_pos,       \* file -> position of its descriptor
  result,       \* what the last file_read returned, and should have
  panic         \* "no", or the ASSERT that failed

vars == <<block_bitmap, disk, inode, fd_pos, result, panic>>

MaxBlocks == Direct + Indirect                      \* 140
Sectors == 0 .. Direct                              \* i_sectors
NoBytes == [i \in 0 .. BLOCK_SIZE - 1 |-> Junk]
NoTable == [i \in Direct .. MaxBlocks - 1 |-> 0]
NewInode == [i_size |-> 0, i_sectors |-> [i \in Sectors |-> 0]]
Nothing == [got |-> <<>>, want |-> <<>>]

Init ==
  /\ block_bitmap = [b \in 0 .. NBlocks - 1 |-> b = 0]
  /\ disk = [b \in 0 .. NBlocks - 1 |-> NoBytes]
  /\ inode = [f \in Files |-> NewInode]
  /\ fd_pos = [f \in Files |-> 0]
  /\ result = Nothing
  /\ panic = "no"

-----------------------------------------------------------------------------
(* Calls of block_bitmap_alloc find the free blocks in order; too few of   *)
(* them and the ASSERT of bitmap_scan fails on the way.                    *)
FreeBlocks == {b \in DOMAIN block_bitmap : ~block_bitmap[b]}
Nth(n) == CHOOSE b \in FreeBlocks : Cardinality({c \in FreeBlocks : c < b}) = n - 1
TooFew(n) == Cardinality(FreeBlocks) < n

(* The numbers file_write works with.  A block is allocated for a first    *)
(* write; then as many as the situation asks for.                          *)
has(f) == inode[f].i_size \div BLOCK_SIZE + 1
will(f, count) == (inode[f].i_size + count) \div BLOCK_SIZE + 1
first(f) == IF inode[f].i_sectors[0] = 0 THEN 1 ELSE 0

Situation(f, count) ==
  CASE will(f, count) = has(f) -> 0
    [] will(f, count) > has(f) /\ will(f, count) <= Direct -> 1
    [] has(f) <= Direct /\ will(f, count) > Direct -> 2
    [] OTHER -> 3

(* The file blocks that get a new disk block: in situation 3 the loop      *)
(* starts with block_idx at 0.                                             *)
NewBlocks(f, count) ==
  (IF Situation(f, count) = 3 THEN 0 ELSE has(f)) .. will(f, count) - 1

TableBlocks(f, count) == IF Situation(f, count) = 2 THEN 1 ELSE 0

(* A faulty variant: the block of the table is not marked. *)
AllocatedNoTable(f, count) ==
  first(f) + IF Situation(f, count) = 0 THEN 0 ELSE Cardinality(NewBlocks(f, count))

Allocated(f, count) ==
  first(f) + IF Situation(f, count) = 0 THEN 0
             ELSE TableBlocks(f, count) + Cardinality(NewBlocks(f, count))

(* i_sectors and all_blocks once every block is there. *)
sectors(f, count) ==
  [i \in Sectors |->
     IF i = 0 /\ first(f) = 1 THEN Nth(1)
     ELSE IF i = Direct /\ Situation(f, count) = 2 THEN Nth(first(f) + 1)
     ELSE IF Situation(f, count) \in {1, 2} /\ i < Direct /\ i \in NewBlocks(f, count)
     THEN Nth(first(f) + TableBlocks(f, count) + i - has(f) + 1)
     ELSE inode[f].i_sectors[i]]

table(f) == IF inode[f].i_sectors[Direct] = 0 THEN NoTable ELSE disk[inode[f].i_sectors[Direct]]

all_blocks(f, count) ==
  [i \in 0 .. MaxBlocks - 1 |->
     IF Situation(f, count) # 0 /\ i \in NewBlocks(f, count)
     THEN Nth(first(f) + TableBlocks(f, count) + Cardinality({j \in NewBlocks(f, count) : j <= i}))
     ELSE IF i < Direct THEN sectors(f, count)[i]
     ELSE table(f)[i]]

(* The ASSERTs of file_write, in the order they are met. *)
WriteAssert(f, count) ==
  LET s == inode[f].i_sectors IN
  CASE first(f) = 1 /\ TooFew(1) -> "full"
    [] first(f) = 1 /\ ~TooFew(1) /\ Nth(1) % IdxMod = 0 -> "index"
    [] will(f, count) > MaxBlocks -> "limit"
    [] TooFew(Allocated(f, count)) -> "full"
    [] Situation(f, count) = 1
         /\ ((s[has(f) - 1] = 0 /\ first(f) = 0) \/ \E i \in has(f) .. will(f, count) - 1 : s[i] # 0) -> "assert"
    [] Situation(f, count) = 2
         /\ (s[Direct] # 0 \/ \E i \in has(f) .. Direct - 1 : s[i] # 0) -> "assert"
    [] has(f) > Direct /\ s[Direct] = 0 -> "assert"
    [] OTHER -> "no"

(* A faulty variant: the first block is not read before it is written. *)
WrittenNoRead(f, count, i, b) ==
  [k \in 0 .. BLOCK_SIZE - 1 |->
     LET pos == i * BLOCK_SIZE + k IN
     IF inode[f].i_size <= pos /\ pos < inode[f].i_size + count THEN <<f, pos>> ELSE Junk]

(* Block b of the file after the write: what is there before the old end,  *)
(* then the new bytes; the rest is nobody's.                               *)
Written(f, count, i, b) ==
  [k \in 0 .. BLOCK_SIZE - 1 |->
     LET pos == i * BLOCK_SIZE + k IN
     IF pos < inode[f].i_size THEN disk[b][k]
     ELSE IF pos < inode[f].i_size + count THEN <<f, pos>> ELSE Junk]

file_write(f, count) ==
  /\ panic = "no"
  /\ inode[f].i_size + count <= MaxBlocks * BLOCK_SIZE
  /\ panic' = WriteAssert(f, count)
  /\ IF panic' # "no" THEN UNCHANGED <<block_bitmap, disk, inode, fd_pos>>
     ELSE LET size == inode[f].i_size
              all == all_blocks(f, count)
              sec == sectors(f, count)
              touched == size \div BLOCK_SIZE .. (size + count - 1) \div BLOCK_SIZE IN
          /\ block_bitmap' = [b \in DOMAIN block_bitmap |->
                block_bitmap[b] \/ \E n \in 1 .. Allocated(f, count) : b = Nth(n)]
          /\ disk' = [b \in DOMAIN disk |->
                IF \E i \in touched : all[i] = b
                THEN LET i == CHOOSE j \in touched : all[j] = b IN Written(f, count, i, b)
                ELSE IF b = sec[Direct] /\ b # 0 THEN [i \in Direct .. MaxBlocks - 1 |-> all[i]]
                ELSE disk[b]]
          /\ inode' = [inode EXCEPT ![f] = [i_size |-> size + count, i_sectors |-> sec]]
          /\ fd_pos' = [fd_pos EXCEPT ![f] = size + count - 1]
  /\ result' = Nothing

(* file_read takes everything out of the first block: sec_left_bytes is    *)
(* computed from the size of the file and never cuts the chunk.            *)
ReadAssert(f, start, end) ==
  CASE end >= MaxBlocks - 1 -> "read"
    [] start # end /\ end >= Direct /\ inode[f].i_sectors[Direct] = 0 -> "assert"
    [] OTHER -> "no"

FileBlock(f, i) == IF i < Direct THEN inode[f].i_sectors[i] ELSE table(f)[i]

(* A faulty variant: a read starts at the beginning of the block. *)
sec_off_none(f) == 0

(* Where in its block a read starts. *)
sec_off_bytes(f) == fd_pos[f] % BLOCK_SIZE

file_read(f, count) ==
  LET pos == fd_pos[f]
      size == IF pos + count > inode[f].i_size THEN inode[f].i_size - pos ELSE count
      off == sec_off_bytes(f)
      b == FileBlock(f, pos \div BLOCK_SIZE) IN
  /\ panic = "no" /\ size # 0
  /\ panic' = ReadAssert(f, pos \div BLOCK_SIZE, (pos + size) \div BLOCK_SIZE)
  /\ IF panic' # "no" THEN UNCHANGED <<fd_pos, result>>
     ELSE /\ fd_pos' = [fd_pos EXCEPT ![f] = pos + size]
          /\ result' = [got |-> [k \in 1 .. size |-> IF off + k - 1 < BLOCK_SIZE
                                                    THEN disk[b][off + k - 1] ELSE Junk],
                        want |-> [k \in 1 .. size |-> <<f, pos + k - 1>>]]
  /\ UNCHANGED <<block_bitmap, disk, inode>>

(* SEEK_SET; the others reach the same positions. *)
sys_lseek(f, new_pos) ==
  /\ panic = "no" /\ new_pos <= inode[f].i_size - 1
  /\ fd_pos' = [fd_pos EXCEPT ![f] = new_pos]
  /\ result' = Nothing
  /\ UNCHANGED <<block_bitmap, disk, inode, panic>>

(* inode_release for sys_unlink; the name is then used for a new file.     *)
(* What is left in a free block is of no use to anyone.                    *)
Owned(f) ==
  {inode[f].i_sectors[i] : i \in Sectors} \cup {table(f)[i] : i \in DOMAIN table(f)}

(* A faulty variant: the blocks behind the table are forgotten. *)
inode_releaseDirect(f) ==
  LET mine == {inode[f].i_sectors[i] : i \in Sectors} IN
  /\ panic = "no"
  /\ block_bitmap' = [b \in DOMAIN block_bitmap |-> block_bitmap[b] /\ (b = 0 \/ b \notin mine)]
  /\ disk' = [b \in DOMAIN disk |-> IF b # 0 /\ b \in mine THEN NoBytes ELSE disk[b]]
  /\ inode' = [inode EXCEPT ![f] = NewInode]
  /\ fd_pos' = [fd_pos EXCEPT ![f] = 0]
  /\ result' = Nothing
  /\ UNCHANGED panic

inode_release(f) ==
  /\ panic = "no"
  /\ block_bitmap' = [b \in DOMAIN block_bitmap |-> block_bitmap[b] /\ (b = 0 \/ b \notin Owned(f))]
  /\ disk' = [b \in DOMAIN disk |-> IF b # 0 /\ b \in Owned(f) THEN NoBytes ELSE disk[b]]
  /\ inode' = [inode EXCEPT ![f] = NewInode]
  /\ fd_pos' = [fd_pos EXCEPT ![f] = 0]
  /\ result' = Nothing
  /\ UNCHANGED panic

Next == \E f \in Files :
  \/ \E count \in 1 .. MaxWrite : inode[f].i_size + count <= MaxSize /\ file_write(f, count)
  \/ \E count \in 1 .. MaxWrite : file_read(f, count)
  \/ \E new_pos \in 0 .. MaxSize : sys_lseek(f, new_pos)
  \/ inode_release(f)

Spec == Init /\ [][Next]_vars

-----------------------------------------------------------------------------
Used(f) == Owned(f) \ {0}

(* No block belongs to two files, or twice to one, and every block in use  *)
(* is marked: a write to one file never shows up in another.  The ASSERTs  *)
(* of file_write and file_read on the blocks of a file hold.               *)
BlocksApart ==
  /\ panic # "assert"
  /\ \A f \in Files :
       /\ \A g \in Files \ {f} : Used(f) \cap Used(g) = {}
       /\ \A b \in Used(f) : block_bitmap[b]
       /\ \A i, j \in 0 .. MaxBlocks - 1 :
            i # j /\ FileBlock(f, i) # 0 => FileBlock(f, i) # FileBlock(f, j)
       /\ \A i \in 0 .. MaxBlocks - 1 : inode[f].i_sectors[Direct] # 0 =>
            FileBlock(f, i) # inode[f].i_sectors[Direct]

(* A read gives back what was written, up to the end of the block it       *)
(* starts in, in direct blocks and behind the table.                       *)
ReadsBackInBlock ==
  \A k \in DOMAIN result.got :
    result.want[k][2] \div BLOCK_SIZE = result.want[1][2] \div BLOCK_SIZE =>
      result.got[k] = result.want[k]

(* `chunk_size makes sure that nothing superfluous is read': a read gives  *)
(* back what was written, across the end of a block too.                   *)
ReadsBack == result.got = result.want

(* The whole file is kept: block by block the disk holds what was written. *)
ContentsKept ==
  panic = "no" => \A f \in Files : \A pos \in 0 .. inode[f].i_size - 1 :
    disk[FileBlock(f, pos \div BLOCK_SIZE)][pos % BLOCK_SIZE] = <<f, pos>>

(* `the largest file has 512*140 bytes': a write up to there goes through. *)
LargestFileWritable == panic # "limit"

(* A file the system has let grow can be read to its end. *)
LargestFileReadable == panic # "read"

(* `the index of the block in the bitmap': any free block will do as the   *)
(* first one of a file.                                                    *)
AnyFirstBlock == panic # "index"
=============================================================================
