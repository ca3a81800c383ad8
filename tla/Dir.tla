-------------------------------- MODULE Dir ---------------------------------
(***************************************************************************)
(* One directory on disk (fs/dir.c): sync_dir_entry adds an entry,         *)
(* delete_dir_entry removes one and gives an empty block back,             *)
(* search_dir_entry and dir_read look entries up.  The blocks are laid out *)
(* as in FileData: Direct of them in the inode, a table for Indirect more. *)
(*                                                                         *)
(* A name stands for an entry, Free for one with FT_UNKNOWN; sizes and     *)
(* positions count entries.  The callers add a name only when the search   *)
(* did not find it.  A call is a step, as in FileData.                     *)
(***************************************************************************)
EXTENDS Integers, FiniteSets

CONSTANTS
  Names,            \* the names of files in the directory
  dot, dotdot,      \* the entries "." and ".."
  Free,             \* an unused entry
  Direct,           \* 12 in the code
  Indirect,         \* 128
  PerSec,           \* entries of a sector, 512 / dir_entry_size
  NBlocks           \* blocks of the partition

VARIABLES
  block_bitmap,
  disk,         \* block -> its entries, or a table of blocks
  i_sectors,    \* of the directory's inode; 0 for no block
  i_size,
  live,         \* the names added and not deleted
  state         \* "ok", "panic", or "hangs" in a loop without end

vars == <<block_bitmap, disk, i_sectors, i_size, live, state>>

MaxBlocks == Direct + Indirect
Entries == 0 .. PerSec - 1
NoEntries == [e \in Entries |-> Free]

(* As sys_mkdir leaves it: the two entries in the first block.  Block 0 is *)
(* the root directory's.                                                   *)
Init ==
  /\ block_bitmap = [b \in 0 .. NBlocks - 1 |-> b <= 1]
  /\ disk = [b \in 0 .. NBlocks - 1 |->
       IF b = 1 THEN [NoEntries EXCEPT ![0] = dot, ![1] = dotdot] ELSE NoEntries]
  /\ i_sectors = [i \in 0 .. Direct |-> IF i = 0 THEN 1 ELSE 0]
  /\ i_size = 2
  /\ live = {}
  /\ state = "ok"

-----------------------------------------------------------------------------
(* all_blocks with the table read from disk, as every function but         *)
(* sync_dir_entry collects it, and as sync_dir_entry does.                 *)
all_blocks ==
  [i \in 0 .. MaxBlocks - 1 |->
     IF i < Direct THEN i_sectors[i]
     ELSE IF i_sectors[Direct] # 0 THEN disk[i_sectors[Direct]][i] ELSE 0]

sync_blocks == [i \in 0 .. MaxBlocks - 1 |-> IF i < Direct THEN i_sectors[i] ELSE 0]

Room(b) == \E e \in Entries : disk[b][e] = Free
FirstFree(b) == CHOOSE e \in Entries : disk[b][e] = Free /\ \A d \in 0 .. e - 1 : disk[b][d] # Free

(* The first block that is missing or has room. *)
Place(all) ==
  LET P == {i \in DOMAIN all : all[i] = 0 \/ Room(all[i])} IN
  IF P = {} THEN -1 ELSE CHOOSE i \in P : \A j \in P : i <= j

FreeBlocks == {b \in DOMAIN block_bitmap : ~block_bitmap[b]}

Mark(blocks) == [b \in DOMAIN block_bitmap |-> block_bitmap[b] \/ b \in blocks]

Nth(n) == CHOOSE b \in FreeBlocks : Cardinality({c \in FreeBlocks : c < b}) = n - 1

(* A new block for the entry; behind the direct ones a table comes first,  *)
(* and is written with all the function knows of it.  When there are too   *)
(* few the ASSERT of bitmap_scan fails.                                    *)
AddBlock(i, name) ==
  LET n == IF i = Direct THEN 2 ELSE 1
      b == Nth(n)
      with == [disk EXCEPT ![b] = [NoEntries EXCEPT ![0] = name]] IN
  IF Cardinality(FreeBlocks) < n
  THEN state' = "panic" /\ UNCHANGED <<block_bitmap, disk, i_sectors, i_size, live>>
  ELSE /\ block_bitmap' = Mark({Nth(1), b})
       /\ i_sectors' = [i_sectors EXCEPT ![i] = Nth(1)]
       /\ disk' = IF i < Direct THEN with
                  ELSE [with EXCEPT ![Nth(1)] = [j \in Direct .. MaxBlocks - 1 |->
                                                   IF j = i THEN b ELSE sync_blocks[j]]]
       /\ i_size' = i_size + 1 /\ live' = live \cup {name}
       /\ UNCHANGED state

(* Block Direct is always missing to it, so no later one is ever reached. *)
sync_dir_entry(name) ==
  /\ state = "ok" /\ name \notin live
  /\ LET i == Place(sync_blocks) IN
     IF sync_blocks[i] = 0 THEN AddBlock(i, name)
     ELSE /\ disk' = [disk EXCEPT ![sync_blocks[i]][FirstFree(sync_blocks[i])] = name]
          /\ i_size' = i_size + 1 /\ live' = live \cup {name}
          /\ UNCHANGED <<block_bitmap, i_sectors, state>>

-----------------------------------------------------------------------------
InUse(b) == {e \in Entries : disk[b][e] \notin {Free, dot, dotdot}}

HasDot(b) == \E e \in Entries : disk[b][e] = dot

(* A faulty variant: any block is given back, the first one too. *)
LastOneAny(b) == Cardinality(InUse(b)) = 1

(* The entry to delete is the only one of its block. *)
LastOne(b) == Cardinality(InUse(b)) = 1 /\ ~HasDot(b)

(* The block is given back when the entry is its only one and it is not    *)
(* the first of the directory.  For a block behind the table the loop that *)
(* counts the others, once the bit is clear, never advances.               *)
delete_dir_entry(name) ==
  LET P == {i \in DOMAIN all_blocks : all_blocks[i] # 0 /\ \E e \in InUse(all_blocks[i]) :
                                        disk[all_blocks[i]][e] = name}
      i == CHOOSE j \in P : \A k \in P : j <= k
      b == all_blocks[i]
      Deleted == i_size' = i_size - 1 /\ live' = live \ {name} IN
  /\ state = "ok" /\ P # {}
  /\ IF LastOne(b)
     THEN /\ block_bitmap' = [block_bitmap EXCEPT ![b] = FALSE]
          /\ IF i < Direct
             THEN /\ i_sectors' = [i_sectors EXCEPT ![i] = 0]
                  /\ disk' = [disk EXCEPT ![b] = NoEntries]    \* nobody's now
                  /\ Deleted /\ UNCHANGED state
             ELSE /\ state' = "hangs"
                  /\ UNCHANGED <<disk, i_sectors, i_size, live>>
     ELSE /\ disk' = [disk EXCEPT ![b] = [e \in Entries |-> IF disk[b][e] = name THEN Free ELSE disk[b][e]]]
          /\ Deleted
          /\ UNCHANGED <<block_bitmap, i_sectors, state>>

(* What the search goes through, block by block. *)
Searched == {disk[b][e] : b \in {all_blocks[i] : i \in DOMAIN all_blocks} \ {0}, e \in Entries}
search_dir_entry(name) == name \in Searched

(* dir_read with dir_pos at pos: the entry with pos others in front of it. *)
dir_read(pos) ==
  LET last == IF i_sectors[Direct] # 0 THEN MaxBlocks ELSE Direct
      slots == {<<i, e>> \in (0 .. last - 1) \X Entries :
                  all_blocks[i] # 0 /\ disk[all_blocks[i]][e] # Free}
      before(s) == {r \in slots : r[1] < s[1] \/ (r[1] = s[1] /\ r[2] < s[2])} IN
  {disk[all_blocks[s[1]]][s[2]] : s \in {r \in slots : pos < i_size /\ Cardinality(before(r)) = pos}}

Next == \E name \in Names : sync_dir_entry(name) \/ delete_dir_entry(name)

Spec == Init /\ [][Next]_vars

-----------------------------------------------------------------------------
(* The directory holds exactly the names added and not deleted, whatever   *)
(* holes the deletions have left: the search finds each of them and no     *)
(* other, and reading from the start returns each exactly once.            *)
HoldsLive ==
  state = "ok" =>
    /\ Searched \cap Names = live
    /\ {dir_read(pos) : pos \in 0 .. i_size - 1} = {{name} : name \in live \cup {dot, dotdot}}
    /\ i_size = 2 + Cardinality(live)

(* The ASSERT of dir_remove: an empty directory, one that dir_is_empty     *)
(* recognises by its size, has no block but its first.                     *)
EmptyHasOneBlock == i_size = 2 => \A i \in 1 .. Direct : i_sectors[i] = 0

(* `all sector addresses of the directory go into all_blocks': an entry    *)
(* is still there after another one is added.                              *)
EntriesKept == state = "ok" => \A name \in live : search_dir_entry(name)

(* A call comes back. *)
DeleteReturns == state # "hangs"
=============================================================================
