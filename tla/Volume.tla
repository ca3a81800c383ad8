------------------------------- MODULE Volume -------------------------------
(***************************************************************************)
(* A mounted partition and what of it is on the disk at every instant.     *)
(* The calls of FileData on files, and of Dir on the directory they are    *)
(* in, a child of the root, change the state in memory.  The sectors they  *)
(* write are left in todo, in the order in which the code writes them, and *)
(* reach the disk one at a time.  When the power goes only the image on    *)
(* the disk remains, and mount_partition reads it again.                   *)
(*                                                                         *)
(* disk of FileData and Dir is what the blocks hold once todo is done.  An *)
(* inode is two units, <<i_no, i_size>> and i_sectors, a sector of the     *)
(* inode table SectorUnits of them.  A write says where it goes and in     *)
(* which part of the code it is made: "create", "delete", "release",       *)
(* "write", or "split" for the second sector when the inode of a file that *)
(* is written lies in two.                                                 *)
(***************************************************************************)
EXTENDS FileData

CONSTANTS
  dot, dotdot, Free, PerSec,    \* see Dir
  NInodes,          \* 4096 in the code; a multiple of 8, as bitmaps are
  SectorUnits,      \* 512 bytes are 6 inodes and a part of the next
  BitsPerSector,    \* 4096
  Cuts,             \* the parts in which the power may go
  Counts,           \* bound: the lengths of writes
  MaxSince,         \* bound: calls made after a crash
  Uses              \* the largest sizes of the files, None for one not in use

ASSUME VolumeAssumption ==
  /\ {NInodes, SectorUnits, BitsPerSector} \subseteq Nat \ {0} /\ MaxSince \in Nat
  /\ PerSec \in Nat \ {0, 1} /\ {dot, dotdot, Free} \cap Files = {}
  /\ Counts \subseteq 1 .. MaxWrite /\ Uses \subseteq [Files -> -1 .. MaxSize]

VARIABLES
  dir_sectors, dir_size, live, state,   \* the directory, see Dir
  inode_bitmap,
  ino,          \* file -> number of its inode
  image,        \* what is on the disk
  todo,         \* the writes of the current call that are still to come
  doomed,       \* the file sys_unlink has still to release, or None
  before,       \* sizes of files when the current call began, None if absent
  since,        \* None, or the calls made since a crash
  use           \* the member of Uses, the same all the time

dirvars == <<dir_sectors, dir_size, live, state>>
volvars == <<vars, dirvars, inode_bitmap, ino, image, todo, doomed, before, since, use>>

Inodes == 0 .. NInodes - 1
None == -1

(* An entry of the directory is a name with the number of its inode. *)
D == INSTANCE Dir WITH Names <- Files \X Inodes, i_sectors <- dir_sectors, i_size <- dir_size

DirNo == 1      \* the root has inode 0 and block 0, the directory 1 and 1
Present == {e[1] : e \in live}
Sizes == [f \in Files |-> IF f \in Present THEN inode[f].i_size ELSE None]
DirInode == [i_size |-> dir_size, i_sectors |-> dir_sectors]

-----------------------------------------------------------------------------
Units == 0 .. 2 * NInodes - 1
TwoUnits(i, v) == [u \in 0 .. 1 |-> IF u = 0 THEN <<i, v.i_size>> ELSE v.i_sectors]

(* The sectors of inode i, two of them when its units are apart. *)
inode_locate(i) == (2 * i) \div SectorUnits .. (2 * i + 1) \div SectorUnits

WriteInode(i, val, part) ==
  [j \in 1 .. Cardinality(inode_locate(i)) |->
     [where |-> "table", at |-> (2 * i) \div SectorUnits + j - 1, no |-> i, val |-> val,
      part |-> IF j = 2 /\ part = "write" THEN "split" ELSE part]]

(* inode_no of inode_sync is a uint8_t. *)
inode_sync(i, v, part) == WriteInode(i % IdxMod, TwoUnits(i, v), part)
inode_delete(i, part) == WriteInode(i, TwoUnits(0, NewInode), part)

bitmap_sync(where, bits, idx, part) ==
  <<[where |-> where, at |-> idx \div BitsPerSector, no |-> idx, val |-> bits, part |-> part]>>

ide_write(b, part) == <<[where |-> "data", at |-> b, no |-> 0, val |-> disk'[b], part |-> part]>>

(* A faulty variant: the rest of the sector is not read first. *)
TableSectorNew(old, w) ==
  [u \in Units |-> IF u \div SectorUnits # w.at THEN old[u]
                   ELSE IF u \div 2 = w.no THEN w.val[u % 2]
                   ELSE TwoUnits(0, NewInode)[u % 2]]

(* The sector is read, the inode put in, and the sector written. *)
TableSector(old, w) ==
  [u \in Units |-> IF u \div SectorUnits = w.at /\ u \div 2 = w.no THEN w.val[u % 2] ELSE old[u]]

WriteSector(old, w) ==
  CASE w.where = "table" -> TableSector(old, w)
    [] w.where = "data" -> [old EXCEPT ![w.at] = w.val]
    [] OTHER -> [b \in DOMAIN old |-> IF b \div BitsPerSector = w.at THEN w.val[b] ELSE old[b]]

inode_open(i) ==
  LET t == image.table IN
  [i_no |-> t[2 * i][1], i_size |-> t[2 * i][2], i_sectors |-> t[2 * i + 1]]

(* After partition_format and sys_mkdir. *)
VolumeInit ==
  /\ D!Init
  /\ inode = [f \in Files |-> NewInode] /\ fd_pos = [f \in Files |-> 0]
  /\ result = Nothing /\ panic = "no"
  /\ inode_bitmap = [i \in Inodes |-> i <= DirNo]
  /\ ino = [f \in Files |-> None]
  /\ image = [bmap |-> block_bitmap, imap |-> inode_bitmap, data |-> disk,
              table |-> [u \in Units |-> TwoUnits(IF u \div 2 = DirNo THEN DirNo ELSE 0,
                                                  IF u \div 2 = DirNo THEN DirInode ELSE NewInode)[u % 2]]]
  /\ todo = <<>> /\ doomed = None /\ since = None
  /\ before = Sizes
  /\ use \in Uses

-----------------------------------------------------------------------------
(* One thread at a time is in the file system. *)
Idle == todo = <<>> /\ doomed = None /\ panic = "no" /\ state = "ok"

(* A call begins. *)
Call ==
  /\ Idle /\ since < MaxSince
  /\ before' = Sizes
  /\ since' = IF since = None THEN None ELSE since + 1

(* The bitmap once n blocks more are marked. *)
Marked(n) == [b \in DOMAIN block_bitmap |-> block_bitmap[b] \/ \E k \in 1 .. n : b = Nth(k)]

(* sync_dir_entry allocates no block, one, or a table and one.  The rest   *)
(* is file_create.                                                         *)
file_create(f) ==
  LET i == CHOOSE j \in Inodes : ~inode_bitmap[j] /\ \A k \in 0 .. j - 1 : inode_bitmap[k]
      new == {b \in DOMAIN block_bitmap : block_bitmap'[b] /\ ~block_bitmap[b]}
      sync(n) == bitmap_sync("bmap", Marked(n), Nth(n), "create")
      entry == CHOOSE b \in {D!all_blocks'[k] : k \in DOMAIN D!all_blocks} :
                 b # 0 /\ \E e \in D!Entries : disk'[b][e] = <<f, i>> IN
  /\ Call /\ use[f] # None /\ f \notin Present /\ \E j \in Inodes : ~inode_bitmap[j]
  /\ D!sync_dir_entry(<<f, i>>)
  /\ inode_bitmap' = [inode_bitmap EXCEPT ![i] = TRUE]
  /\ ino' = [ino EXCEPT ![f] = i]
  /\ todo' = (CASE new = {} -> <<>> [] Cardinality(new) = 1 -> sync(1)
                [] OTHER -> sync(1) \o sync(2) \o ide_write(Nth(1), "create"))
             \o ide_write(entry, "create") \o inode_sync(DirNo, DirInode', "create")
             \o inode_sync(i, NewInode, "create") \o bitmap_sync("imap", inode_bitmap', i, "create")
  /\ UNCHANGED <<inode, fd_pos, result, panic, image, doomed, use>>

(* Two faulty variants: the inode is written before the data, or before    *)
(* the bitmap.                                                             *)
write_orderInode(f, bits, tab, data) ==
  bits \o tab \o inode_sync(ino[f], inode'[f], "write") \o data

write_orderBits(f, bits, tab, data) ==
  tab \o data \o inode_sync(ino[f], inode'[f], "write") \o bits

write_order(f, bits, tab, data) ==
  bits \o tab \o data \o inode_sync(ino[f], inode'[f], "write")

(* open, write and close.  The bitmap is written after each block, except  *)
(* the block of the table, with the index cut to 8 bits.                   *)
sys_write(f, count) ==
  LET size == inode[f].i_size
      all == all_blocks(f, count)
      tab == sectors(f, count)[Direct]
      synced == {n \in 1 .. Allocated(f, count) : Nth(n) # tab}
      bits == [k \in 1 .. Cardinality(synced) |->
                 LET n == CHOOSE m \in synced : Cardinality({l \in synced : l <= m}) = k IN
                 bitmap_sync("bmap", Marked(n), Nth(n) % IdxMod, "write")[1]]
      from == size \div BLOCK_SIZE
      data == [k \in 1 .. (size + count - 1) \div BLOCK_SIZE - from + 1 |->
                 ide_write(all[from + k - 1], "write")[1]] IN
  /\ Call /\ f \in Present /\ size + count <= use[f]
  /\ file_write(f, count)
  /\ todo' = IF panic' # "no" THEN <<>>
             ELSE write_order(f, bits, IF Situation(f, count) \in {2, 3} THEN ide_write(tab, "write") ELSE <<>>, data)
  /\ UNCHANGED <<dirvars, inode_bitmap, ino, image, doomed, use>>

(* sys_unlink: first the entry, then what it names. *)
sys_unlink(f) ==
  LET e == <<f, ino[f]>>
      freed == {b \in DOMAIN block_bitmap : block_bitmap[b] /\ ~block_bitmap'[b]}
      entry == CHOOSE b \in DOMAIN disk : disk'[b] # disk[b] IN
  /\ Call /\ f \in Present
  /\ D!delete_dir_entry(e)
  /\ todo' = (IF freed = {} THEN ide_write(entry, "delete")
              ELSE bitmap_sync("bmap", block_bitmap', CHOOSE b \in freed : TRUE, "delete"))
             \o inode_sync(DirNo, DirInode', "delete")
  /\ doomed' = f
  /\ UNCHANGED <<inode, fd_pos, result, panic, inode_bitmap, ino, image, use>>

(* The blocks in the order in which they are given back: the table first.  *)
Release(f) ==
  LET list == SelectSeq(<<inode[f].i_sectors[Direct]>> \o [k \in 1 .. MaxBlocks |-> FileBlock(f, k - 1)],
                        LAMBDA b : b # 0)
      bits == [k \in 1 .. Len(list) |->
                 bitmap_sync("bmap", [b \in DOMAIN block_bitmap |-> block_bitmap[b] /\ \A l \in 1 .. k : list[l] # b],
                             list[k], "release")[1]] IN
  /\ doomed = f /\ todo = <<>>
  /\ inode_release(f)
  /\ inode_bitmap' = [inode_bitmap EXCEPT ![ino[f]] = FALSE]
  /\ ino' = [ino EXCEPT ![f] = None]
  /\ todo' = bits \o bitmap_sync("imap", inode_bitmap', ino[f], "release") \o inode_delete(ino[f], "release")
  /\ doomed' = None
  /\ UNCHANGED <<dirvars, image, before, since, use>>

(* The disk has written a sector.  What free blocks hold after a call, and *)
(* blocks that nothing refers to after a crash, is of no use to anyone.    *)
SectorWritten ==
  LET w == Head(todo)
      new == [image EXCEPT ![w.where] = WriteSector(@, w)]
      done == Tail(todo) = <<>> /\ doomed = None IN
  /\ todo # <<>>
  /\ image' = IF done THEN [new EXCEPT !.data = [b \in DOMAIN @ |-> IF new.bmap[b] THEN @[b] ELSE NoBytes]]
              ELSE new
  /\ todo' = Tail(todo)
  /\ before' = IF done THEN Sizes ELSE before
  /\ UNCHANGED <<vars, dirvars, inode_bitmap, ino, doomed, since, use>>

(* What mount_partition and the search of the directory find in the image. *)
BlockOf(v, k) == IF k < Direct THEN v.i_sectors[k]
                 ELSE IF v.i_sectors[Direct] = 0 THEN 0 ELSE image.data[v.i_sectors[Direct]][k]
Blocks(v) == {BlockOf(v, k) : k \in 0 .. MaxBlocks - 1} \ {0}
EntriesIn(v) == {image.data[b][e] : b \in Blocks(v), e \in D!Entries} \ {Free, dot, dotdot}

mount_partition ==
  LET d == inode_open(DirNo)
      found == EntriesIn(d)
      no(f) == (CHOOSE e \in found : e[1] = f)[2]
      names == {e[1] : e \in found}
      inodes == [f \in Files |-> IF f \in names THEN inode_open(no(f)) ELSE NewInode]
      used == UNION {Blocks(v) \cup {v.i_sectors[Direct]} : v \in {d} \cup {inodes[f] : f \in names}} IN
  /\ block_bitmap' = image.bmap /\ inode_bitmap' = image.imap
  /\ disk' = [b \in DOMAIN disk |-> IF b \in used THEN image.data[b] ELSE NoBytes]
  /\ dir_sectors' = d.i_sectors /\ dir_size' = d.i_size /\ live' = found
  /\ ino' = [f \in Files |-> IF f \in names THEN no(f) ELSE None]
  /\ inode' = [f \in Files |-> [i_size |-> inodes[f].i_size, i_sectors |-> inodes[f].i_sectors]]
  /\ fd_pos' = [f \in Files |-> IF inode'[f].i_size = 0 THEN 0 ELSE inode'[f].i_size - 1]   \* nobody's
  /\ result' = Nothing
  /\ todo' = <<>> /\ doomed' = None
  /\ before' = [f \in Files |-> IF f \in names THEN inodes[f].i_size ELSE None]
  /\ image' = [image EXCEPT !.data = disk']
  /\ UNCHANGED <<panic, state, use>>

Restart == Idle /\ mount_partition /\ UNCHANGED since

Crash ==
  /\ todo # <<>> /\ Head(todo).part \in Cuts /\ since = None
  /\ mount_partition
  /\ since' = 0

VolumeNext ==
  \/ \E f \in Files :
       file_create(f) \/ sys_unlink(f) \/ Release(f) \/ \E count \in Counts : sys_write(f, count)
  \/ SectorWritten \/ Restart \/ Crash

VolumeSpec == VolumeInit /\ [][VolumeNext]_volvars

-----------------------------------------------------------------------------
DirBlocks == ({dir_sectors[Direct]} \cup {D!all_blocks[i] : i \in DOMAIN D!all_blocks}) \ {0}
Held == DirBlocks \cup UNION {Used(f) : f \in Present}

(* Between calls the disk has what memory has: a restart changes nothing,  *)
(* no write was forgotten and none spoiled its neighbours in a sector.     *)
DiskAgrees ==
  todo = <<>> /\ panic = "no" =>
    /\ image.bmap = block_bitmap /\ image.imap = inode_bitmap
    /\ inode_open(DirNo) = [i_no |-> DirNo, i_size |-> dir_size, i_sectors |-> dir_sectors]
    /\ \A f \in Present : inode_open(ino[f]) =
         [i_no |-> ino[f], i_size |-> inode[f].i_size, i_sectors |-> inode[f].i_sectors]
    /\ \A b \in (DirBlocks \cup {inode[f].i_sectors[Direct] : f \in Present}) \ {0} : image.data[b] = disk[b]

(* The file the current call is about, and whether it could be found half  *)
(* done: a crash there is left out of Cuts.                                *)
Half(f) == todo # <<>> /\ before[f] # Sizes[f] /\ Head(todo).part \notin Cuts

(* The sizes before and after it. *)
Ends(f) == IF todo = <<>> THEN {Sizes[f]} ELSE {before[f], Sizes[f]}

(* At every instant the disk has every file as its last finished call, or  *)
(* the call in progress, leaves it: the right size, under the right        *)
(* number, and every byte.                                                 *)
Durable ==
  LET entries == EntriesIn(inode_open(DirNo)) IN
  \A f \in Files : ~Half(f) =>
    LET found == {e \in entries : e[1] = f} IN
    IF found = {} THEN None \in Ends(f)
    ELSE \A e \in found :
           LET v == inode_open(e[2]) IN
           /\ v.i_no = e[2] /\ v.i_size \in Ends(f)
           /\ \A pos \in 0 .. v.i_size - 1 :
                LET b == BlockOf(v, pos \div BLOCK_SIZE) IN
                b # 0 /\ image.data[b][pos % BLOCK_SIZE] = <<f, pos>>

(* After a crash and restart no block and no inode is used twice, or in    *)
(* use and marked free, so that later calls keep files apart.              *)
NothingShared ==
  Idle =>
    /\ \A f \in Present :
         /\ Used(f) \cap DirBlocks = {} /\ ino[f] > DirNo /\ inode_bitmap[ino[f]]
         /\ \A g \in Present \ {f} : Used(f) \cap Used(g) = {} /\ ino[f] # ino[g]
    /\ \A b \in Held : block_bitmap[b]

(* Without a crash no block and no inode is lost. *)
NothingLost ==
  Idle /\ since = None =>
    /\ {b \in DOMAIN block_bitmap : block_bitmap[b]} = {0} \cup Held
    /\ {i \in Inodes : inode_bitmap[i]} = 0 .. DirNo \cup {ino[f] : f \in Present}

(* Whatever holes deletions, crashes and restarts have left, the directory *)
(* holds the names added and not deleted, each found by the search and     *)
(* read once, and the ASSERT of dir_remove on an empty one would hold.     *)
HoldsLive == D!HoldsLive /\ D!EmptyHasOneBlock
=============================================================================
