----------------------------- MODULE FileSystem -----------------------------
(***************************************************************************)
(* Names, open files and the inodes in memory (fs/fs.c, fs/file.c,         *)
(* fs/inode.c): sys_open, sys_close, sys_unlink, sys_mkdir, sys_rmdir,     *)
(* sys_opendir, sys_closedir, sys_chdir, sys_getcwd and sys_stat, over the *)
(* list open_inodes, the table of open files and the descriptors of every  *)
(* process.                                                                *)
(*                                                                         *)
(* A path is a sequence of names.  What an inode number stands for on disk *)
(* is an object: a file or a directory, from its creation to its release.  *)
(* A directory is a function from names to inode numbers, as Dir shows it  *)
(* to be, and blocks do not run out here.  One thread is in the file       *)
(* system at a time: a call is a step.  What it opens and closes on the    *)
(* way it does to open_inodes one after the other, on every path through   *)
(* the call; what it holds at the end stays in the list.                   *)
(***************************************************************************)
EXTENDS Integers, Sequences, FiniteSets

CONSTANTS
  Procs,
  Names,
  Dots,         \* those of "." and ".." that the programs write in paths
  Inodes,       \* inodes of the partition, MAX_FILES_PER_PART in the code
  Slots,        \* slots of file_table for files, MAX_FILE_OPEN - 3
  Fds,          \* descriptors of a process, MAX_FILES_OPEN_PER_PROC - 3
  MaxDepth,     \* bound: most names in a path
  MaxCount,     \* bound: most i_open_cnts of an inode
  MaxOpen,      \* bound: most inodes in memory when one is left behind
  Programs      \* sets of system calls that the programs may make

ASSUME FileSystemAssumption ==
  /\ {Inodes, Slots, Fds, MaxDepth, MaxCount, MaxOpen} \subseteq Nat \ {0}
  /\ Dots \subseteq {".", ".."} /\ Dots \cap Names = {}

None == -1
root_dir == 0                               \* the struct dir that is never closed
NoFile == [obj |-> 0, write |-> FALSE]
Root == 1                                   \* the root directory's object
Objects == 1 .. Inodes + MaxOpen + Slots + Cardinality(Procs) + 1     \* enough
AllNames == Names \cup {".", ".."}
Paths == UNION {[1 .. n -> Names \cup Dots] : n \in 0 .. MaxDepth}
RootPaths == {<<>>, <<".">>, <<"..">>}

VARIABLES
  disk,         \* inode number -> object, or 0: the inode table and bitmap
  dirs,         \* object -> the entries of a directory; none for a file
  open_inodes,  \* the list: [i_no, obj, i_open_cnts, write_deny]
  file_table,   \* slot -> [obj, write], or NoFile
  fd_table,     \* process -> descriptor -> slot, or None
  handle,       \* process -> object of the directory it has open, or None
  cwd_inode_nr,
  left,         \* object -> how often sys_open and sys_stat have left it open
  panic,        \* "no", or why the system has stopped
  Calls         \* the system calls the programs make, the same all the time

vars == <<disk, dirs, open_inodes, file_table, fd_table, handle, cwd_inode_nr, left, panic, Calls>>

(* A faulty variant: ".." is the root everywhere. *)
EmptyTop(self, parent) ==
  [n \in AllNames |-> CASE n = "." -> self [] n = ".." -> 0 [] OTHER -> None]

Empty(self, parent) ==
  [n \in AllNames |-> CASE n = "." -> self [] n = ".." -> parent [] OTHER -> None]
NoDir == [n \in AllNames |-> None]

Init ==
  /\ disk = [i \in 0 .. Inodes - 1 |-> IF i = 0 THEN Root ELSE 0]
  /\ dirs = [o \in Objects |-> IF o = Root THEN Empty(0, 0) ELSE NoDir]
  /\ open_inodes = <<[i_no |-> 0, obj |-> Root, i_open_cnts |-> 1, write_deny |-> FALSE]>>
  /\ file_table = [s \in 1 .. Slots |-> NoFile]
  /\ fd_table = [p \in Procs |-> [fd \in 1 .. Fds |-> None]]
  /\ handle = [p \in Procs |-> None]
  /\ cwd_inode_nr = [p \in Procs |-> 0]
  /\ left = [o \in Objects |-> 0]
  /\ panic = "no"
  /\ Calls \in Programs

-----------------------------------------------------------------------------
(* The inodes in memory.  An inode is known by its object: the list never  *)
(* has two inodes of one object.                                           *)
IsOpen(list, i_no) == \E k \in DOMAIN list : list[k].i_no = i_no
FirstOf(list, i_no) == CHOOSE k \in DOMAIN list :
  list[k].i_no = i_no /\ \A j \in 1 .. k - 1 : list[j].i_no # i_no
IndexOf(list, obj) == CHOOSE k \in DOMAIN list : list[k].obj = obj

(* The object inode_open(i_no) comes back with, and the list after it. *)
Found(list, i_no) == IF IsOpen(list, i_no) THEN list[FirstOf(list, i_no)].obj ELSE disk[i_no]

Push(list, i_no, obj) ==
  <<[i_no |-> i_no, obj |-> obj, i_open_cnts |-> 1, write_deny |-> FALSE]>> \o list

inode_open(list, i_no) ==
  IF IsOpen(list, i_no)
  THEN [list EXCEPT ![FirstOf(list, i_no)].i_open_cnts = @ + 1]
  ELSE Push(list, i_no, disk[i_no])

(* A faulty variant: the inode is freed whoever else has it open. *)
inode_closeAll(list, obj) == SelectSeq(list, LAMBDA r : r.obj # obj)

inode_close(list, obj) ==
  LET k == IndexOf(list, obj)
      less == [list EXCEPT ![k].i_open_cnts = @ - 1] IN
  SelectSeq(less, LAMBDA r : r.i_open_cnts # 0)

(* A struct dir is the object of its inode, or root_dir. *)
DirObject(dir) == IF dir = root_dir THEN Root ELSE dir
dir_close(list, dir) == IF dir = root_dir THEN list ELSE inode_close(list, dir)

(* The inode is opened, looked at and closed again. *)
Visit(list, i_no) == inode_close(inode_open(list, i_no), Found(list, i_no))

deny(list, obj, v) == [list EXCEPT ![IndexOf(list, obj)].write_deny = v]
Denied(list, obj) == list[IndexOf(list, obj)].write_deny

(* sys_open and sys_stat leave inodes open: without bounds these grow. *)
WithinBounds ==
  /\ Len(open_inodes) <= MaxOpen
  /\ \A k \in DOMAIN open_inodes : open_inodes[k].i_open_cnts < MaxCount

IsDir(obj) == dirs[obj]["."] # None

(* One name of a path: the search holds the directory it looks in, closes  *)
(* it and opens the next one.  The f_type of an entry is the type of the   *)
(* object it was made for.                                                 *)
LookUp(s, name) ==
  LET next == dirs[DirObject(s.dir)][name]
      closed == dir_close(s.list, s.dir)
      obj == Found(closed, next) IN
  IF s.type # "dir" THEN s
  ELSE IF next = None THEN [s EXCEPT !.no = None, !.type = "unknown", !.depth = @ + 1]
  ELSE IF ~IsDir(obj) THEN [s EXCEPT !.no = next, !.type = "file", !.depth = @ + 1]
  ELSE [no |-> next, type |-> "dir", dir |-> obj, up |-> s.no, depth |-> s.depth + 1,
        list |-> inode_open(closed, next)]

(* search_file: the inode number, the type, the directory the search ended *)
(* in, which the caller has to close, how many names it looked at, and the *)
(* inodes in memory.  When it finds a directory it goes back to the one    *)
(* above.                                                                  *)
search_file(path) ==
  LET walk[k \in 0 .. Len(path)] ==
        IF k > 0 THEN LookUp(walk[k - 1], path[k])
        ELSE [no |-> 0, type |-> "dir", dir |-> root_dir, up |-> 0, depth |-> 0, list |-> open_inodes]
      end == walk[Len(path)]
      closed == dir_close(end.list, end.dir) IN
  IF path \in RootPaths THEN walk[0]
  ELSE IF end.type = "dir"
  THEN [end EXCEPT !.dir = Found(closed, end.up), !.list = inode_open(closed, end.up)]
  ELSE end

(* A faulty variant: the caller forgets the directory. *)
ClosedNot(found) == found.list

(* The list when the caller has closed the directory, too. *)
Closed(found) == dir_close(found.list, found.dir)

FreeInodes == {i \in DOMAIN disk : disk[i] = 0}
FirstInode == CHOOSE i \in FreeInodes : \A j \in FreeInodes : i <= j

(* A new object: one that nothing refers to any more. *)
InUse ==
  {disk[i] : i \in DOMAIN disk} \cup {open_inodes[k].obj : k \in DOMAIN open_inodes}
NewObject == CHOOSE o \in Objects \ InUse : \A q \in Objects \ InUse : o <= q

AddEntry(dir, name, i_no) == [dirs EXCEPT ![DirObject(dir)][name] = i_no]

(* delete_dir_entry, which never deletes "." and "..". *)
DropEntry(dir, i_no) ==
  [dirs EXCEPT ![DirObject(dir)] = [n \in AllNames |-> IF n \in Names /\ @[n] = i_no THEN None ELSE @[n]]]

inode_release(i_no) == [disk EXCEPT ![i_no] = 0]

Last(path) == path[Len(path)]
Stop(why) ==
  /\ panic' = why
  /\ UNCHANGED <<disk, dirs, open_inodes, file_table, fd_table, handle, cwd_inode_nr, left>>

(* A call that comes back with nothing done but to open and close inodes. *)
Return(list) ==
  /\ open_inodes' = list
  /\ UNCHANGED <<disk, dirs, file_table, fd_table, handle, cwd_inode_nr, left, panic>>

-----------------------------------------------------------------------------
get_free_slot_in_global ==
  IF \A s \in 1 .. Slots : file_table[s] # NoFile THEN None
  ELSE CHOOSE s \in 1 .. Slots : file_table[s] = NoFile /\ \A r \in 1 .. s - 1 : file_table[r] # NoFile

(* No free descriptor: the slot stays taken all the same. *)
pcb_fd_install(p, slot) ==
  LET free == {fd \in 1 .. Fds : fd_table[p][fd] = None} IN
  fd_table' = IF free = {} THEN fd_table
              ELSE [fd_table EXCEPT ![p][CHOOSE fd \in free : \A g \in free : fd <= g] = slot]

(* sys_open gives up: the path names a directory, or leads nowhere, or     *)
(* there is no such file, with O_CREAT there is one.                       *)
OpenFails(found, path, creat) ==
  found.type = "dir" \/ found.depth # Len(path) \/ (found.no # None) = creat

(* sys_open with O_CREAT: file_create.  Without a slot it rolls back. *)
sys_create(p, path) ==
  LET found == search_file(path)
      slot == get_free_slot_in_global
      obj == NewObject IN
  /\ "create" \in Calls /\ panic = "no"
  /\ IF OpenFails(found, path, TRUE) THEN Return(Closed(found))
     ELSE IF FreeInodes = {} THEN Stop("full")
     ELSE IF slot = None THEN Return(Closed(found))
     ELSE /\ disk' = [disk EXCEPT ![FirstInode] = obj]
          /\ dirs' = AddEntry(found.dir, Last(path), FirstInode)
          /\ open_inodes' = dir_close(Push(found.list, FirstInode, obj), found.dir)
          /\ file_table' = [file_table EXCEPT ![slot] = [obj |-> obj, write |-> TRUE]]
          /\ pcb_fd_install(p, slot)
          /\ UNCHANGED <<handle, cwd_inode_nr, left, panic>>

(* sys_open of a file that is there: file_open.  The directory it was      *)
(* found in stays open; a file that is denied keeps its slot.              *)
file_open(p, found, write) ==
  LET slot == get_free_slot_in_global
      obj == Found(found.list, found.no)
      list == inode_open(found.list, found.no)
      may == ~write \/ ~Denied(list, obj) IN
  /\ IF slot = None
     THEN open_inodes' = found.list /\ UNCHANGED <<file_table, fd_table>>
     ELSE /\ open_inodes' = IF write /\ may THEN deny(list, obj, TRUE) ELSE list
          /\ file_table' = [file_table EXCEPT ![slot] = [obj |-> obj, write |-> write]]
          /\ IF may THEN pcb_fd_install(p, slot) ELSE UNCHANGED fd_table
  /\ left' = IF found.dir = root_dir THEN left ELSE [left EXCEPT ![found.dir] = @ + 1]
  /\ UNCHANGED <<disk, dirs, handle, cwd_inode_nr, panic>>

sys_open(p, path, write) ==
  LET found == search_file(path) IN
  /\ "open" \in Calls /\ panic = "no"
  /\ IF OpenFails(found, path, FALSE) THEN Return(Closed(found))
     ELSE WithinBounds /\ file_open(p, found, write)

sys_close(p, fd) ==
  LET slot == fd_table[p][fd]
      obj == file_table[slot].obj IN
  /\ panic = "no" /\ slot # None
  /\ open_inodes' = inode_close(deny(open_inodes, obj, FALSE), obj)
  /\ file_table' = [file_table EXCEPT ![slot] = NoFile]
  /\ fd_table' = [fd_table EXCEPT ![p][fd] = None]
  /\ UNCHANGED <<disk, dirs, handle, cwd_inode_nr, left, panic>>

(* A faulty variant: any file may go. *)
InTableNever(i_no) == FALSE
InTable(i_no) == \E s \in 1 .. Slots :
  file_table[s] # NoFile /\ open_inodes[IndexOf(open_inodes, file_table[s].obj)].i_no = i_no

(* How deep the search came is not looked at. *)
sys_unlink(path) ==
  LET found == search_file(path) IN
  /\ "unlink" \in Calls /\ panic = "no"
  /\ IF found.no = 0 THEN Stop("unlink of the root")
     ELSE IF found.type # "file" \/ InTable(found.no) THEN Return(Closed(found))
     ELSE /\ dirs' = DropEntry(found.dir, found.no)
          /\ disk' = inode_release(found.no)
          /\ open_inodes' = dir_close(Visit(found.list, found.no), found.dir)
          /\ UNCHANGED <<file_table, fd_table, handle, cwd_inode_nr, left, panic>>

-----------------------------------------------------------------------------
sys_mkdir(path) ==
  LET found == search_file(path)
      obj == NewObject IN
  /\ "mkdir" \in Calls /\ panic = "no"
  /\ IF found.no # None \/ found.depth # Len(path) THEN Return(Closed(found))
     ELSE IF FreeInodes = {} THEN Stop("full")
     ELSE /\ disk' = [disk EXCEPT ![FirstInode] = obj]
          /\ dirs' = [AddEntry(found.dir, Last(path), FirstInode)
                        EXCEPT ![obj] = Empty(FirstInode, dirs[DirObject(found.dir)]["."])]
          /\ open_inodes' = Closed(found)
          /\ UNCHANGED <<file_table, fd_table, handle, cwd_inode_nr, left, panic>>

(* A faulty variant: what is in the directory does not matter. *)
dir_is_emptyAny(obj) == TRUE
dir_is_empty(obj) == \A n \in Names : dirs[obj][n] = None

(* searched_record is not cleared: its searched_path is whatever was on    *)
(* the stack, and the first ASSERT on its length may fail.  The root's own *)
(* block is number 0, which inode_release asserts never to be given back.  *)
sys_rmdir(path) ==
  LET found == search_file(path)
      obj == Found(found.list, found.no)
      opened == inode_open(found.list, found.no)
      closed(list) == dir_close(inode_close(list, obj), found.dir) IN
  /\ "rmdir" \in Calls /\ panic = "no"
  /\ \/ path \notin RootPaths /\ Stop("searched_path")
     \/ IF found.type # "dir" THEN Return(Closed(found))
        ELSE IF ~dir_is_empty(obj) THEN Return(closed(opened))
        ELSE IF found.no = 0 THEN Stop("rmdir of the root")
        ELSE /\ dirs' = [DropEntry(found.dir, found.no) EXCEPT ![obj] = NoDir]
             /\ disk' = inode_release(found.no)
             /\ open_inodes' = closed(Visit(opened, found.no))
             /\ UNCHANGED <<file_table, fd_table, handle, cwd_inode_nr, left, panic>>

(* A program has one directory open at a time.  "/" is root_dir itself,    *)
(* other paths to the root are not.                                        *)
sys_opendir(p, path) ==
  LET found == search_file(path)
      opened == inode_open(found.list, found.no) IN
  /\ "opendir" \in Calls /\ panic = "no" /\ handle[p] = None
  /\ IF found.type # "dir" THEN Return(Closed(found))
     ELSE /\ IF path = <<>>
             THEN handle' = [handle EXCEPT ![p] = root_dir] /\ UNCHANGED open_inodes
             ELSE /\ handle' = [handle EXCEPT ![p] = Found(found.list, found.no)]
                  /\ open_inodes' = dir_close(opened, found.dir)
          /\ UNCHANGED <<disk, dirs, file_table, fd_table, cwd_inode_nr, left, panic>>

sys_closedir(p) ==
  /\ panic = "no" /\ handle[p] # None
  /\ open_inodes' = dir_close(open_inodes, handle[p])
  /\ handle' = [handle EXCEPT ![p] = None]
  /\ UNCHANGED <<disk, dirs, file_table, fd_table, cwd_inode_nr, left, panic>>

sys_chdir(p, path) ==
  LET found == search_file(path) IN
  /\ "chdir" \in Calls /\ panic = "no"
  /\ cwd_inode_nr' = IF found.type = "dir" THEN [cwd_inode_nr EXCEPT ![p] = found.no] ELSE cwd_inode_nr
  /\ open_inodes' = Closed(found)
  /\ UNCHANGED <<disk, dirs, file_table, fd_table, handle, left, panic>>

(* The inode is opened to be looked at, and not closed. *)
sys_stat(path) ==
  LET found == search_file(path) IN
  /\ "stat" \in Calls /\ panic = "no" /\ path \notin RootPaths
  /\ IF found.no = None THEN Return(Closed(found))
     ELSE /\ WithinBounds
          /\ open_inodes' = dir_close(inode_open(found.list, found.no), found.dir)
          /\ left' = [left EXCEPT ![Found(found.list, found.no)] = @ + 1]
          /\ UNCHANGED <<disk, dirs, file_table, fd_table, handle, cwd_inode_nr, panic>>

(* None when the name is not there. *)
get_child_dir_name(parent, i_no) ==
  LET N == {n \in Names : dirs[parent][n] = i_no} IN
  IF N = {} THEN None ELSE CHOOSE n \in N : TRUE

(* One round of sys_getcwd, which puts the path together from the          *)
(* directory up to the root.  get_parent_dir_inode_nr asserts that the     *)
(* inode has a first block with an entry for ".."; without a name          *)
(* sys_getcwd returns NULL.                                                *)
Climb(s) ==
  LET obj == Found(s.list, s.no)
      parent == dirs[obj][".."]
      name == get_child_dir_name(Found(s.list, parent), s.no) IN
  IF s.no = 0 \/ s.end # "no" THEN s
  ELSE IF obj = 0 \/ ~IsDir(obj) THEN [s EXCEPT !.end = "cwd"]
  ELSE [no |-> parent, path |-> <<name>> \o s.path, end |-> IF name = None THEN "NULL" ELSE "no",
        list |-> Visit(Visit(s.list, s.no), parent)]

Cwd(p) ==
  LET climb[k \in 0 .. Inodes] ==
        IF k > 0 THEN Climb(climb[k - 1])
        ELSE [no |-> cwd_inode_nr[p], path |-> <<>>, end |-> "no", list |-> open_inodes]
  IN climb[Inodes]

sys_getcwd(p) ==
  /\ "getcwd" \in Calls /\ panic = "no"
  /\ IF Cwd(p).end = "cwd" THEN Stop("cwd") ELSE Return(Cwd(p).list)

(* What inode_open finds in memory is what the number stands for on disk:  *)
(* no inode outlives the file, to be found when the number is used again.  *)
InMemoryIsOnDisk ==
  \A k \in DOMAIN open_inodes : disk[open_inodes[k].i_no] = open_inodes[k].obj

(* What programs find through an inode that has outlived its file depends  *)
(* on what is in its old blocks: behaviours are not followed from there.   *)
Next ==
  /\ InMemoryIsOnDisk
  /\ \/ \E p \in Procs, path \in Paths : \/ sys_create(p, path)
                                         \/ \E write \in BOOLEAN : sys_open(p, path, write)
                                         \/ sys_opendir(p, path)
                                         \/ sys_chdir(p, path)
     \/ \E path \in Paths : sys_unlink(path) \/ sys_mkdir(path) \/ sys_rmdir(path) \/ sys_stat(path)
     \/ \E p \in Procs : sys_closedir(p) \/ sys_getcwd(p) \/ \E fd \in 1 .. Fds : sys_close(p, fd)
  /\ UNCHANGED Calls

Spec == Init /\ [][Next]_vars

-----------------------------------------------------------------------------
(* The references the system holds to the inode of an object: the slots of *)
(* file_table, the directories that programs have open, and root_dir.      *)
Refs(obj) ==
  Cardinality({s \in 1 .. Slots : file_table[s] # NoFile /\ file_table[s].obj = obj})
  + Cardinality({p \in Procs : handle[p] = obj}) + (IF obj = Root THEN 1 ELSE 0)

(* No inode is freed under a file or a directory that is still open: it is *)
(* in open_inodes, with at least as many counts as there are references.   *)
OpenStaysInMemory ==
  \A obj \in Objects : Refs(obj) > 0 =>
    \E k \in DOMAIN open_inodes : open_inodes[k].obj = obj /\ open_inodes[k].i_open_cnts >= Refs(obj)

(* An inode whose file is gone stays in memory only when sys_open or       *)
(* sys_stat have left it open, or as a directory that a program still has  *)
(* open: sys_unlink looks for the file in file_table, and what is closed   *)
(* leaves the memory.  Otherwise the next file of this number would be     *)
(* taken for it.                                                           *)
GoneOnlyIfLeft ==
  \A k \in DOMAIN open_inodes :
    LET r == open_inodes[k] IN
    disk[r.i_no] = r.obj \/ left[r.obj] > 0 \/ \E p \in Procs : handle[p] = r.obj

(* Every path through every call closes what it has opened, those that     *)
(* fail too, but for the directory of sys_open and the inode of sys_stat:  *)
(* the counts are the references and what these two calls have left.       *)
CountsExactButForLeft ==
  \A k \in DOMAIN open_inodes :
    open_inodes[k].i_open_cnts = Refs(open_inodes[k].obj) + left[open_inodes[k].obj]

(* Every count is accounted for: once nobody has it open an inode leaves   *)
(* the memory.                                                             *)
CountsExact ==
  \A k \in DOMAIN open_inodes : open_inodes[k].i_open_cnts = Refs(open_inodes[k].obj)

(* The names form a tree: every inode in use but the root's is named once, *)
(* by a directory in use whose number its ".." has if it is one itself,    *)
(* and every name leads to an inode in use.                                *)
Parents(i) == {d \in DOMAIN disk : disk[d] # 0 /\ \E n \in Names : dirs[disk[d]][n] = i}
Tree ==
  /\ \A i \in DOMAIN disk \ {0} : disk[i] # 0 =>
       \E d \in DOMAIN disk : /\ Parents(i) = {d}
                              /\ Cardinality({n \in Names : dirs[disk[d]][n] = i}) = 1
                              /\ IsDir(disk[i]) => dirs[disk[i]][".."] = d /\ dirs[disk[i]]["."] = i
  /\ \A i \in DOMAIN disk : disk[i] = 0 => Parents(i) = {}

(* sys_getcwd puts together a path that leads back to the directory. *)
CwdLeadsBack ==
  \A p \in Procs :
    Cwd(p).end # "cwd" => Cwd(p).end = "no" /\ search_file(Cwd(p).path).no = cwd_inode_nr[p]

(* `writing a file cannot be parallel': at most one open file for writing  *)
(* has the inode.                                                          *)
Writes(p, fd, obj) == fd_table[p][fd] # None /\ file_table[fd_table[p][fd]] = [obj |-> obj, write |-> TRUE]
OneWriter ==
  \A obj \in Objects : Cardinality({x \in Procs \X (1 .. Fds) : Writes(x[1], x[2], obj)}) <= 1

(* `whether the file to delete is open': a slot that makes sys_unlink      *)
(* refuse belongs to a descriptor of some process.                         *)
SlotHasOwner ==
  \A s \in 1 .. Slots : file_table[s] # NoFile => \E p \in Procs, fd \in 1 .. Fds : fd_table[p][fd] = s

(* `first check whether the file to delete exists': sys_unlink deletes the *)
(* file that the whole path names, not one on the way.                     *)
UnlinkDeletesNamed ==
  [][\A path \in Paths : sys_unlink(path) /\ disk' # disk => search_file(path).depth = Len(path)]_vars

(* `NULL on failure': sys_getcwd comes back in a directory that is gone. *)
GetcwdReturns == panic # "cwd"

(* `0 on success, -1 on failure': sys_rmdir comes back for any path but    *)
(* the root's.                                                             *)
RmdirReturns == panic # "searched_path"
=============================================================================
