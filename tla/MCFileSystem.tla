---------------------------- MODULE MCFileSystem ----------------------------
(* Two processes and two names, which are alike.  Two kinds of programs:   *)
(* they create and remove and walk about; they open files and directories, *)
(* look at them and remove them, also while they are open.                 *)
EXTENDS FileSystem, TLC

CONSTANTS p1, p2, a, b

MCPrograms ==
  {{"create", "unlink", "mkdir", "rmdir", "chdir", "getcwd"},
   {"create", "open", "unlink", "mkdir", "rmdir", "opendir", "stat"}}

Alike == Permutations(Procs) \cup Permutations(Names)
=============================================================================
