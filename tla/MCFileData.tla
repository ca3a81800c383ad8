----------------------------- MODULE MCFileData -----------------------------
(* Two files that are alike; a block of two bytes, two direct blocks, a    *)
(* table of two.                                                           *)
EXTENDS FileData, TLC

CONSTANTS fa, fb

Alike == Permutations({fa, fb})
=============================================================================
