------------------------------ MODULE MCVolume ------------------------------
(* A file that grows behind its table next to a small one, or five files   *)
(* that are only made and deleted.                                         *)
EXTENDS Volume, TLC

CONSTANTS fa, fb, n1, n2, n3, n4

Only(sizes) == [f \in Files |-> IF f \in DOMAIN sizes THEN sizes[f] ELSE None]
MCUses == {Only(fa :> MaxSize @@ fb :> 2), Only([f \in Files \ {fb} |-> 0])}

Alike == Permutations({n1, n2, n3, n4})
=============================================================================
