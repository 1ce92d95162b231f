------------------------ MODULE MCConstellationSync -------------------------
(* Small instances of ConstellationSync.                                   *)
EXTENDS ConstellationSync, TLC

CONSTANTS key, phone, home, p1, p2, k1, x, y, Audit

Symmetric == Permutations(Store) \cup Permutations(Syncer) \cup Permutations(Leaf)
=============================================================================
