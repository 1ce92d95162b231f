------------------------- MODULE MCLifestreamStore --------------------------
(* Small instances of LifestreamStore: two trees that share a blob, and have *)
(* one of their own or not.                                                  *)
EXTENDS LifestreamStore, TLC

CONSTANTS shared, own, t1, t2, w1, w2, c1, c2

\* Writers run the same code, and nothing tells one from another.
Alike == Permutations({w1, w2})

OneBlob == t1 :> <<shared>> @@ t2 :> <<shared>>
MCContent == t1 :> <<shared>> @@ t2 :> <<own, shared>>
=============================================================================
