------------------------- MODULE ConstellationMesh --------------------------
(***************************************************************************)
(* What the Constellation promises of the refs of one identity's stores,   *)
(* with no objects, transports or runs in it: a history only ever grows,   *)
(* by a commit in its own store or by adopting more of another store's     *)
(* history that it is already the beginning of.                            *)
(***************************************************************************)
EXTENDS Sequences, SequencesExt

CONSTANTS Store, Ref, Leaf

VARIABLE histories  \* per store and ref, the chain of commits the ref names

MInit == histories = [s \in Store |-> [r \in Ref |-> << >>]]

MCommit(s, r, leaf) ==
    histories' = [histories EXCEPT ![s][r] = Append(@, leaf)]

MAdopt(from, to, r) ==
    \E chain \in Prefixes(histories[from][r]) :
        /\ IsPrefix(histories[to][r], chain)
        /\ histories' = [histories EXCEPT ![to][r] = chain]

MNext ==
    \E s \in Store, r \in Ref :
        \/ \E leaf \in Leaf : MCommit(s, r, leaf)
        \/ \E to \in Store : MAdopt(s, to, r)

MeshSpec == MInit /\ [][MNext]_histories
=============================================================================
