------------------------------- MODULE MCStore ------------------------------
(* A small instance of one store's two sides, which share no state: its      *)
(* files, under two snapshots at a time, and the keys to it, under two       *)
(* commands at a time.  A behaviour is one of one side.                      *)
EXTENDS MCLifestreamStore, StoreKeys

CONSTANTS master, mistyped, d1, k1, k2

VARIABLE side  \* the one a behaviour is of

storeVars == <<side, vars, keysVars>>

\* Commands run the same code, too.
AlikeBoth == Alike \cup Permutations({k1, k2})

StoreInit == side \in {"files", "keys"} /\ Init /\ KeysInit

StoreNext ==
    /\ UNCHANGED side
    /\ \/ side = "files" /\ Next /\ UNCHANGED keysVars
       \/ side = "keys" /\ KeysNext /\ UNCHANGED vars

StoreSpec == StoreInit /\ [][StoreNext]_storeVars
=============================================================================
