----------------------------- MODULE RemoteCall -----------------------------
(***************************************************************************)
(* What a Transport over the network promises its caller: calls are made    *)
(* one after the other, each takes effect at the far store at most once,    *)
(* and a caller who is told the store's answer is told that of his call.    *)
(* A caller who is told of an error of the link knows nothing: the call may *)
(* have taken effect, or still do so.                                       *)
(***************************************************************************)
EXTENDS Sequences, Naturals

VARIABLES
    effect,  \* what each call did at the store: "none", "stored" or "failed"
    told     \* what its caller was told: "waiting", "stored", "failed", "lost"

MakeCall ==
    /\ \A n \in DOMAIN told : told[n] \in {"stored", "failed"}
    /\ told' = Append(told, "waiting")
    /\ effect' = Append(effect, "none")

TakeEffect ==
    /\ \E n \in DOMAIN effect :
          /\ effect[n] = "none" /\ told[n] \in {"waiting", "lost"}
          /\ \E e \in {"stored", "failed"} : effect' = [effect EXCEPT ![n] = e]
    /\ UNCHANGED told

Return ==
    /\ \E n \in DOMAIN told :
          /\ told[n] = "waiting"
          /\ \E t \in ({effect[n]} \ {"none"}) \cup {"lost"} :
                told' = [told EXCEPT ![n] = t]
    /\ UNCHANGED effect

RemoteInit == effect = << >> /\ told = << >>

RemoteNext == MakeCall \/ TakeEffect \/ Return

RemoteSpec == RemoteInit /\ [][RemoteNext]_<<effect, told>>
=============================================================================
