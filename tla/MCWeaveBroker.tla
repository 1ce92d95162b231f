--------------------------- MODULE MCWeaveBroker ---------------------------
(* Small instances of WeaveBroker.                                         *)
EXTENDS WeaveBroker, TLC

CONSTANTS b1, b2, g1, g2, app, dir, file, r, w

MCPrincipal == {app}
MCResource == {dir, file}
MCRight == {r, w}

\* A directory covers the file beneath it.
MCUnder == {<<dir, dir>>, <<file, file>>, <<dir, file>>}

\* A use-limited grant of the directory and an expiring one of the file.
Limited  == [principal |-> app, resource |-> dir, rights |-> {r, w},
             expires |-> None, maxUses |-> 1]
Expiring == [principal |-> app, resource |-> file, rights |-> {r},
             expires |-> 1, maxUses |-> None]
MCOffers == {Limited, Expiring}
OneOffer == {Limited}

ReadFile  == [resource |-> file, rights |-> {r}]
WriteFile == [resource |-> file, rights |-> {w}]
MCAsks == {ReadFile, WriteFile}
OneAsk == {ReadFile}

DenyAll == [allowAll |-> FALSE, rules |-> << >>]
ReadRule == [principal |-> None, resource |-> dir, rights |-> {r},
             expires |-> 1, maxUses |-> 1]
RulesPolicy == [allowAll |-> FALSE, rules |-> <<ReadRule>>]

Symmetric == Permutations(GrantId) \cup Permutations(Broker)
=============================================================================
