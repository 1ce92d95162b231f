-------------------------- MODULE CapabilityFabric --------------------------
(***************************************************************************)
(* What the Weave promises, with no broker, log or process in it: a grant  *)
(* is made once, exercised only within its scope and its budget, and never *)
(* again once it is revoked.  WeaveBroker is shown to implement this while *)
(* one process at a time holds a Broker on the store.                      *)
(*                                                                         *)
(* Expiry is not here: a broker judges it when it decides, before the use  *)
(* is stamped and recorded, so the recorded use may be late by the length  *)
(* of the log call.  WeaveBroker!DecidedByTheLog states it.                *)
(***************************************************************************)
EXTENDS WeaveLog

VARIABLES
    grants,   \* per grant: None, or its terms, its uses, and if revoked
    reached   \* the pairs of a grant and an access it was exercised for

FInit ==
    /\ grants = [g \in GrantId |-> None]
    /\ reached = {}

NewGrant == [terms : Terms, revoked : {FALSE}, uses : {0}]

Issue(g) ==
    /\ grants[g] = None
    /\ grants'[g] \in NewGrant
    /\ grants' = [grants EXCEPT ![g] = grants'[g]]
    /\ UNCHANGED reached

InScope(terms, access) ==
    /\ Covers(terms.resource, access.resource)
    /\ access.rights \subseteq terms.rights

Exercise(g, access) ==
    /\ grants[g] # None
    /\ ~ grants[g].revoked
    /\ grants[g].terms.maxUses # None => grants[g].uses < grants[g].terms.maxUses
    /\ InScope(grants[g].terms, access)
    /\ grants' = [grants EXCEPT ![g].uses = @ + 1]
    /\ reached' = reached \cup {<<g, access>>}

Withdraw(g) ==
    /\ grants[g] # None
    /\ grants' = [grants EXCEPT ![g].revoked = TRUE]
    /\ UNCHANGED reached

FNext ==
    \E g \in GrantId :
        \/ Issue(g)
        \/ \E access \in Access : Exercise(g, access)
        \/ Withdraw(g)

FSpec == FInit /\ [][FNext]_<<grants, reached>>
=============================================================================
