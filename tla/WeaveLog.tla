------------------------------ MODULE WeaveLog ------------------------------
(***************************************************************************)
(* The audit log of the Weave broker (crates/weave/src/audit.rs) and the   *)
(* grant table a broker folds out of it (Broker::replay).                  *)
(*                                                                         *)
(* An entry is stored as a Lifestream Tree holding its payload and the id  *)
(* of the previous entry's Tree, and an id is a keyed hash of the content. *)
(* A head id therefore determines the whole chain behind it, so a head is  *)
(* modelled by the chain it names: a sequence of entries, oldest first,    *)
(* with <<>> for "no head".                                                *)
(***************************************************************************)
EXTENDS Naturals, Sequences, FiniteSets

CONSTANTS
    GrantId,   \* identities GrantId::random may draw; each is drawn once
    Principal, \* apps, services and Aura
    Resource,  \* what a capability names
    Right,     \* read, write, exec
    Under,     \* the pairs <<r, s>> where a grant for r covers a request for s
    None       \* Rust's Option::None

\* Resource::covers: a file grant covers the path and what lies beneath it,
\* every other resource only itself.
Covers(r, s) == <<r, s>> \in Under

\* What a grant allows: the fields of Grant (capability.rs) that bound its use.
Terms == [principal : Principal, resource : Resource, rights : SUBSET Right,
          expires : Nat \cup {None}, maxUses : Nat \cup {None}]

\* GrantState (broker.rs): what a broker knows of one grant.
GrantState == [terms : Terms, revoked : BOOLEAN, uses : Nat,
               secret : Nat \cup {None}]

ASSUME WeaveLogAssumption ==
    /\ None \notin Nat
    /\ None \notin GrantId
    /\ None \notin GrantState
    /\ Under \subseteq Resource \X Resource
    /\ \A r \in Resource : <<r, r>> \in Under

\* What a principal asks of a capability.
Access == [resource : Resource, rights : SUBSET Right]

\* The Event of an entry.  Whom and what a denial is about changes no state,
\* and the time an entry is stamped with only orders listings.
GrantEvent(g, terms)  == [kind |-> "grant", grant |-> g, arg |-> terms]
UseEvent(g, access)   == [kind |-> "use", grant |-> g, arg |-> access]
RevokeEvent(g)        == [kind |-> "revoke", grant |-> g, arg |-> None]
DenyEvent             == [kind |-> "deny", grant |-> None, arg |-> None]

Event == [kind : {"grant"}, grant : GrantId, arg : Terms]
            \cup [kind : {"use"}, grant : GrantId, arg : Access]
            \cup [kind : {"revoke"}, grant : GrantId, arg : {None}]
            \cup [kind : {"deny"}, grant : {None}, arg : {None}]

Entry == [seq : Nat, event : Event]

\* audit::append: the new head is the old head's chain with one entry more.
Extend(chain, seq, event) == Append(chain, [seq |-> seq, event |-> event])

-----------------------------------------------------------------------------
(***************************************************************************)
(* Broker::replay.  The loop inserts a fresh state at a Grant entry and    *)
(* changes an inserted state at a Use or a Revoke entry, so the state of a *)
(* grant is what happened to it after its last Grant entry.                *)
(***************************************************************************)
Is(entry, kind, g) == entry.event.kind = kind /\ entry.event.grant = g

GrantedAt(chain, g) == {i \in DOMAIN chain : Is(chain[i], "grant", g)}

SinceGrant(chain, g, kind) ==
    {i \in DOMAIN chain : /\ Is(chain[i], kind, g)
                          /\ \A j \in GrantedAt(chain, g) : j < i}

LastGrant(chain, g) ==
    CHOOSE i \in GrantedAt(chain, g) : \A j \in GrantedAt(chain, g) : j <= i

\* A state folded from the log has no secret: a holder reissues its handle.
Replay(chain) ==
    [g \in GrantId |->
        IF GrantedAt(chain, g) = {}
        THEN None
        ELSE [terms   |-> chain[LastGrant(chain, g)].event.arg,
              revoked |-> SinceGrant(chain, g, "revoke") # {},
              uses    |-> Cardinality(SinceGrant(chain, g, "use")),
              secret  |-> None]]

\* The body of replay's loop: what one event does to the state of a grant.
Apply(state, g, event) ==
    IF event.grant # g THEN state
    ELSE CASE event.kind = "grant" ->
                  [terms |-> event.arg, revoked |-> FALSE, uses |-> 0,
                   secret |-> None]
           [] event.kind = "use" /\ state # None ->
                  [state EXCEPT !.uses = @ + 1]
           [] event.kind = "revoke" /\ state # None ->
                  [state EXCEPT !.revoked = TRUE]
           [] OTHER -> state

EmptyTable == [g \in GrantId |-> None]

\* Broker::verify: each entry carries its own position.
Contiguous(chain) == \A i \in DOMAIN chain : chain[i].seq + 1 = i

-----------------------------------------------------------------------------
(***************************************************************************)
(* What makes a log right: every Use it records was allowed by what the    *)
(* log itself says before it.  (Expiry is judged when the broker decides,  *)
(* which may be before the second the entry is stamped with.)              *)
(***************************************************************************)
InTime(state, time) == state.terms.expires # None => time < state.terms.expires

Allows(state, access) ==
    /\ ~ state.revoked
    /\ state.terms.maxUses # None => state.uses < state.terms.maxUses
    /\ Covers(state.terms.resource, access.resource)
    /\ access.rights \subseteq state.terms.rights

Before(chain, i) == SubSeq(chain, 1, i - 1)

UseAllowed(chain, entry) ==
    entry.event.kind = "use" =>
        LET state == Replay(chain)[entry.event.grant]
        IN  state # None /\ Allows(state, entry.event.arg)

Sound(chain) == \A i \in DOMAIN chain : UseAllowed(Before(chain, i), chain[i])
=============================================================================
