---------------------------- MODULE WeaveBroker ----------------------------
(***************************************************************************)
(* The Weave capability broker (crates/weave/src/broker.rs): one Lifestream *)
(* store holding the audit ref, and the processes that each hold a Broker  *)
(* on it (the Glass shell keeps one open; every `horizon weave` command    *)
(* opens its own).                                                         *)
(*                                                                         *)
(* A Broker decides from its own memory and reads the store only in open   *)
(* and reload, so an operation is two kinds of step: the decision, with    *)
(* the change it makes to memory at once, and the log call it ends with.   *)
(* Broker::log puts the entry (AppendFails if the put does), opens the ref *)
(* file, which empties it (StartRefWrite), writes the new head (WriteRef;  *)
(* RefWriteFails if the write does), and the caller has its answer last    *)
(* (Answer).  Other processes run between these steps, and the process may *)
(* die at any: an entry may be logged and its caller never told.           *)
(***************************************************************************)
EXTENDS WeaveLog

CONSTANTS
    Broker,   \* processes that open a Broker on the store
    Pollers,  \* those of them that poll it with reload, as the Glass shell does
    Offers,   \* terms the user may grant unasked
    Asks,     \* accesses a principal may request or exercise
    Policy,   \* the broker's Policy, see PolicyType
    Faults,   \* the faults that may happen, of FaultKind
    MaxTime,  \* bound on the clock
    MaxLog,   \* bound on the log calls that succeed, and on a use count
    MaxMints  \* bound on the secrets drawn

VARIABLES
    ref,       \* refs/weave-audit: the chain its id names; << >> if empty
    head,      \* Broker.head, per process
    seq,       \* Broker.seq
    table,     \* Broker.grants
    caps,      \* the Capability handles this process gave out
    op,        \* the log call in flight, or None
    running,   \* whether the process has its Broker open
    drawn,     \* grant ids drawn by GrantId::random
    mints,     \* number of secrets drawn; the n-th is n
    now,       \* the wall clock
    logged,    \* history: the entries the ref took, in that order
    answered,  \* history: places in logged whose call came back to the caller
    revokedOk  \* history: grants for which revoke returned Ok

memory == <<head, seq, table>>
draws  == <<drawn, mints>>
told   == <<answered, revokedOk>>
vars   == <<ref, memory, caps, op, running, draws, now, logged, told>>

FaultKind == {"append_fails", "write_fails", "crash", "crash_in_write"}

Capability == [grant : GrantId, secret : Nat]
Rule == [principal : Principal \cup {None}, resource : Resource,
         rights : SUBSET Right, expires : Nat \cup {None},
         maxUses : Nat \cup {None}]

\* AllowAll is the flag, DenyAll has no rules, Rules(rules) has them in order.
PolicyType == [allowAll : BOOLEAN, rules : Seq(Rule)]

\* A log call: its event, the secret of the handle a grant will return, what
\* it does next (put the entry, write the ref, answer), and the place its
\* entry took in the history, 0 before it has one.
Call == [event : Event, mint : Nat, stage : {"put", "write", "answer"},
         place : Nat]

ASSUME WeaveBrokerAssumption ==
    /\ None \notin Call /\ None \notin Terms
    /\ None \notin [terms : Terms, revoked : BOOLEAN, uses : Nat]
    /\ Pollers \subseteq Broker
    /\ Offers \subseteq Terms
    /\ Asks \subseteq Access
    /\ Policy \in PolicyType
    /\ Faults \subseteq FaultKind
    /\ MaxTime \in Nat /\ MaxLog \in Nat /\ MaxMints \in Nat

TypeOK ==
    /\ ref \in Seq(Entry)
    /\ head \in [Broker -> Seq(Entry)]
    /\ seq \in [Broker -> Nat]
    /\ table \in [Broker -> [GrantId -> GrantState \cup {None}]]
    /\ caps \in [Broker -> SUBSET Capability]
    /\ op \in [Broker -> Call \cup {None}]
    /\ running \in [Broker -> BOOLEAN]
    /\ drawn \subseteq GrantId
    /\ mints \in Nat
    /\ now \in Nat
    /\ logged \in Seq(Entry)
    /\ answered \subseteq Nat
    /\ revokedOk \subseteq GrantId

Init ==
    /\ ref = << >>
    /\ head = [b \in Broker |-> << >>]
    /\ seq = [b \in Broker |-> 0]
    /\ table = [b \in Broker |-> EmptyTable]
    /\ caps = [b \in Broker |-> {}]
    /\ op = [b \in Broker |-> None]
    /\ running = [b \in Broker |-> FALSE]
    /\ drawn = {}
    /\ mints = 0
    /\ now = 0
    /\ logged = << >>
    /\ answered = {}
    /\ revokedOk = {}

-----------------------------------------------------------------------------
(* Reading the store.                                                      *)

Idle(b) == running[b] /\ op[b] = None

\* Wrong: the next position is the last entry's.
RebuildAtLastEntry(b, chain) ==
    /\ head' = [head EXCEPT ![b] = chain]
    /\ seq' = [seq EXCEPT ![b] = Len(chain) - 1]
    /\ table' = [table EXCEPT ![b] = Replay(chain)]

\* Wrong: the head stays at what was held before.
RebuildHeadless(b, chain) ==
    /\ head' = head
    /\ seq' = [seq EXCEPT ![b] = Len(chain)]
    /\ table' = [table EXCEPT ![b] = Replay(chain)]

\* Memory rebuilt from a chain, as open and reload do.
Rebuild(b, chain) ==
    /\ head' = [head EXCEPT ![b] = chain]
    /\ seq' = [seq EXCEPT ![b] = Len(chain)]
    /\ table' = [table EXCEPT ![b] = Replay(chain)]

\* Wrong: the log is not replayed.
OpenUnfolded(b) ==
    /\ ~ running[b]
    /\ head' = [head EXCEPT ![b] = ref]
    /\ seq' = [seq EXCEPT ![b] = Len(ref)]
    /\ running' = [running EXCEPT ![b] = TRUE]
    /\ UNCHANGED <<ref, table, caps, op, draws, now, logged, told>>

Open(b) ==
    /\ ~ running[b]
    /\ Rebuild(b, ref)
    /\ running' = [running EXCEPT ![b] = TRUE]
    /\ UNCHANGED <<ref, caps, op, draws, now, logged, told>>

\* Wrong: only a longer log is news.
ReloadIfLonger(b) ==
    /\ Idle(b)
    /\ Len(ref) > Len(head[b])
    /\ Rebuild(b, ref)
    /\ UNCHANGED <<ref, caps, op, running, draws, now, logged, told>>

\* Broker::reload when the ref differs from the head held; else it returns
\* with nothing changed.
Reload(b) ==
    /\ Idle(b)
    /\ ref # head[b]
    /\ Rebuild(b, ref)
    /\ UNCHANGED <<ref, caps, op, running, draws, now, logged, told>>

-----------------------------------------------------------------------------
(* The operations, up to the log call each ends with.                      *)

Room == Len(logged) < MaxLog

Log(b, event, mint) ==
    op' = [op EXCEPT ![b] = [event |-> event, mint |-> mint, stage |-> "put",
                             place |-> 0]]

\* Broker::grant: the table changes only once the entry is logged.
Grant(b, terms) ==
    /\ Idle(b) /\ Room /\ mints < MaxMints
    /\ \E g \in GrantId \ drawn :
          /\ drawn' = drawn \cup {g}
          /\ Log(b, GrantEvent(g, terms), mints + 1)
    /\ mints' = mints + 1
    /\ UNCHANGED <<ref, memory, caps, running, now, logged, told>>

Matches(rule, principal, access) ==
    /\ rule.principal \in {None, principal}
    /\ Covers(rule.resource, access.resource)
    /\ access.rights \subseteq rule.rights

\* Policy::decide: the terms of the grant to make, or None.
Decide(principal, access) ==
    LET hits == {i \in DOMAIN Policy.rules :
                     Matches(Policy.rules[i], principal, access)}
        first == CHOOSE i \in hits : \A j \in hits : i <= j
        TermsFor(expires, maxUses) ==
            [principal |-> principal, resource |-> access.resource,
             rights |-> access.rights, expires |-> expires,
             maxUses |-> maxUses]
    IN  IF Policy.allowAll THEN TermsFor(None, None)
        ELSE IF hits = {} THEN None
        ELSE TermsFor(Policy.rules[first].expires, Policy.rules[first].maxUses)

Request(b, principal, access) ==
    LET terms == Decide(principal, access)
    IN  \/ terms # None /\ Grant(b, terms)
        \/ /\ terms = None
           /\ Idle(b) /\ Room
           /\ Log(b, DenyEvent, 0)
           /\ UNCHANGED <<ref, memory, caps, running, draws, now, logged, told>>

\* Wrong: expiry is not judged.
CheckUntimed(b, cap, access) ==
    LET state == table[b][cap.grant]
    IN  /\ state # None
        /\ state.secret = cap.secret
        /\ Allows(state, access)

\* Broker::check.
Check(b, cap, access) ==
    LET state == table[b][cap.grant]
    IN  /\ state # None
        /\ state.secret = cap.secret
        /\ InTime(state, now)
        /\ Allows(state, access)

\* Wrong: a use is logged and not counted.
AccessUncounted(b, cap, access) ==
    /\ Idle(b) /\ Room
    /\ cap \in caps[b]
    /\ IF Check(b, cap, access) THEN Log(b, UseEvent(cap.grant, access), 0)
                                ELSE Log(b, DenyEvent, 0)
    /\ UNCHANGED <<ref, memory, caps, running, draws, now, logged, told>>

\* Broker::access: a use is counted in memory before it is logged.
AccessCap(b, cap, access) ==
    /\ Idle(b) /\ Room
    /\ cap \in caps[b]
    /\ \/ /\ Check(b, cap, access)
          /\ table[b][cap.grant].uses < MaxLog
          /\ table' = [table EXCEPT ![b][cap.grant].uses = @ + 1]
          /\ Log(b, UseEvent(cap.grant, access), 0)
       \/ /\ ~ Check(b, cap, access)
          /\ UNCHANGED table
          /\ Log(b, DenyEvent, 0)
    /\ UNCHANGED <<ref, head, seq, caps, running, draws, now, logged, told>>

\* Wrong: a revocation is logged and memory does not know of it.
RevokeLogOnly(b, g) ==
    /\ Idle(b) /\ Room
    /\ table[b][g] # None
    /\ Log(b, RevokeEvent(g), 0)
    /\ UNCHANGED <<ref, memory, caps, running, draws, now, logged, told>>

\* Broker::revoke: the flag is set in memory before the entry is logged, and
\* a grant already flagged returns Ok with nothing logged.
Revoke(b, g) ==
    /\ Idle(b)
    /\ table[b][g] # None
    /\ \/ /\ table[b][g].revoked
          /\ revokedOk' = revokedOk \cup {g}
          /\ UNCHANGED <<table, op>>
       \/ /\ ~ table[b][g].revoked /\ Room
          /\ table' = [table EXCEPT ![b][g].revoked = TRUE]
          /\ Log(b, RevokeEvent(g), 0)
          /\ UNCHANGED revokedOk
    /\ UNCHANGED <<ref, head, seq, caps, running, draws, now, logged, answered>>

\* Broker::reissue: a new secret takes the old one's place; nothing is logged.
Reissue(b, g) ==
    /\ Idle(b) /\ mints < MaxMints
    /\ table[b][g] # None
    /\ ~ table[b][g].revoked
    /\ InTime(table[b][g], now)
    /\ mints' = mints + 1
    /\ table' = [table EXCEPT ![b][g].secret = mints + 1]
    /\ caps' = [caps EXCEPT ![b] = @ \cup {[grant |-> g, secret |-> mints + 1]}]
    /\ UNCHANGED <<ref, head, seq, op, running, drawn, now, logged, told>>

-----------------------------------------------------------------------------
(* Broker::log.                                                            *)

At(b, stage) == op[b] # None /\ op[b].stage = stage
Writing(b)   == At(b, "write")

\* The call returns the error: memory keeps what the operation already did.
AppendFails(b) ==
    /\ "append_fails" \in Faults
    /\ At(b, "put")
    /\ op' = [op EXCEPT ![b] = None]
    /\ UNCHANGED <<ref, memory, caps, running, draws, now, logged, told>>

StartRefWrite(b) ==
    /\ At(b, "put")
    /\ op' = [op EXCEPT ![b].stage = "write"]
    /\ ref' = << >>
    /\ UNCHANGED <<memory, caps, running, draws, now, logged, told>>

RefWriteFails(b) ==
    /\ "write_fails" \in Faults
    /\ Writing(b)
    /\ op' = [op EXCEPT ![b] = None]
    /\ UNCHANGED <<ref, memory, caps, running, draws, now, logged, told>>

\* The ref takes the new head.  The rest of log, and the insert of grant,
\* change memory that only this process reads and go with the write.
WriteRef(b) ==
    /\ Writing(b)
    /\ LET e     == op[b].event
           chain == Extend(head[b], seq[b], e)
       IN  /\ ref' = chain
           /\ head' = [head EXCEPT ![b] = chain]
           /\ logged' = Append(logged, chain[Len(chain)])
           /\ table' = IF e.kind = "grant"
                       THEN [table EXCEPT ![b][e.grant] =
                                [terms |-> e.arg, revoked |-> FALSE, uses |-> 0,
                                 secret |-> op[b].mint]]
                       ELSE table
    /\ seq' = [seq EXCEPT ![b] = @ + 1]
    /\ op' = [op EXCEPT ![b].stage = "answer", ![b].place = Len(logged) + 1]
    /\ UNCHANGED <<caps, running, draws, now, told>>

\* The caller has the answer, and the handle if it is a grant's.
Answer(b) ==
    /\ At(b, "answer")
    /\ LET e == op[b].event
       IN  /\ caps' = IF e.kind = "grant"
                      THEN [caps EXCEPT ![b] = @ \cup
                               {[grant |-> e.grant, secret |-> op[b].mint]}]
                      ELSE caps
           /\ revokedOk' = IF e.kind = "revoke" THEN revokedOk \cup {e.grant}
                                                ELSE revokedOk
    /\ answered' = answered \cup {op[b].place}
    /\ op' = [op EXCEPT ![b] = None]
    /\ UNCHANGED <<ref, memory, running, draws, now, logged>>

-----------------------------------------------------------------------------
(* Processes and time.                                                     *)

\* The process ends, by itself when idle or by a crash, and its memory and
\* the handles in it are gone.
Stop(b) ==
    /\ running[b]
    /\ op[b] # None /\ ~ Writing(b) => "crash" \in Faults
    /\ Writing(b) => "crash_in_write" \in Faults
    /\ running' = [running EXCEPT ![b] = FALSE]
    /\ op' = [op EXCEPT ![b] = None]
    /\ head' = [head EXCEPT ![b] = << >>]
    /\ seq' = [seq EXCEPT ![b] = 0]
    /\ table' = [table EXCEPT ![b] = EmptyTable]
    /\ caps' = [caps EXCEPT ![b] = {}]
    /\ UNCHANGED <<ref, draws, now, logged, told>>

Tick ==
    /\ now < MaxTime
    /\ now' = now + 1
    /\ UNCHANGED <<ref, memory, caps, op, running, draws, logged, told>>

LogStep(b) ==
    \/ AppendFails(b)
    \/ StartRefWrite(b)
    \/ RefWriteFails(b)
    \/ WriteRef(b)
    \/ Answer(b)

Operate(b) ==
    \/ \E terms \in Offers : Grant(b, terms)
    \/ \E p \in Principal, a \in Asks : Request(b, p, a)
    \/ \E cap \in caps[b], a \in Asks : AccessCap(b, cap, a)
    \/ \E g \in GrantId : Revoke(b, g)
    \/ \E g \in GrantId : Reissue(b, g)

Next ==
    \/ \E b \in Broker : Open(b) \/ Reload(b) \/ Operate(b) \/ LogStep(b) \/ Stop(b)
    \/ Tick

Spec == Init /\ [][Next]_vars

-----------------------------------------------------------------------------
(* Safety, for any number of processes and any faults.                     *)

\* A state that permits no more than another: the two are of one grant, and
\* what the second has used up or withdrawn the first has too.
NoWeaker(state, other) ==
    /\ state # None
    /\ state.terms = other.terms
    /\ state.uses >= other.uses
    /\ other.revoked => state.revoked

\* A table remembers exactly the grants of a chain, none more permissively.
FitsLog(memoryTable, chain) ==
    \A g \in GrantId :
        LET was == Replay(chain)[g]
        IN  IF was = None THEN memoryTable[g] = None
                          ELSE NoWeaker(memoryTable[g], was)

\* What a process remembers of a grant never permits more than the chain it
\* is at says: an operation whose log call failed may leave memory stricter
\* (access and revoke change it first), never laxer, and never with a grant
\* the chain does not have.
MemoryNoWeakerThanLog == \A b \in Broker : FitsLog(table[b], head[b])

\* The log a reader finds, and the chain every process is at, show no use
\* that what they record before it forbids, whatever crashed, failed or was
\* overwritten on the way.
LogSound == Sound(ref) /\ \A b \in Broker : Sound(head[b])

\* Broker::verify succeeds for every process at every moment.
VerifyHolds == Contiguous(ref) /\ \A b \in Broker : Contiguous(head[b])

\* A use is decided only if the log the process is at allows it then, expiry
\* included: nothing is lost between the log and the memory a restart or a
\* reload rebuilds from it.
UseDecided(b) == op[b] = None /\ op'[b] # None /\ op'[b].event.kind = "use"

DecidedByTheLog ==
    [][\A b \in Broker : UseDecided(b) =>
          LET state == Replay(head[b])[op'[b].event.grant]
          IN  /\ state # None
              /\ InTime(state, now)
              /\ Allows(state, op'[b].event.arg)]_vars

\* A call not yet logged still stands on the chain its process is at: a use
\* about to be logged is allowed by it and already counted against the
\* budget, a revoke already bites.  A process without its Broker calls nothing.
CallBacked(b) ==
    op[b] # None =>
        /\ running[b]
        /\ ~ At(b, "answer") =>
              LET e   == op[b].event
                  was == Replay(head[b])[e.grant]
              IN  /\ e.kind = "use" =>
                        /\ was # None
                        /\ Allows(was, e.arg)
                        /\ table[b][e.grant].uses > was.uses
                  /\ e.kind = "revoke" =>
                        /\ table[b][e.grant] # None
                        /\ table[b][e.grant].revoked

CallsBacked == \A b \in Broker : CallBacked(b)

\* The next position a process will log at is the length of its chain.
SeqIsLength == \A b \in Broker : seq[b] = Len(head[b])

\* What every step keeps, for any number of processes and any faults: the
\* safety properties above, and what they need to be inductive.
SharedInv ==
    /\ MemoryNoWeakerThanLog
    /\ LogSound
    /\ VerifyHolds
    /\ CallsBacked
    /\ SeqIsLength

-----------------------------------------------------------------------------
(* Safety while one process at a time holds a Broker.                      *)

\* "An append-only record of every grant, use, denial and revocation": the
\* log is exactly the entries that were ever logged, in their order, except
\* while a new head is being written.  So it holds every operation that was
\* answered, and of the others one that was logged and whose process died
\* before the answer, which the next process builds on.
AuditComplete ==
    (\A b \in Broker : ~ Writing(b)) => ref = logged /\ answered \subseteq DOMAIN ref

\* What a caller was told is in the log: no answered operation is lost.
AnsweredIsLogged ==
    (\A b \in Broker : ~ Writing(b)) =>
        \A i \in answered : \E j \in DOMAIN ref : ref[j] = logged[i]

\* A chain knows a grant as the history of logged operations does, or not
\* at all: what a torn ref made the store forget stays forgotten.
TrueTo(chain, history) ==
    \A g \in GrantId :
        Replay(chain)[g] # None => Replay(chain)[g] = Replay(history)[g]

\* A grant is logged once: its id was drawn for it alone.
FreshIds ==
    /\ \A g \in GrantId : Replay(logged)[g] # None => g \in drawn
    /\ \A b \in Broker :
          op[b] # None /\ ~ At(b, "answer") /\ op[b].event.kind = "grant" =>
              /\ op[b].event.grant \in drawn
              /\ Replay(logged)[op[b].event.grant] = None

\* What every step keeps while one process at a time holds a Broker.
SoleInv ==
    /\ TrueTo(ref, logged)
    /\ \A b \in Broker : TrueTo(head[b], logged)
    /\ FreshIds
    /\ Sound(logged)

\* Over everything that was ever logged, across restarts and failures, and
\* whether its caller was answered or not, no grant is used beyond its scope,
\* its budget or its revocation.
HistorySound == Sound(logged)

\* Once revoke has answered Ok, no use of the grant is logged, so none is
\* answered Ok: access answers only what it has logged.
NoUseAfterRevokeOk ==
    [][\A g \in revokedOk : \A i \in DOMAIN logged' \ DOMAIN logged :
          ~ Is(logged'[i], "use", g)]_vars

-----------------------------------------------------------------------------
(* The broker implements the fabric.  An operation happens when the ref    *)
(* takes its entry, between its call and its answer if it has one.         *)

\* A state of a grant as the fabric sees it, which knows no secrets.
Standing(state) ==
    IF state = None THEN None
    ELSE [terms |-> state.terms, revoked |-> state.revoked,
          uses |-> state.uses]

FabricGrants == [g \in GrantId |-> Standing(Replay(logged)[g])]

FabricReached ==
    {<<logged[i].event.grant, logged[i].event.arg>> :
        i \in {j \in DOMAIN logged : logged[j].event.kind = "use"}}

Fabric == INSTANCE CapabilityFabric
              WITH grants <- FabricGrants, reached <- FabricReached

FabricSpec == Fabric!FSpec

-----------------------------------------------------------------------------
(* Liveness.  A log call runs to its end, and a process that polls the     *)
(* store (Shell::poll_store, every SHELL_POLL of its loop) reloads when the *)
(* ref is not its head, whatever it does between two polls.  Nothing else  *)
(* is fair: users and commands may do nothing.                             *)

FairSpec ==
    /\ Spec
    /\ \A b \in Broker : WF_vars(LogStep(b))
    /\ \A b \in Pollers : SF_vars(Reload(b))

SeveredIn(t, g) == t[g] # None /\ t[g].revoked
Severed(chain, g) == SeveredIn(Replay(chain), g)

\* A revocation in the log reaches every process that polls, unless the log
\* loses it or the process ends.
RevocationSeen ==
    \A b \in Pollers, g \in GrantId :
        Severed(ref, g) ~>
            (~ running[b] \/ ~ Severed(ref, g) \/ SeveredIn(table[b], g))
=============================================================================
