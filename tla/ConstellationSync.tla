------------------------- MODULE ConstellationSync --------------------------
(***************************************************************************)
(* Constellation sync (crates/constellation/src/lib.rs): runs of           *)
(* sync(from, to) between the stores of one identity, each store also      *)
(* committed to by its own device.                                         *)
(*                                                                         *)
(* A run asks both ends what they have, ships what `to` is missing one     *)
(* record at a time, then reads the refs of `from` and carries each of     *)
(* them over.  Every call of the Transport is a step of its own, and other *)
(* runs, commits and failures come between them.  A ref of a store names   *)
(* either a Generation (HEAD) or an entry of the audit log (weave-audit),  *)
(* and an id determines its content, so both are modelled by the chain     *)
(* behind them: a sequence of leaves, oldest first.                        *)
(*                                                                         *)
(* LifestreamStore models how one store writes; here a put is one step and *)
(* a ref is moved by one, except where a crash leaves it empty.            *)
(***************************************************************************)
EXTENDS Naturals, Sequences, SequencesExt

CONSTANTS
    Store,        \* the devices' stores
    Syncer,       \* processes that run `horizon constellation sync`
    Committer,    \* processes that snapshot or log, on each device
    Ref,          \* the names of refs
    HEAD,         \* the one that names a Generation; others name Trees
    Leaf,         \* trees and payloads, each stored as an object
    QuietSource,  \* whether the store a run reads stays as it is meanwhile
    QuietDest,    \* whether nothing else moves a ref of the store it writes
    CommitsAlone, \* whether the commits of a store come one after the other
    Faults,       \* the faults that may happen, of FaultKind
    MaxChain,     \* bound on the length of a chain
    None

FaultKind == {"link_lost", "crash", "crash_in_write"}
Chain == Seq(Leaf) \ {<< >>}
Entry == [ref : Ref, chain : Chain]
Object == Leaf \cup Entry

VARIABLES
    objects,  \* the ids each store holds a record of
    refs,     \* the chain each ref of a store names, or None
    commit,   \* the commits in flight in each store: what each will name, or None
    job       \* the run of each syncer, or None

vars == <<objects, refs, commit, job>>

Phase == {"have", "copy", "refs", "set"}
Job == [from : Store, to : Store, phase : Phase, missing : SUBSET Object,
        pending : SUBSET Entry, target : Entry \cup {None},
        conflicted : SUBSET (Ref \X Chain \X Chain)]

ASSUME ConstellationAssumption ==
    /\ HEAD \in Ref
    /\ None \notin Chain \cup Entry \cup Job
    /\ QuietSource \in BOOLEAN /\ QuietDest \in BOOLEAN /\ CommitsAlone \in BOOLEAN
    /\ Faults \subseteq FaultKind
    /\ MaxChain \in Nat

TypeOK ==
    /\ objects \in [Store -> SUBSET Object]
    /\ refs \in [Store -> [Ref -> Chain \cup {None}]]
    /\ commit \in [Store -> [Committer -> Entry \cup {None}]]
    /\ \A p \in Syncer :
          job[p] # None =>
              /\ job[p].from \in Store /\ job[p].to \in Store
              /\ job[p].phase \in Phase
              /\ job[p].missing \subseteq Object
              /\ job[p].pending \subseteq Entry
              /\ job[p].target \in Entry \cup {None}
              /\ job[p].conflicted \subseteq Ref \X Chain \X Chain

Init ==
    /\ objects = [s \in Store |-> {}]
    /\ refs = [s \in Store |-> [r \in Ref |-> None]]
    /\ commit = [s \in Store |-> [k \in Committer |-> None]]
    /\ job = [p \in Syncer |-> None]

Running(p) == job[p] # None
In(p, phase) == Running(p) /\ job[p].phase = phase
Source(s) == \E p \in Syncer : Running(p) /\ job[p].from = s
Dest(s)   == \E p \in Syncer : Running(p) /\ job[p].to = s

EntryOf(r, chain) == [ref |-> r, chain |-> chain]

\* What a chain needs: every entry of it and the leaf of each.
Reach(r, chain) ==
    {EntryOf(r, SubSeq(chain, 1, i)) : i \in 1 .. Len(chain)}
        \cup {chain[i] : i \in 1 .. Len(chain)}

\* What the refs of a store name.
RefsOf(s) == {EntryOf(r, refs[s][r]) : r \in {q \in Ref : refs[s][q] # None}}
Reachable(s) == UNION {Reach(e.ref, e.chain) : e \in RefsOf(s)}

-----------------------------------------------------------------------------
(* A device's own writes.                                                  *)

MayCommit(s) ==
    /\ QuietSource => ~ Source(s)
    /\ QuietDest => ~ Dest(s)

Committing(s) == \E k \in Committer : commit[s][k] # None

\* The head that a snapshot or an append to the audit log will extend is read:
\* by commit() just before, by a broker long before.  No lock keeps it.
StartCommit(s, k, r, leaf) ==
    LET chain == Append(IF refs[s][r] = None THEN << >> ELSE refs[s][r], leaf)
    IN  /\ commit[s][k] = None /\ MayCommit(s)
        /\ CommitsAlone => ~ Committing(s)
        /\ Len(chain) <= MaxChain
        /\ commit' = [commit EXCEPT ![s][k] = EntryOf(r, chain)]
        /\ UNCHANGED <<objects, refs, job>>

\* What a commit adds to the store.
Fresh(s, k) == {commit[s][k], Last(commit[s][k].chain)}

PutCommit(s, k) ==
    /\ commit[s][k] # None
    /\ objects' = [objects EXCEPT ![s] = @ \cup Fresh(s, k)]
    /\ UNCHANGED <<refs, commit, job>>

\* Wrong: the ref takes the leaf, not the entry.
FinishCommitLeaf(s, k) ==
    /\ commit[s][k] # None /\ Fresh(s, k) \subseteq objects[s]
    /\ refs' = [refs EXCEPT ![s][commit[s][k].ref] = Last(commit[s][k].chain)]
    /\ commit' = [commit EXCEPT ![s][k] = None]
    /\ UNCHANGED <<objects, job>>

\* set_ref, whatever the ref names by now.
FinishCommit(s, k) ==
    /\ commit[s][k] # None /\ Fresh(s, k) \subseteq objects[s]
    /\ refs' = [refs EXCEPT ![s][commit[s][k].ref] = commit[s][k].chain]
    /\ commit' = [commit EXCEPT ![s][k] = None]
    /\ UNCHANGED <<objects, job>>

\* The process dies before the ref is written, or while it is.
CommitCrash(s, k) ==
    /\ commit[s][k] # None
    /\ \/ "crash" \in Faults /\ UNCHANGED refs
       \/ /\ "crash_in_write" \in Faults /\ Fresh(s, k) \subseteq objects[s]
          /\ refs' = [refs EXCEPT ![s][commit[s][k].ref] = None]
    /\ commit' = [commit EXCEPT ![s][k] = None]
    /\ UNCHANGED <<objects, job>>

\* gc while nothing else works on the store (LifestreamStore has the rest).
Gc(s) ==
    /\ ~ Committing(s) /\ ~ Source(s) /\ ~ Dest(s)
    /\ objects' = [objects EXCEPT ![s] = @ \cap Reachable(s)]
    /\ UNCHANGED <<refs, commit, job>>

-----------------------------------------------------------------------------
(* A run of sync(from, to).                                                *)

MaySync(from, to) ==
    /\ from # to
    /\ QuietSource => ~ Committing(from) /\ ~ Dest(from) /\ ~ Source(to)
    /\ QuietDest => ~ Committing(to) /\ ~ Dest(to)

\* from.have(); missing is what to.have() will be taken from.
StartSync(p, from, to) ==
    /\ ~ Running(p) /\ MaySync(from, to)
    /\ job' = [job EXCEPT ![p] =
          [from |-> from, to |-> to, phase |-> "have", missing |-> objects[from],
           pending |-> {}, target |-> None, conflicted |-> {}]]
    /\ UNCHANGED <<objects, refs, commit>>

\* to.have(), and the difference.
Diff(p) ==
    /\ In(p, "have")
    /\ job' = [job EXCEPT ![p].phase = "copy",
                          ![p].missing = @ \ objects[job[p].to]]
    /\ UNCHANGED <<objects, refs, commit>>

\* Wrong: an entry is taken to bring its leaf along.
CopyEntries(p) ==
    /\ In(p, "copy")
    /\ \E id \in job[p].missing :
          /\ objects' = [objects EXCEPT ![job[p].to] = @ \cup {id}]
          /\ job' = [job EXCEPT ![p].missing = (@ \ {id}) \ Leaf]
    /\ UNCHANGED <<refs, commit>>

\* One missing record is read and written.  Their order is that of their ids,
\* which are hashes: any order.
Copy(p) ==
    /\ In(p, "copy")
    /\ \E id \in job[p].missing :
          /\ objects' = [objects EXCEPT ![job[p].to] = @ \cup {id}]
          /\ job' = [job EXCEPT ![p].missing = @ \ {id}]
    /\ UNCHANGED <<refs, commit>>

\* from.refs(), once nothing is missing.
ListRefs(p) ==
    /\ In(p, "copy") /\ job[p].missing = {}
    /\ job' = [job EXCEPT ![p].phase = "refs",
                          ![p].pending = RefsOf(job[p].from)]
    /\ UNCHANGED <<objects, refs, commit>>

\* Transport::parents, of a generation the store can read; an audit entry is
\* a Tree and has none.
HasParent(s, r, chain) ==
    r = HEAD /\ Len(chain) > 1 /\ EntryOf(r, chain) \in objects[s]

\* Wrong: the walk starts from the wrong end.
IsAncestorSwapped(s, r, ancestor, chain) ==
    /\ IsPrefix(chain, ancestor)
    /\ \A i \in (Len(chain) + 1) .. Len(ancestor) :
          HasParent(s, r, SubSeq(ancestor, 1, i))

\* is_ancestor, walked in store s from the chain back.
IsAncestor(s, r, ancestor, chain) ==
    /\ IsPrefix(ancestor, chain)
    /\ \A i \in (Len(ancestor) + 1) .. Len(chain) :
          HasParent(s, r, SubSeq(chain, 1, i))

Done(p, e) == [job EXCEPT ![p].pending = @ \ {e}]
Move(p, e) == [job EXCEPT ![p].pending = @ \ {e}, ![p].phase = "set",
                          ![p].target = e]
Conflict(p, e, held) ==
    [job EXCEPT ![p].pending = @ \ {e},
                ![p].conflicted = @ \cup {<<e.ref, held, e.chain>>}]

\* Wrong: a ref both sides hold follows the longer chain.
DecideByLength(p) ==
    /\ In(p, "refs")
    /\ \E e \in job[p].pending :
          LET held == refs[job[p].to][e.ref]
          IN  job' = IF held = e.chain THEN Done(p, e)
                     ELSE IF held = None \/ Len(held) < Len(e.chain) THEN Move(p, e)
                     ELSE Conflict(p, e, held)
    /\ UNCHANGED <<objects, refs, commit>>

\* Wrong: a ref the destination does not have is passed over.
DecideHeldOnly(p) ==
    /\ In(p, "refs")
    /\ \E e \in job[p].pending :
          LET held == refs[job[p].to][e.ref]
          IN  job' = IF held \in {None, e.chain} THEN Done(p, e)
                     ELSE IF IsAncestor(job[p].to, e.ref, held, e.chain) THEN Move(p, e)
                     ELSE Conflict(p, e, held)
    /\ UNCHANGED <<objects, refs, commit>>

\* One turn of sync_refs up to its set_ref: the ref of `to` is read, and what
\* to do is decided from what it was then.
Decide(p) ==
    /\ In(p, "refs")
    /\ \E e \in job[p].pending :
          LET held == refs[job[p].to][e.ref]
          IN  \/ held = None /\ job' = Move(p, e)
              \/ held = e.chain /\ job' = Done(p, e)
              \/ /\ held \notin {None, e.chain}
                 /\ job' = IF IsAncestor(job[p].to, e.ref, held, e.chain)
                           THEN Move(p, e)
                           ELSE Conflict(p, e, held)
    /\ UNCHANGED <<objects, refs, commit>>

SetRef(p) ==
    /\ In(p, "set")
    /\ refs' = [refs EXCEPT ![job[p].to][job[p].target.ref] = job[p].target.chain]
    /\ job' = [job EXCEPT ![p].phase = "refs", ![p].target = None]
    /\ UNCHANGED <<objects, commit>>

EndSync(p) ==
    /\ In(p, "refs") /\ job[p].pending = {}
    /\ job' = [job EXCEPT ![p] = None]
    /\ UNCHANGED <<objects, refs, commit>>

\* A call fails and the run returns its error; what was carried stays.  A
\* device that dies in set_ref leaves the ref empty.
SyncFails(p) ==
    /\ Running(p)
    /\ \/ "link_lost" \in Faults /\ UNCHANGED refs
       \/ /\ "crash_in_write" \in Faults /\ In(p, "set")
          /\ refs' = [refs EXCEPT ![job[p].to][job[p].target.ref] = None]
    /\ job' = [job EXCEPT ![p] = None]
    /\ UNCHANGED <<objects, commit>>

Next ==
    \/ \E s \in Store :
          \/ \E k \in Committer :
                \/ \E r \in Ref, leaf \in Leaf : StartCommit(s, k, r, leaf)
                \/ PutCommit(s, k) \/ FinishCommit(s, k) \/ CommitCrash(s, k)
          \/ Gc(s)
    \/ \E p \in Syncer :
          \/ \E from, to \in Store : StartSync(p, from, to)
          \/ Diff(p) \/ Copy(p) \/ ListRefs(p) \/ Decide(p)
          \/ SetRef(p) \/ EndSync(p) \/ SyncFails(p)

Spec == Init /\ [][Next]_vars

-----------------------------------------------------------------------------
(* Properties.                                                             *)

\* What a ref of a store names is there to be restored or replayed, with all
\* that is behind it: a run moves a ref only to what has been shipped ("its
\* target is present now that objects have transferred", sync_refs).
RefsClosed == \A s \in Store : Reachable(s) \subseteq objects[s]

\* HEAD is reported in conflict only if moving it would drop history ("refs
\* left untouched because advancing them would drop history", SyncReport).  Of
\* other refs that is not so: a Tree has no parents to show its history.
HeadConflictsAreReal ==
    \A p \in Syncer : Running(p) =>
        \A c \in job[p].conflicted : c[1] = HEAD => ~ IsPrefix(c[2], c[3])

\* A run that succeeds leaves the destination with all the source's refs
\* reach, and with each of its refs unless it reported a conflict.
SyncDelivers ==
    [][\A p \in Syncer : EndSync(p) =>
          LET from == job[p].from
              to   == job[p].to
          IN  /\ Reachable(from) \subseteq objects[to]
              /\ \A r \in Ref : refs[from][r] # None =>
                    \/ refs[to][r] = refs[from][r]
                    \/ \E c \in job[p].conflicted : c[1] = r]_vars

-----------------------------------------------------------------------------
(* Runs and commits implement the mesh: while nothing else moves a ref of  *)
(* the destination during a run (QuietDest), and no two commits of a store *)
(* overlap (CommitsAlone), for of two that extend the same head the second *)
(* takes the first's place.                                                *)

HistoryOf(s, r) == IF refs[s][r] = None THEN << >> ELSE refs[s][r]

Mesh == INSTANCE ConstellationMesh
            WITH histories <- [s \in Store |-> [r \in Ref |-> HistoryOf(s, r)]]

MeshSpec == Mesh!MeshSpec
=============================================================================
