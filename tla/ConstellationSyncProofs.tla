---------------------- MODULE ConstellationSyncProofs -----------------------
(***************************************************************************)
(* Proofs about ConstellationSync, for any stores, syncers, refs, faults   *)
(* and length of chains: its types; that no ref ever names what its store  *)
(* does not hold while the source of a run is left alone; and that it      *)
(* implements ConstellationMesh.                                           *)
(***************************************************************************)
EXTENDS ConstellationSync, SequenceTheorems, TLAPS

\* TypeOK, with the whole record of a run, and a target while one is set.
Typed ==
    /\ objects \in [Store -> SUBSET Object]
    /\ refs \in [Store -> [Ref -> Chain \cup {None}]]
    /\ commit \in [Store -> [Committer -> Entry \cup {None}]]
    /\ job \in [Syncer -> Job \cup {None}]
    /\ \A p \in Syncer : In(p, "set") => job[p].target \in Entry

\* A run is a record of the run.
LEMMA RunTyped ==
    ASSUME Typed, NEW p \in Syncer, Running(p)
    PROVE  job[p] \in Job
BY DEF Typed, Running

\* The fields of a run.
LEMMA RunFields ==
    ASSUME NEW j \in Job
    PROVE  /\ j.from \in Store /\ j.to \in Store
           /\ j.phase \in Phase
           /\ j.missing \subseteq Object
           /\ j.pending \subseteq Entry
           /\ j.target \in Entry \cup {None}
           /\ j.conflicted \subseteq Ref \X Chain \X Chain
BY DEF Job

\* The one chain StartCommit builds.
LEMMA CommitChain ==
    ASSUME Typed, NEW s \in Store, NEW r \in Ref, NEW leaf \in Leaf
    PROVE  /\ HistoryOf(s, r) \in Seq(Leaf)
           /\ Append(HistoryOf(s, r), leaf) \in Chain
           /\ EntryOf(r, Append(HistoryOf(s, r), leaf)) \in Entry
<1>1. HistoryOf(s, r) \in Seq(Leaf)
  BY DEF Typed, HistoryOf, Chain
<1>2. Append(HistoryOf(s, r), leaf) \in Chain
  BY <1>1, AppendProperties DEF Chain
<1>3. QED
  BY <1>1, <1>2 DEF Entry, EntryOf

\* What the refs of a store name are entries.
LEMMA RefsOfTyped ==
    ASSUME Typed, NEW s \in Store
    PROVE  RefsOf(s) \subseteq Entry
<1>1. \A r \in Ref : refs[s][r] # None => refs[s][r] \in Chain
  BY DEF Typed
<1>2. QED
  BY <1>1 DEF RefsOf, EntryOf, Entry

\* A chain ends in a leaf.
LEMMA LastIsLeaf ==
    ASSUME NEW e \in Entry
    PROVE  Last(e.chain) \in Leaf
<1>1. e.chain \in Seq(Leaf) /\ e.chain # << >>
  BY DEF Entry, Chain
<1>2. QED
  BY <1>1, EmptySeq, ElementOfSeq DEF Last

\* A step changes no type.
LEMMA TypedStep ==
    ASSUME Typed, [Next]_vars, None \notin Job
    PROVE  Typed'
<1> USE DEF Running, In
<1>1. ASSUME NEW s \in Store, NEW k \in Committer, NEW r \in Ref, NEW leaf \in Leaf,
             StartCommit(s, k, r, leaf)
      PROVE  Typed'
  <2> DEFINE e == EntryOf(r, Append(HistoryOf(s, r), leaf))
  <2>1. e \in Entry
    BY CommitChain
  <2>2. /\ commit' = [commit EXCEPT ![s][k] = e]
        /\ objects' = objects /\ refs' = refs /\ job' = job
    BY <1>1 DEF StartCommit, HistoryOf
  <2> HIDE DEF e
  <2>3. commit' \in [Store -> [Committer -> Entry \cup {None}]]
    BY <2>1, <2>2 DEF Typed
  <2>4. QED
    BY <2>2, <2>3 DEF Typed
<1>9. ASSUME NEW s \in Store, NEW k \in Committer, PutCommit(s, k)
      PROVE  Typed'
  <2>1. commit[s][k] \in Entry
    BY <1>9 DEF PutCommit, Typed
  <2>2. Fresh(s, k) \subseteq Object
    BY <2>1, LastIsLeaf DEF Fresh, Object
  <2>3. objects' \in [Store -> SUBSET Object]
    BY <1>9, <2>2 DEF PutCommit, Typed
  <2>4. QED
    BY <1>9, <2>3 DEF PutCommit, Typed
<1>2. ASSUME NEW s \in Store, NEW k \in Committer, FinishCommit(s, k)
      PROVE  Typed'
  <2>1. commit[s][k].ref \in Ref /\ commit[s][k].chain \in Chain
    BY <1>2 DEF FinishCommit, Typed, Entry
  <2>2. refs' \in [Store -> [Ref -> Chain \cup {None}]]
    BY <1>2, <2>1 DEF FinishCommit, Typed
  <2>3. QED
    BY <1>2, <2>2 DEF FinishCommit, Typed
<1>3. ASSUME NEW s \in Store, NEW k \in Committer, CommitCrash(s, k)
      PROVE  Typed'
  <2>1. commit[s][k].ref \in Ref
    BY <1>3 DEF CommitCrash, Typed, Entry
  <2>2. refs' \in [Store -> [Ref -> Chain \cup {None}]]
    <3>1. PICK r \in Ref : refs' = refs \/ refs' = [refs EXCEPT ![s][r] = None]
      BY <1>3, <2>1 DEF CommitCrash
    <3>2. CASE refs' = [refs EXCEPT ![s][r] = None]
      BY <3>2 DEF Typed
    <3>3. QED
      BY <3>1, <3>2 DEF Typed
  <2>3. QED
    BY <1>3, <2>2 DEF CommitCrash, Typed
<1>4. ASSUME NEW s \in Store, Gc(s)
      PROVE  Typed'
  BY <1>4 DEF Gc, Typed
<1>5. ASSUME NEW p \in Syncer, NEW from \in Store, NEW to \in Store,
             StartSync(p, from, to)
      PROVE  Typed'
  <2> DEFINE run == [from |-> from, to |-> to, phase |-> "have",
                     missing |-> objects[from], pending |-> {},
                     target |-> None, conflicted |-> {}]
  <2>1. run \in Job /\ run.phase # "set"
    BY DEF Job, Phase, Typed
  <2>2. job' = [job EXCEPT ![p] = run] /\ UNCHANGED <<objects, refs, commit>>
    BY <1>5 DEF StartSync
  <2> HIDE DEF run
  <2>3. QED
    BY <2>1, <2>2 DEF Typed
<1>6. ASSUME NEW p \in Syncer,
             Diff(p) \/ Copy(p) \/ ListRefs(p) \/ Decide(p)
                \/ SetRef(p) \/ EndSync(p) \/ SyncFails(p)
      PROVE  Typed'
  <2>1. job[p] \in Job
    BY <1>6, RunTyped DEF Diff, Copy, ListRefs, Decide, SetRef, EndSync, SyncFails
  <2>2. CASE Diff(p)
    <3> DEFINE run == [job[p] EXCEPT !.phase = "copy",
                                     !.missing = @ \ objects[job[p].to]]
    <3>1. run \in Job /\ run.phase = "copy"
      BY <2>1 DEF Job, Phase
    <3>2. job' = [job EXCEPT ![p] = run] /\ UNCHANGED <<objects, refs, commit>>
      BY <2>2 DEF Diff
    <3> HIDE DEF run
    <3>3. QED
      BY <3>1, <3>2 DEF Typed
  <2>3. CASE Copy(p)
    <3>1. PICK id \in job[p].missing :
             /\ objects' = [objects EXCEPT ![job[p].to] = @ \cup {id}]
             /\ job' = [job EXCEPT ![p].missing = @ \ {id}]
      BY <2>3 DEF Copy
    <3> DEFINE run == [job[p] EXCEPT !.missing = @ \ {id}]
    <3>2. run \in Job /\ run.phase = job[p].phase
      BY <2>1 DEF Job
    <3>3. job' = [job EXCEPT ![p] = run] /\ UNCHANGED <<refs, commit>>
          /\ job[p].phase = "copy"
      BY <2>3, <3>1 DEF Copy
    <3> HIDE DEF run
    <3>4. id \in Object /\ job[p].to \in Store
      BY <2>1, RunFields
    <3>5. objects' \in [Store -> SUBSET Object]
      BY <3>1, <3>4 DEF Typed
    <3>6. QED
      BY <3>2, <3>3, <3>5 DEF Typed
  <2>4. CASE ListRefs(p)
    <3> DEFINE run == [job[p] EXCEPT !.phase = "refs",
                                     !.pending = RefsOf(job[p].from)]
    <3>1. RefsOf(job[p].from) \subseteq Entry
      BY <2>1, RunFields, RefsOfTyped
    <3>2. run \in Job /\ run.phase = "refs"
      BY <2>1, <3>1 DEF Job, Phase
    <3>3. job' = [job EXCEPT ![p] = run] /\ UNCHANGED <<objects, refs, commit>>
      BY <2>4 DEF ListRefs
    <3> HIDE DEF run
    <3>4. QED
      BY <3>2, <3>3 DEF Typed
  <2>5. CASE Decide(p)
    <3>1. PICK e \in job[p].pending :
             \/ job' = Done(p, e) \/ job' = Move(p, e)
             \/ /\ refs[job[p].to][e.ref] # None
                /\ job' = Conflict(p, e, refs[job[p].to][e.ref])
      BY <2>5 DEF Decide
    <3> DEFINE held == refs[job[p].to][e.ref]
    <3>2. e \in Entry /\ e.ref \in Ref /\ e.chain \in Chain
      BY <2>1, RunFields DEF Entry
    <3>3. held \in Chain \cup {None}
      BY <2>1, <3>2, RunFields DEF Typed
    <3>4. UNCHANGED <<objects, refs, commit>> /\ job[p].phase = "refs"
      BY <2>5 DEF Decide
    <3>5. CASE job' = Done(p, e)
      <4> DEFINE run == [job[p] EXCEPT !.pending = @ \ {e}]
      <4>1. run \in Job /\ run.phase = "refs"
        BY <2>1, <3>4 DEF Job
      <4>2. job' = [job EXCEPT ![p] = run]
        BY <3>5 DEF Done
      <4> HIDE DEF run
      <4>3. QED
        BY <3>4, <4>1, <4>2 DEF Typed
    <3>6. CASE job' = Move(p, e)
      <4> DEFINE run == [job[p] EXCEPT !.pending = @ \ {e}, !.phase = "set",
                                       !.target = e]
      <4>1. run \in Job /\ run.target = e
        BY <2>1, <3>2 DEF Job, Phase
      <4>2. job' = [job EXCEPT ![p] = run]
        BY <3>6 DEF Move
      <4> HIDE DEF run
      <4>3. QED
        BY <3>2, <3>4, <4>1, <4>2 DEF Typed
    <3>7. CASE held # None /\ job' = Conflict(p, e, held)
      <4> DEFINE run == [job[p] EXCEPT !.pending = @ \ {e},
                           !.conflicted = @ \cup {<<e.ref, held, e.chain>>}]
      <4>1. <<e.ref, held, e.chain>> \in Ref \X Chain \X Chain
        BY <3>2, <3>3, <3>7
      <4>2. run \in Job /\ run.phase = "refs"
        <5> HIDE DEF held
        <5> QED BY <2>1, <3>4, <4>1 DEF Job
      <4>3. job' = [job EXCEPT ![p] = run]
        BY <3>7 DEF Conflict
      <4> HIDE DEF run
      <4>4. QED
        BY <3>4, <4>2, <4>3 DEF Typed
    <3>8. QED
      BY <3>1, <3>5, <3>6, <3>7
  <2>6. CASE SetRef(p)
    <3> DEFINE run == [job[p] EXCEPT !.phase = "refs", !.target = None]
    <3>1. run \in Job /\ run.phase = "refs"
      BY <2>1 DEF Job, Phase
    <3>2. /\ refs' = [refs EXCEPT ![job[p].to][job[p].target.ref] =
                                      job[p].target.chain]
          /\ job' = [job EXCEPT ![p] = run] /\ UNCHANGED <<objects, commit>>
      BY <2>6 DEF SetRef
    <3> HIDE DEF run
    <3>3. job[p].target.ref \in Ref /\ job[p].target.chain \in Chain
      BY <2>6 DEF SetRef, Typed, Entry
    <3>4. refs' \in [Store -> [Ref -> Chain \cup {None}]]
      BY <2>1, <3>2, <3>3, RunFields DEF Typed
    <3>5. QED
      BY <3>1, <3>2, <3>4 DEF Typed
  <2>7. CASE EndSync(p)
    BY <2>7 DEF EndSync, Typed
  <2>8. CASE SyncFails(p)
    <3>1. refs' \in [Store -> [Ref -> Chain \cup {None}]]
      <4>1. refs \in [Store -> [Ref -> Chain \cup {None}]]
        BY DEF Typed
      <4>2. CASE UNCHANGED refs
        BY <4>1, <4>2
      <4>3. CASE refs' = [refs EXCEPT ![job[p].to][job[p].target.ref] = None]
        BY <4>1, <4>3
      <4>4. QED
        BY <2>8, <4>2, <4>3 DEF SyncFails
    <3>2. QED
      BY <2>8, <3>1 DEF SyncFails, Typed
  <2>9. QED
    BY <1>6, <2>2, <2>3, <2>4, <2>5, <2>6, <2>7, <2>8
<1>7. CASE UNCHANGED vars
  BY <1>7 DEF Typed, vars
<1>8. QED
  BY <1>1, <1>2, <1>3, <1>4, <1>5, <1>6, <1>7, <1>9 DEF Next

\* The stores, refs, commits and runs keep their types through every step of
\* commits, gc and sync, whatever fails.
THEOREM SyncTypeCorrect == Spec => []TypeOK
<1>1. None \notin Job
  BY ConstellationAssumption
<1>2. Init => Typed
  BY DEF Init, Typed, In, Running
<1>3. Typed /\ [Next]_vars => Typed'
  BY <1>1, TypedStep
<1>4. Typed => TypeOK
  BY RunFields DEF Typed, TypeOK
<1>5. QED
  BY <1>2, <1>3, <1>4, PTL DEF Spec

-----------------------------------------------------------------------------
(* Refs name what their store holds.  The parts of the invariant are       *)
(* stated of values, so that a step that leaves a run alone is one lemma.  *)

\* Every named chain is held with all that is behind it.
Held(chains, held) ==
    \A r \in Ref : chains[r] # None => Reach(r, chains[r]) \subseteq held

\* What is at the destination by the time a run's refs are listed.
Delivered(run, held) ==
    IF run.phase = "have" THEN run.missing
    ELSE IF run.phase = "copy" THEN run.missing \cup held
    ELSE held

\* A run delivers all that the source's refs reach, and carries those refs.
RunSound(run, chains, held) ==
    /\ Held(chains, Delivered(run, held))
    /\ \A e \in run.pending : e.chain = chains[e.ref]
    /\ run.phase \in {"have", "copy"} => run.pending = {}
    /\ run.phase = "set" => run.target.chain = chains[run.target.ref]

\* The source of a run has no commit in flight and is no run's destination.
SourcesStill ==
    \A p \in Syncer : Running(p) =>
        /\ ~ Committing(job[p].from)
        /\ \A q \in Syncer : Running(q) => job[q].to # job[p].from

\* All that a commit in flight will need is there, but for what it adds.
CommitsHeld ==
    \A s \in Store, k \in Committer : commit[s][k] # None =>
        Reach(commit[s][k].ref, commit[s][k].chain) \subseteq objects[s] \cup Fresh(s, k)

RunsSound ==
    \A p \in Syncer : Running(p) =>
        RunSound(job[p], refs[job[p].from], objects[job[p].to])

ClosedInv ==
    /\ Typed
    /\ \A s \in Store : Held(refs[s], objects[s])
    /\ CommitsHeld
    /\ SourcesStill
    /\ RunsSound

\* A longer chain needs what the shorter one did, its entry and its leaf.
LEMMA ReachAppend ==
    ASSUME NEW r, NEW c \in Seq(Leaf), NEW leaf \in Leaf
    PROVE  Reach(r, Append(c, leaf)) \subseteq
               Reach(r, c) \cup {EntryOf(r, Append(c, leaf)), leaf}
<1> DEFINE d == Append(c, leaf)
<1>1. /\ d \in Seq(Leaf) /\ Len(c) \in Nat /\ Len(d) = Len(c) + 1
      /\ \A i \in 1 .. Len(c) : d[i] = c[i]
      /\ d[Len(c) + 1] = leaf
  BY AppendProperties
<1>2. \A i \in 1 .. Len(c) : SubSeq(d, 1, i) = SubSeq(c, 1, i)
  <2> TAKE i \in 1 .. Len(c)
  <2> QED BY <1>1, SubSeqProperties, SeqEqual
<1>3. SubSeq(d, 1, Len(d)) = d
  BY <1>1, SubSeqFull
<1> HIDE DEF d
<1>4. \A i \in 1 .. Len(d) : i \in 1 .. Len(c) \/ i = Len(d)
  BY <1>1
<1>5. QED
  BY <1>1, <1>2, <1>3, <1>4 DEF Reach, d

\* Reachable is what all the refs of a store need.
LEMMA ReachableHeld ==
    ASSUME NEW s \in Store, NEW S
    PROVE  Reachable(s) \subseteq S <=> Held(refs[s], S)
<1>1. \A r \in Ref : EntryOf(r, refs[s][r]).ref = r
                     /\ EntryOf(r, refs[s][r]).chain = refs[s][r]
  BY DEF EntryOf
<1>2. Reachable(s) = UNION {Reach(r, refs[s][r]) :
                               r \in {q \in Ref : refs[s][q] # None}}
  BY <1>1 DEF Reachable, RefsOf
<1>3. QED
  BY <1>2 DEF Held

\* More objects hold as much.
LEMMA HeldMore ==
    ASSUME NEW chains, NEW held, NEW more, Held(chains, held), held \subseteq more
    PROVE  Held(chains, more)
BY DEF Held

\* One more ref of a store, or one less.
LEMMA HeldExcept ==
    ASSUME NEW chains \in [Ref -> Chain \cup {None}], NEW held, Held(chains, held),
           NEW r \in Ref, NEW chain,
           chain # None => Reach(r, chain) \subseteq held
    PROVE  Held([chains EXCEPT ![r] = chain], held)
BY DEF Held

\* A run is not disturbed by more objects at its destination.
LEMMA RunSoundMore ==
    ASSUME NEW run, NEW chains, NEW held, NEW more,
           RunSound(run, chains, held), held \subseteq more
    PROVE  RunSound(run, chains, more)
<1>1. Delivered(run, held) \subseteq Delivered(run, more)
  BY DEF Delivered
<1>2. Held(chains, Delivered(run, more))
  BY <1>1, HeldMore DEF RunSound
<1>3. QED
  BY <1>2 DEF RunSound

\* A step that leaves the runs, and every run's source, as they are.
LEMMA RunsUndisturbed ==
    ASSUME ClosedInv, job' = job, refs' \in [Store -> [Ref -> Chain \cup {None}]],
           \A p \in Syncer : Running(p) =>
              /\ refs'[job[p].from] = refs[job[p].from]
              /\ objects[job[p].to] \subseteq objects'[job[p].to]
    PROVE  RunsSound'
<1> SUFFICES ASSUME NEW p \in Syncer, Running(p)
             PROVE  RunSound(job[p], refs'[job[p].from], objects'[job[p].to])
  BY DEF RunsSound, Running
<1>1. RunSound(job[p], refs[job[p].from], objects[job[p].to])
  BY DEF ClosedInv, RunsSound
<1>2. QED
  BY <1>1, RunSoundMore

\* The steps of a device's own commits and of gc.
LEMMA DeviceStep ==
    ASSUME ClosedInv, Typed', QuietSource = TRUE, None \notin Entry \cup Job, NEW s \in Store,
           \/ \E k \in Committer :
                 \/ \E r \in Ref, leaf \in Leaf : StartCommit(s, k, r, leaf)
                 \/ PutCommit(s, k) \/ FinishCommit(s, k) \/ CommitCrash(s, k)
           \/ Gc(s)
    PROVE  ClosedInv'
<1> USE DEF Running
<1>t. /\ objects \in [Store -> SUBSET Object]
      /\ refs \in [Store -> [Ref -> Chain \cup {None}]]
      /\ commit \in [Store -> [Committer -> Entry \cup {None}]]
  BY DEF ClosedInv, Typed
<1>r. ASSUME NEW p \in Syncer, Running(p)
      PROVE  job[p].from \in Store /\ job[p].to \in Store
  BY <1>r, RunTyped, RunFields DEF ClosedInv
<1>1. ASSUME NEW k \in Committer, NEW r \in Ref, NEW leaf \in Leaf, StartCommit(s, k, r, leaf)
      PROVE  ClosedInv'
  <2> DEFINE c == HistoryOf(s, r)
             e == EntryOf(r, Append(c, leaf))
  <2>1. /\ commit' = [commit EXCEPT ![s][k] = e]
        /\ objects' = objects /\ refs' = refs /\ job' = job
        /\ ~ Source(s)
    BY <1>1 DEF StartCommit, HistoryOf, MayCommit
  <2>2. Reach(r, c) \subseteq objects[s]
    BY DEF ClosedInv, Held, HistoryOf, Reach
  <2>3. c \in Seq(Leaf)
    BY CommitChain DEF ClosedInv
  <2>4. e.ref = r /\ e.chain = Append(c, leaf)
    BY DEF EntryOf
  <2> HIDE DEF c
  <2>5. Reach(r, Append(c, leaf)) \subseteq Reach(r, c) \cup {e, leaf}
    BY <2>3, ReachAppend
  <2>6. Last(e.chain) = leaf
    BY <2>3, <2>4, AppendProperties DEF Last
  <2> HIDE DEF e
  <2>7. commit'[s][k] = e /\ Reach(e.ref, e.chain) \subseteq objects'[s] \cup Fresh(s, k)'
    BY <1>t, <2>1, <2>2, <2>4, <2>5, <2>6 DEF Fresh
  <2>8. \A x \in Store, l \in Committer : x # s \/ l # k => commit'[x][l] = commit[x][l]
    BY <1>t, <2>1
  <2>9. CommitsHeld'
    <3> SUFFICES ASSUME NEW x \in Store, NEW l \in Committer, commit'[x][l] # None
                 PROVE  Reach(commit'[x][l].ref, commit'[x][l].chain)
                           \subseteq objects'[x] \cup Fresh(x, l)'
      BY DEF CommitsHeld
    <3>1. CASE x = s /\ l = k
      BY <2>7, <3>1
    <3>2. CASE x # s \/ l # k
      BY <2>1, <2>8, <3>2 DEF ClosedInv, CommitsHeld, Fresh
    <3>3. QED
      BY <3>1, <3>2
  <2>10. SourcesStill'
    BY <1>r, <2>1, <2>8 DEF ClosedInv, SourcesStill, Source, Committing
  <2>11. RunsSound'
    BY <1>t, <1>r, <2>1, RunsUndisturbed
  <2>12. QED
    BY <2>1, <2>9, <2>10, <2>11 DEF ClosedInv
<1>5. ASSUME NEW k \in Committer, PutCommit(s, k)
      PROVE  ClosedInv'
  <2>1. /\ objects' = [objects EXCEPT ![s] = @ \cup Fresh(s, k)]
        /\ refs' = refs /\ commit' = commit /\ job' = job
    BY <1>5 DEF PutCommit
  <2>2. \A x \in Store : objects[x] \subseteq objects'[x]
    BY <1>t, <2>1
  <2>3. \A x \in Store : Held(refs'[x], objects'[x])
    BY <2>1, <2>2, HeldMore DEF ClosedInv
  <2>4. CommitsHeld'
    BY <2>1, <2>2 DEF ClosedInv, CommitsHeld, Fresh
  <2>5. SourcesStill'
    BY <2>1 DEF ClosedInv, SourcesStill, Committing
  <2>6. RunsSound'
    BY <1>t, <1>r, <2>1, <2>2, RunsUndisturbed
  <2>7. QED
    BY <2>3, <2>4, <2>5, <2>6 DEF ClosedInv
<1>2. ASSUME NEW k \in Committer, FinishCommit(s, k) \/ CommitCrash(s, k)
      PROVE  ClosedInv'
  <2> DEFINE e == commit[s][k]
  <2>1. /\ e # None /\ commit' = [commit EXCEPT ![s][k] = None]
        /\ objects' = objects /\ job' = job
    BY <1>2 DEF FinishCommit, CommitCrash
  <2>2. PICK chain :
           /\ chain # None => chain = e.chain /\ Fresh(s, k) \subseteq objects[s]
           /\ \/ refs' = [refs EXCEPT ![s][e.ref] = chain]
              \/ refs' = refs
    BY <1>2 DEF FinishCommit, CommitCrash
  <2>3. e \in Entry /\ e.ref \in Ref
    BY <1>t, <2>1 DEF Entry
  <2>4. chain # None => Reach(e.ref, chain) \subseteq objects[s]
    BY <2>1, <2>2 DEF ClosedInv, CommitsHeld
  <2>5. Committing(s)
    BY <2>1 DEF Committing
  <2>14. \A x \in Store, l \in Committer :
            commit'[x][l] # None => commit'[x][l] = commit[x][l]
    BY <1>t, <2>1
  <2> HIDE DEF e
  <2>6. Held(refs'[s], objects[s])
    <3>1. /\ Held(refs[s], objects[s])
          /\ refs[s] \in [Ref -> Chain \cup {None}]
      BY <1>t DEF ClosedInv
    <3>2. Held([refs[s] EXCEPT ![e.ref] = chain], objects[s])
      BY <2>3, <2>4, <3>1, HeldExcept
    <3>3. \/ refs'[s] = [refs[s] EXCEPT ![e.ref] = chain]
          \/ refs'[s] = refs[s]
      BY <1>t, <2>2
    <3>4. QED
      BY <3>1, <3>2, <3>3
  <2>7. \A x \in Store : x # s => refs'[x] = refs[x]
    BY <1>t, <2>2
  <2>8. \A x \in Store : Held(refs'[x], objects'[x])
    BY <2>1, <2>6, <2>7 DEF ClosedInv
  <2>9. CommitsHeld'
    BY <2>1, <2>14 DEF ClosedInv, CommitsHeld, Fresh
  <2>10. SourcesStill'
    BY <1>r, <2>1, <2>14 DEF ClosedInv, SourcesStill, Committing
  <2>11. \A p \in Syncer : Running(p) => refs'[job[p].from] = refs[job[p].from]
    BY <1>r, <2>5, <2>7 DEF ClosedInv, SourcesStill
  <2>12. RunsSound'
    BY <1>t, <2>1, <2>11, RunsUndisturbed DEF Typed
  <2>13. QED
    BY <2>8, <2>9, <2>10, <2>12 DEF ClosedInv
<1>3. ASSUME Gc(s)
      PROVE  ClosedInv'
  <2>1. /\ ~ Committing(s) /\ ~ Source(s) /\ ~ Dest(s)
        /\ objects' = [objects EXCEPT ![s] = @ \cap Reachable(s)]
        /\ refs' = refs /\ commit' = commit /\ job' = job
    BY <1>3 DEF Gc
  <2>2. Held(refs[s], Reachable(s)) /\ Held(refs[s], objects[s])
    BY ReachableHeld DEF ClosedInv
  <2>3. objects'[s] = objects[s] \cap Reachable(s)
        /\ \A x \in Store : x # s => objects'[x] = objects[x]
    BY <1>t, <2>1
  <2>4. Held(refs[s], objects'[s])
    BY <2>2, <2>3 DEF Held
  <2>5. \A x \in Store : Held(refs'[x], objects'[x])
    BY <2>1, <2>3, <2>4 DEF ClosedInv
  <2>6. CommitsHeld'
    BY <2>1, <2>3 DEF ClosedInv, CommitsHeld, Committing, Fresh
  <2>7. SourcesStill'
    BY <2>1 DEF ClosedInv, SourcesStill, Committing
  <2>8. \A p \in Syncer : Running(p) => objects[job[p].to] = objects'[job[p].to]
    BY <1>r, <2>1, <2>3 DEF Dest
  <2>9. RunsSound'
    BY <1>t, <2>1, <2>8, RunsUndisturbed
  <2>10. QED
    BY <2>5, <2>6, <2>7, <2>9 DEF ClosedInv
<1>4. QED
  BY <1>1, <1>2, <1>3, <1>5

\* The steps of a run: p's run becomes `run`, or ends if that is None, and
\* refs move at its destination only.
LEMMA RunStep ==
    ASSUME ClosedInv, Typed', None \notin Job, NEW p \in Syncer, Running(p),
           NEW run \in Job \cup {None},
           job' = [job EXCEPT ![p] = run],
           run # None => run.from = job[p].from /\ run.to = job[p].to,
           commit' = commit,
           \A s \in Store : objects[s] \subseteq objects'[s],
           \A s \in Store : s # job[p].to => refs'[s] = refs[s],
           Held(refs'[job[p].to], objects'[job[p].to]),
           run # None => RunSound(run, refs[run.from], objects'[run.to])
    PROVE  ClosedInv'
<1>t. /\ job \in [Syncer -> Job \cup {None}]
      /\ refs \in [Store -> [Ref -> Chain \cup {None}]]
      /\ refs' \in [Store -> [Ref -> Chain \cup {None}]]
  BY DEF ClosedInv, Typed
<1>j. /\ job'[p] = run
      /\ \A q \in Syncer : q # p => job'[q] = job[q]
  BY <1>t
<1>f. \A q \in Syncer : Running(q) => job[q].from \in Store /\ job[q].to \in Store
  BY RunTyped, RunFields DEF ClosedInv
<1>1. \A s \in Store : Held(refs'[s], objects'[s])
  BY HeldMore DEF ClosedInv
<1>2. CommitsHeld'
  BY DEF ClosedInv, CommitsHeld, Fresh
<1>3. \A q \in Syncer : job'[q] # None =>
         /\ Running(q)
         /\ job'[q].from = job[q].from /\ job'[q].to = job[q].to
  BY <1>j DEF Running
<1>4. SourcesStill'
  BY <1>3 DEF ClosedInv, SourcesStill, Running, Committing
<1>5. \A q \in Syncer : Running(q) => refs'[job[q].from] = refs[job[q].from]
  BY <1>f DEF ClosedInv, SourcesStill
<1>6. ASSUME NEW q \in Syncer, job'[q] # None
      PROVE  RunSound(job'[q], refs'[job'[q].from], objects'[job'[q].to])
  <2>1. CASE q = p
    BY <1>3, <1>5, <1>6, <1>j, <2>1
  <2>2. CASE q # p
    <3>1. Running(q) /\ job'[q] = job[q]
      BY <1>j, <1>6, <2>2 DEF Running
    <3>2. RunSound(job[q], refs[job[q].from], objects[job[q].to])
      BY <3>1 DEF ClosedInv, RunsSound
    <3>3. objects[job[q].to] \subseteq objects'[job[q].to]
      BY <1>f, <3>1
    <3>4. RunSound(job[q], refs[job[q].from], objects'[job[q].to])
      BY <3>2, <3>3, RunSoundMore
    <3>5. QED
      BY <1>5, <3>1, <3>4
  <2>3. QED
    BY <2>1, <2>2
<1>7. RunsSound'
  BY <1>6 DEF RunsSound, Running
<1>8. QED
  BY <1>1, <1>2, <1>4, <1>7 DEF ClosedInv

\* A run that starts reads a store that is left alone.
LEMMA StartStep ==
    ASSUME ClosedInv, Typed', QuietSource = TRUE, None \notin Job,
           NEW p \in Syncer, NEW from \in Store, NEW to \in Store,
           StartSync(p, from, to)
    PROVE  ClosedInv'
<1> DEFINE run == [from |-> from, to |-> to, phase |-> "have",
                   missing |-> objects[from], pending |-> {},
                   target |-> None, conflicted |-> {}]
<1>1. /\ ~ Running(p) /\ from # to /\ ~ Committing(from)
      /\ ~ Dest(from) /\ ~ Source(to)
      /\ job' = [job EXCEPT ![p] = run]
      /\ objects' = objects /\ refs' = refs /\ commit' = commit
  BY DEF StartSync, MaySync
<1>2. /\ run.from = from /\ run.to = to /\ run.phase = "have"
      /\ run.missing = objects[from] /\ run.pending = {}
  OBVIOUS
<1> HIDE DEF run
<1>3. /\ job'[p] = run
      /\ \A q \in Syncer : q # p => job'[q] = job[q]
  BY <1>1 DEF ClosedInv, Typed
<1>4. RunSound(run, refs[from], objects[to])
  BY <1>2 DEF ClosedInv, RunSound, Delivered
<1>5. RunsSound'
  BY <1>1, <1>2, <1>3, <1>4 DEF ClosedInv, RunsSound, Running
<1>6. SourcesStill'
  BY <1>1, <1>2, <1>3 DEF ClosedInv, SourcesStill, Running, Source, Dest, Committing
<1>7. QED
  BY <1>1, <1>5, <1>6 DEF ClosedInv, CommitsHeld, Fresh

\* The steps of a run before it lists the refs.
LEMMA ShipStep ==
    ASSUME ClosedInv, Typed', None \notin Job, NEW p \in Syncer,
           Diff(p) \/ Copy(p) \/ ListRefs(p)
    PROVE  ClosedInv'
<1> DEFINE from == job[p].from
           to   == job[p].to
<1>1. Running(p) /\ job[p] \in Job
  BY RunTyped DEF ClosedInv, Diff, Copy, ListRefs, In
<1>2. from \in Store /\ to \in Store
  BY <1>1, RunFields
<1>3. RunSound(job[p], refs[from], objects[to])
  BY <1>1 DEF ClosedInv, RunsSound
<1>4. /\ objects \in [Store -> SUBSET Object]
      /\ job' \in [Syncer -> Job \cup {None}]
      /\ Held(refs[to], objects[to])
  BY <1>2 DEF ClosedInv, Typed
<1>5. CASE Diff(p)
  <2> DEFINE run == [job[p] EXCEPT !.phase = "copy", !.missing = @ \ objects[to]]
  <2>1. /\ job' = [job EXCEPT ![p] = run]
        /\ UNCHANGED <<objects, refs, commit>> /\ job[p].phase = "have"
    BY <1>5 DEF Diff, In
  <2>2. /\ run.from = from /\ run.to = to /\ run.phase = "copy"
        /\ run.missing = job[p].missing \ objects[to]
        /\ run.pending = job[p].pending
        /\ run \in Job
    BY <1>1 DEF Job, Phase
  <2> HIDE DEF run
  <2>3. RunSound(run, refs[from], objects[to])
    BY <1>3, <2>1, <2>2 DEF RunSound, Delivered, Held
  <2> HIDE DEF from, to
  <2>4. QED
    BY <1>1, <1>4, <2>1, <2>2, <2>3, RunStep DEF from, to
<1>6. CASE Copy(p)
  <2>1. PICK id \in job[p].missing :
           /\ objects' = [objects EXCEPT ![to] = @ \cup {id}]
           /\ job' = [job EXCEPT ![p].missing = @ \ {id}]
    BY <1>6 DEF Copy
  <2> DEFINE run == [job[p] EXCEPT !.missing = @ \ {id}]
  <2>2. /\ job' = [job EXCEPT ![p] = run]
        /\ UNCHANGED <<refs, commit>> /\ job[p].phase = "copy"
    BY <1>6, <2>1 DEF Copy, In
  <2>3. /\ run.from = from /\ run.to = to /\ run.phase = "copy"
        /\ run.missing = job[p].missing \ {id}
        /\ run.pending = job[p].pending
        /\ run \in Job
    BY <1>1, <2>2 DEF Job
  <2> HIDE DEF run
  <2>4. /\ objects'[to] = objects[to] \cup {id}
        /\ \A s \in Store : objects[s] \subseteq objects'[s]
    BY <1>2, <1>4, <2>1
  <2>5. RunSound(run, refs[from], objects'[to])
    BY <1>3, <2>2, <2>3, <2>4 DEF RunSound, Delivered, Held
  <2>6. Held(refs'[to], objects'[to])
    BY <1>2, <1>4, <2>2, <2>4, HeldMore
  <2>7. QED
    BY <1>1, <2>2, <2>3, <2>4, <2>5, <2>6, RunStep
<1>7. CASE ListRefs(p)
  <2> DEFINE run == [job[p] EXCEPT !.phase = "refs", !.pending = RefsOf(from)]
  <2>1. /\ job' = [job EXCEPT ![p] = run]
        /\ UNCHANGED <<objects, refs, commit>>
        /\ job[p].phase = "copy" /\ job[p].missing = {}
    BY <1>7 DEF ListRefs, In
  <2>2. RefsOf(from) \subseteq Entry
    BY <1>2, RefsOfTyped DEF ClosedInv
  <2>3. /\ run.from = from /\ run.to = to /\ run.phase = "refs"
        /\ run.pending = RefsOf(from)
        /\ run \in Job
    BY <1>1, <2>2 DEF Job, Phase
  <2> HIDE DEF run
  <2>4. \A e \in RefsOf(from) : e.chain = refs[from][e.ref]
    BY DEF RefsOf, EntryOf
  <2>5. RunSound(run, refs[from], objects[to])
    BY <1>3, <2>1, <2>3, <2>4 DEF RunSound, Delivered
  <2>6. QED
    BY <1>1, <1>4, <2>1, <2>3, <2>5, RunStep
<1>8. QED
  BY <1>5, <1>6, <1>7

\* The steps of a run that carry the refs over, and its end.
LEMMA CarryStep ==
    ASSUME ClosedInv, Typed', None \notin Entry \cup Job, NEW p \in Syncer,
           Decide(p) \/ SetRef(p) \/ EndSync(p) \/ SyncFails(p)
    PROVE  ClosedInv'
<1> DEFINE from == job[p].from
           to   == job[p].to
<1>1. Running(p) /\ job[p] \in Job
  BY RunTyped DEF ClosedInv, Decide, SetRef, EndSync, SyncFails, In
<1>2. from \in Store /\ to \in Store
  BY <1>1, RunFields
<1>3. RunSound(job[p], refs[from], objects[to])
  BY <1>1 DEF ClosedInv, RunsSound
<1>4. /\ objects \in [Store -> SUBSET Object]
      /\ refs \in [Store -> [Ref -> Chain \cup {None}]]
      /\ Held(refs[to], objects[to])
      /\ refs[to] \in [Ref -> Chain \cup {None}]
  BY <1>2 DEF ClosedInv, Typed
<1>5. CASE Decide(p)
  <2>1. PICK e \in job[p].pending :
           \/ job' = Done(p, e) \/ job' = Move(p, e)
           \/ refs[to][e.ref] # None /\ job' = Conflict(p, e, refs[to][e.ref])
    BY <1>5 DEF Decide
  <2>2. /\ UNCHANGED <<objects, refs, commit>> /\ job[p].phase = "refs"
        /\ job' \in [Syncer -> Job \cup {None}]
    BY <1>5 DEF Decide, In, Typed
  <2>3. PICK run \in Job :
           /\ job' = [job EXCEPT ![p] = run]
           /\ run.from = from /\ run.to = to
           /\ run.phase \in {"refs", "set"}
           /\ run.pending \subseteq job[p].pending
           /\ run.phase = "set" => run.target = e
    <3> DEFINE run == job'[p]
    <3>1. job[p] \in Job /\ p \in DOMAIN job
      BY <1>1 DEF ClosedInv, Typed
    <3>2. CASE job' = Done(p, e)
      <4>1. job' = [job EXCEPT ![p] = [job[p] EXCEPT !.pending = @ \ {e}]]
        BY <3>2 DEF Done
      <4>2. run = [job[p] EXCEPT !.pending = @ \ {e}]
        BY <3>1, <4>1
      <4>3. /\ run.from = from /\ run.to = to /\ run.phase = "refs"
            /\ run.pending = job[p].pending \ {e} /\ run \in Job
        BY <2>2, <3>1, <4>2 DEF Job
      <4>4. QED
        BY <4>1, <4>2, <4>3
    <3>3. CASE job' = Move(p, e)
      <4>1. job' = [job EXCEPT ![p] = [job[p] EXCEPT !.pending = @ \ {e},
                                         !.phase = "set", !.target = e]]
        BY <3>3 DEF Move
      <4>2. run = [job[p] EXCEPT !.pending = @ \ {e}, !.phase = "set",
                                 !.target = e]
        BY <3>1, <4>1
      <4>3. e \in Entry
        BY <3>1, RunFields
      <4>4. /\ run.from = from /\ run.to = to /\ run.phase = "set"
            /\ run.pending = job[p].pending \ {e} /\ run.target = e
            /\ run \in Job
        BY <3>1, <4>2, <4>3 DEF Job, Phase
      <4>5. QED
        BY <4>1, <4>2, <4>4
    <3>4. CASE refs[to][e.ref] # None /\ job' = Conflict(p, e, refs[to][e.ref])
      <4> DEFINE found == job[p].conflicted \cup {<<e.ref, refs[to][e.ref], e.chain>>}
      <4>1. job' = [job EXCEPT ![p] = [job[p] EXCEPT !.pending = @ \ {e},
                                         !.conflicted = found]]
        BY <3>4 DEF Conflict
      <4>2. found \subseteq Ref \X Chain \X Chain
        <5>1. e.ref \in Ref /\ e.chain \in Chain
          BY <3>1, RunFields DEF Entry
        <5>2. <<e.ref, refs[to][e.ref], e.chain>> \in Ref \X Chain \X Chain
          BY <1>4, <3>4, <5>1
        <5>3. QED
          BY <3>1, <5>2, RunFields
      <4> HIDE DEF found
      <4>3. run = [job[p] EXCEPT !.pending = @ \ {e}, !.conflicted = found]
        BY <3>1, <4>1
      <4>4. /\ run.from = from /\ run.to = to /\ run.phase = "refs"
            /\ run.pending = job[p].pending \ {e}
        BY <2>2, <3>1, <4>3 DEF Job
      <4>5. run \in Job
        BY <3>1, <4>3, <4>2 DEF Job
      <4>6. QED
        BY <4>1, <4>3, <4>4, <4>5
    <3>5. QED
      BY <2>1, <3>2, <3>3, <3>4
  <2>4. RunSound(run, refs[from], objects[to])
    BY <1>3, <2>1, <2>2, <2>3 DEF RunSound, Delivered
  <2> HIDE DEF from, to
  <2>5. QED
    BY <1>1, <1>4, <2>2, <2>3, <2>4, RunStep DEF from, to
<1>6. CASE SetRef(p)
  <2> DEFINE run == [job[p] EXCEPT !.phase = "refs", !.target = None]
             e   == job[p].target
  <2>1. /\ refs' = [refs EXCEPT ![to][e.ref] = e.chain]
        /\ job' = [job EXCEPT ![p] = run]
        /\ UNCHANGED <<objects, commit>> /\ job[p].phase = "set"
    BY <1>6 DEF SetRef, In
  <2>2. /\ run.from = from /\ run.to = to /\ run.phase = "refs"
        /\ run.pending = job[p].pending /\ run \in Job
    BY <1>1 DEF Job, Phase
  <2>3. e \in Entry /\ e.ref \in Ref
    BY <1>6 DEF ClosedInv, Typed, SetRef, Entry
  <2>4. Held(refs[from], objects[to]) /\ e.chain = refs[from][e.ref]
    BY <1>3, <2>1 DEF RunSound, Delivered
  <2>5. RunSound(run, refs[from], objects[to])
    BY <1>3, <2>1, <2>2 DEF RunSound, Delivered
  <2> HIDE DEF run
  <2>6. e.chain # None => Reach(e.ref, e.chain) \subseteq objects[to]
    BY <2>3, <2>4 DEF Held
  <2> HIDE DEF e
  <2>7. /\ refs'[to] = [refs[to] EXCEPT ![e.ref] = e.chain]
        /\ \A s \in Store : s # to => refs'[s] = refs[s]
    BY <1>2, <1>4, <2>1
  <2>8. Held([refs[to] EXCEPT ![e.ref] = e.chain], objects[to])
    BY <1>4, <2>3, <2>6, HeldExcept
  <2>9. Held(refs'[to], objects'[to])
    BY <2>1, <2>7, <2>8
  <2>10. QED
    BY <1>1, <2>1, <2>2, <2>5, <2>7, <2>9, RunStep
<1>7. CASE EndSync(p)
  <2>1. /\ job' = [job EXCEPT ![p] = None]
        /\ UNCHANGED <<objects, refs, commit>>
    BY <1>7 DEF EndSync
  <2>2. QED
    BY <1>1, <1>4, <2>1, RunStep
<1>8. CASE SyncFails(p)
  <2>1. /\ job' = [job EXCEPT ![p] = None]
        /\ UNCHANGED <<objects, commit>>
    BY <1>8 DEF SyncFails
  <2>2. CASE UNCHANGED refs
    BY <1>1, <1>4, <2>1, <2>2, RunStep
  <2>3. CASE In(p, "set") /\ refs' = [refs EXCEPT ![to][job[p].target.ref] = None]
    <3> DEFINE r == job[p].target.ref
    <3>1. r \in Ref
      BY <2>3 DEF ClosedInv, Typed, Entry
    <3> HIDE DEF r
    <3>2. /\ refs'[to] = [refs[to] EXCEPT ![r] = None]
          /\ \A s \in Store : s # to => refs'[s] = refs[s]
      BY <1>2, <1>4, <2>3 DEF r
    <3>3. Held([refs[to] EXCEPT ![r] = None], objects[to])
      BY <1>4, <3>1, HeldExcept
    <3>4. Held(refs'[to], objects'[to])
      BY <2>1, <3>2, <3>3
    <3>5. QED
      BY <1>1, <2>1, <3>2, <3>4, RunStep
  <2>4. QED
    BY <1>8, <2>2, <2>3 DEF SyncFails
<1>9. QED
  BY <1>5, <1>6, <1>7, <1>8

\* The invariant holds of every state while sources are left alone.
LEMMA ClosedInvariant ==
    ASSUME QuietSource = TRUE
    PROVE  Spec => []ClosedInv
<1>1. None \notin Entry \cup Job
  BY ConstellationAssumption
<1>2. Init => ClosedInv
  <2> SUFFICES ASSUME Init
               PROVE  ClosedInv
    OBVIOUS
  <2>1. Typed
    BY DEF Init, Typed, In, Running
  <2>2. QED
    BY <2>1 DEF Init, ClosedInv, Held, CommitsHeld, SourcesStill, RunsSound, Running,
                 Committing
<1>3. ClosedInv /\ [Next]_vars => ClosedInv'
  <2> SUFFICES ASSUME ClosedInv, [Next]_vars
               PROVE  ClosedInv'
    OBVIOUS
  <2>1. Typed'
    BY <1>1, TypedStep DEF ClosedInv
  <2>2. CASE \E s \in Store :
                \/ \E k \in Committer :
                      \/ \E r \in Ref, leaf \in Leaf : StartCommit(s, k, r, leaf)
                      \/ PutCommit(s, k) \/ FinishCommit(s, k) \/ CommitCrash(s, k)
                \/ Gc(s)
    BY <1>1, <2>1, <2>2, DeviceStep
  <2>3. CASE \E p \in Syncer, from, to \in Store : StartSync(p, from, to)
    BY <1>1, <2>1, <2>3, StartStep
  <2>4. CASE \E p \in Syncer : Diff(p) \/ Copy(p) \/ ListRefs(p)
    BY <1>1, <2>1, <2>4, ShipStep
  <2>5. CASE \E p \in Syncer : Decide(p) \/ SetRef(p) \/ EndSync(p) \/ SyncFails(p)
    BY <1>1, <2>1, <2>5, CarryStep
  <2>6. CASE UNCHANGED vars
    BY <2>1, <2>6 DEF vars, ClosedInv, CommitsHeld, SourcesStill, RunsSound, Running,
                      Committing, Fresh
  <2>7. QED
    BY <2>2, <2>3, <2>4, <2>5, <2>6 DEF Next
<1>4. QED
  BY <1>2, <1>3, PTL DEF Spec

\* While the source of a run is left alone, no commit, crash, gc, lost link or
\* run leaves a ref naming what its store does not hold in full: what any ref
\* names can be restored or replayed.
THEOREM SyncRefsClosed ==
    ASSUME QuietSource = TRUE
    PROVE  Spec => []RefsClosed
<1>1. ClosedInv => RefsClosed
  BY ReachableHeld DEF ClosedInv, RefsClosed
<1>2. QED
  BY <1>1, ClosedInvariant, PTL

-----------------------------------------------------------------------------
(* What a run reports.                                                     *)

\* Where the conflicts a run reports come from.
LEMMA ConflictsGrow ==
    ASSUME Typed, [Next]_vars, NEW p \in Syncer, job'[p] # None,
           NEW c \in job'[p].conflicted
    PROVE  \/ Running(p) /\ c \in job[p].conflicted
           \/ /\ Decide(p)
              /\ \E e \in job[p].pending :
                    LET held == refs[job[p].to][e.ref]
                    IN  /\ held # None /\ c = <<e.ref, held, e.chain>>
                        /\ ~ IsAncestor(job[p].to, e.ref, held, e.chain)
<1> USE DEF Running
<1>t. job \in [Syncer -> Job \cup {None}]
  BY DEF Typed
<1>1. CASE job' = job
  BY <1>1
<1>2. ASSUME NEW q \in Syncer, NEW from \in Store, NEW to \in Store,
             StartSync(q, from, to)
      PROVE  Running(p) /\ c \in job[p].conflicted
  BY <1>2, <1>t DEF StartSync
<1>3. ASSUME NEW q \in Syncer,
             \/ Diff(q) \/ Copy(q) \/ ListRefs(q) \/ SetRef(q)
             \/ EndSync(q) \/ SyncFails(q)
      PROVE  Running(p) /\ c \in job[p].conflicted
  <2>1. CASE q # p
    BY <1>3, <1>t, <2>1 DEF Diff, Copy, ListRefs, SetRef, EndSync, SyncFails
  <2>2. CASE q = p
    <3>1. Running(p) /\ job[p] \in Job
      BY <1>3, <2>2, RunTyped DEF Diff, Copy, ListRefs, SetRef, EndSync, SyncFails, In
    <3>2. job'[p].conflicted = job[p].conflicted
      <4>1. CASE Diff(p)
        BY <1>t, <3>1, <4>1 DEF Diff, Job
      <4>2. CASE Copy(p)
        BY <1>t, <3>1, <4>2 DEF Copy, Job
      <4>3. CASE ListRefs(p)
        BY <1>t, <3>1, <4>3 DEF ListRefs, Job
      <4>4. CASE SetRef(p)
        BY <1>t, <3>1, <4>4 DEF SetRef, Job
      <4>5. CASE EndSync(p) \/ SyncFails(p)
        BY <1>t, <3>1, <4>5 DEF EndSync, SyncFails
      <4>6. QED
        BY <1>3, <2>2, <4>1, <4>2, <4>3, <4>4, <4>5
    <3>3. QED
      BY <3>1, <3>2
  <2>3. QED
    BY <2>1, <2>2
<1>4. ASSUME NEW q \in Syncer, Decide(q), q # p
      PROVE  Running(p) /\ c \in job[p].conflicted
  BY <1>4, <1>t DEF Decide, Done, Move, Conflict
<1>5. CASE Decide(p)
  <2>1. Running(p) /\ job[p] \in Job
    BY <1>5, RunTyped DEF Decide, In
  <2>2. PICK e \in job[p].pending :
           LET held == refs[job[p].to][e.ref]
           IN  \/ job' = Done(p, e) \/ job' = Move(p, e)
               \/ /\ held # None /\ ~ IsAncestor(job[p].to, e.ref, held, e.chain)
                  /\ job' = Conflict(p, e, held)
    BY <1>5 DEF Decide
  <2> DEFINE held == refs[job[p].to][e.ref]
  <2>3. CASE job' = Done(p, e)
    BY <1>t, <2>1, <2>3 DEF Done, Job
  <2>4. CASE job' = Move(p, e)
    BY <1>t, <2>1, <2>4 DEF Move, Job
  <2>5. CASE /\ held # None /\ ~ IsAncestor(job[p].to, e.ref, held, e.chain)
             /\ job' = Conflict(p, e, held)
    <3> HIDE DEF held
    <3>1. job'[p].conflicted = job[p].conflicted \cup {<<e.ref, held, e.chain>>}
      BY <1>t, <2>1, <2>5 DEF Conflict, Job
    <3>2. QED
      BY <1>5, <2>1, <2>5, <3>1 DEF held
  <2>6. QED
    BY <2>2, <2>3, <2>4, <2>5
<1>6. QED
  BY <1>1, <1>2, <1>3, <1>4, <1>5
     DEF Next, vars, StartCommit, PutCommit, FinishCommit, CommitCrash, Gc

\* What is reported of HEAD diverged: the destination can read the parents of
\* all that is shipped, so it finds any descent there is.
LEMMA ConflictDiverged ==
    ASSUME ClosedInv, NEW p \in Syncer, Running(p), job[p].phase = "refs",
           NEW e \in job[p].pending, e.ref = HEAD,
           NEW held, held = refs[job[p].to][HEAD], held # None,
           IsPrefix(held, e.chain)
    PROVE  IsAncestor(job[p].to, HEAD, held, e.chain)
<1> DEFINE to == job[p].to
<1>1. /\ job[p] \in Job /\ HEAD \in Ref
      /\ RunSound(job[p], refs[job[p].from], objects[to])
  BY RunTyped, ConstellationAssumption DEF ClosedInv, RunsSound
<1>2. /\ job[p].from \in Store /\ to \in Store
      /\ e.chain \in Chain
  BY <1>1, RunFields DEF Entry
<1>3. held \in Chain
  BY <1>1, <1>2 DEF ClosedInv, Typed
<1>4. e.chain = refs[job[p].from][HEAD] /\ e.chain # None
  BY <1>1, <1>2, ConstellationAssumption DEF RunSound
<1>5. Reach(HEAD, e.chain) \subseteq objects[to]
  BY <1>1, <1>4 DEF RunSound, Delivered, Held
<1>6. Len(held) \in Nat /\ Len(held) >= 1 /\ e.chain \in Seq(Leaf)
  BY <1>2, <1>3, EmptySeq DEF Chain
<1>7. ASSUME NEW i \in (Len(held) + 1) .. Len(e.chain)
      PROVE  HasParent(to, HEAD, SubSeq(e.chain, 1, i))
  <2>1. i \in 1 .. Len(e.chain) /\ i > 1
    BY <1>6, <1>7
  <2>2. Len(SubSeq(e.chain, 1, i)) = i
    BY <1>6, <2>1
  <2>3. EntryOf(HEAD, SubSeq(e.chain, 1, i)) \in Reach(HEAD, e.chain)
    BY <2>1 DEF Reach
  <2>4. QED
    BY <1>5, <2>1, <2>2, <2>3 DEF HasParent
<1>8. QED
  BY <1>7 DEF IsAncestor

\* While the source of a run is left alone, HEAD is reported in conflict only
\* where the destination's history really is no beginning of the source's:
\* none that could be moved forward is held back.
THEOREM SyncConflictsReal ==
    ASSUME QuietSource = TRUE
    PROVE  Spec => []HeadConflictsAreReal
<1>1. Init => HeadConflictsAreReal
  BY DEF Init, HeadConflictsAreReal, Running
<1>2. ClosedInv /\ HeadConflictsAreReal /\ [Next]_vars => HeadConflictsAreReal'
  <2> SUFFICES ASSUME ClosedInv, HeadConflictsAreReal, [Next]_vars,
                      NEW p \in Syncer, job'[p] # None,
                      NEW c \in job'[p].conflicted, c[1] = HEAD
               PROVE  ~ IsPrefix(c[2], c[3])
    BY DEF HeadConflictsAreReal, Running
  <2>1. CASE Running(p) /\ c \in job[p].conflicted
    BY <2>1 DEF HeadConflictsAreReal
  <2>2. ASSUME Decide(p), NEW e \in job[p].pending,
               NEW held, held = refs[job[p].to][e.ref], held # None,
               c = <<e.ref, held, e.chain>>,
               ~ IsAncestor(job[p].to, e.ref, held, e.chain)
        PROVE  ~ IsPrefix(c[2], c[3])
    <3>1. Running(p) /\ job[p].phase = "refs" /\ e.ref = HEAD
          /\ c[2] = held /\ c[3] = e.chain
      BY <2>2 DEF Decide, In
    <3>2. ~ IsPrefix(held, e.chain)
      BY <2>2, <3>1, ConflictDiverged
    <3>3. QED
      BY <3>1, <3>2
  <2>3. QED
    BY <2>1, <2>2, ConflictsGrow DEF ClosedInv
<1>3. QED
  BY <1>1, <1>2, ClosedInvariant, PTL DEF Spec

-----------------------------------------------------------------------------
(* ConstellationSync implements ConstellationMesh: whatever the source of  *)
(* a run does meanwhile, histories only grow while the commits of a store  *)
(* come one after the other, a run has its destination to itself and no    *)
(* crash tears a ref.                                                      *)

\* A run has its destination to itself.
SoleWriters ==
    \A p \in Syncer : Running(p) =>
        /\ ~ Committing(job[p].to)
        /\ \A q \in Syncer : Running(q) /\ q # p => job[q].to # job[p].to

SoleInv == Typed /\ SoleWriters

\* Commits of a store do not overlap, and one in flight is one step ahead of the
\* ref it will move.
OneCommit ==
    \A s \in Store : \A k, l \in Committer :
        commit[s][k] # None /\ commit[s][l] # None => k = l

CommitsOnTop ==
    \A s \in Store, k \in Committer : commit[s][k] # None =>
        \E leaf \in Leaf :
            commit[s][k].chain = Append(HistoryOf(s, commit[s][k].ref), leaf)

\* What a run carries was the source's, and the source's histories only grow.
CarriesHistory ==
    \A p \in Syncer : Running(p) =>
        \A e \in job[p].pending : IsPrefix(e.chain, HistoryOf(job[p].from, e.ref))

\* What a run is about to set extends what the destination has.
MovesForward ==
    \A p \in Syncer : In(p, "set") =>
        LET e == job[p].target
        IN  /\ IsPrefix(e.chain, HistoryOf(job[p].from, e.ref))
            /\ IsPrefix(HistoryOf(job[p].to, e.ref), e.chain)

MeshInv ==
    Typed /\ SoleWriters /\ OneCommit /\ CommitsOnTop /\ CarriesHistory /\ MovesForward

-----------------------------------------------------------------------------
(* Prefixes.                                                               *)

LEMMA PrefixIsPointwise ==
    ASSUME NEW a \in Seq(Leaf), NEW b \in Seq(Leaf)
    PROVE  IsPrefix(a, b) <=>
             Len(a) <= Len(b) /\ \A i \in 1 .. Len(a) : a[i] = b[i]
<1>1. SubSeq(a, 1, Len(a)) = a /\ Len(a) \in Nat /\ Len(b) \in Nat
  BY SubSeqFull
<1>2. ASSUME Len(a) <= Len(b)
      PROVE  /\ SubSeq(b, 1, Len(a)) \in Seq(Leaf)
             /\ Len(SubSeq(b, 1, Len(a))) = Len(a)
             /\ \A i \in 1 .. Len(a) : SubSeq(b, 1, Len(a))[i] = b[i]
  BY <1>1, <1>2
<1>3. ASSUME IsPrefix(a, b)
      PROVE  Len(a) <= Len(b) /\ \A i \in 1 .. Len(a) : a[i] = b[i]
  BY <1>1, <1>2, <1>3 DEF IsPrefix
<1>4. ASSUME Len(a) <= Len(b), \A i \in 1 .. Len(a) : a[i] = b[i]
      PROVE  IsPrefix(a, b)
  <2>1. SubSeq(b, 1, Len(a)) = a
    BY <1>2, <1>4, SeqEqual
  <2>2. QED
    BY <1>1, <1>4, <2>1 DEF IsPrefix
<1>5. QED
  BY <1>3, <1>4

LEMMA PrefixReflexive ==
    ASSUME NEW a \in Seq(Leaf)
    PROVE  IsPrefix(a, a)
BY DEF IsPrefix

LEMMA PrefixTransitive ==
    ASSUME NEW a \in Seq(Leaf), NEW b \in Seq(Leaf), NEW c \in Seq(Leaf),
           IsPrefix(a, b), IsPrefix(b, c)
    PROVE  IsPrefix(a, c)
<1>1. /\ Len(a) <= Len(b) /\ \A i \in 1 .. Len(a) : a[i] = b[i]
      /\ Len(b) <= Len(c) /\ \A i \in 1 .. Len(b) : b[i] = c[i]
  BY PrefixIsPointwise
<1>2. Len(a) \in Nat /\ Len(b) \in Nat /\ Len(c) \in Nat
  OBVIOUS
<1>3. Len(a) <= Len(c) /\ \A i \in 1 .. Len(a) : a[i] = c[i]
  BY <1>1, <1>2
<1>4. QED
  BY <1>3, PrefixIsPointwise

LEMMA PrefixOfAppend ==
    ASSUME NEW a \in Seq(Leaf), NEW leaf \in Leaf
    PROVE  IsPrefix(a, Append(a, leaf))
<1>1. /\ Append(a, leaf) \in Seq(Leaf) /\ Len(Append(a, leaf)) = Len(a) + 1
      /\ \A i \in 1 .. Len(a) : Append(a, leaf)[i] = a[i]
  BY AppendProperties
<1>2. Len(a) <= Len(Append(a, leaf))
  BY <1>1
<1>3. QED
  BY <1>1, <1>2, PrefixIsPointwise

LEMMA PrefixOfEmpty ==
    ASSUME NEW a \in Seq(Leaf), NEW none \in Seq(Leaf), none = << >>
    PROVE  IsPrefix(none, a)
<1>1. Len(none) = 0 /\ Len(a) \in Nat
  OBVIOUS
<1>2. Len(none) <= Len(a)
  BY <1>1
<1>3. \A i \in 1 .. Len(none) : none[i] = a[i]
  BY <1>1
<1>4. QED
  BY ONLY <1>2, <1>3, none \in Seq(Leaf), a \in Seq(Leaf), PrefixIsPointwise

LEMMA PrefixAmongPrefixes ==
    ASSUME NEW a \in Seq(Leaf), NEW b \in Seq(Leaf), IsPrefix(a, b)
    PROVE  a \in Prefixes(b)
<1>1. a = SubSeq(b, 1, Len(a)) /\ Len(a) \in 0 .. Len(b)
  BY SubSeqFull DEF IsPrefix
<1>2. QED
  BY <1>1 DEF Prefixes

-----------------------------------------------------------------------------
(* Histories.                                                              *)

LEMMA HistoryTyped ==
    ASSUME Typed, NEW s \in Store, NEW r \in Ref
    PROVE  HistoryOf(s, r) \in Seq(Leaf)
BY DEF Typed, HistoryOf, Chain

\* A ref that moves forward moves one history forward and no other.
LEMMA RefAdvances ==
    ASSUME Typed, NEW s \in Store, NEW r \in Ref, NEW chain \in Chain,
           None \notin Chain,
           refs' = [refs EXCEPT ![s][r] = chain],
           IsPrefix(HistoryOf(s, r), chain)
    PROVE  /\ HistoryOf(s, r)' = chain
           /\ \A x \in Store, q \in Ref :
                 x # s \/ q # r => HistoryOf(x, q)' = HistoryOf(x, q)
           /\ \A x \in Store, q \in Ref :
                 /\ HistoryOf(x, q)' \in Seq(Leaf)
                 /\ IsPrefix(HistoryOf(x, q), HistoryOf(x, q)')
<1>1. refs'[s][r] = chain
  BY DEF Typed
<1>2. \A x \in Store, q \in Ref :
         x # s \/ q # r => refs'[x][q] = refs[x][q]
  BY DEF Typed
<1>3. HistoryOf(s, r)' = chain
  BY <1>1 DEF HistoryOf
<1>4. \A x \in Store, q \in Ref :
         x # s \/ q # r => HistoryOf(x, q)' = HistoryOf(x, q)
  BY <1>2 DEF HistoryOf
<1>5. chain \in Seq(Leaf)
  BY DEF Chain
<1>6. \A x \in Store, q \in Ref :
         /\ HistoryOf(x, q)' \in Seq(Leaf)
         /\ IsPrefix(HistoryOf(x, q), HistoryOf(x, q)')
  <2> TAKE x \in Store, q \in Ref
  <2>1. CASE x = s /\ q = r
    BY <1>3, <1>5, <2>1
  <2>2. CASE x # s \/ q # r
    BY <1>4, <2>2, HistoryTyped, PrefixReflexive
  <2>3. QED
    BY <2>1, <2>2
<1>7. QED
  BY <1>3, <1>4, <1>6

\* The fields a run keeps from one step to the next.
LEMMA RunEntries ==
    ASSUME Typed, NEW p \in Syncer, Running(p)
    PROVE  /\ job[p].from \in Store /\ job[p].to \in Store
           /\ \A e \in job[p].pending : e.ref \in Ref /\ e.chain \in Seq(Leaf)
           /\ job[p].phase = "set" =>
                 /\ job[p].target \in Entry
                 /\ job[p].target.ref \in Ref
                 /\ job[p].target.chain \in Chain
                 /\ job[p].target.chain \in Seq(Leaf)
<1>1. job[p] \in Job
  BY RunTyped
<1>2. \A e \in Entry : e.ref \in Ref /\ e.chain \in Chain /\ e.chain \in Seq(Leaf)
  BY DEF Entry, Chain
<1>3. job[p].phase = "set" => job[p].target \in Entry
  BY DEF Typed, In
<1>4. QED
  BY <1>1, <1>2, <1>3, RunFields

\* A commit answers: its history grows by one.
LEMMA CommitExtends ==
    ASSUME MeshInv, Typed', None \notin Entry \cup Chain, NEW s \in Store,
           NEW k \in Committer, FinishCommit(s, k)
    PROVE  /\ MeshInv'
           /\ \E r \in Ref, leaf \in Leaf :
                 /\ refs' = [refs EXCEPT ![s][r] = Append(HistoryOf(s, r), leaf)]
                 /\ Append(HistoryOf(s, r), leaf) # None
<1> DEFINE r == commit[s][k].ref
           chain == commit[s][k].chain
<1>1. /\ commit[s][k] # None /\ commit' = [commit EXCEPT ![s][k] = None]
      /\ refs' = [refs EXCEPT ![s][r] = chain] /\ job' = job
  BY DEF FinishCommit
<1>2. r \in Ref /\ chain \in Chain
  BY <1>1 DEF MeshInv, Typed, Entry
<1>3. PICK leaf \in Leaf : chain = Append(HistoryOf(s, r), leaf)
  BY <1>1 DEF MeshInv, CommitsOnTop
<1>4. IsPrefix(HistoryOf(s, r), chain)
  BY <1>2, <1>3, HistoryTyped, PrefixOfAppend DEF MeshInv
<1> HIDE DEF r, chain
<1>5. \A x \in Store, q \in Ref :
         x # s \/ q # r => HistoryOf(x, q)' = HistoryOf(x, q)
  BY <1>1, <1>2, <1>4, RefAdvances DEF MeshInv
<1>6. \A x \in Store, q \in Ref :
         /\ HistoryOf(x, q)' \in Seq(Leaf)
         /\ IsPrefix(HistoryOf(x, q), HistoryOf(x, q)')
  BY <1>1, <1>2, <1>4, RefAdvances DEF MeshInv
<1>7. \A x \in Store, l \in Committer : commit'[x][l] # None =>
         x # s /\ commit'[x][l] = commit[x][l] /\ commit[x][l] \in Entry
  BY <1>1 DEF MeshInv, Typed, OneCommit
<1>8. \A x \in Store : x # s => refs'[x] = refs[x]
  BY <1>1, <1>2 DEF MeshInv, Typed
<1>9. CommitsOnTop'
  <2> SUFFICES ASSUME NEW x \in Store, NEW l \in Committer, commit'[x][l] # None
               PROVE  (\E m \in Leaf : commit[x][l].chain =
                                          Append(HistoryOf(x, commit[x][l].ref), m))'
    BY DEF CommitsOnTop
  <2>1. commit[x][l] # None /\ commit'[x][l] = commit[x][l] /\ refs'[x] = refs[x]
    BY <1>7, <1>8
  <2>2. \E m \in Leaf : commit[x][l].chain = Append(HistoryOf(x, commit[x][l].ref), m)
    BY <2>1 DEF MeshInv, CommitsOnTop
  <2>3. QED
    BY <2>1, <2>2 DEF HistoryOf
<1>14. OneCommit'
  BY <1>7 DEF MeshInv, OneCommit
<1>10. SoleWriters'
  BY <1>1, <1>7, RunEntries DEF MeshInv, SoleWriters, Running, Committing
<1>11. CarriesHistory'
  <2> SUFFICES ASSUME NEW p \in Syncer, Running(p), NEW e \in job[p].pending,
                      NEW x, x = job[p].from
               PROVE  IsPrefix(e.chain, HistoryOf(x, e.ref)')
    BY <1>1 DEF CarriesHistory, Running
  <2>1. IsPrefix(e.chain, HistoryOf(x, e.ref))
    BY DEF MeshInv, CarriesHistory
  <2>2. x \in Store /\ e.ref \in Ref /\ e.chain \in Seq(Leaf)
    BY RunEntries DEF MeshInv
  <2>3. QED
    BY <1>6, <2>1, <2>2, HistoryTyped, PrefixTransitive DEF MeshInv
<1>12. MovesForward'
  <2> SUFFICES ASSUME NEW p \in Syncer, In(p, "set"),
                      NEW e, e = job[p].target,
                      NEW x, x = job[p].from, NEW y, y = job[p].to
               PROVE  /\ IsPrefix(e.chain, HistoryOf(x, e.ref)')
                      /\ IsPrefix(HistoryOf(y, e.ref)', e.chain)
    BY <1>1 DEF MovesForward, In, Running
  <2>1. /\ IsPrefix(e.chain, HistoryOf(x, e.ref))
        /\ IsPrefix(HistoryOf(y, e.ref), e.chain)
    BY DEF MeshInv, MovesForward
  <2>2. x \in Store /\ y \in Store /\ e.ref \in Ref /\ e.chain \in Seq(Leaf)
    BY RunEntries DEF MeshInv, In
  <2>3. y # s
    BY <1>1 DEF MeshInv, SoleWriters, In, Committing
  <2>4. IsPrefix(e.chain, HistoryOf(x, e.ref)')
    BY <1>6, <2>1, <2>2, HistoryTyped, PrefixTransitive DEF MeshInv
  <2>5. QED
    BY <1>5, <2>1, <2>2, <2>3, <2>4
<1>13. QED
  BY <1>1, <1>2, <1>3, <1>9, <1>10, <1>11, <1>12, <1>14 DEF MeshInv, r, chain

\* A run moves a ref: the destination adopts history of the source.
LEMMA SetRefAdopts ==
    ASSUME MeshInv, Typed', None \notin Entry \cup Chain, NEW p \in Syncer,
           SetRef(p)
    PROVE  /\ MeshInv'
           /\ \E from, to \in Store, r \in Ref, chain \in Chain :
                 /\ refs' = [refs EXCEPT ![to][r] = chain]
                 /\ IsPrefix(chain, HistoryOf(from, r))
                 /\ IsPrefix(HistoryOf(to, r), chain)
<1> DEFINE from  == job[p].from
           to    == job[p].to
           r     == job[p].target.ref
           chain == job[p].target.chain
           run   == [job[p] EXCEPT !.phase = "refs", !.target = None]
<1>1. /\ Running(p) /\ job[p].phase = "set" /\ job[p] \in Job
      /\ refs' = [refs EXCEPT ![to][r] = chain]
      /\ job' = [job EXCEPT ![p] = run]
      /\ commit' = commit
  BY RunTyped DEF SetRef, In, MeshInv
<1>2. /\ from \in Store /\ to \in Store /\ r \in Ref
      /\ chain \in Chain /\ chain \in Seq(Leaf)
  BY <1>1, RunEntries DEF MeshInv
<1>3. IsPrefix(chain, HistoryOf(from, r)) /\ IsPrefix(HistoryOf(to, r), chain)
  BY <1>1 DEF MeshInv, MovesForward, In
<1>4. /\ run.from = from /\ run.to = to /\ run.phase = "refs"
      /\ run.pending = job[p].pending
  BY <1>1 DEF Job
<1> HIDE DEF run
<1>5. /\ job'[p] = run
      /\ \A q \in Syncer : q # p => job'[q] = job[q]
  BY <1>1 DEF MeshInv, Typed
<1>6. \A q \in Syncer : job'[q] # None =>
         /\ Running(q)
         /\ job'[q].from = job[q].from /\ job'[q].to = job[q].to
         /\ job'[q].pending = job[q].pending
  BY <1>1, <1>4, <1>5 DEF Running
<1>7. ~ Committing(to) /\ \A q \in Syncer : Running(q) /\ q # p => job[q].to # to
  BY <1>1 DEF MeshInv, SoleWriters
<1> HIDE DEF from, to, r, chain
<1>8. \A x \in Store, q \in Ref :
         x # to \/ q # r => HistoryOf(x, q)' = HistoryOf(x, q)
  BY <1>1, <1>2, <1>3, RefAdvances DEF MeshInv
<1>9. \A x \in Store, q \in Ref :
         /\ HistoryOf(x, q)' \in Seq(Leaf)
         /\ IsPrefix(HistoryOf(x, q), HistoryOf(x, q)')
  BY <1>1, <1>2, <1>3, RefAdvances DEF MeshInv
<1>10. \A x \in Store : x # to => \A q \in Ref : HistoryOf(x, q)' = HistoryOf(x, q)
  BY <1>8
<1>11. CommitsOnTop'
  <2> SUFFICES ASSUME NEW s \in Store, NEW k \in Committer, commit[s][k] # None,
                      NEW c, c = commit[s][k]
               PROVE  \E leaf \in Leaf : c.chain = Append(HistoryOf(s, c.ref)', leaf)
    BY <1>1 DEF CommitsOnTop
  <2>1. c.ref \in Ref
    BY DEF MeshInv, Typed, Entry
  <2>2. \E leaf \in Leaf : c.chain = Append(HistoryOf(s, c.ref), leaf)
    BY DEF MeshInv, CommitsOnTop
  <2>3. QED
    BY <1>7, <1>10, <2>1, <2>2 DEF Committing
<1>16. OneCommit'
  BY <1>1 DEF MeshInv, OneCommit
<1>12. SoleWriters'
  BY <1>1, <1>6 DEF MeshInv, SoleWriters, Running, Committing
<1>13. CarriesHistory'
  <2> SUFFICES ASSUME NEW q \in Syncer, Running(q), NEW e \in job[q].pending,
                      NEW x, x = job[q].from
               PROVE  IsPrefix(e.chain, HistoryOf(x, e.ref)')
    BY <1>6 DEF CarriesHistory, Running
  <2>1. IsPrefix(e.chain, HistoryOf(x, e.ref))
    BY DEF MeshInv, CarriesHistory
  <2>2. x \in Store /\ e.ref \in Ref /\ e.chain \in Seq(Leaf)
    BY RunEntries DEF MeshInv
  <2>3. QED
    BY <1>9, <2>1, <2>2, HistoryTyped, PrefixTransitive DEF MeshInv
<1>14. MovesForward'
  <2> SUFFICES ASSUME NEW q \in Syncer, q # p, In(q, "set"),
                      NEW e, e = job[q].target,
                      NEW x, x = job[q].from, NEW y, y = job[q].to
               PROVE  /\ IsPrefix(e.chain, HistoryOf(x, e.ref)')
                      /\ IsPrefix(HistoryOf(y, e.ref)', e.chain)
    BY <1>4, <1>5 DEF MovesForward, In, Running
  <2>1. /\ IsPrefix(e.chain, HistoryOf(x, e.ref))
        /\ IsPrefix(HistoryOf(y, e.ref), e.chain)
    BY DEF MeshInv, MovesForward
  <2>2. x \in Store /\ y \in Store /\ e.ref \in Ref /\ e.chain \in Seq(Leaf)
    BY RunEntries DEF MeshInv, In
  <2>3. y # to
    BY <1>7 DEF In
  <2>4. IsPrefix(e.chain, HistoryOf(x, e.ref)')
    BY <1>9, <2>1, <2>2, HistoryTyped, PrefixTransitive DEF MeshInv
  <2>5. QED
    BY <1>10, <2>1, <2>2, <2>3, <2>4
<1>15. QED
  BY <1>1, <1>2, <1>3, <1>11, <1>12, <1>13, <1>14, <1>16 DEF MeshInv

\* The other steps of a run: no ref moves.
LEMMA RunMoves ==
    ASSUME MeshInv, Typed', NEW p \in Syncer, Running(p),
           NEW run, job' = [job EXCEPT ![p] = run],
           UNCHANGED <<refs, commit>>,
           run # None =>
              /\ run.from = job[p].from /\ run.to = job[p].to
              /\ \A e \in run.pending : IsPrefix(e.chain, HistoryOf(run.from, e.ref))
              /\ run.phase = "set" =>
                   /\ IsPrefix(run.target.chain, HistoryOf(run.from, run.target.ref))
                   /\ IsPrefix(HistoryOf(run.to, run.target.ref), run.target.chain)
    PROVE  MeshInv'
<1>1. /\ job'[p] = run
      /\ \A q \in Syncer : q # p => job'[q] = job[q]
  BY DEF MeshInv, Typed
<1>2. \A x, q : HistoryOf(x, q)' = HistoryOf(x, q)
  BY DEF HistoryOf
<1>3. CommitsOnTop'
  BY DEF MeshInv, CommitsOnTop, HistoryOf
<1>4. SoleWriters' /\ OneCommit'
  BY <1>1 DEF MeshInv, SoleWriters, Running, OneCommit, Committing
<1>5. CarriesHistory'
  BY <1>1, <1>2 DEF MeshInv, CarriesHistory, Running
<1>6. MovesForward'
  BY <1>1, <1>2 DEF MeshInv, MovesForward, In, Running
<1>7. QED
  BY <1>3, <1>4, <1>5, <1>6 DEF MeshInv

\* A device starts a commit, gives one up or collects garbage.
LEMMA DeviceMoves ==
    ASSUME MeshInv, Typed', QuietDest = TRUE, CommitsAlone = TRUE,
           "crash_in_write" \notin Faults, None \notin Entry, NEW s \in Store,
           \/ \E k \in Committer :
                 \/ \E r \in Ref, leaf \in Leaf : StartCommit(s, k, r, leaf)
                 \/ PutCommit(s, k) \/ CommitCrash(s, k)
           \/ Gc(s)
    PROVE  MeshInv' /\ refs' = refs
<1>1. refs' = refs /\ job' = job
  BY DEF StartCommit, PutCommit, CommitCrash, Gc
<1>2. \A x, q : HistoryOf(x, q)' = HistoryOf(x, q)
  BY <1>1 DEF HistoryOf
<1>3. CarriesHistory' /\ MovesForward'
  BY <1>1, <1>2 DEF MeshInv, CarriesHistory, MovesForward, Running, In
<1>7. \A p \in Syncer : Running(p) => job[p].to \in Store
  BY RunEntries DEF MeshInv
<1>4. ASSUME NEW k \in Committer, NEW r \in Ref, NEW leaf \in Leaf,
             StartCommit(s, k, r, leaf)
      PROVE  CommitsOnTop' /\ SoleWriters' /\ OneCommit'
  <2> DEFINE e == EntryOf(r, Append(HistoryOf(s, r), leaf))
  <2>1. commit' = [commit EXCEPT ![s][k] = e] /\ ~ Dest(s) /\ ~ Committing(s)
    BY <1>4 DEF StartCommit, MayCommit, HistoryOf
  <2>2. e.ref = r /\ e.chain = Append(HistoryOf(s, r), leaf)
    BY DEF EntryOf
  <2> HIDE DEF e
  <2>3. /\ commit'[s][k] = e
        /\ \A x \in Store, l \in Committer : x # s \/ l # k => commit'[x][l] = commit[x][l]
    BY <2>1 DEF MeshInv, Typed
  <2>4. ASSUME NEW x \in Store, NEW l \in Committer, commit'[x][l] # None,
               NEW c, c = commit'[x][l]
        PROVE  \E m \in Leaf : c.chain = Append(HistoryOf(x, c.ref), m)
    <3>1. CASE x = s /\ l = k
      BY <2>2, <2>3, <2>4, <3>1
    <3>2. CASE x # s \/ l # k
      BY <2>3, <2>4, <3>2 DEF MeshInv, CommitsOnTop
    <3>3. QED
      BY <3>1, <3>2
  <2>5. CommitsOnTop'
    BY <1>2, <2>4 DEF CommitsOnTop
  <2>6. \A p \in Syncer : Running(p) => job[p].to # s
    BY <2>1 DEF Dest
  <2>7. SoleWriters'
    BY <1>1, <1>7, <2>3, <2>6 DEF MeshInv, SoleWriters, Running, Committing
  <2>8. OneCommit'
    BY <2>1, <2>3 DEF MeshInv, OneCommit, Committing
  <2>9. QED
    BY <2>5, <2>7, <2>8
<1>5. ASSUME Gc(s) \/ \E k \in Committer : PutCommit(s, k) \/ CommitCrash(s, k)
      PROVE  CommitsOnTop' /\ SoleWriters' /\ OneCommit'
  <2>1. \A x \in Store, l \in Committer :
           commit'[x][l] = None \/ commit'[x][l] = commit[x][l]
    <3>1. \/ commit' = commit
          \/ \E k \in Committer : commit' = [commit EXCEPT ![s][k] = None]
      BY <1>5 DEF PutCommit, CommitCrash, Gc
    <3>2. commit \in [Store -> [Committer -> Entry \cup {None}]]
      BY DEF MeshInv, Typed
    <3>3. QED
      BY <3>1, <3>2
  <2>2. ASSUME NEW x \in Store, NEW l \in Committer, commit'[x][l] # None,
               NEW c, c = commit'[x][l]
        PROVE  \E m \in Leaf : c.chain = Append(HistoryOf(x, c.ref), m)
    BY <2>1, <2>2 DEF MeshInv, CommitsOnTop
  <2>3. CommitsOnTop'
    BY <1>2, <2>2 DEF CommitsOnTop
  <2>4. SoleWriters'
    BY <1>1, <1>7, <2>1 DEF MeshInv, SoleWriters, Running, Committing
  <2>5. OneCommit'
    BY <2>1 DEF MeshInv, OneCommit
  <2>6. QED
    BY <2>3, <2>4, <2>5
<1>6. QED
  BY <1>1, <1>3, <1>4, <1>5 DEF MeshInv

\* A run starts.
LEMMA StartMoves ==
    ASSUME MeshInv, Typed', QuietDest = TRUE, None \notin Job,
           NEW p \in Syncer, NEW from \in Store, NEW to \in Store,
           StartSync(p, from, to)
    PROVE  MeshInv' /\ refs' = refs
<1> DEFINE run == [from |-> from, to |-> to, phase |-> "have",
                   missing |-> objects[from], pending |-> {},
                   target |-> None, conflicted |-> {}]
<1>1. /\ ~ Running(p) /\ ~ Committing(to) /\ ~ Dest(to)
      /\ job' = [job EXCEPT ![p] = run]
      /\ refs' = refs /\ commit' = commit
  BY DEF StartSync, MaySync
<1>2. run.to = to /\ run.phase = "have" /\ run.pending = {}
  OBVIOUS
<1> HIDE DEF run
<1>3. /\ job'[p] = run
      /\ \A q \in Syncer : q # p => job'[q] = job[q]
  BY <1>1 DEF MeshInv, Typed
<1>4. \A x, q : HistoryOf(x, q)' = HistoryOf(x, q)
  BY <1>1 DEF HistoryOf
<1>5. CommitsOnTop'
  BY <1>1, <1>4 DEF MeshInv, CommitsOnTop
<1>6. SoleWriters' /\ OneCommit'
  BY <1>1, <1>2, <1>3 DEF MeshInv, SoleWriters, Running, Dest, OneCommit, Committing
<1>7. CarriesHistory'
  BY <1>2, <1>3, <1>4 DEF MeshInv, CarriesHistory, Running
<1>8. MovesForward'
  BY <1>2, <1>3, <1>4 DEF MeshInv, MovesForward, In, Running
<1>9. QED
  BY <1>1, <1>5, <1>6, <1>7, <1>8 DEF MeshInv

\* A run ships, lists, decides or ends.
LEMMA SyncMoves ==
    ASSUME MeshInv, Typed', "crash_in_write" \notin Faults,
           None \notin Chain, NEW p \in Syncer,
           Diff(p) \/ Copy(p) \/ ListRefs(p) \/ Decide(p) \/ EndSync(p) \/ SyncFails(p)
    PROVE  MeshInv' /\ refs' = refs
<1> DEFINE from == job[p].from
           to   == job[p].to
<1>1. Running(p) /\ job[p] \in Job
  BY RunTyped DEF MeshInv, Diff, Copy, ListRefs, Decide, EndSync, SyncFails, In
<1>2. /\ from \in Store /\ to \in Store
      /\ \A e \in job[p].pending : /\ e.ref \in Ref /\ e.chain \in Seq(Leaf)
                                   /\ IsPrefix(e.chain, HistoryOf(from, e.ref))
  BY <1>1, RunEntries DEF MeshInv, CarriesHistory
<1>3. UNCHANGED <<refs, commit>>
  BY DEF Diff, Copy, ListRefs, Decide, EndSync, SyncFails
<1>4. CASE Diff(p)
  <2> DEFINE run == [job[p] EXCEPT !.phase = "copy", !.missing = @ \ objects[to]]
  <2>1. job' = [job EXCEPT ![p] = run]
    BY <1>4 DEF Diff
  <2>2. /\ run.from = from /\ run.to = to /\ run.phase = "copy"
        /\ run.pending = job[p].pending
    BY <1>1 DEF Job
  <2> HIDE DEF run
  <2>3. QED
    BY <1>1, <1>2, <1>3, <2>1, <2>2, RunMoves
<1>5. CASE Copy(p)
  <2>1. PICK id \in job[p].missing : job' = [job EXCEPT ![p].missing = @ \ {id}]
    BY <1>5 DEF Copy
  <2> DEFINE run == [job[p] EXCEPT !.missing = @ \ {id}]
  <2>2. job' = [job EXCEPT ![p] = run] /\ job[p].phase = "copy"
    BY <1>5, <2>1 DEF Copy, In
  <2>3. /\ run.from = from /\ run.to = to /\ run.phase = "copy"
        /\ run.pending = job[p].pending
    BY <1>1, <2>2 DEF Job
  <2> HIDE DEF run
  <2>4. QED
    BY <1>1, <1>2, <1>3, <2>2, <2>3, RunMoves
<1>6. CASE ListRefs(p)
  <2> DEFINE run == [job[p] EXCEPT !.phase = "refs", !.pending = RefsOf(from)]
  <2>1. job' = [job EXCEPT ![p] = run]
    BY <1>6 DEF ListRefs
  <2>2. /\ run.from = from /\ run.to = to /\ run.phase = "refs"
        /\ run.pending = RefsOf(from)
    BY <1>1 DEF Job
  <2> HIDE DEF run
  <2>3. ASSUME NEW e \in RefsOf(from)
        PROVE  IsPrefix(e.chain, HistoryOf(from, e.ref))
    <3>1. e.ref \in Ref /\ e.chain = HistoryOf(from, e.ref)
      BY <2>3 DEF RefsOf, EntryOf, HistoryOf
    <3>2. QED
      BY <1>2, <3>1, HistoryTyped, PrefixReflexive DEF MeshInv
  <2>4. QED
    BY <1>1, <1>3, <2>1, <2>2, <2>3, RunMoves
<1>7. CASE Decide(p)
  <2>1. PICK e \in job[p].pending :
           \/ refs[to][e.ref] = None /\ job' = Move(p, e)
           \/ job' = Done(p, e)
           \/ /\ refs[to][e.ref] # None
              /\ \/ /\ IsPrefix(refs[to][e.ref], e.chain)
                    /\ job' = Move(p, e)
                 \/ job' = Conflict(p, e, refs[to][e.ref])
    BY <1>7 DEF Decide, IsAncestor
  <2>2. job[p].phase = "refs"
    BY <1>7 DEF Decide, In
  <2>3. CASE job' = Done(p, e)
    <3> DEFINE run == [job[p] EXCEPT !.pending = @ \ {e}]
    <3>1. job' = [job EXCEPT ![p] = run]
      BY <2>3 DEF Done
    <3>2. /\ run.from = from /\ run.to = to /\ run.phase = "refs"
          /\ run.pending \subseteq job[p].pending
      BY <1>1, <2>2 DEF Job
    <3> HIDE DEF run
    <3>3. QED
      BY <1>1, <1>2, <1>3, <3>1, <3>2, RunMoves
  <2>4. CASE job' = Conflict(p, e, refs[to][e.ref])
    <3> DEFINE found == job[p].conflicted \cup {<<e.ref, refs[to][e.ref], e.chain>>}
               run == [job[p] EXCEPT !.pending = @ \ {e}, !.conflicted = found]
    <3>1. job' = [job EXCEPT ![p] = run]
      BY <2>4 DEF Conflict
    <3> HIDE DEF found
    <3>2. /\ run.from = from /\ run.to = to /\ run.phase = "refs"
          /\ run.pending \subseteq job[p].pending
      BY <1>1, <2>2 DEF Job
    <3> HIDE DEF run
    <3>3. QED
      BY <1>1, <1>2, <1>3, <3>1, <3>2, RunMoves
  <2>5. CASE /\ job' = Move(p, e)
             /\ \/ refs[to][e.ref] = None
                \/ refs[to][e.ref] # None /\ IsPrefix(refs[to][e.ref], e.chain)
    <3> DEFINE run == [job[p] EXCEPT !.pending = @ \ {e}, !.phase = "set",
                                     !.target = e]
    <3>1. job' = [job EXCEPT ![p] = run]
      BY <2>5 DEF Move
    <3>2. /\ run.from = from /\ run.to = to /\ run.target = e
          /\ run.pending \subseteq job[p].pending
      BY <1>1 DEF Job
    <3> HIDE DEF run
    <3>3. IsPrefix(HistoryOf(to, e.ref), e.chain)
      <4>1. CASE refs[to][e.ref] = None
        <5>1. HistoryOf(to, e.ref) = << >>
          BY <4>1 DEF HistoryOf
        <5>2. HistoryOf(to, e.ref) \in Seq(Leaf) /\ e.chain \in Seq(Leaf)
          BY <1>2, HistoryTyped DEF MeshInv
        <5>3. QED
          BY <5>1, <5>2, PrefixOfEmpty
      <4>2. CASE refs[to][e.ref] # None
        BY <2>5, <4>2 DEF HistoryOf
      <4>3. QED
        BY <4>1, <4>2
    <3>4. QED
      BY <1>1, <1>2, <1>3, <3>1, <3>2, <3>3, RunMoves
  <2>6. QED
    BY <2>1, <2>3, <2>4, <2>5
<1>8. CASE EndSync(p) \/ SyncFails(p)
  <2>1. job' = [job EXCEPT ![p] = None]
    BY <1>8 DEF EndSync, SyncFails
  <2>2. QED
    BY <1>1, <1>3, <2>1, RunMoves
<1>9. QED
  BY <1>3, <1>4, <1>5, <1>6, <1>7, <1>8

-----------------------------------------------------------------------------
(* The steps of the mesh.                                                  *)

\* The refinement mapping, as Mesh has it.
Histories == [s \in Store |-> [r \in Ref |-> HistoryOf(s, r)]]

\* A ref that moves forward is one entry of the histories that does.
LEMMA HistoriesAdvance ==
    ASSUME Typed, NEW s \in Store, NEW r \in Ref, NEW chain, chain # None,
           refs' = [refs EXCEPT ![s][r] = chain]
    PROVE  Histories' = [Histories EXCEPT ![s][r] = chain]
<1>1. refs'[s][r] = chain
  BY DEF Typed
<1>2. \A x \in Store, q \in Ref :
         x # s \/ q # r => refs'[x][q] = refs[x][q]
  BY DEF Typed
<1>3. \A x \in Store, q \in Ref :
         HistoryOf(x, q)' = IF x = s /\ q = r THEN chain ELSE HistoryOf(x, q)
  BY <1>1, <1>2 DEF HistoryOf
<1>4. Histories' = [x \in Store |-> [q \in Ref |->
                      IF x = s /\ q = r THEN chain ELSE HistoryOf(x, q)]]
  BY <1>3 DEF Histories
<1>5. QED
  BY <1>4 DEF Histories

\* Every step of stores and runs is a step of the mesh or none.
LEMMA StepRefinesMesh ==
    ASSUME MeshInv, [Next]_vars, QuietDest = TRUE, CommitsAlone = TRUE,
           "crash_in_write" \notin Faults
    PROVE  MeshInv' /\ [Mesh!MNext]_Histories
<1>1. None \notin Entry /\ None \notin Chain /\ None \notin Job
  BY ConstellationAssumption
<1>2. Typed'
  BY <1>1, TypedStep DEF MeshInv
<1>3. ASSUME NEW s \in Store, NEW k \in Committer, FinishCommit(s, k)
      PROVE  MeshInv' /\ Mesh!MNext
  <2>1. PICK r \in Ref, leaf \in Leaf :
           /\ refs' = [refs EXCEPT ![s][r] = Append(HistoryOf(s, r), leaf)]
           /\ Append(HistoryOf(s, r), leaf) # None
    BY <1>1, <1>2, <1>3, CommitExtends
  <2>2. Histories' = [Histories EXCEPT ![s][r] = Append(HistoryOf(s, r), leaf)]
    BY <2>1, HistoriesAdvance DEF MeshInv
  <2>3. Histories[s][r] = HistoryOf(s, r)
    BY DEF Histories
  <2>4. Histories' = [Histories EXCEPT ![s][r] = Append(@, leaf)]
    BY <2>2, <2>3
  <2>5. Mesh!MCommit(s, r, leaf)
    BY <2>4 DEF Mesh!MCommit, Histories
  <2>6. QED
    BY <1>1, <1>2, <1>3, <2>5, CommitExtends DEF Mesh!MNext
<1>4. ASSUME NEW p \in Syncer, SetRef(p)
      PROVE  MeshInv' /\ Mesh!MNext
  <2>1. PICK from \in Store, to \in Store, r \in Ref, chain \in Chain :
           /\ refs' = [refs EXCEPT ![to][r] = chain]
           /\ IsPrefix(chain, HistoryOf(from, r))
           /\ IsPrefix(HistoryOf(to, r), chain)
    BY <1>1, <1>2, <1>4, SetRefAdopts
  <2>2. Histories' = [Histories EXCEPT ![to][r] = chain]
    BY <1>1, <2>1, HistoriesAdvance DEF MeshInv
  <2>3. Histories[from][r] = HistoryOf(from, r) /\ Histories[to][r] = HistoryOf(to, r)
    BY DEF Histories
  <2>4. chain \in Prefixes(HistoryOf(from, r))
    <3>1. chain \in Seq(Leaf) /\ HistoryOf(from, r) \in Seq(Leaf)
      BY HistoryTyped DEF MeshInv, Chain
    <3>2. QED
      BY <2>1, <3>1, PrefixAmongPrefixes
  <2>5. /\ chain \in Mesh!Prefixes(Histories[from][r])
        /\ Mesh!IsPrefix(Histories[to][r], chain)
    BY <2>1, <2>3, <2>4 DEF Mesh!Prefixes, Mesh!IsPrefix, Prefixes, IsPrefix
  <2>6. Mesh!MAdopt(from, to, r)
    BY <2>2, <2>5 DEF Mesh!MAdopt, Histories
  <2>7. QED
    BY <1>1, <1>2, <1>4, <2>6, SetRefAdopts DEF Mesh!MNext
<1>5. ASSUME \/ \E s \in Store :
                   \/ \E k \in Committer :
                         \/ \E r \in Ref, leaf \in Leaf : StartCommit(s, k, r, leaf)
                         \/ PutCommit(s, k) \/ CommitCrash(s, k)
                   \/ Gc(s)
             \/ \E p \in Syncer :
                   \/ \E from, to \in Store : StartSync(p, from, to)
                   \/ Diff(p) \/ Copy(p) \/ ListRefs(p) \/ Decide(p)
                   \/ EndSync(p) \/ SyncFails(p)
             \/ UNCHANGED vars
      PROVE  MeshInv' /\ refs' = refs
  <2>1. CASE UNCHANGED vars
    BY <1>2, <2>1 DEF vars, MeshInv, SoleWriters, OneCommit, CommitsOnTop, CarriesHistory,
                     MovesForward, HistoryOf, In, Running, Committing
  <2>2. CASE \E s \in Store :
                \/ \E k \in Committer :
                      \/ \E r \in Ref, leaf \in Leaf : StartCommit(s, k, r, leaf)
                      \/ PutCommit(s, k) \/ CommitCrash(s, k)
                \/ Gc(s)
    BY <1>1, <1>2, <2>2, DeviceMoves
  <2>3. CASE \E p \in Syncer, from, to \in Store : StartSync(p, from, to)
    BY <1>1, <1>2, <2>3, StartMoves
  <2>4. CASE \E p \in Syncer : \/ Diff(p) \/ Copy(p) \/ ListRefs(p) \/ Decide(p)
                              \/ EndSync(p) \/ SyncFails(p)
    BY <1>1, <1>2, <2>4, SyncMoves
  <2>5. QED
    BY <1>5, <2>1, <2>2, <2>3, <2>4
<1>6. refs' = refs => Histories' = Histories
  BY DEF Histories, HistoryOf
<1>7. QED
  BY <1>3, <1>4, <1>5, <1>6 DEF Next

LEMMA InitRefinesMesh == Init => MeshInv /\ Mesh!MInit
<1> SUFFICES ASSUME Init
             PROVE  MeshInv /\ Mesh!MInit
  OBVIOUS
<1>1. MeshInv
  BY DEF Init, MeshInv, Typed, SoleWriters, OneCommit, CommitsOnTop, CarriesHistory,
         MovesForward, In, Running
<1>2. \A s \in Store, r \in Ref : HistoryOf(s, r) = << >>
  BY DEF Init, HistoryOf
<1>3. QED
  BY <1>1, <1>2 DEF Mesh!MInit

\* While a run has its destination to itself, the commits of a store come one
\* after the other and no crash tears a ref, stores and runs implement the mesh,
\* whatever commits at the source meanwhile: a step of sync never takes a commit
\* out of a history.
THEOREM SyncImplementsMesh ==
    ASSUME QuietDest = TRUE, CommitsAlone = TRUE, "crash_in_write" \notin Faults
    PROVE  Spec => MeshSpec
<1>1. MeshInv /\ [Next]_vars => MeshInv' /\ [Mesh!MNext]_Histories
  BY StepRefinesMesh
<1>2. QED
  BY <1>1, InitRefinesMesh, PTL DEF Spec, MeshSpec, Mesh!MeshSpec, Histories

-----------------------------------------------------------------------------
(* What a run that succeeds has done.                                      *)

\* A ref of the source is still to be looked at, about to be set, set or in
\* conflict.
Accounted(run, src, dst) ==
    run.phase \in {"refs", "set"} =>
        \A r \in Ref : src[r] # None =>
            \/ EntryOf(r, src[r]) \in run.pending
            \/ run.phase = "set" /\ run.target = EntryOf(r, src[r])
            \/ dst[r] = src[r]
            \/ \E c \in run.conflicted : c[1] = r

AllAccounted ==
    \A p \in Syncer : Running(p) =>
        Accounted(job[p], refs[job[p].from], refs[job[p].to])

\* A run has its destination to itself throughout, commits overlapping elsewhere
\* or not.
LEMMA SoleStep ==
    ASSUME SoleInv, [Next]_vars, QuietDest = TRUE
    PROVE  SoleInv'
<1> USE DEF Running
<1>1. None \notin Job
  BY ConstellationAssumption
<1>2. Typed'
  BY <1>1, TypedStep DEF SoleInv
<1>t. /\ job \in [Syncer -> Job \cup {None}]
      /\ commit \in [Store -> [Committer -> Entry \cup {None}]]
  BY DEF SoleInv, Typed
<1>r. \A p \in Syncer : Running(p) => job[p].to \in Store
  BY RunEntries DEF SoleInv
<1>3. ASSUME NEW s \in Store,
             \/ \E k \in Committer :
                   \/ \E r \in Ref, leaf \in Leaf : StartCommit(s, k, r, leaf)
                   \/ PutCommit(s, k) \/ FinishCommit(s, k) \/ CommitCrash(s, k)
             \/ Gc(s)
      PROVE  SoleWriters'
  <2>1. job' = job
    BY <1>3 DEF StartCommit, PutCommit, FinishCommit, CommitCrash, Gc
  <2>2. \A x \in Store : Committing(x)' => Committing(x) \/ (x = s /\ ~ Dest(s))
    BY <1>3, <1>t DEF StartCommit, PutCommit, FinishCommit, CommitCrash, Gc, Committing,
                      MayCommit
  <2>3. QED
    BY <1>r, <2>1, <2>2 DEF SoleInv, SoleWriters, Dest
<1>4. ASSUME NEW p \in Syncer, NEW from \in Store, NEW to \in Store, StartSync(p, from, to)
      PROVE  SoleWriters'
  <2>1. /\ ~ Running(p) /\ ~ Committing(to) /\ ~ Dest(to) /\ commit' = commit
        /\ job'[p].to = to /\ \A q \in Syncer : q # p => job'[q] = job[q]
    BY <1>4, <1>t DEF StartSync, MaySync
  <2>2. QED
    BY <2>1 DEF SoleInv, SoleWriters, Dest, Committing
<1>5. ASSUME NEW p \in Syncer,
             \/ Diff(p) \/ Copy(p) \/ ListRefs(p) \/ Decide(p) \/ SetRef(p)
             \/ EndSync(p) \/ SyncFails(p)
      PROVE  SoleWriters'
  <2>1. Running(p) /\ job[p] \in Job /\ commit' = commit
    BY <1>5, RunTyped DEF SoleInv, Diff, Copy, ListRefs, Decide, SetRef, EndSync,
                          SyncFails, In
  <2>2. \A q \in Syncer : q # p => job'[q] = job[q]
    BY <1>5, <1>t DEF Diff, Copy, ListRefs, Decide, Done, Move, Conflict, SetRef,
                      EndSync, SyncFails
  <2>3. job'[p] # None => job'[p].to = job[p].to
    <3>1. CASE Diff(p)
      BY <1>t, <2>1, <3>1 DEF Diff, Job
    <3>2. CASE Copy(p)
      BY <1>t, <2>1, <3>2 DEF Copy, Job
    <3>3. CASE ListRefs(p)
      BY <1>t, <2>1, <3>3 DEF ListRefs, Job
    <3>4. CASE Decide(p)
      <4>1. PICK e \in job[p].pending :
               \/ job' = Done(p, e) \/ job' = Move(p, e)
               \/ job' = Conflict(p, e, refs[job[p].to][e.ref])
        BY <3>4 DEF Decide
      <4>2. CASE job' = Done(p, e)
        BY <1>t, <2>1, <4>2 DEF Done, Job
      <4>3. CASE job' = Move(p, e)
        BY <1>t, <2>1, <4>3 DEF Move, Job
      <4>4. CASE job' = Conflict(p, e, refs[job[p].to][e.ref])
        BY <1>t, <2>1, <4>4 DEF Conflict, Job
      <4>5. QED
        BY <4>1, <4>2, <4>3, <4>4
    <3>5. CASE SetRef(p)
      BY <1>t, <2>1, <3>5 DEF SetRef, Job
    <3>6. CASE EndSync(p) \/ SyncFails(p)
      BY <1>t, <3>6 DEF EndSync, SyncFails
    <3>7. QED
      BY <1>5, <3>1, <3>2, <3>3, <3>4, <3>5, <3>6
  <2>4. QED
    BY <2>1, <2>2, <2>3 DEF SoleInv, SoleWriters, Committing
<1>6. ASSUME UNCHANGED vars
      PROVE  SoleWriters'
  BY <1>6 DEF vars, SoleInv, SoleWriters, Committing
<1>7. QED
  BY <1>2, <1>3, <1>4, <1>5, <1>6 DEF Next, SoleInv

\* A run's own steps lose no ref.
LEMMA OwnStepAccounts ==
    ASSUME ClosedInv, AllAccounted, NEW p \in Syncer, job'[p] # None,
           Diff(p) \/ Copy(p) \/ ListRefs(p) \/ Decide(p) \/ SetRef(p)
              \/ EndSync(p) \/ SyncFails(p)
    PROVE  Accounted(job'[p], refs'[job'[p].from], refs'[job'[p].to])
<1> DEFINE from == job[p].from
           to   == job[p].to
<1>1. Running(p) /\ job[p] \in Job /\ job \in [Syncer -> Job \cup {None}]
  BY RunTyped DEF ClosedInv, Typed, Diff, Copy, ListRefs, Decide, SetRef,
                  EndSync, SyncFails, In
<1>2. /\ from \in Store /\ to \in Store /\ from # to
      /\ refs \in [Store -> [Ref -> Chain \cup {None}]]
  BY <1>1, RunFields DEF ClosedInv, Typed, SourcesStill
<1>3. Accounted(job[p], refs[from], refs[to])
  BY <1>1 DEF AllAccounted
<1>4. CASE Diff(p) \/ Copy(p)
  <2>1. job'[p].phase = "copy"
    BY <1>1, <1>4 DEF Diff, Copy, In, Job
  <2>2. QED
    BY <2>1 DEF Accounted
<1>5. CASE ListRefs(p)
  <2>1. /\ job'[p].phase = "refs" /\ job'[p].pending = RefsOf(from)
        /\ job'[p].from = from /\ job'[p].to = to /\ refs' = refs
    BY <1>1, <1>5 DEF ListRefs, Job
  <2>2. \A r \in Ref : refs[from][r] # None =>
          EntryOf(r, refs[from][r]) \in RefsOf(from)
    BY DEF RefsOf
  <2>3. QED
    BY <2>1, <2>2 DEF Accounted
<1>6. CASE Decide(p)
  <2>1. PICK e \in job[p].pending :
           LET held == refs[to][e.ref]
           IN  \/ job' = Move(p, e)
               \/ held = e.chain /\ job' = Done(p, e)
               \/ job' = Conflict(p, e, held)
    BY <1>6 DEF Decide
  <2>2. refs' = refs /\ job[p].phase = "refs"
    BY <1>6 DEF Decide, In
  <2>3. e.chain = refs[from][e.ref]
    BY <1>1 DEF ClosedInv, RunsSound, RunSound
  <2>4. e \in Entry
    BY <1>1, RunFields
  <2>5. \A r \in Ref : EntryOf(r, refs[from][r]) = e => e.ref = r
    BY DEF EntryOf
  <2>6. CASE job' = Move(p, e)
    <3>1. /\ job'[p].phase = "set" /\ job'[p].pending = job[p].pending \ {e}
          /\ job'[p].target = e /\ job'[p].conflicted = job[p].conflicted
          /\ job'[p].from = from /\ job'[p].to = to
      BY <1>1, <2>6 DEF Move, Job
    <3>2. QED
      BY <1>3, <2>2, <3>1 DEF Accounted
  <2>7. CASE refs[to][e.ref] = e.chain /\ job' = Done(p, e)
    <3>1. /\ job'[p].phase = "refs" /\ job'[p].pending = job[p].pending \ {e}
          /\ job'[p].conflicted = job[p].conflicted
          /\ job'[p].from = from /\ job'[p].to = to
      BY <1>1, <2>2, <2>7 DEF Done, Job
    <3>2. QED
      BY <1>3, <2>2, <2>3, <2>5, <2>7, <3>1 DEF Accounted
  <2>8. CASE job' = Conflict(p, e, refs[to][e.ref])
    <3> DEFINE found == <<e.ref, refs[to][e.ref], e.chain>>
    <3>1. found[1] = e.ref
      OBVIOUS
    <3>2. job' = [job EXCEPT ![p].pending = @ \ {e}, ![p].conflicted = @ \cup {found}]
      BY <2>8 DEF Conflict
    <3> HIDE DEF found
    <3>3. /\ job'[p].phase = "refs" /\ job'[p].pending = job[p].pending \ {e}
          /\ job'[p].conflicted = job[p].conflicted \cup {found}
          /\ job'[p].from = from /\ job'[p].to = to
      BY <1>1, <2>2, <3>2 DEF Job
    <3>4. QED
      BY <1>3, <2>2, <2>5, <3>1, <3>3 DEF Accounted
  <2>9. QED
    BY <2>1, <2>6, <2>7, <2>8
<1>7. CASE SetRef(p)
  <2> DEFINE e == job[p].target
  <2>1. /\ job'[p].phase = "refs" /\ job'[p].pending = job[p].pending
        /\ job'[p].conflicted = job[p].conflicted
        /\ job'[p].from = from /\ job'[p].to = to
        /\ job[p].phase = "set"
        /\ refs' = [refs EXCEPT ![to][e.ref] = e.chain]
    BY <1>1, <1>7 DEF SetRef, In, Job
  <2>2. e.ref \in Ref
    BY <1>1, <2>1, RunEntries DEF ClosedInv
  <2>3. e.chain = refs[from][e.ref]
    BY <1>1, <2>1 DEF ClosedInv, RunsSound, RunSound
  <2>4. \A r \in Ref : e = EntryOf(r, refs[from][r]) => e.ref = r
    BY DEF EntryOf
  <2> HIDE DEF e
  <2>5. /\ refs'[from] = refs[from]
        /\ refs'[to][e.ref] = e.chain
        /\ \A r \in Ref : r # e.ref => refs'[to][r] = refs[to][r]
    BY <1>2, <2>1, <2>2
  <2>6. QED
    BY <1>3, <2>1, <2>3, <2>4, <2>5, SMTT(30) DEF Accounted, e
<1>8. CASE EndSync(p) \/ SyncFails(p)
  BY <1>1, <1>8 DEF EndSync, SyncFails
<1>9. QED
  BY <1>4, <1>5, <1>6, <1>7, <1>8

\* The steps of devices and of other runs leave a run, and the refs at both
\* its ends, as they are.
LEMMA OthersLeaveRefs ==
    ASSUME ClosedInv, SoleInv, [Next]_vars, NEW p \in Syncer, job'[p] # None
    PROVE  \/ Accounted(job'[p], refs'[job'[p].from], refs'[job'[p].to])
           \/ /\ Running(p) /\ job'[p] = job[p]
              /\ refs'[job[p].from] = refs[job[p].from]
              /\ refs'[job[p].to] = refs[job[p].to]
           \/ Diff(p) \/ Copy(p) \/ ListRefs(p) \/ Decide(p) \/ SetRef(p)
           \/ EndSync(p) \/ SyncFails(p)
<1> USE DEF Running
<1>t. /\ job \in [Syncer -> Job \cup {None}]
      /\ refs \in [Store -> [Ref -> Chain \cup {None}]]
  BY DEF ClosedInv, Typed
<1>1. CASE job' = job /\ refs' = refs
  BY <1>1
<1>2. ASSUME NEW s \in Store, NEW k \in Committer, FinishCommit(s, k) \/ CommitCrash(s, k)
      PROVE  /\ job' = job
             /\ refs'[job[p].from] = refs[job[p].from]
             /\ refs'[job[p].to] = refs[job[p].to]
  <2>1. job' = job /\ Committing(s)
    BY <1>2 DEF FinishCommit, CommitCrash, Committing
  <2>2. \A x \in Store : x # s => refs'[x] = refs[x]
    BY <1>2, <1>t DEF FinishCommit, CommitCrash
  <2>3. ~ Committing(job[p].from) /\ ~ Committing(job[p].to)
    BY <2>1 DEF ClosedInv, SourcesStill, SoleInv, SoleWriters
  <2>4. job[p].from \in Store /\ job[p].to \in Store
    BY <2>1, RunEntries DEF SoleInv
  <2>5. QED
    BY <2>1, <2>2, <2>3, <2>4
<1>3. ASSUME NEW q \in Syncer, NEW from \in Store, NEW to \in Store,
             StartSync(q, from, to)
      PROVE  \/ Accounted(job'[p], refs'[job'[p].from], refs'[job'[p].to])
             \/ job'[p] = job[p] /\ refs' = refs
  BY <1>3, <1>t DEF StartSync, Accounted
<1>4. ASSUME NEW q \in Syncer, q # p,
             \/ Diff(q) \/ Copy(q) \/ ListRefs(q) \/ Decide(q) \/ SetRef(q)
             \/ EndSync(q) \/ SyncFails(q)
      PROVE  /\ Running(p) /\ job'[p] = job[p]
             /\ refs'[job[p].from] = refs[job[p].from]
             /\ refs'[job[p].to] = refs[job[p].to]
  <2>1. Running(q)
    BY <1>4 DEF Diff, Copy, ListRefs, Decide, SetRef, EndSync, SyncFails, In
  <2>2. job'[p] = job[p]
    BY <1>4, <1>t DEF Diff, Copy, ListRefs, Decide, Done, Move, Conflict, SetRef,
                     EndSync, SyncFails
  <2>3. \A x \in Store : x # job[q].to => refs'[x] = refs[x]
    BY <1>4, <1>t DEF Diff, Copy, ListRefs, Decide, SetRef, EndSync, SyncFails
  <2>4. job[q].to # job[p].from /\ job[q].to # job[p].to
    BY <1>4, <2>1, <2>2 DEF ClosedInv, SourcesStill, SoleInv, SoleWriters
  <2>5. job[p].from \in Store /\ job[p].to \in Store
    BY <2>2, RunEntries DEF SoleInv
  <2>6. QED
    BY <2>2, <2>3, <2>4, <2>5
<1>5. QED
  BY <1>1, <1>2, <1>3, <1>4 DEF Next, vars, StartCommit, PutCommit, Gc

\* While both ends of a run are left alone, a run that succeeds has left at the
\* destination all that the source's refs reach, and each of its refs that it
\* did not report in conflict.
THEOREM SyncSuccessDelivers ==
    ASSUME QuietSource = TRUE, QuietDest = TRUE
    PROVE  Spec => SyncDelivers
<1>1. Spec => []ClosedInv
  BY ClosedInvariant
<1>2. Init => AllAccounted
  BY DEF Init, AllAccounted, Running
<1>3. ClosedInv /\ SoleInv /\ AllAccounted /\ [Next]_vars => AllAccounted'
  <2> SUFFICES ASSUME ClosedInv, SoleInv, AllAccounted, [Next]_vars,
                      NEW p \in Syncer, job'[p] # None
               PROVE  Accounted(job'[p], refs'[job'[p].from], refs'[job'[p].to])
    BY DEF AllAccounted, Running
  <2>1. CASE /\ Running(p) /\ job'[p] = job[p]
             /\ refs'[job[p].from] = refs[job[p].from]
             /\ refs'[job[p].to] = refs[job[p].to]
    BY <2>1 DEF AllAccounted
  <2>2. QED
    BY <2>1, OthersLeaveRefs, OwnStepAccounts
<1>4. SoleInv /\ [Next]_vars => SoleInv'
  BY SoleStep
<1>5. ClosedInv /\ AllAccounted /\ [Next]_vars =>
        [\A p \in Syncer : EndSync(p) =>
            LET from == job[p].from
                to   == job[p].to
            IN  /\ Reachable(from) \subseteq objects[to]
                /\ \A r \in Ref : refs[from][r] # None =>
                      \/ refs[to][r] = refs[from][r]
                      \/ \E c \in job[p].conflicted : c[1] = r]_vars
  <2> SUFFICES ASSUME ClosedInv, AllAccounted, NEW p \in Syncer, EndSync(p)
               PROVE  /\ Reachable(job[p].from) \subseteq objects[job[p].to]
                      /\ \A r \in Ref : refs[job[p].from][r] # None =>
                            \/ refs[job[p].to][r] = refs[job[p].from][r]
                            \/ \E c \in job[p].conflicted : c[1] = r
    OBVIOUS
  <2>1. Running(p) /\ job[p].phase = "refs" /\ job[p].pending = {}
    BY DEF EndSync, In
  <2>2. job[p].from \in Store
    BY <2>1, RunEntries DEF ClosedInv
  <2>3. Held(refs[job[p].from], objects[job[p].to])
    BY <2>1 DEF ClosedInv, RunsSound, RunSound, Delivered
  <2>4. Accounted(job[p], refs[job[p].from], refs[job[p].to])
    BY <2>1 DEF AllAccounted
  <2>5. QED
    BY <2>1, <2>2, <2>3, <2>4, ReachableHeld DEF Accounted
<1>6. Init => SoleInv
  BY InitRefinesMesh DEF MeshInv, SoleInv
<1>7. QED
  BY <1>1, <1>2, <1>3, <1>4, <1>5, <1>6, PTL DEF Spec, SyncDelivers

=============================================================================
