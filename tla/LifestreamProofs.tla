-------------------------- MODULE LifestreamProofs --------------------------
(***************************************************************************)
(* Proofs about LifestreamStore, for any contents, writers, collectors,    *)
(* faults and length of history: its types, that every record is whole;    *)
(* while gc runs only when nothing else does, that HEAD can always be      *)
(* restored and a gc leaves just what HEAD needs; and with one writer and  *)
(* no torn refs, that what was committed is kept.                          *)
(***************************************************************************)
EXTENDS LifestreamStore, SequenceTheorems, TLAPS

\* TypeOK, with every job, and a todo list that lasts until the ref's turn.
Typed ==
    /\ objects \subseteq Object /\ torn \subseteq objects
    /\ filled \subseteq temps
    /\ head \in Generation \cup {None}
    /\ job \in [Process -> Snapshotting \cup Collecting \cup {None}]
    /\ landed \subseteq Generation /\ acked \subseteq Generation
    /\ \A p \in Process : Doing(p, "snapshot") =>
          (job[p].phase \in {"ref", "refwrite", "answer"} <=> job[p].todo = << >>)

Elements(s) == {s[i] : i \in DOMAIN s}

-----------------------------------------------------------------------------
(* What a generation is made of.                                           *)

LEMMA ElementsAppend ==
    ASSUME NEW S, NEW s \in Seq(S), NEW x \in S
    PROVE  Elements(Append(s, x)) = Elements(s) \cup {x}
<1>1. /\ Append(s, x) \in Seq(S) /\ Len(Append(s, x)) = Len(s) + 1
      /\ \A i \in 1 .. Len(s) : Append(s, x)[i] = s[i]
      /\ Append(s, x)[Len(s) + 1] = x
      /\ Len(s) \in Nat
  BY AppendProperties
<1>2. DOMAIN Append(s, x) = 1 .. (Len(s) + 1) /\ DOMAIN s = 1 .. Len(s)
  BY <1>1
<1>3. 1 .. (Len(s) + 1) = 1 .. Len(s) \cup {Len(s) + 1}
  BY <1>1
<1>4. QED
  BY <1>1, <1>2, <1>3 DEF Elements

LEMMA ElementsTail ==
    ASSUME NEW S, NEW s \in Seq(S), s # << >>
    PROVE  /\ Head(s) \in S /\ Tail(s) \in Seq(S)
           /\ Elements(s) = {Head(s)} \cup Elements(Tail(s))
<1>1. /\ Head(s) \in S /\ Tail(s) \in Seq(S) /\ Len(Tail(s)) = Len(s) - 1
      /\ \A i \in 1 .. Len(Tail(s)) : Tail(s)[i] = s[i + 1]
      /\ Head(s) = s[1]
      /\ Len(s) \in Nat /\ Len(s) >= 1
  BY HeadTailProperties, EmptySeq
<1>2. DOMAIN s = 1 .. Len(s) /\ DOMAIN Tail(s) = 1 .. (Len(s) - 1)
  BY <1>1
<1>3. \A i \in 1 .. Len(s) : i = 1 \/ (i - 1) \in 1 .. (Len(s) - 1)
  BY <1>1
<1>4. \A i \in 1 .. (Len(s) - 1) : i + 1 \in 1 .. Len(s) /\ (i + 1) - 1 = i
  BY <1>1
<1>5. Elements(s) \subseteq {Head(s)} \cup Elements(Tail(s))
  <2> SUFFICES ASSUME NEW i \in 1 .. Len(s)
               PROVE  s[i] \in {Head(s)} \cup Elements(Tail(s))
    BY <1>2 DEF Elements
  <2>1. CASE i = 1
    BY <1>1, <2>1
  <2>2. CASE (i - 1) \in 1 .. (Len(s) - 1)
    <3>1. Tail(s)[i - 1] = s[i]
      BY <1>1, <2>2
    <3>2. QED
      BY <1>2, <2>2, <3>1 DEF Elements
  <2>3. QED
    BY <1>3, <2>1, <2>2
<1>6. {Head(s)} \cup Elements(Tail(s)) \subseteq Elements(s)
  BY <1>1, <1>2, <1>4 DEF Elements
<1>7. QED
  BY <1>1, <1>5, <1>6

\* A history is the beginnings of a generation.
LEMMA HistoryPrefixes ==
    ASSUME NEW g \in Seq(Tree)
    PROVE  History(g) = {SubSeq(g, 1, k) : k \in 1 .. Len(g)}
<1>1. Len(g) \in Nat
  OBVIOUS
<1>2. \A back \in 0 .. (Len(g) - 1) : Len(g) - back \in 1 .. Len(g)
  BY <1>1
<1>3. \A k \in 1 .. Len(g) : /\ Len(g) - k \in 0 .. (Len(g) - 1)
                            /\ Len(g) - (Len(g) - k) = k
  BY <1>1
<1>4. QED
  BY <1>2, <1>3 DEF History, Ancestor

\* What a history is made of.
LEMMA BeginningTyped ==
    ASSUME NEW g \in Seq(Tree), NEW k \in 1 .. Len(g)
    PROVE  /\ SubSeq(g, 1, k) \in Generation
           /\ Len(SubSeq(g, 1, k)) = k
           /\ Root(SubSeq(g, 1, k)) = g[k]
           /\ \A i \in 1 .. k : SubSeq(SubSeq(g, 1, k), 1, i) = SubSeq(g, 1, i)
<1>1. Len(g) \in Nat /\ k \in 1 .. Len(g)
  OBVIOUS
<1>2. /\ SubSeq(g, 1, k) \in Seq(Tree) /\ Len(SubSeq(g, 1, k)) = k
      /\ \A i \in 1 .. k : SubSeq(g, 1, k)[i] = g[i]
  BY <1>1
<1>3. SubSeq(g, 1, k) # << >>
  BY <1>1, <1>2
<1>4. \A i \in 1 .. k : SubSeq(SubSeq(g, 1, k), 1, i) = SubSeq(g, 1, i)
  <2> TAKE i \in 1 .. k
  <2> DEFINE h == SubSeq(g, 1, k)
  <2> HIDE DEF h
  <2>1. /\ SubSeq(h, 1, i) \in Seq(Tree) /\ Len(SubSeq(h, 1, i)) = i
        /\ \A j \in 1 .. i : SubSeq(h, 1, i)[j] = h[j]
    BY <1>1, <1>2 DEF h
  <2>2. /\ SubSeq(g, 1, i) \in Seq(Tree) /\ Len(SubSeq(g, 1, i)) = i
        /\ \A j \in 1 .. i : SubSeq(g, 1, i)[j] = g[j]
    BY <1>1
  <2>3. \A j \in 1 .. i : h[j] = g[j]
    BY <1>1, <1>2 DEF h
  <2>4. SubSeq(h, 1, i) = SubSeq(g, 1, i)
    BY <2>1, <2>2, <2>3, SeqEqual
  <2>5. QED
    BY <2>4 DEF h
<1>5. QED
  BY <1>1, <1>2, <1>3, <1>4 DEF Generation, Root

\* What a generation needs, of its beginnings.
LEMMA ReachPrefixes ==
    ASSUME NEW g \in Seq(Tree)
    PROVE  Reach(g) = History(g) \cup {g[k] : k \in 1 .. Len(g)}
                          \cup UNION {Blobs(g[k]) : k \in 1 .. Len(g)}
<1>1. \A k \in 1 .. Len(g) : Root(SubSeq(g, 1, k)) = g[k]
  BY BeginningTyped
<1>2. History(g) = {SubSeq(g, 1, k) : k \in 1 .. Len(g)}
  BY HistoryPrefixes
<1>3. {Root(h) : h \in History(g)} = {g[k] : k \in 1 .. Len(g)}
  BY <1>1, <1>2
<1>4. {Blobs(Root(h)) : h \in History(g)} = {Blobs(g[k]) : k \in 1 .. Len(g)}
  BY <1>1, <1>2
<1>5. QED
  BY <1>3, <1>4 DEF Reach

\* A snapshot needs what its parent did, its blobs, its tree and itself.
LEMMA ReachSnapshot ==
    ASSUME NEW past \in Seq(Tree), NEW t \in Tree
    PROVE  /\ Append(past, t) \in Generation
           /\ Reach(Append(past, t)) =
                Reach(past) \cup {Append(past, t), t} \cup Blobs(t)
           /\ History(Append(past, t)) = History(past) \cup {Append(past, t)}
<1> DEFINE g == Append(past, t)
<1>1. /\ g \in Seq(Tree) /\ g # << >> /\ Len(g) = Len(past) + 1
      /\ \A k \in 1 .. Len(past) : g[k] = past[k]
      /\ g[Len(past) + 1] = t
      /\ Len(past) \in Nat
  BY AppendProperties
<1>2. \A k \in 1 .. Len(past) : SubSeq(g, 1, k) = SubSeq(past, 1, k)
  <2> TAKE k \in 1 .. Len(past)
  <2> HIDE DEF g
  <2>1. /\ SubSeq(g, 1, k) \in Seq(Tree) /\ Len(SubSeq(g, 1, k)) = k
        /\ \A j \in 1 .. k : SubSeq(g, 1, k)[j] = g[j]
    BY <1>1
  <2>2. /\ SubSeq(past, 1, k) \in Seq(Tree) /\ Len(SubSeq(past, 1, k)) = k
        /\ \A j \in 1 .. k : SubSeq(past, 1, k)[j] = past[j]
    BY <1>1
  <2>3. QED
    BY <1>1, <2>1, <2>2, SeqEqual
<1>3. SubSeq(g, 1, Len(past) + 1) = g
  BY <1>1, SubSeqFull
<1>4. 1 .. Len(g) = 1 .. Len(past) \cup {Len(past) + 1}
  BY <1>1
<1> HIDE DEF g
<1>5. History(g) = History(past) \cup {g}
  <2>1. /\ History(g) = {SubSeq(g, 1, k) : k \in 1 .. Len(g)}
        /\ History(past) = {SubSeq(past, 1, k) : k \in 1 .. Len(past)}
    BY <1>1, HistoryPrefixes
  <2>2. QED
    BY <1>2, <1>3, <1>4, <2>1
<1>6. {g[k] : k \in 1 .. Len(g)} = {past[k] : k \in 1 .. Len(past)} \cup {t}
  BY <1>1, <1>4
<1>7. UNION {Blobs(g[k]) : k \in 1 .. Len(g)}
        = Blobs(t) \cup UNION {Blobs(past[k]) : k \in 1 .. Len(past)}
  <2>1. \A k \in 1 .. Len(past) : Blobs(g[k]) = Blobs(past[k])
    BY <1>1
  <2>2. Blobs(g[Len(past) + 1]) = Blobs(t)
    BY <1>1
  <2>3. QED
    BY <1>4, <2>1, <2>2
<1>8. Reach(g) = Reach(past) \cup {g, t} \cup Blobs(t)
  <2>1. /\ Reach(g) = History(g) \cup {g[k] : k \in 1 .. Len(g)}
                        \cup UNION {Blobs(g[k]) : k \in 1 .. Len(g)}
        /\ Reach(past) = History(past) \cup {past[k] : k \in 1 .. Len(past)}
                        \cup UNION {Blobs(past[k]) : k \in 1 .. Len(past)}
    BY <1>1, ReachPrefixes
  <2>2. QED
    BY <1>5, <1>6, <1>7, <2>1
<1>9. QED
  BY <1>1, <1>5, <1>8 DEF g, Generation

LEMMA ReachNothing == Reach(<< >>) = {} /\ History(<< >>) = {}
<1>1. History(<< >>) = {}
  BY DEF History
<1>2. QED
  BY <1>1 DEF Reach

\* The mark finds objects only.
LEMMA MarkedTyped ==
    ASSUME NEW g \in Generation
    PROVE  Marked(g) \subseteq Object
<1>1. g \in Seq(Tree)
  BY DEF Generation
<1>2. /\ \A k \in 1 .. Len(g) : SubSeq(g, 1, k) \in Generation
      /\ \A k \in 1 .. Len(g) : Root(SubSeq(g, 1, k)) \in Tree
  BY <1>1, BeginningTyped
<1>3. History(g) = {SubSeq(g, 1, k) : k \in 1 .. Len(g)}
  BY <1>1, HistoryPrefixes
<1>4. History(g) \subseteq Generation /\ \A h \in History(g) : Root(h) \in Tree
  BY <1>2, <1>3
<1>5. \A tree \in Tree : Blobs(tree) \subseteq Blob
  BY LifestreamAssumption DEF Blobs
<1>6. QED
  BY <1>4, <1>5 DEF Marked, Object

\* The mark follows every link of a generation that can be read in full.
LEMMA MarkedAll ==
    ASSUME NEW g \in Generation, Reach(g) \subseteq objects \ torn
    PROVE  Reach(g) \subseteq Marked(g)
<1>1. g \in Seq(Tree)
  BY DEF Generation
<1>2. History(g) \subseteq objects \ torn
  BY DEF Reach
<1>3. \A h \in History(g) : \A i \in (Len(h) + 1) .. Len(g) :
         SubSeq(g, 1, i) \in objects \ torn
  <2> TAKE h \in History(g)
  <2>1. Len(h) \in Nat
    BY <1>1, HistoryPrefixes, BeginningTyped
  <2>2. \A i \in (Len(h) + 1) .. Len(g) : SubSeq(g, 1, i) \in History(g)
    <3>1. \A i \in (Len(h) + 1) .. Len(g) : i \in 1 .. Len(g)
      BY <1>1, <2>1
    <3>2. QED
      BY <1>1, <3>1, HistoryPrefixes
  <2>3. QED
    BY <1>2, <2>2
<1>4. {Root(h) : h \in History(g)} \subseteq objects \ torn
  BY DEF Reach
<1>5. QED
  BY <1>2, <1>3, <1>4 DEF Marked, Reach

-----------------------------------------------------------------------------
(* Types.                                                                  *)

\* The parts of a snapshot, and the object it puts next.
LEMMA SnapshotFields ==
    ASSUME Typed, NEW p \in Process, Doing(p, "snapshot")
    PROVE  /\ job[p] \in Snapshotting
           /\ job[p].gen \in Generation /\ job[p].todo \in Seq(Object)
           /\ job[p].phase \in Phase
           /\ job[p].phase \in {"ref", "refwrite", "answer"} <=> job[p].todo = << >>
           /\ job[p].todo # << >> =>
                 /\ Head(job[p].todo) \in Object /\ Tail(job[p].todo) \in Seq(Object)
                 /\ Elements(job[p].todo) =
                      {Head(job[p].todo)} \cup Elements(Tail(job[p].todo))
<1>1. job[p] \in Snapshotting
  BY DEF Typed, Doing, Idle, Collecting
<1>2. job[p].gen \in Generation /\ job[p].todo \in Seq(Object) /\ job[p].phase \in Phase
  BY <1>1 DEF Snapshotting
<1>3. QED
  BY <1>1, <1>2, ElementsTail DEF Typed

LEMMA GcFields ==
    ASSUME Typed, NEW p \in Process, Doing(p, "gc")
    PROVE  job[p] \in Collecting
BY DEF Typed, Doing, Idle, Snapshotting

\* What a snapshot is going to put.
LEMMA TodoTyped ==
    ASSUME NEW t \in Tree, NEW gen \in Generation
    PROVE  LET todo == Append(Append(Content[t], t), gen)
           IN  /\ todo \in Seq(Object) /\ todo # << >>
               /\ Elements(todo) = Blobs(t) \cup {t, gen}
<1>1. Content[t] \in Seq(Object)
  <2>1. Content[t] \in Seq(Blob) /\ Blob \subseteq Object
    BY LifestreamAssumption DEF Object
  <2>2. QED
    BY <2>1, SeqMonotonic
<1>2. t \in Object /\ gen \in Object
  BY DEF Object
<1> DEFINE c == Content[t]
<1>3. Elements(c) = Blobs(t)
  BY DEF Elements, Blobs
<1> HIDE DEF c
<1>4. /\ Append(c, t) \in Seq(Object)
      /\ Elements(Append(c, t)) = Elements(c) \cup {t}
  BY <1>1, <1>2, AppendProperties, ElementsAppend DEF c
<1> DEFINE d == Append(c, t)
<1>5. d \in Seq(Object)
  BY <1>4
<1> HIDE DEF d
<1>6. /\ Append(d, gen) \in Seq(Object) /\ Append(d, gen) # << >>
      /\ Elements(Append(d, gen)) = Elements(d) \cup {gen}
  BY <1>2, <1>5, AppendProperties, ElementsAppend
<1>7. QED
  BY <1>3, <1>4, <1>6 DEF d, c

\* A job changes and the rest of the types is seen to.
LEMMA JobTyped ==
    ASSUME Typed, NEW p \in Process,
           NEW run \in Snapshotting \cup Collecting \cup {None},
           job' = [job EXCEPT ![p] = run],
           run # None /\ run.kind = "snapshot" =>
              (run.phase \in {"ref", "refwrite", "answer"} <=> run.todo = << >>)
    PROVE  /\ job' \in [Process -> Snapshotting \cup Collecting \cup {None}]
           /\ \A q \in Process : Doing(q, "snapshot")' =>
                 (job'[q].phase \in {"ref", "refwrite", "answer"} <=> job'[q].todo = << >>)
BY DEF Typed, Doing, Idle

\* The snapshot after Advance: one object fewer to put.
LEMMA AdvanceTyped ==
    ASSUME Typed, NEW p \in Process, Doing(p, "snapshot"), job[p].todo # << >>,
           Advance(p)
    PROVE  \E run \in Snapshotting :
              /\ job' = [job EXCEPT ![p] = run]
              /\ run.gen = job[p].gen /\ run.todo = Tail(job[p].todo)
              /\ run.phase \in {"check", "ref"}
              /\ run.phase = "ref" <=> run.todo = << >>
<1> DEFINE rest == Tail(job[p].todo)
           next == IF rest = << >> THEN "ref" ELSE "check"
           run  == [job[p] EXCEPT !.todo = rest, !.phase = next]
<1>1. job[p] \in Snapshotting /\ rest \in Seq(Object)
  BY SnapshotFields
<1>2. job' = [job EXCEPT ![p] = run]
  BY DEF Advance
<1>3. next \in {"check", "ref"} /\ (next = "ref" <=> rest = << >>)
  OBVIOUS
<1> HIDE DEF rest, next
<1>4. run \in Snapshotting
  BY <1>1, <1>3 DEF Snapshotting, Phase
<1>5. run.gen = job[p].gen /\ run.todo = rest /\ run.phase = next
  BY <1>1 DEF Snapshotting
<1>6. QED
  BY <1>2, <1>3, <1>4, <1>5 DEF rest

\* A snapshot goes on to another phase.
MovesTo(p, phase) == job' = [job EXCEPT ![p].phase = phase]

LEMMA PhaseTyped ==
    ASSUME Typed, NEW p \in Process, Doing(p, "snapshot"), NEW phase \in Phase,
           MovesTo(p, phase)
    PROVE  \E run \in Snapshotting :
              /\ job' = [job EXCEPT ![p] = run]
              /\ run.gen = job[p].gen /\ run.todo = job[p].todo
              /\ run.phase = phase
<1> DEFINE run == [job[p] EXCEPT !.phase = phase]
<1>1. job[p] \in Snapshotting
  BY SnapshotFields
<1>2. /\ run \in Snapshotting
      /\ run.gen = job[p].gen /\ run.todo = job[p].todo /\ run.phase = phase
  BY <1>1 DEF Snapshotting
<1>3. job' = [job EXCEPT ![p] = run]
  BY DEF MovesTo
<1>4. QED
  BY <1>2, <1>3

\* What a snapshot starts with.
LEMMA SnapshotStarts ==
    ASSUME Typed, NEW p \in Process, NEW t \in Tree, Snapshot(p, t)
    PROVE  \E past \in Seq(Tree), run \in Snapshotting :
              /\ past = IF head = None THEN << >> ELSE head
              /\ job' = [job EXCEPT ![p] = run]
              /\ run.gen = Append(past, t)
              /\ run.phase = "check" /\ run.todo # << >>
              /\ Elements(run.todo) = Blobs(t) \cup {t, run.gen}
<1> DEFINE past == IF head = None THEN << >> ELSE head
           gen  == Append(past, t)
           todo == Append(Append(Content[t], t), gen)
           run  == [kind |-> "snapshot", gen |-> gen, todo |-> todo, phase |-> "check"]
<1>1. past \in Seq(Tree)
  BY DEF Typed, Generation
<1>2. job' = [job EXCEPT ![p] = run]
  BY DEF Snapshot
<1> HIDE DEF past
<1>3. gen \in Generation
  BY <1>1, ReachSnapshot
<1>4. /\ todo \in Seq(Object) /\ todo # << >>
      /\ Elements(todo) = Blobs(t) \cup {t, gen}
  BY <1>3, TodoTyped
<1> HIDE DEF gen, todo
<1>5. run \in Snapshotting
  BY <1>3, <1>4 DEF Snapshotting, Phase
<1>6. run.gen = gen /\ run.phase = "check" /\ run.todo = todo
  OBVIOUS
<1> HIDE DEF run
<1>7. QED
  BY <1>1, <1>2, <1>4, <1>5, <1>6 DEF gen, past

\* A step of gc leaves a gc.
LEMMA GcTyped ==
    ASSUME Typed, NEW p \in Process, GcMark(p) \/ GcList(p) \/ GcDelete(p)
    PROVE  \E run \in Collecting : job' = [job EXCEPT ![p] = run]
<1>1. CASE GcMark(p)
  <2> DEFINE live == IF head = None THEN {} ELSE Marked(head)
             run == [kind |-> "gc", live |-> live, listed |-> FALSE, doomed |-> {}]
  <2>1. live \subseteq Object
    BY MarkedTyped DEF Typed
  <2>2. job' = [job EXCEPT ![p] = run]
    BY <1>1 DEF GcMark
  <2> HIDE DEF live
  <2>3. run \in Collecting
    BY <2>1 DEF Collecting
  <2>4. QED
    BY <2>2, <2>3
<1>2. CASE GcList(p)
  <2> DEFINE run == [job[p] EXCEPT !.listed = TRUE, !.doomed = objects \ job[p].live]
  <2>1. job[p] \in Collecting
    BY <1>2, GcFields DEF GcList
  <2>2. run \in Collecting
    BY <2>1 DEF Collecting, Typed
  <2>3. job' = [job EXCEPT ![p] = run]
    BY <1>2 DEF GcList
  <2>4. QED
    BY <2>2, <2>3
<1>3. CASE GcDelete(p)
  <2>1. PICK id : job' = [job EXCEPT ![p].doomed = @ \ {id}]
    BY <1>3 DEF GcDelete
  <2> DEFINE run == [job[p] EXCEPT !.doomed = @ \ {id}]
  <2>2. job[p] \in Collecting
    BY <1>3, GcFields DEF GcDelete
  <2>3. run \in Collecting
    BY <2>2 DEF Collecting
  <2>4. job' = [job EXCEPT ![p] = run]
    BY <2>1
  <2>5. QED
    BY <2>3, <2>4
<1>4. QED
  BY <1>1, <1>2, <1>3

\* A step changes no type.
LEMMA TypedStep ==
    ASSUME Typed, [Next]_vars, None \notin Snapshotting \cup Collecting
    PROVE  Typed'
<1> DEFINE Rest ==
      /\ objects \subseteq Object /\ torn \subseteq objects
      /\ filled \subseteq temps
      /\ head \in Generation \cup {None}
      /\ landed \subseteq Generation /\ acked \subseteq Generation
<1>a. Rest
  BY DEF Typed
<1>b. \A q \in Process : \A run \in Snapshotting : run.kind = "snapshot"
  BY DEF Snapshotting
<1>c. \A run \in Collecting : run.kind = "gc"
  BY DEF Collecting
<1>1. ASSUME NEW p \in Process, NEW t \in Tree, Snapshot(p, t)
      PROVE  Typed'
  <2>1. PICK run \in Snapshotting :
           /\ job' = [job EXCEPT ![p] = run]
           /\ run.phase = "check" /\ run.todo # << >>
    BY <1>1, SnapshotStarts
  <2>2. UNCHANGED <<objects, torn, temps, filled, head, hist>>
    BY <1>1 DEF Snapshot
  <2>3. QED
    BY <1>a, <2>1, <2>2, JobTyped DEF Typed, hist
<1>2. ASSUME NEW p \in Process, PutCheck(p)
      PROVE  Typed'
  <2>1. /\ Doing(p, "snapshot") /\ job[p].phase = "check"
        /\ UNCHANGED <<objects, torn, temps, filled, head, hist>>
        /\ Advance(p) \/ job' = [job EXCEPT ![p].phase = "create"]
    BY <1>2 DEF PutCheck, At
  <2>2. job[p].todo # << >>
    BY <2>1, SnapshotFields
  <2>3. PICK run \in Snapshotting :
           /\ job' = [job EXCEPT ![p] = run]
           /\ run.phase \in {"ref", "refwrite", "answer"} <=> run.todo = << >>
    <3>1. CASE Advance(p)
      BY <2>1, <2>2, <3>1, AdvanceTyped
    <3>2. CASE job' = [job EXCEPT ![p].phase = "create"]
      <4>1. MovesTo(p, "create") /\ "create" \in Phase
        BY <3>2 DEF MovesTo, Phase
      <4>2. QED
        BY <2>1, <2>2, <4>1, PhaseTyped
    <3>3. QED
      BY <2>1, <3>1, <3>2
  <2>4. QED
    BY <1>a, <2>1, <2>3, JobTyped DEF Typed, hist
<1>3. ASSUME NEW p \in Process, CreateTemp(p) \/ FillTemp(p)
      PROVE  Typed'
  <2>1. PICK phase \in Phase \ {"ref", "refwrite", "answer"} :
           /\ Doing(p, "snapshot") /\ job[p].phase \in {"create", "fill"}
           /\ MovesTo(p, phase)
           /\ UNCHANGED <<objects, torn, head, hist>>
           /\ filled' \subseteq temps'
    BY <1>a, <1>3 DEF CreateTemp, FillTemp, At, Phase, TempName, MovesTo
  <2>2. PICK run \in Snapshotting :
           /\ job' = [job EXCEPT ![p] = run]
           /\ run.phase \in {"ref", "refwrite", "answer"} <=> run.todo = << >>
    BY <2>1, SnapshotFields, PhaseTyped
  <2>3. QED
    BY <1>a, <2>1, <2>2, JobTyped DEF Typed, hist
<1>4. ASSUME NEW p \in Process, Rename(p)
      PROVE  Typed'
  <2>1. /\ Doing(p, "snapshot") /\ job[p].phase = "rename"
        /\ UNCHANGED <<head, hist>>
    BY <1>4 DEF Rename, At
  <2>2. job[p].todo # << >> /\ Head(job[p].todo) \in Object
    BY <2>1, SnapshotFields
  <2>3. PICK run \in Snapshotting \cup Collecting \cup {None} :
           /\ job' = [job EXCEPT ![p] = run]
           /\ run # None => (run.phase \in {"ref", "refwrite", "answer"} <=> run.todo = << >>)
    <3>1. CASE Advance(p)
      BY <2>1, <2>2, <3>1, AdvanceTyped
    <3>2. CASE job' = [job EXCEPT ![p] = None]
      BY <3>2
    <3>3. QED
      BY <1>4, <3>1, <3>2 DEF Rename
  <2>4. objects' \subseteq Object /\ torn' \subseteq objects' /\ filled' \subseteq temps'
    BY <1>a, <1>4, <2>2 DEF Rename
  <2>5. QED
    BY <1>a, <2>1, <2>3, <2>4, JobTyped DEF Typed, hist
<1>5. ASSUME NEW p \in Process, StartSetRef(p)
      PROVE  Typed'
  <2>1. /\ Doing(p, "snapshot") /\ job[p].phase = "ref"
        /\ MovesTo(p, "refwrite") /\ "refwrite" \in Phase
        /\ head' = None
        /\ UNCHANGED <<objects, torn, temps, filled, hist>>
    BY <1>5 DEF StartSetRef, At, MovesTo, Phase
  <2>2. PICK run \in Snapshotting :
           /\ job' = [job EXCEPT ![p] = run]
           /\ run.phase \in {"ref", "refwrite", "answer"} <=> run.todo = << >>
    BY <2>1, SnapshotFields, PhaseTyped
  <2>3. QED
    BY <1>a, <2>1, <2>2, JobTyped DEF Typed, hist
<1>6. ASSUME NEW p \in Process, FinishSetRef(p)
      PROVE  Typed'
  <2>1. /\ Doing(p, "snapshot") /\ job[p].phase = "refwrite"
        /\ MovesTo(p, "answer") /\ "answer" \in Phase
        /\ head' = job[p].gen /\ landed' = landed \cup {job[p].gen}
        /\ UNCHANGED <<objects, torn, temps, filled, acked>>
    BY <1>6 DEF FinishSetRef, At, MovesTo, Phase
  <2>2. job[p].gen \in Generation
    BY <2>1, SnapshotFields
  <2>3. PICK run \in Snapshotting :
           /\ job' = [job EXCEPT ![p] = run]
           /\ run.phase \in {"ref", "refwrite", "answer"} <=> run.todo = << >>
    BY <2>1, SnapshotFields, PhaseTyped
  <2>4. QED
    BY <1>a, <2>1, <2>2, <2>3, JobTyped DEF Typed, hist
<1>e. ASSUME NEW p \in Process, AnswerCommit(p)
      PROVE  Typed'
  <2>1. /\ Doing(p, "snapshot") /\ job' = [job EXCEPT ![p] = None]
        /\ acked' = acked \cup {job[p].gen}
        /\ UNCHANGED <<objects, torn, temps, filled, head, landed>>
    BY <1>e DEF AnswerCommit, At
  <2>2. job[p].gen \in Generation
    BY <2>1, SnapshotFields
  <2>3. QED
    BY <1>a, <2>1, <2>2, JobTyped DEF Typed, hist
<1>7. ASSUME NEW p \in Process,
             PutFails(p) \/ SetRefFails(p) \/ GcEnd(p) \/ Crash(p)
      PROVE  Typed'
  <2>1. /\ job' = [job EXCEPT ![p] = None]
        /\ UNCHANGED <<objects, torn, head, hist>>
        /\ filled' \subseteq temps'
    BY <1>a, <1>7 DEF PutFails, SetRefFails, GcEnd, Crash
  <2>2. QED
    BY <1>a, <2>1, JobTyped DEF Typed, hist
<1>8. ASSUME NEW p \in Process, GcMark(p) \/ GcList(p) \/ GcDelete(p)
      PROVE  Typed'
  <2>1. PICK run \in Collecting : job' = [job EXCEPT ![p] = run]
    BY <1>8, GcTyped
  <2>2. /\ UNCHANGED <<temps, filled, head, hist>>
        /\ objects' \subseteq Object /\ torn' \subseteq objects'
    BY <1>8, <1>a DEF GcMark, GcList, GcDelete
  <2>3. QED
    BY <1>a, <1>c, <2>1, <2>2, JobTyped DEF Typed, hist
<1>9. CASE UNCHANGED vars
  BY <1>9 DEF Typed, vars, hist, Doing, Idle
<1>10. QED
  BY <1>1, <1>2, <1>3, <1>4, <1>5, <1>6, <1>e, <1>7, <1>8, <1>9 DEF Next

\* The stores keep their types through every step of snapshots and gc,
\* whatever fails.
THEOREM LifestreamTypeCorrect == Spec => []TypeOK
<1>1. None \notin Snapshotting \cup Collecting
  BY LifestreamAssumption
<1>2. Init => Typed
  BY DEF Init, Typed, Doing, Idle
<1>3. Typed /\ [Next]_vars => Typed'
  BY <1>1, TypedStep
<1>4. Typed => TypeOK
  BY DEF Typed, TypeOK
<1>5. QED
  BY <1>2, <1>3, <1>4, PTL DEF Spec

-----------------------------------------------------------------------------
(* Records are whole.                                                      *)

\* What is about to be renamed has been written to its end.
WholeFiles ==
    /\ torn = {}
    /\ \A p \in Process : At(p, "rename") /\ p \in temps => p \in filled

\* Only the job of the process that steps changes.
LEMMA OneJob ==
    ASSUME Typed, NEW p \in Process, NEW run, job' = [job EXCEPT ![p] = run]
    PROVE  /\ job'[p] = run
           /\ \A q \in Process : q # p => job'[q] = job[q]
BY DEF Typed

LEMMA WholeStep ==
    ASSUME Typed, WholeFiles, [Next]_vars
    PROVE  WholeFiles'
<1>r. \A q \in Process :
        /\ At(q, "rename") <=> /\ job[q] # None /\ job[q].kind = "snapshot"
                              /\ job[q].phase = "rename"
        /\ At(q, "rename")' <=> /\ job'[q] # None /\ job'[q].kind = "snapshot"
                               /\ job'[q].phase = "rename"
  BY DEF At, Doing, Idle
<1>1. ASSUME NEW p \in Process, NEW t \in Tree, Snapshot(p, t)
      PROVE  WholeFiles'
  <2>1. PICK run \in Snapshotting :
           job' = [job EXCEPT ![p] = run] /\ run.phase = "check"
    BY <1>1, SnapshotStarts
  <2>2. /\ job'[p].phase = "check"
        /\ \A q \in Process : q # p => job'[q] = job[q]
        /\ UNCHANGED <<torn, temps, filled>>
    BY <1>1, <2>1, OneJob DEF Snapshot
  <2>3. QED
    BY <1>r, <2>2 DEF WholeFiles
<1>2. ASSUME NEW p \in Process, PutCheck(p)
      PROVE  WholeFiles'
  <2>1. /\ Doing(p, "snapshot") /\ job[p].phase = "check"
        /\ UNCHANGED <<torn, temps, filled>>
        /\ Advance(p) \/ MovesTo(p, "create")
    BY <1>2 DEF PutCheck, At, MovesTo
  <2>2. PICK run \in Snapshotting :
           job' = [job EXCEPT ![p] = run] /\ run.phase # "rename"
    <3>1. CASE Advance(p)
      BY <2>1, <3>1, SnapshotFields, AdvanceTyped
    <3>2. CASE MovesTo(p, "create")
      BY <2>1, <3>2, PhaseTyped DEF Phase
    <3>3. QED
      BY <2>1, <3>1, <3>2
  <2>3. QED
    BY <1>r, <2>1, <2>2, OneJob DEF WholeFiles
<1>3. ASSUME NEW p \in Process, CreateTemp(p)
      PROVE  WholeFiles'
  <2>1. /\ Doing(p, "snapshot") /\ MovesTo(p, "fill")
        /\ temps' = temps \cup {p} /\ filled' = filled \ {p} /\ torn' = torn
    BY <1>3 DEF CreateTemp, At, MovesTo, TempName
  <2>2. PICK run \in Snapshotting :
           job' = [job EXCEPT ![p] = run] /\ run.phase = "fill"
    BY <2>1, PhaseTyped DEF Phase
  <2>3. /\ job'[p].phase = "fill"
        /\ \A q \in Process : q # p => job'[q] = job[q]
    BY <2>2, OneJob
  <2>4. QED
    BY <1>r, <2>1, <2>3 DEF WholeFiles
<1>4. ASSUME NEW p \in Process, FillTemp(p)
      PROVE  WholeFiles'
  <2>1. /\ Doing(p, "snapshot") /\ MovesTo(p, "rename")
        /\ temps' = temps /\ filled' = filled \cup (temps \cap {p}) /\ torn' = torn
    BY <1>4 DEF FillTemp, At, MovesTo, TempName
  <2>2. PICK run \in Snapshotting : job' = [job EXCEPT ![p] = run]
    BY <2>1, PhaseTyped DEF Phase
  <2>3. QED
    BY <1>r, <2>1, <2>2, OneJob DEF WholeFiles
<1>5. ASSUME NEW p \in Process, Rename(p)
      PROVE  WholeFiles'
  <2>1. /\ Doing(p, "snapshot") /\ job[p].phase = "rename" /\ At(p, "rename")
        /\ Advance(p) \/ job' = [job EXCEPT ![p] = None]
        /\ temps' \subseteq temps /\ filled \ {p} \subseteq filled'
    BY <1>5 DEF Rename, At, TempName
  <2>2. torn' = {}
    BY <1>5, <2>1 DEF WholeFiles, Rename, TempName
  <2>3. PICK run :
           job' = [job EXCEPT ![p] = run] /\ (run # None => run.phase # "rename")
    <3>1. CASE Advance(p)
      BY <2>1, <3>1, SnapshotFields, AdvanceTyped
    <3>2. CASE job' = [job EXCEPT ![p] = None]
      BY <3>2
    <3>3. QED
      BY <2>1, <3>1, <3>2
  <2>4. /\ job'[p] # None => job'[p].phase # "rename"
        /\ \A q \in Process : q # p => job'[q] = job[q]
    BY <2>3, OneJob
  <2>5. QED
    BY <1>r, <2>1, <2>2, <2>4 DEF WholeFiles
<1>6. ASSUME NEW p \in Process,
             PutFails(p) \/ SetRefFails(p) \/ AnswerCommit(p) \/ GcEnd(p) \/ Crash(p)
      PROVE  WholeFiles'
  <2>1. /\ job' = [job EXCEPT ![p] = None] /\ torn' = torn
        /\ temps' \subseteq temps /\ filled \ {p} \subseteq filled'
    BY <1>6 DEF PutFails, SetRefFails, AnswerCommit, GcEnd, Crash, TempName
  <2>2. QED
    BY <1>r, <2>1, OneJob, ZenonT(30) DEF WholeFiles
<1>7. ASSUME NEW p \in Process, StartSetRef(p) \/ FinishSetRef(p)
      PROVE  WholeFiles'
  <2>1. /\ Doing(p, "snapshot")
        /\ MovesTo(p, "refwrite") \/ MovesTo(p, "answer")
        /\ UNCHANGED <<torn, temps, filled>>
    BY <1>7 DEF StartSetRef, FinishSetRef, At, MovesTo
  <2>2. PICK run \in Snapshotting :
           job' = [job EXCEPT ![p] = run] /\ run.phase # "rename"
    BY <2>1, PhaseTyped DEF Phase
  <2>3. QED
    BY <1>r, <2>1, <2>2, OneJob DEF WholeFiles
<1>8. ASSUME NEW p \in Process, GcMark(p) \/ GcList(p) \/ GcDelete(p)
      PROVE  WholeFiles'
  <2>1. PICK run : job' = [job EXCEPT ![p] = run] /\ run.kind = "gc"
    BY <1>8, GcTyped DEF Collecting
  <2>2. torn' \subseteq torn /\ UNCHANGED <<temps, filled>>
    BY <1>8 DEF GcMark, GcList, GcDelete
  <2>3. job'[p].kind = "gc"
    BY <2>1, OneJob
  <2>4. \A q \in Process : q # p => job'[q] = job[q]
    BY <2>1, OneJob
  <2>5. QED
    BY <1>r, <2>2, <2>3, <2>4 DEF WholeFiles
<1>9. CASE UNCHANGED vars
  BY <1>9 DEF WholeFiles, vars, At, Doing, Idle
<1>10. QED
  BY <1>1, <1>2, <1>3, <1>4, <1>5, <1>6, <1>7, <1>8, <1>9 DEF Next

\* Every object file is a whole record, for any number of writers of the same
\* object, wherever one of them fails or dies, and whatever gc deletes.
THEOREM RecordsWhole == Spec => []ObjectsWhole
<1>1. None \notin Snapshotting \cup Collecting
  BY LifestreamAssumption
<1>2. Init => Typed /\ WholeFiles
  BY DEF Init, Typed, WholeFiles, At, Doing, Idle
<1>3. Typed /\ WholeFiles /\ [Next]_vars => Typed' /\ WholeFiles'
  BY <1>1, TypedStep, WholeStep
<1>4. WholeFiles => ObjectsWhole
  BY DEF WholeFiles, ObjectsWhole
<1>5. QED
  BY <1>2, <1>3, <1>4, PTL DEF Spec

-----------------------------------------------------------------------------
(* HEAD can be restored, while gc runs only when nothing else does.        *)

\* HEAD has its objects; so will every generation on its way to be HEAD, once
\* its todo list is empty; a gc has the store to itself, and spares what HEAD
\* needs.
Restorable ==
    /\ head # None => Reach(head) \subseteq objects
    /\ \A p \in Process : Doing(p, "snapshot") =>
          Reach(job[p].gen) \subseteq objects \cup Elements(job[p].todo)
    /\ \A p, q \in Process : Doing(p, "gc") /\ q # p => Idle(q)
    /\ \A p \in Process : Doing(p, "gc") =>
          /\ head # None => Reach(head) \subseteq job[p].live
          /\ job[p].doomed \cap job[p].live = {}

NoGc == \A p \in Process : ~ Doing(p, "gc")

\* A snapshot goes on: objects are added, and HEAD stays, goes or moves to a
\* generation whose objects are there.
LEMMA SnapshotRestorable ==
    ASSUME Typed, Restorable, NoGc, NEW p \in Process, NEW run \in Snapshotting,
           job' = [job EXCEPT ![p] = run],
           objects \subseteq objects',
           Reach(run.gen) \subseteq objects' \cup Elements(run.todo),
           head' = head \/ head' = None \/ Reach(head') \subseteq objects'
    PROVE  Restorable'
<1>1. job'[p] = run /\ \A q \in Process : q # p => job'[q] = job[q]
  BY OneJob
<1>2. run.kind = "snapshot"
  BY DEF Snapshotting
<1>3. \A q \in Process : ~ Doing(q, "gc")'
  BY <1>1, <1>2 DEF NoGc, Doing, Idle
<1>4. head' # None => Reach(head') \subseteq objects'
  BY DEF Restorable
<1>5. ASSUME NEW q \in Process, Doing(q, "snapshot")'
      PROVE  Reach(job'[q].gen) \subseteq objects' \cup Elements(job'[q].todo)
  <2>1. CASE q = p
    BY <1>1, <2>1
  <2>2. CASE q # p
    <3>1. job'[q] = job[q]
      BY <1>1, <2>2
    <3>2. Doing(q, "snapshot")
      BY <1>5, <3>1 DEF Doing, Idle
    <3>3. Reach(job[q].gen) \subseteq objects \cup Elements(job[q].todo)
      BY <3>2 DEF Restorable
    <3>4. QED
      BY <3>1, <3>3
  <2>3. QED
    BY <2>1, <2>2
<1>6. QED
  BY <1>3, <1>4, <1>5 DEF Restorable

\* A process ends what it did.
LEMMA EndRestorable ==
    ASSUME Typed, Restorable, NEW p \in Process,
           job' = [job EXCEPT ![p] = None],
           objects' = objects,
           head' = head
    PROVE  Restorable'
<1>1. job'[p] = None /\ \A q \in Process : q # p => job'[q] = job[q]
  BY OneJob
<1>2. \A q \in Process, kind \in {"snapshot", "gc"} : Doing(q, kind)' =>
         Doing(q, kind) /\ job'[q] = job[q]
  BY <1>1 DEF Doing, Idle
<1>3. \A q \in Process : Idle(q) => Idle(q)'
  BY <1>1 DEF Idle
<1>4. head' # None => Reach(head') \subseteq objects'
  BY DEF Restorable
<1>5. \A q \in Process : Doing(q, "snapshot")' =>
         Reach(job'[q].gen) \subseteq objects' \cup Elements(job'[q].todo)
  <2>1. \A q \in Process : Doing(q, "snapshot") =>
           Reach(job[q].gen) \subseteq objects \cup Elements(job[q].todo)
    BY DEF Restorable
  <2>2. QED
    BY <1>2, <2>1
<1>6. \A q, r \in Process : Doing(q, "gc")' /\ r # q => Idle(r)'
  BY <1>2, <1>3 DEF Restorable
<1>7. \A q \in Process : Doing(q, "gc")' =>
         /\ head' # None => Reach(head') \subseteq job'[q].live
         /\ job'[q].doomed \cap job'[q].live = {}
  BY <1>2 DEF Restorable
<1>8. QED
  BY <1>4, <1>5, <1>6, <1>7 DEF Restorable

\* A gc goes on: it is alone, and keeps what HEAD needs.
LEMMA GcRestorable ==
    ASSUME Typed, NEW p \in Process, NEW run \in Collecting,
           job' = [job EXCEPT ![p] = run],
           \A q \in Process : q # p => Idle(q),
           head' = head,
           head # None => Reach(head) \subseteq objects' /\ Reach(head) \subseteq run.live,
           run.doomed \cap run.live = {}
    PROVE  Restorable'
<1>1. job'[p] = run /\ \A q \in Process : q # p => job'[q] = None
  BY OneJob DEF Idle
<1>2. run.kind = "gc"
  BY DEF Collecting
<1>3. \A q \in Process : ~ Doing(q, "snapshot")' /\ (q # p => Idle(q)' /\ ~ Doing(q, "gc")')
  BY <1>1, <1>2 DEF Doing, Idle
<1>4. QED
  BY <1>1, <1>3 DEF Restorable

LEMMA RestorableStep ==
    ASSUME GcAlone = TRUE, Typed, torn = {}, Restorable, [Next]_vars
    PROVE  Restorable'
<1>a. \A p \in Process : Doing(p, "snapshot") => NoGc
  BY DEF Restorable, NoGc, Doing, Idle
<1>1. ASSUME NEW p \in Process, NEW t \in Tree, Snapshot(p, t)
      PROVE  Restorable'
  <2>1. /\ NoGc /\ UNCHANGED <<objects, head>>
    BY <1>1 DEF Snapshot, Quiet, NoGc
  <2>2. PICK past \in Seq(Tree), run \in Snapshotting :
           /\ past = IF head = None THEN << >> ELSE head
           /\ job' = [job EXCEPT ![p] = run]
           /\ run.gen = Append(past, t)
           /\ run.phase = "check" /\ run.todo # << >>
           /\ Elements(run.todo) = Blobs(t) \cup {t, run.gen}
    BY <1>1, SnapshotStarts
  <2>3. Reach(past) \subseteq objects
    BY <2>2, ReachNothing DEF Restorable
  <2>4. Reach(run.gen) = Reach(past) \cup {run.gen, t} \cup Blobs(t)
    BY <2>2, ReachSnapshot
  <2>5. Reach(run.gen) \subseteq objects' \cup Elements(run.todo)
    BY <2>1, <2>2, <2>3, <2>4
  <2>6. QED
    BY <2>1, <2>2, <2>5, SnapshotRestorable
<1>2. ASSUME NEW p \in Process, PutCheck(p) \/ Rename(p), Advance(p)
      PROVE  Restorable'
  <2>1. /\ Doing(p, "snapshot") /\ job[p].phase \in {"check", "rename"}
        /\ head' = head
    BY <1>2 DEF PutCheck, Rename, At
  <2>2. job[p].todo # << >>
    BY <2>1, SnapshotFields
  <2>3. PICK run \in Snapshotting :
           /\ job' = [job EXCEPT ![p] = run]
           /\ run.gen = job[p].gen /\ run.todo = Tail(job[p].todo)
    BY <1>2, <2>1, <2>2, AdvanceTyped
  <2>4. /\ objects \subseteq objects'
        /\ Head(job[p].todo) \in objects'
    <3>1. CASE PutCheck(p)
      <4>1. job' # [job EXCEPT ![p].phase = "create"]
        <5>1. SUFFICES ASSUME MovesTo(p, "create") PROVE FALSE
          BY DEF MovesTo
        <5>2. PICK other \in Snapshotting :
                 job' = [job EXCEPT ![p] = other] /\ other.phase = "create"
          BY <2>1, <5>1, PhaseTyped DEF Phase
        <5>3. PICK third \in Snapshotting :
                 job' = [job EXCEPT ![p] = third] /\ third.phase \in {"check", "ref"}
          BY <1>2, <2>1, <2>2, AdvanceTyped
        <5>4. job'[p] = other /\ job'[p] = third
          BY <5>2, <5>3, OneJob
        <5>5. QED
          BY <5>2, <5>3, <5>4
      <4>2. QED
        BY <3>1, <4>1 DEF PutCheck
    <3>2. CASE Rename(p)
      <4>1. job' # [job EXCEPT ![p] = None]
        <5>1. job'[p] = run
          BY <2>3, OneJob
        <5>2. run # None
          BY LifestreamAssumption
        <5>3. QED
          BY <5>1, <5>2, OneJob
      <4>2. QED
        BY <3>2, <4>1 DEF Rename
    <3>3. QED
      BY <1>2, <3>1, <3>2
  <2>5. Reach(run.gen) \subseteq objects' \cup Elements(run.todo)
    <3>1. Reach(job[p].gen) \subseteq objects \cup Elements(job[p].todo)
      BY <2>1 DEF Restorable
    <3>2. Elements(job[p].todo) = {Head(job[p].todo)} \cup Elements(Tail(job[p].todo))
      BY <2>1, <2>2, SnapshotFields
    <3>3. QED
      BY <2>3, <2>4, <3>1, <3>2
  <2>6. QED
    BY <1>a, <2>1, <2>3, <2>4, <2>5, SnapshotRestorable
<1>3. ASSUME NEW p \in Process, NEW phase \in Phase, Doing(p, "snapshot"),
             MovesTo(p, phase), objects' = objects, head' = head \/ head' = None
      PROVE  Restorable'
  <2>1. PICK run \in Snapshotting :
           /\ job' = [job EXCEPT ![p] = run]
           /\ run.gen = job[p].gen /\ run.todo = job[p].todo
    BY <1>3, PhaseTyped
  <2>2. Reach(run.gen) \subseteq objects' \cup Elements(run.todo)
    BY <1>3, <2>1 DEF Restorable
  <2>3. QED
    BY <1>3, <1>a, <2>1, <2>2, SnapshotRestorable
<1>4. ASSUME NEW p \in Process,
             PutFails(p) \/ SetRefFails(p) \/ AnswerCommit(p) \/ GcEnd(p)
               \/ Crash(p) \/ (Rename(p) /\ ~ Advance(p))
      PROVE  Restorable'
  <2>1. /\ job' = [job EXCEPT ![p] = None]
        /\ UNCHANGED <<objects, head>>
    BY <1>4 DEF PutFails, SetRefFails, AnswerCommit, GcEnd, Crash, Rename
  <2>2. QED
    BY <2>1, EndRestorable
<1>5. ASSUME NEW p \in Process, FinishSetRef(p)
      PROVE  Restorable'
  <2>1. /\ Doing(p, "snapshot") /\ job[p].phase = "refwrite"
        /\ MovesTo(p, "answer") /\ "answer" \in Phase
        /\ head' = job[p].gen /\ objects' = objects
    BY <1>5 DEF FinishSetRef, At, MovesTo, Phase
  <2>2. Elements(job[p].todo) = {}
    BY <2>1, SnapshotFields DEF Elements
  <2>3. Reach(job[p].gen) \subseteq objects
    BY <2>1, <2>2 DEF Restorable
  <2>4. PICK run \in Snapshotting :
           /\ job' = [job EXCEPT ![p] = run]
           /\ run.gen = job[p].gen /\ run.todo = job[p].todo
    BY <2>1, PhaseTyped
  <2>5. QED
    BY <1>a, <2>1, <2>3, <2>4, SnapshotRestorable
<1>6. ASSUME NEW p \in Process, GcMark(p)
      PROVE  Restorable'
  <2> DEFINE live == IF head = None THEN {} ELSE Marked(head)
             run == [kind |-> "gc", live |-> live, listed |-> FALSE, doomed |-> {}]
  <2>1. /\ job' = [job EXCEPT ![p] = run]
        /\ UNCHANGED <<objects, head>>
        /\ \A q \in Process : Idle(q)
    BY <1>6 DEF GcMark
  <2>2. head # None => Reach(head) \subseteq objects /\ Reach(head) \subseteq live
    <3>1. head # None => Reach(head) \subseteq Marked(head)
      BY MarkedAll DEF Typed, Restorable
    <3>2. QED
      BY <3>1 DEF Restorable
  <2>3. run \in Collecting
    <3>1. live \subseteq Object
      BY MarkedTyped DEF Typed
    <3>2. QED
      BY <3>1 DEF Collecting
  <2>4. run.live = live /\ run.doomed = {}
    OBVIOUS
  <2> HIDE DEF live, run
  <2>5. QED
    BY <2>1, <2>2, <2>3, <2>4, GcRestorable
<1>7. ASSUME NEW p \in Process, GcList(p) \/ GcDelete(p)
      PROVE  Restorable'
  <2>1. /\ Doing(p, "gc") /\ job[p] \in Collecting /\ head' = head
    BY <1>7, GcFields DEF GcList, GcDelete
  <2>2. /\ \A q \in Process : q # p => Idle(q)
        /\ head # None => Reach(head) \subseteq objects /\ Reach(head) \subseteq job[p].live
        /\ job[p].doomed \cap job[p].live = {}
    BY <2>1 DEF Restorable
  <2>3. CASE GcList(p)
    <3> DEFINE run == [job[p] EXCEPT !.listed = TRUE, !.doomed = objects \ job[p].live]
    <3>1. job' = [job EXCEPT ![p] = run] /\ objects' = objects
      BY <2>3 DEF GcList
    <3>2. /\ run \in Collecting /\ run.live = job[p].live
          /\ run.doomed = objects \ job[p].live
      BY <2>1 DEF Collecting, Typed
    <3> HIDE DEF run
    <3>3. run.doomed \cap run.live = {}
      BY <3>2
    <3>4. QED
      BY <2>1, <2>2, <3>1, <3>2, <3>3, GcRestorable
  <2>4. CASE GcDelete(p)
    <3>1. PICK id \in job[p].doomed :
             /\ objects' = objects \ {id}
             /\ job' = [job EXCEPT ![p].doomed = @ \ {id}]
      BY <2>4 DEF GcDelete
    <3> DEFINE run == [job[p] EXCEPT !.doomed = @ \ {id}]
    <3>2. job' = [job EXCEPT ![p] = run]
      BY <3>1
    <3>3. /\ run \in Collecting /\ run.live = job[p].live
          /\ run.doomed = job[p].doomed \ {id}
      BY <2>1 DEF Collecting
    <3> HIDE DEF run
    <3>4. run.doomed \cap run.live = {}
      BY <2>2, <3>3
    <3>5. head # None => Reach(head) \subseteq objects' /\ Reach(head) \subseteq run.live
      BY <2>2, <3>1, <3>3
    <3>6. QED
      BY <2>1, <2>2, <3>2, <3>3, <3>4, <3>5, GcRestorable
  <2>5. QED
    BY <1>7, <2>3, <2>4
<1>8. CASE UNCHANGED vars
  BY <1>8 DEF Restorable, vars, Doing, Idle
<1>9. ASSUME NEW p \in Process,
             PutCheck(p) \/ CreateTemp(p) \/ FillTemp(p) \/ StartSetRef(p)
      PROVE  Restorable'
  <2>1. /\ Doing(p, "snapshot") /\ objects' = objects
        /\ head' = head \/ head' = None
    BY <1>9 DEF PutCheck, CreateTemp, FillTemp, StartSetRef, At
  <2>2. \/ PutCheck(p) /\ Advance(p)
        \/ \E phase \in Phase : MovesTo(p, phase)
    BY <1>9 DEF PutCheck, CreateTemp, FillTemp, StartSetRef, MovesTo, Phase
  <2>3. QED
    BY <1>2, <1>3, <2>1, <2>2
<1>10. ASSUME NEW p \in Process, Rename(p)
       PROVE  Restorable'
  BY <1>2, <1>4, <1>10
<1>11. QED
  BY <1>1, <1>4, <1>5, <1>6, <1>7, <1>8, <1>9, <1>10 DEF Next

\* HEAD always names a generation that can be restored with its whole history:
\* a snapshot writes children first and the ref last, so no failure, crash or
\* other writer leaves HEAD ahead of its objects, and a gc that has the store
\* to itself spares them.
THEOREM HeadRestorable ==
    ASSUME GcAlone = TRUE
    PROVE  Spec => []HeadComplete
<1>1. None \notin Snapshotting \cup Collecting
  BY LifestreamAssumption
<1>2. Init => Typed /\ WholeFiles /\ Restorable
  BY DEF Init, Typed, WholeFiles, Restorable, At, Doing, Idle
<1>3. Typed /\ WholeFiles /\ Restorable /\ [Next]_vars => Typed' /\ WholeFiles' /\ Restorable'
  BY <1>1, TypedStep, WholeStep, RestorableStep DEF WholeFiles
<1>4. WholeFiles /\ Restorable => HeadComplete
  BY DEF WholeFiles, Restorable, HeadComplete
<1>5. QED
  BY <1>2, <1>3, <1>4, PTL DEF Spec

-----------------------------------------------------------------------------
(* What was committed is kept, by one writer whose ref writes are not torn. *)

OneWriter == \A p, q \in Writer : p = q
NoTornRef == "write_fails" \notin Faults /\ "crash_in_write" \notin Faults

\* HEAD's history is what it was moved to, and a snapshot is about to add its
\* generation to exactly that, or has.
HeadHasAll == ~ WritingRef => landed = IF head = None THEN {} ELSE History(head)
KeptSoFar ==
    /\ HeadHasAll
    /\ \A p \in Process : Doing(p, "snapshot") =>
          p \in Writer /\ landed \cup {job[p].gen} = History(job[p].gen)

\* A generation's ancestors need no more than it does.
LEMMA ReachHistory ==
    ASSUME NEW g \in Generation, NEW h \in History(g)
    PROVE  Reach(h) \subseteq Reach(g)
<1>1. g \in Seq(Tree)
  BY DEF Generation
<1>2. PICK k \in 1 .. Len(g) : h = SubSeq(g, 1, k)
  BY <1>1, HistoryPrefixes
<1>3. /\ h \in Seq(Tree) /\ Len(h) = k /\ Len(g) \in Nat
      /\ \A i \in 1 .. k : SubSeq(h, 1, i) = SubSeq(g, 1, i)
  BY <1>1, <1>2, BeginningTyped DEF Generation
<1>4. \A i \in 1 .. k : i \in 1 .. Len(g)
  BY <1>2, <1>3
<1>5. History(h) \subseteq History(g)
  <2>1. History(h) = {SubSeq(h, 1, i) : i \in 1 .. k}
    BY <1>3, HistoryPrefixes
  <2>2. History(g) = {SubSeq(g, 1, i) : i \in 1 .. Len(g)}
    BY <1>1, HistoryPrefixes
  <2>3. QED
    BY <1>3, <1>4, <2>1, <2>2
<1>6. QED
  BY <1>5 DEF Reach

\* The writer goes on.
LEMMA SnapshotKept ==
    ASSUME Typed, NEW p \in Writer, NEW run \in Snapshotting,
           job' = [job EXCEPT ![p] = run],
           \A q \in Process : q # p => ~ Doing(q, "snapshot"),
           landed' \cup {run.gen} = History(run.gen),
           run.phase = "refwrite" \/ landed' = IF head' = None THEN {} ELSE History(head'),
           None \notin Snapshotting
    PROVE  KeptSoFar'
<1>1. p \in Process
  BY DEF Process
<1>2. job'[p] = run /\ \A q \in Process : q # p => job'[q] = job[q]
  BY <1>1, OneJob
<1>3. run.kind = "snapshot" /\ run # None
  BY DEF Snapshotting
<1>4. \A q \in Process : q # p => ~ Doing(q, "snapshot")'
  BY <1>2 DEF Doing, Idle
<1>5. run.phase = "refwrite" => WritingRef'
  <2>1. run.phase = "refwrite" => At(p, "refwrite")'
    BY <1>2, <1>3 DEF At, Doing, Idle
  <2>2. QED
    BY <1>1, <2>1 DEF WritingRef
<1>6. HeadHasAll'
  BY <1>5 DEF HeadHasAll
<1>7. QED
  BY <1>2, <1>4, <1>6 DEF KeptSoFar

\* A process that is not writing the ref ends what it did, or a gc goes on.
LEMMA OtherKept ==
    ASSUME Typed, KeptSoFar, NEW p \in Process, NEW run,
           run = None \/ run \in Collecting,
           job' = [job EXCEPT ![p] = run],
           ~ At(p, "refwrite"),
           landed' = landed, head' = head
    PROVE  KeptSoFar'
<1>1. job'[p] = run /\ \A q \in Process : q # p => job'[q] = job[q]
  BY OneJob
<1>2. ~ Doing(p, "snapshot")'
  BY <1>1 DEF Collecting, Doing, Idle
<1>3. \A q \in Process : Doing(q, "snapshot")' =>
         Doing(q, "snapshot") /\ job'[q] = job[q]
  BY <1>1, <1>2 DEF Doing, Idle
<1>4. WritingRef => WritingRef'
  <2>1. \A q \in Process : At(q, "refwrite") => At(q, "refwrite")'
    BY <1>1 DEF At, Doing, Idle
  <2>2. QED
    BY <2>1 DEF WritingRef
<1>5. HeadHasAll'
  BY <1>4 DEF HeadHasAll, KeptSoFar
<1>6. QED
  BY <1>3, <1>5 DEF KeptSoFar

LEMMA KeptStep ==
    ASSUME OneWriter, NoTornRef, Typed, KeptSoFar, [Next]_vars, None \notin Snapshotting
    PROVE  KeptSoFar'
<1>a. \A p, q \in Process : p \in Writer /\ q # p => ~ Doing(q, "snapshot")
  BY DEF KeptSoFar, OneWriter
<1>b. \A p \in Process : Doing(p, "snapshot") =>
         p \in Writer /\ landed \cup {job[p].gen} = History(job[p].gen)
  BY DEF KeptSoFar
<1>c. \A p \in Process : p \in Writer /\ ~ At(p, "refwrite") =>
         landed = IF head = None THEN {} ELSE History(head)
  BY <1>a DEF KeptSoFar, HeadHasAll, WritingRef, At
<1>1. ASSUME NEW p \in Process, NEW t \in Tree, Snapshot(p, t)
      PROVE  KeptSoFar'
  <2>1. p \in Writer /\ ~ At(p, "refwrite") /\ UNCHANGED <<head, landed>>
    BY <1>1 DEF Snapshot, At, Doing, hist
  <2>2. PICK past \in Seq(Tree), run \in Snapshotting :
           /\ past = IF head = None THEN << >> ELSE head
           /\ job' = [job EXCEPT ![p] = run]
           /\ run.gen = Append(past, t)
           /\ run.phase = "check" /\ run.todo # << >>
           /\ Elements(run.todo) = Blobs(t) \cup {t, run.gen}
    BY <1>1, SnapshotStarts
  <2>3. landed = IF head = None THEN {} ELSE History(head)
    BY <1>c, <2>1
  <2>4. landed = History(past)
    BY <2>2, <2>3, ReachNothing
  <2>5. History(run.gen) = History(past) \cup {run.gen}
    BY <2>2, ReachSnapshot, ZenonT(30)
  <2>6. QED
    BY <1>a, <2>1, <2>2, <2>3, <2>4, <2>5, SnapshotKept
<1>2. ASSUME NEW p \in Process, NEW run \in Snapshotting,
             Doing(p, "snapshot"), job[p].phase # "refwrite",
             job' = [job EXCEPT ![p] = run], run.gen = job[p].gen,
             landed' = landed, run.phase = "refwrite" \/ head' = head
      PROVE  KeptSoFar'
  <2>1. p \in Writer /\ landed' \cup {run.gen} = History(run.gen)
    BY <1>2, <1>b
  <2>2. landed = IF head = None THEN {} ELSE History(head)
    BY <1>2, <1>c, <2>1 DEF At
  <2>3. run.phase = "refwrite" \/ landed' = IF head' = None THEN {} ELSE History(head')
    BY <1>2, <2>2
  <2>4. QED
    BY <1>2, <1>a, <2>1, <2>3, SnapshotKept
<1>3. ASSUME NEW p \in Process, PutCheck(p) \/ Rename(p), Advance(p)
      PROVE  KeptSoFar'
  <2>1. /\ Doing(p, "snapshot") /\ job[p].phase \in {"check", "rename"}
        /\ head' = head /\ landed' = landed
    BY <1>3 DEF PutCheck, Rename, At, hist
  <2>2. PICK run \in Snapshotting :
           job' = [job EXCEPT ![p] = run] /\ run.gen = job[p].gen
    BY <1>3, <2>1, SnapshotFields, AdvanceTyped
  <2>3. QED
    BY <1>2, <2>1, <2>2
<1>4. ASSUME NEW p \in Process, NEW phase \in Phase, Doing(p, "snapshot"),
             job[p].phase # "refwrite", MovesTo(p, phase), landed' = landed,
             phase = "refwrite" \/ head' = head
      PROVE  KeptSoFar'
  <2>1. PICK run \in Snapshotting :
           /\ job' = [job EXCEPT ![p] = run]
           /\ run.gen = job[p].gen /\ run.phase = phase
    BY <1>4, PhaseTyped
  <2>2. QED
    BY <1>2, <1>4, <2>1
<1>5. ASSUME NEW p \in Process,
             PutCheck(p) \/ CreateTemp(p) \/ FillTemp(p) \/ StartSetRef(p)
      PROVE  KeptSoFar'
  <2>1. /\ Doing(p, "snapshot") /\ job[p].phase # "refwrite" /\ landed' = landed
    BY <1>5 DEF PutCheck, CreateTemp, FillTemp, StartSetRef, At, hist
  <2>2. \/ PutCheck(p) /\ Advance(p)
        \/ \E phase \in Phase :
              MovesTo(p, phase) /\ (phase = "refwrite" \/ head' = head)
    BY <1>5 DEF PutCheck, CreateTemp, FillTemp, StartSetRef, MovesTo, Phase
  <2>3. QED
    BY <1>3, <1>4, <2>1, <2>2
<1>6. ASSUME NEW p \in Process,
             PutFails(p) \/ SetRefFails(p) \/ AnswerCommit(p) \/ GcEnd(p)
               \/ Crash(p) \/ (Rename(p) /\ ~ Advance(p))
      PROVE  KeptSoFar'
  <2>1. /\ job' = [job EXCEPT ![p] = None]
        /\ UNCHANGED <<head, landed>>
    BY <1>6 DEF PutFails, SetRefFails, AnswerCommit, GcEnd, Crash, Rename, hist
  <2>2. ~ At(p, "refwrite")
    BY <1>6 DEF NoTornRef, PutFails, SetRefFails, AnswerCommit, GcEnd, Crash,
                Rename, At, Doing
  <2>3. QED
    BY <2>1, <2>2, OtherKept
<1>7. ASSUME NEW p \in Process, FinishSetRef(p)
      PROVE  KeptSoFar'
  <2>1. /\ Doing(p, "snapshot") /\ MovesTo(p, "answer") /\ "answer" \in Phase
        /\ job[p].phase = "refwrite"
        /\ head' = job[p].gen /\ landed' = landed \cup {job[p].gen}
    BY <1>7 DEF FinishSetRef, At, MovesTo, Phase
  <2>2. p \in Writer /\ landed' = History(head')
    BY <1>b, <2>1
  <2>3. head' # None
    BY <2>1, SnapshotFields, LifestreamAssumption
  <2>4. PICK run \in Snapshotting :
           job' = [job EXCEPT ![p] = run] /\ run.gen = job[p].gen
    BY <2>1, PhaseTyped
  <2>5. landed' \cup {run.gen} = History(run.gen)
    BY <1>b, <2>1, <2>4
  <2>6. landed' = IF head' = None THEN {} ELSE History(head')
    BY <2>2, <2>3
  <2>7. QED
    BY <1>a, <2>2, <2>4, <2>5, <2>6, SnapshotKept
<1>8. ASSUME NEW p \in Process, GcMark(p) \/ GcList(p) \/ GcDelete(p)
      PROVE  KeptSoFar'
  <2>1. /\ UNCHANGED <<head, landed>> /\ ~ Doing(p, "snapshot")
    BY <1>8 DEF GcMark, GcList, GcDelete, Doing, hist
  <2>2. PICK run \in Collecting : job' = [job EXCEPT ![p] = run]
    BY <1>8, GcTyped
  <2>3. QED
    BY <2>1, <2>2, OtherKept DEF At
<1>9. CASE UNCHANGED vars
  BY <1>9 DEF KeptSoFar, HeadHasAll, WritingRef, At, vars, hist, Doing, Idle
<1>10. ASSUME NEW p \in Process, Rename(p)
       PROVE  KeptSoFar'
  BY <1>3, <1>6, <1>10
<1>11. QED
  BY <1>1, <1>5, <1>6, <1>7, <1>8, <1>9, <1>10 DEF Next

\* What was answered, or is about to be, HEAD was moved to.
AnswersLanded ==
    /\ acked \subseteq landed
    /\ \A p \in Process : At(p, "answer") => job[p].gen \in landed

LEMMA AnswersStep ==
    ASSUME Typed, AnswersLanded, [Next]_vars, None \notin Snapshotting \cup Collecting
    PROVE  AnswersLanded'
<1>r. \A q \in Process :
        /\ At(q, "answer") <=> /\ job[q] # None /\ job[q].kind = "snapshot"
                              /\ job[q].phase = "answer"
        /\ At(q, "answer")' <=> /\ job'[q] # None /\ job'[q].kind = "snapshot"
                               /\ job'[q].phase = "answer"
  BY DEF At, Doing, Idle
<1>1. ASSUME NEW p \in Process, NEW run, job' = [job EXCEPT ![p] = run],
             \/ run = None \/ run.kind # "snapshot" \/ run.phase # "answer"
             \/ run.gen \in landed',
             landed \subseteq landed', acked' \subseteq landed'
      PROVE  AnswersLanded'
  <2>1. job'[p] = run /\ \A q \in Process : q # p => job'[q] = job[q]
    BY <1>1, OneJob
  <2>2. QED
    BY <1>r, <1>1, <2>1 DEF AnswersLanded
<1>2. ASSUME NEW p \in Process, NEW t \in Tree, Snapshot(p, t)
      PROVE  AnswersLanded'
  <2>1. PICK run \in Snapshotting : job' = [job EXCEPT ![p] = run] /\ run.phase = "check"
    BY <1>2, SnapshotStarts
  <2>2. QED
    BY <1>1, <1>2, <2>1 DEF Snapshot, hist, AnswersLanded
<1>3. ASSUME NEW p \in Process, Doing(p, "snapshot"), NEW phase \in Phase, phase # "answer",
             MovesTo(p, phase), UNCHANGED hist
      PROVE  AnswersLanded'
  <2>1. PICK run \in Snapshotting : job' = [job EXCEPT ![p] = run] /\ run.phase = phase
    BY <1>3, PhaseTyped
  <2>2. QED
    BY <1>1, <1>3, <2>1 DEF hist, AnswersLanded
<1>4. ASSUME NEW p \in Process, PutCheck(p) \/ Rename(p), Advance(p)
      PROVE  AnswersLanded'
  <2>1. /\ Doing(p, "snapshot") /\ job[p].phase \in {"check", "rename"} /\ UNCHANGED hist
    BY <1>4 DEF PutCheck, Rename, At
  <2>2. PICK run \in Snapshotting :
           job' = [job EXCEPT ![p] = run] /\ run.phase \in {"check", "ref"}
    BY <1>4, <2>1, SnapshotFields, AdvanceTyped
  <2>3. QED
    BY <1>1, <2>1, <2>2 DEF hist, AnswersLanded
<1>5. ASSUME NEW p \in Process,
             PutCheck(p) \/ CreateTemp(p) \/ FillTemp(p) \/ StartSetRef(p)
      PROVE  AnswersLanded'
  <2>1. /\ Doing(p, "snapshot") /\ UNCHANGED hist
        /\ \/ PutCheck(p) /\ Advance(p)
           \/ \E phase \in Phase \ {"answer"} : MovesTo(p, phase)
    BY <1>5 DEF PutCheck, CreateTemp, FillTemp, StartSetRef, At, MovesTo, Phase, hist
  <2>2. QED
    BY <1>3, <1>4, <2>1
<1>6. ASSUME NEW p \in Process,
             PutFails(p) \/ SetRefFails(p) \/ GcEnd(p) \/ Crash(p)
               \/ (Rename(p) /\ ~ Advance(p))
      PROVE  AnswersLanded'
  <2>1. job' = [job EXCEPT ![p] = None] /\ UNCHANGED hist
    BY <1>6 DEF PutFails, SetRefFails, GcEnd, Crash, Rename
  <2>2. QED
    BY <1>1, <2>1 DEF hist, AnswersLanded
<1>7. ASSUME NEW p \in Process, FinishSetRef(p)
      PROVE  AnswersLanded'
  <2>1. /\ Doing(p, "snapshot") /\ MovesTo(p, "answer") /\ "answer" \in Phase
        /\ landed' = landed \cup {job[p].gen} /\ acked' = acked
    BY <1>7 DEF FinishSetRef, At, MovesTo, Phase
  <2>2. PICK run \in Snapshotting : job' = [job EXCEPT ![p] = run] /\ run.gen = job[p].gen
    BY <2>1, PhaseTyped
  <2>3. QED
    BY <1>1, <2>1, <2>2 DEF AnswersLanded
<1>8. ASSUME NEW p \in Process, AnswerCommit(p)
      PROVE  AnswersLanded'
  <2>1. /\ At(p, "answer") /\ job' = [job EXCEPT ![p] = None]
        /\ acked' = acked \cup {job[p].gen} /\ landed' = landed
    BY <1>8 DEF AnswerCommit
  <2>2. QED
    BY <1>1, <2>1 DEF AnswersLanded
<1>9. ASSUME NEW p \in Process, GcMark(p) \/ GcList(p) \/ GcDelete(p)
      PROVE  AnswersLanded'
  <2>1. UNCHANGED hist
    BY <1>9 DEF GcMark, GcList, GcDelete
  <2>2. PICK run : job' = [job EXCEPT ![p] = run] /\ run.kind = "gc"
    BY <1>9, GcTyped DEF Collecting
  <2>3. QED
    BY <1>1, <2>1, <2>2 DEF hist, AnswersLanded
<1>10. CASE UNCHANGED vars
  BY <1>10 DEF AnswersLanded, At, vars, hist, Doing, Idle
<1>11. ASSUME NEW p \in Process, Rename(p)
       PROVE  AnswersLanded'
  BY <1>4, <1>6, <1>11
<1>12. QED
  BY <1>2, <1>5, <1>6, <1>7, <1>8, <1>9, <1>10, <1>11 DEF Next

\* With one writer and no torn ref write, HEAD's history is exactly the
\* generations it was ever moved to, all that was committed among them, whatever
\* puts fail and wherever the writer dies, before its answer included.
THEOREM HistoryIsKept ==
    ASSUME OneWriter, NoTornRef
    PROVE  Spec => []HistoryKept
<1>1. None \notin Snapshotting \cup Collecting
  BY LifestreamAssumption
<1>2. Init => Typed /\ KeptSoFar /\ AnswersLanded
  BY DEF Init, Typed, KeptSoFar, HeadHasAll, AnswersLanded, At, Doing, Idle
<1>3. Typed /\ KeptSoFar /\ AnswersLanded /\ [Next]_vars
      => Typed' /\ KeptSoFar' /\ AnswersLanded'
  BY <1>1, TypedStep, KeptStep, AnswersStep
<1>4. KeptSoFar /\ AnswersLanded => HistoryKept
  BY DEF KeptSoFar, HeadHasAll, AnswersLanded, HistoryKept
<1>5. QED
  BY <1>2, <1>3, <1>4, PTL DEF Spec

\* If gc has the store to itself besides, every generation HEAD was ever moved
\* to, and so every one ever committed, can be restored.
THEOREM CommitsAreKept ==
    ASSUME OneWriter, NoTornRef, GcAlone = TRUE
    PROVE  Spec => []CommitsKept
<1>1. None \notin Snapshotting \cup Collecting
  BY LifestreamAssumption
<1>2. Init => Typed /\ WholeFiles /\ Restorable /\ KeptSoFar /\ AnswersLanded
  BY DEF Init, Typed, WholeFiles, Restorable, KeptSoFar, HeadHasAll, AnswersLanded,
         At, Doing, Idle
<1>3. Typed /\ WholeFiles /\ Restorable /\ KeptSoFar /\ AnswersLanded /\ [Next]_vars
      => Typed' /\ WholeFiles' /\ Restorable' /\ KeptSoFar' /\ AnswersLanded'
  BY <1>1, TypedStep, WholeStep, RestorableStep, KeptStep, AnswersStep DEF WholeFiles
<1>4. ASSUME Typed, WholeFiles, Restorable, KeptSoFar, AnswersLanded
      PROVE  CommitsKept
  <2> SUFFICES ASSUME NEW g \in landed
               PROVE  Reach(g) \subseteq objects
    BY <1>4 DEF CommitsKept, WholeFiles, AnswersLanded
  <2>1. CASE WritingRef
    <3>1. PICK p \in Process : Doing(p, "snapshot") /\ job[p].phase = "refwrite"
      BY <2>1 DEF WritingRef, At
    <3>2. job[p].gen \in Generation /\ Elements(job[p].todo) = {}
      BY <1>4, <3>1, SnapshotFields DEF Elements
    <3>3. Reach(job[p].gen) \subseteq objects
      BY <1>4, <3>1, <3>2 DEF Restorable
    <3>4. g \in History(job[p].gen)
      BY <1>4, <3>1 DEF KeptSoFar
    <3>5. QED
      BY <3>2, <3>3, <3>4, ReachHistory
  <2>2. CASE ~ WritingRef
    <3>1. head # None /\ g \in History(head)
      BY <1>4, <2>2 DEF KeptSoFar, HeadHasAll
    <3>2. head \in Generation /\ Reach(head) \subseteq objects
      BY <1>4, <3>1 DEF Typed, Restorable
    <3>3. QED
      BY <3>1, <3>2, ReachHistory
  <2>3. QED
    BY <2>1, <2>2
<1>5. QED
  BY <1>2, <1>3, <1>4, PTL DEF Spec

-----------------------------------------------------------------------------
(* What a gc leaves.                                                       *)

\* What a gc marked is what HEAD reaches, and it has listed all the rest.
Sweeping ==
    \A p \in Process : Doing(p, "gc") =>
        /\ job[p].live = IF head = None THEN {} ELSE Reach(head)
        /\ job[p].listed => objects \subseteq job[p].live \cup job[p].doomed

\* The mark follows no link out of what the generation needs.
LEMMA MarkedOnly ==
    ASSUME NEW g
    PROVE  Marked(g) \subseteq Reach(g)
BY DEF Marked, Reach

LEMMA SweepingStep ==
    ASSUME GcAlone = TRUE, Typed, torn = {}, Restorable, Sweeping, [Next]_vars
    PROVE  Sweeping'
<1>1. ASSUME NEW p \in Process, GcMark(p)
      PROVE  Sweeping'
  <2> DEFINE live == IF head = None THEN {} ELSE Marked(head)
             run == [kind |-> "gc", live |-> live, listed |-> FALSE, doomed |-> {}]
  <2>1. /\ job' = [job EXCEPT ![p] = run] /\ head' = head
        /\ \A q \in Process : Idle(q)
    BY <1>1 DEF GcMark
  <2>2. live = IF head = None THEN {} ELSE Reach(head)
    <3>1. head # None => Reach(head) \subseteq Marked(head) /\ Marked(head) \subseteq Reach(head)
      BY MarkedAll, MarkedOnly DEF Typed, Restorable
    <3>2. head # None => Marked(head) = Reach(head)
      BY <3>1
    <3>3. QED
      BY <3>2
  <2>3. run.live = live /\ run.listed = FALSE
    OBVIOUS
  <2> HIDE DEF live, run
  <2>4. job'[p] = run /\ \A q \in Process : q # p => Idle(q)'
    BY <2>1, OneJob DEF Idle
  <2>5. QED
    BY <2>1, <2>2, <2>3, <2>4 DEF Sweeping, Doing
<1>2. ASSUME NEW p \in Process, GcList(p) \/ GcDelete(p)
      PROVE  Sweeping'
  <2>1. /\ Doing(p, "gc") /\ job[p] \in Collecting /\ head' = head
    BY <1>2, GcFields DEF GcList, GcDelete
  <2>2. /\ \A q \in Process : q # p => Idle(q)
        /\ job[p].live = IF head = None THEN {} ELSE Reach(head)
        /\ job[p].listed => objects \subseteq job[p].live \cup job[p].doomed
    BY <2>1 DEF Restorable, Sweeping
  <2>3. PICK run :
           /\ job' = [job EXCEPT ![p] = run]
           /\ run.live = job[p].live
           /\ objects' \subseteq run.live \cup run.doomed
    <3>1. CASE GcList(p)
      <4> DEFINE run == [job[p] EXCEPT !.listed = TRUE, !.doomed = objects \ job[p].live]
      <4>1. job' = [job EXCEPT ![p] = run] /\ objects' = objects
        BY <3>1 DEF GcList
      <4>2. run.live = job[p].live /\ run.doomed = objects \ job[p].live
        BY <2>1 DEF Collecting
      <4> HIDE DEF run
      <4>3. QED
        BY <4>1, <4>2
    <3>2. CASE GcDelete(p)
      <4>1. PICK id : /\ objects' = objects \ {id}
                      /\ job' = [job EXCEPT ![p].doomed = @ \ {id}]
        BY <3>2 DEF GcDelete
      <4>2. job[p].listed
        BY <3>2 DEF GcDelete
      <4> DEFINE run == [job[p] EXCEPT !.doomed = @ \ {id}]
      <4>3. job' = [job EXCEPT ![p] = run]
        BY <4>1
      <4>4. run.live = job[p].live /\ run.doomed = job[p].doomed \ {id}
        BY <2>1 DEF Collecting
      <4> HIDE DEF run
      <4>5. QED
        BY <2>2, <4>1, <4>2, <4>3, <4>4
    <3>3. QED
      BY <1>2, <3>1, <3>2
  <2>4. job'[p] = run /\ \A q \in Process : q # p => Idle(q)'
    BY <2>2, <2>3, OneJob DEF Idle
  <2>5. QED
    BY <2>1, <2>2, <2>3, <2>4 DEF Sweeping, Doing
<1>3. ASSUME NEW p \in Process, NEW run, job' = [job EXCEPT ![p] = run],
             run = None \/ run \in Snapshotting,
             \A q \in Process : q # p => ~ Doing(q, "gc")
      PROVE  Sweeping'
  <2>1. job'[p] = run /\ \A q \in Process : q # p => job'[q] = job[q]
    BY <1>3, OneJob
  <2>2. \A q \in Process : ~ Doing(q, "gc")'
    BY <1>3, <2>1 DEF Doing, Idle, Snapshotting
  <2>3. QED
    BY <2>2 DEF Sweeping
<1>4. ASSUME NEW p \in Process, NEW t \in Tree, Snapshot(p, t)
      PROVE  Sweeping'
  <2>1. \A q \in Process : ~ Doing(q, "gc")
    BY <1>4 DEF Snapshot, Quiet
  <2>2. PICK run \in Snapshotting : job' = [job EXCEPT ![p] = run]
    BY <1>4, SnapshotStarts
  <2>3. QED
    BY <1>3, <2>1, <2>2
<1>5. ASSUME NEW p \in Process, ~ Idle(p)
      PROVE  \A q \in Process : q # p => ~ Doing(q, "gc")
  BY <1>5 DEF Restorable
<1>6. ASSUME NEW p \in Process,
             \/ PutFails(p) \/ SetRefFails(p) \/ AnswerCommit(p)
             \/ GcEnd(p) \/ Crash(p)
      PROVE  Sweeping'
  <2>1. job' = [job EXCEPT ![p] = None] /\ ~ Idle(p)
    BY <1>6 DEF PutFails, SetRefFails, AnswerCommit, GcEnd, Crash, At, Doing
  <2>2. QED
    BY <1>3, <1>5, <2>1
<1>7. ASSUME NEW p \in Process,
             PutCheck(p) \/ CreateTemp(p) \/ FillTemp(p) \/ Rename(p)
               \/ StartSetRef(p) \/ FinishSetRef(p)
      PROVE  Sweeping'
  <2>1. /\ Doing(p, "snapshot") /\ ~ Idle(p)
        /\ job[p].phase \in Phase
        /\ \/ job[p].phase \in {"check", "rename"} /\ Advance(p)
           \/ job' = [job EXCEPT ![p] = None]
           \/ \E phase \in Phase : MovesTo(p, phase)
    BY <1>7 DEF PutCheck, CreateTemp, FillTemp, Rename, StartSetRef, FinishSetRef,
                At, Doing, MovesTo, Phase
  <2>2. PICK run : /\ job' = [job EXCEPT ![p] = run]
                   /\ run = None \/ run \in Snapshotting
    <3>1. CASE job[p].phase \in {"check", "rename"} /\ Advance(p)
      BY <2>1, <3>1, SnapshotFields, AdvanceTyped
    <3>2. CASE \E phase \in Phase : MovesTo(p, phase)
      BY <2>1, <3>2, PhaseTyped
    <3>3. QED
      BY <2>1, <3>1, <3>2
  <2>3. QED
    BY <1>3, <1>5, <2>1, <2>2
<1>8. CASE UNCHANGED vars
  BY <1>8 DEF Sweeping, vars, Doing, Idle
<1>9. QED
  BY <1>1, <1>2, <1>4, <1>6, <1>7, <1>8 DEF Next

\* A gc that has the store to itself ends with exactly what HEAD reaches,
\* whatever snapshots failed or died before it.
THEOREM GcIsExact == Spec => GcExact
<1>1. None \notin Snapshotting \cup Collecting
  BY LifestreamAssumption
<1>2. CASE GcAlone = TRUE
  <2>1. Init => Typed /\ WholeFiles /\ Restorable /\ Sweeping
    BY DEF Init, Typed, WholeFiles, Restorable, Sweeping, At, Doing, Idle
  <2>2. /\ Typed /\ WholeFiles /\ Restorable /\ Sweeping /\ [Next]_vars
        => Typed' /\ WholeFiles' /\ Restorable' /\ Sweeping'
    BY <1>1, <1>2, TypedStep, WholeStep, RestorableStep, SweepingStep DEF WholeFiles
  <2>3. ASSUME Restorable, Sweeping, NEW p \in Process, GcEnd(p)
        PROVE  objects = IF head = None THEN {} ELSE Reach(head)
    <3>1. Doing(p, "gc") /\ job[p].listed /\ job[p].doomed = {}
      BY <2>3 DEF GcEnd
    <3>2. /\ job[p].live = IF head = None THEN {} ELSE Reach(head)
          /\ objects \subseteq job[p].live
      BY <2>3, <3>1 DEF Sweeping
    <3>3. head # None => Reach(head) \subseteq objects
      BY <2>3 DEF Restorable
    <3>4. QED
      BY <3>2, <3>3
  <2>4. Restorable /\ Sweeping =>
          [\A p \in Process : GcAlone /\ GcEnd(p) =>
              objects = IF head = None THEN {} ELSE Reach(head)]_vars
    BY <2>3
  <2>5. QED
    BY <2>1, <2>2, <2>4, PTL DEF Spec, GcExact
<1>3. CASE GcAlone = FALSE
  <2>1. [\A p \in Process : GcAlone /\ GcEnd(p) =>
            objects = IF head = None THEN {} ELSE Reach(head)]_vars
    BY <1>3
  <2>2. QED
    BY <2>1, PTL DEF GcExact
<1>4. QED
  BY <1>2, <1>3, LifestreamAssumption
=============================================================================
