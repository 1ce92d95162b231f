-------------------------- MODULE LifestreamStore ---------------------------
(***************************************************************************)
(* One Lifestream object store on disk (crates/lifestream) and the         *)
(* processes that work on it: `horizon lifestream snapshot` (snapshot_dir, *)
(* then commit, which moves HEAD) and `horizon lifestream gc`.             *)
(*                                                                         *)
(* An object's id is a keyed hash of its content, so an object is its own  *)
(* id.  A Generation holds a root tree and its parents, and a snapshot's   *)
(* parent is the HEAD it read, so a generation is modelled by the roots of *)
(* its first-parent history, oldest first.  A File with its chunks is one  *)
(* Blob, and a directory tree is one Tree over the blobs beneath it.       *)
(* Nothing locks the store: a put looks, writes a temp file and renames    *)
(* it, a ref is emptied and written, the caller is answered, gc marks,     *)
(* lists and deletes, and any other process runs between those steps.      *)
(***************************************************************************)
EXTENDS Naturals, Sequences, FiniteSets

CONSTANTS
    Blob,        \* file contents
    Tree,        \* directory contents
    Content,     \* the blobs beneath each tree, in the order they are put
    Writer,      \* processes that snapshot
    Collector,   \* processes that run gc
    GcAlone,     \* whether gc runs only while nothing else does
    Faults,      \* the faults that may happen, of FaultKind
    MaxHistory,  \* bounds on the length of a history, and on the generations
    MaxLanded,   \* HEAD was moved to before the last snapshot begins
    None

FaultKind == {"put_fails", "write_fails", "crash", "crash_in_write"}
Process == Writer \cup Collector
Generation == Seq(Tree) \ {<< >>}
Object == Blob \cup Tree \cup Generation

VARIABLES
    objects,  \* ids with a file under objects/
    torn,     \* those of them whose file is not a whole record
    temps,    \* names of temp files
    filled,   \* those of them that are written to the end
    head,     \* refs/HEAD as get_ref reads it: None if absent or torn
    job,      \* what each process is doing, or None
    landed,   \* history: generations HEAD was moved to
    acked     \* history: those of them whose commit returned Ok

hist == <<landed, acked>>
vars == <<objects, torn, temps, filled, head, job, hist>>

Phase == {"check", "create", "fill", "rename", "ref", "refwrite", "answer"}
Snapshotting == [kind : {"snapshot"}, gen : Generation, todo : Seq(Object),
                 phase : Phase]
Collecting == [kind : {"gc"}, live : SUBSET Object, listed : BOOLEAN,
               doomed : SUBSET Object]

ASSUME LifestreamAssumption ==
    /\ Content \in [Tree -> Seq(Blob)]
    /\ None \notin Generation /\ None \notin Snapshotting \cup Collecting
    /\ GcAlone \in BOOLEAN
    /\ Faults \subseteq FaultKind
    /\ MaxHistory \in Nat /\ MaxLanded \in Nat

TypeOK ==
    /\ objects \subseteq Object /\ torn \subseteq objects
    /\ filled \subseteq temps
    /\ head \in Generation \cup {None}
    /\ \A p \in Process : job[p] \in Snapshotting \cup Collecting \cup {None}
    /\ landed \subseteq Generation /\ acked \subseteq Generation

Init ==
    /\ objects = {} /\ torn = {}
    /\ temps = {} /\ filled = {}
    /\ head = None
    /\ job = [p \in Process |-> None]
    /\ landed = {} /\ acked = {}

Idle(p) == job[p] = None
Doing(p, kind) == ~ Idle(p) /\ job[p].kind = kind
At(p, phase) == Doing(p, "snapshot") /\ job[p].phase = phase

-----------------------------------------------------------------------------
(* What a generation is made of.                                           *)

Blobs(t) == {Content[t][i] : i \in DOMAIN Content[t]}

\* The generation `back` steps behind g, the generation itself at 0.
Ancestor(g, back) == SubSeq(g, 1, Len(g) - back)
History(g) == {Ancestor(g, back) : back \in 0 .. (Len(g) - 1)}

Root(g) == g[Len(g)]

\* Everything a restore, a log or a sync of g needs.
Reach(g) ==
    History(g) \cup {Root(h) : h \in History(g)}
               \cup UNION {Blobs(Root(h)) : h \in History(g)}

\* Wrong: only the generation HEAD names is live, not the ones before it.
MarkedRootOnly(g) == {g, Root(g)} \cup Blobs(Root(g))

\* The mark of gc: it follows the links of what it can read and skips what it
\* cannot, whose links it never learns.
Marked(g) ==
    LET readable == objects \ torn
        gens == {h \in History(g) :
                    \A i \in (Len(h) + 1) .. Len(g) : SubSeq(g, 1, i) \in readable}
        trees == {Root(h) : h \in gens \cap readable}
    IN  gens \cup trees \cup UNION {Blobs(t) : t \in trees \cap readable}

-----------------------------------------------------------------------------
(* Snapshot: put every object, children first, then move HEAD.             *)

Quiet == GcAlone => \A p \in Process : ~ Doing(p, "gc")

\* Wrong: a snapshot has no parent.
SnapshotOrphan(p, t) ==
    /\ p \in Writer /\ Idle(p) /\ Quiet
    /\ Cardinality(landed) < MaxLanded
    /\ job' = [job EXCEPT ![p] =
          [kind |-> "snapshot", gen |-> <<t>>,
           todo |-> Append(Append(Content[t], t), <<t>>), phase |-> "check"]]
    /\ UNCHANGED <<objects, torn, temps, filled, head, hist>>

\* The parent is the HEAD there is when the command starts.
Snapshot(p, t) ==
    LET past == IF head = None THEN << >> ELSE head
        gen  == Append(past, t)
    IN  /\ p \in Writer /\ Idle(p) /\ Quiet
        /\ Len(past) < MaxHistory /\ Cardinality(landed) < MaxLanded
        /\ job' = [job EXCEPT ![p] =
              [kind |-> "snapshot", gen |-> gen,
               todo |-> Append(Append(Content[t], t), gen), phase |-> "check"]]
        /\ UNCHANGED <<objects, torn, temps, filled, head, hist>>

\* Wrong: the ref moves one object too soon.
AdvanceEarly(p) ==
    LET rest == Tail(job[p].todo)
    IN  job' = [job EXCEPT ![p].todo = rest,
                           ![p].phase = IF Len(rest) <= 1 THEN "ref" ELSE "check"]

\* On to the next object, or to the ref after the last.
Advance(p) ==
    LET rest == Tail(job[p].todo)
    IN  job' = [job EXCEPT ![p].todo = rest,
                           ![p].phase = IF rest = << >> THEN "ref" ELSE "check"]

\* ObjectStore::put: an object already there is not written again.
PutCheck(p) ==
    /\ At(p, "check")
    /\ IF Head(job[p].todo) \in objects
       THEN Advance(p)
       ELSE job' = [job EXCEPT ![p].phase = "create"]
    /\ UNCHANGED <<objects, torn, temps, filled, head, hist>>

\* Wrong: one temp file per object, whoever writes it.
SharedTempName(p, id) == id

\* commit_record names its temp file by pid and a counter.
TempName(p, id) == p

\* fs::write creates or empties the temp file, then writes it.
CreateTemp(p) ==
    /\ At(p, "create")
    /\ LET name == TempName(p, Head(job[p].todo))
       IN  /\ temps' = temps \cup {name}
           /\ filled' = filled \ {name}
    /\ job' = [job EXCEPT ![p].phase = "fill"]
    /\ UNCHANGED <<objects, torn, head, hist>>

FillTemp(p) ==
    /\ At(p, "fill")
    /\ filled' = filled \cup (temps \cap {TempName(p, Head(job[p].todo))})
    /\ job' = [job EXCEPT ![p].phase = "rename"]
    /\ UNCHANGED <<objects, torn, temps, head, hist>>

\* fs::rename publishes whatever the temp file holds, over an older record.
Rename(p) ==
    LET id   == Head(job[p].todo)
        name == TempName(p, id)
    IN  /\ At(p, "rename")
        /\ IF name \in temps
           THEN /\ objects' = objects \cup {id}
                /\ torn' = IF name \in filled THEN torn \ {id} ELSE torn \cup {id}
                /\ temps' = temps \ {name}
                /\ filled' = filled \ {name}
                /\ Advance(p)
           ELSE /\ job' = [job EXCEPT ![p] = None]
                /\ UNCHANGED <<objects, torn, temps, filled>>
        /\ UNCHANGED <<head, hist>>

\* An I/O error in a put ends the command; what was put stays.
PutFails(p) ==
    /\ "put_fails" \in Faults
    /\ At(p, "create") \/ At(p, "fill") \/ At(p, "rename")
    /\ job' = [job EXCEPT ![p] = None]
    /\ temps' = temps \ {TempName(p, Head(job[p].todo))}
    /\ filled' = filled \ {TempName(p, Head(job[p].todo))}
    /\ UNCHANGED <<objects, torn, head, hist>>

\* set_ref empties the file, then writes the id.
StartSetRef(p) ==
    /\ At(p, "ref")
    /\ head' = None
    /\ job' = [job EXCEPT ![p].phase = "refwrite"]
    /\ UNCHANGED <<objects, torn, temps, filled, hist>>

\* Wrong: HEAD is moved to the tree, not to its generation.
FinishAtTree(p) ==
    /\ At(p, "refwrite")
    /\ head' = Root(job[p].gen)
    /\ job' = [job EXCEPT ![p].phase = "answer"]
    /\ UNCHANGED <<objects, torn, temps, filled, hist>>

FinishSetRef(p) ==
    /\ At(p, "refwrite")
    /\ head' = job[p].gen
    /\ landed' = landed \cup {job[p].gen}
    /\ job' = [job EXCEPT ![p].phase = "answer"]
    /\ UNCHANGED <<objects, torn, temps, filled, acked>>

\* commit returns the generation's id.
AnswerCommit(p) ==
    /\ At(p, "answer")
    /\ acked' = acked \cup {job[p].gen}
    /\ job' = [job EXCEPT ![p] = None]
    /\ UNCHANGED <<objects, torn, temps, filled, head, landed>>

\* The write of the ref fails: the command ends, and the ref stays empty.
SetRefFails(p) ==
    /\ "write_fails" \in Faults
    /\ At(p, "refwrite")
    /\ job' = [job EXCEPT ![p] = None]
    /\ UNCHANGED <<objects, torn, temps, filled, head, hist>>

-----------------------------------------------------------------------------
(* gc: mark from the refs, list the store, delete what was not marked.     *)
(* The mark is one step: it reads objects that no writer ever rewrites.    *)

GcMark(p) ==
    /\ p \in Collector /\ Idle(p)
    /\ GcAlone => \A q \in Process : Idle(q)
    /\ job' = [job EXCEPT ![p] =
          [kind |-> "gc", live |-> IF head = None THEN {} ELSE Marked(head),
           listed |-> FALSE, doomed |-> {}]]
    /\ UNCHANGED <<objects, torn, temps, filled, head, hist>>

\* Wrong: file contents are never swept.
GcListTrees(p) ==
    /\ Doing(p, "gc") /\ ~ job[p].listed
    /\ job' = [job EXCEPT ![p].listed = TRUE,
                          ![p].doomed = (objects \ job[p].live) \ Blob]
    /\ UNCHANGED <<objects, torn, temps, filled, head, hist>>

GcList(p) ==
    /\ Doing(p, "gc") /\ ~ job[p].listed
    /\ job' = [job EXCEPT ![p].listed = TRUE,
                          ![p].doomed = objects \ job[p].live]
    /\ UNCHANGED <<objects, torn, temps, filled, head, hist>>

\* One file at a time; one that is gone already is no error.
GcDelete(p) ==
    /\ Doing(p, "gc") /\ job[p].listed
    /\ \E id \in job[p].doomed :
          /\ objects' = objects \ {id}
          /\ torn' = torn \ {id}
          /\ job' = [job EXCEPT ![p].doomed = @ \ {id}]
    /\ UNCHANGED <<temps, filled, head, hist>>

GcEnd(p) ==
    /\ Doing(p, "gc") /\ job[p].listed /\ job[p].doomed = {}
    /\ job' = [job EXCEPT ![p] = None]
    /\ UNCHANGED <<objects, torn, temps, filled, head, hist>>

-----------------------------------------------------------------------------

\* The process dies.  A temp file it leaves is never looked at again (its
\* name is not reused, list_ids skips it), so it is forgotten here.
Crash(p) ==
    /\ ~ Idle(p)
    /\ IF At(p, "refwrite") THEN "crash_in_write" \in Faults
                            ELSE "crash" \in Faults
    /\ IF At(p, "fill") \/ At(p, "rename")
       THEN /\ temps' = temps \ {TempName(p, Head(job[p].todo))}
            /\ filled' = filled \ {TempName(p, Head(job[p].todo))}
       ELSE UNCHANGED <<temps, filled>>
    /\ job' = [job EXCEPT ![p] = None]
    /\ UNCHANGED <<objects, torn, head, hist>>

Next ==
    \E p \in Process :
        \/ \E t \in Tree : Snapshot(p, t)
        \/ PutCheck(p) \/ CreateTemp(p) \/ FillTemp(p) \/ Rename(p)
        \/ PutFails(p)
        \/ StartSetRef(p) \/ FinishSetRef(p) \/ SetRefFails(p)
        \/ AnswerCommit(p)
        \/ GcMark(p) \/ GcList(p) \/ GcDelete(p) \/ GcEnd(p)
        \/ Crash(p)

Spec == Init /\ [][Next]_vars

-----------------------------------------------------------------------------
(* Properties.                                                             *)

\* A reader of an object finds a whole record, whoever else is writing the
\* same object and wherever a writer died ("a reader sees either the whole
\* record or nothing", commit_record).
ObjectsWhole == torn = {}

\* HEAD names a generation that can be restored, with its whole history: no
\* error, crash or concurrent writer leaves HEAD ahead of its objects.
HeadComplete == head # None => Reach(head) \subseteq objects \ torn

\* A generation HEAD was moved to stays restorable, and so does what was
\* committed.
CommitsKept == \A g \in landed \cup acked : Reach(g) \subseteq objects \ torn

\* HEAD's history is the generations it was ever moved to, in their order.
\* All that was committed is there, and of the rest only what a command moved
\* HEAD to and was killed before it could say so.
WritingRef == \E p \in Process : At(p, "refwrite")
HistoryKept ==
    ~ WritingRef => /\ landed = IF head = None THEN {} ELSE History(head)
                    /\ acked \subseteq landed

\* A gc that nothing disturbed leaves exactly what HEAD reaches.
GcExact ==
    [][\A p \in Process : GcAlone /\ GcEnd(p) =>
          objects = IF head = None THEN {} ELSE Reach(head)]_vars
=============================================================================
