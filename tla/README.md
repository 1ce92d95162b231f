# Horizon in TLA+

A verification development for the Rust workspace under `src/crates`: TLA+
modules of the parts of Horizon where order, failure and concurrency decide
whether it is right, TLC configurations that check them on small instances, and
TLAPS proofs of what matters most for every value of the constants.

## The system

| Component | State it keeps | Operations | What is hard about it |
|---|---|---|---|
| Lifestream (`lifestream`) | A directory of sealed objects named by a keyed hash, and ref files. Nothing locks it. | put, write_record, set_ref, snapshot_dir, commit, gc | A crash between two writes; another process between any two steps; `set_ref` empties the file before it writes |
| Weave (`weave`) | In the store: the audit ref and its hash-chained entries. In memory: head, position and grant table of each `Broker` | open, reload, grant, request, access, revoke, reissue, verify | Memory against log after errors and crashes; two processes on one log; budgets and revocation across restarts |
| Constellation sync (`constellation/src/lib.rs`, `transport.rs`) | None of its own: the objects and refs of two stores | sync, sync_refs, is_ancestor | A run is many calls, and commits, other runs and failures come between them |
| Constellation network (`constellation/src/net`, `discovery.rs`) | Rendezvous: a lease per address, the peers waiting to be punched. Relay: bindings. A Noise channel per session | register, lookup, heartbeat, punch, bind, connect, discover; a request and its answer | Leases against outages and restarts; handles that die, and ids used again, between a copy of the list and its use; sessions cut anywhere |
| Aura (`aura`) | A plan; the broker it runs against | plan, preview, approve_and_execute, run | Several grants per action; grants that change between preview and run |
| Glass and the shell (`glass`, `horizon/src/main.rs`) | Palette, planner thread, broker, model of the view | key, confirm, poll_planner, poll_store, refresh, reap | A late answer of the planner, a revocation made elsewhere |
| Cells (`cells`) | Three processes, two pipes, the portal's socket | spawn, wait, try_wait, request, serve | Which process holds which end; what is reported of a failure or a kill at any step |
| Boot and init (`boot`, `init`) | Mounts, the unlocked master | The stages of the boot; discover, unlock, prove, adopt | Partitions that show up late; what each failure leaves writable |
| Identity (`identity`) and reconstitution | The keyslot file; shares | enroll, unlock, re-enroll; split, open | A file that is emptied before it is written; a passphrase that opens a store it is not the key of |
| Compositor (`compositor`) | Devices, outputs, the shared space, globals, the placeholder | Hotplug, page flips, the session, relayout, render | Events in any order; a flip that never ends; what clients are told |
| Key builder (`keybuild`) | Images in a directory; the tree of the ESP | build of each image; insert, format, render | Images of earlier runs; counts of slots and clusters that must agree |

Interactions: the broker logs into the Lifestream through a ref of its own;
sync moves every object and ref, the audit log included; the Glass shell holds
a broker open and polls it while `horizon weave` commands open their own; Aura
and the portal of a Cell ask a broker before they act; boot proves the master
against the store it will open, and takes it from the passphrase, or from the
keyslots `horizon identity` writes; the init hands it to the session through a
memfd; a dialer of `horizon constellation sync` finds its peer through the
rendezvous or the relay and then runs the sync over one wire session; the Key
builder writes the partitions the init looks for by their labels.

## Modules

| Module | Models | Kind |
|---|---|---|
| `WeaveLog` | The audit log as a sequence, its replay into a grant table, what makes a log sound | operators |
| `WeaveBroker` | Any number of processes with a `Broker` on one store | state machine |
| `CapabilityFabric` | What the Weave promises, without brokers or logs | abstract specification |
| `LifestreamStore` | One store, several snapshots and gcs on it, file by file | state machine |
| `ConstellationSync` | Runs of sync among the stores of one identity | state machine |
| `ConstellationMesh` | What sync promises of the refs, without objects or runs | abstract specification |
| `StoreKeys` | The ways to the master key: passphrase, keyslots, shares; the commands that use one, several at a time | state machine |
| `BootUp` | From the kernel to the session: the init and `horizon boot` | state machine |
| `RendezvousLease` | Registrations, heartbeats and outages against time | state machine |
| `ConstellationReach` | Serving peers at rendezvous and relay, and dialers that look for one | state machine |
| `WireSession` | One session on the wire, segment by segment | state machine |
| `RemoteCall` | What a transport over the network promises its caller | abstract specification |
| `CellSpawn` | Supervisor, init child and payload of a Cell, their pipes and the portal | state machine |
| `GlassShell` | The shell, its planner thread, the plans it confirms, other processes' grants | state machine |
| `Scanout` | Monitors, devices, page flips and the session, and what clients are shown | state machine |
| `EspImage` | The tree of the ESP, the geometry of the volume, and the writing of the one into the other | state machine |
| `KeyDisk` | Runs of `horizon-keybuild` into one directory, and the disk put together from it | state machine |
| `MCWeaveBroker`, `MCLifestreamStore`, `MCConstellationSync` | Constants of the checked instances | instances |
| `MCStore` | A store's files or its keys, in each behaviour | instance |
| `MCParts` | The parts that share no state, one of them in each behaviour | instance |
| `WeaveBrokerProofs` | Theorems about the log, the brokers and the fabric they implement | proofs |
| `LifestreamProofs` | Theorems about the store | proofs |
| `ConstellationSyncProofs` | Theorems about sync and the mesh it implements | proofs |
| `BootProofs` | Theorems about the keys, the boot, and the Key's ESP and disk | proofs |
| `ReachProofs` | Theorems about the rendezvous' leases and the meeting points | proofs |
| `WireSessionProofs` | Theorems about a wire session and the remote call it implements | proofs |
| `ShellProofs` | Theorems about the Cells, the Glass shell and the screens | proofs |
| `PartsProofs` | What is proved of each part holds where `MCParts` puts them together | proofs |

Modules that are checked for refutation carry, next to an action, a variant
marked *Wrong*: a plausible mistake in the same code. Each property is shown to
fail when the action's body is replaced by one of them.

### WeaveBroker and the code

An object id is a keyed hash, so the head of the log determines the whole
chain, and `ref`, `head[b]` are chains (sequences of entries). `table[b]`,
`seq[b]`, `head[b]` are the fields of `Broker` in process `b`; `caps[b]` are the
handles it gave out. An operation is a decision (`Grant`, `Request`,
`AccessCap`, `Revoke`: the checks and the change of memory, in the order of the
code) followed by the log call, split where other processes and failures come
in: the put of the entry (`AppendFails`), the truncation of the ref file
(`StartRefWrite`), its write (`WriteRef`, `RefWriteFails`), and the return to the
caller (`Answer`). `Open`, `Reload` and `Reissue` log nothing. `Stop` is a process
that ends or dies, also between the write and the return.
A grant's resource is an element of a set with a covering relation, its rights
a set; a secret is the number of its draw; time is a bounded counter.

`logged` and `answered` are history variables: the entries the ref took, in that
order, and which of them the caller was told of. A kill after the write leaves an
entry that is logged and not answered, which the next process replays, reissues
and builds on; so the refinement to `CapabilityFabric` maps the abstract grants to
the replay of `logged`. Its step is the write of the ref, which lies between the
call and its answer. The fabric never loses anything, while the log may be torn
after any of its steps.

### LifestreamStore and the code

Files with their chunks are blobs, a directory is one tree, a generation is the
sequence of the roots of its first-parent history. `objects` are the files
under `objects/`, `torn` those that are not whole, `temps`/`filled` the temp
files of `commit_record`, `head` is `refs/HEAD` as `get_ref` reads it (an empty
file is `None`). `PutCheck`, `CreateTemp`, `FillTemp`, `Rename` are the steps of
a put; `Advance` goes to the next object of the snapshot, children first;
`StartSetRef`, `FinishSetRef` the truncation and the write of HEAD, `AnswerCommit`
the return of `commit`; `GcMark`, `GcList`, `GcDelete`, `GcEnd` are gc. Errors and
crashes may come at each. `landed` and `acked` are histories: the generations HEAD
was moved to, and those whose commit returned Ok; a kill between the two steps
leaves one in the first alone.

### ConstellationSync and the code

An object is a leaf (a tree or a payload) or an entry of the chain behind a ref
(a generation, or an entry of the audit log). Each call of the `Transport` is a
step: `StartSync` (`from.have`), `Diff` (`to.have`), `Copy` (read_record and
write_record, in any order, since ids are hashes), `ListRefs` (`from.refs`),
`Decide` (`to.get_ref` and the walk of `is_ancestor`), `SetRef`; `SyncFails` is any
call that fails, with its effect or without it. A commit on the store's own device
is the read of the head it extends (`StartCommit`), its puts (`PutCommit`) and its
`set_ref` (`FinishCommit`), which compares nothing with what the ref names by
then. Any number of `Committer`s may be between these steps on one store, as two
`horizon lifestream snapshot` or a broker with the head it read at open may.
`QuietSource`, `QuietDest` and `CommitsAlone` are what a claim may have to assume:
that nothing changes the source during a run, that nothing else moves a ref of the
destination, and that the commits of a store come one after the other. The code
ensures none of them.

### StoreKeys and the code

A key is what a passphrase derives; the right one and a mistyped one are two of
them, and nothing tells them apart but what is sealed under one. `keyslots` is the
file, as it was emptied, torn or written; `splits` the keys that were split;
`generations` HEAD's history, each with its key and what a gc left of it.
`command[c]` is a process of `horizon`, between the steps at which others come in:
`LoadKeyslots`, `EmptyKeyslots`, `SaveKeyslots` of an enroll are three, and
`AnswerEnroll` its return. `Boot`, `IdentityUnlock` and `Recover` (re-enroll and
`reconstitute open`) go on to `Prove`, the read of HEAD. `TearHead` is a snapshot
killed while it writes HEAD, after which `get_ref` finds none and any key is proved.
`saved` is a history of the keyslots that were saved, `overlapped` of whether a
command loaded them while another was between its load and its save.

### BootUp and the code

`at` is the step of `run` in `init/src/main.rs` that comes next, one action for
each (`ResolveBase`, `OpenVerity`, `ResolveParts`, `MountData`, `Discover`,
`RecoverMaster`, `OpenHome`, `StashMaster`, `MountLayers`, `SwitchRoot`), then
`SessionKeys` and `StartSession` of `horizon boot`. `Appear` is a partition that
shows up, between any two; `Die` a step that fails. `medium` and `cmdline` are
chosen at the start and never change.

### RendezvousLease and the code

`lease[p]` is the time left in the registry, `link[p]` the one QUIC connection a
serving peer dials, `beatIn[p]` its heartbeat's timer. `Pass` lets a unit of
time pass when nothing is due. A connection that was away for `IdleTimeout` is
closed, and the heartbeat ends; nothing dials again. `Restart` is the
rendezvous, which keeps its registry in memory.

### ConstellationReach and the code

`conn[m][c]` is a serving peer's connection at meeting point `m`, by its stable id;
`waiting[m]` the list the meeting point keeps, `holding[m]` the connections whose
handler has answered and awaits `closed()`. `Announce` is the listing by `punch` or
`Bind`, `Acknowledge` the answer after it, `AcknowledgeFails` the early return when
that answer cannot be written, after which no task is left that would withdraw the
entry. `Notice` is quinn's discovery that the far end is gone, `Withdraw` the task
that awaited it. `dial[d]` is one `sync`: its routes in cost order, the copy of the
list it was given, and `steady`, a history of which connections were live ever since
it asked.

### WireSession and the code

Each side is a stage, what it has still to write and what it has read; `up` and
`down` are streams of segments. A frame of `n` bytes is a header and `n` bytes
cut at `MaxSegment`. `CutLink` drops an end of a stream. `effect` and `told` are the
variables of `RemoteCall`, which the session implements.

### CellSpawn and the code

`sup`, `initA`, `payloadB` are the three processes, by the stage they are at,
with what each has inherited and not yet closed: `ErrWriters`, `ReportWriters`
and `PortalWriters` derive who keeps an end of which pipe open, hence which read
returns. `Bridge` is the function of that name. `verdict` is what `wait` or
`try_wait` returned.

### GlassShell and the code

One thread: a key, a click or a tick (`poll_planner`, `poll_store`, `reap`) is
an action. The planner is two (`WorkerTakes`, `WorkerAnswers`). `logged` is what
a reader of the audit log finds, `own` what the shell's broker has read, since
each of its own entries extends the log it read (see `WeaveBroker`). `shown` are
the channels of the model on the screen; `ReloadModel` builds it anew after a
reload, a sever or a run, and may fail on its own, which the history `outdated`
keeps. `run` is a
confirmed plan under way, with `seen`, a history of what was disclosed.

### Scanout and the code

`lit` is `Device.surfaces`, `awaiting` and `flying` the pending flips as the program
and the kernel see them, `mapped`, `roam`, `globals`, `placeholder` the server's
side. `DeviceAdded`, `DeviceChanged`, `DeviceRemoved`, `VBlank`, `PauseSession` and
`ActivateSession` are the event sources; `Iterate` is one turn of the loop: relayout
if `dirty`, the clients, then a frame for every output that is damaged and not
waiting. `Rescanned` is what the scan of a device's connectors may leave lit;
`Columns` counts the columns of the desktop an output shows, as `relayout` adds up
the widths before it.

### EspImage and KeyDisk and the code

`Insert` is one file or folder of `build_esp`; `Format` computes the geometry and
allocates the root; `RenderChild` is one turn of `render_dir`'s loop and `RenderEnd`
its end; `WriteFats` ends the build. The recursion is `cur`, the directory of the
innermost call, and `dirs`, what each call keeps: a call's caller is the folder
above, so the two are its stack. `Children` is a set, and `Child` the next of the
sorted map that is not rendered yet. Entries are kept by the path they are for, but
a reader (`EntryOf`, `Found`) goes by names and fields alone. Names are known by how
they fold, their 8.3 field, their aliases and the slots of their long form: what the
order of a directory, the choice of an alias and the count of slots depend on.
Sizes, sectors and clusters are the code's own numbers. The one case no instance
reaches is a root with more entries than FAT16 has slots for it, or FAT32 clusters
(`RootFits`), which is refused before anything is written. In `KeyDisk` an image is
known by the run it is from, and every step of `main` is an action; `Gpt` is
`gpt::build` with the code's own sectors, `Cursor` the sector at which each
partition of its loop starts, and `Resolved` what the init finds by a label.

## Runs

| Run | Instance | Shows |
|---|---|---|
| `weave_single` | 1 process, 2 grant ids, every fault | Types; what is logged, answered or not, never exceeds a grant's scope, budget or recorded revocation (`HistorySound`); every use is decided by the log (`DecidedByTheLog`); the broker implements the fabric (`FabricSpec`) |
| `weave_crash` | 1 process, 2 grant ids, a rules policy, crashes | The log is exactly the entries the ref ever took, those of a process killed before its answer included, and all that was answered is among them (`AuditComplete`); no use after a revoke that answered Ok (`NoUseAfterRevokeOk`) |
| `weave_shared` | 2 processes, 1 grant id, logs of 3, every fault, one of them a poller, fair | No chain shows a forbidden use, every chain verifies, no memory is laxer than its chain, whatever they overwrite of each other; and a revocation reaches the poller (`RevocationSeen`) |
| `weave_lost_entry` | 2 processes | **Violated**: the second to log drops entries the first was answered for (`AnsweredIsLogged`) |
| `weave_lost_revoke` | 1 process, failing puts | **Violated**: a repeated revoke answers Ok and is not in the log |
| `store_writers` | 2 snapshots at a time, every fault, gc when neither is on, two trees over one blob, the writers symmetric, at most 3 generations landed; or two commands at a time on the keys, 2 slots, torn saves and a torn HEAD | Object files are whole, HEAD never ahead of its objects; the keyslots are what was saved, in that order, and a cut save is never taken for an empty file (`KeyslotsKept`) |
| `store_torn_gc` | 1 writer, a crash in the ref write | **Violated**: HEAD reads as absent and gc deletes everything |
| `sync_quiet` | 2 stores, one committer each, commits one after the other, runs that fail anywhere | A run that succeeds delivers; histories only grow (`MeshSpec`) |
| `sync_busy_dest` | 2 stores, commits at the destination between any steps of a run, torn refs, gc | Refs never dangle; HEAD conflicts are real |
| `sync_dangling` | 2 stores, a commit at the source during a run | **Violated**: the new ref names objects that were not shipped |
| `parts` | the eleven parts below, one in each behaviour | see below |
| `keys_mistyped_gc` | 2 keys, commands without faults | **Violated**: a gc under a mistyped passphrase deletes what HEAD reaches (`ReachableKept`) |

`parts` (`MCParts`) chooses a part at the start; the others keep their one
initial state. The parts share no variable, so a run of each by itself would
visit the same states: together they are one run because they ask one question,
whether each keeps what it promises. A part's fairness is that of its module:
`FairStep(i)` is the `i`-th fair action of the chosen part.

| Part | Instance | Properties |
|---|---|---|
| store | 1 writer, gc between snapshots, failing puts, crashes | `CommitsKept`, `HistoryKept`, `GcExact` |
| keys | the right key and a mistyped one, 1 device, 1 command at a time over 2 slots, 2 splits and 2 generations, torn saves | types only; see `store_writers` |
| boot | every medium with at most two defects, 12 command lines, any order of partitions, any step failing | `BootSound` |
| lease | 2 peers, lease 9, heartbeat 3, idle timeout 2, outages and restarts | `ListedWhileConnected` |
| reach | 2 connections at the relay and 1 at the rendezvous (`Served`), 1 dialer, 3 routes | `LiveStaysListed`, `ClosedWithdrawn`, `NoPeerIsTrue` |
| wire | 3 calls of one and of two segments, the exact boundary included, cut anywhere | `CallsAreRemote`, `CallReturns` |
| cells | 5 world steps, one of them optional, kills anywhere, the portal | `ReportTruthful`, `CellCollected` |
| shell | 2 needs, 2 plans, 2 grants, 2 asks, log calls and model builds that fail, grants and revocations by others | `ProposalIsLastAsk`, `GrantsDisclosed`, `AskAnswered`, `SeveredLeavesScreen` |
| screens | 2 devices, 3 connectors (two for one CRTC), 2 CRTCs | `ClientsSeeScreens`, `ScreensRepaint` |
| esp | up to 3 of 8 items, volumes of 2, 3, 33, 64 and 257 MiB | `EspReadsBack` |
| disk | 2 runs of 4 invocations, each failing anywhere | `BootsOneBuild` |

### What the violations say

* `log()` extends the head in memory and `set_ref` compares nothing. The log a
  reader finds is always *sound* (`weave_shared`), but with two writers it is
  not *complete*: entries, revocations among them, can vanish, though their
  callers were answered Ok.
* `revoke` changes memory first. The same order makes `access` safe (a lost log
  call leaves memory stricter), but lets a retried revoke answer Ok unlogged.
* An interrupted `set_ref` reads as "no ref". Nothing is lost by that alone
  (`store_writers`); the next gc then finds no root.
* `sync_refs` lists the refs after the objects. `QuietSource` is therefore an
  assumption of the two passing runs, not something the code ensures.
  `CommitsAlone` is one of `sync_quiet`, for the same reason: of two commits that
  read the same head the second `set_ref` drops the first's history.
* `ObjectStore::open` checks only the marker, not the key. A gc with a mistyped
  passphrase decrypts nothing, takes every root for a stale one, and deletes
  all but the root ids.

### Known and not run

Four more disagreements follow from the same modules by changing a constant: gc
during a snapshot (`GcAlone = FALSE`, `HeadComplete` fails); a commit at the
destination between `get_ref` and `set_ref`, which the `set_ref` of the run undoes
(`QuietDest = FALSE`, `MeshSpec` fails); two overlapping commits on one store
(`CommitsAlone = FALSE` and two committers, `MeshSpec` fails); and the audit ref,
which names a Tree and so is in conflict as soon as both sides hold it and differ
(`Ref` with a second name).

Reading the code for the models showed the following, which no run is about:

* Rendezvous: a heartbeat whose connection closed never dials again, so a peer
  drops off for good after an outage longer than the idle timeout, or a restart
  of the rendezvous (`rendezvous.rs:23` says it comes back). `ListedWhileConnected`
  is about peers whose connection is not closed.
* Meeting points: a peer whose connection closes between its listing and the
  answer to it is never withdrawn, since the handler returns by `?` before it
  awaits `closed()` (`relay.rs:187`, `rendezvous.rs:286`). It stays on the list
  until a dialer tries and skips it. `ClosedWithdrawn` is about peers that were
  answered; what dialers are told is right with such entries too.
* Dialing: a rendezvous lookup or an mDNS browse that fails ends the dial though
  a relay was given (`horizon/src/main.rs:2518`). A binding that is dead and not
  yet noticed comes before a live one, and only what fails to open is skipped.
* Shell: every preview and confirm makes an Aura with an empty wallet, so a confirm
  grants again what earlier ones granted. A `reload_model` that fails after a reload
  that did not leaves a severed channel on the screen: the broker is at the head, so
  no later poll builds the model anew, until the next change of the log or the
  shell's own next sever or confirm (`main.rs:2302`; the escape of
  `SeveredLeavesScreen`). A confirm that fails after some of its grants does too. A
  plan of more than six steps hides what the later ones need. `capability_for` looks
  at no budget.
* Cells: a B killed while it builds the world is reported as a payload that was
  signalled; a killed A leaves B running while `wait` answers; A keeps both ends
  of the portal, so a payload that waits for a reply hangs if the supervisor
  goes; a descriptor handed out before a revocation stays open.
* Boot: with a Home layer and a store that is not found, the data partition
  stays writable though the boot goes on as a Ghost (`init/src/main.rs:128`);
  no session starts from it. The store and the Home layer are looked up once,
  right after the base: one that shows up a moment later makes a silent Ghost.
  With two Keys plugged the base and the store may be of different ones.
* Keys: without a HEAD, or with one torn by a kill, any passphrase is proved. A torn
  keyslots file refuses an unlock by device and does not fall back. Enroll, split
  and snapshot take a mistyped passphrase, and a snapshot under one makes the right
  one fail. Two enrolls at a time lose one slot (`overlapped`, which `KeyslotsKept`
  excludes). Counts in the keyslots file are bytes.
* Screens: two monitors swapped between two scans of a device with one CRTC leave
  the new one dark until the next event; a monitor replaced on the same connector
  keeps the old mode; one plugged while switched away whose surface could not be
  made is not tried again. The pointer outside what is left of the screens stays
  there until it moves, though `relayout` says it clamps it.
* Key: `fat_size_sectors` under-allocates FAT16 by up to two entries for some
  sector counts that are not whole MiB (the comment at `fat.rs:307` says the
  reverse); no volume of `build_esp` is one of them. A name that ends in a dot
  and the same without get one 8.3 field. `gzip_to` writes in place, so an
  initramfs torn by a kill is baked into the ESP of a later `--esp` or `--disk` run
  that makes none. `build_disk` lays any `base.verity` it finds
  (`keybuild/src/lib.rs:887`), so a run without `--verity` lays an earlier run's
  tree, though `keybuild/src/main.rs:22` and `:275` say it is laid only with
  `--verity`, and the labels it prints leave it out. Nothing refers to that tree:
  the loader's entry has no root hash then, which is what `BootsOneBuild` says.
  `--provision-store` with a mistyped passphrase is not refused (the comment in
  `keybuild/src/main.rs` says it fails fast): it makes a Home layer under a key
  the store never gives.

### Bounds

Two processes are enough for each race above (one step of the other between two of
one's own); two grants to tell a grant from another; chains of 3 to 4 entries for
grant, use, revoke and a use after it; budgets of 1 to reach the limit; time 0..1 to
pass an expiry; two trees sharing a blob for dedup; two commands for one that reads
the keyslots while the other writes them; chains of 2 for a fast-forward and a
divergence. `MaxTime`, `MaxLog`, `MaxMints`, `MaxHistory`, `MaxLanded`, `MaxChain`,
and `MaxSlots`, `MaxSplits` and `MaxGenerations` of the keys are the only bounds
there. The sync runs have one committer a store; with two in `sync_busy_dest` there
are more states than a run can visit. That overlapping commits leave no ref dangling
is proved for any number of them, and TLC visits overlaps of writers of one store
file by file in `store_writers` and of brokers in `weave_shared`.

In `parts`: a lease of three heartbeats, as in the code, and an idle timeout shorter
than the slack; two connections for an id used again while the other is listed, each
with its copy at the dialer (at the relay; `Served` leaves the rendezvous, whose
list works alike, one id); a bound of three calls for one whose answer meets the
next; messages of one segment, of exactly one with the header, and of two; plans of
one and two steps, and two asks, for an answer to the first after the second; one
CRTC wanted by two connectors for a monitor that waits, and two devices for the
order between them; two tree sizes that end at the last cluster of 2 MiB and one
before it, and volumes on either side of the change from FAT16 to FAT32 (33 MiB) and
of the sectors per cluster (64, 257 MiB); two runs of the builder, the second of
which finds what the first left. Their bounds are `Served`, `MaxLanded`, `MaxSlots`,
`MaxSplits`, `MaxGenerations`, `MaxCalls`, `MaxGrants`, `MaxAsks`, `MaxItems` and
`MaxRuns`. The other runs set `CHECK_DEADLOCK FALSE`: at their bounds, or once every
process has ended, there is nothing left to do. The sync runs check for deadlock,
since a further run can always start.

### Fairness

Only of what the code runs by itself, and weak but for one action:

* `weave_shared`: a log call runs to its end (a sequence of system calls in one
  thread), weakly fair. A polling process reloads when the ref is not its head,
  *strongly* fair: `Reload` is disabled during each of the process's own log
  calls and while the ref happens to be at its head, so weak fairness would let it
  be put off for ever. `Shell::poll_store` runs each `SHELL_POLL` in the thread that
  makes those calls, between them, so it gets its turn again and again.
* reach: quinn notices a connection that is gone (its idle timeout), and the
  task that awaited it, if the handler got that far, withdraws it. For each
  connection, since each has a task.
* wire: a side that can write or read a segment does, or the link is cut.
* cells: A's steps, B's until the payload runs, and the supervisor's. Nothing
  makes the payload end.
* shell: the planner's thread takes an ask and answers it (a planner that fails
  answers with its error), a run goes on, and ticks come whose poll is due.
* screens: the loop turns, and a page flip in flight ends while the session owns
  the device.

Users, commands, crashes, kills, cuts, outages and failures are never fair, nor
is anything that is plugged.

## Proofs

Proved by TLAPS, for every value of the constants that the named assumptions
admit: every invariant and every action property of the passing runs, and each
of the three refinements. The argument of each is its inductive invariant,
which says what holds *between* the steps at which the property alone would
say nothing.

**The Weave**

* Of the log: replay is a fold (`ReplayExtend`) and a sound log stays sound when
  extended by an allowed entry.
* For any number of processes and any faults:
  `TypeCorrect`; `SharedCorrect`; and from it `LogStaysSound` (the chains, the
  memories, the verification) and `DecisionsFollowTheLog`. Soundness of the log
  alone is not inductive, for a use is appended after it was decided. The
  invariant `SharedInv` adds what holds in between: memory is no laxer than the
  process's own chain, a call in flight is still backed by that chain and
  already counted, and the position is the chain's length. No process changes
  another's head, so interference is only through `ref`, which is always some
  process's chain or empty.
* For one process at a time: `HistoryStaysSound` and `BrokerImplementsFabric`.
  Here `SoleInv` adds that a chain knows a grant as the history of logged
  operations does, answered or not, or not at all, so what a torn ref made the
  store forget is never granted again, and a grant id is logged once. The fabric's
  step is `WriteRef`; a kill before `Answer` is none, nor is what the next process
  does with the entry that was never answered.
* `LogIsWhatWasLogged`, for one process whose appends may fail and who may be
  killed, but whose ref writes neither fail nor tear. `AuditInv`: while it runs
  its head is the history of what the ref took, and so is the ref, except between
  the truncation and the write of a new head; what was answered is a part of it,
  and a call that is about to be answered has its place there.
* `RevokedIsRefused`, for one process whose log calls return no error; it may
  be killed anywhere, a ref write included. `RevokedInv`: what memory has revoked
  is revoked in the chain the process is at, but for the revoke being logged, and
  every revoke that answered Ok is in the history; after a restart `SoleInv` says
  that the chain knows the grant as the history does, or not at all.
  Both hypotheses are needed: `weave_lost_entry` and `weave_lost_revoke` are what
  happens without them.

**Lifestream**, for any contents, writers, collectors and lengths of history

* `LifestreamTypeCorrect`; `RecordsWhole`, under every fault; and
  `HeadRestorable`, from `GcAlone = TRUE` alone. A complete HEAD is not
  inductive: HEAD moves to a generation whose objects were put steps ago. The
  invariant `Restorable` says of every snapshot under way that what its
  generation reaches is in the store or still on its todo list, so nothing is
  missing once the list is empty; that a gc is alone; and that what it marked
  covers HEAD and what it is about to delete does not. `WholeFiles` is needed with
  it: the mark skips what it cannot read, and so is complete only because
  records are. A ref torn by a crash is covered: HEAD is then `None`.
* `GcIsExact` adds what a gc knows (`Sweeping`): its mark is what HEAD reaches,
  and all else is on its list. `HistoryIsKept` and `CommitsAreKept` are for one
  writer and no torn ref (`OneWriter`, `NoTornRef`; `store_torn_gc` shows why):
  `KeptSoFar` says that a snapshot under way adds its generation to exactly what
  HEAD was moved to before (`landed`), and while the ref is being written it stands
  in for HEAD; `AnswersLanded`, that what is about to be answered, and was, has
  landed. So a writer that dies after `set_ref` and before it answers leaves its
  generation in HEAD's history, where the next one builds on it.

**Sync**

* `SyncTypeCorrect`, and with `QuietSource = TRUE` `SyncRefsClosed` and
  `SyncConflictsReal`, whatever happens at the destination and however many
  commits of a store overlap. The invariant
  `ClosedInv` says what a run has learnt and when it is still true: its first
  list holds all that the source's refs reach; after `Diff`, that is held by the
  destination or still to be shipped; after the transfer, all of it is held;
  what is pending is what the source's refs name. It rests on `SourcesStill`: a
  run's source has no commit in flight and is no other run's destination.
  Without the premise the property fails: `sync_dangling`.
* `SyncImplementsMesh`, with `QuietDest = TRUE`, `CommitsAlone = TRUE` and no torn
  ref write: three premises, each of which the code leaves to its users, and
  without any of which a history is lost. The source need not be quiet: a run
  adopts a beginning of what the source has by then.
* `SyncSuccessDelivers`, with both ends quiet during a run, torn refs and
  overlapping commits before it included. Its invariant accounts for each ref of
  the source: carried, in conflict, pending, or the one being written.

**Keys, boot, the Key's ESP and disk** (`BootProofs`)

* `KeyslotsAreKept`, for any devices, commands and faults. `KeysInv` adds to the
  types that a command about to write the keyslots has a device and a key, and
  one about to prove a key has one (`EnrollsKey`). `SlotsKept` says what holds
  between the load and the save: as long as no two overlapped, one command at
  most is between them, what it will save is what was saved and its own slot, and
  the file is what was saved, or torn.
* `BootIsSound`, for any medium and command line. `BootInv` says what each
  stage of the init has established: verity before anything is mounted over it,
  no Home layer and no key handed on before the store is carried and the data
  partition may be written, both or neither when the root is switched, and a
  session on the key that was handed on (`VerifiedSoFar`, `GhostSoFar`,
  `DiscoverReady`, `HomeReady`, `RootReady`, `SessionReady`).
* `DiskBootsOneBuild`, for any runs, flags and image sizes. `DiskInv` says that
  every step before the next one which the flags ask for has left an image of *this*
  run, whole (`BuiltSoFar`), which is what a leftover image of an earlier run could
  break, and that a finished disk is `Assembled` from them, and from whatever tree
  there is: some sequence of cursors, each where the partition before it ends,
  bounds the partitions and leaves room for both tables. A disk has at most five
  partitions, so those cursors are given one by one in the proof, in place of an
  induction over `Cursor`.
* `EspIsReadBack`, for any names, items in any order and volumes of any size:
  the whole of `EspReadsBack`. Its invariant `EspInv` has these parts:
  * the tree (`TreeInv`): folders above every path, and no directory with more
    children than items, which is why an alias is always free;
  * the clusters: chains lie one behind the other below `nextFree`
    (`HandedOut`), which stays within what the geometry counts (`ClustersLeft`);
  * the rendering (`RenderInv`): there is a `place` of first clusters for the
    paths rendered so far. Each is chained as long as it needs and shared with no
    other (`Placed`), and together they are *all* that was handed out
    (`PlacedClusters`), so that running out of clusters means that the whole tree
    needs more than there are (`RenderFullTells`). The directories under way are
    those above `cur` (`Nested`); what is written of them, and of those that are
    closed and hence complete, is right (`OpenRight`, `ClosedRight`): one entry
    a child, with its place, fields distinct, `..` at the parent's place.

  Once no call is open, every path is placed (`AllPlaced`), and the reader's
  `Found` is `place` (`FoundIsPlace`), by the least length of a path for which it
  were not. `GeometrySound` shows of every volume size that a geometry whose
  count of clusters agrees lies within the partition and has a FAT with an entry for
  each cluster; that the two copies of the FAT therefore never run over the root
  is a part of `EspFits`, with what is refused. `EspHangsTogether` needs no
  hypothesis.

  `EspIsReadBack` has one: `ShortNamesTell`, that two names with one 8.3 field
  are the same name in the tree's order. It is not true of every name that
  `validate_name` takes: `FOO.` and `FOO` get one field and are two children
  (`canon_83` drops the dot, the map's key keeps it), so both are written under
  one field. The names `build_esp` chooses are none of these; those
  of `esp_efi` are whatever the files on the host are called.

**The parts together** (`PartsProofs`)

* `PartsAreParts`: a behaviour of `MCParts` is one of each module, since a step of
  one part leaves the variables of the others alone. So `PartsTypeCorrect`, the
  types of all parts at once, and `PartsKeepPromises` and `PartsReadBack`, what
  the theorems of the parts say, where `parts` checks it.

**The network** (`ReachProofs`, `WireSessionProofs`)

* `ConnectedIsListed`, for any lease longer than heartbeat and idle timeout
  together. `LeaseInv` relates the lease to the heartbeat's timer: the one is
  longer than the other by at least what it was when last refreshed, and the
  timer is overdue by no more than the network has been away.
* `LiveIsListed` and `ToldTheTruth`, for any peers, connections and routes.
  `ReachInv` adds to `LiveStaysListed` that a dialer that asks or tries is at
  a meeting point (`AtMeeting`), and that whatever has been live since it asked
  still is and is still before it in its copy of the list (`SteadyToTry`).
* `SessionImplementsRemoteCall`, for messages and segments of any size, the link
  cut anywhere. `WireInv` says that at most one message is on its way, that the
  bytes in flight, those read and those still to write add up to it, and which
  of the stages go together (`InHello`, `AtRest`, `RequestOnItsWay`,
  `ReplyOnItsWay`, `Over`).

**Cells, shell, screens** (`ShellProofs`)

* `VerdictsAreTrue`, for any steps of the world. `CellInv` follows what became
  of the payload to the supervisor: its stage (`PayloadStages`), what the error
  pipe holds of it (`PipeTells`), what A reports (`ReportTells`).
* `ProposalsAnswerTheLastAsk` and `RunsGrantWhatWasShown`, for any plans.
  `AsksInOrder`: what is awaited *is* the last ask, and while one is awaited
  nothing is proposed, so an answer to an earlier one is dropped. `RunDisclosed`:
  what a run has granted, has still to grant and will use was shown.
* `ScreensAreSideBySide`, for any devices, connectors, CRTCs and widths.
  `LitSoundly`: no connector is scanned out twice, each by a CRTC of its device,
  which is there. The columns are counted (`Columns`, a cardinality), so the sum
  of widths needs no induction.

Assumptions: those named in the modules, and the hypotheses on constants that
each theorem states. Those of the modules are types of the constants, that what
stands for "none" (`None`, `Nothing`, `Absent`, `Dark`, ...) is not a value of
the kind it is absent from, and:

* `WeaveLogAssumption`: a resource covers itself. Grant ids are drawn once, as
  16 random bytes are.
* `LeaseAssumption`: `Heartbeat + IdleTimeout < Lease`, as the code's constants
  are (the lease is three heartbeats).
* `KeysAssumption`: `1 <= Threshold <= ShareCount`, which `split` checks.
* `WireAssumption`: a header fits a segment; `bye` is a message of its own.
* `CellAssumption`: the name of a step of the world is none of the other
  verdicts, which the code keeps apart by their type.
* `ShellAssumption`: a plan needs finitely many things.
* `EspAssumption`: where a name has no 8.3 field, its aliases differ from one
  another and are at least `MaxItems`, as the counted tails `~1`, `~2`, ... of
  `short_alias` are.
* `ScanoutAssumption`: finitely many CRTCs, each and each connector of one GPU,
  and modes at least a pixel wide.

Definitions are written so that they can be reasoned about: `ConstellationReach`
takes an element out of a list by `Without`, since `SelectSeq` is recursive, and
`MCParts` checks the two equal on every list of the instance (`WithoutFilters`).

Only model-checked: liveness, which the provers cannot do (`RevocationSeen`,
`ClosedWithdrawn`, `CallReturns`, `AskAnswered`, `SeveredLeavesScreen`,
`CellCollected`, `ScreensRepaint`).

What would be an induction over data is avoided, since the library's induction
theorems take an operator as a parameter, which no prover here instantiates: a
sum is the cardinality of a set of pairs (`SumOf`, `Columns`), a property of all
paths is refuted at a least counterexample, which the well-foundedness of `<`
gives (`LeastNumber`).

No module with theorems reaches a RECURSIVE operator.

## Not modelled

* Cryptography (`lifestream/src/crypto.rs`, Noise, TLS, LUKS, dm-verity): ids
  determine content, a record opens only under its id and key, a handshake
  succeeds or fails.
* The chunker: a pure function of the bytes, which no property here tells apart.
* The language model (`aura/src/llama.rs`): numerics. A planner that answers
  anything stands for it.
* Byte encodings, except where a length or a slot count decides (`WireSession`,
  `EspImage`, `KeyDisk`): not the cpio archive, the verity tree, the audit
  entry's encoding, the boot sector's fields.
* Drawing, layout of the Glass, rasterising, reports; windows, focus and input
  of the compositor; the winit backend, with its one output.
* What the kernel does for a mount, a namespace or a filter, and whether the
  sandbox then confines: each is success or failure.
* The arithmetic of secret sharing: enough true shares of one split rebuild its
  key, anything else is refused or rebuilds none.
* Commands that only print, and the demos of `horizon`.
* Single branches, left out where no property depends on them: a `waitpid` that is
  interrupted or finds no child, and a report nobody knows (`cells/src/linux.rs:158`,
  `:336`); a frame that cannot be drawn or queued (`softdrm.rs:344`, `:347`); the
  place of the placeholder output in the space (`server.rs:574`). A gc is modelled
  beside snapshots, not beside a broker that is open: where `GcAlone` holds, neither
  is on.

The components marked `not_modelled` or `partly` in PROJECT.json say what is
missing in each.

## Plan

1. Weave, Lifestream store, sync: done, with the theorems above.
2. The parts: done, each with its properties in `parts` and its theorems.
3. Left: properties of the discovery of peers and of Aura's wallet, which the
   models have only in part.
