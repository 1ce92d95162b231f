------------------------------ MODULE EspImage ------------------------------
(***************************************************************************)
(* The EFI System Partition of a Key: build_esp collects the files in a     *)
(* tree (keybuild/src/lib.rs) and format lays the tree into a FAT volume    *)
(* (keybuild/src/fat.rs).  The firmware finds the boot loader through what  *)
(* is written here, and nothing else checks it.                             *)
(*                                                                         *)
(* A chain is a run of clusters, a directory the entries written into its   *)
(* chain.  A directory is rendered child by child, a child's own directory  *)
(* to its end first, and storage is handed out on the way; its size was     *)
(* computed before.  A name is known by what the writer takes of it: how it *)
(* sorts and compares, its 8.3 field, its aliases, its long-name slots.     *)
(* An entry is kept by the path it is for, which a reader does not use.     *)
(***************************************************************************)
EXTENDS Integers, Sequences, FiniteSets, SequencesExt

CONSTANTS
    Name,       \* names as they are given
    FoldCase,   \* a name's place in the order of the uppercased names
    Short,      \* its 8.3 field, if it fits one
    Alias,      \* its aliases, ~1 first
    LongSlots,  \* the directory slots of its long-name entries, 0 if none do
    Item,       \* what may be put into the tree: [path, bytes], or a folder
    Volume,     \* sizes of the partition, in MiB
    MaxItems,   \* bound on the items
    Folder, NoField

ASSUME EspAssumption ==
    /\ FoldCase \in [Name -> Nat] /\ LongSlots \in [Name -> Nat]
    /\ \A i \in Item :
          i.path \in Seq(Name) /\ i.path # << >> /\ i.bytes \in Nat \cup {Folder}
    /\ Volume \subseteq Nat \ {0} /\ MaxItems \in Nat
    /\ Folder \notin Nat
    \* No alias is tried twice, and there are enough for a directory.
    /\ \A name \in Name : Short[name] = NoField =>
          /\ \A n, m \in 1 .. MaxItems : Alias[name][n] = Alias[name][m] => n = m
          /\ 1 .. MaxItems \subseteq DOMAIN Alias[name] /\ DOMAIN Alias[name] \subseteq Nat

VARIABLES
    tree,      \* fat::Dir: a node for each path of folded names
    put,       \* how many items went into it
    phase,     \* of the build, or the error it ended with
    volume,    \* Geometry
    nextFree,  \* Builder.next_free
    chains,    \* the FAT: the length of the chain that starts at each cluster
    stored,    \* the entries of each directory, by its first cluster
    cur,       \* the directory of the innermost call of render_dir
    dirs       \* what the calls keep, by directory: those from the root to cur

render  == <<nextFree, chains, stored, cur, dirs>>
espVars == <<tree, put, phase, volume, render>>

EspPhase == {"build", "render", "written", "bad_name", "too_small", "full"}

Sector == 512
RootSlots == 512  \* FAT16_ROOT_ENTRIES

Paths == DOMAIN tree
IsFolder(p) == p = << >> \/ (p \in Paths /\ tree[p].bytes = Folder)
Folded(path) == [i \in DOMAIN path |-> FoldCase[path[i]]]

\* A function with one more value, or another.
Extended(f, x, y) == [z \in DOMAIN f \cup {x} |-> IF z = x THEN y ELSE f[z]]

\* The sum of a function's values, by counting.
SumOf(f) == Cardinality(UNION {{x} \X (1 .. f[x]) : x \in DOMAIN f})

EspTypeOK ==
    /\ \A p \in Paths : p \in Seq(Nat) /\ tree[p].name \in Name
    /\ phase \in EspPhase /\ put \in 0 .. MaxItems
    /\ nextFree \in Nat /\ DOMAIN chains \subseteq Nat /\ DOMAIN stored \subseteq Nat
    /\ cur \in Paths \cup {<< >>} /\ DOMAIN dirs \subseteq Paths \cup {<< >>}

NoVolume == [sectors |-> 0]

EspInit ==
    /\ tree = << >> /\ put = 0 /\ phase = "build"
    /\ volume = NoVolume /\ nextFree = 2
    /\ chains = << >> /\ stored = << >> /\ cur = << >> /\ dirs = << >>

-----------------------------------------------------------------------------
(* The tree.                                                               *)

Valid(name) == Short[name] # NoField \/ LongSlots[name] > 0

Above(path) == {SubSeq(path, 1, n) : n \in 1 .. Len(path) - 1}

\* insert_file, mkdir: parents are created; a file takes the place of what has
\* its name, whatever it holds, and a folder that is there stays.
Insert(item) ==
    LET at    == Folded(item.path)
        node(n) == IF n = Len(at) THEN item.bytes ELSE Folder
        replaced == {p \in Paths : item.bytes # Folder /\ IsPrefix(at, p)}
        kept  == Paths \ replaced
        made  == {SubSeq(at, 1, n) : n \in 1 .. Len(at)}
        blocked == Above(at) \cup (IF item.bytes = Folder THEN {at} ELSE {})
    IN  /\ phase = "build" /\ put < MaxItems
        /\ put' = put + 1
        /\ IF /\ \A n \in DOMAIN item.path : Valid(item.path[n])
              /\ \A p \in blocked \cap Paths : IsFolder(p)
           THEN /\ tree' = [p \in kept \cup made |->
                               IF p \in kept THEN tree[p]
                               ELSE [name  |-> item.path[Len(p)],
                                     bytes |-> node(Len(p))]]
                /\ UNCHANGED phase
           ELSE phase' = "bad_name" /\ UNCHANGED tree
        /\ UNCHANGED <<volume, render>>

-----------------------------------------------------------------------------
(* The geometry of the volume.                                             *)

CeilDiv(x, y) == (x + y - 1) \div y

\* fat_size_sectors.
FatSize(sectors, spc, reserved, rootSectors, wide) ==
    LET perSector == 256 * spc + 2
    IN  CeilDiv(sectors - (reserved + rootSectors),
                IF wide THEN perSector \div 2 ELSE perSector)

Laid(sectors, spc, wide) ==
    LET reserved    == IF wide THEN 32 ELSE 1
        rootSectors == IF wide THEN 0 ELSE (RootSlots * 32) \div Sector
        fatSize     == FatSize(sectors, spc, reserved, rootSectors, wide)
        before      == reserved + 2 * fatSize + rootSectors
    IN  [sectors |-> sectors, wide |-> wide, spc |-> spc, fatSize |-> fatSize,
         dataStart |-> before, clusters |-> (sectors - before) \div spc]

\* fat32_spc.
WideSpc(sectors) ==
    LET mib == sectors \div 2048
    IN  IF mib <= 256 THEN 1 ELSE IF mib <= 512 THEN 2 ELSE 8

\* The smallest clusters that are few enough for FAT16.
NarrowSpc(sectors) ==
    LET enough == {spc \in {1, 2, 4, 8, 16, 32, 64} :
                      Laid(sectors, spc, FALSE).clusters <= 65524}
    IN  CHOOSE spc \in enough : \A other \in enough : spc <= other

\* geometry: FAT32 (wide) from 64 MiB on.
Geometry(sectors) ==
    IF sectors >= 64 * 2048 THEN Laid(sectors, WideSpc(sectors), TRUE)
    ELSE Laid(sectors, NarrowSpc(sectors), FALSE)

\* What a reader takes the volume for, by the count of its clusters alone.
NarrowCounts == 4085 .. 65524
CountAgrees(v) ==
    IF v.wide THEN v.clusters >= 65525 ELSE v.clusters \in NarrowCounts

ClusterBytes(v) == v.spc * Sector
MaxCluster == volume.clusters + 1

-----------------------------------------------------------------------------
(* Directories.                                                            *)

Children(d) == {p \in Paths : Front(p) = d}

NameOf(p) == tree[p].name
Slots(name) == IF Short[name] # NoField THEN 0 ELSE LongSlots[name]

SlotsOf(d, slots(_)) ==
    (IF d = << >> THEN 1 ELSE 2) + SumOf([p \in Children(d) |-> 1 + slots(NameOf(p))])

\* Wrong: long names are not counted.
ContentSlotsShort(d) == SlotsOf(d, LAMBDA name : 0)

\* content_slots: the label or the dots, and what each child takes.
ContentSlots(d) == SlotsOf(d, Slots)

\* plan_children, short_alias: the field of a child, given the entries before.
\* An alias is none of the 8.3 names of the directory nor an earlier alias.
Real(d) == {Short[NameOf(p)] : p \in Children(d)} \ {NoField}
FreeAliases(p, buf) ==
    LET taken == Real(Front(p)) \cup {buf[q].field : q \in DOMAIN buf}
    IN  {n \in DOMAIN Alias[NameOf(p)] : Alias[NameOf(p)][n] \notin taken}
FieldOf(p, buf) ==
    IF Short[NameOf(p)] # NoField THEN Short[NameOf(p)]
    ELSE Alias[NameOf(p)][CHOOSE n \in FreeAliases(p, buf) : \A m \in FreeAliases(p, buf) : n <= m]

\* An entry as it is on the disk.
DirEntry(p, buf, first) ==
    [field |-> FieldOf(p, buf), slots |-> 1 + Slots(NameOf(p)),
     long |-> IF Short[NameOf(p)] = NoField THEN FoldCase[NameOf(p)] ELSE -1,
     first |-> first, bytes |-> tree[p].bytes]

\* A directory whose rendering begins.  Dotdot is what its .. will point at.
Frame(first, dotdot) == [first |-> first, dotdot |-> dotdot, buf |-> << >>]

-----------------------------------------------------------------------------
(* format.                                                                 *)

AllocFits(n) == n \in 1 .. MaxCluster - nextFree + 1

\* alloc_chain.
AllocChain(n) ==
    /\ chains' = Extended(chains, nextFree, n)
    /\ nextFree' = nextFree + n

\* The clusters of a directory.
DirClusters(d, v) ==
    LET n == CeilDiv(ContentSlots(d) * 32, ClusterBytes(v))
    IN  IF n = 0 THEN 1 ELSE n

\* The root: slots of its own on FAT16, the first chain on FAT32.
RootFits(v) ==
    IF v.wide THEN DirClusters(<< >>, v) \in 1 .. v.clusters
    ELSE ContentSlots(<< >>) <= RootSlots

Format(mib) ==
    LET v == Geometry(mib * 2048)
        n == DirClusters(<< >>, v)
    IN  /\ phase = "build"
        /\ volume' = v
        /\ \/ /\ ~ CountAgrees(v) /\ phase' = "too_small"
              /\ UNCHANGED render
           \/ /\ CountAgrees(v) /\ ~ RootFits(v)
              /\ phase' = "full"
              /\ UNCHANGED render
           \/ /\ CountAgrees(v) /\ RootFits(v)
              /\ phase' = "render"
              /\ nextFree' = IF v.wide THEN 2 + n ELSE 2
              /\ chains' = IF v.wide THEN Extended(chains, 2, n) ELSE chains
              /\ dirs' = Extended(dirs, << >>, Frame(IF v.wide THEN 2 ELSE 0, 0))
              /\ UNCHANGED <<stored, cur>>
        /\ UNCHANGED <<tree, put>>

\* The root of a FAT16 volume has a region of its own, at no cluster.
RootDir == IF volume.wide THEN 2 ELSE 0

Turn == phase = "render" /\ DOMAIN dirs # {}
Top == dirs[cur]
Remaining == Children(cur) \ DOMAIN Top.buf
HasChild == Remaining # {}
Child == CHOOSE p \in Remaining : \A q \in Remaining : p[Len(p)] <= q[Len(q)]

\* The dirs with the child's entry in the directory's.
Grown(first) ==
    Extended(dirs, cur,
             [first |-> Top.first, dotdot |-> Top.dotdot,
              buf |-> Extended(Top.buf, Child, DirEntry(Child, Top.buf, first))])

\* What a path needs: an empty file nothing.
PathClusters(p) ==
    IF IsFolder(p) THEN DirClusters(p, volume)
    ELSE CeilDiv(tree[p].bytes, ClusterBytes(volume))
ChildClusters == PathClusters(Child)

\* render_dir, one child.  A folder is rendered before the next one.
RenderChild ==
    /\ Turn /\ HasChild
    /\ ChildClusters = 0 \/ AllocFits(ChildClusters)
    /\ IF ChildClusters = 0 THEN UNCHANGED <<chains, nextFree>>
       ELSE AllocChain(ChildClusters)
    /\ LET first  == IF ChildClusters = 0 THEN 0 ELSE nextFree
           dotdot == IF cur = << >> THEN 0 ELSE Top.first
       IN  IF IsFolder(Child)
           THEN /\ dirs' = Extended(Grown(first), Child, Frame(first, dotdot))
                /\ cur' = Child
           ELSE dirs' = Grown(first) /\ UNCHANGED cur
    /\ UNCHANGED <<tree, put, phase, volume, stored>>

\* alloc_chain has no room left.
RenderFull ==
    /\ Turn /\ HasChild
    /\ ChildClusters > 0 /\ ~ AllocFits(ChildClusters)
    /\ phase' = "full"
    /\ UNCHANGED <<tree, put, volume, render>>

\* The end of render_dir: its entries go into its chain.
RenderEnd ==
    /\ Turn /\ ~ HasChild
    /\ stored' = Extended(stored, Top.first, [dotdot |-> Top.dotdot, entries |-> Top.buf])
    /\ dirs' = [d \in DOMAIN dirs \ {cur} |-> dirs[d]]
    /\ cur' = Front(cur)
    /\ UNCHANGED <<tree, put, phase, volume, nextFree, chains>>

\* write_fats, the boot sector, FSInfo: both copies of the FAT, one after the
\* other, may run over what comes behind them: the root.
FatSpills ==
    (volume.clusters + 2) * (IF volume.wide THEN 4 ELSE 2) > volume.fatSize * Sector

WriteFats ==
    /\ phase = "render" /\ DOMAIN dirs = {}
    /\ phase' = "written"
    /\ stored' = [c \in {c \in DOMAIN stored : FatSpills => c # RootDir} |-> stored[c]]
    /\ UNCHANGED <<tree, put, volume, nextFree, chains, cur, dirs>>

EspNext ==
    \/ \E item \in Item : Insert(item)
    \/ \E mib \in Volume : Format(mib)
    \/ RenderChild \/ RenderFull \/ RenderEnd \/ WriteFats

EspSpec == EspInit /\ [][EspNext]_espVars

-----------------------------------------------------------------------------
(* What a reader of the volume finds.                                      *)

\* The slots in a directory's storage.
RoomOf(first) ==
    IF first = 0 THEN RootSlots ELSE chains[first] * (ClusterBytes(volume) \div 32)

\* The entry by a path's last name in the directory at this cluster.
EntryOf(first, p) ==
    LET name == tree[p].name
    IN  {e \in Range(stored[first].entries) :
            IF Short[name] = NoField THEN e.long = FoldCase[name] ELSE e.field = Short[name]}

\* No chain runs into another or beyond the volume.
ChainsApart ==
    /\ \A c, d \in DOMAIN chains : c < d => c + chains[c] <= d
    /\ \A c \in DOMAIN chains : c >= 2 /\ c + chains[c] - 1 <= MaxCluster

\* A folder is above each path, and a file has nothing below it.
TreeHangsTogether ==
    \A p \in Paths : \A n \in 1 .. Len(p) - 1 :
        SubSeq(p, 1, n) \in Paths /\ tree[SubSeq(p, 1, n)].bytes = Folder

\* The first cluster of a path, found from the root on.
Found[p \in Paths \cup {<< >>}] ==
    IF p = << >> THEN RootDir
    ELSE (CHOOSE e \in EntryOf(Found[Front(p)], p) : TRUE).first

\* Of every path there is one entry, with its size and a chain of its clusters.
PathsReadBack ==
    \A p \in Paths :
        /\ \E e \in EntryOf(Found[Front(p)], p) :
              EntryOf(Found[Front(p)], p) = {e} /\ e.bytes = tree[p].bytes
        /\ Found[p] = 0 <=> tree[p].bytes = 0
        /\ Found[p] # 0 => chains[Found[p]] = PathClusters(p)

\* No two entries of a directory have the same field, their slots fit its chain,
\* and its .. names its parent.
FoldersReadBack ==
    \A p \in Paths \cup {<< >>} : IsFolder(p) =>
        LET dir == stored[Found[p]]
        IN  /\ \A q, r \in DOMAIN dir.entries :
                  dir.entries[q].field = dir.entries[r].field => q = r
            /\ (IF p = << >> THEN 1 ELSE 2)
                   + SumOf([q \in DOMAIN dir.entries |-> dir.entries[q].slots])
                   <= RoomOf(Found[p])
            /\ dir.dotdot = IF Len(p) <= 1 THEN 0 ELSE Found[Front(p)]

\* The tree needs more than the root of a FAT16 volume or the clusters hold.
DoesNotFit ==
    \/ ~ volume.wide /\ ContentSlots(<< >>) > RootSlots
    \/ (IF volume.wide THEN DirClusters(<< >>, volume) ELSE 0)
          + SumOf([p \in Paths |-> PathClusters(p)]) > volume.clusters

\* What is built reads back: of every path there is one entry, found from the
\* root on, with its size and a chain of exactly its clusters, within the
\* volume and shared with nothing; no two entries of a directory have the same
\* field, their slots fit its chain and its .. names its parent; and the count
\* of the clusters says the type of the volume ("firmware that keys off the
\* count agrees").  What is refused for want of room does not fit.
EspReadsBack ==
    /\ TreeHangsTogether
    /\ phase = "written" =>
        /\ CountAgrees(volume)
        /\ volume.dataStart + volume.clusters * volume.spc <= volume.sectors
        /\ RootDir \in DOMAIN stored
        /\ PathsReadBack /\ ChainsApart /\ FoldersReadBack
    /\ phase = "full" => DoesNotFit
=============================================================================
