------------------------------ MODULE KeyDisk -------------------------------
(***************************************************************************)
(* The build of a Key: one run of horizon-keybuild after another into the   *)
(* same output directory (keybuild/src/main.rs), and the disk a run puts     *)
(* together from what is there (disk_parts and write_disk in                *)
(* keybuild/src/lib.rs, build in keybuild/src/gpt.rs), as the init reads it  *)
(* (crates/init).                                                           *)
(*                                                                         *)
(* The flags of a run say which images it builds; the others are what an     *)
(* earlier run left, which may have failed or been killed at any step.  An   *)
(* image is known by the run it is from.                                    *)
(***************************************************************************)
EXTENDS Integers, Sequences, FiniteSets, SequencesExt

CONSTANTS
    Invocations,  \* the flags the tool is run with, of Invocation
    ImageBytes,   \* the size of the image a run builds
    MaxRuns       \* bound on the runs

Image == {"base", "verity", "home", "initramfs", "esp", "data"}

\* Kernel and loader: whether one is given.
Flag == {"verity", "home", "initramfs", "esp", "disk", "kernel", "loader"}
Invocation == [Flag -> BOOLEAN]

ASSUME KeyDiskAssumption ==
    /\ Invocations \subseteq Invocation /\ MaxRuns \in Nat
    /\ ImageBytes \in [Image \X (1 .. MaxRuns) -> Nat]

VARIABLES
    turn,     \* how many runs there were
    flags,    \* of the run
    making,   \* the image it makes next; "free" if no run is on
    anchor,   \* KeySpec.verity_root: the run whose base it hashes, or 0
    images,   \* the images in the output directory
    keyImage  \* key.img; << >> if there is none, or only a part of one

diskVars == <<turn, flags, making, anchor, images, keyImage>>

\* of: the base a hash tree is of, or whose root hash the loader's entry has;
\* initrd: the initramfs in an ESP; 0 if none.
ImageFile == [from : Nat, whole : BOOLEAN, bytes : Nat, of : Nat, initrd : Nat]

DiskTypeOK ==
    /\ turn \in 0 .. MaxRuns /\ flags \in Invocation /\ anchor \in 0 .. MaxRuns
    /\ making \in Image \cup {"free", "key", "done"}
    /\ DOMAIN images \subseteq Image /\ Range(images) \subseteq ImageFile

NoFlags == [f \in Flag |-> FALSE]

DiskInit ==
    /\ turn = 0 /\ flags = NoFlags /\ making = "free" /\ anchor = 0
    /\ images = << >> /\ keyImage = << >>

-----------------------------------------------------------------------------
(* A run.                                                                  *)

Order == <<"base", "verity", "home", "initramfs", "esp", "data", "key", "done">>

\* Wrong: a disk is put together from the ESP that is there.
WantedNoEsp(image) ==
    CASE image \in {"base", "done"} -> TRUE
      [] image \in {"verity", "initramfs"} -> flags[image]
      [] image = "home" -> flags.home \/ flags.disk
      [] image = "esp" -> flags.esp
      [] image \in {"data", "key"} -> flags.disk

\* What the flags ask for; a disk asks for its Home layer and its ESP.
Wanted(image) ==
    CASE image \in {"base", "done"} -> TRUE
      [] image \in {"verity", "initramfs"} -> flags[image]
      [] image \in {"home", "esp"} -> flags[image] \/ flags.disk
      [] image \in {"data", "key"} -> flags.disk

Following(image) ==
    LET after == {i \in DOMAIN Order : \E j \in 1 .. i - 1 : Order[j] = image}
        next  == {i \in after : Wanted(Order[i])}
    IN  Order[CHOOSE i \in next : \A j \in next : i <= j]

\* Arguments that do not parse, no passphrase or no keyfile: nothing is built.
RunTool(given) ==
    /\ making \in {"free", "done"} /\ turn < MaxRuns
    /\ turn' = turn + 1
    /\ flags' = given /\ anchor' = 0
    /\ making' = "base"
    /\ UNCHANGED <<images, keyImage>>

With(image, file) ==
    [i \in DOMAIN images \cup {image} |-> IF i = image THEN file ELSE images[i]]
Made(image, of, initrd) ==
    [from |-> turn, whole |-> TRUE, bytes |-> ImageBytes[<<image, turn>>], of |-> of,
     initrd |-> initrd]
InPart(image) == [Made(image, 0, 0) EXCEPT !.whole = FALSE]

Build(image) ==
    /\ making = image
    /\ images' = With(image, Made(image, 0, 0))
    /\ making' = Following(image)
    /\ UNCHANGED <<turn, flags, anchor, keyImage>>

BuildBase      == Build("base")
BuildHome      == Build("home")
BuildInitramfs == Build("initramfs")
BuildData      == Build("data")

\* build_verity, and the root hash goes into the spec.
BuildVerity ==
    /\ making = "verity"
    /\ images' = With("verity", Made("verity", images["base"].from, 0))
    /\ anchor' = images["base"].from
    /\ making' = Following("verity")
    /\ UNCHANGED <<turn, flags, keyImage>>

\* build_esp, populate_esp: a kernel and a loader or neither; the initramfs is
\* the one in the output directory.
BuildEsp ==
    /\ making = "esp"
    /\ flags.kernel <=> flags.loader
    /\ flags.kernel => "initramfs" \in DOMAIN images
    /\ images' = With("esp", IF flags.kernel
                             THEN Made("esp", anchor, images["initramfs"].from)
                             ELSE Made("esp", 0, 0))
    /\ making' = Following("esp")
    /\ UNCHANGED <<turn, flags, anchor, keyImage>>

\* A step that fails or is killed ends the run; what it was writing may be left
\* in part, or removed where the old one is removed first.
Fail ==
    /\ making \in Image \cup {"key"}
    /\ \/ UNCHANGED <<images, keyImage>>
       \/ /\ making = "key" /\ keyImage' = << >>
          /\ UNCHANGED images
       \/ /\ making \in Image /\ images' = With(making, InPart(making))
          /\ UNCHANGED keyImage
       \/ /\ making = "base" /\ images' = [i \in DOMAIN images \ {"base"} |-> images[i]]
          /\ UNCHANGED keyImage
    /\ making' = "free"
    /\ UNCHANGED <<turn, flags, anchor>>

-----------------------------------------------------------------------------
(* The disk.                                                               *)

\* disk_parts: the partitions, a hash tree among them if base.verity exists, be it
\* an earlier run's.
DiskParts == IF "verity" \in DOMAIN images
             THEN <<"esp", "base", "verity", "data", "home">>
             ELSE <<"esp", "base", "data", "home">>

EntryArray == 32       \* sectors
FirstUsable == 2 + EntryArray
AlignUp(sectors) == ((sectors + 2047) \div 2048) * 2048

RegionSectors(bytes) ==
    LET whole == (bytes + 511) \div 512
    IN  AlignUp(IF whole = 0 THEN 1 ELSE whole)

\* Where gpt::build places each partition, at the next boundary, and the backup
\* behind the last.
Cursor(parts) ==
    LET cursor[i \in 1 .. Len(parts) + 1] ==
            IF i = 1 THEN AlignUp(FirstUsable)
            ELSE cursor[i - 1] + RegionSectors(images[parts[i - 1]].bytes)
    IN  cursor

Gpt(parts) ==
    LET backup == Cursor(parts)[Len(parts) + 1]
        entry(i) == [label |-> parts[i], first |-> Cursor(parts)[i],
                     last |-> Cursor(parts)[i + 1] - 1]
    IN  [entries |-> [i \in DOMAIN parts |-> entry(i)],
         backup  |-> backup,
         sectors |-> backup + EntryArray + 1]

\* write_disk: each image is copied to where its entry says it starts.
WriteDisk ==
    LET table == Gpt(DiskParts)
        copy(i) == [first |-> table.entries[i].first, file |-> images[DiskParts[i]]]
    IN  /\ making = "key"
        /\ Range(DiskParts) \subseteq DOMAIN images
        /\ keyImage' = [table  |-> table,
                        copied |-> [i \in DOMAIN DiskParts |-> copy(i)]]
        /\ making' = "done"
        /\ UNCHANGED <<turn, flags, anchor, images>>

DiskNext ==
    \/ \E given \in Invocations : RunTool(given)
    \/ BuildBase \/ BuildVerity \/ BuildHome \/ BuildInitramfs \/ BuildEsp \/ BuildData
    \/ WriteDisk \/ Fail

DiskSpec == DiskInit /\ [][DiskNext]_diskVars

-----------------------------------------------------------------------------
(* What is on the disk.                                                    *)

\* The first entry with this label, if there is one.
FirstNamed(label) ==
    LET entries == keyImage.table.entries
        named   == {i \in DOMAIN entries : entries[i].label = label}
    IN  {i \in named : \A j \in named : i <= j}

\* What starts where that entry says (resolve_partlabel).
Resolved(label) ==
    {c.file : c \in {copy \in Range(keyImage.copied) :
                        \E i \in FirstNamed(label) :
                            copy.first = keyImage.table.entries[i].first}}

\* The sectors an image covers.
EndOf(c) == c.first + (c.file.bytes + 511) \div 512

\* A disk that is reported built boots one run's images, whatever earlier runs left.
\* The ESP, base, data and Home labels each find the image this run built, whole.
\* The loader's entry has a root hash only if this run was to build a hash tree;
\* then HORIZON-VERITY finds that tree, which is over this base.  Otherwise an
\* earlier run's tree may lie there, laid because base.verity exists, and nothing
\* refers to it.  If the disk boots at all it has an initramfs, this run's if it was
\* to build one.  And no image runs into another, into either copy of the table, or
\* off its boundary.
BootsOneBuild ==
    making = "done" /\ flags.disk =>
        /\ \A label \in {"esp", "base", "data", "home"} :
              \E file \in Resolved(label) :
                  Resolved(label) = {file} /\ file.from = turn /\ file.whole
        /\ flags.verity =>
              \E tree \in Resolved("verity") :
                  Resolved("verity") = {tree} /\ tree.from = turn /\ tree.whole
        /\ \A esp \in Resolved("esp"), base \in Resolved("base") :
              /\ flags.kernel => esp.initrd # 0
              /\ flags.kernel /\ flags.initramfs => esp.initrd = turn
              /\ esp.of # 0 <=> flags.kernel /\ flags.verity
              /\ esp.of # 0 =>
                    /\ esp.of = base.from
                    /\ \A tree \in Resolved("verity") : tree.of = base.from
        /\ \A c \in Range(keyImage.copied) :
              /\ c.first % 2048 = 0 /\ c.first >= FirstUsable
              /\ EndOf(c) <= keyImage.table.backup
        /\ \A c, d \in Range(keyImage.copied) :
              c.first < d.first => EndOf(c) <= d.first
        /\ keyImage.table.sectors >= keyImage.table.backup + EntryArray + 1
=============================================================================
