------------------------------- MODULE BootUp -------------------------------
(***************************************************************************)
(* From the kernel to the session: horizon-init, PID 1 of the initramfs     *)
(* (crates/init), and `horizon boot`, which it becomes (boot_cmd in         *)
(* crates/horizon/src/main.rs, crates/boot).                                *)
(*                                                                         *)
(* The init decides one thing at a time from what it finds: which           *)
(* partitions have shown up, whether the base is verified, whether the      *)
(* store's partition may be written, which store is on it, which key opens  *)
(* the Home layer, and what it hands on.  Block devices appear while it     *)
(* looks, and any mount or helper may fail.  What fails a boot ends it.     *)
(*                                                                         *)
(* A key is what a passphrase derives or a device unwraps (see StoreKeys).  *)
(***************************************************************************)
EXTENDS Integers

CONSTANTS
    BootKey,   \* the keys there are
    Cmdlines,  \* kernel command lines, of Cmdline
    Media,     \* what may be plugged in, of Medium
    NoKey, TornSlots

Partition == {"base", "hash", "data", "home"}

\* device: what horizon.fido2 or horizon.token names; "bad" is one that cannot
\* be read.
Cmdline == [mode : {"auto", "ghost", "home"}, verity : BOOLEAN,
            device : {"none", "token", "bad"}]

\* Its partitions, how many stores are on the data partition, the key of the
\* Home layer, of the store's HEAD and of the keyslot the device opens.
Medium == [parts : SUBSET Partition, stores : 0 .. 2, home : BootKey,
           head : BootKey \cup {NoKey}, slot : BootKey \cup {NoKey, TornSlots}]

ASSUME BootAssumption ==
    /\ Cmdlines \subseteq Cmdline /\ Media \subseteq Medium
    /\ NoKey # TornSlots /\ {NoKey, TornSlots, "tmpfs"} \cap BootKey = {}

VARIABLES
    cmdline, medium,
    drivers,    \* whether the modules loaded
    nodes,      \* the partitions that have shown up
    at,         \* what the init does next
    lower,      \* the overlay's lower layer
    resolved,   \* store_part and home_dev: those of the two that were there
    data,       \* how the data partition is mounted
    carried,    \* whether the store goes into the new root
    recovered,  \* the key recover_master returned
    upper,      \* the overlay's upper layer: a tmpfs or what this key opened
    handed,     \* the key in the memfd
    session     \* the key the session runs on

given    == <<cmdline, medium>>
machine  == <<given, drivers, nodes>>
store    == <<resolved, data, carried>>
bootKeys == <<recovered, upper, handed, session>>
bootVars == <<machine, at, lower, store, bootKeys>>

BootStage == {"early", "modules", "base", "verity", "parts", "data", "discover", "unlock",
              "home", "stash", "layers", "root", "session", "running", "dead"}

BootTypeOK ==
    /\ cmdline \in Cmdlines /\ medium \in Media
    /\ drivers \in BOOLEAN
    /\ nodes \subseteq medium.parts
    /\ at \in BootStage
    /\ lower \in {"none", "raw", "verified"}
    /\ resolved \subseteq {"data", "home"}
    /\ data \in {"none", "ro", "rw"}
    /\ carried \in BOOLEAN
    /\ recovered \in BootKey \cup {NoKey} /\ handed \in BootKey \cup {NoKey}
    /\ upper \in BootKey \cup {"tmpfs"}
    /\ session \in BootKey \cup {NoKey}

BootInit ==
    /\ cmdline \in Cmdlines /\ medium \in Media
    /\ drivers = FALSE /\ nodes = {}
    /\ at = "early"
    /\ lower = "none" /\ resolved = {} /\ data = "none" /\ carried = FALSE
    /\ recovered = NoKey /\ upper = "tmpfs" /\ handed = NoKey /\ session = NoKey

-----------------------------------------------------------------------------
(* The kernel and the base.                                                *)

\* An error ends the init, and with it the boot.
Die ==
    /\ at' = "dead"
    /\ UNCHANGED <<machine, lower, store, bootKeys>>

\* mount_proc and early_mounts, before anything is looked at.
MountEarly ==
    /\ at = "early"
    /\ \/ Die
       \/ /\ at' = "modules"
          /\ UNCHANGED <<machine, lower, store, bootKeys>>

\* load_modules: a module that does not load is logged and the boot goes on.
LoadModules ==
    /\ at = "modules"
    /\ drivers' \in BOOLEAN
    /\ at' = "base"
    /\ UNCHANGED <<given, nodes, lower, store, bootKeys>>

\* The kernel's scan of the partitions goes on while the init runs.
Appear(n) ==
    /\ drivers /\ n \in medium.parts \ nodes
    /\ at \in {"base", "verity", "parts"}
    /\ nodes' = nodes \cup {n}
    /\ UNCHANGED <<given, drivers, at, lower, store, bootKeys>>

\* The base is polled for, for 8 seconds.
ResolveBase ==
    /\ at = "base"
    /\ \/ "base" \notin nodes /\ Die
       \/ /\ "base" \in nodes
          /\ at' = "verity"
          /\ UNCHANGED <<machine, lower, store, bootKeys>>

\* verity_open, if the command line has a root hash; the hash device is looked
\* for once.
OpenVerity ==
    /\ at = "verity"
    /\ \/ cmdline.verity /\ Die
       \/ /\ cmdline.verity => "hash" \in nodes
          /\ lower' = IF cmdline.verity THEN "verified" ELSE "raw"
          /\ at' = "parts"
          /\ UNCHANGED <<machine, store, bootKeys>>

-----------------------------------------------------------------------------
(* The store and the Home layer.                                           *)

\* Both are looked for once: one that shows up later is not there.
ResolveParts ==
    /\ at = "parts"
    /\ resolved' = nodes \cap {"data", "home"}
    /\ at' = "data"
    /\ UNCHANGED <<machine, lower, data, carried, bootKeys>>

\* home_wanted.
HomeWanted == cmdline.mode # "ghost" /\ {"data", "home"} \subseteq resolved

\* Wrong: the command line alone decides how the partition is mounted.
MountDataByMode ==
    /\ at = "data"
    /\ \/ "data" \in resolved /\ Die
       \/ /\ data' = IF "data" \notin resolved THEN "none"
                     ELSE IF cmdline.mode # "ghost" THEN "rw" ELSE "ro"
          /\ at' = IF "data" \in resolved THEN "discover" ELSE "layers"
          /\ UNCHANGED <<machine, lower, resolved, carried, bootKeys>>

MountData ==
    /\ at = "data"
    /\ \/ "data" \in resolved /\ Die
       \/ /\ data' = IF "data" \notin resolved THEN "none"
                     ELSE IF HomeWanted THEN "rw" ELSE "ro"
          /\ at' = IF "data" \in resolved THEN "discover" ELSE "layers"
          /\ UNCHANGED <<machine, lower, resolved, carried, bootKeys>>

\* boot::discover: one store is carried, none or several leave a Ghost without.
Discover ==
    /\ at = "discover"
    /\ carried' = (medium.stores = 1)
    /\ at' = IF medium.stores = 1 /\ HomeWanted THEN "unlock" ELSE "layers"
    /\ UNCHANGED <<machine, lower, resolved, data, bootKeys>>

\* boot::unlock: what a keyslot holds for the device, or what is typed; none
\* if there is a device and the keyslots do not decode.
UnlockKeys ==
    IF cmdline.device = "none" \/ medium.slot = NoKey THEN BootKey
    ELSE {medium.slot} \ {TornSlots}

\* authenticator: the device the command line names can be read.
DeviceReadable == cmdline.device # "bad"

\* recover_master, which proves nothing.
RecoverMaster ==
    /\ at = "unlock"
    /\ \/ Die
       \/ /\ DeviceReadable
          /\ recovered' \in UnlockKeys
          /\ at' = "home"
          /\ UNCHANGED <<machine, lower, store, upper, handed, session>>

\* luks_open.
OpenHome ==
    /\ at = "home"
    /\ \/ Die
       \/ /\ recovered = medium.home
          /\ upper' = recovered
          /\ at' = "stash"
          /\ UNCHANGED <<machine, lower, store, recovered, handed, session>>

\* stash_master, whose failure is logged.
StashMaster ==
    /\ at = "stash"
    /\ handed' \in {recovered, NoKey}
    /\ at' = "layers"
    /\ UNCHANGED <<machine, lower, store, recovered, upper, session>>

-----------------------------------------------------------------------------
(* The new root and the session.                                           *)

\* plan(recipe), up to the last step: the layers, the overlay, the store.
MountLayers ==
    /\ at = "layers"
    /\ \/ Die
       \/ /\ at' = "root"
          /\ UNCHANGED <<machine, lower, store, bootKeys>>

\* Its last step: the new root becomes the root, and its init is executed.
SwitchRoot ==
    /\ at = "root"
    /\ \/ Die
       \/ /\ at' = "session"
          /\ UNCHANGED <<machine, lower, store, bootKeys>>

\* take_handed_master, or one the passphrase derives, for the init names no
\* device to `horizon boot`.
SessionKeys == IF handed # NoKey THEN {handed} ELSE BootKey

\* boot_cmd: the key is proved by HEAD if there is one.  Without a store there
\* is no session.
StartSession ==
    /\ at = "session"
    /\ \/ Die
       \/ /\ carried
          /\ \E key \in SessionKeys :
                /\ medium.head \in {NoKey, key}
                /\ session' = key
          /\ at' = "running"
          /\ UNCHANGED <<machine, lower, store, recovered, upper, handed>>

BootNext ==
    \/ \E n \in Partition : Appear(n)
    \/ MountEarly \/ LoadModules \/ ResolveBase \/ OpenVerity \/ ResolveParts
    \/ MountData \/ Discover \/ RecoverMaster \/ OpenHome \/ StashMaster
    \/ MountLayers \/ SwitchRoot \/ StartSession

BootSpec == BootInit /\ [][BootNext]_bootVars

-----------------------------------------------------------------------------

\* A session is what the command line and the medium allow, whatever showed up
\* late, was missing or failed on the way: over a verified base if a root hash
\* was given; writing to the store and the Home layer both or neither ("a
\* Foreign Surface gets no writes"), and never when told to be a Ghost; on the
\* key HEAD is sealed under, which is also the Home layer's if it was handed on.
BootSound ==
    at = "running" =>
        /\ cmdline.verity => lower = "verified"
        /\ data = "rw" <=> upper # "tmpfs"
        /\ cmdline.mode = "ghost" => upper = "tmpfs"
        /\ medium.head # NoKey => session = medium.head
        /\ handed # NoKey => session = upper
=============================================================================
