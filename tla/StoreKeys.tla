----------------------------- MODULE StoreKeys ------------------------------
(***************************************************************************)
(* The ways to the master key of a store, and what is done with a key that  *)
(* is not it: the passphrase, keyslots (crates/identity), recovery shares   *)
(* (crates/reconstitution), the boot's unlock (crates/boot), and the        *)
(* commands of crates/horizon that use them.                                *)
(*                                                                         *)
(* A passphrase that is mistyped derives another key.  Opening a store      *)
(* checks that it is one and not the key; only reading HEAD does, and not   *)
(* every command reads it.  A keyslot is the key its device unwraps from    *)
(* it, a split the key its shares rebuild, a generation the key its objects *)
(* are sealed under.  Commands run at the same time, and nothing locks the  *)
(* keyslots file, which is loaded, added to, emptied and written.           *)
(***************************************************************************)
EXTENDS Integers, Sequences, FiniteSets, FiniteSetsExt

CONSTANTS
    Key,            \* what passphrases derive
    Device,         \* tokens and security keys
    Command,        \* processes
    Threshold,      \* the k and the n of a split
    ShareCount,
    MaxSlots,       \* bounds on the keyslots, the splits, the generations
    MaxSplits,
    MaxGenerations,
    Nothing,        \* no device, no key
    Torn,           \* a keyslots file that does not decode
    KeyFaults       \* the faults that may happen, of KeyFaultKind

\* A command is killed while it writes the keyslots, or HEAD.
KeyFaultKind == {"torn_save", "torn_head"}

ASSUME KeysAssumption ==
    /\ Nothing \notin Device \cup Key
    /\ Torn \notin Seq([device : Device, key : Key])
    /\ Threshold \in Nat \ {0} /\ ShareCount \in Nat /\ Threshold <= ShareCount
    /\ MaxSlots \in Nat /\ MaxSplits \in Nat /\ MaxGenerations \in Nat
    /\ KeyFaults \subseteq KeyFaultKind

VARIABLES
    keyslots,    \* the keyslots file, empty if there is none
    splits,      \* the keys that were split, in order
    generations, \* HEAD's history, oldest first: their key and what is left of them
    command,     \* what each process does
    saved,       \* history: the keyslots that were saved, in order
    overlapped   \* history: two commands had loaded the keyslots to save them

keysHist == <<saved, overlapped>>
keysVars == <<keyslots, splits, generations, command, keysHist>>

Keyslot == [device : Device, key : Key]
Share == [split : DOMAIN splits, x : 1 .. ShareCount, sound : BOOLEAN]

\* "bare" is a generation whose tree is gone.
Left == {"whole", "bare", "gone"}

Op == {"none", "boot", "unlock", "open", "enroll", "reenroll"}

\* To prove the key, to load, save and write the keyslots, to say so; the answers.
CommandStage == {"idle", "prove", "load", "save", "write", "answer", "ok", "refused"}

KeysTypeOK ==
    /\ keyslots \in Seq(Keyslot) \cup {Torn}
    /\ splits \in Seq(Key)
    /\ generations \in Seq([key : Key, left : Left])
    /\ command \in [Command -> [op : Op, device : Device \cup {Nothing},
                    key : Key \cup {Nothing}, slots : Seq(Keyslot), stage : CommandStage]]
    /\ saved \in Seq(Keyslot) /\ overlapped \in BOOLEAN

NoCommand == [op |-> "none", device |-> Nothing, key |-> Nothing, slots |-> << >>,
              stage |-> "idle"]

KeysInit ==
    /\ keyslots = << >> /\ splits = << >> /\ generations = << >>
    /\ command = [c \in Command |-> NoCommand]
    /\ saved = << >> /\ overlapped = FALSE

-----------------------------------------------------------------------------
(* From a device, or shares, to a key.                                     *)

\* Keyslots::unlock_any: the key of the first slot this device opens, if any.
UnlockAny(slots, d) ==
    {slots[i].key : i \in {k \in DOMAIN slots :
        slots[k].device = d /\ \A j \in 1 .. (k - 1) : slots[j].device # d}}

\* combine: shares of one split, no index twice, at least the threshold, and
\* those of them it interpolates true, whichever come first.
Combine(given) ==
    LET of == {s.split : s \in given}
    IN  IF /\ Cardinality(of) = 1
           /\ \A s, t \in given : s.x = t.x => s = t
           /\ Cardinality(given) >= Threshold
           /\ \E first \in kSubset(Threshold, given) : \A s \in first : s.sound
        THEN splits[CHOOSE i \in of : TRUE]
        ELSE Nothing

HeadKey == IF generations = << >> THEN Nothing ELSE generations[Len(generations)].key

\* prove, and the like in recon_cmd and identity_cmd: HEAD is decrypted if
\* there is one.
Proves(key) == HeadKey \in {Nothing, key}

-----------------------------------------------------------------------------
(* Commands that unlock or recover.                                        *)

Free(c) == command[c].stage \in {"idle", "ok", "refused"}

Become(c, op, d, key, stage) ==
    command' = [command EXCEPT ![c] = [op |-> op, device |-> d, key |-> key,
                                       slots |-> << >>, stage |-> stage]]

\* A keyslot of the device, or what is typed when none of them opens.
Unlocked(d) ==
    LET keys == IF d = Nothing THEN {} ELSE UnlockAny(keyslots, d)
    IN  IF keys = {} THEN Key ELSE keys

\* boot::unlock: keyslots that cannot be loaded end it, if there is a device.
Boot(c, d) ==
    /\ Free(c)
    /\ IF d # Nothing /\ keyslots = Torn
       THEN Become(c, "boot", d, Nothing, "refused")
       ELSE \E key \in Unlocked(d) : Become(c, "boot", d, key, "prove")
    /\ UNCHANGED <<keyslots, splits, generations, keysHist>>

\* identity unlock: with or without one.
IdentityUnlock(c, d) ==
    /\ Free(c)
    /\ IF keyslots = Torn
       THEN Become(c, "unlock", d, Nothing, "refused")
       ELSE \E key \in Unlocked(d) : Become(c, "unlock", d, key, "prove")
    /\ UNCHANGED <<keyslots, splits, generations, keysHist>>

\* What any shares give.
Rebuilt == {Combine(given) : given \in UNION {kSubset(n, Share) : n \in 0 .. ShareCount}}

\* Wrong: that the shares do not combine is not looked at.
RecoverAnyway(c, d) ==
    /\ Free(c)
    /\ \E key \in Rebuilt : Become(c, IF d = Nothing THEN "open" ELSE "reenroll", d, key, "prove")
    /\ UNCHANGED <<keyslots, splits, generations, keysHist>>

\* reconstitute open, and identity reenroll with the device to enroll; no more
\* shares are handed in than a split has.
Recover(c, d) ==
    /\ Free(c)
    /\ \E key \in Rebuilt :
          Become(c, IF d = Nothing THEN "open" ELSE "reenroll", d, key,
                 IF key = Nothing THEN "refused" ELSE "prove")
    /\ UNCHANGED <<keyslots, splits, generations, keysHist>>

Prove(c) ==
    /\ command[c].stage = "prove"
    /\ command' = [command EXCEPT ![c].stage =
                       IF ~ Proves(command[c].key) THEN "refused"
                       ELSE IF command[c].op = "reenroll" THEN "load" ELSE "ok"]
    /\ UNCHANGED <<keyslots, splits, generations, keysHist>>

-----------------------------------------------------------------------------
(* Commands that enroll or split.                                          *)

\* identity enroll: the typed key is not proved.
Enroll(c, d) ==
    /\ Free(c)
    /\ \E key \in Key : Become(c, "enroll", d, key, "load")
    /\ UNCHANGED <<keyslots, splits, generations, keysHist>>

\* Another command has loaded the keyslots and not written them yet.
AnotherSaves(c) == \E k \in Command \ {c} : command[k].stage \in {"save", "write"}

\* Wrong: keyslots that do not decode are taken for none.
LoadAnyKeyslots(c) ==
    LET there == IF keyslots = Torn THEN << >> ELSE keyslots
    IN  /\ command[c].stage = "load" /\ Len(there) < MaxSlots
        /\ command' = [command EXCEPT ![c].stage = "save",
               ![c].slots = Append(there, [device |-> command[c].device,
                                           key |-> command[c].key])]
        /\ overlapped' = (overlapped \/ AnotherSaves(c))
        /\ UNCHANGED <<keyslots, splits, generations, saved>>

LoadKeyslots(c) ==
    /\ command[c].stage = "load"
    /\ \/ /\ keyslots = Torn
          /\ command' = [command EXCEPT ![c].stage = "refused"]
          /\ UNCHANGED overlapped
       \/ /\ keyslots # Torn /\ Len(keyslots) < MaxSlots
          /\ command' = [command EXCEPT ![c].stage = "save",
                 ![c].slots = Append(keyslots, [device |-> command[c].device,
                                                key |-> command[c].key])]
          /\ overlapped' = (overlapped \/ AnotherSaves(c))
    /\ UNCHANGED <<keyslots, splits, generations, saved>>

\* save_keyslots empties the file, then writes it.
EmptyKeyslots(c) ==
    /\ command[c].stage = "save"
    /\ keyslots' = Torn
    /\ command' = [command EXCEPT ![c].stage = "write"]
    /\ UNCHANGED <<splits, generations, keysHist>>

\* What is saved after an overlap is no longer kept account of.
SaveKeyslots(c) ==
    /\ command[c].stage = "write"
    /\ keyslots' = command[c].slots
    /\ command' = [command EXCEPT ![c].stage = "answer", ![c].slots = << >>]
    /\ saved' = IF overlapped THEN saved
                ELSE Append(saved, [device |-> command[c].device, key |-> command[c].key])
    /\ UNCHANGED <<splits, generations, overlapped>>

AnswerEnroll(c) ==
    /\ command[c].stage = "answer"
    /\ command' = [command EXCEPT ![c].stage = "ok"]
    /\ UNCHANGED <<keyslots, splits, generations, keysHist>>

\* Killed, or its write of the keyslots fails.
CrashCommand(c) ==
    /\ ~ Free(c)
    /\ command[c].stage = "write" => "torn_save" \in KeyFaults
    /\ command' = [command EXCEPT ![c] = NoCommand]
    /\ UNCHANGED <<keyslots, splits, generations, keysHist>>

\* reconstitute split: the typed key is not proved.
SplitKey(key) ==
    /\ Len(splits) < MaxSplits
    /\ splits' = Append(splits, key)
    /\ UNCHANGED <<keyslots, generations, command, keysHist>>

-----------------------------------------------------------------------------
(* Commands that use the key they are typed, unproved (LifestreamStore has  *)
(* their steps).                                                           *)

\* lifestream snapshot: a generation under this key, upon the HEAD there is.
TakeSnapshot(key) ==
    /\ Len(generations) < MaxGenerations
    /\ generations' = Append(generations, [key |-> key, left |-> "whole"])
    /\ UNCHANGED <<keyslots, splits, command, keysHist>>

\* A snapshot is killed while set_ref writes HEAD: get_ref reads none, so HEAD has
\* no history and any key is proved.
TearHead ==
    /\ "torn_head" \in KeyFaults
    /\ generations' = << >>
    /\ UNCHANGED <<keyslots, splits, command, keysHist>>

\* lifestream gc: what this key reads is followed, the rest is not.
CollectGarbage(key) ==
    LET reads(i) == generations[i].key = key /\ generations[i].left # "gone"
        reached(i) == \A j \in (i + 1) .. Len(generations) : reads(j)
    IN  /\ generations' = [i \in DOMAIN generations |->
               IF generations[i].left = "gone" \/ ~ reached(i)
               THEN [generations[i] EXCEPT !.left = "gone"]
               ELSE [generations[i] EXCEPT !.left = IF reads(i) THEN @ ELSE "bare"]]
        /\ UNCHANGED <<keyslots, splits, command, keysHist>>

-----------------------------------------------------------------------------

KeysNext ==
    \/ \E c \in Command :
          \/ Prove(c) \/ LoadKeyslots(c) \/ EmptyKeyslots(c) \/ SaveKeyslots(c)
          \/ AnswerEnroll(c) \/ CrashCommand(c)
          \/ \E d \in Device \cup {Nothing} : Boot(c, d) \/ IdentityUnlock(c, d) \/ Recover(c, d)
          \/ \E d \in Device : Enroll(c, d)
    \/ \E key \in Key : SplitKey(key) \/ TakeSnapshot(key) \/ CollectGarbage(key)
    \/ TearHead

KeysSpec == KeysInit /\ [][KeysNext]_keysVars

-----------------------------------------------------------------------------

\* Keyslots "are additive" (identity_cmd): the file is what was saved, in the
\* order it was, so a device opens the key it was first enrolled with, whichever
\* enrollments came, failed or died since, at any of their steps.  A save that is
\* cut leaves a file that does not decode, which nobody takes for an empty one and
\* saves over.  Two enrollments at the same time are outside the claim: the later
\* save undoes the earlier.
KeyslotsKept == ~ overlapped /\ keyslots # Torn => keyslots = saved

\* "Keep everything reachable from roots": what HEAD reaches is there.
ReachableKept == \A i \in DOMAIN generations : generations[i].left = "whole"
=============================================================================
