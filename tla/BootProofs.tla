----------------------------- MODULE BootProofs -----------------------------
(***************************************************************************)
(* Proofs about the ways to a store's key, about the boot, and about the   *)
(* ESP and the disk a Key is built of, for any keys, devices, commands,    *)
(* media, command lines, trees of files and runs of the builder.           *)
(***************************************************************************)
EXTENDS StoreKeys, BootUp, KeyDisk, EspImage, SequenceTheorems, FiniteSetTheorems,
        WellFoundedInduction, NaturalsInduction, TLAPS

-----------------------------------------------------------------------------
(* The ways to a key, StoreKeys.                                           *)

\* A command that loads, saves or writes the keyslots enrolls a device with a
\* key, and one that proves a key has one.
EnrollsKey(is) ==
    /\ is.stage \in {"load", "save", "write"} =>
          is.op \in {"enroll", "reenroll"} /\ is.device \in Device /\ is.key \in Key
    /\ is.stage = "prove" =>
          is.key \in Key /\ (is.op = "reenroll" => is.device \in Device)

KeysInv == KeysTypeOK /\ \A c \in Command : EnrollsKey(command[c])

CommandState == [op : Op, device : Device \cup {Nothing}, key : Key \cup {Nothing},
             slots : Seq(Keyslot), stage : CommandStage]

\* The slots a device opens hold keys, and so does what is typed.
LEMMA UnlockedTyped ==
    ASSUME KeysTypeOK, NEW d, d = Nothing \/ keyslots # Torn
    PROVE  Unlocked(d) \subseteq Key
<1>1. CASE d = Nothing
  BY <1>1 DEF Unlocked
<1>2. CASE d # Nothing
  <2>1. keyslots \in Seq(Keyslot)
    BY <1>2 DEF KeysTypeOK
  <2>2. \A i \in DOMAIN keyslots : keyslots[i] \in Keyslot
    BY <2>1
  <2>3. UnlockAny(keyslots, d) \subseteq Key
    BY <2>2 DEF UnlockAny, Keyslot
  <2>4. QED
    BY <1>2, <2>3 DEF Unlocked
<1>3. QED
  BY <1>1, <1>2

\* Shares that combine are of one split, and rebuild the key that was split.
LEMMA RebuiltTyped ==
    ASSUME KeysTypeOK
    PROVE  Rebuilt \subseteq Key \cup {Nothing}
<1> SUFFICES ASSUME NEW shares \in SUBSET Share
             PROVE  Combine(shares) \in Key \cup {Nothing}
  BY DEF Rebuilt, kSubset
<1> DEFINE of == {s.split : s \in shares}
<1>1. of \subseteq DOMAIN splits
  BY DEF Share
<1>2. \A i \in DOMAIN splits : splits[i] \in Key
  BY DEF KeysTypeOK
<1>3. CASE of = {}
  <2>1. Cardinality(of) = 0
    BY <1>3, FS_EmptySet
  <2>2. QED
    BY <2>1 DEF Combine
<1>4. CASE of # {}
  <2>1. (CHOOSE i \in of : TRUE) \in of
    BY <1>4
  <2>2. splits[CHOOSE i \in of : TRUE] \in Key
    BY <2>1, <1>1, <1>2
  <2>3. QED
    BY <2>2 DEF Combine
<1>5. QED
  BY <1>3, <1>4

\* A step of one command.
LEMMA CommandStep ==
    ASSUME KeysInv, NEW c \in Command, NEW is \in CommandState, EnrollsKey(is),
           command' = [command EXCEPT ![c] = is],
           keyslots' \in Seq(Keyslot) \cup {Torn}, UNCHANGED <<splits, generations>>,
           saved' \in Seq(Keyslot), overlapped' \in BOOLEAN
    PROVE  KeysInv'
<1>1. command \in [Command -> CommandState]
  BY DEF KeysInv, KeysTypeOK, CommandState
<1>2. command' \in [Command -> CommandState]
  BY <1>1
<1>3. KeysTypeOK'
  BY <1>2 DEF KeysInv, KeysTypeOK, CommandState
<1>4. \A k \in Command : EnrollsKey(command'[k])
  BY <1>1 DEF KeysInv
<1>5. QED
  BY <1>3, <1>4 DEF KeysInv

\* A command that starts over.
LEMMA BecomeStep ==
    ASSUME KeysInv, NEW c \in Command, NEW o \in Op, NEW d \in Device \cup {Nothing},
           NEW key \in Key \cup {Nothing}, NEW stage \in CommandStage,
           Become(c, o, d, key, stage), UNCHANGED <<keyslots, splits, generations, keysHist>>,
           stage \in {"load", "prove"} => key \in Key,
           stage \in {"load", "prove"} /\ o # "boot" /\ o # "unlock" /\ o # "open" =>
               d \in Device /\ o # "none",
           stage = "load" => o = "enroll",
           stage \notin {"save", "write"}
    PROVE  KeysInv'
<1> DEFINE is == [op |-> o, device |-> d, key |-> key, slots |-> << >>, stage |-> stage]
<1>1. is \in CommandState
  BY DEF CommandState
<1>2. EnrollsKey(is)
  BY DEF EnrollsKey
<1>3. keyslots' \in Seq(Keyslot) \cup {Torn}
  BY DEF KeysInv, KeysTypeOK
<1>4. command' = [command EXCEPT ![c] = is]
  BY DEF Become
<1>5. saved' \in Seq(Keyslot) /\ overlapped' \in BOOLEAN
  BY DEF KeysInv, KeysTypeOK, keysHist
<1>6. UNCHANGED <<splits, generations>>
  OBVIOUS
<1>7. QED
  BY <1>1, <1>2, <1>3, <1>4, <1>5, <1>6, CommandStep

\* A step keeps the types, and what the steps of a command rely on.
LEMMA KeysInvStep ==
    ASSUME KeysInv, [KeysNext]_keysVars
    PROVE  KeysInv'
<1>t. KeysTypeOK /\ command \in [Command -> CommandState]
  BY DEF KeysInv, KeysTypeOK, CommandState
<1>k. keyslots \in Seq(Keyslot) \cup {Torn}
  BY <1>t DEF KeysTypeOK
<1>h. saved \in Seq(Keyslot) /\ overlapped \in BOOLEAN
  BY <1>t DEF KeysTypeOK
<1>1. ASSUME NEW c \in Command, NEW d \in Device \cup {Nothing}, Boot(c, d)
      PROVE  KeysInv'
  <2>1. CASE d # Nothing /\ keyslots = Torn
    BY <1>1, <2>1, BecomeStep DEF Boot, Op, CommandStage
  <2>2. CASE ~ (d # Nothing /\ keyslots = Torn)
    <3>1. PICK key \in Unlocked(d) : Become(c, "boot", d, key, "prove")
      BY <1>1, <2>2 DEF Boot
    <3>2. key \in Key
      BY <2>2, <1>t, UnlockedTyped
    <3>3. UNCHANGED <<keyslots, splits, generations, keysHist>>
      BY <1>1 DEF Boot
    <3>4. QED
      BY <3>1, <3>2, <3>3, BecomeStep DEF Op, CommandStage
  <2>3. QED
    BY <2>1, <2>2
<1>2. ASSUME NEW c \in Command, NEW d \in Device \cup {Nothing}, IdentityUnlock(c, d)
      PROVE  KeysInv'
  <2>1. CASE keyslots = Torn
    BY <1>2, <2>1, BecomeStep DEF IdentityUnlock, Op, CommandStage
  <2>2. CASE keyslots # Torn
    <3>1. PICK key \in Unlocked(d) : Become(c, "unlock", d, key, "prove")
      BY <1>2, <2>2 DEF IdentityUnlock
    <3>2. key \in Key
      BY <2>2, <1>t, UnlockedTyped
    <3>3. UNCHANGED <<keyslots, splits, generations, keysHist>>
      BY <1>2 DEF IdentityUnlock
    <3>4. QED
      BY <3>1, <3>2, <3>3, BecomeStep DEF Op, CommandStage
  <2>3. QED
    BY <2>1, <2>2
<1>3. ASSUME NEW c \in Command, NEW d \in Device \cup {Nothing}, Recover(c, d)
      PROVE  KeysInv'
  <2>1. PICK key \in Rebuilt :
            Become(c, IF d = Nothing THEN "open" ELSE "reenroll", d, key,
                   IF key = Nothing THEN "refused" ELSE "prove")
    BY <1>3 DEF Recover
  <2>2. key \in Key \cup {Nothing}
    BY <1>t, RebuiltTyped
  <2>3. UNCHANGED <<keyslots, splits, generations, keysHist>>
    BY <1>3 DEF Recover
  <2>4. CASE d = Nothing
    BY <2>1, <2>2, <2>3, <2>4, BecomeStep DEF Op, CommandStage
  <2>5. CASE d # Nothing
    BY <2>1, <2>2, <2>3, <2>5, BecomeStep DEF Op, CommandStage
  <2>6. QED
    BY <2>4, <2>5
<1>4. ASSUME NEW c \in Command, NEW d \in Device, Enroll(c, d)
      PROVE  KeysInv'
  <2>1. PICK key \in Key : Become(c, "enroll", d, key, "load")
    BY <1>4 DEF Enroll
  <2>2. UNCHANGED <<keyslots, splits, generations, keysHist>>
    BY <1>4 DEF Enroll
  <2>3. QED
    BY <2>1, <2>2, BecomeStep DEF Op, CommandStage
<1>5. ASSUME NEW c \in Command, Prove(c)
      PROVE  KeysInv'
  <2>h. saved' \in Seq(Keyslot) /\ overlapped' \in BOOLEAN
    BY <1>h, <1>5 DEF Prove, keysHist
  <2> DEFINE answer == IF ~ Proves(command[c].key) THEN "refused"
                       ELSE IF command[c].op = "reenroll" THEN "load" ELSE "ok"
             is == [command[c] EXCEPT !.stage = answer]
  <2>1. command[c] \in CommandState /\ EnrollsKey(command[c]) /\ command[c].stage = "prove"
    BY <1>t, <1>5 DEF Prove, KeysInv
  <2>2. is \in CommandState
    BY <2>1 DEF CommandState, CommandStage
  <2>3. EnrollsKey(is)
    BY <2>1 DEF EnrollsKey, CommandState
  <2>4. command' = [command EXCEPT ![c] = is] /\ UNCHANGED <<keyslots, splits, generations>>
    BY <1>t, <1>5 DEF Prove
  <2>5. QED
    BY <2>h, <2>2, <2>3, <2>4, <1>k, CommandStep
<1>6. ASSUME NEW c \in Command, LoadKeyslots(c)
      PROVE  KeysInv'
  <2>1. command[c] \in CommandState /\ EnrollsKey(command[c]) /\ command[c].stage = "load"
        /\ UNCHANGED <<keyslots, splits, generations>>
    BY <1>t, <1>6 DEF LoadKeyslots, KeysInv
  <2>h. saved' \in Seq(Keyslot) /\ overlapped' \in BOOLEAN
    BY <1>h, <1>6 DEF LoadKeyslots
  <2>2. CASE keyslots = Torn /\ command' = [command EXCEPT ![c].stage = "refused"]
    <3> DEFINE is == [command[c] EXCEPT !.stage = "refused"]
    <3>1. is \in CommandState /\ EnrollsKey(is)
      BY <2>1 DEF CommandState, CommandStage, EnrollsKey
    <3>2. command' = [command EXCEPT ![c] = is]
      BY <1>t, <2>2
    <3>3. QED
      BY <2>1, <2>h, <3>1, <3>2, <1>k, CommandStep
  <2>3. ASSUME keyslots # Torn,
               command' = [command EXCEPT ![c].stage = "save",
                   ![c].slots = Append(keyslots, [device |-> command[c].device,
                                                  key |-> command[c].key])]
        PROVE  KeysInv'
    <3> DEFINE slot == [device |-> command[c].device, key |-> command[c].key]
               new == Append(keyslots, slot)
               is == [command[c] EXCEPT !.stage = "save", !.slots = new]
    <3>1. slot \in Keyslot
      BY <2>1 DEF EnrollsKey, Keyslot
    <3>2. new \in Seq(Keyslot)
      BY <1>k, <2>3, <3>1, AppendProperties
    <3> HIDE DEF new
    <3>3. is \in CommandState
      BY <2>1, <3>2 DEF CommandState, CommandStage
    <3>4. EnrollsKey(is)
      BY <2>1 DEF EnrollsKey, CommandState
    <3>5. command' = [command EXCEPT ![c] = is]
      BY <1>t, <2>3 DEF new
    <3>6. QED
      BY <2>1, <2>h, <3>3, <3>4, <3>5, <1>k, CommandStep
  <2>4. QED
    BY <1>6, <2>2, <2>3 DEF LoadKeyslots
<1>7. ASSUME NEW c \in Command, EmptyKeyslots(c)
      PROVE  KeysInv'
  <2> DEFINE is == [command[c] EXCEPT !.stage = "write"]
  <2>1. command[c] \in CommandState /\ EnrollsKey(command[c]) /\ command[c].stage = "save"
    BY <1>t, <1>7 DEF EmptyKeyslots, KeysInv
  <2>2. is \in CommandState /\ EnrollsKey(is)
    BY <2>1 DEF CommandState, CommandStage, EnrollsKey
  <2>3. command' = [command EXCEPT ![c] = is] /\ keyslots' = Torn
        /\ UNCHANGED <<splits, generations>>
        /\ saved' \in Seq(Keyslot) /\ overlapped' \in BOOLEAN
    BY <1>t, <1>h, <1>7 DEF EmptyKeyslots, keysHist
  <2>4. QED
    BY <2>2, <2>3, CommandStep
<1>8. ASSUME NEW c \in Command, SaveKeyslots(c)
      PROVE  KeysInv'
  <2> DEFINE is == [command[c] EXCEPT !.stage = "answer", !.slots = << >>]
             slot == [device |-> command[c].device, key |-> command[c].key]
  <2>1. command[c] \in CommandState /\ EnrollsKey(command[c]) /\ command[c].stage = "write"
    BY <1>t, <1>8 DEF SaveKeyslots, KeysInv
  <2>2. is \in CommandState /\ EnrollsKey(is)
    <3>1. << >> \in Seq(Keyslot)
      OBVIOUS
    <3>2. is.stage = "answer" /\ is \in CommandState
      BY <2>1, <3>1 DEF CommandState, CommandStage
    <3>3. QED
      BY <3>2 DEF EnrollsKey
  <2>3. command' = [command EXCEPT ![c] = is] /\ keyslots' \in Seq(Keyslot)
        /\ UNCHANGED <<splits, generations>>
    BY <1>t, <2>1, <1>8 DEF SaveKeyslots, CommandState
  <2>4. saved' \in Seq(Keyslot) /\ overlapped' \in BOOLEAN
    <3>1. slot \in Keyslot
      BY <2>1 DEF EnrollsKey, Keyslot
    <3>2. Append(saved, slot) \in Seq(Keyslot)
      BY <1>h, <3>1, AppendProperties
    <3>3. QED
      BY <1>h, <1>8, <3>2 DEF SaveKeyslots
  <2>5. QED
    BY <2>2, <2>3, <2>4, CommandStep
<1>a. ASSUME NEW c \in Command, AnswerEnroll(c)
      PROVE  KeysInv'
  <2> DEFINE is == [command[c] EXCEPT !.stage = "ok"]
  <2>1. command[c] \in CommandState
    BY <1>t
  <2>2. is \in CommandState /\ EnrollsKey(is)
    BY <2>1 DEF CommandState, CommandStage, EnrollsKey
  <2>3. command' = [command EXCEPT ![c] = is] /\ UNCHANGED <<keyslots, splits, generations>>
        /\ saved' \in Seq(Keyslot) /\ overlapped' \in BOOLEAN
    BY <1>t, <1>h, <1>a DEF AnswerEnroll, keysHist
  <2>4. QED
    BY <2>2, <2>3, <1>k, CommandStep
<1>9. ASSUME NEW c \in Command, CrashCommand(c)
      PROVE  KeysInv'
  <2>1. NoCommand \in CommandState /\ EnrollsKey(NoCommand)
    BY DEF NoCommand, CommandState, Op, CommandStage, EnrollsKey
  <2>2. QED
    BY <1>9, <2>1, <1>k, <1>h, CommandStep DEF CrashCommand, keysHist
<1>10. ASSUME NEW key \in Key, SplitKey(key) \/ TakeSnapshot(key)
       PROVE  KeysInv'
  <2>1. splits' \in Seq(Key) /\ generations' \in Seq([key : Key, left : Left])
    <3>1. splits \in Seq(Key) /\ generations \in Seq([key : Key, left : Left])
      BY <1>t DEF KeysTypeOK
    <3>2. [key |-> key, left |-> "whole"] \in [key : Key, left : Left]
      BY DEF Left
    <3>3. CASE SplitKey(key)
      BY <3>1, <3>3, AppendProperties DEF SplitKey
    <3>4. CASE TakeSnapshot(key)
      BY <3>1, <3>2, <3>4, AppendProperties DEF TakeSnapshot
    <3>5. QED
      BY <1>10, <3>3, <3>4
  <2>2. UNCHANGED <<keyslots, command, saved, overlapped>>
    BY <1>10 DEF SplitKey, TakeSnapshot, keysHist
  <2>3. QED
    BY <2>1, <2>2, <1>k, <1>h, <1>t DEF KeysInv, KeysTypeOK
<1>11. ASSUME NEW key \in Key, CollectGarbage(key)
       PROVE  KeysInv'
  <2>1. \A i \in DOMAIN generations : generations[i] \in [key : Key, left : Left]
    <3>1. generations \in Seq([key : Key, left : Left])
      BY <1>t DEF KeysTypeOK
    <3> DEFINE G == [key : Key, left : Left]
    <3>2. generations \in Seq(G)
      BY <3>1
    <3> HIDE DEF G
    <3>3. \A i \in DOMAIN generations : generations[i] \in G
      BY <3>2
    <3>4. QED
      BY <3>3 DEF G
  <2>2. UNCHANGED <<keyslots, splits, command, saved, overlapped>>
    BY <1>11 DEF CollectGarbage, keysHist
  <2>3. PICK l : generations' = [i \in DOMAIN generations |->
                      [generations[i] EXCEPT !.left = l[i]]]
                 /\ \A i \in DOMAIN generations : l[i] \in Left
    <3> DEFINE reads(i) == generations[i].key = key /\ generations[i].left # "gone"
               reached(i) == \A j \in (i + 1) .. Len(generations) : reads(j)
               left == [i \in DOMAIN generations |->
                           IF generations[i].left = "gone" \/ ~ reached(i) THEN "gone"
                           ELSE IF reads(i) THEN generations[i].left ELSE "bare"]
    <3>1. \A i \in DOMAIN generations : left[i] \in Left
      BY <2>1 DEF Left
    <3>2. generations' = [i \in DOMAIN generations |->
                             [generations[i] EXCEPT !.left = left[i]]]
      BY <1>11 DEF CollectGarbage
    <3>3. QED
      BY <3>1, <3>2
  <2>4. \A i \in DOMAIN generations :
            [generations[i] EXCEPT !.left = l[i]] \in [key : Key, left : Left]
    BY <2>1, <2>3
  <2>5. generations \in Seq([key : Key, left : Left])
    BY <1>t DEF KeysTypeOK
  <2>6. Len(generations) \in Nat /\ DOMAIN generations = 1 .. Len(generations)
    BY <2>5
  <2>7. generations' \in Seq([key : Key, left : Left])
    BY <2>3, <2>4, <2>6
  <2>8. QED
    BY <2>2, <2>7, <1>k, <1>h, <1>t DEF KeysInv, KeysTypeOK
<1>12. CASE UNCHANGED keysVars
  BY <1>12, <1>k, <1>h, <1>t DEF keysVars, keysHist, KeysInv, KeysTypeOK
<1>b. CASE TearHead
  <2>1. generations' \in Seq([key : Key, left : Left])
    BY <1>b DEF TearHead
  <2>2. UNCHANGED <<keyslots, splits, command, saved, overlapped>>
    BY <1>b DEF TearHead, keysHist
  <2>3. QED
    BY <2>1, <2>2, <1>k, <1>h, <1>t DEF KeysInv, KeysTypeOK
<1>13. QED
  BY <1>1, <1>2, <1>3, <1>4, <1>5, <1>6, <1>7, <1>8, <1>9, <1>10, <1>11, <1>12,
     <1>a, <1>b DEF KeysNext

\* What the steps of a command rely on holds throughout.
THEOREM KeysInvCorrect == KeysSpec => []KeysInv
<1>1. KeysInit => KeysInv
  <2>1. /\ << >> \in Seq(Keyslot) /\ << >> \in Seq(Key)
        /\ << >> \in Seq([key : Key, left : Left])
    OBVIOUS
  <2>2. NoCommand \in CommandState /\ EnrollsKey(NoCommand)
    BY <2>1 DEF NoCommand, CommandState, Op, CommandStage, EnrollsKey
  <2>3. KeysInit => KeysTypeOK
    BY <2>1, <2>2 DEF KeysInit, KeysTypeOK, CommandState
  <2>4. QED
    BY <2>2, <2>3 DEF KeysInit, KeysInv
<1>2. KeysInv /\ [KeysNext]_keysVars => KeysInv'
  BY KeysInvStep
<1>3. QED
  BY <1>1, <1>2, PTL DEF KeysSpec

\* The keyslots, splits, generations and commands are of their types throughout.
THEOREM KeysTypeCorrect == KeysSpec => []KeysTypeOK
BY KeysInvCorrect, PTL DEF KeysInv

\* What the last command to load the keyslots will save.
Slot(c) == [device |-> command[c].device, key |-> command[c].key]
Saving(c) == command[c].stage \in {"save", "write"}

\* Before an overlap: one command at most is about to save, it adds its slot to what
\* was saved, and the file is that, or torn.
SlotsKept ==
    ~ overlapped =>
        /\ \A c, k \in Command : Saving(c) /\ Saving(k) => c = k
        /\ \A c \in Command : Saving(c) => command[c].slots = Append(saved, Slot(c))
        /\ keyslots # Torn => keyslots = saved

\* A command takes a step that leaves the keyslots, and does not begin to save.
LEMMA SlotsKeptBesides ==
    ASSUME KeysInv, SlotsKept, NEW c \in Command, NEW is,
           command' = [command EXCEPT ![c] = is], is.stage \notin {"save", "write"},
           UNCHANGED <<keyslots, saved>>, overlapped' = overlapped
    PROVE  SlotsKept'
<1>1. command \in [Command -> CommandState]
  BY DEF KeysInv, KeysTypeOK, CommandState
<1>2. command'[c] = is /\ \A k \in Command : k # c => command'[k] = command[k]
  BY <1>1
<1>3. \A k \in Command : Saving(k)' => k # c /\ Saving(k) /\ Slot(k)' = Slot(k)
  BY <1>2 DEF Saving, Slot
<1>4. QED
  BY <1>2, <1>3 DEF SlotsKept

LEMMA SlotsKeptStep ==
    ASSUME KeysInv, SlotsKept, [KeysNext]_keysVars
    PROVE  SlotsKept'
<1>t. command \in [Command -> CommandState]
  BY DEF KeysInv, KeysTypeOK, CommandState
<1>1. ASSUME NEW c \in Command, NEW d \in Device \cup {Nothing},
             Boot(c, d) \/ IdentityUnlock(c, d) \/ Recover(c, d)
      PROVE  SlotsKept'
  <2>1. \E op, key, stage : Become(c, op, d, key, stage) /\ stage \notin {"save", "write"}
    <3>1. CASE Boot(c, d)
      BY <3>1 DEF Boot
    <3>2. CASE IdentityUnlock(c, d)
      BY <3>2 DEF IdentityUnlock
    <3>3. CASE Recover(c, d)
      BY <3>3 DEF Recover
    <3>4. QED
      BY <1>1, <3>1, <3>2, <3>3
  <2>2. UNCHANGED <<keyslots, saved>> /\ overlapped' = overlapped
    BY <1>1 DEF Boot, IdentityUnlock, Recover, keysHist
  <2>3. QED
    BY <2>1, <2>2, SlotsKeptBesides DEF Become
<1>2. ASSUME NEW c \in Command, NEW d \in Device, Enroll(c, d)
      PROVE  SlotsKept'
  BY <1>2, SlotsKeptBesides DEF Enroll, Become, keysHist
<1>3. ASSUME NEW c \in Command, Prove(c) \/ AnswerEnroll(c)
      PROVE  SlotsKept'
  <2>1. PICK stage \in {"refused", "load", "ok"} :
            command' = [command EXCEPT ![c] = [command[c] EXCEPT !.stage = stage]]
    BY <1>t, <1>3 DEF Prove, AnswerEnroll
  <2>2. [command[c] EXCEPT !.stage = stage].stage = stage
    BY <1>t DEF CommandState
  <2>3. QED
    BY <1>3, <2>1, <2>2, SlotsKeptBesides DEF Prove, AnswerEnroll, keysHist
<1>4. ASSUME NEW c \in Command, LoadKeyslots(c)
      PROVE  SlotsKept'
  <2>1. CASE keyslots = Torn
    <3>1. command' = [command EXCEPT ![c] = [command[c] EXCEPT !.stage = "refused"]]
          /\ UNCHANGED <<keyslots, saved>> /\ overlapped' = overlapped
      BY <1>t, <1>4, <2>1 DEF LoadKeyslots
    <3>2. [command[c] EXCEPT !.stage = "refused"].stage = "refused"
      BY <1>t DEF CommandState
    <3>3. QED
      BY <3>1, <3>2, SlotsKeptBesides
  <2>2. CASE keyslots # Torn
    <3> DEFINE is == [command[c] EXCEPT !.stage = "save",
                                        !.slots = Append(keyslots, Slot(c))]
    <3>1. /\ command' = [command EXCEPT ![c] = is]
          /\ overlapped' = (overlapped \/ AnotherSaves(c))
          /\ UNCHANGED <<keyslots, saved>>
      BY <1>t, <1>4, <2>2 DEF LoadKeyslots, Slot
    <3>2. command'[c] = is /\ \A k \in Command : k # c => command'[k] = command[k]
      BY <1>t, <3>1
    <3>3. is.slots = Append(keyslots, Slot(c)) /\ Slot(c)' = Slot(c)
      BY <1>t, <3>2 DEF CommandState, Slot
    <3>4. SUFFICES ASSUME ~ overlapped, ~ AnotherSaves(c)
                   PROVE  SlotsKept'
      BY <3>1 DEF SlotsKept
    <3>5. keyslots = saved
      BY <2>2, <3>4 DEF SlotsKept
    <3>6. \A k \in Command : Saving(k)' => k = c
      BY <3>2, <3>4 DEF AnotherSaves, Saving
    <3>7. QED
      BY <3>1, <3>2, <3>3, <3>5, <3>6 DEF SlotsKept
  <2>3. QED
    BY <2>1, <2>2
<1>5. ASSUME NEW c \in Command, EmptyKeyslots(c)
      PROVE  SlotsKept'
  <2>1. /\ command[c].stage = "save"
        /\ command' = [command EXCEPT ![c] = [command[c] EXCEPT !.stage = "write"]]
        /\ keyslots' = Torn /\ saved' = saved /\ overlapped' = overlapped
    BY <1>t, <1>5 DEF EmptyKeyslots, keysHist
  <2>2. \A k \in Command : Saving(k)' =>
            Saving(k) /\ Slot(k)' = Slot(k) /\ command'[k].slots = command[k].slots
    BY <1>t, <2>1 DEF Saving, Slot, CommandState
  <2>3. QED
    BY <2>1, <2>2 DEF SlotsKept
<1>6. ASSUME NEW c \in Command, SaveKeyslots(c)
      PROVE  SlotsKept'
  <2>1. /\ Saving(c) /\ keyslots' = command[c].slots
        /\ command' = [command EXCEPT ![c] =
                           [command[c] EXCEPT !.stage = "answer", !.slots = << >>]]
        /\ saved' = IF overlapped THEN saved ELSE Append(saved, Slot(c))
        /\ overlapped' = overlapped
    BY <1>t, <1>6 DEF SaveKeyslots, Saving, Slot
  <2>2. \A k \in Command : Saving(k)' => k # c /\ Saving(k)
    BY <1>t, <2>1 DEF Saving, CommandState
  <2>3. SUFFICES ASSUME ~ overlapped
                 PROVE  SlotsKept'
    BY <2>1 DEF SlotsKept
  <2>4. keyslots' = saved' /\ \A k \in Command : ~ Saving(k)'
    BY <2>1, <2>2, <2>3 DEF SlotsKept
  <2>5. QED
    BY <2>4 DEF SlotsKept
<1>7. ASSUME NEW c \in Command, CrashCommand(c)
      PROVE  SlotsKept'
  BY <1>7, SlotsKeptBesides DEF CrashCommand, NoCommand, keysHist
<1>8. CASE \/ \E key \in Key : SplitKey(key) \/ TakeSnapshot(key) \/ CollectGarbage(key)
           \/ TearHead \/ UNCHANGED keysVars
  <2>1. UNCHANGED <<keyslots, command, saved, overlapped>>
    BY <1>8 DEF SplitKey, TakeSnapshot, CollectGarbage, TearHead, keysVars, keysHist
  <2>2. QED
    BY <2>1 DEF SlotsKept, Saving, Slot
<1>9. QED
  BY <1>1, <1>2, <1>3, <1>4, <1>5, <1>6, <1>7, <1>8 DEF KeysNext

\* The keyslots are what was saved, in the order it was, for any number of commands
\* that enroll one after the other, wherever they fail or die, and whatever boots,
\* unlocks and recoveries go on meanwhile: so a save that was cut is never taken
\* for an empty file and saved over.
THEOREM KeyslotsAreKept == KeysSpec => []KeyslotsKept
<1>1. KeysInit => SlotsKept
  BY DEF KeysInit, SlotsKept, Saving, NoCommand
<1>2. KeysInv /\ SlotsKept /\ [KeysNext]_keysVars => SlotsKept'
  BY SlotsKeptStep
<1>3. SlotsKept => KeyslotsKept
  BY DEF SlotsKept, KeyslotsKept
<1>4. QED
  BY <1>1, <1>2, <1>3, KeysInvCorrect, PTL DEF KeysSpec

-----------------------------------------------------------------------------
(* The boot, BootUp.                                                       *)

\* What the init has established where it is: that the base is verified from
\* the moment there is a lower layer; that the upper layer is a tmpfs and no key
\* is handed on until the Home layer is opened, which takes a store that is
\* carried and a data partition that may be written.
VerifiedSoFar ==
    at \notin {"early", "modules", "base", "verity", "dead"} =>
        (cmdline.verity => lower = "verified")

GhostSoFar ==
    at \in {"early", "modules", "base", "verity", "parts", "data", "discover", "unlock",
            "home"} =>
        upper = "tmpfs" /\ handed = NoKey

DiscoverReady ==
    at = "discover" => data = IF HomeWanted THEN "rw" ELSE "ro"

HomeReady ==
    at \in {"unlock", "home", "stash"} =>
        /\ cmdline.mode # "ghost" /\ carried /\ data = "rw"
        /\ at = "stash" => upper = recovered /\ upper \in BootKey /\ handed = NoKey

RootReady ==
    at \in {"layers", "root", "session", "running"} =>
        /\ carried => (data = "rw" <=> upper # "tmpfs")
        /\ cmdline.mode = "ghost" => upper = "tmpfs"
        /\ handed # NoKey => handed = upper

SessionReady ==
    at = "running" =>
        /\ carried
        /\ medium.head # NoKey => session = medium.head
        /\ handed # NoKey => session = handed

BootInv == VerifiedSoFar /\ GhostSoFar /\ DiscoverReady /\ HomeReady /\ RootReady /\ SessionReady

\* A step keeps the types of the boot's state.
LEMMA BootTypeStep ==
    ASSUME BootTypeOK, [BootNext]_bootVars
    PROVE  BootTypeOK'
<1> USE BootAssumption DEF BootTypeOK, BootStage, given, machine, store, bootKeys
<1>1. CASE \E n \in Partition : Appear(n)
  BY <1>1 DEF Appear, Die
<1>2. CASE MountEarly
  BY <1>2 DEF MountEarly, Die
<1>3. CASE LoadModules
  BY <1>3 DEF LoadModules, Die
<1>4. CASE ResolveBase
  BY <1>4 DEF ResolveBase, Die
<1>5. CASE OpenVerity
  BY <1>5 DEF OpenVerity, Die
<1>6. CASE ResolveParts
  BY <1>6 DEF ResolveParts, Die
<1>7. CASE MountData
  BY <1>7 DEF MountData, Die
<1>8. CASE Discover
  BY <1>8 DEF Discover, Die
<1>9. CASE RecoverMaster
  BY <1>9 DEF RecoverMaster, Die, UnlockKeys, Cmdline, Medium
<1>10. CASE OpenHome
  BY <1>10 DEF OpenHome, Die, Medium
<1>11. CASE StashMaster
  BY <1>11 DEF StashMaster, Die
<1>12. CASE MountLayers
  BY <1>12 DEF MountLayers, Die
<1>13. CASE SwitchRoot
  BY <1>13 DEF SwitchRoot, Die
<1>14. CASE StartSession
  BY <1>14 DEF StartSession, Die, SessionKeys
<1>15. CASE UNCHANGED bootVars
  BY <1>15 DEF bootVars
<1>16. QED
  BY <1>1, <1>2, <1>3, <1>4, <1>5, <1>6, <1>7, <1>8, <1>9, <1>10, <1>11, <1>12, <1>13, <1>14, <1>15 DEF BootNext

\* A step keeps what the init has established.
LEMMA BootInvStep ==
    ASSUME BootTypeOK, BootInv, [BootNext]_bootVars
    PROVE  BootInv'
<1> USE BootAssumption DEF BootInv, VerifiedSoFar, GhostSoFar, DiscoverReady, HomeReady,
        RootReady, SessionReady, given, machine, store, bootKeys
<1>1. CASE \E n \in Partition : Appear(n)
  BY <1>1 DEF Appear, Die
<1>2. CASE MountEarly
  BY <1>2 DEF MountEarly, Die
<1>3. CASE LoadModules
  BY <1>3 DEF LoadModules, Die
<1>4. CASE ResolveBase
  BY <1>4 DEF ResolveBase, Die
<1>5. CASE OpenVerity
  BY <1>5 DEF OpenVerity, Die
<1>6. CASE ResolveParts
  BY <1>6 DEF ResolveParts, Die
<1>7. CASE MountData
  BY <1>7 DEF MountData, Die, HomeWanted
<1>8. CASE Discover
  BY <1>8 DEF Discover, Die, HomeWanted
<1>9. CASE RecoverMaster
  BY <1>9 DEF RecoverMaster, Die, BootTypeOK
<1>10. CASE OpenHome
  BY <1>10 DEF OpenHome, Die, BootTypeOK, Medium
<1>11. CASE StashMaster
  BY <1>11 DEF StashMaster, Die, BootTypeOK
<1>12. CASE MountLayers
  BY <1>12 DEF MountLayers, Die
<1>13. CASE SwitchRoot
  BY <1>13 DEF SwitchRoot, Die
<1>14. CASE StartSession
  BY <1>14 DEF StartSession, Die, SessionKeys
<1>15. CASE UNCHANGED bootVars
  BY <1>15 DEF bootVars, HomeWanted
<1>16. QED
  BY <1>1, <1>2, <1>3, <1>4, <1>5, <1>6, <1>7, <1>8, <1>9, <1>10, <1>11, <1>12, <1>13, <1>14, <1>15 DEF BootNext

\* What the boot has mounted, found and recovered is of its types throughout.
THEOREM BootTypeCorrect == BootSpec => []BootTypeOK
<1>1. BootInit => BootTypeOK
  BY BootAssumption DEF BootInit, BootTypeOK, BootStage
<1>2. BootTypeOK /\ [BootNext]_bootVars => BootTypeOK'
  BY BootTypeStep
<1>3. QED
  BY <1>1, <1>2, PTL DEF BootSpec

\* What the init has established where it is, whatever showed up late or failed.
THEOREM BootInvCorrect == BootSpec => []BootInv
<1>1. BootInit => BootInv
  BY DEF BootInit, BootInv, VerifiedSoFar, GhostSoFar, DiscoverReady, HomeReady,
         RootReady, SessionReady
<1>2. BootTypeOK /\ BootInv /\ [BootNext]_bootVars => BootInv'
  BY BootInvStep
<1>3. QED
  BY <1>1, <1>2, BootTypeCorrect, PTL DEF BootSpec

\* A session runs over a verified base if a root hash was given, writes to the
\* store and the Home layer both or neither and never as a Ghost, and runs on the
\* key HEAD is sealed under, the Home layer's if one was handed on.
THEOREM BootIsSound == BootSpec => []BootSound
<1>1. BootInv => BootSound
  BY DEF BootInv, VerifiedSoFar, RootReady, SessionReady, BootSound
<1>2. QED
  BY <1>1, BootInvCorrect, PTL

-----------------------------------------------------------------------------
(* The build of a Key, KeyDisk.                                            *)

\* What a step that the flags asked for has left: an image of this run, whole; a
\* tree over its base; an ESP with the root hash the run has, and an initramfs.
BuiltNow(image) ==
    /\ image \in DOMAIN images
    /\ images[image].from = turn /\ images[image].whole
    /\ image = "verity" => images[image].of = turn
    /\ image = "esp" =>
          /\ flags.kernel => images[image].of = anchor /\ images[image].initrd # 0
          /\ flags.kernel /\ flags.initramfs => images[image].initrd = turn
          /\ ~ flags.kernel => images[image].of = 0

\* Images are of runs there were, and the steps before the next one were made.
BuiltSoFar ==
    /\ making # "free" => turn # 0 /\ Wanted(making)
    /\ \A image \in DOMAIN images : images[image].from \in 1 .. turn
    /\ \A k \in DOMAIN Order : making = Order[k] =>
          /\ anchor = IF flags.verity /\ k > 2 THEN turn ELSE 0
          /\ \A j \in 1 .. k - 1 : Order[j] \in Image /\ Wanted(Order[j]) => BuiltNow(Order[j])

\* The disk is what write_disk makes of the images, each partition at its cursor.
Assembled(parts, cursor) ==
    /\ cursor[1] = AlignUp(FirstUsable)
    /\ \A i \in DOMAIN parts :
          cursor[i + 1] = cursor[i] + RegionSectors(images[parts[i]].bytes)
    /\ keyImage =
          [table |-> [entries |-> [i \in DOMAIN parts |->
                         [label |-> parts[i], first |-> cursor[i], last |-> cursor[i + 1] - 1]],
                      backup  |-> cursor[Len(parts) + 1],
                      sectors |-> cursor[Len(parts) + 1] + EntryArray + 1],
           copied |-> [i \in DOMAIN parts |-> [first |-> cursor[i], file |-> images[parts[i]]]]]

DiskInv ==
    /\ DiskTypeOK /\ BuiltSoFar
    /\ making = "done" /\ flags.disk =>
          \E cursor : Assembled(DiskParts, cursor) /\ Range(DiskParts) \subseteq DOMAIN images

\* A partition is whole alignment units, at least one, and holds its image.
LEMMA RegionHolds ==
    ASSUME NEW bytes \in Nat
    PROVE  /\ RegionSectors(bytes) \in Nat \ {0}
           /\ RegionSectors(bytes) % 2048 = 0
           /\ (bytes + 511) \div 512 <= RegionSectors(bytes)
<1> DEFINE whole == (bytes + 511) \div 512
           least == IF whole = 0 THEN 1 ELSE whole
<1>1. whole \in Nat /\ least \in Nat \ {0} /\ whole <= least
  OBVIOUS
<1>2. RegionSectors(bytes) = ((least + 2047) \div 2048) * 2048
  BY DEF RegionSectors, AlignUp
<1> HIDE DEF least, whole
<1>3. PICK units \in Nat \ {0} : units = (least + 2047) \div 2048 /\ least <= units * 2048
  BY <1>1
<1>4. (units * 2048) % 2048 = 0
  OBVIOUS
<1>5. QED
  BY <1>1, <1>2, <1>3, <1>4 DEF whole


\* The order of a run's steps.
LEMMA OrderOf ==
    /\ DOMAIN Order = 1 .. 8
    /\ Order[1] = "base" /\ Order[2] = "verity" /\ Order[3] = "home"
    /\ Order[4] = "initramfs" /\ Order[5] = "esp" /\ Order[6] = "data"
    /\ Order[7] = "key" /\ Order[8] = "done"
BY DEF Order

\* No step comes twice.
LEMMA OrderOnce == \A j, k \in 1 .. 8 : Order[j] = Order[k] => j = k
<1>1. \A j, k \in 1 .. 8 : j < k => Order[j] # Order[k]
  BY OrderOf
<1>2. QED
  BY <1>1

\* What the flags ask for, step by step.
LEMMA WantedIs ==
    /\ Wanted("base") = TRUE /\ Wanted("verity") = flags.verity
    /\ Wanted("key") = flags.disk /\ Wanted("done") = TRUE
<1>1. Wanted("base") = TRUE
  BY DEF Wanted
<1>2. Wanted("verity") = flags.verity
  BY DEF Wanted
<1>3. Wanted("key") = flags.disk
  BY DEF Wanted
<1>4. Wanted("done") = TRUE
  BY DEF Wanted
<1>5. QED
  BY <1>1, <1>2, <1>3, <1>4

\* The step that follows is the next one that the flags ask for.
LEMMA FollowingIs ==
    ASSUME NEW k \in 1 .. 7
    PROVE  \E m \in k + 1 .. 8 :
              /\ Following(Order[k]) = Order[m] /\ Wanted(Order[m])
              /\ \A j \in k + 1 .. m - 1 : ~ Wanted(Order[j])
<1>1. PICK after : after = {i \in DOMAIN Order : \E j \in 1 .. i - 1 : Order[j] = Order[k]}
  OBVIOUS
<1>2. after = k + 1 .. 8
  <2>1. after \subseteq 1 .. 8
    BY <1>1, OrderOf
  <2>2. \A i \in 1 .. 8 : i \in after <=> \E j \in 1 .. i - 1 : Order[j] = Order[k]
    BY <1>1, OrderOf
  <2>3. \A i \in 1 .. 8 : i \in after <=> k <= i - 1
    BY <2>2, OrderOnce
  <2>4. after \subseteq k + 1 .. 8
    BY <2>1, <2>3
  <2>5. k + 1 .. 8 \subseteq after
    BY <2>3
  <2>6. QED
    BY <2>4, <2>5, Zenon
<1>3. PICK next : next = {i \in after : Wanted(Order[i])}
  OBVIOUS
<1>4. 8 \in next
  BY <1>2, <1>3, OrderOf, WantedIs
<1>5. next \subseteq 1 .. 8
  BY <1>2, <1>3
<1>6. \E i \in next : \A j \in next : i <= j
  BY <1>4, <1>5
<1>7. PICK m : m = CHOOSE i \in next : \A j \in next : i <= j
  OBVIOUS
<1>8. m \in next /\ \A j \in next : m <= j
  BY <1>6, <1>7
<1>9. Following(Order[k]) = Order[m]
  BY <1>1, <1>3, <1>7, Zenon DEF Following
<1>10. \A j \in k + 1 .. m - 1 : ~ Wanted(Order[j])
  BY <1>2, <1>3, <1>8
<1>11. QED
  BY <1>2, <1>3, <1>8, <1>9, <1>10


\* What With adds and keeps.
LEMMA WithIs ==
    ASSUME NEW image \in Image, NEW file \in ImageFile
    PROVE  /\ DOMAIN With(image, file) = DOMAIN images \cup {image}
           /\ With(image, file)[image] = file
           /\ \A i \in DOMAIN images : i # image => With(image, file)[i] = images[i]
BY DEF With

\* The types of the images when one of this run is put among them.
LEMMA WithTyped ==
    ASSUME DiskTypeOK, BuiltSoFar, NEW image \in Image, NEW file \in ImageFile,
           file.from = turn, turn # 0
    PROVE  /\ DOMAIN With(image, file) \subseteq Image
           /\ Range(With(image, file)) \subseteq ImageFile
           /\ \A i \in DOMAIN With(image, file) : With(image, file)[i].from \in 1 .. turn
<1>1. PICK with : with = With(image, file)
  OBVIOUS
<1>2. /\ DOMAIN with = DOMAIN images \cup {image} /\ with[image] = file
      /\ \A i \in DOMAIN images : i # image => with[i] = images[i]
  <2>1. /\ DOMAIN With(image, file) = DOMAIN images \cup {image}
        /\ With(image, file)[image] = file
        /\ \A i \in DOMAIN images : i # image => With(image, file)[i] = images[i]
    BY WithIs
  <2>2. QED
    BY <1>1, <2>1, Zenon
<1>3. \A i \in DOMAIN images : images[i] \in ImageFile /\ images[i].from \in 1 .. turn
  BY DEF DiskTypeOK, BuiltSoFar, Range
<1>4. \A i \in DOMAIN with : with[i] \in ImageFile /\ with[i].from \in 1 .. turn
  <2>1. turn \in 1 .. turn
    BY DEF DiskTypeOK
  <2>2. QED
    BY <1>2, <1>3, <2>1
<1>5. DOMAIN with \subseteq Image
  BY <1>2 DEF DiskTypeOK
<1>6. Range(with) \subseteq ImageFile
  BY <1>4 DEF Range
<1>7. QED
  BY <1>1, <1>4, <1>5, <1>6

\* What a step of this run makes is an image of this run, and whole.
LEMMA MadeIs ==
    ASSUME DiskTypeOK, turn # 0, NEW image \in Image, NEW of \in Nat, NEW initrd \in Nat
    PROVE  /\ Made(image, of, initrd) \in ImageFile
           /\ Made(image, of, initrd).from = turn /\ Made(image, of, initrd).whole
           /\ Made(image, of, initrd).of = of /\ Made(image, of, initrd).initrd = initrd
           /\ InPart(image) \in ImageFile /\ InPart(image).from = turn
<1>1. turn \in 1 .. MaxRuns /\ turn \in Nat
  BY KeyDiskAssumption DEF DiskTypeOK
<1>2. ImageBytes[<<image, turn>>] \in Nat
  BY <1>1, KeyDiskAssumption
<1>3. PICK bytes \in Nat : bytes = ImageBytes[<<image, turn>>]
  BY <1>2
<1>4. \A o, i \in Nat : Made(image, o, i) = [from |-> turn, whole |-> TRUE, bytes |-> bytes, of |-> o, initrd |-> i]
  BY <1>3 DEF Made
<1>5. InPart(image) \in ImageFile /\ InPart(image).from = turn
  <2>1. PICK made : made = Made(image, 0, 0)
    OBVIOUS
  <2>2. PICK no \in BOOLEAN : no = FALSE
    OBVIOUS
  <2>3. InPart(image) = [made EXCEPT !.whole = no]
    BY <2>1, <2>2, Zenon DEF InPart
  <2>4. made \in ImageFile /\ made.from = turn
    <3>1. made = [from |-> turn, whole |-> TRUE, bytes |-> bytes, of |-> 0, initrd |-> 0]
      BY <1>4, <2>1, Zenon
    <3>2. QED
      BY <1>1, <3>1 DEF ImageFile
  <2>5. [made EXCEPT !.whole = no] \in ImageFile /\ [made EXCEPT !.whole = no].from = turn
    BY <2>4 DEF ImageFile
  <2>6. QED
    BY <2>3, <2>5, Zenon
<1>6. Made(image, of, initrd)
        = [from |-> turn, whole |-> TRUE, bytes |-> bytes, of |-> of, initrd |-> initrd]
  BY <1>4
<1>7. Made(image, of, initrd) \in ImageFile
  BY <1>1, <1>6 DEF ImageFile
<1>8. QED
  BY <1>5, <1>6, <1>7

\* A step that makes its image, and goes on to the one the flags ask for next.
LEMMA BuildStep ==
    ASSUME DiskInv, NEW k \in 1 .. 6, making = Order[k], NEW file \in ImageFile,
           file.from = turn, file.whole, Order[k] = "verity" => file.of = turn,
           Order[k] = "esp" =>
              /\ flags.kernel => file.of = anchor /\ file.initrd # 0
              /\ flags.kernel /\ flags.initramfs => file.initrd = turn
              /\ ~ flags.kernel => file.of = 0,
           images' = With(Order[k], file), making' = Following(Order[k]),
           anchor' = IF k = 2 THEN turn ELSE anchor, UNCHANGED <<turn, flags, keyImage>>
    PROVE  DiskInv'
<1>1. Order[k] \in Image /\ making # "free" /\ turn # 0 /\ Wanted(Order[k])
  BY OrderOf DEF DiskInv, BuiltSoFar, Image
<1>2. PICK m \in k + 1 .. 8 :
         /\ making' = Order[m] /\ Wanted(Order[m])
         /\ \A j \in k + 1 .. m - 1 : ~ Wanted(Order[j])
  BY FollowingIs
<1>3. PICK with : with = With(Order[k], file)
  OBVIOUS
<1>4. /\ DOMAIN with = DOMAIN images \cup {Order[k]} /\ with[Order[k]] = file
      /\ \A i \in DOMAIN images : i # Order[k] => with[i] = images[i]
  <2>1. /\ DOMAIN With(Order[k], file) = DOMAIN images \cup {Order[k]}
        /\ With(Order[k], file)[Order[k]] = file
        /\ \A i \in DOMAIN images : i # Order[k] => With(Order[k], file)[i] = images[i]
    BY <1>1, WithIs
  <2>2. QED
    BY <1>3, <2>1, Zenon
<1>5. /\ DOMAIN with \subseteq Image /\ Range(with) \subseteq ImageFile
      /\ \A i \in DOMAIN with : with[i].from \in 1 .. turn
  BY <1>1, <1>3, WithTyped DEF DiskInv
<1>6. images' = with
  BY <1>3
<1>7. \A image : Wanted(image)' <=> Wanted(image)
  BY DEF Wanted
<1>8. anchor' = IF flags.verity /\ m > 2 THEN turn ELSE 0
  <2>1. anchor = IF flags.verity /\ k > 2 THEN turn ELSE 0
    BY OrderOf DEF DiskInv, BuiltSoFar
  <2>2. CASE k = 1
    <3>1. ASSUME flags.verity
          PROVE  m = 2
      <4>1. Wanted(Order[2])
        BY <3>1, OrderOf, WantedIs
      <4>2. ~ (2 \in k + 1 .. m - 1)
        BY <1>2, <4>1
      <4>3. QED
        BY <2>2, <4>2
    <3>2. QED
      BY <2>1, <2>2, <3>1
  <2>3. CASE k = 2
    <3>1. flags.verity
      BY <1>1, <2>3, OrderOf, WantedIs
    <3>2. QED
      BY <2>3, <3>1
  <2>4. CASE k > 2
    BY <2>1, <2>4
  <2>5. QED
    BY <2>2, <2>3, <2>4
<1>9. DiskTypeOK'
  <2>1. making' \in Image \cup {"free", "key", "done"}
    BY <1>2, OrderOf DEF Image
  <2>2. anchor' \in 0 .. MaxRuns
    BY <1>8 DEF DiskInv, DiskTypeOK
  <2>3. QED
    BY <1>5, <1>6, <2>1, <2>2 DEF DiskInv, DiskTypeOK
<1>10. \A j \in 1 .. m - 1 : Order[j] \in Image /\ Wanted(Order[j]) => BuiltNow(Order[j])'
  <2>1. SUFFICES ASSUME NEW j \in 1 .. m - 1, Order[j] \in Image, Wanted(Order[j])
                 PROVE  BuiltNow(Order[j])'
    OBVIOUS
  <2>2. j <= k
    BY <1>2, <2>1
  <2>3. CASE j = k
    <3>1. k = 5 => anchor' = anchor
      OBVIOUS
    <3>2. Order[k] = "esp" => k = 5
      BY OrderOf, OrderOnce
    <3>3. QED
      BY <1>4, <1>6, <2>3, <3>1, <3>2 DEF BuiltNow
  <2>4. CASE j < k
    <3>1. BuiltNow(Order[j])
      BY <2>1, <2>4, OrderOf DEF DiskInv, BuiltSoFar
    <3>2. Order[j] # Order[k] /\ (Order[j] = "esp" => k # 2)
      BY <2>4, OrderOnce, OrderOf
    <3>3. QED
      BY <1>4, <1>6, <3>1, <3>2 DEF BuiltNow
  <2>5. QED
    BY <2>2, <2>3, <2>4
<1>11. BuiltSoFar'
  <2>1. \A i \in DOMAIN Order : Order[i] = Order[m] => i = m
    BY <1>2, OrderOnce, OrderOf
  <2>2. QED
    BY <1>1, <1>2, <1>5, <1>6, <1>7, <1>8, <1>10, <2>1 DEF BuiltSoFar
<1>12. making' = "done" => ~ flags.disk
  <2>1. SUFFICES ASSUME making' = "done" PROVE ~ flags.disk
    OBVIOUS
  <2>2. m = 8
    <3>1. m \in 1 .. 8 /\ Order[m] = Order[8]
      BY <1>2, <2>1, OrderOf
    <3>2. QED
      BY <3>1, OrderOnce
  <2>3. ~ Wanted("key")
    BY <1>2, <2>2, OrderOf
  <2>4. QED
    BY <2>3, WantedIs
<1>13. QED
  BY <1>9, <1>11, <1>12 DEF DiskInv

\* A step of a run that makes its image from nothing else.
LEMMA PlainStep ==
    ASSUME DiskInv, NEW k \in {1, 3, 4, 6}, Build(Order[k])
    PROVE  DiskInv'
<1>1. turn # 0 /\ DiskTypeOK
  BY OrderOf DEF DiskInv, BuiltSoFar, Build
<1>2. Order[k] \in Image /\ Order[k] # "verity" /\ Order[k] # "esp"
  BY OrderOf DEF Image
<1>3. PICK file : file = Made(Order[k], 0, 0)
  OBVIOUS
<1>4. file \in ImageFile /\ file.from = turn /\ file.whole
  BY <1>1, <1>2, <1>3, MadeIs
<1>5. QED
  BY <1>2, <1>3, <1>4, BuildStep DEF Build

\* The tree over the base of this run.
LEMMA VerityStep ==
    ASSUME DiskInv, BuildVerity
    PROVE  DiskInv'
<1>1. turn # 0 /\ DiskTypeOK /\ making = Order[2]
  BY OrderOf DEF DiskInv, BuiltSoFar, BuildVerity
<1>2. images["base"].from = turn
  <2>1. Order[1] = "base" /\ "base" \in Image /\ Wanted("base") /\ 2 \in DOMAIN Order
    BY OrderOf, WantedIs DEF Image
  <2>2. BuiltNow("base")
    BY <1>1, <2>1 DEF DiskInv, BuiltSoFar
  <2>3. QED
    BY <2>2 DEF BuiltNow
<1>3. turn \in Nat
  BY <1>1 DEF DiskTypeOK
<1>4. PICK file : file = Made("verity", turn, 0)
  OBVIOUS
<1>5. file \in ImageFile /\ file.from = turn /\ file.whole /\ file.of = turn
  <2>1. "verity" \in Image
    BY DEF Image
  <2>2. QED
    BY <1>1, <1>3, <1>4, <2>1, MadeIs
<1>6. /\ images' = With(Order[2], file) /\ making' = Following(Order[2])
      /\ anchor' = turn /\ UNCHANGED <<turn, flags, keyImage>>
  BY <1>2, <1>4, OrderOf DEF BuildVerity
<1>7. Order[2] # "esp"
  BY OrderOf
<1>8. QED
  BY <1>1, <1>5, <1>6, <1>7, BuildStep

\* The ESP carries the root hash this run has, and an initramfs that is there.
LEMMA EspStep ==
    ASSUME DiskInv, BuildEsp
    PROVE  DiskInv'
<1>1. turn # 0 /\ DiskTypeOK /\ making = Order[5] /\ "esp" \in Image
  BY OrderOf DEF DiskInv, BuiltSoFar, BuildEsp, Image
<1>2. anchor \in Nat
  BY <1>1 DEF DiskTypeOK
<1>3. PICK file : file = IF flags.kernel THEN Made("esp", anchor, images["initramfs"].from)
                                         ELSE Made("esp", 0, 0)
  OBVIOUS
<1>4. /\ file \in ImageFile /\ file.from = turn /\ file.whole
      /\ flags.kernel => file.of = anchor /\ file.initrd # 0
      /\ flags.kernel /\ flags.initramfs => file.initrd = turn
      /\ ~ flags.kernel => file.of = 0
  <2>1. CASE flags.kernel
    <3>1. images["initramfs"].from \in Nat \ {0}
      BY <2>1, <1>1 DEF BuildEsp, DiskInv, BuiltSoFar, DiskTypeOK
    <3>2. flags.initramfs => images["initramfs"].from = turn
      <4>1. Order[4] = "initramfs" /\ "initramfs" \in Image /\ 5 \in DOMAIN Order
        BY OrderOf DEF Image
      <4>2. flags.initramfs => Wanted("initramfs")
        BY DEF Wanted
      <4>3. flags.initramfs => BuiltNow("initramfs")
        BY <1>1, <4>1, <4>2 DEF DiskInv, BuiltSoFar
      <4>4. QED
        BY <4>3 DEF BuiltNow
    <3>3. QED
      BY <1>1, <1>2, <1>3, <2>1, <3>1, <3>2, MadeIs
  <2>2. CASE ~ flags.kernel
    BY <1>1, <1>3, <2>2, MadeIs
  <2>3. QED
    BY <2>1, <2>2
<1>5. /\ images' = With(Order[5], file) /\ making' = Following(Order[5])
      /\ UNCHANGED <<turn, flags, anchor, keyImage>>
  BY <1>3, OrderOf, Zenon DEF BuildEsp
<1>6. Order[5] = "esp" /\ Order[5] # "verity"
  BY OrderOf
<1>7. QED
  BY <1>1, <1>4, <1>5, <1>6, BuildStep

\* A run starts, from whatever earlier runs left.
LEMMA DiskRunStep ==
    ASSUME DiskInv, NEW asked \in Invocations, RunTool(asked)
    PROVE  DiskInv'
<1>1. turn \in Nat /\ turn < MaxRuns /\ turn' = turn + 1 /\ making' = "base" /\ anchor' = 0
      /\ flags' \in Invocation /\ images' = images
  BY KeyDiskAssumption DEF DiskInv, DiskTypeOK, RunTool
<1>2. DiskTypeOK'
  BY <1>1, KeyDiskAssumption DEF DiskInv, DiskTypeOK, Image
<1>3. \A image \in DOMAIN images' : images'[image].from \in 1 .. turn'
  BY <1>1 DEF DiskInv, BuiltSoFar
<1>4. \A k \in DOMAIN Order : making' = Order[k] => k = 1
  BY <1>1, OrderOf, OrderOnce
<1>5. Wanted("base")'
  BY DEF Wanted
<1>6. BuiltSoFar'
  BY <1>1, <1>3, <1>4, <1>5 DEF BuiltSoFar
<1>7. QED
  BY <1>1, <1>2, <1>6 DEF DiskInv

\* A step that fails leaves what it was writing in part, or takes it away.
LEMMA FailStep ==
    ASSUME DiskInv, Fail
    PROVE  DiskInv'
<1>1. /\ making # "free" /\ making' = "free" /\ turn # 0 /\ DiskTypeOK
      /\ turn' = turn /\ flags' = flags /\ anchor' = anchor
  BY DEF Fail, DiskInv, BuiltSoFar, Image
<1>2. /\ DOMAIN images' \subseteq Image /\ Range(images)' \subseteq ImageFile
      /\ \A i \in DOMAIN images' : images'[i].from \in 1 .. turn
  <2>1. CASE UNCHANGED images
    BY <1>1, <2>1 DEF DiskInv, DiskTypeOK, BuiltSoFar, Range
  <2>2. CASE making \in Image /\ images' = With(making, InPart(making))
    <3>1. InPart(making) \in ImageFile /\ InPart(making).from = turn
      BY <1>1, <2>2, MadeIs
    <3>2. PICK file : file = InPart(making)
      OBVIOUS
    <3>3. PICK image \in Image : image = making
      BY <2>2
    <3>4. QED
      BY <1>1, <2>2, <3>1, <3>2, <3>3, WithTyped DEF DiskInv
  <2>3. CASE images' = [i \in DOMAIN images \ {"base"} |-> images[i]]
    <3>1. /\ DOMAIN images' = DOMAIN images \ {"base"}
          /\ \A i \in DOMAIN images' : images'[i] = images[i]
      BY <2>3
    <3>2. \A i \in DOMAIN images : images[i] \in ImageFile /\ images[i].from \in 1 .. turn
      BY DEF DiskInv, DiskTypeOK, BuiltSoFar, Range
    <3>3. QED
      BY <1>1, <3>1, <3>2 DEF DiskTypeOK, Range
  <2>4. QED
    BY <2>1, <2>2, <2>3 DEF Fail
<1>3. DiskTypeOK'
  BY <1>1, <1>2 DEF DiskTypeOK
<1>4. \A k \in DOMAIN Order : Order[k] # "free"
  BY OrderOf
<1>5. BuiltSoFar'
  BY <1>1, <1>2, <1>4 DEF BuiltSoFar
<1>6. QED
  BY <1>1, <1>3, <1>5 DEF DiskInv

\* What disk_parts lists: four partitions, or five.
LEMMA PartsAre ==
    /\ Len(DiskParts) \in 4 .. 5 /\ DOMAIN DiskParts = 1 .. Len(DiskParts)
    /\ \A i \in DOMAIN DiskParts : DiskParts[i] \in Image
    /\ \A i, j \in DOMAIN DiskParts : DiskParts[i] = DiskParts[j] => i = j
    /\ \A image \in {"esp", "base", "data", "home"} :
          \E i \in DOMAIN DiskParts : DiskParts[i] = image
    /\ "verity" \in DOMAIN images => \E i \in DOMAIN DiskParts : DiskParts[i] = "verity"
<1>1. CASE "verity" \in DOMAIN images
  <2>1. PICK parts : parts = <<"esp", "base", "verity", "data", "home">>
    OBVIOUS
  <2>2. DiskParts = parts
    BY <1>1, <2>1 DEF DiskParts
  <2>3. /\ Len(parts) = 5 /\ DOMAIN parts = 1 .. 5
        /\ parts[1] = "esp" /\ parts[2] = "base" /\ parts[3] = "verity"
        /\ parts[4] = "data" /\ parts[5] = "home"
    BY <2>1
  <2>4. \A i \in 1 .. 5 : parts[i] \in Image
    BY <2>3 DEF Image
  <2>5. \A i, j \in 1 .. 5 : parts[i] = parts[j] => i = j
    BY <2>3
  <2>6. QED
    BY <2>2, <2>3, <2>4, <2>5
<1>2. CASE "verity" \notin DOMAIN images
  <2>1. PICK parts : parts = <<"esp", "base", "data", "home">>
    OBVIOUS
  <2>2. DiskParts = parts
    BY <1>2, <2>1 DEF DiskParts
  <2>3. /\ Len(parts) = 4 /\ DOMAIN parts = 1 .. 4
        /\ parts[1] = "esp" /\ parts[2] = "base" /\ parts[3] = "data" /\ parts[4] = "home"
    BY <2>1
  <2>4. \A i \in 1 .. 4 : parts[i] \in Image
    BY <2>3 DEF Image
  <2>5. \A i, j \in 1 .. 4 : parts[i] = parts[j] => i = j
    BY <2>3
  <2>6. QED
    BY <1>2, <2>2, <2>3, <2>4, <2>5
<1>3. QED
  BY <1>1, <1>2

\* The cursor of gpt::build: each partition starts where the one before it ends.
LEMMA CursorIs ==
    ASSUME NEW parts, Len(parts) \in 4 .. 5, DOMAIN parts = 1 .. Len(parts)
    PROVE  /\ Cursor(parts)[1] = AlignUp(FirstUsable)
           /\ \A i \in DOMAIN parts :
                 Cursor(parts)[i + 1] = Cursor(parts)[i] + RegionSectors(images[parts[i]].bytes)
<1> DEFINE region(i) == RegionSectors(images[parts[i]].bytes)
           at1 == AlignUp(FirstUsable)
           at2 == at1 + region(1)
           at3 == at2 + region(2)
           at4 == at3 + region(3)
           at5 == at4 + region(4)
           at6 == at5 + region(5)
           laid == [i \in 1 .. Len(parts) + 1 |->
                        IF i = 1 THEN at1 ELSE IF i = 2 THEN at2 ELSE IF i = 3 THEN at3
                        ELSE IF i = 4 THEN at4 ELSE IF i = 5 THEN at5 ELSE at6]
<1>1. \A i \in 1 .. Len(parts) + 1 :
         laid[i] = IF i = 1 THEN AlignUp(FirstUsable)
                     ELSE laid[i - 1] + RegionSectors(images[parts[i - 1]].bytes)
  <2> HIDE DEF at1, at2, at3, at4, at5, at6
  <2>1. SUFFICES ASSUME NEW i \in 1 .. Len(parts) + 1
                 PROVE  laid[i] = IF i = 1 THEN AlignUp(FirstUsable)
                                    ELSE laid[i - 1] + region(i - 1)
    OBVIOUS
  <2> HIDE DEF region
  <2>2. i \in {1, 2, 3, 4, 5, 6}
    OBVIOUS
  <2>3. CASE i = 1
    BY <2>3 DEF at1
  <2>4. CASE i = 2
    BY <2>4 DEF at2
  <2>5. CASE i = 3
    BY <2>5 DEF at3
  <2>6. CASE i = 4
    BY <2>6 DEF at4
  <2>7. CASE i = 5
    BY <2>7 DEF at5
  <2>8. CASE i = 6
    BY <2>8 DEF at6
  <2>9. QED
    BY <2>2, <2>3, <2>4, <2>5, <2>6, <2>7, <2>8
<1> HIDE DEF laid
<1>2. laid = [i \in 1 .. Len(parts) + 1 |->
                  IF i = 1 THEN AlignUp(FirstUsable)
                  ELSE laid[i - 1] + RegionSectors(images[parts[i - 1]].bytes)]
  BY <1>1 DEF laid
<1>3. Cursor(parts) = [i \in 1 .. Len(parts) + 1 |->
                         IF i = 1 THEN AlignUp(FirstUsable)
                         ELSE Cursor(parts)[i - 1] + RegionSectors(images[parts[i - 1]].bytes)]
  BY <1>2, Zenon DEF Cursor
<1>4. PICK cursor : cursor = Cursor(parts)
  OBVIOUS
<1>5. \A i \in 1 .. Len(parts) + 1 :
         cursor[i] = IF i = 1 THEN AlignUp(FirstUsable)
                     ELSE cursor[i - 1] + RegionSectors(images[parts[i - 1]].bytes)
  BY <1>3, <1>4, Zenon
<1>6. cursor[1] = AlignUp(FirstUsable)
  <2>1. 1 \in 1 .. Len(parts) + 1
    OBVIOUS
  <2>2. QED
    BY <1>5, <2>1, Zenon
<1>7. ASSUME NEW i \in DOMAIN parts
      PROVE  cursor[i + 1] = cursor[i] + RegionSectors(images[parts[i]].bytes)
  <2>1. PICK k \in 1 .. Len(parts) + 1 : k = i + 1 /\ k # 1 /\ k - 1 = i
    OBVIOUS
  <2>2. cursor[k] = cursor[k - 1] + RegionSectors(images[parts[k - 1]].bytes)
    BY <1>5, <2>1, Zenon
  <2>3. QED
    BY <2>1, <2>2, Zenon
<1>8. QED
  BY <1>4, <1>6, <1>7, Zenon

\* The disk is put together from what is in the output directory.
LEMMA WriteStep ==
    ASSUME DiskInv, WriteDisk
    PROVE  DiskInv'
<1>1. PICK parts : parts = DiskParts
  OBVIOUS
<1>2. PICK cursor : cursor = Cursor(DiskParts)
  OBVIOUS
<1>3. PICK held : held = images
  OBVIOUS
<1>4. making = "key" /\ making' = "done" /\ UNCHANGED <<turn, flags, anchor, images>>
      /\ Range(DiskParts) \subseteq DOMAIN images
  BY DEF WriteDisk
<1>5. DiskParts' = parts
  BY <1>1, <1>4 DEF DiskParts
<1>6. keyImage' =
         [table |-> [entries |-> [i \in DOMAIN parts |->
                        [label |-> parts[i], first |-> cursor[i], last |-> cursor[i + 1] - 1]],
                     backup  |-> cursor[Len(parts) + 1],
                     sectors |-> cursor[Len(parts) + 1] + EntryArray + 1],
          copied |-> [i \in DOMAIN parts |-> [first |-> cursor[i], file |-> held[parts[i]]]]]
  <2>1. PICK table : table = Gpt(DiskParts)
    OBVIOUS
  <2>2. table = [entries |-> [i \in DOMAIN parts |->
                    [label |-> parts[i], first |-> cursor[i], last |-> cursor[i + 1] - 1]],
                 backup  |-> cursor[Len(parts) + 1],
                 sectors |-> cursor[Len(parts) + 1] + EntryArray + 1]
    BY <1>1, <1>2, <2>1, Zenon DEF Gpt
  <2>3. \A i \in DOMAIN parts : table.entries[i].first = cursor[i]
    <3>1. table.entries = [i \in DOMAIN parts |->
             [label |-> parts[i], first |-> cursor[i], last |-> cursor[i + 1] - 1]]
      BY <2>2
    <3>2. QED
      BY <3>1
  <2>4. keyImage' = [table |-> table,
                     copied |-> [i \in DOMAIN parts |->
                                   [first |-> table.entries[i].first, file |-> held[parts[i]]]]]
    BY <1>1, <1>3, <2>1, Zenon DEF WriteDisk
  <2>5. [i \in DOMAIN parts |-> [first |-> table.entries[i].first, file |-> held[parts[i]]]]
        = [i \in DOMAIN parts |-> [first |-> cursor[i], file |-> held[parts[i]]]]
    BY <2>3, Zenon
  <2>6. QED
    BY <2>2, <2>4, <2>5, Zenon
<1>7. /\ cursor[1] = AlignUp(FirstUsable)
      /\ \A i \in DOMAIN parts : cursor[i + 1] = cursor[i] + RegionSectors(held[parts[i]].bytes)
  BY <1>1, <1>2, <1>3, CursorIs, PartsAre
<1>8. images' = held
  BY <1>3, <1>4
<1>9. Assembled(DiskParts, cursor)'
  BY <1>5, <1>6, <1>7, <1>8, Zenon DEF Assembled
<1>10. (Range(DiskParts) \subseteq DOMAIN images)'
  BY <1>1, <1>4, <1>5, <1>8 DEF Range
<1>11. DiskTypeOK'
  BY <1>4 DEF DiskInv, DiskTypeOK, Range
<1>12. BuiltSoFar'
  <2>1. turn # 0 /\ Order[7] = "key" /\ flags.disk /\ 7 \in DOMAIN Order
    BY <1>4, OrderOf, WantedIs DEF DiskInv, BuiltSoFar
  <2>2. /\ anchor = IF flags.verity THEN turn ELSE 0
        /\ \A j \in 1 .. 6 : Order[j] \in Image /\ Wanted(Order[j]) => BuiltNow(Order[j])
    BY <1>4, <2>1 DEF DiskInv, BuiltSoFar
  <2>3. \A image : (Wanted(image)' <=> Wanted(image)) /\ (BuiltNow(image)' <=> BuiltNow(image))
    BY <1>4 DEF Wanted, BuiltNow
  <2>4. \A k \in DOMAIN Order : making' = Order[k] => k = 8
    BY <1>4, OrderOf, OrderOnce
  <2>5. Order[7] \notin Image
    BY <2>1 DEF Image
  <2>6. Wanted("done")
    BY WantedIs
  <2>7. \A j \in 1 .. 7 : Order[j] \in Image /\ Wanted(Order[j]) => BuiltNow(Order[j])
    <3>1. \A j \in 1 .. 7 : j = 7 \/ j \in 1 .. 6
      OBVIOUS
    <3>2. QED
      BY <2>2, <2>5, <3>1
  <2>8. /\ making' # "free" /\ turn' # 0 /\ Wanted(making)'
        /\ \A image \in DOMAIN images' : images'[image].from \in 1 .. turn'
    BY <1>4, <2>1, <2>3, <2>6 DEF DiskInv, BuiltSoFar
  <2>9. QED
    BY <1>4, <2>2, <2>3, <2>4, <2>7, <2>8 DEF BuiltSoFar
<1>13. QED
  BY <1>9, <1>10, <1>11, <1>12 DEF DiskInv

\* Partitions of whole alignment units, each where the one before it ends.
Behind(n, cursor, region) ==
    /\ n \in 4 .. 5 /\ cursor[1] = 2048
    /\ \A i \in 1 .. n : region[i] \in Nat \ {0} /\ region[i] % 2048 = 0
    /\ \A i \in 1 .. n : cursor[i + 1] = cursor[i] + region[i]

\* Partitions lie one behind the other, aligned, clear of both copies of the table.
LEMMA CursorsGrow ==
    ASSUME NEW n, NEW cursor, NEW region, Behind(n, cursor, region)
    PROVE  /\ \A i \in 1 .. n + 1 :
                 cursor[i] \in Nat /\ cursor[i] % 2048 = 0 /\ cursor[i] >= 2048
           /\ \A i \in 1 .. n, j \in 1 .. n + 1 : i < j => cursor[i] + region[i] <= cursor[j]
           /\ \A i, j \in 1 .. n : cursor[i] = cursor[j] => i = j
<1> USE DEF Behind
<1> DEFINE Fine(i) == cursor[i] \in Nat /\ cursor[i] % 2048 = 0 /\ cursor[i] >= 2048
<1>1. ASSUME NEW i \in 1 .. n, Fine(i)
      PROVE  Fine(i + 1) /\ cursor[i] < cursor[i + 1]
  <2>1. PICK a \in Nat, b \in Nat \ {0} : a = cursor[i] /\ b = region[i]
    BY <1>1
  <2>2. a % 2048 = 0 /\ b % 2048 = 0 /\ a >= 2048
    BY <1>1, <2>1
  <2>3. (a + b) % 2048 = 0 /\ a + b >= 2048 /\ a + b \in Nat /\ a < a + b
    BY <2>2
  <2>4. cursor[i + 1] = a + b
    BY <2>1
  <2>5. QED
    BY <2>1, <2>3, <2>4
<1>2. Fine(1)
  OBVIOUS
<1> HIDE DEF Fine
<1>3. Fine(2) /\ cursor[1] < cursor[2]
  BY <1>1, <1>2
<1>4. Fine(3) /\ cursor[2] < cursor[3]
  BY <1>1, <1>3
<1>5. Fine(4) /\ cursor[3] < cursor[4]
  BY <1>1, <1>4
<1>6. Fine(5) /\ cursor[4] < cursor[5]
  BY <1>1, <1>5
<1>7. n = 5 => Fine(6) /\ cursor[5] < cursor[6]
  BY <1>1, <1>6
<1>8. \A i \in 1 .. n + 1 : Fine(i)
  <2>1. \A i \in 1 .. n + 1 : i \in {1, 2, 3, 4, 5} \/ (i = 6 /\ n = 5)
    OBVIOUS
  <2>2. QED
    BY <1>2, <1>3, <1>4, <1>5, <1>6, <1>7, <2>1
<1>9. \A i, j \in 1 .. n + 1 : i <= j => cursor[i] <= cursor[j]
  <2>1. /\ cursor[1] \in Nat /\ cursor[2] \in Nat /\ cursor[3] \in Nat /\ cursor[4] \in Nat
        /\ cursor[5] \in Nat /\ (n = 5 => cursor[6] \in Nat)
    BY <1>2, <1>3, <1>4, <1>5, <1>6, <1>7 DEF Fine
  <2>2. \A i, j \in 1 .. n + 1 : i \in {1, 2, 3, 4, 5} \/ (i = 6 /\ n = 5)
    OBVIOUS
  <2>3. /\ cursor[1] <= cursor[2] /\ cursor[1] <= cursor[3] /\ cursor[1] <= cursor[4]
        /\ cursor[1] <= cursor[5] /\ cursor[2] <= cursor[3] /\ cursor[2] <= cursor[4]
        /\ cursor[2] <= cursor[5] /\ cursor[3] <= cursor[4] /\ cursor[3] <= cursor[5]
        /\ cursor[4] <= cursor[5]
    BY <2>1, <1>3, <1>4, <1>5, <1>6
  <2>4. n = 5 => /\ cursor[1] <= cursor[6] /\ cursor[2] <= cursor[6] /\ cursor[3] <= cursor[6]
                 /\ cursor[4] <= cursor[6] /\ cursor[5] <= cursor[6]
    BY <2>1, <2>3, <1>7
  <2>5. SUFFICES ASSUME NEW i \in 1 .. n + 1, NEW j \in 1 .. n + 1, i < j
                 PROVE  cursor[i] <= cursor[j]
    <3>1. \A i \in 1 .. n + 1 : cursor[i] <= cursor[i]
      BY <1>8 DEF Fine
    <3>2. \A i, j \in 1 .. n + 1 : i <= j => i < j \/ i = j
      OBVIOUS
    <3>3. QED
      BY <3>1, <3>2
  <2>6. CASE j = 6
    <3>1. n = 5 /\ i \in {1, 2, 3, 4, 5}
      BY <2>5, <2>6
    <3>2. QED
      BY <2>4, <2>6, <3>1
  <2>7. CASE j # 6
    <3>1. j \in {2, 3, 4, 5} /\ i \in {1, 2, 3, 4}
      BY <2>5, <2>7
    <3>2. QED
      BY <2>3, <2>5, <3>1
  <2>8. QED
    BY <2>6, <2>7
<1>10. ASSUME NEW i \in 1 .. n, NEW j \in 1 .. n + 1, i < j
       PROVE  cursor[i] + region[i] <= cursor[j]
  BY <1>9, <1>10
<1>11. ASSUME NEW i \in 1 .. n, NEW j \in 1 .. n, i < j
       PROVE  cursor[i] # cursor[j]
  <2>1. cursor[i] + region[i] <= cursor[j]
    BY <1>10, <1>11
  <2>2. cursor[i] \in Nat /\ cursor[j] \in Nat /\ region[i] \in Nat \ {0}
    BY <1>8 DEF Fine
  <2>3. QED
    BY <2>1, <2>2
<1>12. \A i, j \in 1 .. n : cursor[i] = cursor[j] => i = j
  BY <1>11
<1>13. QED
  BY <1>8, <1>10, <1>12 DEF Fine

\* The entries have different labels, and each has its image copied to where it is.
Copied(parts, n, cursor, held) ==
    /\ n \in 4 .. 5 /\ DOMAIN parts = 1 .. n
    /\ keyImage.table.entries =
          [i \in DOMAIN parts |->
             [label |-> parts[i], first |-> cursor[i], last |-> cursor[i + 1] - 1]]
    /\ keyImage.copied =
          [i \in DOMAIN parts |-> [first |-> cursor[i], file |-> held[parts[i]]]]
    /\ \A i, j \in 1 .. n : parts[i] = parts[j] => i = j
    /\ \A i, j \in 1 .. n : cursor[i] = cursor[j] => i = j

\* A label finds what was copied to the one partition that has it.
LEMMA ResolvedIs ==
    ASSUME NEW parts, NEW n, NEW cursor, NEW held, Copied(parts, n, cursor, held),
           NEW p \in 1 .. n
    PROVE  Resolved(parts[p]) = {held[parts[p]]}
<1>1. PICK entries : entries = keyImage.table.entries
  OBVIOUS
<1>2. /\ DOMAIN entries = 1 .. n /\ n \in Nat
      /\ \A i \in 1 .. n : entries[i].label = parts[i] /\ entries[i].first = cursor[i]
  BY <1>1 DEF Copied
<1>3. FirstNamed(parts[p]) = {p}
  <2>1. PICK named : named = {i \in DOMAIN entries : entries[i].label = parts[p]}
    OBVIOUS
  <2>2. named = {p}
    BY <1>2, <2>1 DEF Copied
  <2>3. FirstNamed(parts[p]) = {i \in named : \A j \in named : i <= j}
    BY <1>1, <2>1, Zenon DEF FirstNamed
  <2>4. QED
    BY <2>2, <2>3
<1>4. PICK there : there = {copy \in Range(keyImage.copied) :
                              \E i \in FirstNamed(parts[p]) :
                                  copy.first = keyImage.table.entries[i].first}
  OBVIOUS
<1>5. Resolved(parts[p]) = {c.file : c \in there}
  BY <1>4, Zenon DEF Resolved
<1>6. PICK copied : copied = keyImage.copied
  OBVIOUS
<1>7. /\ DOMAIN copied = 1 .. n
      /\ \A i \in 1 .. n : copied[i].first = cursor[i] /\ copied[i].file = held[parts[i]]
  BY <1>6 DEF Copied
<1>8. there = {copied[p]}
  <2>1. \A c : c \in there <=> c \in Range(copied) /\ c.first = cursor[p]
    <3>1. \A c : c \in there <=> c \in Range(copied) /\ \E i \in {p} : c.first = entries[i].first
      BY <1>1, <1>3, <1>4, <1>6, Zenon
    <3>2. entries[p].first = cursor[p]
      BY <1>2
    <3>3. QED
      BY <3>1, <3>2
  <2>2. copied[p] \in Range(copied)
    BY <1>7 DEF Range
  <2>3. copied[p] \in there
    BY <1>7, <2>1, <2>2
  <2>4. ASSUME NEW c \in there
        PROVE  c = copied[p]
    <3>1. c \in Range(copied) /\ c.first = cursor[p]
      BY <2>1, <2>4
    <3>2. PICK i \in 1 .. n : c = copied[i]
      BY <1>7, <3>1 DEF Range
    <3>3. i = p
      BY <1>7, <3>1, <3>2 DEF Copied
    <3>4. QED
      BY <3>2, <3>3
  <2>5. QED
    BY <2>3, <2>4
<1>9. QED
  BY <1>5, <1>7, <1>8

\* What a run that ends with a disk has built.
LEMMA RunBuilt ==
    ASSUME DiskInv, making = "done", flags.disk
    PROVE  /\ turn \in Nat \ {0} /\ anchor = IF flags.verity THEN turn ELSE 0
           /\ BuiltNow("base") /\ BuiltNow("home") /\ BuiltNow("esp") /\ BuiltNow("data")
           /\ flags.verity => BuiltNow("verity")
<1>1. /\ turn # 0 /\ turn \in Nat /\ anchor = IF flags.verity THEN turn ELSE 0
      /\ \A j \in 1 .. 7 : Order[j] \in Image /\ Wanted(Order[j]) => BuiltNow(Order[j])
  BY OrderOf DEF DiskInv, BuiltSoFar, DiskTypeOK
<1>2. Wanted("home") /\ Wanted("esp") /\ Wanted("data")
  <2>1. Wanted("data")
    BY DEF Wanted
  <2>2. Wanted("home")
    BY DEF Wanted
  <2>3. Wanted("esp")
    BY DEF Wanted
  <2>4. QED
    BY <2>1, <2>2, <2>3
<1>3. {"base", "verity", "home", "esp", "data"} \subseteq Image
  BY DEF Image
<1>4. QED
  BY <1>1, <1>2, <1>3, OrderOf, WantedIs

\* A disk that is reported built boots one run, and nothing on it runs into another.
LEMMA DiskSound == DiskInv => BootsOneBuild
<1>1. SUFFICES ASSUME DiskInv, making = "done", flags.disk
               PROVE  BootsOneBuild
  BY DEF BootsOneBuild
<1>2. PICK cursor : Assembled(DiskParts, cursor) /\ Range(DiskParts) \subseteq DOMAIN images
  BY <1>1 DEF DiskInv
<1>3. PICK parts : parts = DiskParts
  OBVIOUS
<1>4. PICK n \in 4 .. 5 : n = Len(parts) /\ DOMAIN parts = 1 .. n
  BY <1>3, PartsAre
<1>5. /\ \A i, j \in 1 .. n : parts[i] = parts[j] => i = j
      /\ \A image \in {"esp", "base", "data", "home"} : \E i \in 1 .. n : parts[i] = image
      /\ "verity" \in DOMAIN images => \E i \in 1 .. n : parts[i] = "verity"
      /\ \A i \in 1 .. n : parts[i] \in DOMAIN images
  BY <1>2, <1>3, <1>4, PartsAre DEF Range
<1>6. PICK region : region = [i \in 1 .. n |-> RegionSectors(images[parts[i]].bytes)]
  OBVIOUS
<1>7. /\ cursor[1] = AlignUp(FirstUsable)
      /\ \A i \in 1 .. n : cursor[i + 1] = cursor[i] + region[i]
      /\ keyImage =
            [table |-> [entries |-> [i \in DOMAIN parts |->
                           [label |-> parts[i], first |-> cursor[i], last |-> cursor[i + 1] - 1]],
                        backup  |-> cursor[n + 1],
                        sectors |-> cursor[n + 1] + EntryArray + 1],
             copied |-> [i \in DOMAIN parts |-> [first |-> cursor[i], file |-> images[parts[i]]]]]
  BY <1>2, <1>3, <1>4, <1>6 DEF Assembled
<1>8. \A i \in 1 .. n : images[parts[i]].bytes \in Nat
  BY <1>1, <1>5 DEF DiskInv, DiskTypeOK, Range, ImageFile
<1>9. \A i \in 1 .. n :
         /\ region[i] \in Nat \ {0} /\ region[i] % 2048 = 0
         /\ (images[parts[i]].bytes + 511) \div 512 <= region[i]
  <2>1. SUFFICES ASSUME NEW i \in 1 .. n
                 PROVE  /\ region[i] \in Nat \ {0} /\ region[i] % 2048 = 0
                        /\ (images[parts[i]].bytes + 511) \div 512 <= region[i]
    OBVIOUS
  <2>2. PICK b \in Nat : b = images[parts[i]].bytes
    BY <1>8
  <2>3. region[i] = RegionSectors(b)
    BY <1>6, <2>2
  <2>4. QED
    BY <2>2, <2>3, RegionHolds
<1>10. cursor[1] = 2048
  BY <1>7 DEF AlignUp, FirstUsable, EntryArray
<1>11. /\ \A i \in 1 .. n + 1 :
             cursor[i] \in Nat /\ cursor[i] % 2048 = 0 /\ cursor[i] >= 2048
       /\ \A i \in 1 .. n, j \in 1 .. n + 1 : i < j => cursor[i] + region[i] <= cursor[j]
       /\ \A i, j \in 1 .. n : cursor[i] = cursor[j] => i = j
  <2>1. Behind(n, cursor, region)
    BY <1>7, <1>9, <1>10 DEF Behind
  <2>2. QED
    BY <2>1, CursorsGrow
<1>12. /\ keyImage.table.entries =
             [i \in DOMAIN parts |->
                [label |-> parts[i], first |-> cursor[i], last |-> cursor[i + 1] - 1]]
       /\ keyImage.table.backup = cursor[n + 1]
       /\ keyImage.table.sectors = cursor[n + 1] + EntryArray + 1
       /\ keyImage.copied =
             [i \in DOMAIN parts |-> [first |-> cursor[i], file |-> images[parts[i]]]]
  BY <1>7
<1>13. \A p \in 1 .. n : Resolved(parts[p]) = {images[parts[p]]}
  <2>1. Copied(parts, n, cursor, images)
    BY <1>4, <1>5, <1>11, <1>12 DEF Copied
  <2>2. QED
    BY <2>1, ResolvedIs
<1>14. \A image \in {"esp", "base", "data", "home"} : Resolved(image) = {images[image]}
  BY <1>5, <1>13
<1>15. "verity" \in DOMAIN images => Resolved("verity") = {images["verity"]}
  BY <1>5, <1>13
<1>16. /\ turn \in Nat \ {0} /\ anchor = IF flags.verity THEN turn ELSE 0
       /\ BuiltNow("base") /\ BuiltNow("home") /\ BuiltNow("esp") /\ BuiltNow("data")
       /\ flags.verity => BuiltNow("verity")
  BY <1>1, RunBuilt
<1>17. \A label \in {"esp", "base", "data", "home"} :
          \E file \in Resolved(label) :
              Resolved(label) = {file} /\ file.from = turn /\ file.whole
  BY <1>14, <1>16 DEF BuiltNow
<1>a. flags.verity =>
          \E hashes \in Resolved("verity") :
              Resolved("verity") = {hashes} /\ hashes.from = turn /\ hashes.whole
  BY <1>15, <1>16 DEF BuiltNow
<1>18. \A esp \in Resolved("esp"), base \in Resolved("base") :
          /\ flags.kernel => esp.initrd # 0
          /\ flags.kernel /\ flags.initramfs => esp.initrd = turn
          /\ esp.of # 0 <=> flags.kernel /\ flags.verity
          /\ esp.of # 0 =>
                /\ esp.of = base.from
                /\ \A hashes \in Resolved("verity") : hashes.of = base.from
  <2>1. Resolved("esp") = {images["esp"]} /\ Resolved("base") = {images["base"]}
    BY <1>14
  <2>2. /\ flags.kernel => images["esp"].initrd # 0
        /\ flags.kernel /\ flags.initramfs => images["esp"].initrd = turn
        /\ images["esp"].of # 0 <=> flags.kernel /\ flags.verity
        /\ images["esp"].of # 0 => images["esp"].of = turn
        /\ images["base"].from = turn
    BY <1>16 DEF BuiltNow
  <2>3. flags.verity => Resolved("verity") = {images["verity"]} /\ images["verity"].of = turn
    BY <1>15, <1>16 DEF BuiltNow
  <2>4. QED
    BY <2>1, <2>2, <2>3
<1>19. \A c : c \in Range(keyImage.copied) <=>
                 \E i \in 1 .. n : c = [first |-> cursor[i], file |-> images[parts[i]]]
  BY <1>4, <1>12, SMTT(30) DEF Range
<1>20. \A c \in Range(keyImage.copied) :
          \E i \in 1 .. n :
             c.first = cursor[i] /\ EndOf(c) <= cursor[i] + region[i]
  <2>1. SUFFICES ASSUME NEW c \in Range(keyImage.copied)
                 PROVE  \E i \in 1 .. n :
                           c.first = cursor[i] /\ EndOf(c) <= cursor[i] + region[i]
    OBVIOUS
  <2>2. PICK i \in 1 .. n : c = [first |-> cursor[i], file |-> images[parts[i]]]
    BY <1>19, <2>1
  <2>3. c.first = cursor[i] /\ c.file.bytes = images[parts[i]].bytes
    BY <2>2
  <2>4. EndOf(c) = cursor[i] + (images[parts[i]].bytes + 511) \div 512
    BY <2>3 DEF EndOf
  <2>5. PICK b \in Nat : b = images[parts[i]].bytes
    BY <1>8
  <2>6. cursor[i] + (b + 511) \div 512 <= cursor[i] + region[i]
    BY <1>9, <1>11, <2>5
  <2>7. QED
    BY <2>3, <2>4, <2>5, <2>6
<1>21. \A c \in Range(keyImage.copied) :
          /\ c.first % 2048 = 0 /\ c.first >= FirstUsable
          /\ EndOf(c) <= keyImage.table.backup
  <2>1. SUFFICES ASSUME NEW c \in Range(keyImage.copied)
                 PROVE  /\ c.first % 2048 = 0 /\ c.first >= FirstUsable
                        /\ EndOf(c) <= keyImage.table.backup
    OBVIOUS
  <2>2. PICK i \in 1 .. n : c.first = cursor[i] /\ EndOf(c) <= cursor[i] + region[i]
    BY <1>20
  <2>3. c.first % 2048 = 0 /\ c.first >= FirstUsable
    BY <1>11, <2>2 DEF FirstUsable, EntryArray
  <2>4. cursor[i] + region[i] <= cursor[n + 1]
    BY <1>11
  <2>5. EndOf(c) \in Int
    <3>1. PICK k \in 1 .. n : c = [first |-> cursor[k], file |-> images[parts[k]]]
      BY <1>19, <2>1
    <3>2. PICK b \in Nat : b = images[parts[k]].bytes
      BY <1>8
    <3>3. EndOf(c) = cursor[k] + (b + 511) \div 512
      BY <3>1, <3>2 DEF EndOf
    <3>4. QED
      BY <1>11, <3>3
  <2>6. cursor[i] \in Nat /\ region[i] \in Nat /\ cursor[n + 1] \in Nat
    BY <1>9, <1>11
  <2>7. QED
    BY <1>12, <2>2, <2>3, <2>4, <2>5, <2>6
<1>22. \A c, d \in Range(keyImage.copied) : c.first < d.first => EndOf(c) <= d.first
  <2>1. SUFFICES ASSUME NEW c \in Range(keyImage.copied), NEW d \in Range(keyImage.copied),
                        c.first < d.first
                 PROVE  EndOf(c) <= d.first
    OBVIOUS
  <2>2. PICK i \in 1 .. n : c.first = cursor[i] /\ EndOf(c) <= cursor[i] + region[i]
    BY <1>20
  <2>3. PICK j \in 1 .. n : d.first = cursor[j]
    BY <1>20
  <2>4. i < j
    <3>1. cursor[i] \in Nat /\ cursor[j] \in Nat /\ region[j] \in Nat
      BY <1>9, <1>11
    <3>2. ~ (j < i) /\ i # j
      BY <1>11, <2>1, <2>2, <2>3, <3>1
    <3>3. QED
      BY <3>2
  <2>5. cursor[i] + region[i] <= cursor[j]
    BY <1>11, <2>4
  <2>6. EndOf(c) \in Int
    <3>1. PICK k \in 1 .. n : c = [first |-> cursor[k], file |-> images[parts[k]]]
      BY <1>19, <2>1
    <3>2. PICK b \in Nat : b = images[parts[k]].bytes
      BY <1>8
    <3>3. EndOf(c) = cursor[k] + (b + 511) \div 512
      BY <3>1, <3>2 DEF EndOf
    <3>4. QED
      BY <1>11, <3>3
  <2>7. cursor[i] \in Nat /\ region[i] \in Nat /\ cursor[j] \in Nat
    BY <1>9, <1>11
  <2>8. QED
    BY <2>2, <2>3, <2>5, <2>6, <2>7
<1>23. keyImage.table.sectors >= keyImage.table.backup + EntryArray + 1
  BY <1>11, <1>12 DEF EntryArray
<1>24. QED
  BY <1>17, <1>a, <1>18, <1>21, <1>22, <1>23, Zenon DEF BootsOneBuild

\* What a run has built, and what a disk is made of, holds throughout.
THEOREM DiskInvCorrect == DiskSpec => []DiskInv
<1>1. DiskInit => DiskInv
  <2>1. SUFFICES ASSUME DiskInit PROVE DiskInv
    OBVIOUS
  <2>2. DOMAIN images = {} /\ Range(images) = {}
    BY <2>1 DEF DiskInit, Range
  <2>3. flags \in Invocation
    BY <2>1 DEF DiskInit, NoFlags, Invocation
  <2>4. DiskTypeOK
    BY <2>1, <2>2, <2>3, KeyDiskAssumption DEF DiskInit, DiskTypeOK
  <2>5. BuiltSoFar
    BY <2>1, <2>2, OrderOf DEF DiskInit, BuiltSoFar
  <2>6. QED
    BY <2>1, <2>4, <2>5 DEF DiskInit, DiskInv
<1>2. DiskInv /\ [DiskNext]_diskVars => DiskInv'
  <2>1. SUFFICES ASSUME DiskInv, [DiskNext]_diskVars PROVE DiskInv'
    OBVIOUS
  <2>2. CASE \E asked \in Invocations : RunTool(asked)
    BY <2>1, <2>2, DiskRunStep
  <2>3. CASE BuildBase \/ BuildHome \/ BuildInitramfs \/ BuildData
    <3>1. \E k \in {1, 3, 4, 6} : Build(Order[k])
      BY <2>3, OrderOf DEF BuildBase, BuildHome, BuildInitramfs, BuildData
    <3>2. QED
      BY <2>1, <3>1, PlainStep
  <2>4. CASE BuildVerity
    BY <2>1, <2>4, VerityStep
  <2>5. CASE BuildEsp
    BY <2>1, <2>5, EspStep
  <2>6. CASE WriteDisk
    BY <2>1, <2>6, WriteStep
  <2>7. CASE Fail
    BY <2>1, <2>7, FailStep
  <2>8. CASE UNCHANGED diskVars
    BY <2>1, <2>8 DEF diskVars, DiskInv, DiskTypeOK, BuiltSoFar, BuiltNow, Wanted, Assembled,
                      DiskParts, Range
  <2>9. QED
    BY <2>1, <2>2, <2>3, <2>4, <2>5, <2>6, <2>7, <2>8 DEF DiskNext
<1>3. QED
  BY <1>1, <1>2, PTL DEF DiskSpec

\* The images, the flags and the run are what keybuild's main has, throughout.
THEOREM DiskTypeCorrect == DiskSpec => []DiskTypeOK
BY DiskInvCorrect, PTL DEF DiskInv

\* A disk that is reported built boots the images of one run, whatever flags earlier
\* runs had and wherever they failed: the loader, the base and, where the run was to
\* build one, the hash tree agree, and an earlier run's tree is referred to by
\* nothing; no image runs into another or into the tables, whatever their sizes.
THEOREM DiskBootsOneBuild == DiskSpec => []BootsOneBuild
BY DiskInvCorrect, DiskSound, PTL

-----------------------------------------------------------------------------
(* The ESP, EspImage.                                                      *)

(* The geometry of its volume.                                            *)

\* The clusters of a volume lie within it, and its FAT, whose entries are this
\* wide, has one for each.
Figures(spc, clusters, start, sectors, fatSize, width) ==
    /\ spc \in {1, 2, 4, 8, 16, 32, 64} /\ clusters \in Int /\ fatSize \in Int
    /\ start + clusters * spc <= sectors
    /\ (clusters + 2) * width <= fatSize * 512

SoundVolume(v) ==
    /\ v.wide \in BOOLEAN /\ v.clusters \in Nat
    /\ Figures(v.spc, v.clusters, v.dataStart, v.sectors, v.fatSize, IF v.wide THEN 4 ELSE 2)

\* From 64 MiB on, the volume is FAT32: its sectors, and those of its FAT.
From64 == {sectors \in Nat : sectors >= 131072}
WideFats(sectors, spc) ==
    (sectors - (32 + 0) + (256 * spc + 2) \div 2 - 1) \div ((256 * spc + 2) \div 2)

LEMMA WideFigures ==
    ASSUME NEW sectors \in From64, NEW spc \in {1, 2, 8}
    PROVE  Figures(spc, (sectors - (32 + 2 * WideFats(sectors, spc) + 0)) \div spc,
                   32 + 2 * WideFats(sectors, spc) + 0, sectors, WideFats(sectors, spc), 4)
<1> DEFINE fats == WideFats(sectors, spc)
<1>0. sectors \in Nat /\ sectors >= 131072
  BY DEF From64
<1>1. CASE spc = 1
  <2>1. fats = (sectors + 96) \div 129
    BY <1>0, <1>1 DEF WideFats
  <2> HIDE DEF fats
  <2>2. fats \in Int /\ 129 * fats >= sectors - 32 /\ 129 * fats <= sectors + 96
    BY <1>0, <2>1
  <2> DEFINE count == (sectors - (32 + 2 * fats + 0)) \div 1
  <2>3. count \in Int /\ count <= sectors - 32 - 2 * fats
    BY <1>0, <2>2
  <2> HIDE DEF count
  <2>4. (count + 2) * 4 <= fats * 512
    BY <1>0, <2>2, <2>3
  <2>5. 32 + 2 * fats + 0 + count * 1 <= sectors
    BY <1>0, <2>2, <2>3
  <2>6. Figures(1, count, 32 + 2 * fats + 0, sectors, fats, 4)
    BY <1>0, <2>2, <2>3, <2>4, <2>5 DEF Figures
  <2>7. QED
    BY <1>1, <2>6 DEF count, fats
<1>2. CASE spc = 2
  <2>1. fats = (sectors + 224) \div 257
    BY <1>0, <1>2 DEF WideFats
  <2> HIDE DEF fats
  <2>2. fats \in Int /\ 257 * fats >= sectors - 32 /\ 257 * fats <= sectors + 224
    BY <1>0, <2>1
  <2> DEFINE count == (sectors - (32 + 2 * fats + 0)) \div 2
  <2>3. count \in Int /\ 2 * count <= sectors - 32 - 2 * fats
    BY <1>0, <2>2
  <2> HIDE DEF count
  <2>4. (count + 2) * 4 <= fats * 512
    BY <1>0, <2>2, <2>3
  <2>5. 32 + 2 * fats + 0 + count * 2 <= sectors
    BY <1>0, <2>2, <2>3
  <2>6. Figures(2, count, 32 + 2 * fats + 0, sectors, fats, 4)
    BY <1>0, <2>2, <2>3, <2>4, <2>5 DEF Figures
  <2>7. QED
    BY <1>2, <2>6 DEF count, fats
<1>3. CASE spc = 8
  <2>1. fats = (sectors + 992) \div 1025
    BY <1>0, <1>3 DEF WideFats
  <2> HIDE DEF fats
  <2>2. fats \in Int /\ 1025 * fats >= sectors - 32 /\ 1025 * fats <= sectors + 992
    BY <1>0, <2>1
  <2> DEFINE count == (sectors - (32 + 2 * fats + 0)) \div 8
  <2>3. count \in Int /\ 8 * count <= sectors - 32 - 2 * fats
    BY <1>0, <2>2
  <2> HIDE DEF count
  <2>4. (count + 2) * 4 <= fats * 512
    BY <1>0, <2>2, <2>3
  <2>5. 32 + 2 * fats + 0 + count * 8 <= sectors
    BY <1>0, <2>2, <2>3
  <2>6. Figures(8, count, 32 + 2 * fats + 0, sectors, fats, 4)
    BY <1>0, <2>2, <2>3, <2>4, <2>5 DEF Figures
  <2>7. QED
    BY <1>3, <2>6 DEF count, fats
<1>4. QED
  BY <1>1, <1>2, <1>3

\* Up to 32 MiB the clusters of one sector are few enough, from there those of two.
LEMMA NarrowFigures ==
    ASSUME NEW mib \in 1 .. 63, NEW sectors \in Nat, sectors = mib * 2048,
           NEW spc \in {1, 2}, NEW fats,
           fats = (sectors - (1 + 32) + 256 * spc + 2 - 1) \div (256 * spc + 2),
           NEW count, count = (sectors - (1 + 2 * fats + 32)) \div spc
    PROVE  /\ spc = 1 => (count <= 65524 <=> mib <= 32)
           /\ spc = 2 => count <= 65524
           /\ (spc = 1 <=> mib <= 32) => Figures(spc, count, 1 + 2 * fats + 32, sectors, fats, 2)
<1>1. /\ fats \in Int /\ count \in Int
      /\ spc = 1 => /\ count = sectors - 33 - 2 * fats
                    /\ 258 * fats >= sectors - 33 /\ 258 * fats <= sectors + 224
      /\ spc = 2 => /\ 2 * count <= sectors - 33 - 2 * fats
                    /\ 2 * count >= sectors - 34 - 2 * fats
                    /\ 514 * fats >= sectors - 33 /\ 514 * fats <= sectors + 480
  <2>1. CASE spc = 1
    <3>1. fats = (sectors + 224) \div 258
      BY <2>1
    <3>2. fats \in Int /\ 258 * fats >= sectors - 33 /\ 258 * fats <= sectors + 224
      BY <3>1
    <3>3. count = sectors - 33 - 2 * fats
      BY <2>1, <3>2
    <3>4. QED
      BY <2>1, <3>2, <3>3
  <2>2. CASE spc = 2
    <3>1. fats = (sectors + 480) \div 514
      BY <2>2
    <3>2. fats \in Int /\ 514 * fats >= sectors - 33 /\ 514 * fats <= sectors + 480
      BY <3>1
    <3>3. count = (sectors - 33 - 2 * fats) \div 2
      BY <2>2, <3>2
    <3>4. count \in Int /\ 2 * count <= sectors - 33 - 2 * fats /\ 2 * count >= sectors - 34 - 2 * fats
      BY <3>2, <3>3
    <3>5. QED
      BY <2>2, <3>2, <3>4
  <2>3. QED
    BY <2>1, <2>2
<1>2. CASE spc = 1
  <2>1. count <= 65524 <=> mib <= 32
    BY <1>1, <1>2
  <2>2. ASSUME mib <= 32
        PROVE  Figures(1, count, 1 + 2 * fats + 32, sectors, fats, 2)
    <3>1. 258 * fats # sectors - 33 /\ 258 * fats # sectors - 32
      BY <1>1, <2>2
    <3>2. (count + 2) * 2 <= fats * 512
      BY <1>1, <1>2, <3>1
    <3>3. 1 + 2 * fats + 32 + count * 1 <= sectors
      BY <1>1, <1>2
    <3>4. QED
      BY <1>1, <3>2, <3>3 DEF Figures
  <2>3. QED
    BY <1>2, <2>1, <2>2
<1>3. CASE spc = 2
  <2>1. count <= 65524
    BY <1>1, <1>3
  <2>2. ASSUME mib > 32
        PROVE  Figures(2, count, 1 + 2 * fats + 32, sectors, fats, 2)
    <3>1. 514 * fats # sectors - 33 /\ 514 * fats # sectors - 32 /\ 514 * fats # sectors - 31
      BY <1>1, <2>2
    <3>2. (count + 2) * 2 <= fats * 512
      BY <1>1, <1>3, <3>1
    <3>3. 1 + 2 * fats + 32 + count * 2 <= sectors
      BY <1>1, <1>3
    <3>4. QED
      BY <1>1, <3>2, <3>3 DEF Figures
  <2>3. QED
    BY <1>3, <2>1, <2>2
<1>4. QED
  BY <1>2, <1>3

\* A count of MiB in sectors.
OfMib(mib, sectors) == sectors = mib * 2048

\* A FAT16 volume of mib MiB, with one sector to a cluster or two.
SoundNarrow(mib, spc, v) ==
    /\ ~ v.wide /\ v.wide \in BOOLEAN
    /\ spc = 1 => (v.clusters <= 65524 <=> mib <= 32)
    /\ spc = 2 => v.clusters <= 65524
    /\ (spc = 1 <=> mib <= 32) =>
          Figures(v.spc, v.clusters, v.dataStart, v.sectors, v.fatSize, 2)

\* What such a volume is laid out as.
LEMMA NarrowLaid ==
    ASSUME NEW mib \in 1 .. 63, NEW sectors \in Nat, OfMib(mib, sectors), NEW spc \in {1, 2}
    PROVE  SoundNarrow(mib, spc, Laid(sectors, spc, FALSE))
<1> DEFINE root == (RootSlots * 32) \div Sector
           fats == (sectors - (1 + 32) + 256 * spc + 2 - 1) \div (256 * spc + 2)
           count == (sectors - (1 + 2 * fats + 32)) \div spc
           v == Laid(sectors, spc, FALSE)
<1>1. root = 32
  BY DEF RootSlots, Sector
<1>2. FatSize(sectors, spc, 1, root, FALSE) = fats
  <2> HIDE DEF root
  <2>1. FatSize(sectors, spc, 1, root, FALSE) = (sectors - (1 + root) + (256 * spc + 2) - 1) \div (256 * spc + 2)
    BY DEF FatSize, CeilDiv
  <2>2. sectors - (1 + root) + (256 * spc + 2) - 1 = sectors - (1 + 32) + 256 * spc + 2 - 1
    BY <1>1
  <2>3. QED
    BY <2>1, <2>2
<1>3. /\ spc = 1 => (count <= 65524 <=> mib <= 32)
      /\ spc = 2 => count <= 65524
      /\ (spc = 1 <=> mib <= 32) => Figures(spc, count, 1 + 2 * fats + 32, sectors, fats, 2)
  BY NarrowFigures DEF OfMib
<1> HIDE DEF fats, root
<1>4. v = [sectors |-> sectors, wide |-> FALSE, spc |-> spc, fatSize |-> fats,
           dataStart |-> 1 + 2 * fats + root, clusters |-> (sectors - (1 + 2 * fats + root)) \div spc]
  BY <1>2 DEF Laid, root
<1> DEFINE start == 1 + 2 * fats + 32
<1>5. v = [sectors |-> sectors, wide |-> FALSE, spc |-> spc, fatSize |-> fats,
           dataStart |-> start, clusters |-> count]
  BY <1>1, <1>4
<1> HIDE DEF count, v, start
<1>6. /\ ~ v.wide /\ v.sectors = sectors /\ v.spc = spc /\ v.fatSize = fats
      /\ v.dataStart = start /\ v.clusters = count /\ v.wide \in BOOLEAN
  BY <1>5
<1>7. SoundNarrow(mib, spc, v)
  BY <1>3, <1>6 DEF start, SoundNarrow
<1>8. QED
  BY <1>7 DEF v

\* Below 64 MiB the clusters have one sector up to 32 MiB, and two from there.
LEMMA NarrowIs ==
    ASSUME NEW mib \in 1 .. 63, NEW sectors \in Nat, OfMib(mib, sectors)
    PROVE  NarrowSpc(sectors) = IF mib <= 32 THEN 1 ELSE 2
<1> DEFINE few(spc) == Laid(sectors, spc, FALSE).clusters <= 65524
           enough == {spc \in {1, 2, 4, 8, 16, 32, 64} : few(spc)}
           least == IF mib <= 32 THEN 1 ELSE 2
<1>1. (few(1) <=> mib <= 32) /\ few(2)
  <2>1. \A spc \in {1, 2} : SoundNarrow(mib, spc, Laid(sectors, spc, FALSE))
    BY NarrowLaid
  <2>2. ASSUME NEW spc \in {1, 2}
        PROVE  (spc = 1 => (few(spc) <=> mib <= 32)) /\ (spc = 2 => few(spc))
    <3> DEFINE v == Laid(sectors, spc, FALSE)
    <3>1. SoundNarrow(mib, spc, v)
      BY <2>1
    <3> HIDE DEF v
    <3>2. (spc = 1 => (v.clusters <= 65524 <=> mib <= 32)) /\ (spc = 2 => v.clusters <= 65524)
      BY <3>1 DEF SoundNarrow
    <3>3. v.clusters <= 65524 <=> few(spc)
      BY DEF v
    <3> HIDE DEF few
    <3>4. QED
      BY <3>2, <3>3
  <2> HIDE DEF few
  <2>3. QED
    BY <2>2
<1>3. NarrowSpc(sectors) = CHOOSE spc \in enough : \A other \in enough : spc <= other
  BY DEF NarrowSpc
<1> HIDE DEF few
<1>4. least \in enough /\ \A other \in enough : least <= other
  BY <1>1
<1>5. \A spc \in enough : (\A other \in enough : spc <= other) => spc = least
  BY <1>4
<1> HIDE DEF enough, least
<1>6. QED
  BY <1>3, <1>4, <1>5 DEF least

\* A volume from 64 MiB on.
SoundWide(v) ==
    /\ v.wide /\ v.wide \in BOOLEAN
    /\ Figures(v.spc, v.clusters, v.dataStart, v.sectors, v.fatSize, 4)

LEMMA WideLaid ==
    ASSUME NEW sectors \in From64, NEW spc \in {1, 2, 8}
    PROVE  SoundWide(Laid(sectors, spc, TRUE))
<1> DEFINE fats == WideFats(sectors, spc)
           start == 32 + 2 * fats + 0
           count == (sectors - (32 + 2 * fats + 0)) \div spc
           v == Laid(sectors, spc, TRUE)
<1>1. FatSize(sectors, spc, 32, 0, TRUE) = fats
  BY DEF FatSize, CeilDiv, WideFats
<1>2. Figures(spc, count, start, sectors, fats, 4)
  BY WideFigures
<1> HIDE DEF fats
<1>3. v = [sectors |-> sectors, wide |-> TRUE, spc |-> spc, fatSize |-> fats,
           dataStart |-> start, clusters |-> count]
  BY <1>1 DEF Laid
<1> HIDE DEF count, start, v
<1>4. /\ v.wide /\ v.sectors = sectors /\ v.spc = spc /\ v.fatSize = fats
      /\ v.dataStart = start /\ v.clusters = count /\ v.wide \in BOOLEAN
  BY <1>3
<1>5. SoundWide(v)
  BY <1>2, <1>4 DEF SoundWide
<1>6. QED
  BY <1>5 DEF v

\* Every volume that format lays out.
LEMMA GeometrySound ==
    ASSUME NEW mib \in Nat \ {0}, NEW sectors \in Nat, OfMib(mib, sectors),
           NEW v, v = Geometry(sectors), CountAgrees(v)
    PROVE  SoundVolume(v)
<1>1. v.wide \in BOOLEAN /\ Figures(v.spc, v.clusters, v.dataStart, v.sectors, v.fatSize, IF v.wide THEN 4 ELSE 2)
  <2>1. CASE mib >= 64
    <3>1. sectors \in From64
      BY <2>1 DEF OfMib, From64
    <3>2. v = Laid(sectors, WideSpc(sectors), TRUE)
      BY <3>1 DEF Geometry, From64
    <3>3. WideSpc(sectors) \in {1, 2, 8}
      BY DEF WideSpc
    <3>4. SoundWide(v)
      <4> DEFINE spc == WideSpc(sectors)
      <4> HIDE DEF spc
      <4>1. spc \in {1, 2, 8} /\ v = Laid(sectors, spc, TRUE)
        BY <3>2, <3>3 DEF spc
      <4>2. SoundWide(Laid(sectors, spc, TRUE))
        BY <3>1, <4>1, WideLaid
      <4>3. QED
        BY <4>1, <4>2
    <3>5. QED
      BY <3>4 DEF SoundWide
  <2>2. CASE mib < 64
    <3>1. mib \in 1 .. 63
      BY <2>2
    <3>2. v = Laid(sectors, NarrowSpc(sectors), FALSE)
      <4>1. ~ (sectors >= 64 * 2048)
        BY <2>2 DEF OfMib
      <4>2. QED
        BY <4>1 DEF Geometry
    <3>3. NarrowSpc(sectors) \in {1, 2} /\ (NarrowSpc(sectors) = 1 <=> mib <= 32)
      BY <3>1, NarrowIs
    <3>4. SoundNarrow(mib, NarrowSpc(sectors), v)
      <4> DEFINE spc == NarrowSpc(sectors)
      <4> HIDE DEF spc
      <4>1. spc \in {1, 2} /\ v = Laid(sectors, spc, FALSE)
        BY <3>2, <3>3 DEF spc
      <4>2. SoundNarrow(mib, spc, Laid(sectors, spc, FALSE))
        BY <3>1, <4>1, NarrowLaid
      <4>3. QED
        BY <4>1, <4>2 DEF spc
    <3>5. QED
      BY <3>3, <3>4 DEF SoundNarrow
  <2>3. QED
    BY <2>1, <2>2
<1>2. v.clusters \in Nat
  <2>1. v.clusters \in Int
    BY <1>1 DEF Figures
  <2>2. CASE v.wide
    <3>1. v.clusters >= 65525
      BY <2>2 DEF CountAgrees
    <3>2. QED
      BY <2>1, <3>1
  <2>3. CASE ~ v.wide
    <3>1. v.clusters \in NarrowCounts
      BY <2>3 DEF CountAgrees
    <3>2. NarrowCounts \subseteq Nat
      BY DEF NarrowCounts
    <3>3. QED
      BY <3>1, <3>2
  <2>4. QED
    BY <2>2, <2>3
<1>3. QED
  BY <1>1, <1>2 DEF SoundVolume

-----------------------------------------------------------------------------
(* Sums, by counting.                                                      *)

\* What a sum counts: as many pairs for each argument as the function's value.
Counted(f) == UNION {{x} \X (1 .. f[x]) : x \in DOMAIN f}

\* As many numbers, counted from one.
LEMMA CountsUp ==
    ASSUME NEW n \in Nat
    PROVE  IsFiniteSet(1 .. n) /\ Cardinality(1 .. n) = n
<1>1. 1 \in Int /\ n \in Int
  OBVIOUS
<1>2. IsFiniteSet(1 .. n) /\ Cardinality(1 .. n) = IF 1 > n THEN 0 ELSE n - 1 + 1
  BY <1>1, FS_Interval
<1>3. QED
  BY <1>2

\* A sum of natural numbers is one.
LEMMA SumTyped ==
    ASSUME NEW D, IsFiniteSet(D), NEW f \in [D -> Nat]
    PROVE  IsFiniteSet(Counted(f)) /\ SumOf(f) \in Nat
<1> DEFINE part(x) == {x} \X (1 .. f[x])
           parts == {part(x) : x \in D}
           each == [x \in D |-> part(x)]
<1>1. DOMAIN f = D /\ \A x \in D : f[x] \in Nat
  OBVIOUS
<1>2. each \in Surjection(D, parts)
  <2> HIDE DEF part
  <2>1. QED
    BY DEF Surjection
<1>3. IsFiniteSet(parts)
  BY <1>2, FS_Surjection
<1>4. ASSUME NEW x \in D
      PROVE  IsFiniteSet(part(x))
  <2>1. IsFiniteSet({x}) /\ IsFiniteSet(1 .. f[x])
    <3>1. f[x] \in Nat
      BY <1>1
    <3>2. IsFiniteSet(1 .. f[x])
      BY <3>1, CountsUp
    <3>3. QED
      BY <3>2, FS_Singleton
  <2>2. QED
    BY <2>1, FS_Product
<1>5. \A T \in parts : IsFiniteSet(T)
  <2> HIDE DEF part
  <2>1. QED
    BY <1>4
<1>6. IsFiniteSet(UNION parts)
  <2> HIDE DEF parts
  <2>1. QED
    BY <1>3, <1>5, FS_UNION
<1>7. Counted(f) = UNION parts
  BY <1>1 DEF Counted
<1>8. SumOf(f) = Cardinality(Counted(f))
  BY DEF SumOf, Counted
<1>9. QED
  BY <1>6, <1>7, <1>8, FS_CardinalityType

\* One more value adds to the sum.
LEMMA SumOneMore ==
    ASSUME NEW D, IsFiniteSet(D), NEW f \in [D -> Nat], NEW x, x \notin D, NEW n \in Nat
    PROVE  SumOf(Extended(f, x, n)) = SumOf(f) + n
<1> DEFINE g == Extended(f, x, n)
           new == {x} \X (1 .. n)
<1>1. DOMAIN g = D \cup {x} /\ g[x] = n /\ \A y \in D : g[y] = f[y]
  BY DEF Extended
<1>2. IsFiniteSet({x}) /\ Cardinality({x}) = 1 /\ IsFiniteSet(1 .. n) /\ Cardinality(1 .. n) = n
  BY FS_Singleton, CountsUp
<1>3. IsFiniteSet(new) /\ Cardinality(new) = n
  <2>1. IsFiniteSet(new) /\ Cardinality(new) = Cardinality({x}) * Cardinality(1 .. n)
    BY <1>2, FS_Product
  <2>2. QED
    BY <1>2, <2>1
<1>4. IsFiniteSet(Counted(f)) /\ SumOf(f) = Cardinality(Counted(f)) /\ SumOf(f) \in Nat
  BY SumTyped DEF SumOf, Counted
<1>5. Counted(g) = Counted(f) \cup new
  <2> HIDE DEF g
  <2>1. Counted(g) = UNION {{y} \X (1 .. g[y]) : y \in D \cup {x}}
    BY <1>1 DEF Counted
  <2>2. Counted(f) = UNION {{y} \X (1 .. f[y]) : y \in D}
    BY DEF Counted
  <2>3. ASSUME NEW c
        PROVE  c \in Counted(g) <=> c \in Counted(f) \/ c \in new
    <3>1. c \in Counted(g) <=> \E y \in D \cup {x} : c \in {y} \X (1 .. g[y])
      BY <2>1
    <3>2. c \in Counted(f) <=> \E y \in D : c \in {y} \X (1 .. g[y])
      BY <1>1, <2>2
    <3>3. new = {x} \X (1 .. g[x])
      BY <1>1
    <3> HIDE DEF new
    <3>4. QED
      BY <3>1, <3>2, <3>3, Zenon
  <2> HIDE DEF new
  <2>4. QED
    BY <2>3
<1>6. Counted(f) \cap new = {}
  <2>1. \A c \in Counted(f) : c[1] \in D
    BY DEF Counted
  <2>2. \A c \in new : c[1] = x
    OBVIOUS
  <2>3. QED
    BY <2>1, <2>2
<1>7. Cardinality(Counted(f) \cup new) = Cardinality(Counted(f)) + Cardinality(new) - 0
  BY <1>3, <1>4, <1>6, FS_Union, FS_EmptySet
<1>8. SumOf(g) = Cardinality(Counted(g))
  BY DEF SumOf, Counted
<1> HIDE DEF g, new
<1>9. SumOf(g) = SumOf(f) + n
  BY <1>3, <1>4, <1>5, <1>7, <1>8
<1>10. QED
  BY <1>9 DEF g

\* Fewer values do not make a larger sum.
LEMMA SumOfFewer ==
    ASSUME NEW D, IsFiniteSet(D), NEW f \in [D -> Nat], NEW E \in SUBSET D,
           NEW g \in [E -> Nat], \A x \in E : g[x] = f[x]
    PROVE  SumOf(g) <= SumOf(f)
<1>1. IsFiniteSet(E)
  BY FS_Subset
<1>2. /\ IsFiniteSet(Counted(f)) /\ SumOf(f) = Cardinality(Counted(f))
      /\ SumOf(g) = Cardinality(Counted(g))
  BY SumTyped DEF SumOf, Counted
<1>3. Counted(g) \subseteq Counted(f)
  <2>1. ASSUME NEW x \in E
        PROVE  {x} \X (1 .. g[x]) \subseteq Counted(f)
    <3>1. x \in DOMAIN f /\ g[x] = f[x]
      OBVIOUS
    <3>2. QED
      BY <3>1 DEF Counted
  <2>2. Counted(g) = UNION {{x} \X (1 .. g[x]) : x \in E}
    BY DEF Counted
  <2>3. QED
    BY <2>1, <2>2
<1>4. QED
  BY <1>2, <1>3, FS_Subset

\* The clusters that hold a number of slots, and those that hold a file.
SectorsPerCluster == {1, 2, 4, 8, 16, 32, 64}

LEMMA SlotClusters ==
    ASSUME NEW spc \in SectorsPerCluster, NEW slots \in Nat
    PROVE  /\ CeilDiv(slots * 32, spc * Sector) \in Nat
           /\ \A n \in Nat : n >= CeilDiv(slots * 32, spc * Sector) =>
                 slots <= n * ((spc * Sector) \div 32)
<1>1. Sector = 512 /\ spc \in {1, 2, 4, 8, 16, 32, 64}
  BY DEF Sector, SectorsPerCluster
<1>2. CASE spc = 1
  BY <1>1, <1>2 DEF CeilDiv
<1>3. CASE spc = 2
  BY <1>1, <1>3 DEF CeilDiv
<1>4. CASE spc = 4
  BY <1>1, <1>4 DEF CeilDiv
<1>5. CASE spc = 8
  BY <1>1, <1>5 DEF CeilDiv
<1>6. CASE spc = 16
  BY <1>1, <1>6 DEF CeilDiv
<1>7. CASE spc = 32
  BY <1>1, <1>7 DEF CeilDiv
<1>8. CASE spc = 64
  BY <1>1, <1>8 DEF CeilDiv
<1>9. QED
  BY <1>1, <1>2, <1>3, <1>4, <1>5, <1>6, <1>7, <1>8

LEMMA FileClusters ==
    ASSUME NEW spc \in SectorsPerCluster, NEW bytes \in Nat
    PROVE  CeilDiv(bytes, spc * Sector) \in Nat /\ (CeilDiv(bytes, spc * Sector) = 0 <=> bytes = 0)
<1>1. Sector = 512 /\ spc \in {1, 2, 4, 8, 16, 32, 64}
  BY DEF Sector, SectorsPerCluster
<1>2. CASE spc = 1
  BY <1>1, <1>2 DEF CeilDiv
<1>3. CASE spc = 2
  BY <1>1, <1>3 DEF CeilDiv
<1>4. CASE spc = 4
  BY <1>1, <1>4 DEF CeilDiv
<1>5. CASE spc = 8
  BY <1>1, <1>5 DEF CeilDiv
<1>6. CASE spc = 16
  BY <1>1, <1>6 DEF CeilDiv
<1>7. CASE spc = 32
  BY <1>1, <1>7 DEF CeilDiv
<1>8. CASE spc = 64
  BY <1>1, <1>8 DEF CeilDiv
<1>9. QED
  BY <1>1, <1>2, <1>3, <1>4, <1>5, <1>6, <1>7, <1>8

-----------------------------------------------------------------------------
(* Its tree.                                                               *)

\* A path's folder, and what comes of it again.
LEMMA PathFront ==
    ASSUME NEW p \in Seq(Nat), p # << >>
    PROVE  /\ Front(p) \in Seq(Nat) /\ Len(p) \in Nat \ {0} /\ Len(Front(p)) = Len(p) - 1
           /\ \A i \in 1 .. Len(p) - 1 : Front(p)[i] = p[i]
           /\ Front(p) = SubSeq(p, 1, Len(p) - 1)
           /\ Len(p) = 1 => Front(p) = << >>
           /\ Len(p) > 1 => Front(p) # << >>
<1>1. Len(p) \in Nat \ {0}
  BY EmptySeq
<1>2. Front(p) = SubSeq(p, 1, Len(p) - 1)
  BY DEF Front
<1>3. \A i \in 1 .. Len(p) - 1 : p[i] \in Nat
  OBVIOUS
<1> DEFINE n == Len(p) - 1
<1>4. n \in Int /\ 1 \in Int /\ \A i \in 1 .. n : p[i] \in Nat
  BY <1>1, <1>3
<1>5. /\ SubSeq(p, 1, n) \in Seq(Nat) /\ Len(SubSeq(p, 1, n)) = IF 1 <= n THEN n - 1 + 1 ELSE 0
      /\ \A i \in 1 .. n - 1 + 1 : SubSeq(p, 1, n)[i] = p[1 + i - 1]
  <2> HIDE DEF n
  <2>1. QED
    BY <1>4, SubSeqProperties
<1>6. /\ Front(p) \in Seq(Nat) /\ Len(Front(p)) = n
      /\ \A i \in 1 .. n : Front(p)[i] = p[i]
  <2>0. n \in Nat /\ Front(p) = SubSeq(p, 1, n)
    BY <1>1, <1>2
  <2> HIDE DEF n
  <2>1. Front(p) \in Seq(Nat) /\ Len(Front(p)) = n
    BY <1>5, <2>0
  <2>2. ASSUME NEW i \in 1 .. n
        PROVE  Front(p)[i] = p[i]
    <3>1. i \in 1 .. n - 1 + 1 /\ 1 + i - 1 = i
      BY <2>0
    <3>2. SubSeq(p, 1, n)[i] = p[1 + i - 1]
      BY <1>5, <3>1
    <3>3. QED
      BY <2>0, <3>1, <3>2
  <2>3. QED
    BY <2>1, <2>2
<1>7. Len(p) = 1 => Front(p) = << >>
  BY <1>1, <1>6, EmptySeq
<1>8. Len(p) > 1 => Front(p) # << >>
  BY <1>1, <1>6, EmptySeq
<1>9. QED
  BY <1>1, <1>2, <1>6, <1>7, <1>8

\* A path is known by its folder and its last name.
LEMMA SamePath ==
    ASSUME NEW p \in Seq(Nat), NEW q \in Seq(Nat), p # << >>, q # << >>,
           Front(p) = Front(q), p[Len(p)] = q[Len(q)]
    PROVE  p = q
<1>1. Len(p) = Len(q) /\ Len(p) \in Nat \ {0}
  BY PathFront
<1>2. \A i \in 1 .. Len(p) - 1 : p[i] = q[i]
  BY <1>1, PathFront
<1>3. \A i \in 1 .. Len(p) : p[i] = q[i]
  BY <1>1, <1>2
<1>4. QED
  BY <1>1, <1>3, SeqEqual

TreeTyped ==
    \A p \in Paths :
        /\ p \in Seq(Nat) /\ p # << >>
        /\ tree[p].name \in Name /\ tree[p].bytes \in Nat \cup {Folder}
        /\ FoldCase[tree[p].name] = p[Len(p)]

\* Items put at most one thing each into a directory.
TreeSmall ==
    /\ IsFiniteSet(Paths)
    /\ \A d \in Seq(Nat) : Cardinality(Children(d)) <= put

TreeInv == TreeTyped /\ TreeHangsTogether /\ TreeSmall /\ put \in 0 .. MaxItems

\* The folder of a path is the root or a folder in the tree.
LEMMA FolderAbove ==
    ASSUME TreeInv, NEW p \in Paths
    PROVE  Front(p) \in Paths \cup {<< >>} /\ IsFolder(Front(p))
<1>1. p \in Seq(Nat) /\ p # << >>
  BY DEF TreeInv, TreeTyped
<1>2. CASE Len(p) = 1
  BY <1>1, <1>2, PathFront DEF IsFolder
<1>3. CASE Len(p) # 1
  <2>0. Len(p) \in Nat \ {0}
    BY <1>1, PathFront
  <2>1. Len(p) - 1 \in 1 .. Len(p) - 1
    BY <1>3, <2>0
  <2>2. SubSeq(p, 1, Len(p) - 1) \in Paths /\ tree[SubSeq(p, 1, Len(p) - 1)].bytes = Folder
    BY <2>1 DEF TreeInv, TreeHangsTogether
  <2>3. QED
    BY <1>1, <2>2, PathFront DEF IsFolder
<1>4. QED
  BY <1>2, <1>3

LEMMA ChildrenFew ==
    ASSUME TreeInv, NEW d
    PROVE  IsFiniteSet(Children(d)) /\ Cardinality(Children(d)) \in Nat
<1>1. Children(d) \subseteq Paths /\ IsFiniteSet(Paths)
  BY DEF Children, TreeInv, TreeSmall
<1>2. IsFiniteSet(Children(d))
  BY <1>1, FS_Subset
<1>3. QED
  BY <1>2, FS_CardinalityType

\* The beginnings of a path, and their beginnings.
LEMMA Beginnings ==
    ASSUME NEW p \in Seq(Nat), NEW n \in 1 .. Len(p)
    PROVE  /\ SubSeq(p, 1, n) \in Seq(Nat) /\ Len(SubSeq(p, 1, n)) = n
           /\ \A k \in 1 .. n : SubSeq(SubSeq(p, 1, n), 1, k) = SubSeq(p, 1, k)
<1>1. \A i \in 1 .. n : p[i] \in Nat
  OBVIOUS
<1>2. SubSeq(p, 1, n) \in Seq(Nat) /\ Len(SubSeq(p, 1, n)) = n
  BY <1>1, SubSeqProperties
<1>3. ASSUME NEW k \in 1 .. n
      PROVE  SubSeq(SubSeq(p, 1, n), 1, k) = SubSeq(p, 1, k)
  <2>1. 1 \in 1 .. Len(p) /\ n \in 1 .. Len(p) /\ 1 \in 1 .. n - 1 + 1 /\ k \in 1 .. n - 1 + 1
    OBVIOUS
  <2>2. SubSeq(SubSeq(p, 1, n), 1, k) = SubSeq(p, 1 + 1 - 1, 1 + k - 1)
    BY <2>1, SubSeqOfSubSeq
  <2>3. QED
    BY <2>2
<1>4. QED
  BY <1>2, <1>3

\* What begins a beginning of a path begins the path.
LEMMA BeginsBeginning ==
    ASSUME NEW p \in Seq(Nat), NEW n \in 1 .. Len(p), NEW place \in Seq(Nat), place # << >>,
           IsPrefix(place, SubSeq(p, 1, n))
    PROVE  IsPrefix(place, p)
<1>1. Len(place) \in 1 .. n
  <2>1. Len(SubSeq(p, 1, n)) = n
    BY Beginnings
  <2>2. Len(place) <= n
    BY <2>1 DEF IsPrefix
  <2>3. Len(place) \in Nat /\ Len(place) # 0
    BY EmptySeq
  <2>4. QED
    BY <2>2, <2>3
<1>2. SubSeq(SubSeq(p, 1, n), 1, Len(place)) = SubSeq(p, 1, Len(place))
  BY <1>1, Beginnings
<1>3. QED
  BY <1>1, <1>2 DEF IsPrefix

\* A path of folded names is a path of numbers.
LEMMA FoldedPath ==
    ASSUME NEW path \in Seq(Name)
    PROVE  Folded(path) \in Seq(Nat) /\ Len(Folded(path)) = Len(path)
<1>1. DOMAIN path = 1 .. Len(path) /\ Len(path) \in Nat
  OBVIOUS
<1>2. \A i \in 1 .. Len(path) : FoldCase[path[i]] \in Nat
  BY EspAssumption
<1>3. Folded(path) = [i \in 1 .. Len(path) |-> FoldCase[path[i]]]
  BY <1>1 DEF Folded
<1>4. QED
  BY <1>1, <1>2, <1>3

\* An item changes the tree, or is refused and changes nothing.
LEMMA InsertKeepsTree ==
    ASSUME TreeInv, NEW item \in Item, Insert(item)
    PROVE  TreeInv'
<1> DEFINE place == Folded(item.path)
           replaced == {p \in Paths : item.bytes # Folder /\ IsPrefix(place, p)}
           kept == Paths \ replaced
           made == {SubSeq(place, 1, n) : n \in 1 .. Len(place)}
           node(n) == IF n = Len(place) THEN item.bytes ELSE Folder
<1>1. item.path \in Seq(Name) /\ item.path # << >>
  BY EspAssumption
<1>2. place \in Seq(Nat) /\ Len(place) = Len(item.path) /\ Len(place) \in Nat /\ place # << >>
  BY <1>1, FoldedPath, EmptySeq
<1>0. put' = put + 1 /\ put' \in 0 .. MaxItems /\ put \in Nat
  BY EspAssumption DEF TreeInv, Insert
<1>3. CASE UNCHANGED tree
  <2>1. Paths' = Paths /\ \A d : Children(d)' = Children(d)
    BY <1>3 DEF Paths, Children
  <2>2. TreeTyped' /\ TreeHangsTogether'
    BY <1>3 DEF TreeInv, TreeTyped, TreeHangsTogether, Paths
  <2>3. ASSUME NEW d \in Seq(Nat)
        PROVE  Cardinality(Children(d)') <= put'
    <3>1. Cardinality(Children(d)) <= put /\ Cardinality(Children(d)) \in Nat
      BY ChildrenFew DEF TreeInv, TreeSmall
    <3>2. QED
      BY <1>0, <2>1, <3>1
  <2>4. IsFiniteSet(Paths')
    BY <2>1 DEF TreeInv, TreeSmall
  <2>5. QED
    BY <1>0, <2>2, <2>3, <2>4 DEF TreeInv, TreeSmall
<1>4. CASE tree' # tree
  <2>1. /\ tree' = [p \in kept \cup made |->
                       IF p \in kept THEN tree[p]
                       ELSE [name |-> item.path[Len(p)], bytes |-> node(Len(p))]]
        /\ \A p \in Above(place) \cap Paths : IsFolder(p)
    BY <1>4 DEF Insert
  <2>2. \A p \in made : p \in Seq(Nat) /\ Len(p) \in 1 .. Len(place) /\ p = SubSeq(place, 1, Len(p))
    BY <1>2, Beginnings
  <2>3. \A p \in Paths : p \in Seq(Nat) /\ p # << >>
    BY DEF TreeInv, TreeTyped
  <2>3a. \A p \in made : p # << >> /\ p[Len(p)] = place[Len(p)]
    <3>1. ASSUME NEW n \in 1 .. Len(place)
          PROVE  SubSeq(place, 1, n)[n] = place[n]
      BY <1>2, <3>1
    <3>2. QED
      BY <1>2, <2>2, <3>1, EmptySeq
  <2>3b. \A n \in 1 .. Len(place) : item.path[n] \in Name /\ place[n] = FoldCase[item.path[n]]
    BY <1>1, <1>2 DEF Folded
  <2> HIDE DEF place, replaced, made, node
  <2>4. Paths' = kept \cup made
    BY <2>1 DEF Paths
  <2>5. ASSUME NEW p \in kept
        PROVE  tree'[p] = tree[p]
    BY <2>1, <2>5
  <2>6. ASSUME NEW p \in made, p \notin kept
        PROVE  tree'[p].name = item.path[Len(p)] /\ tree'[p].bytes = node(Len(p))
    <3>1. tree'[p] = [name |-> item.path[Len(p)], bytes |-> node(Len(p))]
      BY <2>1, <2>6
    <3>2. QED
      BY <3>1
  <2>7. TreeTyped'
    <3> DEFINE Right(p) == /\ tree'[p].name \in Name /\ tree'[p].bytes \in Nat \cup {Folder}
                           /\ FoldCase[tree'[p].name] = p[Len(p)]
    <3>1. ASSUME NEW p \in made, p \notin kept
          PROVE  Right(p)
      <4>1. Len(p) \in 1 .. Len(place)
        BY <2>2
      <4>2. tree'[p].name \in Name /\ FoldCase[tree'[p].name] = p[Len(p)]
        BY <2>3a, <2>3b, <2>6, <3>1, <4>1
      <4>3. node(Len(p)) \in Nat \cup {Folder}
        BY EspAssumption DEF node
      <4>4. QED
        BY <2>6, <3>1, <4>2, <4>3
    <3>2. \A p \in kept : Right(p)
      BY <2>5 DEF TreeInv, TreeTyped
    <3>3. \A p \in Paths' : p \in Seq(Nat) /\ p # << >>
      BY <2>2, <2>3, <2>3a, <2>4
    <3>4. \A p \in Paths' : Right(p)
      <4> HIDE DEF Right
      <4>1. QED
        BY <2>4, <3>1, <3>2
    <3>5. QED
      BY <3>3, <3>4 DEF TreeTyped
  <2>8. ASSUME NEW p \in kept, NEW n \in 1 .. Len(p) - 1
        PROVE  SubSeq(p, 1, n) \in kept /\ tree'[SubSeq(p, 1, n)].bytes = Folder
    <3>1. p \in Seq(Nat) /\ n \in 1 .. Len(p)
      BY <2>3
    <3>2. SubSeq(p, 1, n) \in Paths /\ tree[SubSeq(p, 1, n)].bytes = Folder
      BY DEF TreeInv, TreeHangsTogether
    <3>3. SubSeq(p, 1, n) \notin replaced
      BY <1>2, <3>1, BeginsBeginning DEF replaced
    <3>4. QED
      BY <2>5, <3>2, <3>3
  <2>9. ASSUME NEW p \in made, NEW n \in 1 .. Len(p) - 1
        PROVE  SubSeq(p, 1, n) \in made /\ tree'[SubSeq(p, 1, n)].bytes = Folder
    <3> DEFINE q == SubSeq(p, 1, n)
    <3>1. n \in 1 .. Len(place) - 1 /\ q = SubSeq(place, 1, n)
      BY <1>2, <2>2, Beginnings
    <3>2. Len(q) = n
      BY <1>2, <3>1, Beginnings
    <3>3. q \in made /\ q \in Above(place)
      BY <1>2, <3>1 DEF made, Above
    <3>4. CASE q \in kept
      <4>1. IsFolder(q) /\ q # << >>
        BY <2>1, <3>2, <3>3, <3>4
      <4>2. tree[q].bytes = Folder
        BY <4>1 DEF IsFolder
      <4>3. QED
        BY <2>5, <3>3, <3>4, <4>2
    <3>5. CASE q \notin kept
      <4>1. tree'[q].bytes = node(n)
        BY <2>6, <3>2, <3>3, <3>5
      <4>2. QED
        BY <1>2, <3>1, <3>3, <4>1 DEF node
    <3>6. QED
      BY <3>4, <3>5
  <2>10. TreeHangsTogether'
    BY <2>4, <2>8, <2>9 DEF TreeHangsTogether
  <2>11. IsFiniteSet(Paths')
    <3> DEFINE lengths == 1 .. Len(place)
               first == [n \in lengths |-> SubSeq(place, 1, n)]
    <3>1. IsFiniteSet(lengths)
      BY <1>2, CountsUp
    <3>2. first \in Surjection(lengths, made)
      BY DEF Surjection, made
    <3>3. IsFiniteSet(made)
      <4> HIDE DEF lengths, first
      <4>1. QED
        BY <3>1, <3>2, FS_Surjection
    <3>4. IsFiniteSet(kept)
      BY FS_Subset DEF TreeInv, TreeSmall
    <3>5. QED
      BY <2>4, <3>3, <3>4, FS_Union
  <2>12. ASSUME NEW d \in Seq(Nat)
         PROVE  Cardinality(Children(d)') <= put'
    <3> DEFINE more == SubSeq(place, 1, Len(d) + 1)
               many == Children(d) \cup {more}
    <3>1. Children(d)' \subseteq many
      <4>1. SUFFICES ASSUME NEW p \in made, Front(p) = d
                     PROVE  p = more
        BY <2>4 DEF Children
      <4>2. Len(d) = Len(p) - 1 /\ Len(p) \in Nat
        BY <2>2, <2>3a, <4>1, PathFront
      <4>3. QED
        BY <2>2, <4>2
    <3>2. IsFiniteSet(Children(d)) /\ Cardinality(Children(d)) \in Nat
          /\ Cardinality(Children(d)) <= put
      BY ChildrenFew DEF TreeInv, TreeSmall
    <3> HIDE DEF more
    <3>3. IsFiniteSet(many) /\ Cardinality(many) <= Cardinality(Children(d)) + 1
      <4> DEFINE kids == Children(d)
      <4> HIDE DEF kids
      <4>1. IsFiniteSet(kids) /\ Cardinality(kids) \in Nat
        BY <3>2 DEF kids
      <4>2. /\ IsFiniteSet(kids \cup {more})
            /\ Cardinality(kids \cup {more}) =
                  IF more \in kids THEN Cardinality(kids) ELSE Cardinality(kids) + 1
        BY <4>1, FS_AddElement
      <4>3. QED
        BY <4>1, <4>2 DEF kids
    <3>4. Cardinality(many) \in Nat
      BY <3>3, FS_CardinalityType
    <3> HIDE DEF many
    <3>5. IsFiniteSet(Children(d)') /\ Cardinality(Children(d)') <= Cardinality(many)
      BY <3>1, <3>3, FS_Subset
    <3>6. Cardinality(Children(d)') \in Nat
      BY <3>5, FS_CardinalityType
    <3>7. QED
      BY <1>0, <3>2, <3>3, <3>4, <3>5, <3>6
  <2>13. QED
    BY <1>0, <2>7, <2>10, <2>11, <2>12 DEF TreeInv, TreeSmall
<1>5. QED
  BY <1>3, <1>4

\* Names that share an 8.3 field are one name to the order of a directory.
ShortNamesTell ==
    \A a, b \in Name : Short[a] = Short[b] /\ Short[a] # NoField => FoldCase[a] = FoldCase[b]

\* A number not more than the others.
LEMMA LeastNumber ==
    ASSUME NEW S, S \subseteq Nat, S # {}
    PROVE  \E m \in S : \A k \in S : m <= k
<1> DEFINE Less == OpToRel(<, Nat)
<1>1. IsWellFoundedOn(Less, Nat)
  BY NatLessThanWellFounded
<1>2. \A a, b \in Nat : a < b => <<a, b>> \in Less
  BY DEF OpToRel
<1> HIDE DEF Less
<1>3. PICK m \in S : \A k \in S : ~ (<<k, m>> \in Less)
  BY <1>1, WFMin
<1>4. ASSUME NEW k \in S
      PROVE  m <= k
  <2>1. k \in Nat /\ m \in Nat
    OBVIOUS
  <2>2. ~ (k < m)
    BY <1>2, <1>3, <2>1
  <2>3. QED
    BY <2>1, <2>2
<1>5. QED
  BY <1>4

\* The slots of a directory are counted.
LEMMA ContentTyped ==
    ASSUME TreeInv, NEW d
    PROVE  /\ ContentSlots(d) \in Nat
           /\ ContentSlots(d) = (IF d = << >> THEN 1 ELSE 2)
                                    + SumOf([p \in Children(d) |-> 1 + Slots(NameOf(p))])
<1> DEFINE kids == Children(d)
           slots == [p \in kids |-> 1 + Slots(NameOf(p))]
<1>1. \A p \in kids : Slots(NameOf(p)) \in Nat
  BY EspAssumption DEF TreeInv, TreeTyped, Children, NameOf, Slots
<1>2. slots \in [kids -> Nat]
  BY <1>1
<1>3. IsFiniteSet(kids)
  BY ChildrenFew
<1>4. SumOf(slots) \in Nat
  <2> HIDE DEF kids, slots
  <2>1. QED
    BY <1>2, <1>3, SumTyped
<1>5. ContentSlots(d) = (IF d = << >> THEN 1 ELSE 2) + SumOf(slots)
  BY DEF ContentSlots, SlotsOf
<1>6. QED
  BY <1>4, <1>5

\* The clusters of a folder hold its slots, and a file has none if it is empty.
LEMMA PathNeeds ==
    ASSUME TreeInv, SoundVolume(volume), NEW p \in Paths \cup {<< >>}
    PROVE  /\ PathClusters(p) \in Nat
           /\ PathClusters(p) = 0 <=> p # << >> /\ tree[p].bytes = 0
           /\ IsFolder(p) => /\ PathClusters(p) = DirClusters(p, volume)
                             /\ PathClusters(p) # 0
                             /\ ContentSlots(p) <= PathClusters(p) * (ClusterBytes(volume) \div 32)
<1>1. volume.spc \in SectorsPerCluster
  BY DEF SoundVolume, Figures, SectorsPerCluster
<1>2. ClusterBytes(volume) = volume.spc * Sector
  BY DEF ClusterBytes
<1>3. CASE IsFolder(p)
  <2> DEFINE slots == ContentSlots(p)
             need == CeilDiv(slots * 32, volume.spc * Sector)
             n == IF need = 0 THEN 1 ELSE need
  <2>1. slots \in Nat
    BY ContentTyped
  <2>2. PathClusters(p) = n /\ DirClusters(p, volume) = n
    BY <1>2, <1>3 DEF PathClusters, DirClusters
  <2>3. /\ need \in Nat
        /\ \A k \in Nat : k >= need => slots <= k * ((volume.spc * Sector) \div 32)
    <3> HIDE DEF slots
    <3>1. QED
      BY <1>1, <2>1, SlotClusters
  <2> HIDE DEF slots, need
  <2>4. n \in Nat /\ n # 0 /\ n >= need
    BY <2>3
  <2>5. slots <= n * ((volume.spc * Sector) \div 32)
    BY <2>3, <2>4
  <2>6. p = << >> \/ tree[p].bytes # 0
    BY <1>3, EspAssumption DEF IsFolder
  <2> HIDE DEF n
  <2>7. QED
    BY <1>2, <2>2, <2>4, <2>5, <2>6 DEF slots
<1>4. CASE ~ IsFolder(p)
  <2>1. p \in Paths /\ p # << >> /\ tree[p].bytes \in Nat
    BY <1>4 DEF IsFolder, TreeInv, TreeTyped
  <2>2. PathClusters(p) = CeilDiv(tree[p].bytes, volume.spc * Sector)
    BY <1>2, <1>4 DEF PathClusters
  <2>3. QED
    BY <1>1, <1>4, <2>1, <2>2, FileClusters
<1>5. QED
  BY <1>3, <1>4

\* The next child, if a directory has one left.
LEMMA ChildThere ==
    ASSUME TreeInv, HasChild
    PROVE  Child \in Children(cur) /\ Child \notin DOMAIN Top.buf
<1> DEFINE lasts == {p[Len(p)] : p \in Remaining}
<1>1. \A p \in Remaining : p[Len(p)] \in Nat
  <2>1. \A p \in Remaining : p \in Seq(Nat) /\ p # << >>
    BY DEF Remaining, Children, TreeInv, TreeTyped
  <2>2. QED
    BY <2>1, PathFront
<1>2. lasts \subseteq Nat /\ lasts # {}
  BY <1>1 DEF HasChild
<1>3. PICK m \in lasts : \A k \in lasts : m <= k
  <2> HIDE DEF lasts
  <2>1. QED
    BY <1>2, LeastNumber
<1>4. PICK p \in Remaining : p[Len(p)] = m
  OBVIOUS
<1>5. \A q \in Remaining : p[Len(p)] <= q[Len(q)]
  BY <1>3, <1>4
<1>6. Child \in Remaining
  BY <1>5 DEF Child
<1>7. QED
  BY <1>6 DEF Remaining

-----------------------------------------------------------------------------
(* Its directories, as they are rendered.                                  *)

\* The entry of a path, when the path's first cluster is this.
EntryRight(e, p, first) ==
    /\ e.slots = 1 + Slots(NameOf(p)) /\ e.bytes = tree[p].bytes /\ e.first = first
    /\ e.long = IF Short[NameOf(p)] = NoField THEN FoldCase[NameOf(p)] ELSE -1
    /\ IF Short[NameOf(p)] # NoField THEN e.field = Short[NameOf(p)]
       ELSE e.field \notin Real(Front(p))

\* Entries of a directory, whose paths start at these clusters.
EntriesRight(d, es, place) ==
    /\ DOMAIN es = Children(d) \cap DOMAIN place
    /\ \A p \in DOMAIN es : EntryRight(es[p], p, place[p])
    /\ ShortNamesTell => \A p, q \in DOMAIN es : es[p].field = es[q].field => p = q

\* A child's name is in the tree.
LEMMA ChildNamed ==
    ASSUME TreeInv, NEW d, NEW p \in Children(d)
    PROVE  /\ p \in Paths /\ Front(p) = d /\ p \in Seq(Nat) /\ p # << >>
           /\ NameOf(p) \in Name /\ FoldCase[NameOf(p)] = p[Len(p)] /\ d \in Seq(Nat)
<1>1. p \in Paths /\ Front(p) = d
  BY DEF Children
<1>2. /\ p \in Seq(Nat) /\ p # << >>
      /\ NameOf(p) \in Name /\ FoldCase[NameOf(p)] = p[Len(p)]
  BY <1>1 DEF TreeInv, TreeTyped, NameOf
<1>3. QED
  BY <1>1, <1>2, PathFront

\* Children of one directory with the same name, whatever its case, are one.
LEMMA SameChild ==
    ASSUME TreeInv, NEW d, NEW p \in Children(d), NEW q \in Children(d),
           FoldCase[NameOf(p)] = FoldCase[NameOf(q)]
    PROVE  p = q
BY ChildNamed, SamePath

\* There is an alias that no child has, as long as one is left that needs it.
LEMMA AliasFree ==
    ASSUME TreeInv, NEW d, NEW buf, NEW place, EntriesRight(d, buf, place),
           NEW p \in Children(d), p \notin DOMAIN buf, Short[NameOf(p)] = NoField
    PROVE  FreeAliases(p, buf) # {}
<1> SUFFICES ASSUME FreeAliases(p, buf) = {} PROVE FALSE
  OBVIOUS
<1> DEFINE alias == Alias[NameOf(p)]
           others == Children(d) \ {p}
           label(q) == IF Short[NameOf(q)] # NoField THEN Short[NameOf(q)] ELSE buf[q].field
           tries == 1 .. MaxItems
           holder == [n \in tries |-> CHOOSE q \in others : label(q) = alias[n]]
<1>1. Front(p) = d /\ NameOf(p) \in Name
  BY ChildNamed
<1>2. /\ \A n, m \in tries : alias[n] = alias[m] => n = m
      /\ tries \subseteq DOMAIN alias
  BY <1>1, EspAssumption
<1>3. ASSUME NEW n \in tries
      PROVE  \E q \in others : label(q) = alias[n]
  <2>1. alias[n] \in Real(d) \cup {buf[q].field : q \in DOMAIN buf}
    BY <1>1, <1>2, <1>3 DEF FreeAliases
  <2>2. CASE alias[n] \in Real(d)
    <3>1. PICK q \in Children(d) : Short[NameOf(q)] = alias[n] /\ alias[n] # NoField
      BY <2>2 DEF Real
    <3>2. q # p
      BY <3>1
    <3>3. QED
      BY <3>1, <3>2
  <2>3. CASE alias[n] \in {buf[q].field : q \in DOMAIN buf}
    <3>1. PICK q \in DOMAIN buf : buf[q].field = alias[n]
      BY <2>3
    <3>2. q \in others /\ EntryRight(buf[q], q, place[q])
      BY DEF EntriesRight
    <3>3. label(q) = buf[q].field
      BY <3>2 DEF EntryRight
    <3>4. QED
      BY <3>1, <3>2, <3>3
  <2>4. QED
    BY <2>1, <2>2, <2>3
<1> HIDE DEF label
<1>4. \A n \in tries : holder[n] \in others /\ label(holder[n]) = alias[n]
  <2>1. ASSUME NEW n \in tries
        PROVE  holder[n] \in others /\ label(holder[n]) = alias[n]
    <3>1. holder[n] = CHOOSE q \in others : label(q) = alias[n]
      OBVIOUS
    <3>2. \E q \in others : label(q) = alias[n]
      BY <1>3
    <3> HIDE DEF holder, others
    <3>3. QED
      BY <3>1, <3>2
  <2>2. QED
    BY <2>1
<1>5. holder \in [tries -> others]
  <2>1. holder = [n \in tries |-> holder[n]]
    OBVIOUS
  <2> HIDE DEF holder, others
  <2>2. QED
    BY <1>4, <2>1
<1>6. /\ IsFiniteSet(Children(d)) /\ Cardinality(Children(d)) \in Nat
      /\ Cardinality(Children(d)) <= put /\ put \in 0 .. MaxItems /\ MaxItems \in Nat
  <2>1. d \in Seq(Nat)
    BY ChildNamed
  <2>2. QED
    BY <2>1, ChildrenFew, EspAssumption DEF TreeInv, TreeSmall
<1>7. IsFiniteSet(others) /\ Cardinality(others) = Cardinality(Children(d)) - 1
  <2>1. /\ IsFiniteSet(Children(d) \ {p})
        /\ Cardinality(Children(d) \ {p}) =
              IF p \in Children(d) THEN Cardinality(Children(d)) - 1 ELSE Cardinality(Children(d))
    BY <1>6, FS_RemoveElement
  <2>2. QED
    BY <2>1
<1>8. IsFiniteSet(tries) /\ Cardinality(tries) = MaxItems
  BY <1>6, CountsUp
<1>9. Cardinality(others) < Cardinality(tries)
  BY <1>6, <1>7, <1>8
<1> HIDE DEF holder, tries, others
<1>10. \E n, m \in tries : n # m /\ holder[n] = holder[m]
  BY <1>5, <1>7, <1>8, <1>9, FS_PigeonHole
<1>11. QED
  BY <1>2, <1>4, <1>10

\* The entry that is written for a child is right, and has a field of its own.
LEMMA EntryWritten ==
    ASSUME TreeInv, NEW d, NEW buf, NEW place, EntriesRight(d, buf, place),
           NEW p \in Children(d), p \notin DOMAIN buf, NEW first
    PROVE  /\ EntryRight(DirEntry(p, buf, first), p, first)
           /\ ShortNamesTell => \A q \in DOMAIN buf : buf[q].field # FieldOf(p, buf)
<1>1. Front(p) = d /\ NameOf(p) \in Name
  BY ChildNamed
<1>2. DirEntry(p, buf, first).field = FieldOf(p, buf)
  BY DEF DirEntry
<1>3. CASE Short[NameOf(p)] # NoField
  <2>1. FieldOf(p, buf) = Short[NameOf(p)]
    BY <1>3 DEF FieldOf
  <2>2. ASSUME ShortNamesTell, NEW q \in DOMAIN buf, buf[q].field = Short[NameOf(p)]
        PROVE  FALSE
    <3>1. q \in Children(d) /\ EntryRight(buf[q], q, place[q]) /\ Front(q) = d /\ NameOf(q) \in Name
      BY ChildNamed DEF EntriesRight
    <3>2. Short[NameOf(p)] \in Real(d)
      BY <1>3 DEF Real
    <3>3. Short[NameOf(q)] = Short[NameOf(p)]
      BY <2>2, <3>1, <3>2 DEF EntryRight
    <3>4. FoldCase[NameOf(q)] = FoldCase[NameOf(p)]
      BY <1>1, <1>3, <2>2, <3>1, <3>3 DEF ShortNamesTell
    <3>5. p = q
      BY <3>1, <3>4, SameChild
    <3>6. QED
      BY <3>5
  <2>3. EntryRight(DirEntry(p, buf, first), p, first)
    BY <1>3, <2>1 DEF EntryRight, DirEntry
  <2>4. QED
    BY <2>1, <2>2, <2>3
<1>4. CASE Short[NameOf(p)] = NoField
  <2> DEFINE free == FreeAliases(p, buf)
             n == CHOOSE n \in free : \A m \in free : n <= m
  <2>1. free # {} /\ free \subseteq Nat
    <3>1. free # {}
      BY <1>4, AliasFree
    <3>2. free \subseteq Nat
      BY <1>1, <1>4, EspAssumption DEF FreeAliases
    <3>3. QED
      BY <3>1, <3>2
  <2>2. n \in free
    <3>1. \E k \in free : \A m \in free : k <= m
      <4> HIDE DEF free
      <4>1. QED
        BY <2>1, LeastNumber
    <3> HIDE DEF free
    <3>2. QED
      BY <3>1
  <2>3. FieldOf(p, buf) = Alias[NameOf(p)][n]
    BY <1>4 DEF FieldOf
  <2> HIDE DEF n
  <2>4. FieldOf(p, buf) \notin Real(d) \cup {buf[q].field : q \in DOMAIN buf}
    BY <1>1, <2>2, <2>3 DEF FreeAliases
  <2> DEFINE entry == DirEntry(p, buf, first)
  <2>5. /\ entry.slots = 1 + Slots(NameOf(p)) /\ entry.bytes = tree[p].bytes
        /\ entry.first = first /\ entry.field = FieldOf(p, buf)
        /\ entry.long = IF Short[NameOf(p)] = NoField THEN FoldCase[NameOf(p)] ELSE -1
    BY DEF DirEntry
  <2> HIDE DEF entry
  <2>6. EntryRight(entry, p, first)
    BY <1>1, <1>4, <2>4, <2>5 DEF EntryRight
  <2>7. QED
    BY <2>4, <2>6 DEF entry
<1>5. QED
  BY <1>3, <1>4

\* The first cluster of each path that is placed, and what the paths' chains and
\* the directories say then: of the chains ch, the directories ds that are being
\* rendered down to c, those st that are stored, and the next free cluster nf.
Chained(p, first, ch) ==
    /\ first = 0 <=> IF p = << >> THEN ~ volume.wide ELSE PathClusters(p) = 0
    /\ first # 0 => first \in DOMAIN ch /\ ch[first] = PathClusters(p)

Placed(place, ch) ==
    /\ DOMAIN place \subseteq Paths \cup {<< >>}
    /\ << >> \in DOMAIN place /\ place[<< >>] = RootDir
    /\ \A p \in DOMAIN place : Chained(p, place[p], ch) /\ Front(p) \in DOMAIN place
    /\ \A p, q \in DOMAIN place : place[p] = place[q] /\ place[p] # 0 => p = q

PlacedClusters(place) ==
    (IF volume.wide THEN DirClusters(<< >>, volume) ELSE 0)
        + SumOf([p \in DOMAIN place \ {<< >>} |-> PathClusters(p)])

Nested(ds, c) ==
    /\ ds # {} => c \in ds
    /\ \A d \in ds : Len(d) <= Len(c) /\ Front(d) \in ds
    /\ \A d, e \in ds : Len(d) = Len(e) => d = e

DotDot(d, place) == IF Front(d) = << >> THEN 0 ELSE place[Front(d)]

WrittenRight(d, dotdot, es, place) == dotdot = DotDot(d, place) /\ EntriesRight(d, es, place)

OpenRight(place, ds) ==
    \A d \in DOMAIN ds :
        /\ d \in DOMAIN place /\ IsFolder(d) /\ ds[d].first = place[d]
        /\ WrittenRight(d, ds[d].dotdot, ds[d].buf, place)

ClosedRight(place, ds, st) ==
    \A d \in DOMAIN place \ DOMAIN ds : IsFolder(d) =>
        /\ Children(d) \subseteq DOMAIN place /\ place[d] \in DOMAIN st
        /\ WrittenRight(d, st[place[d]].dotdot, st[place[d]].entries, place)

RenderInv(place, ch, st, ds, c, nf) ==
    /\ Placed(place, ch) /\ PlacedClusters(place) = nf - 2
    /\ Nested(DOMAIN ds, c) /\ OpenRight(place, ds) /\ ClosedRight(place, ds, st)

\* What is written of a directory is right still when more is placed.
LEMMA WrittenStays ==
    ASSUME NEW d, NEW dotdot, NEW es, NEW place, NEW more,
           WrittenRight(d, dotdot, es, place), Front(d) \in DOMAIN place,
           DOMAIN place \subseteq DOMAIN more, \A p \in DOMAIN place : more[p] = place[p],
           Children(d) \cap DOMAIN more = Children(d) \cap DOMAIN place
    PROVE  WrittenRight(d, dotdot, es, more)
<1>1. DotDot(d, more) = DotDot(d, place)
  BY DEF DotDot
<1>2. EntriesRight(d, es, more)
  BY DEF WrittenRight, EntriesRight
<1>3. QED
  BY <1>1, <1>2 DEF WrittenRight

\* The chains were handed out one behind the other.
HandedOut ==
    /\ nextFree \in Nat /\ nextFree >= 2
    /\ \A c \in DOMAIN chains :
          c \in Nat /\ c >= 2 /\ chains[c] \in Nat \ {0} /\ c + chains[c] <= nextFree
    /\ \A c, d \in DOMAIN chains : c < d => c + chains[c] <= d

\* The chains hold no cluster from the next free one on.
LEMMA NextIsFree ==
    ASSUME HandedOut
    PROVE  nextFree \notin DOMAIN chains /\ nextFree # 0 /\ nextFree \in Nat
BY DEF HandedOut

\* A chain that fits is handed out behind the others.
LEMMA AllocKeeps ==
    ASSUME HandedOut, NEW n \in Nat \ {0}, AllocChain(n)
    PROVE  /\ HandedOut' /\ DOMAIN chains' = DOMAIN chains \cup {nextFree}
           /\ chains'[nextFree] = n /\ \A c \in DOMAIN chains : chains'[c] = chains[c]
<1>1. chains' = Extended(chains, nextFree, n) /\ nextFree' = nextFree + n /\ nextFree \in Nat
  BY DEF AllocChain, HandedOut
<1>2. DOMAIN chains' = DOMAIN chains \cup {nextFree} /\ chains'[nextFree] = n
  BY <1>1 DEF Extended
<1>3. \A c \in DOMAIN chains : chains'[c] = chains[c]
  BY <1>1, NextIsFree DEF Extended
<1>4. HandedOut'
  BY <1>1, <1>2, <1>3 DEF HandedOut
<1>5. QED
  BY <1>2, <1>3, <1>4

\* The clusters of what is placed are counted, and of one path more.
LEMMA OneMorePlaced ==
    ASSUME TreeInv, SoundVolume(volume), NEW place, DOMAIN place \subseteq Paths \cup {<< >>},
           << >> \in DOMAIN place
    PROVE  /\ PlacedClusters(place) \in Nat
           /\ \A p \in Paths \ DOMAIN place, first \in Nat :
                 PlacedClusters(Extended(place, p, first)) = PlacedClusters(place) + PathClusters(p)
<1> DEFINE P == DOMAIN place \ {<< >>}
           f == [p \in P |-> PathClusters(p)]
           root == IF volume.wide THEN DirClusters(<< >>, volume) ELSE 0
<1>1. IsFiniteSet(P)
  BY FS_Subset DEF TreeInv, TreeSmall
<1>2. f \in [P -> Nat]
  BY PathNeeds
<1>3. root \in Nat
  <2>1. IsFolder(<< >>) /\ PathClusters(<< >>) \in Nat
    BY PathNeeds DEF IsFolder
  <2>2. DirClusters(<< >>, volume) \in Nat
    BY <2>1, PathNeeds
  <2>3. QED
    BY <2>2
<1>4. SumOf(f) \in Nat
  <2> HIDE DEF P, f
  <2>1. QED
    BY <1>1, <1>2, SumTyped
<1>5. PlacedClusters(place) = root + SumOf(f)
  BY DEF PlacedClusters
<1>6. ASSUME NEW p \in Paths \ DOMAIN place, NEW first \in Nat
      PROVE  PlacedClusters(Extended(place, p, first)) = root + SumOf(f) + PathClusters(p)
  <2> DEFINE more == Extended(place, p, first)
             g == [q \in DOMAIN more \ {<< >>} |-> PathClusters(q)]
             n == PathClusters(p)
  <2>1. p \notin P /\ n \in Nat
    BY PathNeeds
  <2>2. DOMAIN more \ {<< >>} = P \cup {p}
    BY DEF Extended
  <2>3. g = Extended(f, p, n)
    BY <2>1, <2>2 DEF Extended
  <2>4. SumOf(Extended(f, p, n)) = SumOf(f) + n
    <3> HIDE DEF P, f, n
    <3>1. QED
      BY <1>1, <1>2, <2>1, SumOneMore
  <2>5. PlacedClusters(more) = root + SumOf(g)
    BY DEF PlacedClusters
  <2> HIDE DEF more, g, f, n, root
  <2>6. PlacedClusters(more) = root + (SumOf(f) + n)
    BY <2>3, <2>4, <2>5
  <2>7. PlacedClusters(more) = root + SumOf(f) + n
    BY <1>3, <1>4, <2>1, <2>6
  <2>8. QED
    BY <2>7 DEF n, more
<1>7. QED
  BY <1>3, <1>4, <1>5, <1>6, SMTT(30)

\* The entries of a directory are right with one more child's.
LEMMA EntryAdded ==
    ASSUME TreeInv, NEW d, NEW buf, NEW place, EntriesRight(d, buf, place),
           NEW p \in Children(d), p \notin DOMAIN place, NEW first
    PROVE  EntriesRight(d, Extended(buf, p, DirEntry(p, buf, first)), Extended(place, p, first))
<1> DEFINE entry == DirEntry(p, buf, first)
           grown == Extended(buf, p, entry)
           more == Extended(place, p, first)
<1>1. DOMAIN buf = Children(d) \cap DOMAIN place /\ p \notin DOMAIN buf
  BY DEF EntriesRight
<1>2. /\ EntryRight(entry, p, first) /\ entry.field = FieldOf(p, buf)
      /\ ShortNamesTell => \A q \in DOMAIN buf : buf[q].field # FieldOf(p, buf)
  <2>1. entry.field = FieldOf(p, buf)
    BY DEF DirEntry
  <2> HIDE DEF entry
  <2>2. /\ EntryRight(DirEntry(p, buf, first), p, first)
        /\ ShortNamesTell => \A q \in DOMAIN buf : buf[q].field # FieldOf(p, buf)
    BY <1>1, EntryWritten
  <2>3. QED
    BY <2>1, <2>2 DEF entry
<1> HIDE DEF entry
<1>3. /\ DOMAIN grown = DOMAIN buf \cup {p} /\ grown[p] = entry
      /\ \A q \in DOMAIN buf : grown[q] = buf[q]
  BY <1>1 DEF Extended
<1>4. /\ DOMAIN more = DOMAIN place \cup {p} /\ more[p] = first
      /\ \A q \in DOMAIN place : more[q] = place[q]
  BY DEF Extended
<1> HIDE DEF grown, more
<1>5. DOMAIN grown = Children(d) \cap DOMAIN more
  BY <1>1, <1>3, <1>4
<1>6. ASSUME NEW q \in DOMAIN grown
      PROVE  EntryRight(grown[q], q, more[q])
  <2>1. CASE q = p
    BY <1>2, <1>3, <1>4, <2>1
  <2>2. CASE q # p
    <3>1. q \in DOMAIN buf /\ q \in DOMAIN place
      BY <1>1, <1>3, <2>2
    <3>2. EntryRight(buf[q], q, place[q])
      BY <3>1 DEF EntriesRight
    <3>3. QED
      BY <1>3, <1>4, <3>1, <3>2
  <2>3. QED
    BY <2>1, <2>2
<1>7. ASSUME ShortNamesTell, NEW q \in DOMAIN grown, NEW r \in DOMAIN grown,
             grown[q].field = grown[r].field
      PROVE  q = r
  <2>1. \A x, y \in DOMAIN buf : buf[x].field = buf[y].field => x = y
    BY <1>7 DEF EntriesRight
  <2>2. \A x \in DOMAIN buf : buf[x].field # entry.field
    BY <1>2, <1>7
  <2>3. QED
    BY <1>3, <1>7, <2>1, <2>2
<1>8. EntriesRight(d, grown, more)
  BY <1>5, <1>6, <1>7 DEF EntriesRight
<1>9. QED
  BY <1>8 DEF grown, more, entry

\* A path that is placed.
LEMMA PlacedPath ==
    ASSUME TreeInv, NEW place, NEW ch, Placed(place, ch), NEW p \in DOMAIN place
    PROVE  p \in Seq(Nat) /\ Len(p) \in Nat /\ p \in Paths \cup {<< >>}
<1>1. p \in Paths \cup {<< >>}
  BY DEF Placed
<1>2. << >> \in Seq(Nat)
  OBVIOUS
<1>3. p \in Seq(Nat)
  BY <1>1, <1>2 DEF TreeInv, TreeTyped
<1>4. QED
  BY <1>1, <1>3

\* What a child that is placed gets, and what of the volume is handed out then.
LEMMA ChildPlaced ==
    ASSUME TreeInv, HandedOut, SoundVolume(volume), NEW place,
           Placed(place, chains), PlacedClusters(place) = nextFree - 2,
           NEW p \in Paths, p \notin DOMAIN place, Front(p) \in DOMAIN place,
           PathClusters(p) = 0 => UNCHANGED <<chains, nextFree>>,
           PathClusters(p) # 0 => AllocChain(PathClusters(p)),
           NEW first, first = IF PathClusters(p) = 0 THEN 0 ELSE nextFree
    PROVE  /\ Placed(Extended(place, p, first), chains')
           /\ PlacedClusters(Extended(place, p, first)) = nextFree' - 2
           /\ HandedOut'
<1> DEFINE n == PathClusters(p)
           more == Extended(place, p, first)
<1>1. n \in Nat /\ p # << >>
  <2>1. p # << >>
    BY DEF Placed
  <2>2. QED
    BY <2>1, PathNeeds
<1>2. /\ DOMAIN more = DOMAIN place \cup {p} /\ more[p] = first
      /\ \A q \in DOMAIN place : more[q] = place[q]
  BY DEF Extended
<1>3. nextFree \notin DOMAIN chains /\ nextFree # 0 /\ nextFree \in Nat
  BY NextIsFree
<1> HIDE DEF n, more
<1>4. /\ HandedOut' /\ nextFree' = nextFree + n
      /\ DOMAIN chains \subseteq DOMAIN chains' /\ \A c \in DOMAIN chains : chains'[c] = chains[c]
      /\ n # 0 => nextFree \in DOMAIN chains' /\ chains'[nextFree] = n
  <2>1. CASE n = 0
    BY <1>3, <2>1 DEF HandedOut, n
  <2>2. CASE n # 0
    <3>1. AllocChain(n) /\ n \in Nat \ {0}
      BY <1>1, <2>2 DEF n
    <3>2. nextFree' = nextFree + n
      BY <3>1 DEF AllocChain
    <3>3. QED
      BY <3>1, <3>2, AllocKeeps
  <2>3. QED
    BY <2>1, <2>2
<1>5. first \in Nat
  BY <1>3
<1>6. PlacedClusters(more) = nextFree' - 2
  <2>1. PlacedClusters(more) = PlacedClusters(place) + n
    <3>1. DOMAIN place \subseteq Paths \cup {<< >>} /\ << >> \in DOMAIN place
      BY DEF Placed
    <3>2. QED
      BY <1>5, <3>1, OneMorePlaced DEF n, more
  <2>2. QED
    BY <1>1, <1>3, <1>4, <2>1
<1>7. ASSUME NEW q \in DOMAIN more
      PROVE  Chained(q, more[q], chains') /\ Front(q) \in DOMAIN more
  <2>1. CASE q = p
    <3>1. Chained(p, first, chains')
      BY <1>1, <1>3, <1>4 DEF Chained, n
    <3>2. QED
      BY <1>2, <2>1, <3>1
  <2>2. CASE q # p
    <3>1. q \in DOMAIN place
      BY <1>2, <2>2
    <3>2. Chained(q, place[q], chains) /\ Front(q) \in DOMAIN place
      BY <3>1 DEF Placed
    <3>3. Chained(q, place[q], chains')
      BY <1>4, <3>2 DEF Chained
    <3>4. QED
      BY <1>2, <3>1, <3>2, <3>3
  <2>3. QED
    BY <2>1, <2>2
<1>8. ASSUME NEW q \in DOMAIN place, place[q] # 0
      PROVE  place[q] # first
  <2>1. place[q] \in DOMAIN chains
    BY <1>8 DEF Placed, Chained
  <2>2. QED
    BY <1>3, <1>8, <2>1
<1>9. \A q, r \in DOMAIN place : place[q] = place[r] /\ place[q] # 0 => q = r
  BY DEF Placed
<1>10. \A q, r \in DOMAIN more : more[q] = more[r] /\ more[q] # 0 => q = r
  BY <1>2, <1>8, <1>9
<1>11. /\ DOMAIN more \subseteq Paths \cup {<< >>}
       /\ << >> \in DOMAIN more /\ more[<< >>] = RootDir
  BY <1>2 DEF Placed
<1>12. Placed(more, chains')
  BY <1>7, <1>10, <1>11 DEF Placed
<1>13. QED
  BY <1>4, <1>6, <1>12 DEF more

\* A child's entry is written, and its clusters, if it needs any, are the next.
LEMMA RenderChildKeeps ==
    ASSUME TreeInv, HandedOut, SoundVolume(volume), RenderChild,
           NEW place, RenderInv(place, chains, stored, dirs, cur, nextFree)
    PROVE  /\ HandedOut'
           /\ \E more : RenderInv(more, chains', stored', dirs', cur', nextFree')
<1> DEFINE p == Child
           n == PathClusters(p)
           first == IF n = 0 THEN 0 ELSE nextFree
           dotdot == IF cur = << >> THEN 0 ELSE Top.first
           entry == DirEntry(p, Top.buf, first)
           buf == Extended(Top.buf, p, entry)
           grown == Grown(first)
           more == Extended(place, p, first)
<1>1. /\ DOMAIN dirs # {} /\ HasChild /\ stored' = stored
      /\ n = 0 => UNCHANGED <<chains, nextFree>>
      /\ n # 0 => AllocChain(n)
      /\ IsFolder(p) => dirs' = Extended(grown, p, Frame(first, dotdot)) /\ cur' = p
      /\ ~ IsFolder(p) => dirs' = grown /\ cur' = cur
  BY DEF RenderChild, Turn, ChildClusters
<1>2. /\ Placed(place, chains) /\ PlacedClusters(place) = nextFree - 2
      /\ Nested(DOMAIN dirs, cur) /\ OpenRight(place, dirs) /\ ClosedRight(place, dirs, stored)
  BY DEF RenderInv
<1>3. cur \in DOMAIN dirs
  BY <1>1, <1>2 DEF Nested
<1>4. /\ cur \in DOMAIN place /\ IsFolder(cur) /\ Top.first = place[cur]
      /\ WrittenRight(cur, Top.dotdot, Top.buf, place)
  BY <1>2, <1>3 DEF OpenRight, Top
<1>5. p \in Children(cur) /\ p \notin DOMAIN Top.buf
  BY <1>1, ChildThere
<1>6. p \notin DOMAIN place
  BY <1>4, <1>5 DEF WrittenRight, EntriesRight
<1>7. p \in Paths /\ Front(p) = cur /\ p # << >> /\ p \in Seq(Nat)
  BY <1>5, ChildNamed
<1>8. grown = Extended(dirs, cur, [first |-> Top.first, dotdot |-> Top.dotdot, buf |-> buf])
  BY DEF Grown
<1> HIDE DEF entry
<1> HIDE DEF p
<1>9. /\ Placed(more, chains') /\ PlacedClusters(more) = nextFree' - 2 /\ HandedOut'
  <2>1. first = IF PathClusters(p) = 0 THEN 0 ELSE nextFree
    OBVIOUS
  <2> HIDE DEF first
  <2>2. QED
    BY <1>1, <1>2, <1>4, <1>6, <1>7, <2>1, ChildPlaced
<1> HIDE DEF first, n
<1>10. /\ DOMAIN more = DOMAIN place \cup {p} /\ more[p] = first
       /\ \A q \in DOMAIN place : more[q] = place[q]
  BY <1>6 DEF Extended
<1>11. WrittenRight(cur, Top.dotdot, buf, more)
  <2>1. EntriesRight(cur, Top.buf, place) /\ Top.dotdot = DotDot(cur, place)
    BY <1>4 DEF WrittenRight
  <2>2. EntriesRight(cur, buf, more)
    BY <1>5, <1>6, <2>1, EntryAdded DEF entry
  <2>3. DotDot(cur, more) = DotDot(cur, place)
    <3>1. Front(cur) \in DOMAIN place
      BY <1>4, <1>2 DEF Placed
    <3> HIDE DEF more
    <3>2. QED
      BY <1>10, <3>1 DEF DotDot
  <2>4. QED
    BY <2>1, <2>2, <2>3 DEF WrittenRight
<1> HIDE DEF buf, more
<1>12. /\ DOMAIN grown = DOMAIN dirs
       /\ grown[cur].first = Top.first /\ grown[cur].dotdot = Top.dotdot /\ grown[cur].buf = buf
       /\ \A d \in DOMAIN dirs : d # cur => grown[d] = dirs[d]
  BY <1>3, <1>8 DEF Extended
<1> HIDE DEF grown
<1>13. ASSUME NEW d \in DOMAIN place, d # cur, NEW dd, NEW es, WrittenRight(d, dd, es, place)
       PROVE  WrittenRight(d, dd, es, more)
  <2>1. Front(d) \in DOMAIN place
    BY <1>2 DEF Placed
  <2>2. Children(d) \cap DOMAIN more = Children(d) \cap DOMAIN place
    BY <1>7, <1>10, <1>13 DEF Children
  <2>3. QED
    BY <1>10, <1>13, <2>1, <2>2, WrittenStays
<1>14. OpenRight(more, grown)
  <2>1. ASSUME NEW d \in DOMAIN dirs
        PROVE  /\ d \in DOMAIN more /\ IsFolder(d) /\ grown[d].first = more[d]
               /\ WrittenRight(d, grown[d].dotdot, grown[d].buf, more)
    <3>1. /\ d \in DOMAIN place /\ IsFolder(d) /\ dirs[d].first = place[d]
          /\ WrittenRight(d, dirs[d].dotdot, dirs[d].buf, place)
      BY <1>2 DEF OpenRight
    <3>2. CASE d = cur
      BY <1>4, <1>10, <1>11, <1>12, <3>1, <3>2
    <3>3. CASE d # cur
      BY <1>10, <1>12, <1>13, <3>1, <3>3
    <3>4. QED
      BY <3>2, <3>3
  <2>2. QED
    BY <1>12, <2>1 DEF OpenRight
<1>15. ASSUME NEW d \in DOMAIN place \ DOMAIN dirs, IsFolder(d)
       PROVE  /\ Children(d) \subseteq DOMAIN more /\ more[d] \in DOMAIN stored
              /\ WrittenRight(d, stored[more[d]].dotdot, stored[more[d]].entries, more)
  <2>1. /\ Children(d) \subseteq DOMAIN place /\ place[d] \in DOMAIN stored
        /\ WrittenRight(d, stored[place[d]].dotdot, stored[place[d]].entries, place)
    BY <1>2, <1>15 DEF ClosedRight
  <2>2. d # cur
    BY <1>3
  <2>3. more[d] = place[d]
    BY <1>10
  <2>4. QED
    BY <1>10, <1>13, <2>1, <2>2, <2>3
<1>16. CASE ~ IsFolder(p)
  <2>1. OpenRight(more, dirs') /\ Nested(DOMAIN dirs', cur')
    BY <1>1, <1>2, <1>12, <1>14, <1>16
  <2>2. ClosedRight(more, dirs', stored')
    <3>1. dirs' = grown
      BY <1>1, <1>16
    <3>2. \A d \in DOMAIN more \ DOMAIN dirs' : IsFolder(d) => d \in DOMAIN place \ DOMAIN dirs
      BY <1>10, <1>12, <1>16, <3>1
    <3>3. QED
      BY <1>1, <1>15, <3>2 DEF ClosedRight
  <2>3. RenderInv(more, chains', stored', dirs', cur', nextFree')
    BY <1>9, <2>1, <2>2 DEF RenderInv
  <2>4. QED
    BY <1>9, <2>3
<1>17. CASE IsFolder(p)
  <2> DEFINE frame == Frame(first, dotdot)
  <2>1. frame.first = first /\ frame.dotdot = dotdot /\ frame.buf = << >>
    BY DEF Frame
  <2>2. dirs' = Extended(grown, p, frame) /\ cur' = p
    BY <1>1, <1>17
  <2>3. p \notin DOMAIN dirs
    BY <1>2, <1>6 DEF OpenRight
  <2> HIDE DEF frame
  <2>4. /\ DOMAIN dirs' = DOMAIN dirs \cup {p} /\ dirs'[p] = frame
        /\ \A d \in DOMAIN dirs : dirs'[d] = grown[d]
    BY <1>12, <2>2, <2>3 DEF Extended
  <2>5. cur \in Seq(Nat) /\ Len(cur) \in Nat /\ Len(p) = Len(cur) + 1
    BY <1>7, PathFront
  <2>6. Nested(DOMAIN dirs', cur')
    <3>1. \A d \in DOMAIN dirs : Len(d) \in Nat
      <4>1. ASSUME NEW d \in DOMAIN dirs
            PROVE  Len(d) \in Nat
        <5>1. d \in DOMAIN place
          BY <1>2 DEF OpenRight
        <5>2. QED
          BY <1>2, <5>1, PlacedPath
      <4>2. QED
        BY <4>1
    <3>2. \A d \in DOMAIN dirs : Len(d) <= Len(cur) /\ Front(d) \in DOMAIN dirs
      BY <1>2 DEF Nested
    <3>3. \A d, e \in DOMAIN dirs : Len(d) = Len(e) => d = e
      BY <1>2 DEF Nested
    <3>4. \A d \in DOMAIN dirs : Len(d) < Len(p)
      BY <2>5, <3>1, <3>2
    <3> DEFINE now == DOMAIN dirs'
    <3>5. now = DOMAIN dirs \cup {p}
      BY <2>4
    <3> HIDE DEF now
    <3>6. \A d, e \in now : Len(d) = Len(e) => d = e
      BY <2>5, <3>1, <3>3, <3>4, <3>5
    <3>7. \A d \in now : Len(d) <= Len(p) /\ Front(d) \in now
      BY <1>3, <1>7, <2>5, <3>1, <3>2, <3>4, <3>5
    <3>8. Nested(now, p)
      BY <3>5, <3>6, <3>7 DEF Nested
    <3>9. QED
      BY <2>2, <3>8 DEF now
  <2>7. WrittenRight(p, dotdot, << >>, more)
    <3>1. dotdot = DotDot(p, more)
      BY <1>4, <1>7, <1>10 DEF DotDot
    <3>2. Children(p) \cap DOMAIN more = {}
      <4>1. ASSUME NEW q \in Children(p), q \in DOMAIN more
            PROVE  FALSE
        <5>1. Front(q) = p /\ q \in Seq(Nat) /\ q # << >>
          BY ChildNamed
        <5>2. q # p
          BY <2>5, <5>1, PathFront
        <5>3. q \in DOMAIN place
          BY <1>10, <4>1, <5>2
        <5>4. p \in DOMAIN place
          BY <1>2, <5>1, <5>3 DEF Placed
        <5>5. QED
          BY <1>6, <5>4
      <4>2. QED
        BY <4>1
    <3>3. EntriesRight(p, << >>, more)
      BY <3>2 DEF EntriesRight
    <3>4. QED
      BY <3>1, <3>3 DEF WrittenRight
  <2> HIDE DEF dotdot
  <2>8. OpenRight(more, dirs')
    <3>1. /\ p \in DOMAIN more /\ dirs'[p].first = more[p]
          /\ WrittenRight(p, dirs'[p].dotdot, dirs'[p].buf, more)
      BY <1>10, <2>1, <2>4, <2>7
    <3>2. \A d \in DOMAIN dirs :
            /\ d \in DOMAIN more /\ IsFolder(d) /\ grown[d].first = more[d]
            /\ WrittenRight(d, grown[d].dotdot, grown[d].buf, more)
      BY <1>12, <1>14 DEF OpenRight
    <3>3. QED
      BY <1>17, <2>4, <3>1, <3>2 DEF OpenRight
  <2>9. ClosedRight(more, dirs', stored')
    <3>1. \A d \in DOMAIN more \ DOMAIN dirs' : d \in DOMAIN place \ DOMAIN dirs
      BY <1>10, <2>4
    <3>2. QED
      BY <1>1, <1>15, <3>1 DEF ClosedRight
  <2>10. RenderInv(more, chains', stored', dirs', cur', nextFree')
    BY <1>9, <2>6, <2>8, <2>9 DEF RenderInv
  <2>11. QED
    BY <1>9, <2>10
<1>18. QED
  BY <1>16, <1>17

\* The folder of the root is the root.
LEMMA FrontOfRoot == Front(<< >>) = << >>
<1>1. Front(<< >>) = SubSeq(<< >>, 1, Len(<< >>) - 1)
  BY DEF Front
<1>2. Len(<< >>) - 1 = -1
  OBVIOUS
<1>3. SubSeq(<< >>, 1, -1) = << >>
  BY SubSeqEmpty
<1>4. QED
  BY <1>1, <1>2, <1>3

\* A directory whose children are all placed is stored, and its folder goes on.
LEMMA RenderEndKeeps ==
    ASSUME TreeInv, SoundVolume(volume), RenderEnd,
           NEW place, RenderInv(place, chains, stored, dirs, cur, nextFree)
    PROVE  /\ RenderInv(place, chains', stored', dirs', cur', nextFree')
           /\ DOMAIN stored' \subseteq DOMAIN stored \cup DOMAIN chains \cup {0}
<1> DEFINE ds == DOMAIN dirs
           now == DOMAIN dirs'
           writ == [dotdot |-> Top.dotdot, entries |-> Top.buf]
<1>1. /\ ds # {} /\ ~ HasChild
      /\ stored' = Extended(stored, Top.first, writ)
      /\ dirs' = [d \in ds \ {cur} |-> dirs[d]]
      /\ cur' = Front(cur) /\ chains' = chains /\ nextFree' = nextFree
  BY DEF RenderEnd, Turn
<1>2. /\ Placed(place, chains) /\ PlacedClusters(place) = nextFree - 2
      /\ Nested(ds, cur) /\ OpenRight(place, dirs) /\ ClosedRight(place, dirs, stored)
  BY DEF RenderInv
<1>3. cur \in ds
  BY <1>1, <1>2 DEF Nested
<1>4. /\ cur \in DOMAIN place /\ IsFolder(cur) /\ Top.first = place[cur]
      /\ WrittenRight(cur, Top.dotdot, Top.buf, place)
  BY <1>2, <1>3 DEF OpenRight, Top
<1>5. Children(cur) \subseteq DOMAIN place
  <2>1. Children(cur) \subseteq DOMAIN Top.buf
    BY <1>1 DEF HasChild, Remaining
  <2>2. QED
    BY <1>4, <2>1 DEF WrittenRight, EntriesRight
<1>6. now = ds \ {cur} /\ \A d \in now : dirs'[d] = dirs[d]
  BY <1>1
<1>7. writ.dotdot = Top.dotdot /\ writ.entries = Top.buf
  OBVIOUS
<1> HIDE DEF writ
<1>8. /\ DOMAIN stored' = DOMAIN stored \cup {place[cur]} /\ stored'[place[cur]] = writ
      /\ \A c \in DOMAIN stored : c # place[cur] => stored'[c] = stored[c]
  BY <1>1, <1>4 DEF Extended
<1>9. ASSUME NEW d \in ds
      PROVE  d \in Seq(Nat) /\ Len(d) \in Nat
  <2>1. d \in DOMAIN place
    BY <1>2 DEF OpenRight
  <2>2. QED
    BY <1>2, <2>1, PlacedPath
<1>10. Nested(now, cur')
  <2>1. CASE cur = << >>
    <3>1. \A d \in ds : Len(d) = Len(cur)
      <4>1. ASSUME NEW d \in ds
            PROVE  Len(d) = Len(cur)
        <5>1. Len(d) \in Nat /\ Len(d) <= Len(cur)
          BY <1>2, <1>9 DEF Nested
        <5>2. QED
          BY <2>1, <5>1
      <4>2. QED
        BY <4>1
    <3>2. now = {}
      BY <1>2, <1>3, <1>6, <3>1 DEF Nested
    <3> HIDE DEF now
    <3>3. QED
      BY <3>2 DEF Nested
  <2>2. CASE cur # << >>
    <3>1. Len(cur) \in Nat \ {0} /\ Len(Front(cur)) = Len(cur) - 1 /\ Front(cur) \in ds
      BY <1>2, <1>3, <1>9, <2>2, PathFront DEF Nested
    <3>2. Front(cur) # cur /\ Front(cur) \in now
      BY <1>6, <3>1
    <3>3. ASSUME NEW d \in now
          PROVE  Len(d) <= Len(Front(cur)) /\ Front(d) \in now
      <4>1. d \in ds /\ d # cur /\ Len(d) \in Nat /\ Len(d) <= Len(cur) /\ Len(d) # Len(cur)
        BY <1>2, <1>3, <1>6, <1>9 DEF Nested
      <4>2. Front(d) \in ds
        BY <1>2, <4>1 DEF Nested
      <4>3. Front(d) # cur
        <5>1. CASE d = << >>
          BY <5>1, <2>2, FrontOfRoot
        <5>2. CASE d # << >>
          <6>1. Len(Front(d)) = Len(d) - 1
            BY <1>9, <4>1, <5>2, PathFront
          <6>2. QED
            BY <3>1, <4>1, <6>1
        <5>3. QED
          BY <5>1, <5>2
      <4>4. QED
        BY <1>6, <3>1, <4>1, <4>2, <4>3
    <3>4. \A d, e \in now : Len(d) = Len(e) => d = e
      BY <1>2, <1>6 DEF Nested
    <3> HIDE DEF now
    <3>5. QED
      BY <1>1, <3>2, <3>3, <3>4 DEF Nested
  <2>3. QED
    BY <2>1, <2>2
<1>11. OpenRight(place, dirs')
  BY <1>2, <1>6 DEF OpenRight
<1>12. ClosedRight(place, dirs', stored')
  <2>1. ASSUME NEW d \in DOMAIN place \ now, IsFolder(d)
        PROVE  /\ Children(d) \subseteq DOMAIN place /\ place[d] \in DOMAIN stored'
               /\ WrittenRight(d, stored'[place[d]].dotdot, stored'[place[d]].entries, place)
    <3>1. CASE d = cur
      BY <1>4, <1>5, <1>7, <1>8, <3>1
    <3>2. CASE d # cur
      <4>1. /\ Children(d) \subseteq DOMAIN place /\ place[d] \in DOMAIN stored
            /\ WrittenRight(d, stored[place[d]].dotdot, stored[place[d]].entries, place)
        BY <1>2, <1>6, <2>1, <3>2 DEF ClosedRight
      <4>2. place[d] # place[cur]
        <5>1. \A f \in DOMAIN place : IsFolder(f) /\ place[f] = 0 => f = << >>
          <6>1. ASSUME NEW f \in DOMAIN place, IsFolder(f), place[f] = 0, f # << >>
                PROVE  FALSE
            <7>1. PathClusters(f) = 0
              BY <1>2, <6>1 DEF Placed, Chained
            <7>2. f \in Paths \cup {<< >>}
              BY <1>2 DEF Placed
            <7>3. QED
              BY <6>1, <7>1, <7>2, PathNeeds
          <6>2. QED
            BY <6>1
        <5>2. QED
          BY <1>2, <1>4, <2>1, <3>2, <5>1 DEF Placed
      <4>3. QED
        BY <1>8, <4>1, <4>2
    <3>3. QED
      BY <3>1, <3>2
  <2>2. QED
    BY <2>1 DEF ClosedRight
<1>13. RenderInv(place, chains', stored', dirs', cur', nextFree')
  <2>1. Placed(place, chains') /\ PlacedClusters(place) = nextFree' - 2
    BY <1>1, <1>2
  <2>2. QED
    BY <1>10, <1>11, <1>12, <2>1 DEF RenderInv
<1>14. place[cur] \in DOMAIN chains \cup {0}
  BY <1>2, <1>4 DEF Placed, Chained
<1>15. QED
  BY <1>8, <1>13, <1>14

\* What depends on the tree and the volume alone.
LEMMA TreeAgain ==
    ASSUME UNCHANGED <<tree, volume>>
    PROVE  /\ Paths' = Paths /\ RootDir' = RootDir
           /\ \A p : NameOf(p)' = NameOf(p) /\ (IsFolder(p)' <=> IsFolder(p))
           /\ \A d : Children(d)' = Children(d) /\ Real(d)' = Real(d)
           /\ \A d : ContentSlots(d)' = ContentSlots(d)
           /\ \A d : DirClusters(d, volume)' = DirClusters(d, volume)
           /\ \A p : PathClusters(p)' = PathClusters(p)
<1>1. Paths' = Paths /\ RootDir' = RootDir
  BY DEF Paths, RootDir
<1>2. ASSUME NEW p
      PROVE  NameOf(p)' = NameOf(p) /\ (IsFolder(p)' <=> IsFolder(p))
  BY <1>1 DEF NameOf, IsFolder
<1>3. ASSUME NEW d
      PROVE  Children(d)' = Children(d) /\ Real(d)' = Real(d) /\ ContentSlots(d)' = ContentSlots(d)
  <2>1. Children(d)' = Children(d)
    BY <1>1 DEF Children
  <2>2. Real(d)' = Real(d)
    BY <1>1 DEF Real, Children, NameOf
  <2>3. ContentSlots(d)' = ContentSlots(d)
    BY DEF ContentSlots, SlotsOf, Children, NameOf, Paths
  <2>4. QED
    BY <2>1, <2>2, <2>3
<1>4. ASSUME NEW d
      PROVE  DirClusters(d, volume)' = DirClusters(d, volume)
  <2>1. ContentSlots(d)' = ContentSlots(d)
    BY <1>3
  <2>2. QED
    BY <2>1 DEF DirClusters, ClusterBytes
<1>5. ASSUME NEW p
      PROVE  PathClusters(p)' = PathClusters(p)
  <2>1. DirClusters(p, volume)' = DirClusters(p, volume) /\ (IsFolder(p)' <=> IsFolder(p))
    BY <1>2, <1>4
  <2>2. QED
    BY <2>1 DEF PathClusters, ClusterBytes
<1>6. QED
  BY <1>1, <1>2, <1>3, <1>4, <1>5

\* An entry is right, and a directory is written right, still when no more is
\* said than that the tree and the volume are the same.
LEMMA PlacedAgain ==
    ASSUME UNCHANGED <<tree, volume>>, NEW place, Placed(place, chains')
    PROVE  Placed(place, chains)'
<1>1. /\ Paths' = Paths /\ RootDir' = RootDir /\ volume' = volume
      /\ \A p : PathClusters(p)' = PathClusters(p)
  BY TreeAgain
<1>2. ASSUME NEW p, NEW first, Chained(p, first, chains')
      PROVE  Chained(p, first, chains)'
  BY <1>1, <1>2 DEF Chained
<1>3. QED
  BY <1>1, <1>2 DEF Placed

LEMMA OpenAgain ==
    ASSUME UNCHANGED <<tree, volume>>, NEW place, OpenRight(place, dirs')
    PROVE  OpenRight(place, dirs)'
<1>1. /\ \A p : NameOf(p)' = NameOf(p) /\ (IsFolder(p)' <=> IsFolder(p))
      /\ \A d : Children(d)' = Children(d) /\ Real(d)' = Real(d) /\ tree' = tree
  BY TreeAgain
<1>2. ASSUME NEW d, EntriesRight(d, dirs'[d].buf, place)
      PROVE  EntriesRight(d, dirs[d].buf, place)'
  BY <1>1, <1>2 DEF EntriesRight, EntryRight
<1>3. QED
  BY <1>1, <1>2 DEF OpenRight, WrittenRight, DotDot

LEMMA ClosedAgain ==
    ASSUME UNCHANGED <<tree, volume>>, NEW place, ClosedRight(place, dirs', stored')
    PROVE  ClosedRight(place, dirs, stored)'
<1>1. /\ \A p : NameOf(p)' = NameOf(p) /\ (IsFolder(p)' <=> IsFolder(p))
      /\ \A d : Children(d)' = Children(d) /\ Real(d)' = Real(d) /\ tree' = tree
  BY TreeAgain
<1>2. ASSUME NEW d, EntriesRight(d, stored'[place[d]].entries, place)
      PROVE  EntriesRight(d, stored[place[d]].entries, place)'
  BY <1>1, <1>2 DEF EntriesRight, EntryRight
<1>3. QED
  BY <1>1, <1>2 DEF ClosedRight, WrittenRight, DotDot

LEMMA RenderAgain ==
    ASSUME UNCHANGED <<tree, volume>>, NEW place,
           RenderInv(place, chains', stored', dirs', cur', nextFree')
    PROVE  RenderInv(place, chains, stored, dirs, cur, nextFree)'
<1>1. Placed(place, chains)' /\ OpenRight(place, dirs)' /\ ClosedRight(place, dirs, stored)'
  BY PlacedAgain, OpenAgain, ClosedAgain DEF RenderInv
<1>2. (PlacedClusters(place) = nextFree - 2)'
  <2>1. PlacedClusters(place) = nextFree' - 2
    BY DEF RenderInv
  <2>2. PlacedClusters(place)' = PlacedClusters(place)
    <3>1. \A p : PathClusters(p)' = PathClusters(p)
      BY TreeAgain
    <3>2. DirClusters(<< >>, volume)' = DirClusters(<< >>, volume)
      BY TreeAgain
    <3>3. QED
      BY <3>1, <3>2 DEF PlacedClusters
  <2>3. QED
    BY <2>1, <2>2
<1>3. Nested(DOMAIN dirs, cur)'
  BY DEF RenderInv, Nested
<1>4. QED
  BY <1>1, <1>2, <1>3 DEF RenderInv

\* The clusters of all paths are counted.
LEMMA AllClusters ==
    ASSUME TreeInv, SoundVolume(volume)
    PROVE  /\ IsFiniteSet(Paths) /\ [p \in Paths |-> PathClusters(p)] \in [Paths -> Nat]
           /\ SumOf([p \in Paths |-> PathClusters(p)]) \in Nat
           /\ DirClusters(<< >>, volume) \in Nat \ {0}
<1>1. IsFiniteSet(Paths)
  BY DEF TreeInv, TreeSmall
<1>2. \A p \in Paths : PathClusters(p) \in Nat
  BY PathNeeds
<1> DEFINE f == [p \in Paths |-> PathClusters(p)]
<1>3. f \in [Paths -> Nat]
  BY <1>2
<1>4. SumOf(f) \in Nat
  <2> HIDE DEF f
  <2>1. QED
    BY <1>1, <1>3, SumTyped
<1>5. DirClusters(<< >>, volume) \in Nat \ {0}
  BY PathNeeds DEF IsFolder
<1>6. QED
  BY <1>1, <1>3, <1>4, <1>5

\* A tree whose root does not fit does not.
LEMMA RootDoesNotFit == TreeInv /\ SoundVolume(volume) /\ ~ RootFits(volume) => DoesNotFit
<1> SUFFICES ASSUME TreeInv, SoundVolume(volume), ~ RootFits(volume) PROVE DoesNotFit
  OBVIOUS
<1> DEFINE all == SumOf([p \in Paths |-> PathClusters(p)])
           n == DirClusters(<< >>, volume)
<1>1. all \in Nat /\ n \in Nat \ {0}
  BY AllClusters
<1>2. volume.clusters \in Nat
  BY DEF SoundVolume
<1>3. CASE volume.wide
  <2>1. n \notin 1 .. volume.clusters
    BY <1>3 DEF RootFits
  <2>2. (IF volume.wide THEN n ELSE 0) + all = n + all
    BY <1>3
  <2> HIDE DEF all, n
  <2>3. n + all > volume.clusters
    BY <1>1, <1>2, <2>1
  <2>4. (IF volume.wide THEN n ELSE 0) + all > volume.clusters
    BY <2>2, <2>3
  <2>5. QED
    BY <2>4 DEF DoesNotFit, all, n
<1>4. CASE ~ volume.wide
  <2>1. ~ (ContentSlots(<< >>) <= RootSlots)
    BY <1>4 DEF RootFits
  <2>2. ContentSlots(<< >>) > RootSlots
    <3>1. ContentSlots(<< >>) \in Nat
      BY ContentTyped
    <3>2. RootSlots = 512
      BY DEF RootSlots
    <3>3. QED
      BY <2>1, <3>1, <3>2
  <2>3. QED
    BY <1>4, <2>2 DEF DoesNotFit
<1>5. QED
  BY <1>3, <1>4

\* What is placed and one path more are some of the paths.
LEMMA PlacedFewer ==
    ASSUME TreeInv, SoundVolume(volume), NEW place, DOMAIN place \subseteq Paths \cup {<< >>}
    PROVE  PlacedClusters(place) <=
               (IF volume.wide THEN DirClusters(<< >>, volume) ELSE 0)
                   + SumOf([p \in Paths |-> PathClusters(p)])
<1> DEFINE P == DOMAIN place \ {<< >>}
           f == [p \in Paths |-> PathClusters(p)]
           g == [p \in P |-> PathClusters(p)]
           root == IF volume.wide THEN DirClusters(<< >>, volume) ELSE 0
<1>1. IsFiniteSet(Paths) /\ f \in [Paths -> Nat] /\ SumOf(f) \in Nat /\ root \in Nat
  BY AllClusters
<1>2. P \in SUBSET Paths
  OBVIOUS
<1>3. \A p \in P : PathClusters(p) \in Nat
  BY <1>2, PathNeeds
<1>4. g \in [P -> Nat] /\ \A p \in P : g[p] = f[p]
  BY <1>2, <1>3
<1>5. PlacedClusters(place) = root + SumOf(g)
  BY DEF PlacedClusters
<1> HIDE DEF P, f, g, root
<1>6. SumOf(g) <= SumOf(f)
  BY <1>1, <1>2, <1>4, SumOfFewer
<1>7. SumOf(g) \in Nat
  <2>1. IsFiniteSet(P)
    BY <1>1, <1>2, FS_Subset
  <2>2. QED
    BY <1>4, <2>1, SumTyped
<1>8. root + SumOf(g) <= root + SumOf(f)
  BY <1>1, <1>6, <1>7
<1>9. QED
  BY <1>5, <1>8 DEF f, root

\* A tree that runs out of clusters does not fit.
LEMMA RenderFullTells ==
    ASSUME TreeInv, SoundVolume(volume), HandedOut, RenderFull,
           NEW place, RenderInv(place, chains, stored, dirs, cur, nextFree)
    PROVE  DoesNotFit
<1> DEFINE p == Child
           n == PathClusters(p)
           more == Extended(place, p, 0)
           all == SumOf([q \in Paths |-> PathClusters(q)])
           root == IF volume.wide THEN DirClusters(<< >>, volume) ELSE 0
<1>1. /\ DOMAIN dirs # {} /\ HasChild
      /\ ~ (n \in 1 .. MaxCluster - nextFree + 1) /\ n > 0
  BY DEF RenderFull, Turn, ChildClusters, AllocFits
<1>2. /\ Placed(place, chains) /\ PlacedClusters(place) = nextFree - 2
      /\ Nested(DOMAIN dirs, cur) /\ OpenRight(place, dirs)
  BY DEF RenderInv
<1>3. p \in Children(cur) /\ p \notin DOMAIN Top.buf
  BY <1>1, ChildThere
<1>4. WrittenRight(cur, Top.dotdot, Top.buf, place)
  BY <1>1, <1>2 DEF Nested, OpenRight, Top
<1> HIDE DEF p
<1>5. p \in Paths \ DOMAIN place
  <2>1. p \in Paths
    BY <1>3, ChildNamed
  <2>2. QED
    BY <1>3, <1>4, <2>1 DEF WrittenRight, EntriesRight
<1>6. n \in Nat
  BY <1>5, PathNeeds
<1>7. /\ DOMAIN place \subseteq Paths \cup {<< >>} /\ << >> \in DOMAIN place
      /\ DOMAIN more \subseteq Paths \cup {<< >>}
  BY <1>2, <1>5 DEF Placed, Extended
<1>8. PlacedClusters(more) = PlacedClusters(place) + n
  <2>1. 0 \in Nat
    OBVIOUS
  <2>2. QED
    BY <1>5, <1>7, <2>1, OneMorePlaced
<1> HIDE DEF n, more
<1>9. PlacedClusters(more) <= root + all
  BY <1>7, PlacedFewer
<1> HIDE DEF root, all
<1>10. volume.clusters \in Nat /\ nextFree \in Nat
  BY DEF SoundVolume, HandedOut
<1>11. nextFree - 2 + n > volume.clusters
  <2>1. MaxCluster = volume.clusters + 1
    BY DEF MaxCluster
  <2>2. QED
    BY <1>1, <1>6, <1>10, <2>1
<1>12. root + all \in Nat
  <2>1. all \in Nat /\ root \in Nat
    BY AllClusters DEF all, root
  <2>2. QED
    BY <2>1
<1> DEFINE sum == root + all
           placed == PlacedClusters(more)
<1> HIDE DEF sum
<1>13. sum > volume.clusters
  <2>1. placed = nextFree - 2 + n /\ placed <= sum /\ sum \in Nat
    BY <1>2, <1>8, <1>9, <1>12 DEF sum
  <2> HIDE DEF placed
  <2>2. QED
    BY <1>6, <1>10, <1>11, <2>1
<1>14. root + all > volume.clusters
  BY <1>13 DEF sum
<1>15. QED
  BY <1>14 DEF DoesNotFit, root, all

\* Where the rendering begins.
Begun ==
    /\ CountAgrees(volume) /\ RootFits(volume)
    /\ stored = << >> /\ cur = << >> /\ dirs = Extended(<< >>, << >>, Frame(RootDir, 0))
    /\ nextFree = IF volume.wide THEN 2 + DirClusters(<< >>, volume) ELSE 2
    /\ chains = IF volume.wide THEN Extended(<< >>, 2, DirClusters(<< >>, volume)) ELSE << >>

LEMMA BegunRight ==
    TreeInv /\ SoundVolume(volume) /\ Begun =>
        /\ HandedOut /\ nextFree <= volume.clusters + 2
        /\ \E place : RenderInv(place, chains, stored, dirs, cur, nextFree)
<1> SUFFICES ASSUME TreeInv, SoundVolume(volume), Begun
             PROVE  /\ HandedOut /\ nextFree <= volume.clusters + 2
                    /\ \E place : RenderInv(place, chains, stored, dirs, cur, nextFree)
  OBVIOUS
<1> DEFINE n == DirClusters(<< >>, volume)
           place == [p \in {<< >>} |-> RootDir]
           none == [p \in {} |-> PathClusters(p)]
<1>1. /\ volume.clusters \in Nat /\ n \in Nat \ {0} /\ PathClusters(<< >>) = n
      /\ volume.wide => n <= volume.clusters
  BY AllClusters, PathNeeds DEF SoundVolume, Begun, RootFits, IsFolder
<1>2. /\ DOMAIN dirs = {<< >>} /\ dirs[<< >>].first = RootDir
      /\ dirs[<< >>].dotdot = 0 /\ dirs[<< >>].buf = << >>
      /\ cur = << >> /\ stored = << >>
  BY DEF Begun, Extended, Frame
<1>3. /\ volume.wide => /\ nextFree = 2 + n /\ DOMAIN chains = {2} /\ chains[2] = n
      /\ ~ volume.wide => nextFree = 2 /\ DOMAIN chains = {}
  BY DEF Begun, Extended
<1> HIDE DEF n
<1>4. HandedOut /\ nextFree <= volume.clusters + 2
  BY <1>1, <1>3 DEF HandedOut
<1>5. DOMAIN place = {<< >>} /\ place[<< >>] = RootDir
  OBVIOUS
<1>6. DOMAIN place \ {<< >>} = {}
  OBVIOUS
<1> HIDE DEF place
<1>7. Placed(place, chains)
  <2>1. Chained(<< >>, RootDir, chains)
    BY <1>1, <1>3 DEF Chained, RootDir
  <2>2. QED
    BY <1>5, <2>1, FrontOfRoot DEF Placed
<1>8. PlacedClusters(place) = nextFree - 2
  <2>1. IsFiniteSet({}) /\ none \in [{} -> Nat] /\ Cardinality({}) = 0
    BY FS_EmptySet
  <2>2. SumOf(none) = 0
    <3>1. UNION {{x} \X (1 .. none[x]) : x \in DOMAIN none} = {}
      OBVIOUS
    <3> HIDE DEF none
    <3>2. QED
      BY <2>1, <3>1 DEF SumOf
  <2>3. PlacedClusters(place) = (IF volume.wide THEN n ELSE 0) + SumOf(none)
    BY <1>6 DEF PlacedClusters, n
  <2> HIDE DEF none
  <2>4. QED
    BY <1>1, <1>3, <2>2, <2>3
<1>9. Nested(DOMAIN dirs, cur)
  <2>1. Len(<< >>) <= Len(<< >>)
    OBVIOUS
  <2>2. QED
    BY <1>2, <2>1, FrontOfRoot DEF Nested
<1>10. OpenRight(place, dirs)
  <2>1. Children(<< >>) \cap DOMAIN place = {}
    BY <1>5 DEF Children, TreeInv, TreeTyped
  <2>2. EntriesRight(<< >>, << >>, place)
    BY <2>1 DEF EntriesRight
  <2>3. WrittenRight(<< >>, 0, << >>, place)
    BY <2>2, FrontOfRoot DEF WrittenRight, DotDot
  <2>4. QED
    BY <1>2, <1>5, <2>3 DEF OpenRight, IsFolder
<1>11. ClosedRight(place, dirs, stored)
  BY <1>2, <1>5 DEF ClosedRight
<1>12. RenderInv(place, chains, stored, dirs, cur, nextFree)
  BY <1>7, <1>8, <1>9, <1>10, <1>11 DEF RenderInv
<1>13. QED
  BY <1>4, <1>12

-----------------------------------------------------------------------------
(* What holds throughout.                                                  *)

\* A volume whose tree is rendered has clusters, and those handed out are the
\* first of them; before that none is.
ClustersLeft ==
    /\ phase \in {"render", "written", "full"} =>
          volume.clusters \in Nat /\ nextFree <= volume.clusters + 2
    /\ phase \in {"build", "bad_name", "too_small"} =>
          nextFree = 2 /\ chains = << >> /\ stored = << >> /\ cur = << >> /\ dirs = << >>

\* A volume that is sound, with the paths placed so far.
Rendered ==
    /\ SoundVolume(volume) /\ CountAgrees(volume) /\ RootFits(volume)
    /\ \E place : RenderInv(place, chains, stored, dirs, cur, nextFree)

EspInv ==
    /\ phase \in EspPhase /\ TreeInv /\ HandedOut /\ ClustersLeft
    /\ cur \in Paths \cup {<< >>} /\ DOMAIN dirs \subseteq Paths \cup {<< >>}
    /\ DOMAIN stored \subseteq DOMAIN chains \cup {0}
    /\ phase \in {"render", "written"} => Rendered
    /\ phase = "written" => DOMAIN dirs = {}
    /\ phase = "full" => DoesNotFit

\* What depends on the tree, the items and the volume alone.
LEMMA TreeInvAgain ==
    ASSUME TreeInv, UNCHANGED <<tree, put>>
    PROVE  TreeInv'
BY DEF TreeInv, TreeTyped, TreeHangsTogether, TreeSmall, Paths, Children

LEMMA DoesNotFitAgain ==
    ASSUME DoesNotFit, UNCHANGED <<tree, volume>>
    PROVE  DoesNotFit'
<1>1. /\ Paths' = Paths /\ volume' = volume
      /\ \A d : ContentSlots(d)' = ContentSlots(d)
      /\ \A d : DirClusters(d, volume)' = DirClusters(d, volume)
      /\ \A p : PathClusters(p)' = PathClusters(p)
  BY TreeAgain
<1>2. QED
  BY <1>1 DEF DoesNotFit

LEMMA RenderedAgain ==
    ASSUME SoundVolume(volume), CountAgrees(volume), RootFits(volume), UNCHANGED <<tree, volume>>,
           \E place : RenderInv(place, chains', stored', dirs', cur', nextFree')
    PROVE  Rendered'
<1>1. SoundVolume(volume)' /\ CountAgrees(volume)'
  OBVIOUS
<1>2. RootFits(volume)'
  <2>1. /\ volume' = volume /\ ContentSlots(<< >>)' = ContentSlots(<< >>)
        /\ DirClusters(<< >>, volume)' = DirClusters(<< >>, volume)
    BY TreeAgain
  <2>2. QED
    BY <2>1 DEF RootFits
<1>3. PICK place : RenderInv(place, chains', stored', dirs', cur', nextFree')
  OBVIOUS
<1>4. RenderInv(place, chains, stored, dirs, cur, nextFree)'
  BY <1>3, RenderAgain
<1>5. QED
  BY <1>1, <1>2, <1>4 DEF Rendered

\* The volume is laid out, and the root gets its clusters.
LEMMA FormatStep ==
    ASSUME EspInv, NEW mib \in Volume, Format(mib)
    PROVE  EspInv'
<1> DEFINE sectors == mib * 2048
           v == Geometry(sectors)
           n == DirClusters(<< >>, v)
<1>1. /\ phase = "build" /\ volume' = v /\ UNCHANGED <<tree, put>>
      /\ phase' \in {"too_small", "full", "render"}
      /\ phase' # "too_small" => CountAgrees(v)
      /\ phase' = "full" => ~ RootFits(v)
      /\ phase' # "render" => UNCHANGED <<nextFree, chains, stored, cur, dirs>>
      /\ phase' = "render" =>
            /\ RootFits(v) /\ UNCHANGED <<stored, cur>>
            /\ nextFree' = IF v.wide THEN 2 + n ELSE 2
            /\ chains' = IF v.wide THEN Extended(chains, 2, n) ELSE chains
            /\ dirs' = Extended(dirs, << >>, Frame(IF v.wide THEN 2 ELSE 0, 0))
  BY DEF Format, render
<1>2. nextFree = 2 /\ chains = << >> /\ stored = << >> /\ cur = << >> /\ dirs = << >>
  BY <1>1 DEF EspInv, ClustersLeft
<1>3. CountAgrees(v) => SoundVolume(v)
  <2>1. mib \in Nat \ {0} /\ sectors \in Nat /\ OfMib(mib, sectors)
    BY EspAssumption DEF OfMib
  <2>2. v = Geometry(sectors)
    OBVIOUS
  <2> HIDE DEF sectors, v
  <2>3. QED
    BY <2>1, <2>2, GeometrySound
<1> HIDE DEF sectors, v
<1>4. /\ TreeInv' /\ Paths' = Paths
      /\ ContentSlots(<< >>)' = ContentSlots(<< >>)
  <2>1. TreeInv'
    BY <1>1, TreeInvAgain DEF EspInv
  <2>2. ContentSlots(<< >>)' = ContentSlots(<< >>)
    BY <1>1 DEF ContentSlots, SlotsOf, Children, NameOf, Paths
  <2>3. QED
    BY <1>1, <2>1, <2>2 DEF Paths
<1>5. DirClusters(<< >>, volume)' = n
  BY <1>1, <1>4 DEF DirClusters, ClusterBytes
<1>6. RootFits(volume)' <=> RootFits(v)
  BY <1>1, <1>4, <1>5 DEF RootFits
<1>7. phase' # "too_small" => CountAgrees(volume)' /\ SoundVolume(volume)' /\ volume'.clusters \in Nat
  BY <1>1, <1>3 DEF SoundVolume
<1> HIDE DEF n
<1>8. CASE phase' # "render"
  <2>1. UNCHANGED <<nextFree, chains, stored, cur, dirs>>
    BY <1>1, <1>8
  <2>2. phase' \in EspPhase /\ ClustersLeft'
    BY <1>1, <1>2, <1>7, <1>8, <2>1 DEF EspPhase, ClustersLeft
  <2>3. HandedOut'
    BY <2>1 DEF EspInv, HandedOut
  <2>4. (phase = "full" => DoesNotFit)'
    <3>1. TreeInv' /\ SoundVolume(volume)' /\ ~ RootFits(volume)' => DoesNotFit'
      BY RootDoesNotFit, PTL
    <3>2. QED
      BY <1>1, <1>4, <1>6, <1>7, <3>1
  <2>5. /\ cur' \in Paths' \cup {<< >>} /\ DOMAIN dirs' \subseteq Paths' \cup {<< >>}
        /\ DOMAIN stored' \subseteq DOMAIN chains' \cup {0}
    BY <1>2, <2>1
  <2>6. QED
    BY <1>1, <1>4, <1>8, <2>2, <2>3, <2>4, <2>5 DEF EspInv
<1>9. CASE phase' = "render"
  <2>1. Begun'
    <3>1. RootDir' = IF v.wide THEN 2 ELSE 0
      BY <1>1 DEF RootDir
    <3>2. CountAgrees(volume)' /\ RootFits(volume)'
      BY <1>1, <1>6, <1>7, <1>9
    <3>3. /\ stored' = << >> /\ cur' = << >>
          /\ dirs' = Extended(<< >>, << >>, Frame(RootDir', 0))
          /\ nextFree' = IF v.wide THEN 2 + n ELSE 2
          /\ chains' = IF v.wide THEN Extended(<< >>, 2, n) ELSE << >>
      BY <1>1, <1>2, <1>9, <3>1
    <3>4. QED
      BY <1>1, <1>5, <3>2, <3>3 DEF Begun
  <2>2. TreeInv' /\ SoundVolume(volume)' /\ Begun' =>
            /\ HandedOut' /\ (nextFree <= volume.clusters + 2)'
            /\ (\E place : RenderInv(place, chains, stored, dirs, cur, nextFree))'
    BY BegunRight, PTL
  <2>3. HandedOut' /\ nextFree' <= volume'.clusters + 2
    BY <1>4, <1>7, <1>9, <2>1, <2>2
  <2>4. Rendered'
    BY <1>1, <1>4, <1>6, <1>7, <1>9, <2>1, <2>2 DEF Rendered
  <2>5. phase' \in EspPhase /\ ClustersLeft'
    BY <1>7, <1>9, <2>3 DEF EspPhase, ClustersLeft
  <2>6. /\ cur' \in Paths' \cup {<< >>} /\ DOMAIN dirs' \subseteq Paths' \cup {<< >>}
        /\ DOMAIN stored' \subseteq DOMAIN chains' \cup {0}
    <3>1. dirs' = Extended(<< >>, << >>, Frame(RootDir', 0)) /\ cur' = << >> /\ stored' = << >>
      BY <2>1 DEF Begun
    <3>2. DOMAIN dirs' = {<< >>}
      BY <3>1 DEF Extended
    <3>3. QED
      BY <3>1, <3>2
  <2>7. QED
    BY <1>4, <1>9, <2>3, <2>4, <2>5, <2>6 DEF EspInv
<1>10. QED
  BY <1>8, <1>9

\* A child's entry is written, or the end of a directory is reached.
LEMMA RenderStep ==
    ASSUME EspInv, RenderChild \/ RenderEnd
    PROVE  EspInv'
<1>1. /\ phase = "render" /\ DOMAIN dirs # {} /\ UNCHANGED <<tree, put, phase, volume>>
  BY DEF RenderChild, RenderEnd, Turn
<1>2. /\ TreeInv /\ HandedOut /\ SoundVolume(volume) /\ CountAgrees(volume) /\ RootFits(volume)
      /\ volume.clusters \in Nat /\ nextFree \in Nat /\ nextFree <= volume.clusters + 2
  BY <1>1 DEF EspInv, Rendered, ClustersLeft, HandedOut
<1>3. PICK place : RenderInv(place, chains, stored, dirs, cur, nextFree)
  BY <1>1 DEF EspInv, Rendered
<1>4. TreeInv' /\ Paths' = Paths
  BY <1>1, <1>2, TreeInvAgain DEF Paths
<1>5. ASSUME HandedOut', nextFree' <= volume.clusters + 2,
             DOMAIN stored' \subseteq DOMAIN chains' \cup {0},
             cur' \in Paths \cup {<< >>},
             NEW more, RenderInv(more, chains', stored', dirs', cur', nextFree')
      PROVE  EspInv'
  <2>1. Rendered'
    BY <1>1, <1>2, <1>5, RenderedAgain
  <2>2. ClustersLeft' /\ phase' \in EspPhase
    BY <1>1, <1>2, <1>5 DEF ClustersLeft, EspInv
  <2>3. DOMAIN dirs' \subseteq Paths \cup {<< >>}
    BY <1>5 DEF RenderInv, OpenRight, Placed
  <2>4. QED
    BY <1>1, <1>4, <1>5, <2>1, <2>2, <2>3 DEF EspInv
<1>6. CASE RenderChild
  <2>1. /\ HandedOut'
        /\ \E more : RenderInv(more, chains', stored', dirs', cur', nextFree')
    BY <1>2, <1>3, <1>6, RenderChildKeeps
  <2>2. PICK more : RenderInv(more, chains', stored', dirs', cur', nextFree')
    BY <2>1
  <2> DEFINE p == Child
             n == PathClusters(p)
  <2>3. /\ n = 0 => UNCHANGED <<chains, nextFree>>
        /\ n # 0 => n \in 1 .. MaxCluster - nextFree + 1 /\ AllocChain(n)
        /\ stored' = stored /\ cur' \in {cur, p} /\ HasChild
    BY <1>6 DEF RenderChild, ChildClusters, AllocFits
  <2>4. p \in Paths
    BY <1>2, <2>3, ChildThere DEF Children
  <2> HIDE DEF p, n
  <2>5. nextFree' <= volume.clusters + 2 /\ DOMAIN chains \subseteq DOMAIN chains'
    <3>1. CASE n = 0
      BY <1>2, <2>3, <3>1
    <3>2. CASE n # 0
      <4>1. n \in 1 .. MaxCluster - nextFree + 1 /\ MaxCluster = volume.clusters + 1
        BY <2>3, <3>2 DEF MaxCluster
      <4>2. nextFree' = nextFree + n
        BY <2>3, <3>2 DEF AllocChain
      <4>3. n \in Nat \ {0} /\ nextFree + n <= volume.clusters + 2
        BY <1>2, <4>1
      <4>4. DOMAIN chains' = DOMAIN chains \cup {nextFree}
        BY <1>2, <2>3, <3>2, <4>3, AllocKeeps
      <4>5. QED
        BY <4>2, <4>3, <4>4
    <3>3. QED
      BY <3>1, <3>2
  <2>6. cur' \in Paths \cup {<< >>} /\ DOMAIN stored' \subseteq DOMAIN chains' \cup {0}
    BY <2>3, <2>4, <2>5 DEF EspInv
  <2>7. QED
    BY <1>5, <2>1, <2>2, <2>5, <2>6
<1>7. CASE RenderEnd
  <2>1. UNCHANGED <<nextFree, chains>> /\ cur' = Front(cur)
    BY <1>7 DEF RenderEnd
  <2>2. /\ RenderInv(place, chains', stored', dirs', cur', nextFree')
        /\ DOMAIN stored' \subseteq DOMAIN stored \cup DOMAIN chains \cup {0}
    BY <1>2, <1>3, <1>7, RenderEndKeeps
  <2>3. HandedOut'
    BY <1>2, <2>1 DEF HandedOut
  <2>4. Front(cur) \in Paths \cup {<< >>}
    <3>1. cur \in DOMAIN place /\ Placed(place, chains)
      BY <1>1, <1>3 DEF RenderInv, Nested, OpenRight
    <3>2. QED
      BY <3>1 DEF Placed
  <2>5. DOMAIN stored' \subseteq DOMAIN chains' \cup {0}
    BY <2>1, <2>2 DEF EspInv
  <2>6. QED
    BY <1>2, <1>5, <2>1, <2>2, <2>3, <2>4, <2>5
<1>8. QED
  BY <1>6, <1>7

\* No copy of the FAT runs over the root.
LEMMA NothingSpills ==
    ASSUME SoundVolume(volume)
    PROVE  ~ FatSpills
<1> DEFINE width == IF volume.wide THEN 4 ELSE 2
           fat == volume.fatSize
           need == (volume.clusters + 2) * width
<1>1. /\ volume.clusters \in Nat /\ width \in {2, 4}
      /\ fat \in Int /\ need <= fat * 512
  BY DEF SoundVolume, Figures
<1>2. Sector = 512
  BY DEF Sector
<1>3. need \in Int
  BY <1>1
<1> HIDE DEF need, fat
<1>4. ~ (need > fat * Sector)
  BY <1>1, <1>2, <1>3
<1>5. QED
  BY <1>4 DEF FatSpills, need, fat

\* A step keeps the invariant.
LEMMA EspInvStep ==
    ASSUME EspInv, [EspNext]_espVars
    PROVE  EspInv'
<1>1. ASSUME NEW item \in Item, Insert(item)
      PROVE  EspInv'
  <2>1. /\ phase = "build" /\ phase' \in {"build", "bad_name"}
        /\ UNCHANGED <<volume, nextFree, chains, stored, cur, dirs>>
    BY <1>1 DEF Insert, render
  <2>2. TreeInv'
    BY <1>1, InsertKeepsTree DEF EspInv
  <2>3. /\ nextFree = 2 /\ chains = << >> /\ stored = << >> /\ cur = << >> /\ dirs = << >>
    BY <2>1 DEF EspInv, ClustersLeft
  <2>4. ClustersLeft' /\ HandedOut'
    BY <2>1, <2>3 DEF EspInv, ClustersLeft, HandedOut
  <2>5. QED
    BY <2>1, <2>2, <2>3, <2>4 DEF EspInv, EspPhase
<1>2. ASSUME NEW mib \in Volume, Format(mib)
      PROVE  EspInv'
  BY <1>2, FormatStep
<1>3. CASE RenderChild \/ RenderEnd
  BY <1>3, RenderStep
<1>4. CASE RenderFull
  <2>1. phase = "render" /\ phase' = "full" /\ UNCHANGED <<tree, put, volume, nextFree, chains, stored, cur, dirs>>
    BY <1>4 DEF RenderFull, Turn, render
  <2>2. TreeInv' /\ Paths' = Paths
    BY <2>1, TreeInvAgain DEF EspInv, Paths
  <2>3. DoesNotFit'
    <3>1. PICK place : RenderInv(place, chains, stored, dirs, cur, nextFree)
      BY <2>1 DEF EspInv, Rendered
    <3>2. DoesNotFit
      BY <1>4, <2>1, <3>1, RenderFullTells DEF EspInv, Rendered
    <3>3. QED
      BY <2>1, <3>2, DoesNotFitAgain
  <2>4. ClustersLeft' /\ HandedOut'
    BY <2>1 DEF EspInv, ClustersLeft, HandedOut
  <2>5. QED
    BY <2>1, <2>2, <2>3, <2>4 DEF EspInv, EspPhase
<1>5. CASE WriteFats
  <2>1. /\ phase = "render" /\ phase' = "written" /\ DOMAIN dirs = {}
        /\ UNCHANGED <<tree, put, volume, nextFree, chains, cur, dirs>>
        /\ stored' = [c \in {c \in DOMAIN stored : FatSpills => c # RootDir} |-> stored[c]]
    BY <1>5 DEF WriteFats
  <2>2. Rendered
    BY <2>1 DEF EspInv
  <2>3. DOMAIN stored' = DOMAIN stored /\ \A c \in DOMAIN stored : stored'[c] = stored[c]
    <3>1. ~ FatSpills
      BY <2>2, NothingSpills DEF Rendered
    <3>2. QED
      BY <2>1, <3>1
  <2>4. TreeInv' /\ Paths' = Paths
    BY <2>1, TreeInvAgain DEF EspInv, Paths
  <2>5. PICK place : RenderInv(place, chains, stored, dirs, cur, nextFree)
    BY <2>2 DEF Rendered
  <2>6. RenderInv(place, chains', stored', dirs', cur', nextFree')
    <3>1. ClosedRight(place, dirs, stored')
      BY <2>3, <2>5 DEF RenderInv, ClosedRight
    <3>2. QED
      BY <2>1, <2>5, <3>1 DEF RenderInv
  <2>7. Rendered'
    BY <2>1, <2>2, <2>6, RenderedAgain DEF Rendered
  <2>8. ClustersLeft' /\ HandedOut'
    BY <2>1 DEF EspInv, ClustersLeft, HandedOut
  <2>9. QED
    BY <2>1, <2>3, <2>4, <2>7, <2>8 DEF EspInv, EspPhase
<1>6. CASE UNCHANGED espVars
  <2>1. UNCHANGED <<tree, put, phase, volume, nextFree, chains, stored, cur, dirs>>
    BY <1>6 DEF espVars, render
  <2>2. TreeInv' /\ Paths' = Paths
    BY <2>1, TreeInvAgain DEF EspInv, Paths
  <2>3. phase' \in {"render", "written"} => Rendered'
    <3>1. SUFFICES ASSUME phase \in {"render", "written"} PROVE Rendered'
      BY <2>1
    <3>2. PICK place : RenderInv(place, chains, stored, dirs, cur, nextFree)
      BY <3>1 DEF EspInv, Rendered
    <3>3. RenderInv(place, chains', stored', dirs', cur', nextFree')
      BY <2>1, <3>2
    <3>4. QED
      BY <2>1, <3>1, <3>3, RenderedAgain DEF EspInv, Rendered
  <2>4. phase' = "full" => DoesNotFit'
    BY <2>1, DoesNotFitAgain DEF EspInv
  <2>5. ClustersLeft' /\ HandedOut'
    BY <2>1 DEF EspInv, ClustersLeft, HandedOut
  <2>6. QED
    BY <2>1, <2>2, <2>3, <2>4, <2>5 DEF EspInv
<1>7. QED
  BY <1>1, <1>2, <1>3, <1>4, <1>5, <1>6 DEF EspNext

\* What holds of the ESP wherever its build and its writing are.
THEOREM EspInvCorrect == EspSpec => []EspInv
<1>1. EspInit => EspInv
  <2> SUFFICES ASSUME EspInit PROVE EspInv
    OBVIOUS
  <2>1. Paths = {} /\ DOMAIN chains = {} /\ DOMAIN stored = {} /\ DOMAIN dirs = {}
    BY DEF EspInit, Paths
  <2>2. TreeInv
    <3>1. IsFiniteSet({}) /\ Cardinality({}) = 0
      BY FS_EmptySet
    <3>2. \A d : Children(d) = {}
      BY <2>1 DEF Children
    <3>3. put \in 0 .. MaxItems /\ put = 0
      BY EspAssumption DEF EspInit
    <3>4. TreeSmall
      BY <2>1, <3>1, <3>2, <3>3 DEF TreeSmall
    <3>5. QED
      BY <2>1, <3>3, <3>4 DEF TreeInv, TreeTyped, TreeHangsTogether
  <2>3. ClustersLeft /\ HandedOut
    BY <2>1 DEF EspInit, ClustersLeft, HandedOut
  <2>4. QED
    BY <2>1, <2>2, <2>3 DEF EspInit, EspPhase, EspInv
<1>2. EspInv /\ [EspNext]_espVars => EspInv'
  BY EspInvStep
<1>3. QED
  BY <1>1, <1>2, PTL DEF EspSpec

\* The tree, the counts and the clusters are of their types throughout.
THEOREM EspTypeCorrect == EspSpec => []EspTypeOK
<1>1. EspInv => EspTypeOK
  BY DEF EspInv, TreeInv, TreeTyped, HandedOut, EspTypeOK
<1>2. QED
  BY <1>1, EspInvCorrect, PTL

\* No two chains share a cluster, and none runs beyond the volume.
LEMMA KeptApart ==
    ASSUME EspInv
    PROVE  ChainsApart
<1>1. SUFFICES ASSUME NEW c \in DOMAIN chains
               PROVE  c >= 2 /\ c + chains[c] - 1 <= MaxCluster
  BY DEF EspInv, HandedOut, ChainsApart
<1>2. phase \in {"render", "written", "full"}
  BY <1>1 DEF EspInv, EspPhase, ClustersLeft
<1>3. volume.clusters \in Nat /\ nextFree <= volume.clusters + 2 /\ nextFree \in Nat
  BY <1>2 DEF EspInv, ClustersLeft, HandedOut
<1>4. c \in Nat /\ c >= 2 /\ chains[c] \in Nat /\ c + chains[c] <= nextFree
  BY <1>1 DEF EspInv, HandedOut
<1>5. QED
  BY <1>3, <1>4 DEF MaxCluster

\* No path is without the folders above it and none is below a file, whatever is
\* put over what (insert_file, mkdir); no two chains share a cluster, none runs
\* beyond the volume, and each directory has a chain (alloc_chain).
THEOREM EspHangsTogether ==
    EspSpec => [](TreeHangsTogether /\ ChainsApart /\ DOMAIN stored \subseteq DOMAIN chains \cup {0})
<1>1. EspInv => ChainsApart
  BY KeptApart
<1>2. EspInv => TreeHangsTogether /\ DOMAIN stored \subseteq DOMAIN chains \cup {0}
  BY DEF EspInv, TreeInv
<1>3. QED
  BY <1>1, <1>2, EspInvCorrect, PTL

-----------------------------------------------------------------------------
(* What reads back.                                                        *)

\* When nothing is being rendered any more, every path is placed, and every
\* folder is written right.
LEMMA AllPlaced ==
    ASSUME TreeInv, DOMAIN dirs = {},
           NEW place, RenderInv(place, chains, stored, dirs, cur, nextFree)
    PROVE  /\ DOMAIN place = Paths \cup {<< >>}
           /\ \A d \in DOMAIN place : IsFolder(d) =>
                 /\ place[d] \in DOMAIN stored
                 /\ WrittenRight(d, stored[place[d]].dotdot, stored[place[d]].entries, place)
                 /\ DOMAIN stored[place[d]].entries = Children(d)
<1>1. Placed(place, chains) /\ ClosedRight(place, dirs, stored)
  BY DEF RenderInv
<1>2. \A d \in DOMAIN place : IsFolder(d) =>
         /\ Children(d) \subseteq DOMAIN place /\ place[d] \in DOMAIN stored
         /\ WrittenRight(d, stored[place[d]].dotdot, stored[place[d]].entries, place)
  BY <1>1 DEF ClosedRight
<1>3. Paths \subseteq DOMAIN place
  <2>1. SUFFICES ASSUME Paths \ DOMAIN place # {} PROVE FALSE
    OBVIOUS
  <2> DEFINE lens == {Len(p) : p \in Paths \ DOMAIN place}
  <2>2. lens \subseteq Nat /\ lens # {}
    <3>1. \A p \in Paths : p \in Seq(Nat)
      BY DEF TreeInv, TreeTyped
    <3>2. \A p \in Paths : Len(p) \in Nat
      BY <3>1
    <3>3. QED
      BY <2>1, <3>2
  <2>3. PICK m \in lens : \A k \in lens : m <= k
    <3> HIDE DEF lens
    <3>1. QED
      BY <2>2, LeastNumber
  <2>4. PICK p \in Paths \ DOMAIN place : Len(p) = m
    OBVIOUS
  <2>5. p \in Seq(Nat) /\ p # << >>
    BY DEF TreeInv, TreeTyped
  <2>6. Len(Front(p)) = Len(p) - 1 /\ Len(p) \in Nat
    BY <2>5, PathFront
  <2>7. Front(p) \in Paths \cup {<< >>} /\ IsFolder(Front(p))
    BY FolderAbove
  <2>8. Front(p) \in DOMAIN place
    <3>1. CASE Front(p) \in Paths \ DOMAIN place
      <4>1. Len(Front(p)) \in lens
        BY <3>1
      <4>2. m <= Len(Front(p))
        BY <2>3, <4>1
      <4>3. QED
        BY <2>4, <2>6, <4>2
    <3>2. QED
      BY <1>1, <2>7, <3>1 DEF Placed
  <2>9. p \in Children(Front(p))
    BY DEF Children
  <2>10. QED
    BY <1>2, <2>7, <2>8, <2>9
<1>4. DOMAIN place = Paths \cup {<< >>}
  BY <1>1, <1>3 DEF Placed
<1>5. \A d \in DOMAIN place : IsFolder(d) => DOMAIN stored[place[d]].entries = Children(d)
  BY <1>2 DEF WrittenRight, EntriesRight
<1>6. QED
  BY <1>2, <1>4, <1>5

\* An entry by a path's name is the path's.
LEMMA EntryIs ==
    ASSUME TreeInv, ShortNamesTell, NEW p \in Paths, NEW first, NEW place,
           EntriesRight(Front(p), stored[first].entries, place),
           DOMAIN stored[first].entries = Children(Front(p))
    PROVE  /\ EntryOf(first, p) = {stored[first].entries[p]}
           /\ EntryRight(stored[first].entries[p], p, place[p])
<1> DEFINE d == Front(p)
           es == stored[first].entries
<1>1. p \in Children(d)
  BY DEF Children
<1>2. /\ \A q \in Children(d) : EntryRight(es[q], q, place[q])
      /\ \A q, r \in Children(d) : es[q].field = es[r].field => q = r
  BY DEF EntriesRight
<1>3. EntryOf(first, p) =
          {e \in {es[q] : q \in Children(d)} :
              IF Short[NameOf(p)] = NoField THEN e.long = FoldCase[NameOf(p)]
              ELSE e.field = Short[NameOf(p)]}
  BY DEF EntryOf, NameOf, Range
<1> HIDE DEF es
<1>4. ASSUME Short[NameOf(p)] = NoField
      PROVE  /\ es[p].long = FoldCase[NameOf(p)]
             /\ \A q \in Children(d) : es[q].long = FoldCase[NameOf(p)] => q = p
  <2>1. es[p].long = FoldCase[NameOf(p)]
    BY <1>1, <1>2, <1>4 DEF EntryRight
  <2>2. ASSUME NEW q \in Children(d), es[q].long = FoldCase[NameOf(p)]
        PROVE  q = p
    <3>1. NameOf(p) \in Name /\ FoldCase[NameOf(p)] \in Nat
      BY <1>1, ChildNamed, EspAssumption
    <3>2. es[q].long = IF Short[NameOf(q)] = NoField THEN FoldCase[NameOf(q)] ELSE -1
      BY <1>2 DEF EntryRight
    <3>3. FoldCase[NameOf(q)] = FoldCase[NameOf(p)]
      BY <2>2, <3>1, <3>2
    <3> HIDE DEF d
    <3>4. QED
      BY <1>1, <3>3, SameChild
  <2>3. QED
    BY <2>1, <2>2
<1>5. ASSUME Short[NameOf(p)] # NoField
      PROVE  /\ es[p].field = Short[NameOf(p)]
             /\ \A q \in Children(d) : es[q].field = Short[NameOf(p)] => q = p
  <2>1. es[p].field = Short[NameOf(p)]
    BY <1>1, <1>2, <1>5 DEF EntryRight
  <2>2. QED
    BY <1>1, <1>2, <2>1
<1>6. EntryOf(first, p) = {es[p]}
  <2> HIDE DEF d
  <2>1. CASE Short[NameOf(p)] = NoField
    BY <1>1, <1>3, <1>4, <2>1
  <2>2. CASE Short[NameOf(p)] # NoField
    BY <1>1, <1>3, <1>5, <2>2
  <2>3. QED
    BY <2>1, <2>2
<1>7. QED
  BY <1>1, <1>2, <1>6 DEF es

\* What is found from the root on is where the paths were placed.
LEMMA FoundIsPlace ==
    ASSUME TreeInv, NEW place, DOMAIN place = Paths \cup {<< >>}, place[<< >>] = RootDir,
           \A p \in Paths : \E e : EntryOf(place[Front(p)], p) = {e} /\ e.first = place[p]
    PROVE  \A p \in Paths \cup {<< >>} : Found[p] = place[p]
<1> DEFINE P == Paths \cup {<< >>}
           step(f, p) == IF p = << >> THEN RootDir
                         ELSE (CHOOSE e \in EntryOf(f[Front(p)], p) : TRUE).first
           g == [p \in P |-> place[p]]
<1>1. ASSUME NEW p \in Paths
      PROVE  (CHOOSE e \in EntryOf(place[Front(p)], p) : TRUE).first = place[p]
  <2>1. PICK e : EntryOf(place[Front(p)], p) = {e} /\ e.first = place[p]
    OBVIOUS
  <2>2. (CHOOSE x \in EntryOf(place[Front(p)], p) : TRUE) = e
    BY <2>1
  <2>3. QED
    BY <2>1, <2>2
<1>2. \A p \in Paths : p # << >> /\ p \in Seq(Nat) /\ Front(p) \in P
  BY FolderAbove DEF TreeInv, TreeTyped
<1>3. g = [p \in P |-> step(g, p)]
  <2>1. \A p \in P : g[p] = place[p]
    OBVIOUS
  <2>2. ASSUME NEW p \in P
        PROVE  step(g, p) = place[p]
    <3>1. CASE p = << >>
      BY <3>1
    <3>2. CASE p # << >>
      <4>1. p \in Paths /\ g[Front(p)] = place[Front(p)]
        BY <1>2, <2>1, <3>2
      <4> HIDE DEF g
      <4>2. QED
        BY <1>1, <3>2, <4>1
    <3>3. QED
      BY <3>1, <3>2
  <2>3. QED
    BY <2>2
<1>4. Found = CHOOSE f : f = [p \in P |-> step(f, p)]
  BY ZenonT(30) DEF Found
<1>5. Found = [p \in P |-> step(Found, p)]
  <2>1. \E f : f = [p \in P |-> step(f, p)]
    BY <1>3, Zenon
  <2> HIDE DEF step, P, g
  <2>2. QED
    BY <1>4, <2>1, Zenon
<1>6. \A p \in P : Found[p] = step(Found, p)
  <2> HIDE DEF step, P, g
  <2>1. QED
    BY <1>5
<1>7. ASSUME \E p \in P : Found[p] # place[p]
      PROVE  FALSE
  <2> DEFINE wrong == {p \in P : Found[p] # place[p]}
             lens == {Len(p) : p \in wrong}
  <2>1. \A p \in P : Len(p) \in Nat
    <3>1. << >> \in Seq(Nat)
      OBVIOUS
    <3>2. \A p \in P : p \in Seq(Nat)
      BY <1>2, <3>1
    <3>3. ASSUME NEW p \in P
          PROVE  Len(p) \in Nat
      <4> HIDE DEF P
      <4>1. p \in Seq(Nat)
        BY <3>2
      <4>2. QED
        BY <4>1
    <3> HIDE DEF P
    <3>4. QED
      BY <3>3
  <2>2. lens \subseteq Nat /\ lens # {}
    <3>1. wrong # {} /\ \A p \in wrong : Len(p) \in Nat
      BY <1>7, <2>1
    <3> HIDE DEF wrong
    <3>2. QED
      BY <3>1
  <2>3. PICK m \in lens : \A k \in lens : m <= k
    <3> HIDE DEF lens
    <3>1. QED
      BY <2>2, LeastNumber
  <2>4. PICK p \in wrong : Len(p) = m
    OBVIOUS
  <2>5. p # << >>
    <3>1. Found[<< >>] = RootDir
      BY <1>6
    <3>2. QED
      BY <3>1
  <2>6. p \in Paths /\ Front(p) \in P /\ Len(Front(p)) = Len(p) - 1 /\ Len(p) \in Nat
    BY <1>2, <2>5, PathFront
  <2>7. Front(p) \notin wrong
    <3>1. ASSUME Front(p) \in wrong
          PROVE  FALSE
      <4>1. Len(Front(p)) \in lens
        BY <3>1
      <4>2. m <= Len(Front(p))
        BY <2>3, <4>1
      <4>3. QED
        BY <2>4, <2>6, <4>2
    <3>2. QED
      BY <3>1
  <2>8. Found[Front(p)] = place[Front(p)]
    BY <2>6, <2>7
  <2>9. Found[p] = (CHOOSE e \in EntryOf(Found[Front(p)], p) : TRUE).first
    BY <1>6, <2>5, <2>6
  <2>10. Found[p] = place[p]
    BY <1>1, <2>6, <2>8, <2>9
  <2>11. QED
    BY <2>10
<1>8. QED
  BY <1>7

\* A folder's slots, as they were written, are what was counted before.
LEMMA SlotsWritten ==
    ASSUME TreeInv, NEW d, NEW es, NEW place, EntriesRight(d, es, place), DOMAIN es = Children(d)
    PROVE  (IF d = << >> THEN 1 ELSE 2) + SumOf([q \in DOMAIN es |-> es[q].slots]) = ContentSlots(d)
<1>1. \A q \in DOMAIN es : es[q].slots = 1 + Slots(NameOf(q))
  BY DEF EntriesRight, EntryRight
<1>2. [q \in DOMAIN es |-> es[q].slots] = [p \in Children(d) |-> 1 + Slots(NameOf(p))]
  BY <1>1
<1>3. QED
  BY <1>2, ContentTyped

\* What is built reads back, when its names can be told apart.
LEMMA WrittenReadsBack ==
    ASSUME EspInv, ShortNamesTell, phase = "written"
    PROVE  /\ CountAgrees(volume)
           /\ volume.dataStart + volume.clusters * volume.spc <= volume.sectors
           /\ RootDir \in DOMAIN stored
           /\ PathsReadBack /\ FoldersReadBack
<1>1. /\ TreeInv /\ SoundVolume(volume) /\ CountAgrees(volume) /\ RootFits(volume)
      /\ DOMAIN dirs = {}
  BY DEF EspInv, Rendered
<1>2. PICK place : RenderInv(place, chains, stored, dirs, cur, nextFree)
  BY DEF EspInv, Rendered
<1>3. /\ DOMAIN place = Paths \cup {<< >>}
      /\ \A d \in DOMAIN place : IsFolder(d) =>
            /\ place[d] \in DOMAIN stored
            /\ WrittenRight(d, stored[place[d]].dotdot, stored[place[d]].entries, place)
            /\ DOMAIN stored[place[d]].entries = Children(d)
  BY <1>1, <1>2, AllPlaced
<1>4. Placed(place, chains)
  BY <1>2 DEF RenderInv
<1>5. place[<< >>] = RootDir /\ IsFolder(<< >>)
  BY <1>4 DEF Placed, IsFolder
<1>6. ASSUME NEW p \in Paths
      PROVE  \E e : /\ EntryOf(place[Front(p)], p) = {e}
                    /\ e.first = place[p] /\ e.bytes = tree[p].bytes
  <2>1. Front(p) \in DOMAIN place /\ IsFolder(Front(p))
    BY <1>1, <1>3, FolderAbove
  <2> DEFINE first == place[Front(p)]
             e == stored[first].entries[p]
  <2>2. EntriesRight(Front(p), stored[first].entries, place)
    BY <1>3, <2>1 DEF WrittenRight
  <2>3. DOMAIN stored[first].entries = Children(Front(p))
    BY <1>3, <2>1
  <2>4. EntryOf(first, p) = {e} /\ EntryRight(e, p, place[p])
    <3> HIDE DEF first
    <3>1. QED
      BY <1>1, <2>2, <2>3, EntryIs
  <2> HIDE DEF e
  <2>5. QED
    BY <2>4 DEF EntryRight
<1>7. \A p \in Paths \cup {<< >>} : Found[p] = place[p]
  BY <1>1, <1>3, <1>5, <1>6, FoundIsPlace
<1>8. \A p \in Paths : p # << >> /\ p \in Seq(Nat) /\ Front(p) \in Paths \cup {<< >>}
  BY <1>1, FolderAbove DEF TreeInv, TreeTyped
<1>9. PathsReadBack
  <2>1. ASSUME NEW p \in Paths
        PROVE  /\ \E e \in EntryOf(Found[Front(p)], p) :
                     EntryOf(Found[Front(p)], p) = {e} /\ e.bytes = tree[p].bytes
               /\ Found[p] = 0 <=> tree[p].bytes = 0
               /\ Found[p] # 0 => chains[Found[p]] = PathClusters(p)
    <3>1. Found[p] = place[p] /\ Found[Front(p)] = place[Front(p)] /\ p # << >>
      BY <1>7, <1>8
    <3>2. Chained(p, place[p], chains)
      BY <1>3, <1>4 DEF Placed
    <3>3. PathClusters(p) = 0 <=> tree[p].bytes = 0
      BY <1>1, <3>1, PathNeeds
    <3>4. \E e \in EntryOf(place[Front(p)], p) :
             EntryOf(place[Front(p)], p) = {e} /\ e.bytes = tree[p].bytes
      <4>1. PICK e : EntryOf(place[Front(p)], p) = {e} /\ e.bytes = tree[p].bytes
        BY <1>6
      <4>2. QED
        BY <4>1
    <3>5. QED
      BY <3>1, <3>2, <3>3, <3>4 DEF Chained
  <2>2. QED
    BY <2>1 DEF PathsReadBack
<1>10. FoldersReadBack
  <2>1. ASSUME NEW p \in Paths \cup {<< >>}, IsFolder(p), NEW dir, dir = stored[Found[p]]
        PROVE  /\ \A q, r \in DOMAIN dir.entries :
                     dir.entries[q].field = dir.entries[r].field => q = r
               /\ (IF p = << >> THEN 1 ELSE 2)
                      + SumOf([q \in DOMAIN dir.entries |-> dir.entries[q].slots])
                      <= RoomOf(Found[p])
               /\ dir.dotdot = IF Len(p) <= 1 THEN 0 ELSE Found[Front(p)]
    <3>1. Found[p] = place[p]
      BY <1>7
    <3>2. /\ WrittenRight(p, dir.dotdot, dir.entries, place)
          /\ DOMAIN dir.entries = Children(p)
      BY <1>3, <2>1, <3>1
    <3>3. EntriesRight(p, dir.entries, place) /\ dir.dotdot = DotDot(p, place)
      BY <3>2 DEF WrittenRight
    <3>4. \A q, r \in DOMAIN dir.entries :
             dir.entries[q].field = dir.entries[r].field => q = r
      BY <3>3 DEF EntriesRight
    <3>5. (IF p = << >> THEN 1 ELSE 2)
              + SumOf([q \in DOMAIN dir.entries |-> dir.entries[q].slots]) = ContentSlots(p)
      <4> DEFINE es == dir.entries
      <4>1. EntriesRight(p, es, place) /\ DOMAIN es = Children(p)
        BY <3>2, <3>3
      <4> HIDE DEF es
      <4>2. (IF p = << >> THEN 1 ELSE 2) + SumOf([q \in DOMAIN es |-> es[q].slots]) = ContentSlots(p)
        BY <1>1, <4>1, SlotsWritten
      <4>3. QED
        BY <4>2 DEF es
    <3>6. ContentSlots(p) <= RoomOf(place[p])
      <4>1. /\ PathClusters(p) # 0
            /\ ContentSlots(p) <= PathClusters(p) * (ClusterBytes(volume) \div 32)
        BY <1>1, <2>1, PathNeeds
      <4>2. Chained(p, place[p], chains)
        BY <1>3, <1>4 DEF Placed
      <4>3. CASE place[p] = 0
        <5>1. p = << >> /\ ~ volume.wide
          BY <4>1, <4>2, <4>3 DEF Chained
        <5>2. ContentSlots(<< >>) <= RootSlots
          BY <1>1, <5>1 DEF RootFits
        <5>3. QED
          BY <4>3, <5>1, <5>2 DEF RoomOf
      <4>4. CASE place[p] # 0
        <5>1. chains[place[p]] = PathClusters(p)
          BY <4>2, <4>4 DEF Chained
        <5>2. RoomOf(place[p]) = PathClusters(p) * (ClusterBytes(volume) \div 32)
          BY <4>4, <5>1 DEF RoomOf
        <5>3. QED
          BY <4>1, <5>2
      <4>5. QED
        BY <4>3, <4>4
    <3>7. DotDot(p, place) = IF Len(p) <= 1 THEN 0 ELSE Found[Front(p)]
      <4>1. CASE p = << >>
        BY <4>1, FrontOfRoot DEF DotDot
      <4>2. CASE p # << >>
        <5>1. p \in Seq(Nat) /\ Front(p) \in Paths \cup {<< >>}
          BY <1>8, <4>2
        <5>2. /\ Len(p) \in Nat \ {0}
              /\ Len(p) = 1 => Front(p) = << >>
              /\ Len(p) > 1 => Front(p) # << >>
          BY <4>2, <5>1, PathFront
        <5>3. Found[Front(p)] = place[Front(p)]
          BY <1>7, <5>1, Zenon
        <5>4. CASE Len(p) = 1
          BY <5>2, <5>4 DEF DotDot
        <5>5. CASE Len(p) # 1
          <6>1. Len(p) > 1 /\ ~ (Len(p) <= 1)
            BY <5>2, <5>5
          <6>2. QED
            BY <5>2, <5>3, <6>1, Zenon DEF DotDot
        <5>6. QED
          BY <5>4, <5>5
      <4>3. QED
        BY <4>1, <4>2
    <3>8. QED
      BY <3>1, <3>3, <3>4, <3>5, <3>6, <3>7
  <2>2. QED
    BY <2>1 DEF FoldersReadBack
<1>11. RootDir \in DOMAIN stored
  BY <1>3, <1>5
<1>12. volume.dataStart + volume.clusters * volume.spc <= volume.sectors
  BY <1>1 DEF SoundVolume, Figures
<1>13. QED
  BY <1>1, <1>9, <1>10, <1>11, <1>12

\* What is refused for want of room does not fit; what is written lies within
\* the partition, its FATs before its root, and the count of its clusters says
\* the type of the volume (geometry, alloc_chain, write_fats).
THEOREM EspFits ==
    EspSpec => [](/\ phase = "full" => DoesNotFit
                  /\ phase = "written" => SoundVolume(volume) /\ CountAgrees(volume) /\ ~ FatSpills)
<1>1. EspInv => (phase = "full" => DoesNotFit)
  BY DEF EspInv
<1>2. EspInv => (phase = "written" => SoundVolume(volume) /\ CountAgrees(volume) /\ ~ FatSpills)
  BY NothingSpills DEF EspInv, Rendered
<1>3. QED
  BY <1>1, <1>2, EspInvCorrect, PTL

\* Where names that share an 8.3 field are one name to the order of a directory,
\* what build_esp and format leave behind reads back as a whole, and what they
\* refuse for want of room does not fit.
THEOREM EspIsReadBack == ShortNamesTell => (EspSpec => []EspReadsBack)
<1>1. SUFFICES ASSUME ShortNamesTell PROVE EspSpec => []EspReadsBack
  OBVIOUS
<1>2. EspInv => EspReadsBack
  <2>1. SUFFICES ASSUME EspInv PROVE EspReadsBack
    OBVIOUS
  <2>2. TreeHangsTogether /\ (phase = "full" => DoesNotFit)
    BY <2>1 DEF EspInv, TreeInv
  <2>3. phase = "written" =>
           /\ CountAgrees(volume)
           /\ volume.dataStart + volume.clusters * volume.spc <= volume.sectors
           /\ RootDir \in DOMAIN stored
           /\ PathsReadBack /\ ChainsApart /\ FoldersReadBack
    BY <1>1, <2>1, KeptApart, WrittenReadsBack
  <2>4. QED
    BY <2>2, <2>3 DEF EspReadsBack
<1>3. QED
  BY <1>1, <1>2, EspInvCorrect, PTL
=============================================================================
