------------------------------ MODULE MCParts -------------------------------
(* Small instances of the parts that run by themselves: the store with its  *)
(* garbage collection, its keys, the boot, the peers' meeting, the session   *)
(* on the wire, the cells, the shell, the screens, and the image of a Key.   *)
(* A behaviour is one of one part, chosen at the start, and the others stay  *)
(* as they are.                                                              *)
EXTENDS LifestreamStore, StoreKeys, BootUp, RendezvousLease, ConstellationReach,
        WireSession, CellSpawn, GlassShell, Scanout, EspImage, KeyDisk, TLC

CONSTANTS
    shared, single, t1, t2,        \* two trees that share a blob
    master, mistyped,
    n1, n2,
    c1, c2,
    g1, g2, x, z

VARIABLE part

partsVars == <<part, vars, keysVars, bootVars, leaseVars, reachVars, wireVars, cellVars,
               shellVars, scanVars, espVars, diskVars>>

-----------------------------------------------------------------------------
(* Values of the constants.                                                *)

MCContent == t1 :> <<shared>> @@ t2 :> <<single, shared>>

\* Media with at most two things that are not as on a Key in good order.
Good == [parts |-> Partition, stores |-> 1, home |-> master, head |-> master,
         slot |-> master]
MCMedia ==
    {m \in [parts : {Partition} \cup {Partition \ {p} : p \in Partition},
            stores : {1, 2}, home : {master}, head : BootKey \cup {NoKey},
            slot : BootKey \cup {NoKey, TornSlots}] :
        Cardinality({f \in DOMAIN m : m[f] # Good[f]}) <= 2}
MCCmdlines == [mode : {"auto", "ghost"}, verity : BOOLEAN, device : {"none", "token", "bad"}]

\* The lengths of one segment and of two, the boundary between them included.
MCBytes == "get" :> 1 @@ "put" :> 5 @@ "bye" :> 0 @@ "stored" :> 2 @@ "failed" :> 3

MCServed == {<<"rendezvous", c1>>, <<"relay", c1>>, <<"relay", c2>>}

MCWorldSteps == <<"root", "binds", "pivot", "seccomp", "fds">>

MCPlans == {<<{n1}>>, <<{n1}, {n2}>>}

\* One device with two monitors for one CRTC, and a second device.
MCOnGpu == 1 :> g2 @@ 2 :> g1 @@ 3 :> g1 @@ x :> g1 @@ z :> g2
MCWidth == 1 :> 1 @@ 2 :> 2 @@ 3 :> 1

\* Names in two cases, two long ones with the same aliases, one that is such an
\* alias, and one that is refused.
MCFoldCase ==
    "EFI" :> 1 @@ "efi" :> 1 @@ "KERNEL" :> 2 @@ "loader.conf" :> 3 @@
    "loader.config" :> 4 @@ "LOADER~1.CON" :> 5 @@ "x:y" :> 6
MCName == DOMAIN MCFoldCase
MCShort ==
    [n \in MCName |-> CASE n \in {"EFI", "efi"} -> "EFI"
                       [] n = "KERNEL" -> "KERNEL"
                       [] n = "LOADER~1.CON" -> "LOADER~1CON"
                       [] OTHER -> NoField]
MCAlias == [n \in MCName |-> <<"LOADER~1CON", "LOADER~2CON", "LOADER~3CON">>]
MCLongSlots ==
    [n \in MCName |-> CASE n = "loader.conf" -> 1 [] n = "loader.config" -> 15 [] OTHER -> 0]

\* The kernels fill a volume of 2 MiB to its last cluster, or almost.
MCItem ==
    {[path |-> <<"EFI">>, bytes |-> Folder], [path |-> <<"efi">>, bytes |-> 5],
     [path |-> <<"EFI", "KERNEL">>, bytes |-> 3062 * 512],
     [path |-> <<"KERNEL">>, bytes |-> 3000 * 512 + 1],
     [path |-> <<"EFI", "loader.conf">>, bytes |-> 1],
     [path |-> <<"EFI", "loader.config">>, bytes |-> 0],
     [path |-> <<"EFI", "LOADER~1.CON">>, bytes |-> 0],
     [path |-> <<"x:y">>, bytes |-> 1]}

\* With a hash tree and without, from an initramfs made now or before, for a disk
\* or an ESP alone, and without the loader.
MCInvocations ==
    LET bootable == [NoFlags EXCEPT !.kernel = TRUE, !.loader = TRUE]
    IN  {[bootable EXCEPT !.verity = TRUE, !.disk = TRUE, !.initramfs = TRUE],
         [bootable EXCEPT !.verity = TRUE, !.esp = TRUE, !.initramfs = TRUE],
         [bootable EXCEPT !.disk = TRUE],
         [bootable EXCEPT !.verity = TRUE, !.disk = TRUE, !.loader = FALSE]}

\* Bases of exactly two alignment units and of a byte more.
MCImageBytes ==
    [i \in Image \X (1 .. 2) |->
        CASE i[1] = "base" -> 2 * 1048576 + i[2] - 1 [] i[1] = "data" -> 0 [] OTHER -> 1000]

\* The library's filter is recursive; Without says the same of every short list.
ASSUME WithoutFilters ==
    \A list \in UNION {[1 .. n -> 1 .. 3] : n \in 0 .. 4} :
        \A c \in 1 .. 3 : Without(list, c) = SelectSeq(list, LAMBDA e : e # c)

-----------------------------------------------------------------------------

Part == {"store", "keys", "boot", "lease", "reach", "wire", "cells", "shell", "screens",
         "esp", "disk"}

\* A part that is not chosen has one initial state.
PartsInit ==
    /\ part \in Part
    /\ Init /\ KeysInit /\ BootInit /\ LeaseInit /\ ReachInit /\ WireInit /\ CellInit
    /\ ShellInit /\ ScanInit /\ EspInit /\ DiskInit
    /\ part # "boot" => medium = Good /\ cmdline = CHOOSE l \in Cmdlines : TRUE
    /\ part # "screens" => plugged = {}

PartsNext ==
    /\ UNCHANGED part
    /\ \/ part = "store" /\ Next
          /\ UNCHANGED <<keysVars, bootVars, leaseVars, reachVars, wireVars,
                         cellVars, shellVars, scanVars, espVars, diskVars>>
       \/ part = "keys" /\ KeysNext
          /\ UNCHANGED <<vars, bootVars, leaseVars, reachVars, wireVars,
                         cellVars, shellVars, scanVars, espVars, diskVars>>
       \/ part = "boot" /\ BootNext
          /\ UNCHANGED <<vars, keysVars, leaseVars, reachVars, wireVars,
                         cellVars, shellVars, scanVars, espVars, diskVars>>
       \/ part = "lease" /\ LeaseNext
          /\ UNCHANGED <<vars, keysVars, bootVars, reachVars, wireVars,
                         cellVars, shellVars, scanVars, espVars, diskVars>>
       \/ part = "reach" /\ ReachNext
          /\ UNCHANGED <<vars, keysVars, bootVars, leaseVars, wireVars,
                         cellVars, shellVars, scanVars, espVars, diskVars>>
       \/ part = "wire" /\ WireNext
          /\ UNCHANGED <<vars, keysVars, bootVars, leaseVars, reachVars,
                         cellVars, shellVars, scanVars, espVars, diskVars>>
       \/ part = "cells" /\ CellNext
          /\ UNCHANGED <<vars, keysVars, bootVars, leaseVars, reachVars,
                         wireVars, shellVars, scanVars, espVars, diskVars>>
       \/ part = "shell" /\ ShellNext
          /\ UNCHANGED <<vars, keysVars, bootVars, leaseVars, reachVars,
                         wireVars, cellVars, scanVars, espVars, diskVars>>
       \/ part = "screens" /\ ScanNext
          /\ UNCHANGED <<vars, keysVars, bootVars, leaseVars, reachVars,
                         wireVars, cellVars, shellVars, espVars, diskVars>>
       \/ part = "esp" /\ EspNext
          /\ UNCHANGED <<vars, keysVars, bootVars, leaseVars, reachVars,
                         wireVars, cellVars, shellVars, scanVars, diskVars>>
       \/ part = "disk" /\ DiskNext
          /\ UNCHANGED <<vars, keysVars, bootVars, leaseVars, reachVars,
                         wireVars, cellVars, shellVars, scanVars, espVars>>

\* What the modules are fair to (ReachFair, WireFair, CellFair, ShellFair and
\* ScanFair), of the chosen part: its i-th action.
MCOffer == <<<<"rendezvous", c1>>, <<"rendezvous", c2>>, <<"relay", c1>>, <<"relay", c2>>>>

FairStep(i) ==
    /\ UNCHANGED part
    /\ \/ /\ part = "reach"
          /\ LET m == MCOffer[i][1]
                 c == MCOffer[i][2]
             IN  Notice(m, c) \/ Withdraw(m, c)
       \/ part = "wire" /\ i = 1 /\ SideSteps
       \/ part = "cells" /\ \/ i = 1 /\ InitSteps
                            \/ i = 2 /\ WorldBuilding
                            \/ i = 3 /\ SupervisorSteps
       \/ part = "shell" /\ \/ i = 1 /\ WorkerTakes
                            \/ i = 2 /\ WorkerAnswers
                            \/ i = 3 /\ RunStep
                            \/ i = 4 /\ Tick /\ PollStore
       \/ part = "screens" /\ \/ i = 1 /\ Iterate
                              \/ i = 2 /\ VBlank(x)
                              \/ i = 3 /\ VBlank(z)

chosenVars ==
    CASE part = "reach"   -> reachVars
      [] part = "wire"    -> wireVars
      [] part = "cells"   -> cellVars
      [] part = "shell"   -> shellVars
      [] part = "screens" -> scanVars
      [] OTHER            -> << >>

PartsSpec ==
    /\ PartsInit /\ [][PartsNext]_partsVars
    /\ \A i \in DOMAIN MCOffer : WF_chosenVars(FairStep(i))

\* Every part keeps the types its module gives its state, whatever its handlers
\* do in whatever order.
PartsTypeOK ==
    /\ part = "keys" => KeysTypeOK
    /\ part = "boot" => BootTypeOK
    /\ part = "lease" => LeaseTypeOK
    /\ part = "reach" => ReachTypeOK
    /\ part = "wire" => WireTypeOK
    /\ part = "cells" => CellTypeOK
    /\ part = "shell" => ShellTypeOK
    /\ part = "screens" => ScanTypeOK
    /\ part = "esp" => EspTypeOK
    /\ part = "disk" => DiskTypeOK
=============================================================================
