---------------------------- MODULE PartsProofs -----------------------------
(* What is proved of each part holds where the parts are put together: a     *)
(* behaviour of MCParts is one of every module it is made of, and so keeps   *)
(* what that module promises.                                                *)
EXTENDS MCParts, BootProofs, ReachProofs, WireSessionProofs, ShellProofs,
        LifestreamProofs

\* A step of one part is no step of another.
LEMMA StepOfOne ==
    ASSUME [PartsNext]_partsVars
    PROVE  /\ [Next]_vars /\ [KeysNext]_keysVars /\ [BootNext]_bootVars
           /\ [LeaseNext]_leaseVars /\ [ReachNext]_reachVars /\ [WireNext]_wireVars
           /\ [CellNext]_cellVars /\ [ShellNext]_shellVars /\ [ScanNext]_scanVars
           /\ [EspNext]_espVars /\ [DiskNext]_diskVars
<1>1. CASE UNCHANGED partsVars
  BY <1>1 DEF partsVars
<1>2. CASE PartsNext
  BY <1>2 DEF PartsNext
<1>3. QED
  BY <1>1, <1>2

\* A behaviour of the parts is one of each: of the store, the keys, the boot, the
\* meeting points, the wire, the cells, the shell, the screens, and the builder of
\* a Key and its ESP, which stay as they begin where another part is chosen.
THEOREM PartsAreParts ==
    PartsSpec => /\ Spec /\ KeysSpec /\ BootSpec /\ LeaseSpec /\ ReachSpec /\ WireSpec
                 /\ CellSpec /\ ShellSpec /\ ScanSpec /\ EspSpec /\ DiskSpec
<1>1. PartsInit => /\ Init /\ KeysInit /\ BootInit /\ LeaseInit /\ ReachInit /\ WireInit
                   /\ CellInit /\ ShellInit /\ ScanInit /\ EspInit /\ DiskInit
  BY DEF PartsInit
<1>2. [PartsNext]_partsVars =>
           /\ [Next]_vars /\ [KeysNext]_keysVars /\ [BootNext]_bootVars
           /\ [LeaseNext]_leaseVars /\ [ReachNext]_reachVars /\ [WireNext]_wireVars
           /\ [CellNext]_cellVars /\ [ShellNext]_shellVars /\ [ScanNext]_scanVars
           /\ [EspNext]_espVars /\ [DiskNext]_diskVars
  BY StepOfOne
<1>3. QED
  BY <1>1, <1>2, PTL
     DEF PartsSpec, Spec, KeysSpec, BootSpec, LeaseSpec, ReachSpec, WireSpec, CellSpec,
         ShellSpec, ScanSpec, EspSpec, DiskSpec

\* Every part keeps the types its module gives its state, whatever the code of the
\* part does and however it fails.
THEOREM PartsTypeCorrect == PartsSpec => []PartsTypeOK
<1>1. /\ KeysTypeOK /\ BootTypeOK /\ LeaseTypeOK /\ ReachTypeOK /\ WireTypeOK
      /\ CellTypeOK /\ ShellTypeOK /\ ScanTypeOK /\ EspTypeOK /\ DiskTypeOK
      => PartsTypeOK
  BY DEF PartsTypeOK
<1>2. QED
  BY <1>1, PartsAreParts, KeysTypeCorrect, BootTypeCorrect, LeaseTypeCorrect,
     ReachTypeCorrect, WireTypeCorrect, CellTypeCorrect, ShellTypeCorrect,
     ScanTypeCorrect, EspTypeCorrect, DiskTypeCorrect, PTL

\* What each module promises is kept beside the others: objects whole and a gc that
\* leaves exactly what HEAD reaches, keyslots that stay, a sound boot, peers that stay
\* listed and are told the truth, calls as remote ones, verdicts, proposals and
\* grants as they were shown, screens side by side, and a disk that boots one build.
THEOREM PartsKeepPromises ==
    PartsSpec => /\ [](/\ ObjectsWhole /\ BootSound /\ ListedWhileConnected /\ LiveStaysListed
                       /\ ReportTruthful /\ ProposalIsLastAsk /\ GrantsDisclosed
                       /\ ClientsSeeScreens /\ BootsOneBuild /\ KeyslotsKept)
                 /\ GcExact /\ NoPeerIsTrue /\ CallsAreRemote
BY PartsAreParts, RecordsWhole, BootIsSound, ConnectedIsListed, LiveIsListed, VerdictsAreTrue,
   ProposalsAnswerTheLastAsk, RunsGrantWhatWasShown, ScreensAreSideBySide, DiskBootsOneBuild,
   KeyslotsAreKept, GcIsExact, ToldTheTruth, SessionImplementsRemoteCall, PTL

\* So is what the ESP promises (format in fat.rs), where names that share an 8.3
\* field are one name.
THEOREM PartsReadBack == ShortNamesTell => (PartsSpec => []EspReadsBack)
BY PartsAreParts, EspIsReadBack, PTL
=============================================================================
