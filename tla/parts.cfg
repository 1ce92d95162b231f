\* One part at a time of those that share nothing with the others.
SPECIFICATION PartsSpec
CONSTANTS
    shared = shared
    single = single
    t1 = t1
    t2 = t2
    None = None
    Blob = {shared, single}
    Tree = {t1, t2}
    Content <- MCContent
    Writer = {w1}
    Collector = {k1}
    GcAlone = TRUE
    Faults = {"put_fails", "crash"}
    MaxHistory = 3
    MaxLanded = 3
    master = master
    mistyped = mistyped
    Key = {master, mistyped}
    Device = {d1}
    Command = {k1}
    Threshold = 2
    ShareCount = 2
    MaxSlots = 2
    MaxSplits = 2
    MaxGenerations = 2
    Nothing = Nothing
    Torn = Torn
    KeyFaults = {"torn_save"}
    BootKey = {master, mistyped}
    NoKey = NoKey
    TornSlots = TornSlots
    Media <- MCMedia
    Cmdlines <- MCCmdlines
    Serving = {p1, p2}
    Lease = 9
    Heartbeat = 3
    IdleTimeout = 2
    Unlisted = Unlisted
    c1 = c1
    c2 = c2
    Conn = {c1, c2}
    Served <- MCServed
    Dialer = {d1}
    Routes = {{"rendezvous", "relay"}, {"address"}}
    Request = {"get", "put"}
    Bytes <- MCBytes
    Header = 1
    MaxSegment = 3
    MaxCalls = 3
    WorldSteps <- MCWorldSteps
    OptionSteps = {"seccomp"}
    n1 = n1
    n2 = n2
    Need = {n1, n2}
    Plans <- MCPlans
    MaxGrants = 2
    Absent = Absent
    ShellFaults = {"log_fails", "model_fails"}
    MaxAsks = 2
    g1 = g1
    g2 = g2
    x = x
    z = z
    Gpu = {g1, g2}
    Connector = {1, 2, 3}
    Crtc = {x, z}
    OnGpu <- MCOnGpu
    Width <- MCWidth
    Dark = 0
    NoGpu = NoGpu
    Named = NoGpu
    Folder = Folder
    NoField = ""
    Name <- MCName
    FoldCase <- MCFoldCase
    Short <- MCShort
    Alias <- MCAlias
    LongSlots <- MCLongSlots
    Item <- MCItem
    Volume = {2, 3, 33, 64, 257}
    MaxItems = 3
    Invocations <- MCInvocations
    ImageBytes <- MCImageBytes
    MaxRuns = 2
INVARIANTS
    PartsTypeOK
    CommitsKept
    HistoryKept
    ListedWhileConnected
    LiveStaysListed
    ProposalIsLastAsk
    GrantsDisclosed
    ReportTruthful
    BootSound
    ClientsSeeScreens
    EspReadsBack
    BootsOneBuild
PROPERTIES
    GcExact
    ClosedWithdrawn
    NoPeerIsTrue
    CallsAreRemote
    CallReturns
    AskAnswered
    SeveredLeavesScreen
    CellCollected
    ScreensRepaint
CHECK_DEADLOCK FALSE
