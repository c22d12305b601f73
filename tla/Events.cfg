SPECIFICATION Spec
CONSTANTS
    None = None
    Capacity = 2
    SubscriberBuffer = 1
    MergeBuffer = 1
    MaxLoads = 2
    Instances <- Each
    ZeroSeconds = 1
    ZeroClearAfter = 1
    QuietSeconds = 1
    QuietClearAfter = 2
    ClipWindow = 1
    ClipPercent = 50
    ClipClearAfter = 2
    DevicePresenceGrace = 2
    EnterAfter = 1
    ClearAfter = 2
    MemTotal = 400
    MemFreeMiB = 1000
    MemFreePercent = 30
    DropsEnterAfter = 1
    DropsClearAfter = 1
    DropsPerPoll = 1
    OverrunOnsetCount = 3
    OverrunWindow = 2
    OverrunClearAfter = 2
    MaxCount = 3
    Running <- Current
    Tags <- Ordered
    CheckInterval = 2
    MaxFailures = 2
    FlapMax = 2
    FlapWindow = 2
    FlapQuiet = 3
    Names <- HostNames
    ExtraNames = {"extra"}
    Unit <- Microphones
    Ports = {"p1", "p2", None}
    Cards <- CardOrder
    Shortened <- Long
    Paths = {"/r1", "/r2"}
    MaxDevices = 2
    MaxChannels = 2
    Requesters = {r1, r2}
    Overrides <- Asked
    Wires <- Patches
    Hosts <- MicHosts
SYMMETRY Symmetry
INVARIANTS
    AlertsHaveCause
    OverrunsAccounted
    OffStartsOver
    OfferIsGenuine
    FlapCounts
    RunLockSettles
    ViewIsCurrent
    SettingsTakeEffect
    CertificateKept
    ProbeOutOfTheWay
PROPERTIES
    OneEntryPerUnit
    DefaultsFit
CHECK_DEADLOCK FALSE
