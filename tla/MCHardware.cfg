CONSTANTS
    o1 = o1
    o2 = o2
    r1 = r1
    d1 = d1
    t1 = t1
    t2 = t2
    s1 = s1
    s2 = s2
    c1 = c1
    User = User
    Unclaimed = Unclaimed
    None = None
    Threads = {t1, t2}
    Programs <- ThePrograms
    Drivers = {d1}
    Alerts = {1, 2}
    Edges = {{1}}
    Duties = {50, 60}
    Objects = {1, 2}
    Lines = {1, 2}
    Owners = {o1, o2}
    Readers = {r1}
    Pipes = {1, 2, 3, 4}
    MaxEvents = 3
    Requests = {1, 2}
    Bundles = {{1}, {2}, {1, 2}}
    Settings <- BothEdges
    BufferSize = 2
    Bulks = {{1}, {2}, {1, 2}}
    LineTypes = {"as_is", "out", "falling", "both"}
    EventBuffer = 2
    Scripts = {s1, s2}
    Addresses = {118, 35}
    Attached = {118}
    Registers = 3
    Counts = {2}
    BusLibraries = {"smbus", "lgpio"}
    Libraries = {"pyserial", "lgpio"}
    Timeouts = {"none", "some"}
    Sizes = {1, 2}
    Answers = TRUE
    Capacity = 2
    MaxBytes = 4
    LF = {2}
    Handles = {1, 2}
    Callbacks = {c1}
    Reporters = {r1}
    MaxReports = 3
    Paths = {"w1_slave", "model"}
    Dynamic = {"w1_slave"}
    MaxSamples = 3
    Channels = {1, 4}
    Entries <- TheEntries
    MaxParts = 3
SPECIFICATION MCSpec
INVARIANTS
    HardwareTypeOK
    EventsWakeReaders
    OneHolder
    WaitsKeepToThemselves
    PwmIsTheObjects
    BusesInOrder
    PipesAreOpen
    FreshReads
    SettingsHold
    NothingShadowed
    CodecsAgree
PROPERTIES
    BuffersEvents
CHECK_DEADLOCK FALSE
