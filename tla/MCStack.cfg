CONSTANTS
    t1 = t1
    t2 = t2
    N = N
    None = None
    Refused = Refused
    Plain = Plain
    All = All
    Interval <- TheIntervals
    Measurements = {"a"}
    Samples = {1, 2}
    Naps = {3}
    Delays = {2, 5}
    Faults <- TheFaults
    Scenarios <- TheScenarios
    Busy = 1
    Jitter = 1
    MaxHeld = 3
    Entries <- TheEntries
    Replays <- TheReplays
    Options <- TheOptions
    Where <- TheFiles
    Rate <- TheRates
    Length <- TheLengths
    NotLevels = {"x/y"}
    MaxEntries = 2
    Terminals = {t1, t2}
    MaxCommands = 3
    Enabled = {"iot", "ai"}
    Profiles <- TheProfiles
    Services <- TheServices
    Commands <- TheCommands
    Overrides <- TheOverrides
    HostCpus = 3
    HostScore <- TheScores
    Nvidia = TRUE
    Native = "linux/amd64"
SPECIFICATION MCSpec
INVARIANTS
    DeploymentTypeOK
    SimulatorKeepsTime
    AcceptedRuns
    UndoesOnlyItsOwn
    LimitsFit
CHECK_DEADLOCK FALSE
