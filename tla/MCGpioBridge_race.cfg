SPECIFICATION BridgeSpec
CONSTANTS
    GPIO = {g1}
    Threads = {net, script}
    Toggler = toggler
    Watchers = {bridge}
    Calls <- LevelCalls
    Pulls = {"off"}
    Outputs = {0, None}
    Drives = {1, None}
    Pwms = {}
    Cycle = 1
    TogglePeriod = 2
    Prompt = TRUE
    None = None
    Net = net
    Scripts = {script}
    Bridge = bridge
    Unset = Unset
INVARIANTS RetainedIsCurrent
