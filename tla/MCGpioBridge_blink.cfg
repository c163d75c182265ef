SPECIFICATION FairBridgeSpec
CONSTANTS
    GPIO = {g1}
    Threads = {net}
    Toggler = toggler
    Watchers = {bridge}
    Calls <- BlinkCalls
    Pulls = {"off"}
    Outputs = {0, None}
    Drives = {1, None}
    Pwms <- Thirds
    Cycle = 3
    TogglePeriod = 2
    Prompt = TRUE
    None = None
    Net = net
    Scripts = {net}
    Bridge = bridge
    Unset = Unset
INVARIANTS BridgeTypeOK PwmTopicIsCurrent
PROPERTIES TopicBlinks
