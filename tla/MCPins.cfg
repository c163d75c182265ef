SPECIFICATION Spec
CONSTANTS
    GPIO = {g1}
    Threads = {t1, t2}
    Toggler = toggler
    Watchers = {w1}
    t1 = t1
    t2 = t2
    Calls <- TwoScripts
    Pulls = {"up"}
    Outputs = {0}
    Drives = {0}
    Pwms <- Thirds
    Cycle = 3
    TogglePeriod = 2
    Prompt = FALSE
    None = None
VIEW TimeShift
INVARIANTS TypeOK InputsReadTheirDrive EdgesConserved NoLostToggler NoOversleep
