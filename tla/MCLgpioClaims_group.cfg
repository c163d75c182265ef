SPECIFICATION Spec
CONSTANTS
    t1 = t1
    t2 = t2
    h1 = h1
    h2 = h2
    h3 = h3
    g1 = g1
    g2 = g2
    GPIO = {g1, g2}
    Handles = {h1, h2, h3}
    Threads = {t1, t2}
    Groups <- Pair
    Programs <- Grouping
    None = None
INVARIANTS GroupsAnswerStatuses
