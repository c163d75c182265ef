SPECIFICATION FairSpec
CONSTANTS
    Drivers = {t1}
    Slots = {1, 2, 3}
    Edges <- AnyEdges
    Settings = {TRUE, FALSE}
    None = None
INVARIANTS TypeOK ReportedIsCurrent AlertsConserved AtMostOneTimeout
PROPERTIES EventuallyReported
