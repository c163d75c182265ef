SPECIFICATION Spec
CONSTANTS
    Drivers = {t1}
    Slots = {1, 2, 3}
    Edges <- AnyEdges
    Settings = {TRUE, FALSE}
    None = None
PROPERTIES TimeoutIsForTheLastEdge
