\* Two processes, of a rolling update; both define the resources.
SPECIFICATION FairSpec
CONSTANTS
    Processes = {p1, p2}
    Observed = {p1}
    Installers = {p1, p2}
    MaxFaults = 1
    MaxSignals = 1
INVARIANTS TypeOK
PROPERTIES OwnDefinitionsUndone AllWork
CHECK_DEADLOCK FALSE
