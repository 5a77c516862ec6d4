\* A workflow or a DaemonSetJob that a user edits while sync runs.
SPECIFICATION FairSpec
CONSTANTS
    Nil = Nil
    Templates <- MCTemplates
    MaxEdits = 1
    MaxFaults = 1
INVARIANTS TypeOK CacheUntouched TemplateKept
PROPERTIES DefaultsReachServer
CHECK_DEADLOCK FALSE
