SPECIFICATION Spec
CONSTANTS
    Nodes <- TwoNodes
    Pools <- PoolP
    Templates <- T1
    TemplateLabels <- MCTemplateLabels
    LabelKeys <- MCKeys
    LabelValues <- MCValues
    UserSelector <- AppLabel
    Specs <- OnlyUndefaulted
    InitialNodes <- OneInPool
    InitialJobs <- NoJob
    Name = "dsj"
    Namespace = "ns"
    Nil = Nil
    Outcomes = {"failed"}
    MaxUID = 1
    MaxJobs = 2
    MaxEdits = 0
    MaxNodeChanges = 1
    MaxFaults = 0
    MaxTime = 0
    MaxLag = 1
    MaxRestarts = 1
    MaxConds = 3
INVARIANTS TypeOK Reconciled StatusConsistent
CHECK_DEADLOCK FALSE
