SPECIFICATION Spec
CONSTANTS
    Nodes <- OneNode
    Pools <- PoolP
    Templates <- T12
    TemplateLabels <- MCTemplateLabels
    LabelKeys <- MCKeys
    LabelValues <- MCValues
    UserSelector <- AppLabel
    Specs <- GoodChanges
    InitialNodes <- OneInPool
    InitialJobs <- NoJob
    Name = "dsj"
    Namespace = "ns"
    Nil = Nil
    Outcomes = {"succeeded", "failed"}
    MaxUID = 1
    MaxJobs = 1
    MaxEdits = 1
    MaxNodeChanges = 0
    MaxFaults = 0
    MaxTime = 0
    MaxLag = 1
    MaxRestarts = 0
    MaxConds = 2
PROPERTIES ActiveJobsAwaited
CHECK_DEADLOCK FALSE
