SPECIFICATION SystemSpec
CONSTANTS
    Nodes <- OneNode
    Pools <- PoolP
    Templates <- T1
    TemplateLabels <- MCTemplateLabels
    LabelKeys <- MCKeys
    LabelValues <- MCValues
    UserSelector <- AppLabel
    Specs <- OnlyGood
    InitialNodes <- OneInPool
    InitialJobs <- JobElsewhere
    Name = "dsj"
    Namespace = "ns"
    Nil = Nil
    Outcomes = {}
    MaxUID = 2
    MaxJobs = 2
    MaxEdits = 0
    MaxNodeChanges = 0
    MaxFaults = 0
    MaxTime = 0
    MaxLag = 1
    MaxRestarts = 1
    MaxConds = 2
PROPERTIES CollectsMissedOnly
CHECK_DEADLOCK FALSE
