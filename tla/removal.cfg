SPECIFICATION SystemFairSpec
CONSTANTS
    Steps <- ASteps
    StepSeq <- ASeq
    Deps <- ADeps
    ExternalSteps <- NoSteps
    LabelKeys <- MCKeys
    LabelValues <- MCValues
    TemplateLabels <- ATemplates
    UserSelector <- FullSelector
    WorkflowName <- MCName
    Deadline = Nil
    Submissions <- GoodOrInvalid
    Nil = Nil
    MaxUID = 1
    MaxJobs = 2
    MaxFinished = 0
    MaxEdits = 1
    MaxFaults = 1
    MaxRestarts = 0
    MaxTime = 0
    MaxLag = 1
    MaxConds = 2
PROPERTIES OnlyBadWorkflowsRemoved InvalidRemoved OrphansCollected
CHECK_DEADLOCK FALSE
