SPECIFICATION Spec
CONSTANTS
    Steps <- ABSteps
    StepSeq <- ABSeq
    Deps <- ChainDeps
    ExternalSteps <- NoSteps
    LabelKeys <- MCKeys
    LabelValues <- MCValues
    TemplateLabels <- PlainTemplates
    UserSelector <- AppLabel
    WorkflowName <- MCName
    Deadline = Nil
    Submissions <- OnlyGood
    Nil = Nil
    MaxUID = 1
    MaxJobs = 3
    MaxFinished = 3
    MaxEdits = 0
    MaxFaults = 0
    MaxRestarts = 1
    MaxTime = 0
    MaxLag = 1
    MaxConds = 2
PROPERTIES OnlyBadWorkflowsRemoved
CHECK_DEADLOCK FALSE
