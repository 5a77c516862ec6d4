SPECIFICATION FairSpec
CONSTANTS
    Steps <- ABSteps
    StepSeq <- ABSeq
    Deps <- NoDeps
    ExternalSteps <- StepB
    LabelKeys <- MCKeys
    LabelValues <- MCValues
    TemplateLabels <- PlainTemplates
    UserSelector <- AppLabel
    WorkflowName <- MCName
    Deadline = 1
    Submissions <- GoodOrInvalid
    Nil = Nil
    MaxUID = 1
    MaxJobs = 1
    MaxFinished = 1
    MaxEdits = 0
    MaxFaults = 1
    MaxRestarts = 0
    MaxTime = 2
    MaxLag = 1
    MaxConds = 2
PROPERTIES NoJobAfterDeadline EventuallyFinished FailedJobsStopped
CHECK_DEADLOCK FALSE
