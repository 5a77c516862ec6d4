SPECIFICATION Spec
CONSTANTS
    Steps <- ABSteps
    StepSeq <- ABSeq
    Deps <- ChainDeps
    ExternalSteps <- NoSteps
    LabelKeys <- MCKeys
    LabelValues <- MCValues
    TemplateLabels <- PlainTemplates
    UserSelector <- AppLabel
    WorkflowName <- MCName
    Deadline = Nil
    Submissions <- OnlyUndefaulted
    Nil = Nil
    MaxUID = 2
    MaxJobs = 3
    MaxFinished = 2
    MaxEdits = 0
    MaxFaults = 1
    MaxRestarts = 1
    MaxTime = 0
    MaxLag = 1
    MaxConds = 2
INVARIANTS TypeOK NoLostWakeup DependencyOrder StatusSound StatusClosed CopiesSound
PROPERTIES NoJobAfterCompletion CachedJobIsSeen StatusMonotone ImplementsExecution
