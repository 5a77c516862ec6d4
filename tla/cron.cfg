\* Two controllers and a CronWorkflow that users edit, delete and recreate.
SPECIFICATION FairSpec
CONSTANTS
    c1 = c1
    x1 = x1
    Nil = Nil
    CronWorkflows = {c1}
    Controllers = {r1, r2}
    Children = {x1}
    Submissions <- Often
    MissedLimit = 2
    MaxTime = 3
    MaxEdits = 1
    MaxFaults = 1
INVARIANTS TypeOK StartedOnce
PROPERTIES DueIsStarted ActiveListSettles
CHECK_DEADLOCK FALSE
