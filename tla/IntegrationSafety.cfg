SPECIFICATION Spec
CONSTANTS
    NWorkers = 2
    MaxTasks = 1
    MaxCommits <- OneTwo
    Budgets <- Disturbed
INVARIANTS
    IntegrationIsWhole
    SoundPublishHasAllWork
