CONSTANTS
    c1 = c1
    c2 = c2
    Commands = {c1, c2}
    MaxFailures = 2
    MaxUserCommits = 1
    MaxResolutions = 1
    MaxRetries = 1
    MaxFaults = 1
    FaultKinds = {"crash", "git", "readtree", "save"}
    EditsDuringSync = FALSE
    Total = 2
    Natures <- MCNatures
    Votes <- VotePairs
    SelFaultKinds = {"crash", "shutdown", "marker", "extract", "startup reset"}
    MaxSelFaults = 2
SPECIFICATION MCSpec
INVARIANTS
    PublishKeepsWork
    
    SelectionIsSound
