CONSTANTS
    Requests = {r1}
    Models <- TwoModels
    Cheaper <- OneSubstitute
    Aliases <- OneAlias
    Prompts <- TwoPrompts
    Near <- AllNear
    Profiles <- ThrottledProfile
    Steps = {0}
    OptBudget = 2
    EmbedBudget = 1
    MaxRows = 1
SPECIFICATION Spec
INVARIANT ThrottleIsCheap
