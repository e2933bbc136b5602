CONSTANTS
    Requests = {r1, r2}
    Models <- TwoModels
    Cheaper <- OneSubstitute
    Aliases <- OneAlias
    Prompts <- TwoPrompts
    Near <- AllNear
    Profiles <- FourProfiles
    Steps = {0, 2}
    OptBudget = 1
    EmbedBudget = 1
    MaxRows = 1
SPECIFICATION Spec
SYMMETRY Symmetry
INVARIANTS TypeOK SharedDeadline ReplaysAreSound CallsAreLicensed EventsTellTheTruth
