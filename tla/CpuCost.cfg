CONSTANTS
    B = 4
    CycleMod = 16
    Budgets = {4}
    Targets = {10}
    Values = {3}
    Tracked = {"D", "Z"}
    MaxTurns = 5
    Ops = {"LDA", "BRANCH", "JMP"}
SPECIFICATION Spec
PROPERTY FetchCosts
CHECK_DEADLOCK FALSE
