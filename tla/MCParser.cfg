SPECIFICATION PSpec
CONSTANTS
    Inputs <- MCInputs
    Files <- MCFiles
    Env <- MCEnv
    DirectiveList <- MCDirectives
    MaxWords = 4
    MaxInner = 2
    MaxRunes = 5
INVARIANTS TokensRight BlocksRight
 
