SPECIFICATION FairSpec
CONSTANTS
    Configs <- MCConfigs
    MaxRedirectCount = 2
INVARIANTS OneAnswer FieldsRight
PROPERTY RequestEnds
