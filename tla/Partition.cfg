SPECIFICATION Spec
CONSTANTS
    MaxNodes = 1
    MaxSublings = 2
    MaxSize = 2
    MergeWhenSize = 1
    Configs <- MCConfigs
INVARIANTS
    NodesOrdered
    CutIsCheapest
    RunCompletes
    ReplayExact
    LoadIsSound
    OtherInputStopped
    TextOrderKept
