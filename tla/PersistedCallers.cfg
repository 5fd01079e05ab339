SPECIFICATION FairSpec
CONSTANTS
    Header = Header
    PartHeader = PartHeader
    Torn = Torn
    Zeros = Zeros
    NoIndex = NoIndex
    NoSnap = NoSnap
    Corrupt = Corrupt
    NoMut = NoMut
    Policy = "Periodic"
    Ids = {"a"}
    Cap = 1
    Odd = {"long"}
    Mutation <- MCMutation
    TooLong <- MCTooLong
    FitsDim <- MCFitsDim
    Index <- MCIndex
    Bases <- MCBases
    Accepts <- MCAccepts
    Apply <- MCApply
    Modes = {TRUE, FALSE}
    Events = {"mutate", "save", "checkpoint", "bypass", "reopen", "io", "drop", "kill", "power"}
    MaxLog = 3
    MaxFaults = 1
INVARIANTS
    InStep
PROPERTIES
    RecoveryKeepsAcked
    CallReturns
