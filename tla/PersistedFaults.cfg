SPECIFICATION Spec
CONSTANTS
    Header = Header
    PartHeader = PartHeader
    Torn = Torn
    Zeros = Zeros
    NoIndex = NoIndex
    NoSnap = NoSnap
    Corrupt = Corrupt
    NoMut = NoMut
    Policy = "Always"
    Ids = {"a", "b"}
    Cap = 2
    Odd = {"dimension", "long"}
    Mutation <- MCMutation
    TooLong <- MCTooLong
    FitsDim <- MCFitsDim
    Index <- MCIndex
    Bases <- MCBases
    Accepts <- MCAccepts
    Apply <- MCApply
    Modes = {TRUE}
    Events = {"mutate", "checkpoint", "io", "drop", "kill", "power"}
    MaxLog = 4
    MaxFaults = 2
INVARIANTS
    TypeOK
    LoggedBeforeApplied
    InStep
    PowerLossKeepsAcked
PROPERTIES
    RecoveryKeepsAcked
    RestartRestores
