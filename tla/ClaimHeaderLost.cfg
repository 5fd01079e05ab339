SPECIFICATION Spec
CONSTANTS
    Header = Header
    PartHeader = PartHeader
    Torn = Torn
    Zeros = Zeros
    NoIndex = NoIndex
    NoSnap = NoSnap
    Corrupt = Corrupt
    NoMut = NoMut
    Policy = "Always"
    Ids = {"a"}
    Cap = 2
    Odd = {}
    Mutation <- MCMutation
    TooLong <- MCTooLong
    FitsDim <- MCFitsDim
    Index <- MCIndex
    Bases <- MCBases
    Accepts <- MCAccepts
    Apply <- MCApply
    Modes = {TRUE}
    Events = {"mutate", "kill"}
    MaxLog = 4
    MaxFaults = 1
INVARIANTS
    LogStartsWithHeader
