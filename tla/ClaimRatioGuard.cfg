SPECIFICATION Spec
CONSTANTS
    Base = 32
    W32 = 1
    W64 = 2
    UsizeMax = 511
    MaxRecordLen = 28
    MaxIndexTypeLen = 10
    MaxRatio = 3
    CodecLen <- MCCodecLen
    Bases <- MCFlatBases
    Records = {}
    Configs <- MCConfigs
    Policy = "Periodic"
    Interval = 2
    None = None
    MaxAppends = 0
    MaxRows = 2
    MaxTime = 2
    MaxZeros = 2
    AppendConfigs <- MCAppendConfigs
    LogConfigs <- MCLogConfigs
    DamageValues = {0, 1, 2, 31}
INVARIANT
    RatioGuardSparesSaved
