\* A host that gives up transfers and resets the bus within them
CONSTANTS
    Packets <- AbortPackets
    Endpoints <- MCEndpoints
    ConfigDescSize <- MCConfigDescSize
    Garbage <- MCGarbage
    FlagValues = 4
    Patient = TRUE
    MayAbort = TRUE
SPECIFICATION ESpec
INVARIANTS ResetRecovers CodingsCounted
