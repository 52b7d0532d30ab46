\* A host that sends its next SETUP before the device has finished
CONSTANTS
    Packets <- BackToBackPackets
    Endpoints <- MCEndpoints
    ConfigDescSize <- MCConfigDescSize
    Garbage <- MCGarbage
    FlagValues = 4
    Patient = FALSE
    MayAbort = FALSE
SPECIFICATION ESpec
INVARIANT NextPidIsOne
\* After that the transfer may be stuck.
CHECK_DEADLOCK FALSE
