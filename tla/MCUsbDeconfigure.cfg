\* A patient host that takes the device out of its configuration
CONSTANTS
    Packets <- DeconfigurePackets
    Endpoints <- MCEndpoints
    ConfigDescSize <- MCConfigDescSize
    Garbage <- MCGarbage
    FlagValues = 4
    Patient = TRUE
    MayAbort = FALSE
SPECIFICATION ESpec
INVARIANT ConfigurationAccepted
\* The device stops when it panics.
CHECK_DEADLOCK FALSE
