\* A patient host that also opens the serial port
CONSTANTS
    Packets <- SerialPackets
    Endpoints <- MCEndpoints
    ConfigDescSize <- MCConfigDescSize
    Garbage <- MCGarbage
    FlagValues = 4
    Patient = TRUE
    MayAbort = FALSE
SPECIFICATION ESpec
PROPERTY TransferSafety
\* The host may poll for ever for a buffer the device does not arm.
CHECK_DEADLOCK FALSE
