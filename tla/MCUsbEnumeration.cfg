\* A patient host that lets every transfer end
CONSTANTS
    Packets <- EnumerationPackets
    Endpoints <- MCEndpoints
    ConfigDescSize <- MCConfigDescSize
    Garbage <- MCGarbage
    FlagValues = 4
    Patient = TRUE
    MayAbort = FALSE
SPECIFICATION ESpec
INVARIANTS HostTypeOK PidsAgree AddressAgreement
PROPERTIES BufferStableWhileArmed TransferSpec
