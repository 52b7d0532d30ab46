\* Addresses, bus resets and unsupported requests under the most general host;
\* no property of this run looks at FLAG, which is left to MCUsbAborts
CONSTANTS
    Packets <- ControlPackets
    Endpoints <- MCEndpoints
    ConfigDescSize <- MCConfigDescSize
    Garbage <- MCGarbage
    FlagValues = 1
SPECIFICATION Spec
INVARIANTS TypeOK AddressRequested BufStatusBound PanicJustified
