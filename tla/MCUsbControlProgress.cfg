\* What the handler must eventually do, whatever the host goes on sending
CONSTANTS
    Packets <- ProgressPackets
    Endpoints <- MCEndpoints
    ConfigDescSize <- MCConfigDescSize
    Garbage = {0, 133}
    FlagValues = 2
SPECIFICATION Spec
PROPERTIES SetupServed CompletionServed ResetServed
