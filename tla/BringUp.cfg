\* The clocks of the firmware and others, whatever PLLs and switches are left
\* on.  The bring-up ends: there is no step after it.
CONSTANTS
    XoscHz = 120
    RefMin = 50
    VcoMin = 7500
    VcoMax = 16000
    Values = 42949
    Calls <- MCCalls
    LeftParams <- MCLeftParams
    LeftAuxes <- AuxesAtReset
SPECIFICATION Spec
INVARIANTS TypeOK CpuClocked PllsWithinLimits ClocksAsPlanned VcoReached PanicsIfLeft
PROPERTIES NoGlitch ClocksComeUp
CHECK_DEADLOCK FALSE
