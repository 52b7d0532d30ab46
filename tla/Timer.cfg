\* A short word, so that counter and target wrap; the last period does not fit
CONSTANTS
    WordSize = 12
    Periods = {3, 7, 11, 12, 15}
    Latency = 2
    Garbage = {0, 5}
SPECIFICATION Spec
INVARIANTS TypeOK NeverSilent PanicsTooFar
PROPERTIES AlarmOnTime Heartbeat
