\* The interrupts of the firmware and alarm 2, in every order of priority
CONSTANTS
    Irqs = {1, 2, 14}
    Levels = 2
    Priorities <- AllPriorities
    MainSteps = 2
SPECIFICATION Spec
INVARIANTS TypeOK ContextRestored PreemptedByHigher MainInterruptible
PROPERTIES MostUrgentServed MainResumed ServiceSpec
