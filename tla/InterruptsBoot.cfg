CONSTANTS
    Irqs = {0, 1, 8}
    Wait = 2
    PerSecond = 2
    TickMod = 4
SPECIFICATION Spec
INVARIANTS TypeOK NoStuckInService HandledOnceIdtLoaded SleptEnough
PROPERTIES SleepReturns Serviced
CHECK_DEADLOCK FALSE
