CONSTANTS
    Keys = {k1, k2}
    QueueCapacity = 2
    Window = 2
    MaxClock = 4
SPECIFICATION QueueSpec
INVARIANT RememberedForWindow
