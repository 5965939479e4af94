SPECIFICATION FairSpec
CONSTANTS
    r1 = r1
    r2 = r2
    r3 = r3
    m1 = m1
    m2 = m2
    NoRun = NoRun
    Runs = {r1, r2, r3}
    Rooms = {m1, m2}
    RoomOf <- OneRoom
    Heirs = {r3}
    Scripts <- AllVerbs
    Events = {"QuitDrain", "QuitInterrupt"}
    MaxAsks = 1
    MaxBatch = 1
    MaxEvents = 2
    MaxFaults = 1
    Faults = {"ledger", "land", "thread", "stage", "handoff"}
INVARIANTS RefsAreOwn NothingWaitsIdle LoansComeBack DrainedFirst
PROPERTIES CommandIsTaken CloseEnds
CHECK_DEADLOCK FALSE
