CONSTANTS
    east = east
    west = west
    r1 = r1
    r2 = r2
    none = none
    NoRun = none
    Rooms <- TwoRooms
    Runs = {r1, r2}
    RoomOf <- Apart
    Kinds = {"steer"}
    Capacity = 2
    Bandwidth = 1
    Patience = 1
    MaxSends = 2
    MaxCrashes = 1
    PostFails = {"wait_started", "consumed"}
SPECIFICATION FairSpec
INVARIANTS PlacedOnce OrderKept WaitsPair
PROPERTIES TimeoutIsSilence WaitEnds
