SPECIFICATION FairSpec
CONSTANTS
    Tick = {a, b}
    Requested = 3
    NoTick = NoTick
INVARIANTS TypeOK NoSlotRace LiveSlots FrontNeverNull CachesConservative
PROPERTIES RefinesFIFO HeadConsumed
