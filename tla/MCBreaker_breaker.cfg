\* Two threads sharing a breaker; a tick is at least as long as the window.
CONSTANTS
    Threads = {a, b}
    OpenDuration = 1
    WindowDuration = 0
    MinSamples = 1
    RateNum = 1
    RateDen = 2
    HalfOpenMaxProbes = 1
    MaxWindowEntries = 2
    UsizeRange = 4
    MaxStall = 1
    AgeCap = 3
SPECIFICATION Spec
INVARIANTS
    TypeOK
    WindowCount
    SampleOrder
PROPERTIES
    EvictionLag
    Recovers
