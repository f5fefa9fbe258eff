\* No faults; the user has three seconds.
SPECIFICATION DrainSpec
CONSTANTS
    e1 = e1  e2 = e2  e3 = e3  a1 = a1  a2 = a2
    SecondAddress = a2
    ThirdEvent = "delivery"
    Events <- MCEvents
    EventKind <- MCEventKind
    Addresses <- MCAddresses
    AddressOf <- MCAddressOf
    BatchSize = 2
    MaxSecond = 3
    MaxDrainFaults = 0
INVARIANT UnreviewedStaysNew
CHECK_DEADLOCK FALSE
