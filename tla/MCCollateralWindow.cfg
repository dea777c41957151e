\* One channel over three units of time and a timelock of two: a request can be
\* placed before, inside and after a window, and mature in each.
SPECIFICATION WSpec
CONSTANTS
    Participants = {alice, bob}
    Mints = {usd}
    Buckets = {b1}
    Slots = {0}
    NoOne = NoOne
    Unopened = Unopened
    MaxU64 = 3
    Supply = 2
    Timelock = 2
    MaxTime = 4
SYMMETRY Interchangeable
INVARIANTS CollateralHolds FreshCollateralStays FloorReserved
