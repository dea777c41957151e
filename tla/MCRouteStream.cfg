\* Every validated commitment of up to three allocations to two ids or three in 0..4.
SPECIFICATION Spec
CONSTANTS
    MaxAmount = 4
    Providers = {0, 1, 2, 3}
    MaxPieces = 3
INVARIANTS TypeOK PaysOwnUnits NeverRefused NeverPastTarget
