\* Three wallets, three buckets of two slots; u64 ends at 6, so the third range of
\* channel ids does not fit and must be refused.
SPECIFICATION Spec
CONSTANTS
    Wallets = {w1, w2, w3}
    UpgradeAuthority = w1
    NoKey = NoKey
    Buckets = {b1, b2, b3}
    Capacity = 2
    ChainIds = {2, 3, 4}
    Timelocks = {1, 7, 8}
    Mainnet = 3
    MainnetTimelock = 7
    MinTimelock = 1
    MaxTimelock = 7
    MaxU64 = 6
SYMMETRY Interchangeable
INVARIANTS TypeOK ChannelIdNamesOneSlot ParticipantIdNamesOneBalance
PROPERTY HandoffOnlyByNominee
