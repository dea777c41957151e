\* A verdict that arrives while settle-leftovers closes its buffer.
SPECIFICATION RSpec
CONSTANTS
    agent = agent  gateway = gateway  provider = provider  other = other
    usd = usd  b1 = b1
    Participants = {agent, gateway, provider, other}
    Mints = {usd}
    Buckets = {b1}
    Slots = {0, 1, 2}
    NoOne = NoOne
    Unopened = Unopened
    MaxU64 = 9
    Supply = 9
    Timelock = 1
    MaxTime = 0
    Stagings = {1, 2}
    BatchSize = 3
    Commitments <- TwoBatchesSet
    Offsets = {1, 2, 3, 4, 5, 6}
    MaxInstances = 6
    Layout <- RoutedLayout
    Payers <- AgentPays
    Funding <- NothingFree
    Collateral <- ThreeEach
    DepositsOpen = {usd}
    Absent = {}
    Unassigned = {}
    Records <- TwoBatches
    BatchKind = "routed"
    MaxFaults = 1
PROPERTY NoVerifiedRecordDropped
