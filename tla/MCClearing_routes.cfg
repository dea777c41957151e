\* A routed channel and one buffer of two records: two routes that conflict, settled
\* together in either order or one by one, and in two batches, with collateral locked
\* and released by both sides in between.  Deposits are paused; the payer has what it
\* needs, and withdrawals go on.
SPECIFICATION CSpec
CONSTANTS
    agent = agent  gateway = gateway  provider = provider  other = other  nobody = nobody
    usd = usd  b1 = b1
    Participants = {agent, gateway, provider}
    Mints = {usd}
    Buckets = {b1}
    Slots = {0}
    NoOne = NoOne
    Unopened = Unopened
    MaxU64 = 2
    Supply = 2
    Timelock = 1
    MaxTime = 0
    Stagings = {s1}
    BatchSize = 2
    Commitments <- ConflictingRoutes
    Offsets = {1}
    MaxInstances = 2
    Layout <- RoutedLayout
    Payers <- AgentPays
    Funding <- AgentFunded
    Collateral <- Unlocked
    DepositsOpen = {}
    Absent = {}
    Unassigned = {}
INVARIANTS VerdictMatchesBatch UnitsPaidOnceAsSigned VerifiedStaysSettleable
PROPERTY ImplementsCustody
