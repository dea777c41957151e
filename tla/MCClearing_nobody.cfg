\* clearing/mod.rs:471 says staging refuses what could verify but never settle; it
\* accepts a route to an id that no participant has.
SPECIFICATION CSpec
CONSTANTS
    agent = agent  gateway = gateway  provider = provider  other = other  nobody = nobody
    usd = usd  b1 = b1
    Participants = {agent, gateway}
    Mints = {usd}
    Buckets = {b1}
    Slots = {0}
    NoOne = NoOne
    Unopened = Unopened
    MaxU64 = 2
    Supply = 2
    Timelock = 1
    MaxTime = 0
    Stagings = {s1}
    BatchSize = 1
    Commitments <- RouteToNobody
    Offsets = {1}
    MaxInstances = 1
    Layout <- RoutedLayout
    Payers <- AgentPays
    Funding <- AgentFunded
    Collateral <- Unlocked
    DepositsOpen = {usd}
    Absent = {}
    Unassigned = {nobody}
INVARIANT VerifiedCanSettle
