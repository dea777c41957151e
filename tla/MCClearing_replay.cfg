\* A direct channel and two buffers of one record each: the same commitment goes
\* through both, two computations are under way together, buffers are reset, closed
\* and reopened around them, and offsets are used again, while the payer locks more
\* and unlocks with the payee, and what was paid out is deposited again.
SPECIFICATION CSpec
CONSTANTS
    agent = agent  gateway = gateway  provider = provider  other = other  nobody = nobody
    usd = usd  b1 = b1
    Participants = {agent, gateway}
    Mints = {usd}
    Buckets = {b1}
    Slots = {0}
    NoOne = NoOne
    Unopened = Unopened
    MaxU64 = 2
    Supply = 2
    Timelock = 1
    MaxTime = 0
    Stagings = {s1, s2}
    BatchSize = 1
    Commitments <- OneCommitment
    Offsets = {o1, o2}
    MaxInstances = 2
    Layout <- DirectLayout
    Payers <- AgentPays
    Funding <- AgentFunded
    Collateral <- Unlocked
    DepositsOpen = {usd}
    Absent = {}
    Unassigned = {}
SYMMETRY Interchangeable
INVARIANTS CTypeOK VerdictMatchesBatch UnitsPaidOnceAsSigned VerifiedStaysSettleable
PROPERTY ImplementsCustody
