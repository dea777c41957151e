\* Three routes in two buckets, with as many accounts as an instruction takes or one more, or
\* three direct commitments of three channels and two mints, whose total may overflow: every
\* subset in every order, with collateral arriving.
SPECIFICATION PSpec
CONSTANTS
    agent = agent  gateway = gateway  provider = provider  other = other
    usd = usd  eur = eur  b1 = b1  b2 = b2  b3 = b3  b4 = b4
    Participants = {agent, gateway, provider, other}
    Mints = {usd, eur}
    Buckets = {b1, b2, b3, b4}
    Slots = {0, 1}
    NoOne = NoOne
    Unopened = Unopened
    MaxU64 = 6
    Supply = 6
    Timelock = 1
    MaxTime = 0
    Stagings = {1}
    BatchSize = 3
    Commitments <- AllRecords
    Offsets = {1}
    MaxInstances = 1
    Layout <- TwoOfEach
    Payers <- AgentPays
    Funding <- AgentHasTwo
    Collateral <- TwoInSome
    DepositsOpen = {usd, eur}
    Absent = {}
    Unassigned = {}
    Batches <- ThreeBatches
    MaxAccounts = 5
INVARIANT PlanNeverRefused
PROPERTY InstructionPaysRecords
CHECK_DEADLOCK FALSE
