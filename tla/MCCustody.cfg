\* A bucket that may be opened in either of two mints, and three participants, so that
\* a routed payout can reach someone who is neither payer nor payee and a slot may be
\* wanted by a second payer.
SPECIFICATION Spec
CONSTANTS
    Participants = {alice, bob, carol}
    Mints = {usd, eur}
    Buckets = {b1}
    Slots = {0}
    NoOne = NoOne
    Unopened = Unopened
    MaxU64 = 2
    Supply = 1
    Timelock = 1
    MaxTime = 1
SYMMETRY Interchangeable
INVARIANTS TypeOK Solvency NothingOutsideAccounts FundsNeverFrozen
PROPERTY ChannelIdentityPermanent
