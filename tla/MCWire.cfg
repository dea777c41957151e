\* Bytes of three values, words of two: four messages and five instructions with up to
\* two alterations, one of them before it is staged; batches of three of both kinds.
SPECIFICATION WSpec
CONSTANTS
    Base = 3
    WordBytes = 2
    MaxAllocations = 2
    BytesPerSlot = 2
    SlotBytes = 4
    KeyBytes = 3
    SigBytes = 5
    Tag <- OneTag
    NUni = 3
    NRoute = 3
    Domain <- OurDomain
    Records <- SignedAndForged
    BucketAddress <- Addresses
    RegisteredKey <- Keys
    GatewayKey <- Gateways
    Genuine <- Made
    Messages <- SomeMessages
    Deliveries <- SomeDeliveries
    MaxEdits = 2
    MaxStagedEdits = 1
INVARIANTS OneEncodingPerMessage ClientAgrees RecordsReadBack RecordsWhole VerifiedIsSettled
CHECK_DEADLOCK FALSE
