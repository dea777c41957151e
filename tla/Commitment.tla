------------------------------ MODULE Commitment ------------------------------
(***************************************************************************)
(* The bytes of a commitment: the canonical message that is signed         *)
(* (commitment.rs, and its mirror commitment-client.ts), the compact       *)
(* records of stage_records, and the packing of keys and signatures into   *)
(* slots.  A digest is stood for by its preimage: SHA3-256 is taken to be  *)
(* injective, and nothing else is.                                         *)
(***************************************************************************)
EXTENDS RoutePayout, FiniteSetsExt, SequencesExt

CONSTANTS
    Base,            \* values of a byte: 256
    WordBytes,       \* bytes of a u64: 8; a u128 and the message domain have twice as many
    MaxAllocations,  \* MAX_ROUTE_ALLOCATIONS: 16
    BytesPerSlot,    \* bytes packed into a slot: 26
    SlotBytes,       \* SLOT: 32
    KeyBytes,        \* of a public key: 32
    SigBytes,        \* of a signature: 64
    Tag,             \* COMMITMENT_DIGEST_TAG
    Domain           \* Config.message_domain

KeySlots == 2
SigSlots == 3

ASSUME ByteSizes ==
    /\ Base \in Nat \ (0 .. 2) /\ WordBytes \in Nat \ {0} /\ SlotBytes \in Nat
    /\ MaxAllocations \in 1 .. MaxRouteAllocations /\ MaxAllocations < Base
    /\ BytesPerSlot \in 1 .. SlotBytes /\ 2 * WordBytes <= SlotBytes
    /\ KeyBytes \in BytesPerSlot + 1 .. KeySlots * BytesPerSlot
    /\ SigBytes \in 2 * BytesPerSlot + 1 .. SigSlots * BytesPerSlot

Unilateral == 1
RouteKind == 2
Kinds == {Unilateral, RouteKind}
Version == 1
DomainBytes == 2 * WordBytes

\* What a 1 in byte d of a number is worth, bytes counted from 0.
Powers[d \in 0 .. 2 * WordBytes] == IF d = 0 THEN 1 ELSE Base * Powers[d - 1]
MaxWord == Powers[WordBytes] - 1

-----------------------------------------------------------------------------
(* Little-endian numbers.                                                  *)

LE(v, n) == [d \in 1 .. n |-> (v \div Powers[d - 1]) % Base]
LEValue(bytes) ==
    RunningTotal(0, [d \in 1 .. Len(bytes) |-> bytes[d] * Powers[d - 1]])[Len(bytes)]

Words(numbers) == FlattenSeq([j \in DOMAIN numbers |-> LE(numbers[j], WordBytes)])
\* The n-th word, from 0, of the bytes after the first `from`.
WordAt(bytes, from, n) ==
    LEValue(SubSeq(bytes, from + n * WordBytes + 1, from + (n + 1) * WordBytes))

PackPair(lo, hi) == lo + hi * (MaxWord + 1)
UnpackPair(v) == <<v % (MaxWord + 1), v \div (MaxWord + 1)>>

\* What fits the fields of a message and its record.
Byte == 0 .. Base - 1
Word == 0 .. MaxWord
KeyType == [1 .. KeyBytes -> Byte]
SignatureType == [1 .. SigBytes -> Byte]
AllocationsType == UNION {[1 .. n -> [id : Word, amount : Word]] : n \in 0 .. MaxAllocations}
MessageType == [kind : {Unilateral}, channel : Word, target : Word]
             \cup [kind : {RouteKind}, channel : Word, base : Word, target : Word,
                   allocations : AllocationsType]
RecordType == {r \in [com : MessageType, sigs : Seq(SignatureType)] :
             Len(r.sigs) = IF r.com.kind = RouteKind THEN 2 ELSE 1}

ASSUME SharedBytes == Tag \in Seq(Byte) /\ Domain \in [1 .. DomainBytes -> Byte]

-----------------------------------------------------------------------------
(* The canonical message.                                                  *)

NoAllocation == [id |-> 0, amount |-> 0]
Padded(allocations) ==
    [a \in 1 .. MaxAllocations |->
        IF a <= Len(allocations) THEN allocations[a] ELSE NoAllocation]
AllocationWords(allocations) ==
    FlattenSeq([a \in DOMAIN allocations |-> <<allocations[a].id, allocations[a].amount>>])

BodyWords(m) ==
    IF m.kind = Unilateral
    THEN <<m.channel, m.target>>
    ELSE <<m.channel, m.base, m.target, Len(m.allocations)>>
           \o AllocationWords(Padded(m.allocations))

\* domain | kind | version | body
Encode(domain, m) == domain \o <<m.kind, Version>> \o Words(BodyWords(m))

BodyAt == DomainBytes + 2
MessageLen(kind) ==
    BodyAt + WordBytes * (IF kind = Unilateral THEN 2 ELSE 4 + 2 * MaxAllocations)
IsMessage(bytes, kind) ==
    /\ Len(bytes) = MessageLen(kind)
    /\ bytes[DomainBytes + 1] = kind
    /\ bytes[DomainBytes + 2] = Version

\* UnilateralCommitment, and RouteCommitment with the allocations of its fixed array.
UnilateralOf(bytes) ==
    [kind |-> Unilateral, channel |-> WordAt(bytes, BodyAt, 0), target |-> WordAt(bytes, BodyAt, 1)]
RouteOfBytes(bytes) ==
    [kind |-> RouteKind, channel |-> WordAt(bytes, BodyAt, 0), base |-> WordAt(bytes, BodyAt, 1),
     target |-> WordAt(bytes, BodyAt, 2),
     allocations |-> [a \in 1 .. MaxAllocations |->
                        [id |-> WordAt(bytes, BodyAt, 2 * a + 2),
                         amount |-> WordAt(bytes, BodyAt, 2 * a + 3)]]]
FirstOf(route, count) == [route EXCEPT !.allocations = SubSeq(@, 1, count)]

WrappedSum(route) ==                                \* mutant of SumAccepted
    (PieceEnd(route)[Len(route.allocations)] - route.base) % (MaxWord + 1) <= Increase(route)
\* checked_add of the amounts, then their comparison with the increase.
SumAccepted(route) ==
    LET total == PieceEnd(route)[Len(route.allocations)] - route.base
    IN  total <= MaxWord /\ total <= Increase(route)

\* RouteCommitment::validate, on the fixed array.
ValidateArray(route, count) ==
    LET active == FirstOf(route, count)
        used == 1 .. count
    IN  /\ count \in 1 .. MaxAllocations
        /\ route.base < route.target
        /\ \A a \in used : route.allocations[a].id # 0 /\ route.allocations[a].amount > 0
        /\ \A a, b \in used : a < b => route.allocations[a].id # route.allocations[b].id
        /\ \A a \in 1 .. MaxAllocations \ used : route.allocations[a] = NoAllocation
        /\ SumAccepted(active)

CountByteFits(word) == word % Base <= MaxAllocations   \* mutant of CountFits
CountFits(word) == word <= MaxAllocations

\* commitment.rs decode(): no message, or the one the bytes stand for.
Decode(bytes) ==
    IF IsMessage(bytes, Unilateral) THEN {UnilateralOf(bytes)}
    ELSE IF ~IsMessage(bytes, RouteKind) THEN {}
    ELSE LET word == WordAt(bytes, BodyAt, 3)
             count == word % Base                   \* as u8
             route == RouteOfBytes(bytes)
         IN  IF CountFits(word) /\ ValidateArray(route, count) THEN {FirstOf(route, count)} ELSE {}

\* commitment-client.ts decodeCommitment() and validateRoute(), in unbounded integers.
ClientDecode(bytes) ==
    IF IsMessage(bytes, Unilateral) THEN {UnilateralOf(bytes)}
    ELSE IF ~IsMessage(bytes, RouteKind) THEN {}
    ELSE LET count == WordAt(bytes, BodyAt, 3)
             route == RouteOfBytes(bytes)
         IN  IF /\ count \in 1 .. MaxAllocations
                /\ \A a \in count + 1 .. MaxAllocations : route.allocations[a] = NoAllocation
                /\ Validate(FirstOf(route, count))
             THEN {FirstOf(route, count)} ELSE {}

-----------------------------------------------------------------------------
(* The compact records of stage_records: a commitment and its signatures.  *)

RecordBytes(r) ==
    LET m == r.com
    IN  IF m.kind = Unilateral
        THEN Words(<<m.channel, m.target>>) \o r.sigs[1]
        ELSE Words(<<m.channel, m.base, m.target>>) \o <<Len(m.allocations)>>
               \o Words(AllocationWords(m.allocations)) \o r.sigs[1] \o r.sigs[2]

UnilateralRecordLen == 2 * WordBytes + SigBytes
CountInTarget == 3 * WordBytes                      \* mutant of CountAt
CountAt == 3 * WordBytes + 1
RouteRecordLen(count) == CountAt + 2 * SigBytes + count * 2 * WordBytes

SigAt(data, at) == SubSeq(data, at + 1, at + SigBytes)
UnilateralRecordAt(data, at) ==
    [com |-> [kind |-> Unilateral, channel |-> WordAt(data, at, 0), target |-> WordAt(data, at, 1)],
     sigs |-> <<SigAt(data, at + 2 * WordBytes)>>]
RouteRecordAt(data, at) ==
    LET count == data[at + CountAt]
        signatures == at + CountAt + count * 2 * WordBytes
    IN  [com |-> [kind |-> RouteKind, channel |-> WordAt(data, at, 0), base |-> WordAt(data, at, 1),
                  target |-> WordAt(data, at, 2),
                  allocations |-> [a \in 1 .. count |->
                                     [id |-> WordAt(data, at + CountAt, 2 * a - 2),
                                      amount |-> WordAt(data, at + CountAt, 2 * a - 1)]]],
         sigs |-> <<SigAt(data, signatures), SigAt(data, signatures + SigBytes)>>]

\* Whether a record fits at this offset.
HasRecord(data, at) ==
    /\ Len(data) - at >= RouteRecordLen(0)
    /\ data[at + CountAt] \in 1 .. MaxAllocations
    /\ at + RouteRecordLen(data[at + CountAt]) <= Len(data)

\* The records of an instruction's data: no sequence of them, or the only one.
UnilateralRecords(data) ==
    IF data # <<>> /\ Len(data) % UnilateralRecordLen = 0
    THEN {[r \in 1 .. Len(data) \div UnilateralRecordLen |->
             UnilateralRecordAt(data, (r - 1) * UnilateralRecordLen)]}
    ELSE {}
RouteRecords(data) ==
    LET records[at \in 0 .. Len(data)] ==
          IF at = Len(data) THEN {<<>>}
          ELSE IF ~HasRecord(data, at) THEN {}
          ELSE {<<RouteRecordAt(data, at)>> \o rest :
                  rest \in records[at + RouteRecordLen(data[at + CountAt])]}
    IN  IF data = <<>> THEN {} ELSE records[0]

-----------------------------------------------------------------------------
(* Slots.                                                                  *)

ZeroSlot == [b \in 1 .. SlotBytes |-> 0]
InSlot(bytes) == [b \in 1 .. SlotBytes |-> IF b <= Len(bytes) THEN bytes[b] ELSE 0]

\* u128_slot, staged_u128
U128Slot(v) == InSlot(LE(v, 2 * WordBytes))
StagedU128(slot) == LEValue(SubSeq(slot, 1, 2 * WordBytes))

\* pack_bytes_into_slots
PackBytes(bytes, slots) ==
    [s \in 1 .. slots |->
        InSlot(SubSeq(bytes, (s - 1) * BytesPerSlot + 1,
                      IF s * BytesPerSlot <= Len(bytes) THEN s * BytesPerSlot ELSE Len(bytes)))]
\* Pack<..>::unpack, which unpack_pubkey mirrors.
UnpackBytes(slots, n) ==
    [b \in 1 .. n |-> slots[1 + ((b - 1) \div BytesPerSlot)][1 + ((b - 1) % BytesPerSlot)]]
=============================================================================
