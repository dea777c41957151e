----------------------------- MODULE StagingLayout -----------------------------
(***************************************************************************)
(* The slots of a staging buffer.  stage_records lays the fields of a      *)
(* record out in columns; seal_and_queue pads the batch and hands column   *)
(* ranges to the circuit, which rebuilds every signed message from them;   *)
(* settle_channels reads the same columns again to pay.  Clearing takes    *)
(* the buffer for an array of whole records: this module says why it may.  *)
(* One record of an instruction is one step, as in Clearing; what the      *)
(* instruction checks against the channel's bucket is there.               *)
(***************************************************************************)
EXTENDS Commitment

CONSTANTS
    NUni, NRoute,   \* commitments per batch
    Records,        \* what relayers stage
    BucketAddress,  \* slot-sized address of the bucket of each channel
    RegisteredKey,  \* key of the payer of each channel
    GatewayKey,     \* key of the one gateway
    Genuine         \* signatures really made: key, message, signature

BatchSize(kind) == IF kind = RouteKind THEN NRoute ELSE NUni
UniSlots == 7 * NUni
RouteSlots == (2 + MaxAllocations + 2 * SigSlots + KeySlots + 1) * NRoute + KeySlots
MaxSlots == IF UniSlots > RouteSlots THEN UniSlots ELSE RouteSlots
SlotNumbers == 0 .. MaxSlots - 1

ASSUME LayoutSizes ==
    /\ NUni \in Nat \ {0} /\ NRoute \in Nat \ {0}
ASSUME StagedBytes ==
    /\ Records \subseteq RecordType /\ \A r \in Records : r.com.channel \in DOMAIN RegisteredKey
    /\ \A c \in DOMAIN RegisteredKey : RegisteredKey[c] \in KeyType
    /\ GatewayKey \in KeyType
    /\ Genuine \subseteq [key : KeyType, com : MessageType, sig : SignatureType]

VARIABLES
    kind, sealed, count, mask, slots,  \* StagingBuffer
    given                              \* the record staged last at each index (history)

layoutVars == <<kind, sealed, count, mask, slots, given>>

-----------------------------------------------------------------------------
(* Columns: where each begins, and how many slots a record has in it.      *)

UniNames == {"ids", "sig", "key", "bucket"}
RouteNames == {"sourceBase", "targetCount", "allocations", "sigAgent", "sigGateway",
               "keyAgent", "sourceBucket"}
Names(k) == IF k = RouteKind THEN RouteNames ELSE UniNames

Width(name) ==
    CASE name \in {"sig", "sigAgent", "sigGateway"} -> SigSlots
      [] name \in {"key", "keyAgent"} -> KeySlots
      [] name = "allocations" -> MaxAllocations
      [] OTHER -> 1

\* Slots per record in the columns before this one.
Before(name) ==
    CASE name \in {"ids", "sourceBase"} -> 0
      [] name \in {"sig", "targetCount"} -> 1
      [] name = "key" -> 4
      [] name = "bucket" -> 6
      [] name = "allocations" -> 2
      [] name = "sigAgent" -> 2 + MaxAllocations
      [] name = "sigGateway" -> 2 + MaxAllocations + SigSlots
      [] name = "keyAgent" -> 2 + MaxAllocations + 2 * SigSlots
      [] name = "sourceBucket" -> 2 + MaxAllocations + 2 * SigSlots + KeySlots

Crowded(k, name) ==                                 \* mutant of Column
    IF name = "keyAgent" THEN Before(name) * BatchSize(k) - 1 ELSE Before(name) * BatchSize(k)
Column(k, name) == Before(name) * BatchSize(k)
GatewayKeyAt == RouteSlots - KeySlots

\* Slot of part `part` of record i in a column; whether slot p is such a slot.
Position(k, name, i, part) == Column(k, name) + Width(name) * i + part
Within(k, name, i, p) == p - Position(k, name, i, 0) \in 0 .. Width(name) - 1

-----------------------------------------------------------------------------
(* What stage_records writes for one record.                               *)

UniImage(r) ==
    [ids    |-> <<U128Slot(PackPair(r.com.channel, r.com.target))>>,
     sig    |-> PackBytes(r.sigs[1], SigSlots),
     key    |-> PackBytes(RegisteredKey[r.com.channel], KeySlots),
     bucket |-> <<BucketAddress[r.com.channel]>>]

RouteImage(r) ==
    LET m == r.com
        padded == Padded(m.allocations)
    IN  [sourceBase   |-> <<U128Slot(PackPair(m.channel, m.base))>>,
         targetCount  |-> <<U128Slot(PackPair(m.target, Len(m.allocations)))>>,
         allocations  |-> [a \in 1 .. MaxAllocations |->
                             U128Slot(PackPair(padded[a].id, padded[a].amount))],
         sigAgent     |-> PackBytes(r.sigs[1], SigSlots),
         sigGateway   |-> PackBytes(r.sigs[2], SigSlots),
         keyAgent     |-> PackBytes(RegisteredKey[m.channel], KeySlots),
         sourceBucket |-> <<BucketAddress[m.channel]>>]

Image(r) == IF r.com.kind = RouteKind THEN RouteImage(r) ELSE UniImage(r)

\* The slots of index i, then those of the batch's gateway key, are written.
Written(k, i, r) ==
    [p \in SlotNumbers |->
        IF \E name \in Names(k) : Within(k, name, i, p)
        THEN LET name == CHOOSE n \in Names(k) : Within(k, n, i, p)
             IN  Image(r)[name][p - Position(k, name, i, 0) + 1]
        ELSE IF k = RouteKind /\ p - GatewayKeyAt \in 0 .. KeySlots - 1
        THEN PackBytes(GatewayKey, KeySlots)[p - GatewayKeyAt + 1]
        ELSE slots[p]]

Zeroed == [p \in SlotNumbers |-> ZeroSlot]

\* open_staging, reset_staging
LInit ==
    /\ kind \in Kinds
    /\ sealed = FALSE /\ count = 0 /\ mask = {}
    /\ slots = Zeroed
    /\ given = <<>>

ResetStaging(k) ==
    /\ kind' = k
    /\ sealed' = FALSE /\ count' = 0 /\ mask' = {}
    /\ slots' = Zeroed
    /\ given' = <<>>

StageRecord(i, r) ==
    /\ ~sealed
    /\ i < BatchSize(kind)
    /\ r.com.kind = kind
    /\ slots' = Written(kind, i, r)
    /\ mask' = mask \cup {i}
    /\ given' = [j \in mask' |-> IF j = i THEN r ELSE given[j]]
    /\ UNCHANGED <<kind, sealed, count>>

Complete(n) == n \in 1 .. BatchSize(kind) /\ 0 .. n - 1 \subseteq mask

\* record_columns
RecordColumns(k) == Names(k)

\* copy_record of record 0 over every index from n on.
PaddedFrom(n) ==
    LET Copied(name, p) == \E i \in n .. BatchSize(kind) - 1 : Within(kind, name, i, p)
    IN  [p \in SlotNumbers |->
           IF \E name \in RecordColumns(kind) : Copied(name, p)
           THEN LET name == CHOOSE c \in RecordColumns(kind) : Copied(c, p)
                    i == CHOOSE j \in n .. BatchSize(kind) - 1 : Within(kind, name, j, p)
                IN  slots[p - Width(name) * i]
           ELSE slots[p]]

SealAndQueue(n) ==
    /\ ~sealed
    /\ Complete(n)
    /\ sealed' = TRUE /\ count' = n
    /\ slots' = PaddedFrom(n)
    /\ UNCHANGED <<kind, mask, given>>

LNext ==
    \/ \E k \in Kinds : ResetStaging(k)
    \/ \E i \in 0 .. BatchSize(kind) - 1, r \in Records : StageRecord(i, r)
    \/ \E n \in 0 .. BatchSize(kind) : SealAndQueue(n)

LSpec == LInit /\ [][LNext]_layoutVars

-----------------------------------------------------------------------------
(* The circuits (encrypted-ixs): parameters are ranges of the account, in  *)
(* declaration order after the domain.                                     *)

SignaturesSwapped(k) ==                             \* mutant of Arguments
    IF k = Unilateral THEN <<"ids", "key", "sig">>
    ELSE <<"sourceBase", "targetCount", "allocations", "keyAgent", "gatewayKey", "sigGateway", "sigAgent">>
Arguments(k) ==
    IF k = Unilateral THEN <<"ids", "key", "sig">>
    ELSE <<"sourceBase", "targetCount", "allocations", "keyAgent", "gatewayKey", "sigAgent", "sigGateway">>

\* `width` slots at position i of the n-th parameter.
Parameter(n, i, width) ==
    LET name == Arguments(kind)[n]
        from == IF name = "gatewayKey" THEN GatewayKeyAt ELSE Column(kind, name)
    IN  [s \in 1 .. width |-> slots[from + width * i + s - 1]]

Body16(slot) == SubSeq(slot, 1, 2 * WordBytes)
\* u128_to_le_bytes of each argument, one behind the other.
Preimage(arguments) ==
    Tag \o LE(LEValue(Domain), DomainBytes) \o <<kind, Version>>
      \o FlattenSeq([n \in DOMAIN arguments |-> Body16(arguments[n])])

\* ArcisEd25519 is external: a signature verifies when it was made over that digest.
Verify(key, preimage, sig) ==
    \E g \in Genuine : g.key = key /\ g.sig = sig /\ Tag \o Encode(Domain, g.com) = preimage

UniBit(i) ==
    Verify(UnpackBytes(Parameter(2, i, KeySlots), KeyBytes),
           Preimage(Parameter(1, i, 1)),
           UnpackBytes(Parameter(3, i, SigSlots), SigBytes))

RouteBit(i) ==
    LET preimage == Preimage(Parameter(1, i, 1) \o Parameter(2, i, 1)
                               \o Parameter(3, i, MaxAllocations))
    IN  /\ Verify(UnpackBytes(Parameter(4, i, KeySlots), KeyBytes), preimage,
                  UnpackBytes(Parameter(6, i, SigSlots), SigBytes))
        /\ Verify(UnpackBytes(Parameter(5, 0, KeySlots), KeyBytes), preimage,
                  UnpackBytes(Parameter(7, i, SigSlots), SigBytes))

CircuitBit(i) == IF kind = RouteKind THEN RouteBit(i) ELSE UniBit(i)

-----------------------------------------------------------------------------
(* settle_channels: the commitment and the bucket it reads at an index.    *)

Staged(name, i) == slots[Column(kind, name) + i]
PairAt(name, i) == UnpackPair(StagedU128(Staged(name, i)))

SettledCommitment(i) ==
    IF kind = Unilateral
    THEN [kind |-> kind, channel |-> PairAt("ids", i)[1], target |-> PairAt("ids", i)[2]]
    ELSE [kind |-> kind, channel |-> PairAt("sourceBase", i)[1], base |-> PairAt("sourceBase", i)[2],
          target |-> PairAt("targetCount", i)[1],
          allocations |-> [a \in 1 .. PairAt("targetCount", i)[2] |->
             LET pair == PairAt("allocations", i * MaxAllocations + a - 1)
             IN  [id |-> pair[1], amount |-> pair[2]]]]
SettledBucket(i) == Staged(IF kind = Unilateral THEN "bucket" ELSE "sourceBucket", i)

-----------------------------------------------------------------------------
(* Properties.                                                             *)

\* The record index i holds: its own, or record 0 where the sealed batch is padded.
RecordAt(i) == IF sealed /\ i >= count THEN given[0] ELSE given[i]
Filled == IF sealed THEN 0 .. BatchSize(kind) - 1 ELSE mask

\* Staging a record, in any order and over earlier ones, leaves every other record and
\* the gateway's key whole, and padding copies whole records: columns never overlap.
RecordsWhole ==
    /\ \A i \in Filled, name \in Names(kind) : \A part \in 0 .. Width(name) - 1 :
          slots[Position(kind, name, i, part)] = Image(RecordAt(i))[name][part + 1]
    /\ kind = RouteKind /\ Filled # {} =>
          \A part \in 0 .. KeySlots - 1 :
             slots[GatewayKeyAt + part] = PackBytes(GatewayKey, KeySlots)[part + 1]

SignedBy(r, key, n) ==
    \E g \in Genuine : g.key = key /\ g.com = r.com /\ g.sig = r.sigs[n]
SignedRecord(r) ==
    /\ SignedBy(r, RegisteredKey[r.com.channel], 1)
    /\ r.com.kind = RouteKind => SignedBy(r, GatewayKey, 2)

\* What the circuit verifies is what settlement pays: the bit of a staged index says
\* that its registered signers signed, in this deployment's domain, exactly the
\* commitment and the channel that settle_channels will read at that index.
VerifiedIsSettled ==
    sealed =>
       \A i \in 0 .. count - 1 :
          /\ SettledCommitment(i) = given[i].com
          /\ SettledBucket(i) = BucketAddress[given[i].com.channel]
          /\ CircuitBit(i) = SignedRecord(given[i])
=============================================================================
