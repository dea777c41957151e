-------------------------------- MODULE Registry --------------------------------
(***************************************************************************)
(* The identities everything else relies on: the singleton Config with its *)
(* authority and its two counters, the participants with their compact     *)
(* ids, the Balance accounts that copy such an id, and the channel buckets *)
(* that reserve a range of channel ids each.                               *)
(***************************************************************************)
EXTENDS Integers, FiniteSets

CONSTANTS
    Wallets,           \* keys that sign instructions
    UpgradeAuthority,  \* of the program's ProgramData account
    NoKey,             \* Pubkey::default()
    Buckets,           \* pre-created, zeroed bucket accounts
    Capacity,          \* CHANNEL_BUCKET_CAPACITY, 256
    ChainIds, Timelocks,
    Mainnet, MainnetTimelock, MinTimelock, MaxTimelock,
    MaxU64

ASSUME CapacityFits == Capacity \in Nat \ {0} /\ MaxU64 \in Nat \ {0}
ASSUME WalletsAreKeys == UpgradeAuthority \in Wallets /\ NoKey \notin Wallets

VARIABLES
    config,       \* the Config account
    nominatedBy,  \* who nominated pending_authority (history)
    participant,  \* Participant account of a wallet
    balanceId,    \* Balance.participant_id, of the one mint considered
    base,         \* base_channel_id of a bucket, 0 while zeroed
    payee,        \* payee of a bucket
    occupied      \* <<bucket, slot>> that hold a channel

vars == <<config, nominatedBy, participant, balanceId, base, payee, occupied>>

Missing == [exists |-> FALSE]
ConfigAccount ==
    [exists : {TRUE}, authority : Wallets, pending : Wallets \cup {NoKey}, chain : ChainIds,
     timelock : Timelocks, nextParticipant : 1 .. MaxU64, nextChannel : 1 .. MaxU64]
ParticipantAccount == [exists : {TRUE}, id : 1 .. MaxU64]
Slots == 0 .. Capacity - 1
Initialized == config.exists
Registered(w) == participant[w].exists

Init ==
    /\ config = Missing
    /\ nominatedBy = NoKey
    /\ participant = [w \in Wallets |-> Missing]
    /\ balanceId = [w \in Wallets |-> 0]
    /\ base = [b \in Buckets |-> 0]
    /\ payee = [b \in Buckets |-> NoKey]
    /\ occupied = {}

ValidChannelTimelock(chain, timelock) ==
    /\ timelock \in MinTimelock .. MaxTimelock
    /\ chain = Mainnet => timelock = MainnetTimelock

\* Once (the account must not exist), paid by the upgrade authority.
Initialize(signer, authority, chain, timelock) ==
    /\ ~Initialized
    /\ signer = UpgradeAuthority
    /\ chain <= Mainnet
    /\ ValidChannelTimelock(chain, timelock)
    /\ config' = [exists |-> TRUE, authority |-> authority, pending |-> NoKey,
                  chain |-> chain, timelock |-> timelock,
                  nextParticipant |-> 1, nextChannel |-> 1]
    /\ UNCHANGED <<nominatedBy, participant, balanceId, base, payee, occupied>>

\* Mutant of NominateAuthority: anyone may nominate.
NominateByAnyone(signer, new) ==
    /\ Initialized
    /\ config' = [config EXCEPT !.pending = new]
    /\ nominatedBy' = signer
    /\ UNCHANGED <<participant, balanceId, base, payee, occupied>>

\* Naming Pubkey::default() withdraws a nomination.
NominateAuthority(signer, new) ==
    /\ Initialized
    /\ signer = config.authority
    /\ config' = [config EXCEPT !.pending = new]
    /\ nominatedBy' = signer
    /\ UNCHANGED <<participant, balanceId, base, payee, occupied>>

AcceptConfigAuthority(signer) ==
    /\ Initialized
    /\ config.pending # NoKey
    /\ config.pending = signer
    /\ config' = [config EXCEPT !.authority = config.pending, !.pending = NoKey]
    /\ UNCHANGED <<nominatedBy, participant, balanceId, base, payee, occupied>>

\* The counters, advanced by checked_add.
Unchecked(n) == TRUE                                \* mutant of Fits
Fits(n) == n <= MaxU64
SameId(id) == id                                    \* mutant of AfterId
AfterId(id) == id + 1
ShortRange(first) == first + Capacity - 1           \* mutant of AfterRange
AfterRange(first) == first + Capacity

InitializeParticipant(w, authorizedSigner) ==
    /\ Initialized
    /\ ~Registered(w)
    /\ authorizedSigner # NoKey
    /\ Fits(AfterId(config.nextParticipant))
    /\ participant' = [participant EXCEPT ![w] =
         [exists |-> TRUE, id |-> config.nextParticipant]]
    /\ config' = [config EXCEPT !.nextParticipant = AfterId(@)]
    /\ UNCHANGED <<nominatedBy, balanceId, base, payee, occupied>>

OpenBalance(w) ==
    /\ Registered(w)
    /\ balanceId[w] = 0
    /\ balanceId' = [balanceId EXCEPT ![w] = participant[w].id]
    /\ UNCHANGED <<config, nominatedBy, participant, base, payee, occupied>>

InitializeChannelBucket(b, w) ==
    /\ base[b] = 0
    /\ Initialized
    /\ Registered(w) /\ balanceId[w] # 0
    /\ Fits(AfterRange(config.nextChannel))
    /\ base' = [base EXCEPT ![b] = config.nextChannel]
    /\ payee' = [payee EXCEPT ![b] = w]
    /\ config' = [config EXCEPT !.nextChannel = AfterRange(@)]
    /\ UNCHANGED <<nominatedBy, participant, balanceId, occupied>>

CreateChannel(b, slot, w) ==
    /\ base[b] # 0
    /\ Registered(w) /\ w # payee[b] /\ balanceId[w] # 0
    /\ <<b, slot>> \notin occupied
    /\ Fits(base[b] + slot)                      \* channel_id
    /\ occupied' = occupied \cup {<<b, slot>>}
    /\ UNCHANGED <<config, nominatedBy, participant, balanceId, base, payee>>

Next ==
    \/ \E s, w \in Wallets, chain \in ChainIds, t \in Timelocks : Initialize(s, w, chain, t)
    \/ \E s \in Wallets, new \in Wallets \cup {NoKey} : NominateAuthority(s, new)
    \/ \E s \in Wallets : AcceptConfigAuthority(s)
    \/ \E w \in Wallets : \E key \in {w, NoKey} : InitializeParticipant(w, key)
    \/ \E w \in Wallets : OpenBalance(w)
    \/ \E b \in Buckets, w \in Wallets : InitializeChannelBucket(b, w)
    \/ \E b \in Buckets, slot \in Slots, w \in Wallets : CreateChannel(b, slot, w)

Spec == Init /\ [][Next]_vars

-----------------------------------------------------------------------------

\* Ids and counters fit in u64 and start at one; the checked_adds of
\* initialize_participant and initialize_channel_bucket refuse the step past the end.
TypeOK ==
    /\ config \in {Missing} \cup ConfigAccount
    /\ nominatedBy \in Wallets \cup {NoKey}
    /\ participant \in [Wallets -> {Missing} \cup ParticipantAccount]
    /\ balanceId \in [Wallets -> 0 .. MaxU64]
    /\ base \in [Buckets -> 0 .. MaxU64]
    /\ payee \in [Buckets -> Wallets \cup {NoKey}]
    /\ occupied \subseteq Buckets \X Slots

\* ChannelBucket::slot_for_channel_id of bucket b, as the set of its answers.
SlotForChannelId(b, id) ==
    {slot \in Slots : base[b] # 0 /\ id >= base[b] /\ slot = id - base[b] /\ <<b, slot>> \in occupied}

\* A channel id, all that a signed commitment says of its channel, names one slot of
\* one bucket, up to the last ids that fit in u64; 0 names none.
ChannelIdNamesOneSlot ==
    /\ \A id \in 0 .. MaxU64 :
         Cardinality({c \in Buckets \X Slots : c[2] \in SlotForChannelId(c[1], id)}) <= 1
    /\ \A c \in occupied : SlotForChannelId(c[1], base[c[1]] + c[2]) = {c[2]}
    /\ \A b \in Buckets : SlotForChannelId(b, 0) = {}

\* The compact id inside a routed allocation names one Balance account of the mint: its
\* wallet's, and no other wallet has the id.
ParticipantIdNamesOneBalance ==
    \A w, v \in Wallets :
       balanceId[w] # 0 => /\ balanceId[w] = participant[w].id
                           /\ balanceId[v] = balanceId[w] => v = w

\* The authority changes only by a nomination of the authority in office that
\* the nominee accepts; an old nomination never outlives the one who made it.
HandoffOnlyByNominee ==
    [][Initialized /\ config'.authority # config.authority
         => /\ config'.authority = config.pending
            /\ nominatedBy = config.authority]_vars
=============================================================================
