------------------------------ MODULE RegistryProofs ------------------------------
(***************************************************************************)
(* The ids inside signed messages mean one thing, and the authority moves  *)
(* only by an accepted nomination, for any number of accounts and any      *)
(* width of the counters.                                                  *)
(***************************************************************************)
EXTENDS Registry, FiniteSetTheorems, TLAPS

USE CapacityFits, WalletsAreKeys

\* Before initialize there are no accounts.
LEMMA TypeInit == Init => TypeOK
  BY DEF Init, TypeOK

\* Every instruction keeps the types; a counter that would leave u64 refuses it.
LEMMA TypeStep ==
  ASSUME TypeOK, [Next]_vars
  PROVE  TypeOK'
<1>1. ASSUME NEW s \in Wallets, NEW w \in Wallets, NEW chain \in ChainIds, NEW t \in Timelocks,
             Initialize(s, w, chain, t)
      PROVE  TypeOK'
  BY <1>1 DEF Initialize, TypeOK, ConfigAccount
<1>2. ASSUME NEW s \in Wallets, NEW new \in Wallets \cup {NoKey}, NominateAuthority(s, new)
      PROVE  TypeOK'
  <2>1. config \in ConfigAccount
    BY <1>2 DEF NominateAuthority, Initialized, TypeOK, Missing
  <2>2. config' \in ConfigAccount
    BY <1>2, <2>1 DEF NominateAuthority, ConfigAccount
  <2>3. QED
    BY <1>2, <2>2 DEF NominateAuthority, TypeOK
<1>3. ASSUME NEW s \in Wallets, AcceptConfigAuthority(s) PROVE TypeOK'
  <2>1. config \in ConfigAccount
    BY <1>3 DEF AcceptConfigAuthority, Initialized, TypeOK, Missing
  <2>2. config' \in ConfigAccount
    BY <1>3, <2>1 DEF AcceptConfigAuthority, ConfigAccount
  <2>3. QED
    BY <1>3, <2>2 DEF AcceptConfigAuthority, TypeOK
<1>4. ASSUME NEW w \in Wallets, NEW key \in {w, NoKey}, InitializeParticipant(w, key) PROVE TypeOK'
  <2>1. config \in ConfigAccount
    BY <1>4 DEF InitializeParticipant, Initialized, TypeOK, Missing
  <2>2. config' \in ConfigAccount
    <3>1. config.nextParticipant + 1 \in 1 .. MaxU64
      BY <1>4, <2>1 DEF InitializeParticipant, Fits, AfterId, ConfigAccount
    <3>2. config' = [config EXCEPT !.nextParticipant = config.nextParticipant + 1]
      BY <1>4 DEF InitializeParticipant, AfterId
    <3>3. QED
      BY <2>1, <3>1, <3>2 DEF ConfigAccount
  <2>3. participant' \in [Wallets -> {Missing} \cup ParticipantAccount]
    BY <1>4, <2>1 DEF InitializeParticipant, TypeOK, ConfigAccount, ParticipantAccount
  <2>4. QED
    BY <1>4, <2>2, <2>3 DEF InitializeParticipant, TypeOK
<1>5. ASSUME NEW w \in Wallets, OpenBalance(w) PROVE TypeOK'
  <2>1. participant[w] \in ParticipantAccount
    BY <1>5 DEF OpenBalance, Registered, TypeOK, Missing
  <2>2. balanceId' \in [Wallets -> 0 .. MaxU64]
    BY <1>5, <2>1 DEF OpenBalance, TypeOK, ParticipantAccount
  <2>3. QED
    BY <1>5, <2>2 DEF OpenBalance, TypeOK
<1>6. ASSUME NEW b \in Buckets, NEW w \in Wallets, InitializeChannelBucket(b, w) PROVE TypeOK'
  <2>1. config \in ConfigAccount
    BY <1>6 DEF InitializeChannelBucket, Initialized, TypeOK, Missing
  <2>2. config' \in ConfigAccount
    <3>1. config.nextChannel + Capacity \in 1 .. MaxU64
      BY <1>6, <2>1 DEF InitializeChannelBucket, Fits, AfterRange, ConfigAccount
    <3>2. config' = [config EXCEPT !.nextChannel = config.nextChannel + Capacity]
      BY <1>6 DEF InitializeChannelBucket, AfterRange
    <3>3. QED
      BY <2>1, <3>1, <3>2 DEF ConfigAccount
  <2>3. base' \in [Buckets -> 0 .. MaxU64] /\ payee' \in [Buckets -> Wallets \cup {NoKey}]
    BY <1>6, <2>1 DEF InitializeChannelBucket, TypeOK, ConfigAccount
  <2>4. QED
    BY <1>6, <2>2, <2>3 DEF InitializeChannelBucket, TypeOK
<1>7. ASSUME NEW b \in Buckets, NEW slot \in Slots, NEW w \in Wallets, CreateChannel(b, slot, w)
      PROVE  TypeOK'
  BY <1>7 DEF CreateChannel, TypeOK
<1>8. CASE UNCHANGED vars
  BY <1>8 DEF vars, TypeOK
<1>9. QED
  BY <1>1, <1>2, <1>3, <1>4, <1>5, <1>6, <1>7, <1>8 DEF Next

\* Ids and counters stay in u64.
THEOREM RegistryTypes == Spec => []TypeOK
  BY TypeInit, TypeStep, PTL DEF Spec

-----------------------------------------------------------------------------
(* Authority.                                                              *)

\* A standing nomination was made by the authority in office.
NominationInForce == Initialized /\ config.pending # NoKey => nominatedBy = config.authority

\* A nomination comes from the authority, and accepting one clears it.
LEMMA NominationStep ==
  ASSUME TypeOK, NominationInForce, [Next]_vars
  PROVE  /\ NominationInForce'
         /\ Initialized /\ config'.authority # config.authority
              => config'.authority = config.pending /\ nominatedBy = config.authority
<1> DEFINE Handed == Initialized /\ config'.authority # config.authority
                       => config'.authority = config.pending /\ nominatedBy = config.authority
<1>1. ASSUME NEW s \in Wallets, NEW w \in Wallets, NEW chain \in ChainIds, NEW t \in Timelocks,
             Initialize(s, w, chain, t)
      PROVE  NominationInForce' /\ Handed
  BY <1>1 DEF Initialize, NominationInForce, Initialized
<1>2. ASSUME NEW s \in Wallets, NEW new \in Wallets \cup {NoKey}, NominateAuthority(s, new)
      PROVE  NominationInForce' /\ Handed
  <2>1. config \in ConfigAccount
    BY <1>2 DEF NominateAuthority, Initialized, TypeOK, Missing
  <2>2. config'.authority = config.authority /\ nominatedBy' = config.authority
    BY <1>2, <2>1 DEF NominateAuthority, ConfigAccount
  <2>3. QED
    BY <2>2 DEF NominationInForce
<1>3. ASSUME NEW s \in Wallets, AcceptConfigAuthority(s) PROVE NominationInForce' /\ Handed
  <2>1. config \in ConfigAccount
    BY <1>3 DEF AcceptConfigAuthority, Initialized, TypeOK, Missing
  <2>2. config'.authority = config.pending /\ config'.pending = NoKey
    BY <1>3, <2>1 DEF AcceptConfigAuthority, ConfigAccount
  <2>3. nominatedBy = config.authority
    BY <1>3 DEF AcceptConfigAuthority, NominationInForce
  <2>4. QED
    BY <2>2, <2>3 DEF NominationInForce
<1>4. ASSUME NEW w \in Wallets, NEW key \in {w, NoKey}, InitializeParticipant(w, key)
      PROVE  NominationInForce' /\ Handed
  <2>1. config \in ConfigAccount
    BY <1>4 DEF InitializeParticipant, Initialized, TypeOK, Missing
  <2>2. /\ config'.authority = config.authority /\ config'.pending = config.pending
        /\ config'.exists = config.exists /\ nominatedBy' = nominatedBy
    BY <1>4, <2>1 DEF InitializeParticipant, ConfigAccount
  <2>3. QED
    BY <2>2 DEF NominationInForce, Initialized
<1>5. ASSUME NEW b \in Buckets, NEW w \in Wallets, InitializeChannelBucket(b, w)
      PROVE  NominationInForce' /\ Handed
  <2>1. config \in ConfigAccount
    BY <1>5 DEF InitializeChannelBucket, Initialized, TypeOK, Missing
  <2>2. /\ config'.authority = config.authority /\ config'.pending = config.pending
        /\ config'.exists = config.exists /\ nominatedBy' = nominatedBy
    BY <1>5, <2>1 DEF InitializeChannelBucket, ConfigAccount
  <2>3. QED
    BY <2>2 DEF NominationInForce, Initialized
<1>6. ASSUME config' = config, nominatedBy' = nominatedBy PROVE NominationInForce' /\ Handed
  BY <1>6 DEF NominationInForce, Initialized
<1> HIDE DEF Handed
<1>7. NominationInForce' /\ Handed
  BY <1>1, <1>2, <1>3, <1>4, <1>5, <1>6 DEF Next, vars, OpenBalance, CreateChannel
<1>8. QED
  BY <1>7 DEF Handed

\* The authority changes only to the nominee of the authority in office.
THEOREM RegistryHandoff == Spec => HandoffOnlyByNominee
<1>1. Init => NominationInForce
  BY DEF Init, NominationInForce, Initialized, Missing
<1>2. TypeOK /\ NominationInForce /\ [Next]_vars => NominationInForce'
  BY NominationStep
<1>3. TypeOK /\ NominationInForce /\ [Next]_vars =>
        [Initialized /\ config'.authority # config.authority
           => /\ config'.authority = config.pending
              /\ nominatedBy = config.authority]_vars
  BY NominationStep
<1>4. QED
  BY <1>1, <1>2, <1>3, RegistryTypes, PTL DEF Spec, HandoffOnlyByNominee

-----------------------------------------------------------------------------
(* Participant ids.                                                        *)

\* Ids given out lie below the counter and differ; a balance copies its owner's.
IdsDistinct ==
  /\ \A w \in Wallets : Registered(w) => Initialized /\ participant[w].id < config.nextParticipant
  /\ \A w, v \in Wallets : Registered(w) /\ Registered(v) /\ participant[w].id = participant[v].id
                             => w = v
  /\ \A w \in Wallets : balanceId[w] # 0 => Registered(w) /\ balanceId[w] = participant[w].id

\* Nobody is registered.
LEMMA IdsInit == Init => IdsDistinct
  BY DEF Init, IdsDistinct, Registered, Missing

\* The counter of participants where an instruction leaves it.
LEMMA IdsKept ==
  ASSUME IdsDistinct, participant' = participant, balanceId' = balanceId,
         Initialized => Initialized' /\ config'.nextParticipant = config.nextParticipant
  PROVE  IdsDistinct'
  BY DEF IdsDistinct, Registered

\* Only initialize_participant gives out an id, and it takes the counter's.
LEMMA IdsStep ==
  ASSUME TypeOK, IdsDistinct, [Next]_vars
  PROVE  IdsDistinct'
<1>1. ASSUME NEW s \in Wallets, NEW w \in Wallets, NEW chain \in ChainIds, NEW t \in Timelocks,
             Initialize(s, w, chain, t)
      PROVE  IdsDistinct'
  BY <1>1, IdsKept DEF Initialize
<1>2. ASSUME NEW s \in Wallets, NEW new \in Wallets \cup {NoKey}, NominateAuthority(s, new)
      PROVE  IdsDistinct'
  <2>1. config \in ConfigAccount
    BY <1>2 DEF NominateAuthority, Initialized, TypeOK, Missing
  <2>2. QED
    BY <1>2, <2>1, IdsKept DEF NominateAuthority, ConfigAccount, Initialized
<1>3. ASSUME NEW s \in Wallets, AcceptConfigAuthority(s) PROVE IdsDistinct'
  <2>1. config \in ConfigAccount
    BY <1>3 DEF AcceptConfigAuthority, Initialized, TypeOK, Missing
  <2>2. QED
    BY <1>3, <2>1, IdsKept DEF AcceptConfigAuthority, ConfigAccount, Initialized
<1>4. ASSUME NEW w \in Wallets, NEW key \in {w, NoKey}, InitializeParticipant(w, key)
      PROVE  IdsDistinct'
  <2>1. config \in ConfigAccount /\ config.nextParticipant \in Nat
    <3>1. config \in ConfigAccount
      BY <1>4 DEF InitializeParticipant, Initialized, TypeOK, Missing
    <3>2. config.nextParticipant \in 1 .. MaxU64
      BY <3>1 DEF ConfigAccount
    <3>3. QED
      BY <3>1, <3>2
  <2>2. /\ Initialized' /\ config'.nextParticipant = config.nextParticipant + 1
        /\ balanceId' = balanceId
    <3>1. /\ config' = [config EXCEPT !.nextParticipant = config.nextParticipant + 1]
          /\ balanceId' = balanceId
      BY <1>4 DEF InitializeParticipant, AfterId
    <3>2. QED
      BY <2>1, <3>1 DEF ConfigAccount, Initialized
  <2>3. /\ participant'[w].exists /\ participant'[w].id = config.nextParticipant
        /\ \A v \in Wallets \ {w} : participant'[v] = participant[v]
    BY <1>4 DEF InitializeParticipant, TypeOK
  <2>4. ~Registered(w)
    BY <1>4 DEF InitializeParticipant
  <2>5. \A v \in Wallets : Registered(v) => participant[v].id \in Nat
    <3>1. ASSUME NEW v \in Wallets, Registered(v) PROVE participant[v] \in ParticipantAccount
      BY <3>1 DEF Registered, TypeOK, Missing
    <3>2. ASSUME NEW v \in Wallets, Registered(v) PROVE participant[v].id \in 1 .. MaxU64
      BY <3>1, <3>2 DEF ParticipantAccount
    <3>3. QED
      BY <3>2
  <2>6. ASSUME NEW v \in Wallets, Registered(v)'
        PROVE  Initialized' /\ participant'[v].id < config'.nextParticipant
    BY <2>1, <2>2, <2>3, <2>5, <2>6 DEF IdsDistinct, Registered
  <2>7. ASSUME NEW u \in Wallets, NEW v \in Wallets, Registered(u)', Registered(v)',
               participant'[u].id = participant'[v].id
        PROVE  u = v
    BY <2>1, <2>3, <2>5, <2>7 DEF IdsDistinct, Registered
  <2>8. ASSUME NEW v \in Wallets, balanceId'[v] # 0
        PROVE  Registered(v)' /\ balanceId'[v] = participant'[v].id
    BY <2>2, <2>3, <2>4, <2>8 DEF IdsDistinct, Registered
  <2>9. QED
    BY <2>6, <2>7, <2>8 DEF IdsDistinct
<1>5. ASSUME NEW w \in Wallets, OpenBalance(w) PROVE IdsDistinct'
  <2>1. /\ config' = config /\ participant' = participant /\ Registered(w)
        /\ balanceId'[w] = participant[w].id
        /\ \A v \in Wallets \ {w} : balanceId'[v] = balanceId[v]
    BY <1>5 DEF OpenBalance, TypeOK
  <2>2. QED
    BY <2>1 DEF IdsDistinct, Registered, Initialized
<1>6. ASSUME NEW b \in Buckets, NEW w \in Wallets, InitializeChannelBucket(b, w) PROVE IdsDistinct'
  <2>1. config \in ConfigAccount
    BY <1>6 DEF InitializeChannelBucket, Initialized, TypeOK, Missing
  <2>2. /\ config' = [config EXCEPT !.nextChannel = config.nextChannel + Capacity]
        /\ participant' = participant /\ balanceId' = balanceId
    BY <1>6 DEF InitializeChannelBucket, AfterRange
  <2>3. Initialized' /\ config'.nextParticipant = config.nextParticipant
    BY <2>1, <2>2 DEF ConfigAccount, Initialized
  <2>4. QED
    BY <2>2, <2>3, IdsKept
<1>7. ASSUME NEW b \in Buckets, NEW slot \in Slots, NEW w \in Wallets, CreateChannel(b, slot, w)
      PROVE  IdsDistinct'
  BY <1>7, IdsKept DEF CreateChannel, Initialized
<1>8. CASE UNCHANGED vars
  BY <1>8, IdsKept DEF vars, Initialized
<1>9. QED
  BY <1>1, <1>2, <1>3, <1>4, <1>5, <1>6, <1>7, <1>8 DEF Next

\* A participant id inside a routed allocation names one balance of the mint.
THEOREM RegistryParticipants == Spec => []ParticipantIdNamesOneBalance
<1>1. IdsDistinct => ParticipantIdNamesOneBalance
  BY DEF IdsDistinct, ParticipantIdNamesOneBalance
<1>2. TypeOK /\ IdsDistinct /\ [Next]_vars => IdsDistinct'
  BY IdsStep
<1>3. QED
  BY <1>1, <1>2, IdsInit, RegistryTypes, PTL DEF Spec

-----------------------------------------------------------------------------
(* Channel ids.                                                            *)

\* The ranges of the buckets lie below the counter and apart from each other.
Apart(a, b) == base[a] + Capacity <= base[b] \/ base[b] + Capacity <= base[a]
RangesDisjoint ==
  /\ \A b \in Buckets : base[b] # 0 => Initialized /\ base[b] + Capacity <= config.nextChannel
  /\ \A a, b \in Buckets : base[a] # 0 /\ base[b] # 0 /\ a # b => Apart(a, b)
  /\ \A c \in occupied : base[c[1]] # 0

\* No bucket has a range.
LEMMA RangesInit == Init => RangesDisjoint
  BY DEF Init, RangesDisjoint

\* The ranges where an instruction leaves buckets and counter alone.
LEMMA RangesKept ==
  ASSUME RangesDisjoint, base' = base, occupied' = occupied,
         Initialized => Initialized' /\ config'.nextChannel = config.nextChannel
  PROVE  RangesDisjoint'
  BY DEF RangesDisjoint, Apart

\* Only initialize_channel_bucket gives out a range, from the counter on.
LEMMA RangesStep ==
  ASSUME TypeOK, RangesDisjoint, [Next]_vars
  PROVE  RangesDisjoint'
<1>1. ASSUME NEW s \in Wallets, NEW w \in Wallets, NEW chain \in ChainIds, NEW t \in Timelocks,
             Initialize(s, w, chain, t)
      PROVE  RangesDisjoint'
  BY <1>1, RangesKept DEF Initialize
<1>2. ASSUME NEW s \in Wallets, NEW new \in Wallets \cup {NoKey}, NominateAuthority(s, new)
      PROVE  RangesDisjoint'
  <2>1. config \in ConfigAccount
    BY <1>2 DEF NominateAuthority, Initialized, TypeOK, Missing
  <2>2. QED
    BY <1>2, <2>1, RangesKept DEF NominateAuthority, ConfigAccount, Initialized
<1>3. ASSUME NEW s \in Wallets, AcceptConfigAuthority(s) PROVE RangesDisjoint'
  <2>1. config \in ConfigAccount
    BY <1>3 DEF AcceptConfigAuthority, Initialized, TypeOK, Missing
  <2>2. QED
    BY <1>3, <2>1, RangesKept DEF AcceptConfigAuthority, ConfigAccount, Initialized
<1>4. ASSUME NEW w \in Wallets, NEW key \in {w, NoKey}, InitializeParticipant(w, key)
      PROVE  RangesDisjoint'
  <2>1. config \in ConfigAccount
    BY <1>4 DEF InitializeParticipant, Initialized, TypeOK, Missing
  <2>2. /\ config' = [config EXCEPT !.nextParticipant = config.nextParticipant + 1]
        /\ base' = base /\ occupied' = occupied
    BY <1>4 DEF InitializeParticipant, AfterId
  <2>3. Initialized' /\ config'.nextChannel = config.nextChannel
    BY <2>1, <2>2 DEF ConfigAccount, Initialized
  <2>4. QED
    BY <2>2, <2>3, RangesKept
<1>5. ASSUME NEW w \in Wallets, OpenBalance(w) PROVE RangesDisjoint'
  BY <1>5, RangesKept DEF OpenBalance, Initialized
<1>6. ASSUME NEW b \in Buckets, NEW w \in Wallets, InitializeChannelBucket(b, w)
      PROVE  RangesDisjoint'
  <2>1. config \in ConfigAccount /\ config.nextChannel \in Nat
    <3>1. config \in ConfigAccount
      BY <1>6 DEF InitializeChannelBucket, Initialized, TypeOK, Missing
    <3>2. config.nextChannel \in 1 .. MaxU64
      BY <3>1 DEF ConfigAccount
    <3>3. QED
      BY <3>1, <3>2
  <2>2. /\ Initialized' /\ config'.nextChannel = config.nextChannel + Capacity
        /\ occupied' = occupied
    <3>1. /\ config' = [config EXCEPT !.nextChannel = config.nextChannel + Capacity]
          /\ occupied' = occupied
      BY <1>6 DEF InitializeChannelBucket, AfterRange
    <3>2. QED
      BY <2>1, <3>1 DEF ConfigAccount, Initialized
  <2>3. /\ base'[b] = config.nextChannel /\ base[b] = 0
        /\ \A a \in Buckets \ {b} : base'[a] = base[a]
    BY <1>6 DEF InitializeChannelBucket, TypeOK
  <2>4. \A a \in Buckets : base[a] \in Nat
    BY DEF TypeOK
  <2>5. \A a \in Buckets : base'[a] # 0 =>
           Initialized' /\ base'[a] + Capacity <= config'.nextChannel
    BY <2>1, <2>2, <2>3, <2>4 DEF RangesDisjoint
  <2>6. ASSUME NEW a \in Buckets, NEW d \in Buckets, base'[a] # 0, base'[d] # 0, a # d
        PROVE  Apart(a, d)'
    BY <2>3, <2>4, <2>6 DEF RangesDisjoint, Apart
  <2>7. \A c \in occupied : base'[c[1]] # 0
    <3>1. \A c \in occupied : c[1] \in Buckets /\ c[1] # b
      BY <2>3 DEF RangesDisjoint, TypeOK
    <3>2. QED
      BY <2>3, <3>1 DEF RangesDisjoint
  <2>8. QED
    BY <2>2, <2>5, <2>6, <2>7 DEF RangesDisjoint
<1>7. ASSUME NEW b \in Buckets, NEW slot \in Slots, NEW w \in Wallets, CreateChannel(b, slot, w)
      PROVE  RangesDisjoint'
  <2>1. base' = base /\ config' = config /\ base[b] # 0 /\ occupied' = occupied \cup {<<b, slot>>}
    BY <1>7 DEF CreateChannel
  <2>2. QED
    BY <2>1 DEF RangesDisjoint, Apart, Initialized
<1>8. CASE UNCHANGED vars
  BY <1>8, RangesKept DEF vars, Initialized
<1>9. QED
  BY <1>1, <1>2, <1>3, <1>4, <1>5, <1>6, <1>7, <1>8 DEF Next

\* Two slots that answer to one id are the same slot of the same bucket.
LEMMA OneSlotAnswers ==
  ASSUME TypeOK, RangesDisjoint, NEW id \in Nat,
         NEW c \in Buckets \X Slots, NEW d \in Buckets \X Slots,
         c[2] \in SlotForChannelId(c[1], id), d[2] \in SlotForChannelId(d[1], id)
  PROVE  c = d
<1>1. /\ c[1] \in Buckets /\ d[1] \in Buckets /\ c[2] \in 0 .. Capacity - 1 /\ d[2] \in 0 .. Capacity - 1
      /\ c = <<c[1], c[2]>> /\ d = <<d[1], d[2]>>
  BY DEF Slots
<1>2. /\ base[c[1]] \in Nat /\ base[d[1]] \in Nat
  BY <1>1 DEF TypeOK
<1>3. /\ base[c[1]] # 0 /\ base[d[1]] # 0
      /\ id = base[c[1]] + c[2] /\ id = base[d[1]] + d[2]
  BY <1>1, <1>2 DEF SlotForChannelId
<1>4. c[1] = d[1]
  BY <1>1, <1>2, <1>3 DEF RangesDisjoint, Apart
<1>5. c[2] = d[2]
  BY <1>1, <1>2, <1>3, <1>4
<1>6. QED
  BY <1>1, <1>4, <1>5

\* A signed channel id names one slot of one bucket, whatever buckets are opened.
THEOREM RegistryChannels == Spec => []ChannelIdNamesOneSlot
<1>1. ASSUME TypeOK, RangesDisjoint PROVE ChannelIdNamesOneSlot
  <2>1. ASSUME NEW id \in 0 .. MaxU64
        PROVE  Cardinality({c \in Buckets \X Slots : c[2] \in SlotForChannelId(c[1], id)}) <= 1
    <3> DEFINE answers == {c \in Buckets \X Slots : c[2] \in SlotForChannelId(c[1], id)}
    <3>1. \A c, d \in answers : c = d
      BY <1>1, OneSlotAnswers
    <3>2. CASE answers = {}
      BY <3>2, FS_EmptySet
    <3>3. ASSUME NEW c \in answers PROVE Cardinality(answers) <= 1
      <4>1. answers = {c}
        BY <3>1, <3>3
      <4>2. QED
        BY <4>1, FS_Singleton
    <3>4. QED
      BY <3>2, <3>3
  <2>2. ASSUME NEW c \in occupied PROVE SlotForChannelId(c[1], base[c[1]] + c[2]) = {c[2]}
    <3>1. c[1] \in Buckets /\ c[2] \in Slots /\ c = <<c[1], c[2]>>
      BY <1>1 DEF TypeOK
    <3>2. base[c[1]] \in Nat /\ base[c[1]] # 0 /\ c[2] \in Nat
      BY <1>1, <3>1 DEF TypeOK, RangesDisjoint, Slots
    <3>3. \A slot \in Slots : slot \in Nat
      BY DEF Slots
    <3>4. QED
      BY <2>2, <3>1, <3>2, <3>3 DEF SlotForChannelId
  <2>3. \A b \in Buckets : SlotForChannelId(b, 0) = {}
    BY <1>1 DEF SlotForChannelId, TypeOK
  <2>4. QED
    BY <2>1, <2>2, <2>3 DEF ChannelIdNamesOneSlot
<1>2. TypeOK /\ RangesDisjoint /\ [Next]_vars => RangesDisjoint'
  BY RangesStep
<1>3. QED
  BY <1>1, <1>2, RangesInit, RegistryTypes, PTL DEF Spec
=============================================================================
