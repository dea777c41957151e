------------------------------- MODULE Clearing -------------------------------
(***************************************************************************)
(* How signed commitments become payments (clearing/mod.rs): a relayer     *)
(* stages records in a buffer, seals it and queues an Arcium computation   *)
(* that checks the signatures; its callback records one bit per record;    *)
(* then anyone settles the records whose bit is set.  The money is that of *)
(* Custody, whose other instructions run in between.                       *)
(*                                                                         *)
(* Arcium is external.  It is trusted to report what the circuit computes  *)
(* on the buffer's bytes at the moment it runs, and for the signature that *)
(* ties an output to one computation instance; it may run late, fail, and  *)
(* deliver an output late, twice or after its account was closed.          *)
(***************************************************************************)
EXTENDS Custody, RoutePayout

CONSTANTS
    Stagings,      \* addresses of staging buffers
    BatchSize,     \* N_UNI or N_ROUTE
    Commitments,   \* commitments that may be signed
    Offsets,       \* computation offsets, 0 excepted
    MaxInstances,  \* bound on the number of computations queued
    Layout,        \* header of each bucket
    Payers,        \* payer of each channel
    Funding,       \* deposit of each participant in each mint
    Collateral,    \* locked in each channel
    DepositsOpen,  \* mints whose deposits are not paused
    Absent,        \* participants whose Balance accounts are not open yet
    Unassigned     \* ids that no participant has (Registry never assigns the last u64)

CommitmentType == [channel : Channels, base : U64, target : U64,
                   allocations : Seq([id : Participants \cup Unassigned, amount : U64])]
ASSUME WellFormedCommitments == Commitments \subseteq CommitmentType
ASSUME BatchesNotEmpty == BatchSize \in Nat \ {0} /\ MaxInstances \in Nat /\ 0 \notin Offsets

\* The money at the start is where Custody's instructions can have brought it: payers of
\* opened buckets, collateral in their slots, balances in accounts, all within the supply.
InUse(m) == Total(Funding[m]) + Total([c \in Channels |->
                 IF Layout[c[1]] # Unopened /\ Layout[c[1]].mint = m THEN Collateral[c] ELSE 0])
ASSUME FundsAreInOrder ==
    /\ Layout \in [Buckets -> Header \cup {Unopened}]
    /\ Payers \in [Channels -> Participants \cup {NoOne}]
    /\ Funding \in [Mints -> [Participants -> U64]] /\ Collateral \in [Channels -> U64]
    /\ \A c \in Channels : IF Payers[c] = NoOne THEN Collateral[c] = 0
                           ELSE Layout[c[1]] # Unopened /\ Payers[c] \notin Absent
    /\ \A m \in Mints, p \in Participants \cap Absent : Funding[m][p] = 0
    /\ \A m \in Mints : InUse(m) <= Supply

Indices == 0 .. BatchSize - 1
Kinds == {Direct, Routed}
Signers == {"payer", "gateway"}
Blank == [blank |-> TRUE]           \* a zeroed record
Closed == [open |-> FALSE]          \* a missing account
NoRoute == <<>>                     \* Pubkey::default() as gateway and mint

VARIABLES
    signatures, \* who has signed each commitment
    staging,    \* StagingBuffer accounts
    result,     \* ClearingResult accounts
    comp,       \* Arcium computation accounts by offset
    outputs,    \* outputs Arcium may deliver
    instance,   \* (slot, slot_counter) of the last computation queued
    paidFrom    \* what settlement paid to whom from each channel (history)

arciumVars == <<comp, outputs, instance>>
clearingVars == <<signatures, staging, result, arciumVars, paidFrom>>
vars == <<custodyVars, clearingVars>>

\* ClearingResult::clear
ClearedResult(kind, count) ==
    [open |-> TRUE, kind |-> kind, count |-> count, verified |-> FALSE, failed |-> FALSE,
     bitmap |-> {}, applied |-> {}, offset |-> 0, instance |-> 0]

EmptyBuffer(kind) ==
    [open |-> TRUE, kind |-> kind, sealed |-> FALSE, route |-> NoRoute,
     staged |-> {}, slots |-> [i \in Indices |-> Blank]]

\* Deposits made, channels created and collateral locked: a state Custody reaches.
FundedMoney ==
    /\ now = 0
    /\ listed = Mints
    /\ depositsEnabled = [m \in Mints |-> m \in DepositsOpen]
    /\ opened = (Participants \ Absent) \X Mints
    /\ available = Funding
    /\ bucket = Layout
    /\ payer = Payers
    /\ locked = Collateral
    /\ vault = [m \in Mints |-> Total(Funding[m]) + Total(OfMint(Collateral, m))]
    /\ settled = [c \in Channels |-> 0]
    /\ pendingAmount = [c \in Channels |-> 0]
    /\ pendingAt = [c \in Channels |-> 0]
    /\ paidFrom = [c \in Channels |-> [p \in Participants |-> 0]]

NothingStaged ==
    /\ staging = [s \in Stagings |-> Closed]
    /\ result = [s \in Stagings |-> Closed]
    /\ comp = [o \in Offsets |-> Closed]
    /\ outputs = {}
    /\ instance = 0

Funded == FundedMoney /\ NothingStaged

CInit == Funded /\ signatures = [k \in Commitments |-> {}]

-----------------------------------------------------------------------------
(* Signing, off chain: the payer of the channel, and its gateway too when  *)
(* the channel is routed.                                                  *)

Required(kind) == IF kind = Routed THEN Signers ELSE {"payer"}

Sign(k, who) ==
    /\ who \in Required(HeaderOf(k.channel).kind)
    /\ who \notin signatures[k]
    /\ signatures' = [signatures EXCEPT ![k] = @ \cup {who}]
    /\ UNCHANGED <<custodyVars, staging, result, arciumVars, paidFrom>>

-----------------------------------------------------------------------------
(* The relayer's buffer.                                                   *)

Account(a) == a.open

OpenStaging(s, kind) ==
    /\ ~Account(staging[s])
    /\ staging' = [staging EXCEPT ![s] = EmptyBuffer(kind)]
    /\ result' = [result EXCEPT ![s] = ClearedResult(kind, 0)]
    /\ UNCHANGED <<custodyVars, signatures, arciumVars, paidFrom>>

\* Always allowed; a batch that is not done is abandoned (BatchAbandoned).
ResetStaging(s, kind) ==
    /\ Account(staging[s])
    /\ staging' = [staging EXCEPT ![s] = EmptyBuffer(kind)]
    /\ result' = [result EXCEPT ![s] = ClearedResult(kind, 0)]
    /\ UNCHANGED <<custodyVars, signatures, arciumVars, paidFrom>>

CloseStaging(s) ==
    /\ Account(staging[s])
    /\ staging' = [staging EXCEPT ![s] = Closed]
    /\ result' = [result EXCEPT ![s] = Closed]
    /\ UNCHANGED <<custodyVars, signatures, arciumVars, paidFrom>>

Gateway(k) == HeaderOf(k.channel).payee
RouteOf(k) == <<Gateway(k), HeaderOf(k.channel).mint>>

\* What stage_records refuses, by kind of batch.
StageableDirect(k) == HeaderOf(k.channel).kind = Direct /\ k.target > settled[k.channel]

AnyBase(k) == TRUE                                  \* mutant of BaseReached
BaseReached(k) == k.base <= settled[k.channel]

StageableRoute(k) ==
    /\ Validate(k)
    /\ \A a \in DOMAIN k.allocations : k.allocations[a].id # Gateway(k)
    /\ HeaderOf(k.channel).kind = Routed
    /\ BaseReached(k)
    /\ k.target > settled[k.channel]

Accepts(buffer, k) ==
    /\ ~buffer.sealed
    /\ HeaderOf(k.channel) # Unopened /\ Occupied(k.channel)
    /\ \/ buffer.kind = Direct /\ StageableDirect(k)
       \/ /\ buffer.kind = Routed
          /\ StageableRoute(k)
          /\ buffer.route \in {NoRoute, RouteOf(k)}

WithRecord(buffer, i, k, signed) ==
    [buffer EXCEPT !.slots[i] = [com |-> k, signed |-> signed],
                   !.staged = @ \cup {i},
                   !.route = IF buffer.kind = Routed THEN RouteOf(k) ELSE @]

\* One record of a stage_records instruction; one that carries several is several
\* of these, each checked against the same bucket accounts.
StageRecord(s, i, k, signed) ==
    /\ Account(staging[s])
    /\ Accepts(staging[s], k)
    /\ staging' = [staging EXCEPT ![s] = WithRecord(@, i, k, signed)]
    /\ UNCHANGED <<custodyVars, signatures, result, arciumVars, paidFrom>>

Sealable(buffer, kind, count) ==
    /\ buffer.kind = kind
    /\ ~buffer.sealed
    /\ count \in 1 .. BatchSize
    /\ 0 .. count - 1 \subseteq buffer.staged
    /\ kind = Routed => buffer.route # NoRoute

\* Mutant of SealedBuffer: the last record is padded over.
PaddedShort(buffer, count) ==
    [buffer EXCEPT !.sealed = TRUE,
                   !.slots = [i \in Indices |-> IF i < count - 1 THEN @[i] ELSE @[0]]]

\* Frozen, and padded with record 0.
SealedBuffer(buffer, count) ==
    [buffer EXCEPT !.sealed = TRUE,
                   !.slots = [i \in Indices |-> IF i < count THEN @[i] ELSE @[0]]]

\* The verdict to come is bound to one computation instance.
QueuedResult(kind, count, o, queued) ==
    [ClearedResult(kind, count) EXCEPT !.offset = o, !.instance = queued]

QueuedComputation(s, kind, queued) ==
    [open |-> TRUE, instance |-> queued, target |-> s, kind |-> kind, ran |-> FALSE]

\* seal_and_queue_*: freeze the batch, queue a computation at an unused offset and
\* pin its instance, all in one instruction.
SealAndQueue(s, kind, count, o) ==
    /\ Account(staging[s])
    /\ Sealable(staging[s], kind, count)
    /\ ~Account(comp[o])
    /\ instance < MaxInstances
    /\ instance' = instance + 1
    /\ staging' = [staging EXCEPT ![s] = SealedBuffer(@, count)]
    /\ result' = [result EXCEPT ![s] = QueuedResult(kind, count, o, instance')]
    /\ comp' = [comp EXCEPT ![o] = QueuedComputation(s, kind, instance')]
    /\ UNCHANGED <<custodyVars, signatures, outputs, paidFrom>>

-----------------------------------------------------------------------------
(* Arcium.                                                                 *)

\* encrypted-ixs: out[i] is the conjunction of the signature checks of record i.
Verifies(record, kind) == record # Blank /\ Required(kind) \subseteq record.signed

\* A circuit that finds a buffer of the other kind, or none, verifies nothing.
CircuitBits(s, kind) ==
    IF Account(staging[s]) /\ staging[s].kind = kind
    THEN {i \in Indices : Verifies(staging[s].slots[i], kind)}
    ELSE {}

\* The nodes read the buffer when they run, not when the batch was queued.
RunComputation(o, fails) ==
    /\ Account(comp[o])
    /\ ~comp[o].ran
    /\ comp' = [comp EXCEPT ![o].ran = TRUE]
    /\ outputs' = outputs \cup
         {[offset |-> o, instance |-> comp[o].instance, target |-> comp[o].target,
           kind |-> comp[o].kind, failure |-> fails,
           bits |-> IF fails THEN {} ELSE CircuitBits(comp[o].target, comp[o].kind)]}
    /\ UNCHANGED <<custodyVars, signatures, staging, result, instance, paidFrom>>

\* claim_computation_rent: the account goes, its offset may be used again.
ClaimComputationRent(o) ==
    /\ Account(comp[o])
    /\ comp[o].ran
    /\ comp' = [comp EXCEPT ![o] = Closed]
    /\ UNCHANGED <<custodyVars, signatures, staging, result, outputs, instance, paidFrom>>

-----------------------------------------------------------------------------
(* clear_*_callback, presented with the computation account that is at the *)
(* output's offset now.                                                    *)

SomeBatch(r, o) == r.count # 0                      \* mutant of Current
\* require_current_computation, when it answers Current.
Current(r, o) ==
    /\ r.offset # 0 /\ r.count # 0
    /\ o = r.offset
    /\ comp[o].instance = r.instance

\* verify_output: the cluster's signature covers the instance of the account.
OutputVerified(out) == out.instance = comp[out.offset].instance

RecordFailure(s) ==
    /\ ~result[s].verified /\ ~result[s].failed
    /\ result' = [result EXCEPT ![s].failed = TRUE]

\* Mutant of RecordBitmap: padding counts.
RecordAllBits(s, out) ==
    /\ ~result[s].verified /\ ~result[s].failed
    /\ result[s].kind = out.kind
    /\ result' = [result EXCEPT ![s].verified = TRUE, ![s].bitmap = out.bits]

RecordBitmap(s, out) ==
    /\ ~result[s].verified /\ ~result[s].failed
    /\ result[s].kind = out.kind
    /\ result' = [result EXCEPT ![s].verified = TRUE,
                                ![s].bitmap = {i \in out.bits : i < result[s].count}]

\* A callback that is not Current is ignored; a refused one leaves no trace.
Callback(out) ==
    /\ Account(comp[out.offset]) /\ comp[out.offset].kind = out.kind
    /\ Account(result[out.target])
    /\ Current(result[out.target], out.offset)
    /\ \/ out.failure /\ RecordFailure(out.target)
       \/ ~out.failure /\ OutputVerified(out) /\ RecordBitmap(out.target, out)
    /\ UNCHANGED <<custodyVars, signatures, staging, arciumVars, paidFrom>>

-----------------------------------------------------------------------------
(* Settlement.                                                             *)

\* The money a settlement works on, and what one record does to it.
Money == [locked |-> locked, settled |-> settled, available |-> available, paidFrom |-> paidFrom]

MovedBy(money, k) == Payable(k.target, money.settled[k.channel], money.locked[k.channel])

Shares(money, k) ==
    LET old == money.settled[k.channel]
        new == old + MovedBy(money, k)
    IN  IF HeaderOf(k.channel).kind = Direct
        THEN [p \in Participants |-> IF p = Gateway(k) THEN new - old ELSE 0]
        ELSE [p \in Participants |-> IF p = Gateway(k) THEN GatewayFee(k, old, new)
                                                       ELSE PaidTo(k, old, new, p)]

Pay(money, k) ==
    LET c == k.channel
        m == HeaderOf(c).mint
        moved == MovedBy(money, k)
        share == Shares(money, k)
    IN  [locked |-> [money.locked EXCEPT ![c] = @ - moved],
         settled |-> [money.settled EXCEPT ![c] = @ + moved],
         available |-> [money.available EXCEPT
                          ![m] = [p \in Participants |-> @[p] + share[p]]],
         paidFrom |-> [money.paidFrom EXCEPT
                          ![c] = [p \in Participants |-> @[p] + share[p]]]]

\* The accounts a record needs: a bucket of the batch's kind and route, and the
\* balances it names, which must exist even when nothing moves.
Named(k) == {k.allocations[a].id : a \in DOMAIN k.allocations}
BalancesOpen(k) == {<<p, HeaderOf(k.channel).mint>> : p \in Named(k) \cup {Gateway(k)}} \subseteq opened
AccountsAccepted(s, k) ==
    /\ HeaderOf(k.channel).kind = staging[s].kind
    /\ staging[s].kind = Routed => RouteOf(k) = staging[s].route /\ Gateway(k) \notin Named(k)
    /\ BalancesOpen(k)

MovesSomething(money, k) == MovedBy(money, k) > 0   \* mutant of AmountsAccepted
\* checked_add, checked_sub and the range checks.
AmountsAccepted(money, k) ==
    LET old == money.settled[k.channel]
        m == HeaderOf(k.channel).mint
    IN  /\ HeaderOf(k.channel).kind = Routed => PayoutAccepted(k, old, old + MovedBy(money, k))
        /\ \A p \in Participants : money.available[m][p] + Shares(money, k)[p] <= MaxU64

\* The records of the groups, in order.
MoneyAfter(s, order) ==
    LET after[n \in 0 .. Len(order)] ==
          IF n = 0 THEN Money ELSE Pay(after[n - 1], staging[s].slots[order[n]].com)
    IN  after

NotApplied(r, i) == i < r.count /\ i \notin r.applied  \* mutant of Settleable
Settleable(r, i) == i < r.count /\ i \in r.bitmap /\ i \notin r.applied

\* One record that is refused refuses the whole instruction.
SettlementAccepted(s, order) ==
    LET r == result[s]
        after == MoneyAfter(s, order)
        n == Len(order)
    IN  /\ Account(staging[s])
        /\ r.verified
        /\ staging[s].sealed /\ staging[s].kind = r.kind
        /\ n > 0
        /\ \A a \in 1 .. n : Settleable(r, order[a])
        /\ \A a, b \in 1 .. n : a # b => order[a] # order[b]
        /\ \A a \in 1 .. n : LET k == staging[s].slots[order[a]].com
                            IN  AccountsAccepted(s, k) /\ AmountsAccepted(after[a - 1], k)

SettleGroups(s, order) ==
    /\ SettlementAccepted(s, order)
    /\ LET after == MoneyAfter(s, order)[Len(order)]
       IN  /\ locked' = after.locked
           /\ settled' = after.settled
           /\ available' = after.available
           /\ paidFrom' = after.paidFrom
    /\ result' = [result EXCEPT ![s].applied = @ \cup {order[a] : a \in DOMAIN order}]
    /\ UNCHANGED <<now, tokenVars, vault, opened, identity, pending,
                   signatures, staging, arciumVars>>

Orders == UNION {[1 .. n -> Indices] : n \in 1 .. BatchSize}

-----------------------------------------------------------------------------

RelayerStep ==
    \E s \in Stagings :
       \/ \E kind \in Kinds : OpenStaging(s, kind) \/ ResetStaging(s, kind)
       \/ CloseStaging(s)
       \/ \E i \in Indices, k \in Commitments :
            \E signed \in {{}, signatures[k]} : StageRecord(s, i, k, signed)
       \/ \E kind \in Kinds, count \in 0 .. BatchSize, o \in Offsets :
            SealAndQueue(s, kind, count, o)

ArciumStep ==
    \/ \E o \in Offsets : \/ \E fails \in BOOLEAN : RunComputation(o, fails)
                          \/ ClaimComputationRent(o)
    \/ \E out \in outputs : Callback(out)

SettleStep == \E s \in Stagings, order \in Orders : SettleGroups(s, order)

\* The other instructions of Custody, but for the token allowlist: no instruction
\* of clearing reads it; DepositsOpen is as it stands all along.
MoneyStep == Tick \/ BalanceStep \/ PayerStep \/ BothStep

CNext ==
    \/ \E k \in Commitments, who \in Signers : Sign(k, who)
    \/ RelayerStep
    \/ ArciumStep
    \/ SettleStep
    \/ MoneyStep /\ UNCHANGED clearingVars

CSpec == CInit /\ [][CNext]_vars

-----------------------------------------------------------------------------
(* Properties.                                                             *)

Record == [com : Commitments, signed : SUBSET Signers]

\* The buffers and results are well formed, and an applied bit is always a verified
\* bit of the same batch (clearing/mod.rs:1236-1241).
CTypeOK ==
    /\ TypeOK
    /\ signatures \in [Commitments -> SUBSET Signers]
    /\ \A s \in Stagings : Account(staging[s]) =>
         /\ staging[s].kind \in Kinds /\ staging[s].sealed \in BOOLEAN
         /\ staging[s].staged \subseteq Indices
         /\ staging[s].slots \in [Indices -> Record \cup {Blank}]
    /\ \A s \in Stagings : Account(result[s]) =>
         /\ result[s].kind \in Kinds /\ result[s].count \in 0 .. BatchSize
         /\ result[s].bitmap \subseteq Indices /\ result[s].applied \subseteq result[s].bitmap
    /\ instance \in 0 .. MaxInstances
    /\ paidFrom \in [Channels -> [Participants -> U64]]

\* A recorded bitmap is the verdict on the records that are in the buffer now: bit i
\* is set exactly if record i of this sealed batch carries every signature it needs,
\* and those were really given; never the verdict on an earlier batch of the buffer,
\* however late, often or under whatever reused offset a callback arrives.
VerdictMatchesBatch ==
    \A s \in Stagings : Account(result[s]) /\ result[s].verified =>
       LET r == result[s]
       IN  /\ staging[s].sealed /\ staging[s].kind = r.kind
           /\ 0 .. r.count - 1 \subseteq staging[s].staged
           /\ r.bitmap = {i \in 0 .. r.count - 1 : Verifies(staging[s].slots[i], r.kind)}
           /\ \A i \in r.bitmap : Required(r.kind) \subseteq signatures[staging[s].slots[i].com]

\* Who the signed commitment k gives unit u of its channel to; what no piece holds is
\* the gateway's.
OwnerAmong(k, u, gateway) ==
    LET given == RunningTotal(0, Amounts(k))
        pieces == {a \in DOMAIN k.allocations : u - k.base \in given[a - 1] + 1 .. given[a]}
    IN  IF pieces = {} THEN gateway ELSE k.allocations[CHOOSE a \in pieces : TRUE].id
OwnerOf(k, u) ==
    IF HeaderOf(k.channel).kind = Direct THEN Gateway(k) ELSE OwnerAmong(k, u, Gateway(k))

\* A direct commitment signs for every unit up to its target, a routed one from its base.
Covers(k, u) == u <= k.target /\ (HeaderOf(k.channel).kind = Routed => k.base < u)

\* Some fully signed commitment gives unit u of channel c to p.
SignedUnit(c, u, p) ==
    \E k \in Commitments :
       /\ k.channel = c /\ Covers(k, u)
       /\ Required(HeaderOf(c).kind) \subseteq signatures[k]
       /\ OwnerOf(k, u) = p

SignedFor(c, p) == {u \in 1 .. settled[c] : SignedUnit(c, u, p)}

\* Every unit of a channel is paid to one participant, once, and only to one that a
\* fully signed commitment gave it to; with conflicting commitments, the same one in
\* two buffers, replays and partial settlements in any order.
UnitsPaidOnceAsSigned ==
    \A c \in Channels :
       /\ Total(paidFrom[c]) = settled[c]
       /\ \A p \in Participants : paidFrom[c][p] <= Cardinality(SignedFor(c, p))

\* Once verified, a record can be settled by anyone at any time until it is applied
\* or its batch reset: whatever else was settled, unlocked or withdrawn meanwhile, no
\* check of the instruction refuses it, provided the balances it pays exist.
VerifiedStaysSettleable ==
    \A s \in Stagings : Account(result[s]) =>
       \A i \in result[s].bitmap \ result[s].applied :
          BalancesOpen(staging[s].slots[i].com) => SettlementAccepted(s, <<i>>)

\* clearing/mod.rs:471: staging "refuses, up front, anything that could verify but
\* never settle".  It does not look whether the provider ids belong to anybody.
VerifiedCanSettle ==
    \A s \in Stagings : Account(result[s]) =>
       \A i \in result[s].bitmap \ result[s].applied : SettlementAccepted(s, <<i>>)

\* Clearing implements Custody: its other steps being Custody's own instructions, each of
\* its own leaves the money alone or is a settlement as Custody promises it.  Tokens are
\* conserved, a direct payment reaches the payee whole, pending unlocks stay as they were.
ImplementsCustody ==
    [][clearingVars' # clearingVars => UNCHANGED custodyVars \/ SettleChannels]_vars
=============================================================================
