# Ryvo protocol: specification and proofs

TLA+ models of the Ryvo payment protocol (the Anchor program in
`src/programs/ryvo_protocol`, its Arcium circuits in `src/encrypted-ixs`, the
client in `src/tests-arcium` and the relayer in `src/scripts`), TLC configurations
that check them on small instances, and TLAPS proofs, for instances of every size,
of the custody layer, of the payee's collateral window, of the identities, of the
arithmetic of a routed payment, of clearing (its verdicts, its settlements, and that
it is custody with better reasons to pay), of the relayer that works on it beside
crashes and late transactions, and of the encodings and the layout of its buffers.

Paths below are relative to `src/`; `clearing/mod.rs` and the like are under
`programs/ryvo_protocol/src/`.

## 1. The system

Participants deposit SPL tokens into one vault per mint and hold *available*
balances in a ledger. A payer locks part of its balance as collateral in a
channel, one of the 256 slots of a *bucket* that belongs to one payee, one mint
and one kind. Payments are signed off chain: a *commitment* names a channel and a
cumulative target. A **direct** channel pays its payee. A **routed** channel
belongs to a gateway, and a routed commitment, signed by the agent and the
gateway, also cuts the range `base..target` into pieces for up to 16 providers;
what no provider gets is the gateway's fee.

A relayer *stages* signed records in a buffer, *seals* it and queues an Arcium
computation that checks the signatures inside the MPC cluster. A callback records
one bit per record, and then anyone *settles* verified records: collateral moves
from the slot to the payees' available balances and the channel's
`settled_cumulative` rises. A payer takes collateral back by a request that
matures after a timelock, or at once with the payee's signature.

| Component | State it keeps | Operations | Talks to |
|---|---|---|---|
| Balances and vaults (`instructions/balance`) | `Balance.available`, vault token account | `open_balance`, `deposit`, `withdraw` | SPL token program; debited and credited by channels and settlement |
| Token allowlist (`admin/token.rs`) | `TokenConfig` | `register_token`, `set_token_deposit_enabled` | read by deposit, open_balance, buckets |
| Channel buckets (`instructions/channel`) | payee, mint, kind; per slot payer, signing key, locked, settled, pending unlock | `initialize_channel_bucket`, `create_channel`, `lock`, `request`/`cancel`/`execute_unlock`, `cooperative_unlock` | clock; balances; read and written by clearing |
| Config and identities (`admin`, `participant`) | authority, nominee, two id counters, timelock; `Participant.participant_id` | `initialize`, `nominate`, `accept`, `initialize_participant` | ids are what commitments name |
| Clearing (`clearing/mod.rs`) | `StagingBuffer`, `ClearingResult` | `open`/`reset`/`close_staging`, `stage_records`, `seal_and_queue_*`, callbacks | Arcium; reads buckets at staging |
| Settlement (`clearing/mod.rs`) | `applied` bits | `settle_channels` | buffers, results, buckets, balances |
| Circuits (`encrypted-ixs`) | none | `clear_unilateral128`, `clear_route32` | read buffer bytes when they run |
| Arcium (external) | computation accounts, pending outputs | queue, run, deliver, claim rent | callback |
| Commitment encoding (`commitment.rs`, `domain.rs`) | none | `validate`, `encode`, `decode`, digests | client, circuit, staging |
| Relayer client and gateway (`tests-arcium/clearing-client.ts`, `scripts/devnet-gateway.ts`) | in memory only: buffer, last offset, batch, what is still to settle | open, stage in parallel chunks, seal, await, settle, claim rent, close | all of the above, by transactions that may expire or land late |
| Clean-up (`scripts/settle-leftovers.ts`) | in memory only: buffers found, the result fetched | settle what a crashed relayer left, close | buffers, results |

### What is hard

Every instruction is atomic, so nothing interleaves *inside* one. What is hard is
the order of instructions by parties who do not wait for each other:

- the payer's unlock requests against settlement and against new collateral;
- one commitment, or two that conflict, in several buffers and batches;
- a computation that runs long after its batch was sealed, reads the buffer as it
  is *then*, and delivers its output late, twice, or for a batch that was
  abandoned, at an offset that has been reused;
- values checked at staging (watermark, base) that have moved by settlement;
- partial payments of a split amount, resumed by a later batch;
- a relayer that dies at any point and forgets its buffer and offset, while its
  transactions may still land beside those of its successor;
- anyone may settle what is verified: a stranger's settlement comes before the
  relayer's own, which the program then refuses as a whole;
- one instruction that settles many records through shared accounts, some of them
  cached and written back later;
- bytes that three programs must lay out alike: client, program and circuit;
- boundaries: padding, the last u64 id, the second of maturity, saturating and
  checked subtraction in the payout arithmetic.

The full list, each at its source line with the properties that cover it, is
`hazards` in `PROJECT.json`.

## 2. The modules

```
TokenSums ── Custody ──┬── CollateralWindow           RoutePayout ──┬── RouteStream
                       └── Clearing  ◄────────────────────┘         └── Commitment ──┬── Transit ────────┬── Wire
                              ├── Relayer ──implements── Payments                    └── StagingLayout ──┘
                              └── SettlementPlan                       Registry
```

`X ── Y` reads "Y extends X". The proofs of a module `M` are in `MProofs`, those of
`SettlementPlan` and `CollateralWindow` together in `PayeeProofs`.

| Module | Models | Checked by |
|---|---|---|
| `TokenSums` | sums of token amounts over a finite set | lemmas in `PayoutProofs` |
| `Custody` | vaults, balances, allowlist, buckets, all channel instructions; settlement only as what it may do to money (`Settle`) | `MCCustody.cfg`, `CustodyProofs` |
| `CollateralWindow` | Custody beside a payee that looks at a channel and relies on it for at most one timelock | `MCCollateralWindow.cfg`, `PayeeProofs` |
| `RoutePayout` | the arithmetic of `payable`, `validate` and `settle_route_group`, as operators | through the modules below; lemmas in `PayoutProofs` |
| `RouteStream` | one routed commitment settled again and again with little collateral | `MCRouteStream.cfg`, `RouteStreamProofs` |
| `Clearing` | signing, buffers, Arcium, callbacks, settlement; extends Custody, whose instructions run in between | three `MCClearing_*.cfg`, `ClearingProofs` |
| `SettlementPlan` | one `settle_channels` instruction as the client builds it (numbered accounts, groups) and the program runs it (cached primary balance, provider cursor) | `MCSettlementPlan.cfg`, `PayeeProofs` |
| `Payments` | abstract: every unit of a channel has an owner, and is paid to it, in order, in the end | as the specification `Relayer` implements |
| `Relayer` | the gateway's loop and `settle-leftovers`, their memory, the transactions they sent, crashes, expiries and restarts, strangers that settle, over the accounts of Clearing | three `MCRelayer_*.cfg`, `RelayerProofs` |
| `Commitment` | the canonical bytes of messages and records, both decoders, packing into slots, as operators | through the three below; lemmas in `WireProofs` |
| `Transit` | a message, or the data of `stage_records`, altered byte by byte on its way | through `Wire` |
| `StagingLayout` | the slots of one buffer: columns, padding, the circuits' view, settlement's view | through `Wire` |
| `Wire` | the two together: altered data is read, checked and staged beside other records, sealed, verified, settled | `MCWire.cfg`, `WireProofs` (of `Commitment`, `Transit` and `StagingLayout` too) |
| `Registry` | config, authority handoff, participant and channel ids | `MCRegistry.cfg`, `RegistryProofs` |

The layers justify each other. `Clearing` treats a buffer as an array of whole
records, a circuit bit as "its signers signed", and a settlement as its records one
after the other. `StagingLayout` shows the first two from the slots, `SettlementPlan`
the third from the groups and accounts; `Transit` shows that the bytes a signer
signs are the message and that the records of an instruction are the ones the
client wrote, and `Wire` that what the buffer holds stays verifiable when they are not.
`Relayer` then runs real clients over `Clearing`.

**Custody is the abstract specification of clearing.** It allows a settlement to
move any collateral as long as tokens of each mint are conserved, a direct
channel's payment reaches its payee whole, and nothing else changes.
`ImplementsCustody` in `Clearing` checks that a step that changes clearing's own
state either leaves Custody's alone or is such a settlement; the other steps are
Custody's own instructions. `ClearingStepsAreCustodys` proves it for every instance:
each step of clearing is a step of Custody or leaves its variables alone. A clearing
run starts later than Custody does, with channels open and funded, so it is Custody's
steps that it implements and not its initial state; the invariants of Custody are
therefore shown to hold at clearing's start (`FundsAreInOrder`), and carry over.
`RouteStream` plays the same role for the payout arithmetic: its reference (`Owners`)
lists the units of a range one by one.

**Payments is the abstract specification of the relayer.** Its two variables are
Clearing's `settled` and `paidFrom`; the owner of each unit comes from the
commitments to settle (`SignedOwner`). `ImplementsPayments` is the refinement, with
its liveness: buffers, computations, verdicts, crashes and restarts all disappear,
and what remains is that the head of each channel moves forward, pays each unit it
passes to its owner once, and reaches the end.

### State and code

- `available[m][p]` is `Balance.available`; a `Balance` account exists when
  `<<p, m>> \in opened`. `vault[m]` is the amount of the vault token account.
- `bucket[b]` is the header of a `ChannelBucket`; `Unopened` is an account that is
  still zeroed. A channel is a pair of a bucket and a slot; `payer`, `locked`,
  `settled`, `pendingAmount` and `pendingAt` are the arrays of the bucket. A slot is
  occupied when it has a payer: the code sets both in `create_channel` and clears
  neither.
- `staging[s]` is the buffer at address `s` with its records, its `staged_mask`
  and the gateway and mint of a route batch; `result[s]` is its `ClearingResult`,
  whose address derives from the buffer's. `comp[o]` is the Arcium computation
  account at offset `o`, and `instance` stands for the `(slot, slot_counter)` pair
  that the program pins: unlike the offset, it never repeats.
- `signatures[k]` says who has signed commitment `k`. A staged record carries the
  signatures that existed when it was staged, or worthless ones.
- `paidFrom`, `nominatedBy` in `Registry` and `given` in `StagingLayout` are history
  variables: no guard reads them.
- `memory` in `Relayer` is the memory of the one process that runs, a record whose
  `step` is where its program is: `"start"`, `"next"` (batch), `"stage"`, `"await"`,
  `"settle"`, `"close"` for the gateway, `"visit"`, `"settle"` for the clean-up. A crash
  makes it `Nothing`. `sent` holds the transactions under way; `awaited` says whether
  the process that sent one is still there to learn what became of it.
- `slots` in `StagingLayout` is `StagingBuffer.slots`, byte by byte; `bytes` in
  `Transit` is what arrives.

One action is one instruction: guards from the account constraints and
`require!`s, effects from the assignments. An instruction that fails changes
nothing and is not an action; a stale callback, which the program accepts and
ignores, is a stuttering step.

### Abstractions

- Amounts are small naturals with `MaxU64` as the end of the range. Unix time
  counts from 0; overflow of the signed clock is not modelled.
- `stage_records` with several records is several `StageRecord` steps. The code
  checks each against the same bucket accounts, and none of the checks reads what
  an earlier record wrote except the batch's gateway and mint, which
  `StageRecord` also reads. The model can thus stop halfway where the code
  refuses the whole instruction; a relayer could have sent the shorter one.
- In `Clearing`, `settle_channels` takes the ordered list of the records of its
  groups. The code loads the payee's `Balance` once per group and writes it back
  at the end. `SettlementPlan` models that, and that it is the same is proved: no record
  of the group can write that account otherwise, since the providers' accounts must
  differ from it (`clearing/mod.rs:1458`).
- `Relayer` settles a set of commitments fixed at the start, none in conflict with
  another (`UnitsSignedOnce`); conflicts are the subject of `routes`. Where the client
  cuts a batch into chunks or settlements depends on the sizes of serialized
  transactions and is any choice here. The gateway's retries (`retry`) send the same
  signed transaction, so they are part of its being under way.
- A settlement by anybody else in `Relayer` (`StrangerSettles`) is any settlement the
  program accepts, of any buffer, at any time; it is one of the events `MaxFaults` bounds.
- The gateway sees that its own settlement was refused when the simulation before sending
  refuses it, and dies (`Lose`); it does not see that the chain refused it
  (`devnet-gateway.ts:752` reads no error), and goes on (`Unnoticed`). Either may happen.
- Before it closes its buffer the gateway asserts what its session had to pay (step 6). The
  script compares watermarks and balances with the sums it computed; the model asks that
  no record of the session is owed. That the later steps of the test file run after one
  failed is left out: their assertions fail unless everything has been settled.
- That the operator runs `settle-leftovers` after a crash, then the gateway for what is
  still owed (`Owed`), is external: no script in the repository does it. A session takes
  the longest beginning of it that can be batched (`Session`): after a crash, or a batch
  settled by a stranger, a record may be owed that others were signed on top of, and the
  program stages none whose base is not reached. The gateway runs again until nothing is
  owed. Each process uses the buffers it finds or opens; a computation offset is drawn once
  (8 random bytes).
- `settle-leftovers` derives the accounts of a settlement from the slots it listed at its
  start; the model takes those of the buffer as it is when its result is fetched. They
  differ only if a late reset and seal of a dead gateway land in between, and then the
  script's settlement is refused and the process ends, which the model reaches by a crash.
- `batch_seq` (events only), decimals, rent, fees and compute limits are left out.
- The token allowlist does not run inside `Clearing` (`MoneyStep`): no clearing
  instruction reads it. Deposits are open or paused all along (`DepositsOpen`): paused
  only in `routes`, where the payer starts with all the tokens there are. In `replay`
  they matter: a second payment of one commitment needs tokens that the payee
  withdrew and somebody deposited again.
- In `Clearing` a signature holds for the one commitment it was made for. In
  `StagingLayout` it holds for the preimage of the digest it was made over: what is
  assumed is that SHA3-256 is injective and that ArcisEd25519 accepts what the key's
  owner signed and nothing else. A circuit that finds a missing buffer or one of the
  other kind verifies nothing.

## 3. What the runs check

Runs check for deadlock, but for `wire` and `plan`, whose behaviours end: no byte is
left to alter, the batch is settled. "Violated by" names the change to the code model
under which TLC finds the property false (`mutants` in `PROJECT.json`).

| Run | Instance | Properties |
|---|---|---|
| `custody` | 3 participants, 2 mints, 1 bucket of 1 slot, 1 token of each mint, timelock 1, 1 tick | `TypeOK`, `Solvency`, `NothingOutsideAccounts`, `FundsNeverFrozen`, `ChannelIdentityPermanent` |
| `window` | 2 participants, 1 channel, 2 tokens, timelock 2, 4 ticks | `CollateralHolds`, `FreshCollateralStays`, `FloorReserved` |
| `stream` | every canonical route in 0..4 with up to 3 pieces and 3 providers, every start, every top-up | `TypeOK`, `PaysOwnUnits`, `NeverRefused`, `NeverPastTarget` |
| `replay` | direct, 2 buffers, batches of 1, 2 offsets, 2 computations | `CTypeOK`, `VerdictMatchesBatch`, `UnitsPaidOnceAsSigned`, `VerifiedStaysSettleable`, `ImplementsCustody` |
| `routes` | routed, 2 routes that conflict on a unit, batches of up to 2, 2 computations at one offset, deposits paused | `VerdictMatchesBatch`, `UnitsPaidOnceAsSigned`, `VerifiedStaysSettleable`, `ImplementsCustody` |
| `registry` | 3 wallets, 3 buckets of 2 slots, `MaxU64` 6, so the third range does not fit | `TypeOK`, `ChannelIdNamesOneSlot`, `ParticipantIdNamesOneBalance`, `HandoffOnlyByNominee` |
| `relayer_batches` | routed, a batch of 3 over 3 channels, then one of 2 and padding, signed on top of the first; 2 faults; 4 buffers, 8 computations | `OnlyForestallingRefuses`, `OnlyFaultsCrash`, `OwnCloseDropsNothingSeen`, `BatchSealedAsPlanned`, `ImplementsPayments`, `EveryCommitmentPaid` |
| `wire` | bytes of 3 values, words of 2 bytes, up to 2 allocations; up to 2 alterations, 1 of data that is staged; batches of up to 3 of both kinds, genuine and misplaced signatures | `OneEncodingPerMessage`, `ClientAgrees`, `RecordsReadBack`, `RecordsWhole`, `VerifiedIsSettled` |
| `plan` | 3 routes in 2 buckets of a gateway with shared providers, within the account limit or one account beyond it, or 3 direct commitments in 2 buckets and 2 mints; every subset in every order, more locked in between | `PlanNeverRefused`, `InstructionPaysRecords` |
| `nobody`, `relayer_leftovers`, `relayer_unnoticed` | see "Findings" | one property each, violated |

The properties in words:

- `Solvency`: the vault of a mint is the sum of the available balances and of the
  locked collateral in it (`state/balance.rs`). Violated by a withdrawal to the
  vault itself.
- `NothingOutsideAccounts`: no free slot, unopened bucket or missing account holds
  money. Violated by channels whose payer has no Balance.
- `FundsNeverFrozen`: free balance can be withdrawn in full and a matured request
  executed, whatever was paused, settled or released before.
- `ChannelIdentityPermanent`: a slot never changes its payer nor a bucket its
  header, and the watermark never falls. Old signatures rest on this.
- `CollateralHolds`: a payee that looks at a channel and counts on
  `settled + locked`, less what an unlock already under way can take in time, is
  not disappointed inside its window of at most one timelock. `FloorReserved` is
  its inductive form. `FreshCollateralStays`: no pending request reaches
  collateral locked after it.
- `PaysOwnUnits`: a provider gets exactly its own units of the part of the range
  that was paid, the gateway the units of nobody, however the payment was cut.
  `NeverRefused`: none of the amount checks of settlement can fail for a validated
  route whose base is reached. `NeverPastTarget`: an overtaken commitment moves
  nothing.
- `VerdictMatchesBatch`: a recorded bitmap is the verdict on the records in the
  buffer now, without padding and with true signatures.
- `UnitsPaidOnceAsSigned`: a channel's watermark equals what was paid from it, and
  nobody got more units of it than fully signed commitments give them.
- `VerifiedStaysSettleable`: a verified record whose balances exist can be settled
  from then on until it is applied or its batch reset.
- `ChannelIdNamesOneSlot`, `ParticipantIdNamesOneBalance`: the ids inside signed
  messages mean one thing, up to the end of u64.
- `HandoffOnlyByNominee`: the authority changes only to a nominee of the authority
  in office.
- `OnlyFaultsCrash`: left alone, the relayer's plan is never refused. Violated by
  sending all chunks at once, the reset among them. `BatchSealedAsPlanned`: whatever
  chunks landed in whatever order, a sealed batch is the planned one.
- `OnlyForestallingRefuses`: the gateway waits for its settlements and never looks whether
  they failed (`devnet-gateway.ts:752`). One can, when a stranger settles one of its
  records first (finding 3); nothing else refuses it, not the late settlements of a process
  that died, nor those of other buffers, nor what the gateway sent before.
  `OwnCloseDropsNothingSeen`: a close never loses what its sender saw verified and is still
  to be paid, also when settlements before it were refused unnoticed.
- `EveryCommitmentPaid`, `ImplementsPayments`: every commitment is paid in the end, each
  unit to its owner, once.
- `OneEncodingPerMessage`: bytes that decode are the canonical encoding of what they
  decode to. `ClientAgrees`: the client's decoder and the program's accept the same
  bytes. `RecordsReadBack`: the data of `stage_records` reads back as the records it
  was made of.
- `RecordsWhole`: staging a record and padding leave every other record whole.
  `VerifiedIsSettled`: the circuit's bit of an index says that its signers signed the
  very commitment that settlement reads there.
- `InstructionPaysRecords`: a settlement instruction, with its groups, shared accounts
  and cached balance, pays as its records one by one. `PlanNeverRefused`: what the
  client builds of acceptable records is accepted, unless the reported total of all
  mints exceeds u64 (`TotalFits`).

### Bounds and why they are enough

Two units give a payment, a partial payment and a rest, and both ends of every
comparison; two units per route give each of two owners one. Two buffers, two
computations and reused offsets give every way in which a verdict could cross
batches: old against new, one buffer against the other, an account against its
successor. Batches of two records reach the order inside an instruction, padding and
the index checks. `MaxTime` only has to reach the timelock, after which a request
made at the start has matured. It is 0 in the runs of `Clearing`, where collateral
leaves by cooperative unlocks only: what an executed request does to a slot, a
cooperative one does as well. Requests that mature beside settlements are in
`custody` and `window`.
`MaxInstances` bounds the computations; it is the only bound that is not a limit of
the code, apart from `MaxTime`. In `custody` a bucket may be opened in either of two
mints, a payment may reach a third participant, and a slot may be wanted by a second
payer; one token of each mint is enough for a sum to be wrong. Where a run declares
symmetry, its properties are invariants and action properties that name none of the
interchangeable values, so it is sound; the run with liveness has none.

Clearing runs start from a state with an open channel and a deposit; `custody`
reaches such states from empty accounts.

In `Relayer`, `MaxFaults` bounds crashes, expired transactions, failed computations and
settlements by strangers together: two give a crash of the gateway and one of the clean-up
after it, a crash while a chunk has expired, or a stranger that settles one record beside a
dead gateway's settlement. Every fault costs at most one gateway run and may leave one
session that has to stop early, hence four buffers, and each run queues at most one
computation per batch, hence eight offsets and instances; were one of them to run out,
the process would stop for ever and the run would report it, as a deadlock or by its
liveness properties. Two batches let the second depend on the first and the buffer be
reset; three records give three chunks, one of them behind two under way, and two of
three give padding.

In `Wire`, bytes have three values so that a count can exceed a byte and a sum can
wrap; the layout has every column kind at sizes where each boundary is crossed (a key
of two slots, a signature of three). Two alterations can compensate each other;
data that reaches the buffer is altered at most once, which is enough to change any
of its words. `MaxAccounts` in `plan` is what the first batch needs; of the third, which
names one account more, some subsets cannot be built and others can.

### Fairness

Only `Relayer` has liveness properties, and so only it assumes fairness: weak fairness
of the running process (an `async` function that is not killed goes on), of the
answer to a transaction (the cluster lands it, or refuses it, as long as it does not
expire), of Arcium running what is queued and of delivering it
(`awaitComputationFinalization` waits without limit). No fairness forces a fault not to
happen, but there are at most `MaxFaults` of them: faults for ever would stop any
relayer. The operator's restarts are part of the running process; that somebody
restarts it is the assumption without which nothing is paid. What it gives is the
liveness of `Payments`, `<>AllPaid`.
`FundsNeverFrozen` and `VerifiedStaysSettleable` say that an instruction would be
accepted, in every reachable state, which needs none: they name the instruction's
checks (`WithdrawAccepted`, `ExecuteUnlockAccepted`, `SettlementAccepted`), which are
also the guards of the actions.

### Findings

1. `nobody` — `stage_records` says it refuses "anything that could verify but never
   settle". A route to a participant id that is not assigned is staged, verified
   and can never settle. No money is at stake: the other records settle without it.
2. `relayer_leftovers` — `settle-leftovers.ts` says it finishes "every batch of ours
   that was verified but never (fully) settled". It fetches a buffer's result once and
   then closes the buffer, also while its computation is under way: a callback between
   the two verifies a batch that is then dropped. Its commitments are staged again by
   the next run of the gateway (`EveryCommitmentPaid` holds), at the price of another
   computation. `OwnCloseDropsNothingSeen` is the part of the promise that does hold.
3. `relayer_unnoticed` — the gateway settles a batch "right away so the buffer can be reset
   for the next batch", because "reuse requires it" (`devnet-gateway.ts:638`). It waits for
   the confirmation of its settlement and reads no error of it. Settlement is permissionless
   (`lib.rs:311`) and whole or not at all: when somebody else settles one of the records
   after the gateway sent its own settlement, the chain refuses the others with it, and the
   gateway resets its buffer over verified records that nobody settled. The program lets it:
   `lib.rs:196` says a buffer starts its next batch "once the previous one is fully
   settled", and so does the client (`clearing-client.ts:501`), but `reset_staging_handler`
   never refuses, as its own comment says. Step 6 then fails
   its assertions, so nothing is closed unpaid (`OwnCloseDropsNothingSeen`), and the records
   are paid by a later run (`EveryCommitmentPaid`), at the price of another computation.
   `OnlyForestallingRefuses` shows that this is the only way to it.

Also seen while modelling: `state/participant.rs` says that a payee need not
consent, while `create_channel` requires its signature; tokens sent to a vault by
a plain transfer make the vault hold more than the ledger (the model has no such
transfer, and `Solvency` would then read `>=`).

## 4. What is proved

For all finite sets of participants, buckets and slots, any mints, wallets, batch
sizes, numbers of buffers, offsets and computations, commitments and limits:

| Theorem | States | Module |
|---|---|---|
| `CustodyTypes` | `Spec => []TypeOK` | `CustodyProofs` |
| `CustodyAccounts` | `Spec => []NothingOutsideAccounts` | |
| `CustodySolvent` | `Spec => []Solvency` | |
| `CustodyNeverFreezes` | `Spec => []FundsNeverFrozen` | |
| `CustodyIdentity` | `Spec => ChannelIdentityPermanent` | |
| `RegistryTypes` | `Spec => []TypeOK` | `RegistryProofs` |
| `RegistryHandoff` | `Spec => HandoffOnlyByNominee` | |
| `RegistryParticipants` | `Spec => []ParticipantIdNamesOneBalance` | |
| `RegistryChannels` | `Spec => []ChannelIdNamesOneSlot` | |
| `StreamTypes` | `Spec => []TypeOK` | `RouteStreamProofs` |
| `EveryUnitToItsOwner` | `Spec => []PaysOwnUnits` | |
| `ValidatedNeverRefused` | `Spec => []NeverRefused` | |
| `StreamStopsAtTarget` | `Spec => []NeverPastTarget` | |
| `VerdictsAreOfTheBatch` | `CSpec => []VerdictMatchesBatch` | `ClearingProofs` |
| `ClearingTypes` | `CSpec => []CTypeOK` | |
| `EveryUnitOnceAsSigned` | `CSpec => []UnitsPaidOnceAsSigned` | |
| `VerifiedSettles` | `CSpec => []VerifiedStaysSettleable` | |
| `ClearingRefinesCustody` | `CSpec => ImplementsCustody` | |
| `ClearingStepsAreCustodys` | `CSpec => [][Next]_custodyVars`, the steps of Custody | |
| `ClearingSolvent` | `CSpec => []Solvency` | |
| `ClearingNeverFreezes` | `CSpec => []FundsNeverFrozen` | |
| `ClientPlansAccepted` | `PSpec => []PlanNeverRefused` | `PayeeProofs` |
| `GroupsPayRecords` | `PSpec => InstructionPaysRecords` | |
| `WindowImplementsCustody` | `WSpec => Spec` | |
| `WindowFloor` | `WSpec => []FloorReserved` | |
| `WindowFresh` | `WSpec => []FreshCollateralStays` | |
| `WindowHolds` | `WSpec => []CollateralHolds` | |
| `RelayerInOrder` | `RSpec => [](AccountsInOrder /\ ProcessOK)` | `RelayerProofs` |
| `SealedBatchesAsPlanned` | `RSpec => []BatchSealedAsPlanned` | |
| `OwnClosesDropNothing` | `RSpec => []OwnCloseDropsNothingSeen` | |
| `OnlyOthersForestall` | `RSpec => []OnlyForestallingRefuses` | |
| `RelayerPaysOwners` | `RSpec => P!Init /\ [][P!Pay]_<<settled, paidFrom>>`, the safety part of `ImplementsPayments` | |
| `RelayerOnPlan` | `RSpec => []RelayerInv` | |
| `OnlyFaultsEndProcesses` | `RSpec => []OnlyFaultsCrash` | |
| `LayoutKeepsRecordsWhole` | `LSpec => []RecordsWhole` | `WireProofs` |
| `WireKeepsRecordsWhole` | `WSpec => []RecordsWhole` | |
| `OneMessageOneEncoding` | `WSpec => []OneEncodingPerMessage` | |
| `ClientDecodesTheSame` | `WSpec => []ClientAgrees` | |
| `RecordsKeptApart` | `WSpec => []RecordsReadBack` | |
| `VerifiedSettlesAsSigned` | `WSpec => []VerifiedIsSettled` | |

The assumptions are those the modules name. `Custody`: finite sets,
`Supply <= MaxU64`, a positive timelock, and that `NoOne` and `Unopened` are no
participant and no header. `Registry`: a bucket has a slot, `MaxU64` is at least 1,
the upgrade authority is a wallet and `Pubkey::default()` is not. `Clearing`: a
commitment's numbers are u64 (`WellFormedCommitments`), a batch has a record and 0 is
no offset (`BatchesNotEmpty`), and the money at the start is somewhere Custody's
instructions can have brought it (`FundsAreInOrder`): collateral only in slots that
have a payer with an account, in opened buckets, no more of a mint than its supply.
`SettlementPlan`: there is a buffer, an offset and an instance to verify the batch with
(`OneBuffer`), and a batch holds what `stage_records` lets into a buffer before
anything is settled (`BatchesAreStaged`): records of occupied slots and one kind, routed
ones valid, of one gateway and mint and naming no gateway as provider, direct ones
without allocations.
`RouteStream`: its bounds are numbers. `Commitment`: a byte has at least three values,
so that the kinds and the version fit one; a count of allocations fits a byte, a pair
of words a slot, and a key and a signature the slots they are packed in (`ByteSizes`);
the tag and the domain are bytes (`SharedBytes`). `StagingLayout`: a batch has a record
(`LayoutSizes`); records, keys and genuine signatures are bytes of their lengths, and a
record that `stage_records` accepts is of a channel with a registered key
(`StagedBytes`). `Transit`: a routed message that is sent passes `Validate`, as
`encodeCommitment` throws otherwise (`SentMessages`, `commitment-client.ts:85-95`), and
the records of one instruction are of one kind, a routed one with an allocation
(`SentDeliveries`). `Relayer`: the commitments are those a gateway's session signs
(`RecordsAreSound`: parties registered and with balances, targets within what the agent
locked, one kind and, when routed, one route, `devnet-gateway.ts:399-576`); a commitment
may be signed on top of others of its channel as long as these are in earlier batches
(`BatchesFollowOn`), and none conflict (`UnitsSignedOnce`); a computation offset is
drawn once (`OffsetsEnough`). TLC evaluates them in every run.

**Custody.** `TypeOK` is inductive as it stands: `deposit` is bounded by the tokens
the funder has, `withdraw` by the balance check of the program and by SPL's own,
which keeps `vault` non-negative; `Solvency` then shows that SPL's check never
refuses anybody. `NothingOutsideAccounts` is what makes `Solvency` inductive: when
a bucket gets its mint, collateral locked in it before would suddenly count, so one
must know that an unopened bucket holds none. Each action then moves an amount from
one summand to another, or in or out of the vault. The facts about sums
(`TotalOfIncrease`, `TotalOfSum`, ...) are proved in `PayoutProofs`. A sum there
is the cardinality of a set of numbered tokens, `Tokens(f)`, which avoids
recursion: adding sums is a union of disjoint sets, and an increase is an
injection. The cardinality facts come from `FiniteSetTheorems`. `FundsNeverFrozen`
follows from `Solvency`, since one summand is at most the sum (`EntryInTotal`): SPL
never refuses a withdrawal that the ledger allows, and a matured release fits the
payer's balance because both are parts of one vault that fits a u64. The identity
of slots follows action by action from `TypeOK`, since every action that writes
`payer` or `bucket` asks for a free slot or an unopened bucket, and settlement
only raises a watermark.

**Window.** What a payee counts on is not inductive: it says nothing of what may
still leave. The invariant is `FloorReserved` with its surroundings, channel by
channel: types, every lock lies in the past, no pending request reaches
collateral locked after it (`FreshCollateralStays`), and inside a window the
collateral less what could mature in time is at least the floor the payee noted.
A new request matures after the window ends, so it takes nothing from the floor; an
execution takes only what the floor had already left out; locking more drops the
request. `CollateralHolds` follows.

**Registry.** A handoff needs that a standing nomination was made by the authority
in office: accepting clears it, so it cannot outlive its author. Ids need that all
that were given out lie below the counter and differ; ranges that they end below
the counter and are apart. An occupied slot lies in a numbered bucket, so a lookup
answers with exactly the slot whose id it was given, and at most one bucket
answers.

**Payout.** The pieces of a route end at running totals of its amounts
(`PieceEnd`), a recursive function; the library's induction takes an operator, which
the provers cannot instantiate. `PayoutProofs` has its own for intervals, about a
*set* of numbers (`Induction`: an injection of the numbers below the least
counterexample into itself would miss 0), and from it that a recursive definition on
an interval has exactly one solution (`Recursion`, `RecursionIsUnique`). Then totals
grow, pieces do not overlap, every unit below the last end lies in exactly one
(`UnitHasPiece`, `PieceIsUnique`), the overlaps of the pieces add up to that of the
range (`ProvidersTogether`), and so the program's saturating and checked subtractions
never see a negative number (`ValidatedIsAccepted`).

**Route stream.** The reference `Owners` is flattened from the pieces;
`OwnersAre` says which piece each of its units comes from. Counting the units of a
provider is then adding the overlaps of its pieces (`ProviderOwnsPaid`), and the fee
the rest (`GatewayOwnsFee`). The invariant says that what was paid is what *one*
settlement from `start` to `cumulative` would pay; it is inductive because payments
over adjacent ranges add up (`PaymentsAdd`).

**Verdicts.** `VerdictMatchesBatch` is about a buffer and its recorded bitmap; what
makes it hold is spread over the buffer, the result, the computation account at the
result's offset and outputs that may have been under way for long. The invariant
`VInv` says that a buffer and its result are opened and closed together (`Paired`);
that no account or output carries an instance not yet drawn (`NoneFromTheFuture`);
that a result bound to an instance belongs to a sealed, completely staged buffer of
its kind, and that every computation and output that carries this instance is about
this buffer, with the bits the circuit gives for it as it is now (`BoundResults`); that
a verified result is bound and its bitmap is those bits below `count` (`Verdicts`);
that signatures in a buffer were given (`SignedInBuffer`); and that the result of an
unsealed buffer is bound to nothing (`Unbound`). The bits stay right because a sealed
buffer changes only by a reset, which unbinds its result. Each action has a lemma;
the callback needs the pinned instance besides the offset, since an offset may have
been reused.

**Settlement.** `UnitsPaidOnceAsSigned` counts, so it is not inductive: that nobody
got more units than signatures give says nothing of *which* ones. What is kept
instead (`PaidOwners`) is that there is one function from the units up to the
watermark to their owners, each owner given its unit by a commitment all had signed,
and that everybody was paid as many units of the channel as they own (`Owned`).
A record that moves the watermark appends the owners of the units it passes
(`OwnedGrows`), whatever commitment paid the ones below. Within an instruction the
records follow one another: `PaidOut` says of the money after each of them that it is
typed and owned so, that each mint's tokens are conserved, that watermarks only rose
and that direct payments reached their payee, and `PayKeeps` that the next record
keeps it, by the lemmas of the payout. `PaidOutSettles` concludes that the whole is a
`Settle` of Custody.

**Clearing.** The invariant is `ClearingInv`: the verdicts, Custody's invariants with
`PaidOwners` (`MoneyInOrder`), and two that say why a record cannot become stale
between staging and settlement. `StagedRecords`: its channel still has its payer,
its bucket its header, and a route's base has been reached; identities are permanent
and watermarks rise, so what staging checked remains true. `VerdictBits`: applied bits
are verified ones, and an unfinished batch has none. A verified bit then means a
record whose signers all signed and whose checks still pass (`VerifiedIsReady`), which
gives `VerifiedStaysSettleable`, and, record by record, that a settlement keeps
`MoneyInOrder`.

**Settlement plan.** The states of `PSpec` satisfy `BatchInv`, which is `ClearingInv` with
the verified batch still in its buffer; it is inductive because an instruction of the
plan turns out to be a settlement of `Clearing`. That is the whole difficulty: the plan
reorders the records (a group takes up its records wherever they stand in the list),
holds a stale balance in the copy, and finds accounts by a cursor. The argument:

- *The client.* `PlanFits` says, record by record, what the loop of
  `settlementInstruction` leaves: the table numbers every account once, no two groups
  have the same bucket, each record is in the group of its bucket, and each group keeps
  the positions of its records and where each one's providers begin (`Traced`,
  `Listed`). A bucket has one payee and mint, so it determines the primary balance, and
  the key of two numbers never splits a bucket (`SameBucket`).
- *Order.* What a record moves depends only on its own channel, and a channel lies in one
  bucket, so in one group, which keeps the order. `After(order, V, S, D)` is the money after the
  records at a *set* of places `D`: sums over `D` of what each record moves and pays. A
  record whose earlier records of the same channel are all in `D` pays what it pays in
  the list order (`RecordTurn`), and the groups go through such sets (`RunPays`).
- *The copy.* While a group runs, the stored money is the true money with the gateway's
  balance as it was (`Behind`), and the copy holds what that balance should be (`Shows`).
  A provider's account is not the primary one, so what is loaded is true
  (`ProviderBehind`); the write-back makes the rest true (`GroupPays`). An unchanged copy
  need not be written.
- *Refusals.* The other direction of `PlanNeverRefused` needs the checks to pass: the
  cursor finds the accounts of the very record (`GroupIs`), no balance overflows because
  the balances on the way are below those of the end of the list (`RecordTurn` again), and
  the total that is reported is that of the list (`TotalFits`). `InstructionPaysRecords`
  needs the converse, that an instruction which was not refused has records that
  Clearing accepts: a check that failed stays failed (`GroupSticks`), so every account
  was found and every index verified once (`OnceInOrder`, `FoundIsAccepted`).

**Relayer.** A transaction of the relayer does several of Clearing's steps at once, so
its lemmas are said of a buffer, not of a step (`BufferRun`, `StagingDone`,
`SettleDone`). The invariant is in three layers, each a conjunction of named parts.

- `AccountsInOrder` needs no process: it is `ClearingInv` with what holds of any
  transaction under way (`SentOK`: it names a buffer that was opened and, if it seals,
  an offset already drawn), what buffers hold (`BuffersFull`: only fully signed records
  of one kind and route), what results and outputs carry, and what no relayer changes
  (`Setting`: headers, payers, accounts, `settled + locked`). It survives every process, crash and
  late landing because nothing in it looks at a process.
- `ProcessOK` says where the running process is, by what it remembers and what of its own
  is still under way (`Own`). Two facts carry it. `OwnBuffer`: the buffer of a running
  gateway is named by nobody else's transactions, since an address is opened once and
  what a dead process sent names its own buffers. `Underway`: the buffer *together with*
  what is still to land holds the batch, each record in its place or in exactly such a
  chunk, with the reset before everything else; so any order of landing gives the same
  batch, and `BatchSealedAsPlanned` is what is left of it when nothing is under way.
  `AtSettle` says that the settlement under way and the list still to do are verified and
  name no record twice, and that without a fault they are just what is not applied. That
  gives `OnlyForestallingRefuses`: other settlements of the same channels only move
  watermarks, which refuses nobody (`VerifiedIsReady`), so what refuses an own settlement
  is an applied record, and without a fault there is none. The clean-up works
  on buffers that others still write: `Remains` says that the result it fetched is the
  same batch or gone, and that what was seen verified and is not applied is in its
  settlement or its list; for the clean-up, `OwnCloseDropsNothingSeen` is `Remains({})`. For
  the gateway it is `PaidUp`, which follows from the assertions before its close and
  `HoldsOnly`, that its last batch is of its session; watermarks never fall, so it stays.
- `AsPlanned` is about a run without a fault. Then everything sent is the gateway's
  (`sent = Own`), offsets drawn are the computations queued (`instance = drawn`), what is
  claimed has run (`Ran`), every batch before the one under way has reached its targets
  (`Reached`) and no channel is beyond those of this one (`Within`). So a record to be
  staged has its base reached and its target ahead (`RecordStageable`), each chunk, seal,
  settlement and close is accepted in whatever order it lands (`SentIsAccepted`), every
  verdict is full (`VerdictIsFull`), the assertions of step 6 hold as the batches together
  are all records (`AllReached`), and no process dies: `OnlyFaultsCrash`. It has no
  meaning without `AtStage` and `AtAwait` above, which say what the chunks are.

`RelayerPaysOwners` needs only `AccountsInOrder`: whatever lands, a settlement appends to
each channel the units it passes, each paid to the one owner that a commitment names
(`UnitsSignedOnce` makes it one), so that `settled` and `paidFrom` take steps of `Payments`.

**Layout.** `LayoutInv` is `RecordsWhole` for every staged index, with types and the
facts about a sealed batch. The arithmetic is that columns of `Before * BatchSize`
slots do not overlap, for any batch size and number of allocations (`RowFits`,
`RowUnique`, `ColumnsApart`, `SlotUnique`, `BeforeGatewayKey`). `WritesOneRecord` and
`PadsWholeRecords` then say what staging and sealing leave whole.

**Codec.** `Commitment` is pure: what is written is read back, and whatever is read was
written. `Powers` and `LEValue` are recursive functions, so their proofs start
from the induction of `PayoutProofs`: a number that fits n bytes is what they are worth
(`NumberReadsBack`), bytes are those of the number they are worth (`BytesReadBack`), and
a pair of words in a slot is both words (`PairReadsBack`, `PairBytes`). Sequences of
words follow (`WordsAre`, `WordsReadBack`, `ReadWordsAreBytes`), then messages:

- `BodyDiffers`: padding hides no allocation, as the count is one of the words; so
  messages of one kind and domain with the same bytes are the same (`EncodeDiffers`).
- `EncodedDecodes`, `DecodedIs`: a message decodes to itself, and bytes decode to a
  message only if they are its encoding. The kind and the length of the bytes leave one
  decoder to answer.
- `DecodersAgree`: the program sums in 64 bits and takes the count as a byte. A
  count above the limit is refused before it is cut (`CountFits`), and a sum that does
  not fit exceeds the increase, which fits; without these the decoders would differ,
  as the mutants `CountByteFits` and `WrappedSum` do on small bytes.

Records of a route have different lengths. `RouteReadsBack` says that one of them, at
any offset and whatever follows, is read as itself; `RouteReads` that what is read is a
record whose bytes are there. The parser goes through the data from the front, as a
recursive function over offsets: from any offset there is at most one sequence of
records to the end (`ReadOnce`), and `RoutesReadBack` follows. Direct records have one length
(`UnisReadBack`).

**Wire.** The invariant `WireInv` joins three. `CanonicalInv`: a canonical message is
untouched until it is altered, which gives the first two theorems by the codec.
`DeliveredInv`: the same of instruction data, which gives `RecordsKeptApart`.
`LayoutInv` with `StagedOfBatch`: every record in the buffer is of the buffer's kind and
of a channel that was checked, whether it came as it was sent or was read in altered data
(`ArrivingStep`). `WholeIsSettled` then needs no step: from a record in its slots
(`RecordsWhole`), settlement reads its commitment (`UniSettles`, `RouteSettled`), and the
circuit rebuilds from the same slots the very bytes that were signed
(`RoutePreimage`, `PreimageIs`); since these determine the message (`EncodingIsUnique`),
the bit is that of a signature over this message and no other.

### Only model-checked

- `EveryCommitmentPaid` is a liveness property, and `ImplementsPayments` has one among
  its parts: both rest on fairness, which is outside the prover. The other parts of
  `ImplementsPayments`, its initial states and its steps, are `RelayerPaysOwners`.

## 5. Not modelled

- The derivation of the message domain (`domain.rs`): a hash of constants, run once.
  That two deployments differ in it is the hash's business.
- The one-time Arcium set-up instructions and the client's `ensure*` calls, which keep
  no protocol state; cluster membership, fees and the mempool.
- Events, error codes and logging.
- Transaction sizes, lookup tables, rent amounts and compute limits; the sizes show
  only as the free choice of where to cut.
- The demonstration around the gateway's loop (creating participants and channels,
  signing, the final report), and the cost and rent scripts.

## 6. Plan

What would add most next:

1. A provider that serves against a signed commitment and a collateral window and is
   paid: `CollateralWindow` composed with `Relayer`.
