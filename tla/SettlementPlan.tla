---------------------------- MODULE SettlementPlan ----------------------------
(***************************************************************************)
(* One settle_channels instruction as it is built and run.  The client     *)
(* (settlementInstruction) numbers the accounts once each and groups the   *)
(* commitments by source bucket and primary balance; the program walks the *)
(* groups, works on a copy of the primary balance that it writes back when *)
(* the group ends, and loads every provider's balance where the flattened  *)
(* list says.  Clearing takes all this for paying the records one by one.  *)
(***************************************************************************)
EXTENDS Clearing, Functions

CONSTANTS
    Batches,      \* batches of records, each of one kind and all verified
    MaxAccounts   \* accounts an instruction can number with a u8: 256

Buffer == CHOOSE s \in Stagings : TRUE

ASSUME OneBuffer == Stagings # {} /\ Offsets # {} /\ MaxInstances >= 1 /\ MaxAccounts \in Nat

\* What stage_records lets into one buffer while nothing has been settled: commitments of
\* occupied slots, of one kind and, if routed, valid, from the watermark and of one route.
\* A direct commitment has no allocations.
ASSUME BatchesAreStaged ==
    \A batch \in Batches :
       /\ Len(batch) = BatchSize
       /\ \A n \in 1 .. BatchSize :
            LET k == batch[n]
                header == Layout[k.channel[1]]
                first == Layout[batch[1].channel[1]]
            IN  /\ k \in Commitments /\ Payers[k.channel] # NoOne
                /\ header \in Header /\ header.kind = first.kind
                /\ header.kind = Direct => k.allocations = <<>>
                /\ header.kind = Routed =>
                     /\ Validate(k) /\ k.base = 0
                     /\ \A a \in DOMAIN k.allocations : k.allocations[a].id # header.payee
                     /\ <<header.payee, header.mint>> = <<first.payee, first.mint>>

\* The batch in the buffer.
BatchKind == staging[Buffer].kind
Batch == [n \in 1 .. BatchSize |-> staging[Buffer].slots[n - 1].com]

-----------------------------------------------------------------------------
(* The client.                                                             *)

BucketOf(k) == <<"bucket", k.channel[1]>>
BalanceOf(p, m) == <<"balance", p, m>>
MintOf(k) == HeaderOf(k.channel).mint

\* accountsFor of the gateway and of settle-leftovers: bucket, primary, providers.
AccountsFor(k) ==
    <<BucketOf(k), BalanceOf(Gateway(k), MintOf(k))>>
      \o [a \in DOMAIN k.allocations |-> BalanceOf(k.allocations[a].id, MintOf(k))]

Number(table, account) == CHOOSE n \in DOMAIN table : table[n] = account
AddedOne(table, account) == IF account \in Range(table) THEN table ELSE Append(table, account)
Added(table, accounts) ==
    LET t[a \in 0 .. Len(accounts)] == IF a = 0 THEN table ELSE AddedOne(t[a - 1], accounts[a])
    IN  t[Len(accounts)]

EmptyGroup(source, primary) ==
    [source |-> source, primary |-> primary, indices |-> <<>>, providers |-> <<>>]

Joined(groups, g, i, providers) ==
    [groups EXCEPT ![g].indices = Append(@, i), ![g].providers = @ \o providers]

\* The record joins the group of its bucket and primary balance, or opens one.
Placed(groups, i, numbers) ==
    LET mine == {g \in DOMAIN groups : /\ groups[g].source = numbers[1]
                                       /\ groups[g].primary = numbers[2]}
        wider == IF mine = {} THEN Append(groups, EmptyGroup(numbers[1], numbers[2]))
                              ELSE groups
        g == IF mine = {} THEN Len(wider) ELSE CHOOSE n \in mine : TRUE
    IN  Joined(wider, g, i, SubSeq(numbers, 3, Len(numbers)))

Grouped(plan, i) ==
    LET accounts == AccountsFor(Batch[i + 1])
        table == Added(plan.table, accounts)
    IN  [table |-> table,
         groups |-> Placed(plan.groups, i, [a \in DOMAIN accounts |-> Number(table, accounts[a])])]

NoPlan == [table |-> <<>>, groups |-> <<>>]
PlanOf(order) ==
    LET plan[n \in 0 .. Len(order)] == IF n = 0 THEN NoPlan ELSE Grouped(plan[n - 1], order[n])
    IN  plan[Len(order)]

-----------------------------------------------------------------------------
(* The program.  A run is the money so far, the copy of the group's        *)
(* primary balance and whether it changed, the place in the group's        *)
(* provider accounts, what moved in all, and whether every check passed.   *)

Stored(money, account) == money.available[account[3]][account[2]]
Store(money, account, amount) == [money EXCEPT !.available[account[3]][account[2]] = amount]
Paid(money, k, account, amount) == [money EXCEPT !.paidFrom[k.channel][account[2]] = @ + amount]

FromFirst(run, a) == a                              \* mutant of ProviderIndex
ProviderIndex(run, a) == run.cursor + a

\* A provider's balance is loaded, credited and written back at once, so that the next
\* allocation of the same provider finds it.
PayProvider(run, plan, group, k, a, amount) ==
    LET account == plan.table[group.providers[ProviderIndex(run, a)]]
        after == Stored(run.money, account) + amount
    IN  [run EXCEPT
           !.ok = /\ @
                  /\ account = BalanceOf(k.allocations[a].id, staging[Buffer].route[2])
                  /\ account # plan.table[group.primary]
                  /\ <<account[2], account[3]>> \in opened
                  /\ after <= MaxU64,
           !.money = Paid(Store(@, account, after), k, account, amount)]

ProvidersPaid(run, plan, group, k, pieces) ==
    LET paid[a \in 0 .. Len(k.allocations)] ==
          IF a = 0 THEN run ELSE PayProvider(paid[a - 1], plan, group, k, a, pieces[a])
    IN  paid[Len(k.allocations)]

\* The copy is credited; the stored balance stays as it was.
CreditPrimary(run, primary, k, amount) ==
    [run EXCEPT !.copy = @ + amount,
                !.changed = @ \/ amount > 0,
                !.ok = @ /\ run.copy + amount <= MaxU64,
                !.money = Paid(@, k, primary, amount)]

\* The bucket is written where it lies: the next record of its channel sees it.
Drawn(money, k, moved) ==
    [money EXCEPT !.locked[k.channel] = @ - moved, !.settled[k.channel] = @ + moved]
MoveFromBucket(run, k, moved) ==
    [run EXCEPT !.money = Drawn(@, k, moved), !.moved = @ + moved]

\* A record that moves nothing is no error.
RecordAccepted(plan, group, k, old, moved) ==
    /\ plan.table[group.source] = BucketOf(k)
    /\ BatchKind = Routed => PayoutAccepted(k, old, old + moved)

SettleRecord(run, plan, group, i) ==
    LET k == staging[Buffer].slots[i].com
        old == run.money.settled[k.channel]
        moved == MovedBy(run.money, k)
        pieces == Pieces(k, old, old + moved)
        fee == IF BatchKind = Direct THEN moved ELSE GatewayFee(k, old, old + moved)
        paid == ProvidersPaid(MoveFromBucket(run, k, moved), plan, group, k, pieces)
    IN  [CreditPrimary(paid, plan.table[group.primary], k, fee) EXCEPT
           !.ok = @ /\ RecordAccepted(plan, group, k, old, moved),
           !.cursor = @ + Len(k.allocations)]

NeverWritten(run, primary) == run.money             \* mutant of WrittenBack
\* exit(): the copy replaces the stored balance.
WrittenBack(run, primary) ==
    IF run.changed THEN Store(run.money, primary, run.copy) ELSE run.money

\* The balance is the payee's, in the bucket's mint; the bucket is of the batch's route.
GroupAccepted(plan, group) ==
    LET source == plan.table[group.source]
        primary == plan.table[group.primary]
        header == bucket[source[2]]
    IN  /\ header.kind = BatchKind
        /\ primary = BalanceOf(header.payee, header.mint)
        /\ <<header.payee, header.mint>> \in opened
        /\ BatchKind = Routed => <<header.payee, header.mint>> = staging[Buffer].route

Loaded(run, primary) ==
    [run EXCEPT !.copy = Stored(run.money, primary), !.changed = FALSE, !.cursor = 0]
RecordsSettled(run, plan, group) ==
    LET r[j \in 0 .. Len(group.indices)] ==
          IF j = 0 THEN run ELSE SettleRecord(r[j - 1], plan, group, group.indices[j])
    IN  r[Len(group.indices)]

SettleGroup(run, plan, group) ==
    LET primary == plan.table[group.primary]
        ended == RecordsSettled(Loaded(run, primary), plan, group)
    IN  [ended EXCEPT !.money = WrittenBack(ended, primary),
                      !.ok = @ /\ GroupAccepted(plan, group) /\ ended.moved <= MaxU64]

Before == [money |-> Money, copy |-> 0, changed |-> FALSE, cursor |-> 0, moved |-> 0, ok |-> TRUE]
RunOf(plan) ==
    LET r[g \in 0 .. Len(plan.groups)] ==
          IF g = 0 THEN Before ELSE SettleGroup(r[g - 1], plan, plan.groups[g])
    IN  r[Len(plan.groups)]

\* What is checked of the whole plan before any money moves.
PlanAccepted(plan) ==
    LET groups == plan.groups
    IN  /\ Account(staging[Buffer]) /\ result[Buffer].verified
        /\ staging[Buffer].sealed /\ staging[Buffer].kind = result[Buffer].kind
        /\ groups # <<>>
        /\ \A g \in DOMAIN groups : \A a \in DOMAIN groups[g].indices :
             /\ Settleable(result[Buffer], groups[g].indices[a])
             /\ \A h \in DOMAIN groups : \A b \in DOMAIN groups[h].indices :
                  groups[g].indices[a] = groups[h].indices[b] => g = h /\ a = b

Buildable(order) == Len(PlanOf(order).table) <= MaxAccounts

SettleInstruction(order) ==
    LET plan == PlanOf(order)
        run == RunOf(plan)
    IN  /\ Buildable(order)
        /\ PlanAccepted(plan)
        /\ run.ok
        /\ locked' = run.money.locked
        /\ settled' = run.money.settled
        /\ available' = run.money.available
        /\ paidFrom' = run.money.paidFrom
        /\ result' = [result EXCEPT ![Buffer].applied = @ \cup {order[n] : n \in DOMAIN order}]
        /\ UNCHANGED <<now, tokenVars, vault, opened, identity, pending,
                       signatures, staging, arciumVars>>

-----------------------------------------------------------------------------
(* A verified batch, which Clearing reaches by opening, staging, sealing   *)
(* and one callback; payers go on locking.                                 *)

VerifiedBatch(batch, o) ==
    LET kind == HeaderOf(batch[1].channel).kind
    IN  /\ staging = [s \in Stagings |->
             [open |-> TRUE, kind |-> kind, sealed |-> TRUE,
              route |-> IF kind = Routed THEN RouteOf(batch[1]) ELSE NoRoute,
              staged |-> Indices,
              slots |-> [i \in Indices |-> [com |-> batch[i + 1], signed |-> Signers]]]]
        /\ result = [s \in Stagings |->
             [QueuedResult(kind, BatchSize, o, 1) EXCEPT !.verified = TRUE, !.bitmap = Indices]]

PInit ==
    /\ FundedMoney
    /\ signatures = [k \in Commitments |-> Signers]
    /\ \E batch \in Batches, o \in Offsets : VerifiedBatch(batch, o)
    /\ comp = [o \in Offsets |-> Closed] /\ outputs = {} /\ instance = 1

\* Collateral arrives in the channels of the batch.
LockMore ==
    \E c \in {Batch[n].channel : n \in DOMAIN Batch}, amount \in U64 :
       LockChannelFunds(c, amount) /\ UNCHANGED clearingVars

PNext ==
    \/ \E order \in Orders : SettleInstruction(order)
    \/ LockMore

PSpec == PInit /\ [][PNext]_vars

-----------------------------------------------------------------------------

\* Grouping, shared accounts and the copy of the primary balance change nothing: an
\* instruction pays as if its records were settled one after the other, so credits of
\* one group or record are never overwritten by the write-back of another.
InstructionPaysRecords == [][result' # result => SettleStep]_vars

\* The total that settle_channels reports, over all mints, is a u64 as well.
TotalFits(order) ==
    LET after == MoneyAfter(Buffer, order)
    IN  Total([n \in 1 .. Len(order) |->
                  MovedBy(after[n - 1], staging[Buffer].slots[order[n]].com)]) <= MaxU64

\* The client's plan is accepted whenever the records are: it is never refused for how
\* it numbers, shares or orders accounts.
PlanNeverRefused ==
    \A order \in Orders :
       SettlementAccepted(Buffer, order) /\ TotalFits(order) /\ Buildable(order)
         => PlanAccepted(PlanOf(order)) /\ RunOf(PlanOf(order)).ok
=============================================================================
