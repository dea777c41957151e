------------------------------- MODULE Custody -------------------------------
(***************************************************************************)
(* The money of the protocol: the vault of each mint, the free balances of *)
(* the participants and the collateral locked in the slots of the channel  *)
(* buckets.  One action per instruction of instructions/{balance,channel}  *)
(* and admin/token.rs; an instruction is atomic, a failed require! leaves  *)
(* no trace.  Settlement appears here only as what it may do to the money  *)
(* (Settle); module Clearing has the instruction itself.                   *)
(***************************************************************************)
EXTENDS Integers, FiniteSets, TokenSums

CONSTANTS
    Participants,  \* registered participants (Participant PDAs)
    Mints,         \* SPL mints
    Buckets,       \* channel bucket accounts
    Slots,         \* slots of a bucket (256 in the code)
    NoOne,         \* "no payer yet", a free slot
    Unopened,      \* header of a bucket account that is still zeroed
    MaxU64,        \* largest u64 (2^64 - 1)
    Supply,        \* tokens of a mint in circulation, SPL's u64 supply
    Timelock,      \* config.channel_timelock_seconds
    MaxTime        \* bound on the clock, for model checking

ASSUME FiniteInstance == IsFiniteSet(Participants) /\ IsFiniteSet(Buckets) /\ IsFiniteSet(Slots)
ASSUME NumbersAreU64 == /\ MaxU64 \in Nat /\ Supply \in 0..MaxU64
                        /\ Timelock \in Nat \ {0} /\ MaxTime \in Nat
ASSUME NoOneIsNobody == NoOne \notin Participants

Channels == Buckets \X Slots
U64 == 0..MaxU64
Direct == "direct"
Routed == "routed"
Header == [payee : Participants, mint : Mints, kind : {Direct, Routed}]

ASSUME UnopenedIsNoHeader == Unopened \notin Header

VARIABLES
    now,             \* Clock::unix_timestamp
    listed,          \* mints with a TokenConfig
    depositsEnabled, \* TokenConfig.deposits_enabled
    vault,           \* tokens in the vault of a mint
    opened,          \* <<participant, mint>> with a Balance account
    available,       \* Balance.available
    bucket,          \* header of a bucket: payee, mint, kind
    payer,           \* ChannelBucket.payers, NoOne while the slot is free
    locked,          \* ChannelBucket.locked_balance
    settled,         \* ChannelBucket.settled_cumulative
    pendingAmount,   \* ChannelBucket.pending_unlock_amount
    pendingAt        \* ChannelBucket.pending_unlock_at

tokenVars == <<listed, depositsEnabled>>
identity == <<bucket, payer>>
pending == <<pendingAmount, pendingAt>>
custodyVars == <<now, listed, depositsEnabled, vault, opened, available,
                 bucket, payer, locked, settled, pendingAmount, pendingAt>>

Init ==
    /\ now = 0
    /\ listed = {}
    /\ depositsEnabled = [m \in Mints |-> FALSE]
    /\ vault = [m \in Mints |-> 0]
    /\ opened = {}
    /\ available = [m \in Mints |-> [p \in Participants |-> 0]]
    /\ bucket = [b \in Buckets |-> Unopened]
    /\ payer = [c \in Channels |-> NoOne]
    /\ locked = [c \in Channels |-> 0]
    /\ settled = [c \in Channels |-> 0]
    /\ pendingAmount = [c \in Channels |-> 0]
    /\ pendingAt = [c \in Channels |-> 0]

-----------------------------------------------------------------------------
(* What a channel belongs to.                                              *)

HoldsCollateral(c) == locked[c] > 0                 \* mutant of Occupied
Occupied(c) == payer[c] # NoOne
HeaderOf(c) == bucket[c[1]]
InMint(c, m) == HeaderOf(c) # Unopened /\ HeaderOf(c).mint = m
PaysDirectly(c, m, p) == InMint(c, m) /\ HeaderOf(c).kind = Direct /\ HeaderOf(c).payee = p

\* The part of an amount per channel that is denominated in mint m.
OfMint(f, m) == [c \in Channels |-> IF InMint(c, m) THEN f[c] ELSE 0]

Credit(m, p, amount) == available' = [available EXCEPT ![m][p] = @ + amount]
Debit(m, p, amount) == available' = [available EXCEPT ![m][p] = @ - amount]
KeepPending(c) == UNCHANGED pending                 \* mutant of ClearPending
ClearPending(c) ==
    /\ pendingAmount' = [pendingAmount EXCEPT ![c] = 0]
    /\ pendingAt' = [pendingAt EXCEPT ![c] = 0]

-----------------------------------------------------------------------------
(* Token allowlist and clock.                                              *)

Tick ==
    /\ now < MaxTime
    /\ now' = now + 1
    /\ UNCHANGED <<tokenVars, vault, opened, available, identity, locked, settled, pending>>

RegisterToken(m) ==
    /\ m \notin listed
    /\ listed' = listed \cup {m}
    /\ depositsEnabled' = [depositsEnabled EXCEPT ![m] = TRUE]
    /\ UNCHANGED <<now, vault, opened, available, identity, locked, settled, pending>>

SetTokenDepositEnabled(m, enabled) ==
    /\ m \in listed
    /\ depositsEnabled' = [depositsEnabled EXCEPT ![m] = enabled]
    /\ UNCHANGED <<now, listed, vault, opened, available, identity, locked, settled, pending>>

-----------------------------------------------------------------------------
(* Balances.                                                               *)

OpenBalance(p, m) ==
    /\ m \in listed
    /\ <<p, m>> \notin opened
    /\ opened' = opened \cup {<<p, m>>}
    /\ UNCHANGED <<now, tokenVars, vault, available, identity, locked, settled, pending>>

Deposit(p, m, amount) ==
    /\ amount > 0
    /\ <<p, m>> \in opened
    /\ depositsEnabled[m]
    /\ amount <= Supply - vault[m]               \* the funder's tokens
    /\ available[m][p] + amount <= MaxU64        \* checked_add
    /\ vault' = [vault EXCEPT ![m] = @ + amount]
    /\ Credit(m, p, amount)
    /\ UNCHANGED <<now, tokenVars, opened, identity, locked, settled, pending>>

\* A transfer from the vault to itself leaves the vault as it is.
TransferOut(m, amount, destination) ==
    vault' = IF destination = "vault" THEN vault ELSE [vault EXCEPT ![m] = @ - amount]

AnyDestination(destination) == TRUE                 \* mutant of AllowedDestination
AllowedDestination(destination) == destination # "vault"

\* Mutant of Withdraw: the balance is not looked at.
WithdrawUnchecked(p, m, amount, destination) ==
    /\ amount \in 1 .. vault[m]
    /\ <<p, m>> \in opened
    /\ TransferOut(m, amount, destination)
    /\ Debit(m, p, amount)
    /\ UNCHANGED <<now, tokenVars, opened, identity, locked, settled, pending>>

WithdrawAccepted(p, m, amount, destination) ==
    /\ amount > 0
    /\ <<p, m>> \in opened
    /\ amount <= available[m][p]
    /\ AllowedDestination(destination)
    /\ amount <= vault[m]                        \* SPL refuses an overdraft

Withdraw(p, m, amount, destination) ==
    /\ WithdrawAccepted(p, m, amount, destination)
    /\ TransferOut(m, amount, destination)
    /\ Debit(m, p, amount)
    /\ UNCHANGED <<now, tokenVars, opened, identity, locked, settled, pending>>

-----------------------------------------------------------------------------
(* Channels.                                                               *)

InitializeChannelBucket(b, p, m, kind) ==
    /\ bucket[b] = Unopened
    /\ m \in listed
    /\ <<p, m>> \in opened
    /\ bucket' = [bucket EXCEPT ![b] = [payee |-> p, mint |-> m, kind |-> kind]]
    /\ UNCHANGED <<now, tokenVars, vault, opened, available, payer, locked, settled, pending>>

PayeeHasBalance(c, p) == <<HeaderOf(c).payee, HeaderOf(c).mint>> \in opened  \* mutant
HaveBalances(c, p) == {<<p, HeaderOf(c).mint>>, <<HeaderOf(c).payee, HeaderOf(c).mint>>} \subseteq opened

CreateChannel(c, p) ==
    /\ HeaderOf(c) # Unopened
    /\ p # HeaderOf(c).payee
    /\ HaveBalances(c, p)
    /\ ~Occupied(c)
    /\ payer' = [payer EXCEPT ![c] = p]
    /\ UNCHANGED <<now, tokenVars, vault, opened, available, bucket, locked, settled, pending>>

\* payer_slot: every payer instruction names an occupied slot of its signer.
PayerOp(c) == HeaderOf(c) # Unopened /\ Occupied(c)

LockChannelFunds(c, amount) ==
    LET p == payer[c]  m == HeaderOf(c).mint
    IN  /\ amount > 0
        /\ PayerOp(c)
        /\ amount <= available[m][p]
        /\ locked[c] + amount <= MaxU64          \* checked_add
        /\ Debit(m, p, amount)
        /\ locked' = [locked EXCEPT ![c] = @ + amount]
        /\ ClearPending(c)
        /\ UNCHANGED <<now, tokenVars, vault, opened, identity, settled>>

ShortTimelock == now + Timelock - 1                 \* mutant of UnlockTime
UnlockTime == now + Timelock

RequestUnlock(c, amount) ==
    /\ amount > 0
    /\ PayerOp(c)
    /\ amount <= locked[c]
    /\ pendingAmount' = [pendingAmount EXCEPT ![c] = amount]
    /\ pendingAt' = [pendingAt EXCEPT ![c] = UnlockTime]
    /\ UNCHANGED <<now, tokenVars, vault, opened, available, identity, locked, settled>>

CancelUnlock(c) ==
    /\ PayerOp(c)
    /\ pendingAmount[c] > 0
    /\ ClearPending(c)
    /\ UNCHANGED <<now, tokenVars, vault, opened, available, identity, locked, settled>>

WholeRequest(a, b) == a                             \* mutant of Smaller
Smaller(a, b) == IF a <= b THEN a ELSE b

\* checked_sub and checked_add
ReleaseAccepted(c, released) ==
    /\ locked[c] >= released
    /\ available[HeaderOf(c).mint][payer[c]] + released <= MaxU64

\* Collateral returns to the payer's free balance; any request is used up.
Release(c, released) ==
    /\ ReleaseAccepted(c, released)
    /\ locked' = [locked EXCEPT ![c] = @ - released]
    /\ ClearPending(c)
    /\ Credit(HeaderOf(c).mint, payer[c], released)
    /\ UNCHANGED <<now, tokenVars, vault, opened, identity, settled>>

AlmostMatured(c) == now + 1 >= pendingAt[c]         \* mutant of Matured
Matured(c) == now >= pendingAt[c]

UnlockedAmount(c) == Smaller(pendingAmount[c], locked[c])
ExecuteUnlockAccepted(c) ==
    /\ PayerOp(c)
    /\ pendingAmount[c] > 0
    /\ Matured(c)
    /\ ReleaseAccepted(c, UnlockedAmount(c))

ExecuteUnlock(c) == ExecuteUnlockAccepted(c) /\ Release(c, UnlockedAmount(c))

\* Signed by both sides of the channel.
CooperativeUnlock(c, amount) ==
    /\ amount > 0
    /\ PayerOp(c)
    /\ Smaller(amount, locked[c]) > 0
    /\ Release(c, Smaller(amount, locked[c]))

-----------------------------------------------------------------------------
(* What one settlement instruction may do to the money: moved[c] leaves    *)
(* the collateral of channel c, paid[m][p] reaches the balance of p.  A    *)
(* direct channel pays its payee alone; a routed channel pays whoever its  *)
(* commitments name.  Nothing else is touched, pending unlocks included.   *)

Settle(moved, paid) ==
    /\ \A c \in Channels : moved[c] <= locked[c] /\ settled[c] + moved[c] <= MaxU64
    /\ \A m \in Mints :
         /\ Total(paid[m]) = Total(OfMint(moved, m))
         /\ \A p \in Participants :
              /\ paid[m][p] > 0 => <<p, m>> \in opened
              /\ available[m][p] + paid[m][p] <= MaxU64
              /\ paid[m][p] >= Total([c \in Channels |-> IF PaysDirectly(c, m, p)
                                                           THEN moved[c] ELSE 0])
    /\ locked' = [c \in Channels |-> locked[c] - moved[c]]
    /\ settled' = [c \in Channels |-> settled[c] + moved[c]]
    /\ available' = [m \in Mints |-> [p \in Participants |-> available[m][p] + paid[m][p]]]
    /\ UNCHANGED <<now, tokenVars, vault, opened, identity, pending>>

\* Only an occupied slot can be named (slot_for_channel_id).
Movable == {moved \in [Channels -> U64] :
              \A c \in Channels : moved[c] <= locked[c] /\ (moved[c] > 0 => Occupied(c))}
Payouts == [Mints -> [Participants -> U64]]
SettleChannels == \E moved \in Movable : \E paid \in Payouts : Settle(moved, paid)

-----------------------------------------------------------------------------

BalanceStep ==
    \E p \in Participants, m \in Mints :
       \/ OpenBalance(p, m)
       \/ \E amount \in U64 : Deposit(p, m, amount)
       \/ \E amount \in U64, d \in {"wallet", "vault"} : Withdraw(p, m, amount, d)
       \/ \E b \in Buckets, k \in {Direct, Routed} : InitializeChannelBucket(b, p, m, k)

TokenStep ==
    \E m \in Mints : \/ RegisterToken(m)
                     \/ \E e \in BOOLEAN : SetTokenDepositEnabled(m, e)

PayerStep ==
    \E c \in Channels :
       \/ \E p \in Participants : CreateChannel(c, p)
       \/ \E amount \in U64 : LockChannelFunds(c, amount)
       \/ \E amount \in U64 : RequestUnlock(c, amount)
       \/ CancelUnlock(c)
       \/ ExecuteUnlock(c)

BothStep == \E c \in Channels, amount \in U64 : CooperativeUnlock(c, amount)

Next == Tick \/ TokenStep \/ BalanceStep \/ PayerStep \/ BothStep \/ SettleChannels

Spec == Init /\ [][Next]_custodyVars

-----------------------------------------------------------------------------
(* Properties.                                                             *)

\* Balances and the vault stay within u64 and the supply, no subtraction underflows:
\* every checked_add and checked_sub of balance/mod.rs and channel/mod.rs does its work.
TypeOK ==
    /\ now \in 0..MaxTime
    /\ listed \subseteq Mints
    /\ depositsEnabled \in [Mints -> BOOLEAN]
    /\ vault \in [Mints -> 0..Supply]
    /\ opened \subseteq Participants \X Mints
    /\ available \in [Mints -> [Participants -> U64]]
    /\ bucket \in [Buckets -> Header \cup {Unopened}]
    /\ payer \in [Channels -> Participants \cup {NoOne}]
    /\ locked \in [Channels -> U64]
    /\ settled \in [Channels -> U64]
    /\ pendingAmount \in [Channels -> U64]
    /\ pendingAt \in [Channels -> Nat]

\* state/balance.rs: vault.amount == sum(Balance.available) + sum(locked_balance),
\* after every interleaving of deposits, withdrawals, locks, unlocks and settlements.
Solvency ==
    \A m \in Mints : vault[m] = Total(available[m]) + Total(OfMint(locked, m))

\* Money is only where an account exists to hold it: a free slot, an unopened
\* bucket or a missing Balance account holds nothing.
NothingOutsideAccounts ==
    /\ \A c \in Channels : Occupied(c) => /\ HeaderOf(c) # Unopened
                                          /\ <<payer[c], HeaderOf(c).mint>> \in opened
    /\ \A c \in Channels : ~Occupied(c) => locked[c] = 0 /\ settled[c] = 0 /\ pendingAmount[c] = 0
    /\ \A m \in Mints, p \in Participants : <<p, m>> \notin opened => available[m][p] = 0

\* A paused mint, a partial settlement or a full balance never freezes money: an
\* instruction to withdraw all of a free balance is never refused, nor one to execute a
\* matured request.
FundsNeverFrozen ==
    /\ \A m \in Mints, p \in Participants :
         available[m][p] > 0 => WithdrawAccepted(p, m, available[m][p], "wallet")
    /\ \A c \in Channels :
         pendingAmount[c] > 0 /\ Matured(c) => ExecuteUnlockAccepted(c)

\* A slot belongs to its payer, and a bucket to its payee and mint, for ever, and
\* the settled watermark never goes back: a signed commitment keeps its meaning.
ChannelIdentityPermanent ==
    [][/\ \A b \in Buckets : bucket[b] # Unopened => bucket'[b] = bucket[b]
       /\ \A c \in Channels : /\ payer[c] # NoOne => payer'[c] = payer[c]
                              /\ settled'[c] >= settled[c]]_custodyVars
=============================================================================
