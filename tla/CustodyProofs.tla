----------------------------- MODULE CustodyProofs -----------------------------
(***************************************************************************)
(* Custody is type correct, keeps money only in accounts that exist, and   *)
(* is solvent, for any number of participants, mints and channels.         *)
(***************************************************************************)
EXTENDS Custody, PayoutProofs

USE NumbersAreU64, FiniteInstance, NoOneIsNobody, UnopenedIsNoHeader

\* The payer and the mint of a channel a payer instruction names.
LEMMA PayerOpTypes ==
  ASSUME TypeOK, NEW c \in Channels, PayerOp(c)
  PROVE  /\ payer[c] \in Participants /\ c[1] \in Buckets
         /\ HeaderOf(c) \in Header /\ HeaderOf(c).mint \in Mints
         /\ HeaderOf(c).payee \in Participants
  BY DEF TypeOK, PayerOp, Occupied, HeaderOf, Header, Channels

\* Collateral given back stays a u64 on both sides.
LEMMA ReleaseTypes ==
  ASSUME TypeOK, NEW c \in Channels, PayerOp(c), NEW released \in U64, Release(c, released)
  PROVE  TypeOK'
<1>1. locked' \in [Channels -> U64]
  BY DEF Release, ReleaseAccepted, TypeOK, U64
<1>2. available' \in [Mints -> [Participants -> U64]]
  BY PayerOpTypes DEF Release, ReleaseAccepted, Credit, TypeOK, U64
<1>3. pendingAmount' \in [Channels -> U64] /\ pendingAt' \in [Channels -> Nat]
  BY DEF Release, ReleaseAccepted, ClearPending, TypeOK, U64
<1>4. QED
  BY <1>1, <1>2, <1>3 DEF Release, ReleaseAccepted, TypeOK, tokenVars, identity

\* The smaller of two amounts is an amount no larger than either.
LEMMA SmallerIsU64 ==
  ASSUME NEW a \in U64, NEW b \in U64
  PROVE  Smaller(a, b) \in U64 /\ Smaller(a, b) <= a /\ Smaller(a, b) <= b
  BY DEF Smaller, U64

\* Every instruction keeps the types; no subtraction goes below zero and no sum
\* past MaxU64.
LEMMA TypeStep ==
  ASSUME TypeOK, [Next]_custodyVars
  PROVE  TypeOK'
<1>1. CASE Tick
  BY <1>1 DEF Tick, TypeOK, tokenVars, identity, pending
<1>2. CASE TokenStep
  BY <1>2 DEF TokenStep, RegisterToken, SetTokenDepositEnabled, TypeOK, identity, pending
<1>3. CASE BalanceStep
  <2> SUFFICES ASSUME NEW p \in Participants, NEW m \in Mints,
                      \/ OpenBalance(p, m)
                      \/ \E amount \in U64 : Deposit(p, m, amount)
                      \/ \E amount \in U64, d \in {"wallet", "vault"} : Withdraw(p, m, amount, d)
                      \/ \E b \in Buckets, k \in {Direct, Routed} :
                            InitializeChannelBucket(b, p, m, k)
               PROVE  TypeOK'
    BY <1>3 DEF BalanceStep
  <2>1. CASE OpenBalance(p, m)
    BY <2>1 DEF OpenBalance, TypeOK, tokenVars, identity, pending
  <2>2. ASSUME NEW amount \in U64, Deposit(p, m, amount) PROVE TypeOK'
    <3>1. vault' \in [Mints -> 0..Supply] /\ available' \in [Mints -> [Participants -> U64]]
      BY <2>2 DEF Deposit, Credit, TypeOK, U64
    <3>2. QED
      BY <2>2, <3>1 DEF Deposit, TypeOK, tokenVars, identity, pending
  <2>3. ASSUME NEW amount \in U64, NEW d \in {"wallet", "vault"}, Withdraw(p, m, amount, d)
        PROVE  TypeOK'
    <3>1. vault' \in [Mints -> 0..Supply] /\ available' \in [Mints -> [Participants -> U64]]
      BY <2>3 DEF Withdraw, WithdrawAccepted, TransferOut, Debit, TypeOK, U64
    <3>2. QED
      BY <2>3, <3>1 DEF Withdraw, WithdrawAccepted, TypeOK, tokenVars, identity, pending
  <2>4. ASSUME NEW b \in Buckets, NEW k \in {Direct, Routed}, InitializeChannelBucket(b, p, m, k)
        PROVE  TypeOK'
    BY <2>4 DEF InitializeChannelBucket, TypeOK, Header, tokenVars, pending
  <2>5. QED
    BY <2>1, <2>2, <2>3, <2>4
<1>4. CASE PayerStep
  <2> SUFFICES ASSUME NEW c \in Channels,
                      \/ \E p \in Participants : CreateChannel(c, p)
                      \/ \E amount \in U64 : LockChannelFunds(c, amount)
                      \/ \E amount \in U64 : RequestUnlock(c, amount)
                      \/ CancelUnlock(c)
                      \/ ExecuteUnlock(c)
               PROVE  TypeOK'
    BY <1>4 DEF PayerStep
  <2>1. ASSUME NEW p \in Participants, CreateChannel(c, p) PROVE TypeOK'
    BY <2>1 DEF CreateChannel, TypeOK, tokenVars, pending
  <2>2. ASSUME NEW amount \in U64, LockChannelFunds(c, amount) PROVE TypeOK'
    <3>1. PayerOp(c) /\ amount <= available[HeaderOf(c).mint][payer[c]]
      BY <2>2 DEF LockChannelFunds
    <3>2. available' \in [Mints -> [Participants -> U64]]
      BY <2>2, <3>1, PayerOpTypes DEF LockChannelFunds, Debit, TypeOK, U64
    <3>3. /\ locked' \in [Channels -> U64]
          /\ pendingAmount' \in [Channels -> U64] /\ pendingAt' \in [Channels -> Nat]
      BY <2>2 DEF LockChannelFunds, ClearPending, TypeOK, U64
    <3>4. QED
      BY <2>2, <3>2, <3>3 DEF LockChannelFunds, TypeOK, tokenVars, identity
  <2>3. ASSUME NEW amount \in U64, RequestUnlock(c, amount) PROVE TypeOK'
    BY <2>3 DEF RequestUnlock, UnlockTime, TypeOK, tokenVars, identity
  <2>4. CASE CancelUnlock(c)
    BY <2>4 DEF CancelUnlock, ClearPending, TypeOK, U64, tokenVars, identity
  <2>5. CASE ExecuteUnlock(c)
    <3>1. Smaller(pendingAmount[c], locked[c]) \in U64
      BY SmallerIsU64 DEF TypeOK
    <3>2. QED
      BY <2>5, <3>1, ReleaseTypes DEF ExecuteUnlock, ExecuteUnlockAccepted, UnlockedAmount
  <2>6. QED
    BY <2>1, <2>2, <2>3, <2>4, <2>5
<1>5. CASE BothStep
  <2> SUFFICES ASSUME NEW c \in Channels, NEW amount \in U64, CooperativeUnlock(c, amount)
               PROVE  TypeOK'
    BY <1>5 DEF BothStep
  <2>1. Smaller(amount, locked[c]) \in U64
    BY SmallerIsU64 DEF TypeOK
  <2>2. QED
    BY <2>1, ReleaseTypes DEF CooperativeUnlock
<1>6. CASE SettleChannels
  <2> SUFFICES ASSUME NEW moved \in Movable, NEW paid \in Payouts, Settle(moved, paid)
               PROVE  TypeOK'
    BY <1>6 DEF SettleChannels
  <2>1. locked' \in [Channels -> U64] /\ settled' \in [Channels -> U64]
    BY DEF Settle, Movable, TypeOK, U64
  <2>2. available' \in [Mints -> [Participants -> U64]]
    <3>1. \A m \in Mints, p \in Participants :
             /\ available[m][p] \in U64 /\ paid[m][p] \in U64
             /\ available[m][p] + paid[m][p] <= MaxU64
      <4>1. \A m \in Mints, p \in Participants : available[m][p] \in U64
        BY DEF TypeOK
      <4>2. \A m \in Mints, p \in Participants : paid[m][p] \in U64
        BY DEF Payouts
      <4>3. \A m \in Mints, p \in Participants : available[m][p] + paid[m][p] <= MaxU64
        BY Zenon DEF Settle
      <4>4. QED
        BY <4>1, <4>2, <4>3
    <3>2. available' = [m \in Mints |-> [p \in Participants |-> available[m][p] + paid[m][p]]]
      BY DEF Settle
    <3>3. QED
      BY <3>1, <3>2 DEF U64
  <2>3. QED
    BY <2>1, <2>2 DEF Settle, TypeOK, tokenVars, identity, pending
<1>7. CASE UNCHANGED custodyVars
  BY <1>7 DEF custodyVars, TypeOK
<1>8. QED
  BY <1>1, <1>2, <1>3, <1>4, <1>5, <1>6, <1>7 DEF Next

\* Everything starts at zero.
LEMMA TypeInit == Init => TypeOK
  BY DEF Init, TypeOK, U64

\* Type correctness of the custody of funds: balances, collateral and watermarks are
\* always u64 values, and the vault never holds more than the supply.
THEOREM CustodyTypes == Spec => []TypeOK
<1>1. QED
  BY TypeInit, TypeStep, PTL DEF Spec

-----------------------------------------------------------------------------
(* Nothing outside accounts: what Solvency needs when a bucket is opened.  *)

\* Releasing collateral pays a payer, who has a Balance.
LEMMA ReleaseAccounts ==
  ASSUME TypeOK, NothingOutsideAccounts, NEW c \in Channels, PayerOp(c),
         NEW released \in U64, Release(c, released)
  PROVE  NothingOutsideAccounts'
<1>1. Occupied(c) /\ <<payer[c], HeaderOf(c).mint>> \in opened
  BY DEF PayerOp, NothingOutsideAccounts
<1>2. \A m \in Mints, p \in Participants : <<p, m>> \notin opened => available'[m][p] = 0
  BY <1>1, PayerOpTypes DEF Release, ReleaseAccepted, Credit, NothingOutsideAccounts, TypeOK
<1>3. \A x \in Channels : ~Occupied(x) =>
         locked'[x] = locked[x] /\ pendingAmount'[x] = pendingAmount[x]
  BY <1>1 DEF Release, ReleaseAccepted, ClearPending, TypeOK
<1>4. QED
  BY <1>2, <1>3 DEF Release, ReleaseAccepted, NothingOutsideAccounts, Occupied, HeaderOf, identity

\* No instruction puts money where no account is.
LEMMA AccountsStep ==
  ASSUME TypeOK, NothingOutsideAccounts, [Next]_custodyVars
  PROVE  NothingOutsideAccounts'
<1>1. CASE Tick
  BY <1>1 DEF Tick, NothingOutsideAccounts, Occupied, HeaderOf, identity, pending
<1>2. CASE TokenStep
  BY <1>2 DEF TokenStep, RegisterToken, SetTokenDepositEnabled, NothingOutsideAccounts,
              Occupied, HeaderOf, identity, pending
<1>3. CASE BalanceStep
  <2> SUFFICES ASSUME NEW p \in Participants, NEW m \in Mints,
                      \/ OpenBalance(p, m)
                      \/ \E amount \in U64 : Deposit(p, m, amount)
                      \/ \E amount \in U64, d \in {"wallet", "vault"} : Withdraw(p, m, amount, d)
                      \/ \E b \in Buckets, k \in {Direct, Routed} :
                            InitializeChannelBucket(b, p, m, k)
               PROVE  NothingOutsideAccounts'
    BY <1>3 DEF BalanceStep
  <2>1. CASE OpenBalance(p, m)
    BY <2>1 DEF OpenBalance, NothingOutsideAccounts, Occupied, HeaderOf, identity, pending
  <2>2. ASSUME NEW amount \in U64, Deposit(p, m, amount) PROVE NothingOutsideAccounts'
    BY <2>2 DEF Deposit, Credit, TypeOK, NothingOutsideAccounts, Occupied, HeaderOf, identity, pending
  <2>3. ASSUME NEW amount \in U64, NEW d \in {"wallet", "vault"}, Withdraw(p, m, amount, d)
        PROVE  NothingOutsideAccounts'
    BY <2>3 DEF Withdraw, WithdrawAccepted, Debit, TypeOK, NothingOutsideAccounts, Occupied, HeaderOf, identity, pending
  <2>4. ASSUME NEW b \in Buckets, NEW k \in {Direct, Routed}, InitializeChannelBucket(b, p, m, k)
        PROVE  NothingOutsideAccounts'
    <3>1. [payee |-> p, mint |-> m, kind |-> k] # Unopened
      BY DEF Header
    <3>2. \A c \in Channels : Occupied(c) => bucket'[c[1]] = bucket[c[1]]
      BY <2>4 DEF InitializeChannelBucket, NothingOutsideAccounts, HeaderOf, TypeOK, Channels
    <3>3. QED
      BY <2>4, <3>1, <3>2 DEF InitializeChannelBucket, NothingOutsideAccounts, Occupied, HeaderOf,
                              pending
  <2>5. QED
    BY <2>1, <2>2, <2>3, <2>4
<1>4. CASE PayerStep
  <2> SUFFICES ASSUME NEW c \in Channels,
                      \/ \E p \in Participants : CreateChannel(c, p)
                      \/ \E amount \in U64 : LockChannelFunds(c, amount)
                      \/ \E amount \in U64 : RequestUnlock(c, amount)
                      \/ CancelUnlock(c)
                      \/ ExecuteUnlock(c)
               PROVE  NothingOutsideAccounts'
    BY <1>4 DEF PayerStep
  <2>1. ASSUME NEW p \in Participants, CreateChannel(c, p) PROVE NothingOutsideAccounts'
    BY <2>1 DEF CreateChannel, HaveBalances, NothingOutsideAccounts, Occupied, HeaderOf, TypeOK, pending
  <2>2. ASSUME NEW amount \in U64, LockChannelFunds(c, amount) PROVE NothingOutsideAccounts'
    <3>1. PayerOp(c) /\ <<payer[c], HeaderOf(c).mint>> \in opened
      BY <2>2 DEF LockChannelFunds, PayerOp, NothingOutsideAccounts
    <3>2. \A m \in Mints, p \in Participants : <<p, m>> \notin opened => available'[m][p] = 0
      BY <2>2, <3>1, PayerOpTypes DEF LockChannelFunds, Debit, NothingOutsideAccounts, TypeOK
    <3>3. \A x \in Channels : ~Occupied(x) =>
             locked'[x] = locked[x] /\ pendingAmount'[x] = pendingAmount[x]
      BY <2>2, <3>1 DEF LockChannelFunds, ClearPending, PayerOp, TypeOK
    <3>4. QED
      BY <2>2, <3>2, <3>3 DEF LockChannelFunds, NothingOutsideAccounts, Occupied, HeaderOf, identity
  <2>3. ASSUME NEW amount \in U64, RequestUnlock(c, amount) PROVE NothingOutsideAccounts'
    BY <2>3 DEF RequestUnlock, PayerOp, NothingOutsideAccounts, Occupied, HeaderOf, TypeOK, identity
  <2>4. CASE CancelUnlock(c)
    BY <2>4 DEF CancelUnlock, ClearPending, PayerOp, NothingOutsideAccounts, Occupied, HeaderOf,
                TypeOK, identity
  <2>5. CASE ExecuteUnlock(c)
    <3>1. Smaller(pendingAmount[c], locked[c]) \in U64
      BY SmallerIsU64 DEF TypeOK
    <3>2. QED
      BY <2>5, <3>1, ReleaseAccounts DEF ExecuteUnlock, ExecuteUnlockAccepted, UnlockedAmount
  <2>6. QED
    BY <2>1, <2>2, <2>3, <2>4, <2>5
<1>5. CASE BothStep
  <2> SUFFICES ASSUME NEW c \in Channels, NEW amount \in U64, CooperativeUnlock(c, amount)
               PROVE  NothingOutsideAccounts'
    BY <1>5 DEF BothStep
  <2>1. Smaller(amount, locked[c]) \in U64
    BY SmallerIsU64 DEF TypeOK
  <2>2. QED
    BY <2>1, ReleaseAccounts DEF CooperativeUnlock
<1>6. CASE SettleChannels
  <2> SUFFICES ASSUME NEW moved \in Movable, NEW paid \in Payouts, Settle(moved, paid)
               PROVE  NothingOutsideAccounts'
    BY <1>6 DEF SettleChannels
  <2>1. \A c \in Channels : ~Occupied(c) => moved[c] = 0
    BY DEF Movable, U64
  <2>2. \A c \in Channels : ~Occupied(c) => locked'[c] = 0 /\ settled'[c] = 0
    BY <2>1 DEF Settle, NothingOutsideAccounts
  <2>3. \A m \in Mints, p \in Participants : <<p, m>> \notin opened => available'[m][p] = 0
    <3> SUFFICES ASSUME NEW m \in Mints, NEW p \in Participants, <<p, m>> \notin opened
                 PROVE  available'[m][p] = 0
      OBVIOUS
    <3>1. paid[m][p] \in U64 /\ available[m][p] = 0
      BY DEF Payouts, NothingOutsideAccounts
    <3>2. ~(paid[m][p] > 0)
      BY Zenon DEF Settle
    <3>3. available'[m][p] = available[m][p] + paid[m][p]
      BY DEF Settle
    <3>4. QED
      BY <3>1, <3>2, <3>3 DEF U64
  <2>4. QED
    BY <2>2, <2>3 DEF Settle, NothingOutsideAccounts, Occupied, HeaderOf, identity, pending
<1>7. CASE UNCHANGED custodyVars
  BY <1>7 DEF custodyVars, NothingOutsideAccounts, Occupied, HeaderOf
<1>8. QED
  BY <1>1, <1>2, <1>3, <1>4, <1>5, <1>6, <1>7 DEF Next

\* No account, no money.
LEMMA AccountsInit == Init => NothingOutsideAccounts
  BY DEF Init, NothingOutsideAccounts, Occupied, HeaderOf

\* No money and no request outside the accounts that exist.
THEOREM CustodyAccounts == Spec => []NothingOutsideAccounts
<1>1. TypeOK /\ NothingOutsideAccounts /\ [Next]_custodyVars
        => (TypeOK /\ NothingOutsideAccounts)'
  BY TypeStep, AccountsStep
<1>2. QED
  BY TypeInit, AccountsInit, <1>1, PTL DEF Spec

-----------------------------------------------------------------------------
(* Solvency.  Each instruction moves the same amount between at most two   *)
(* of the three places: the vault, a free balance, the collateral.         *)

\* Sums over channels range over a finite set.
LEMMA ChannelsFinite == IsFiniteSet(Channels)
  BY FS_Product DEF Channels

\* Collateral in one mint, channel by channel, is a natural number.
LEMMA OfMintTypes ==
  ASSUME NEW f \in [Channels -> U64], NEW m
  PROVE  OfMint(f, m) \in [Channels -> 0 .. MaxU64]
  BY DEF OfMint, U64

\* Balances of one mint are natural numbers.
LEMMA BalanceTypes ==
  ASSUME TypeOK, NEW m \in Mints
  PROVE  available[m] \in [Participants -> 0 .. MaxU64]
  BY DEF TypeOK, U64

\* The sum over the channels and the sum over a balance sheet, entry by entry.
LEMMA ChannelSums ==
  /\ \A f, h \in [Channels -> 0 .. MaxU64] : \A e \in Channels : \A n \in Nat :
       (h[e] = f[e] + n /\ \A x \in Channels \ {e} : h[x] = f[x]) => Total(h) = Total(f) + n
  /\ \A f, g, h \in [Channels -> 0 .. MaxU64] :
       (\A x \in Channels : h[x] = f[x] + g[x]) => Total(h) = Total(f) + Total(g)
  /\ \A f \in [Channels -> 0 .. MaxU64] : Total(f) \in Nat
<1>1. IsFiniteSet(Channels) /\ MaxU64 \in Nat
  BY ChannelsFinite
<1>2. \A f, h \in [Channels -> 0 .. MaxU64] : \A e \in Channels : \A n \in Nat :
        (h[e] = f[e] + n /\ \A x \in Channels \ {e} : h[x] = f[x]) => Total(h) = Total(f) + n
  BY <1>1, IncreaseAdds
<1>3. \A f, g, h \in [Channels -> 0 .. MaxU64] :
        (\A x \in Channels : h[x] = f[x] + g[x]) => Total(h) = Total(f) + Total(g)
  BY <1>1, SumsAdd
<1>4. \A f \in [Channels -> 0 .. MaxU64] : Total(f) \in Nat
  BY <1>1, TotalIsNat
<1>5. QED
  BY Zenon, <1>2, <1>3, <1>4

\* The sum of balances: one of them grows, or two ledgers are added.
LEMMA BalanceSums ==
  /\ \A f, h \in [Participants -> 0 .. MaxU64] : \A e \in Participants : \A n \in Nat :
       (h[e] = f[e] + n /\ \A x \in Participants \ {e} : h[x] = f[x]) => Total(h) = Total(f) + n
  /\ \A f, g, h \in [Participants -> 0 .. MaxU64] :
       (\A x \in Participants : h[x] = f[x] + g[x]) => Total(h) = Total(f) + Total(g)
  /\ \A f \in [Participants -> 0 .. MaxU64] : Total(f) \in Nat
<1>1. \A f, h \in [Participants -> 0 .. MaxU64] : \A e \in Participants : \A n \in Nat :
        (h[e] = f[e] + n /\ \A x \in Participants \ {e} : h[x] = f[x]) => Total(h) = Total(f) + n
  <2>1. IsFiniteSet(Participants) /\ MaxU64 \in Nat
    OBVIOUS
  <2>2. QED
    BY <2>1, IncreaseAdds
<1>2. \A f, g, h \in [Participants -> 0 .. MaxU64] :
        (\A x \in Participants : h[x] = f[x] + g[x]) => Total(h) = Total(f) + Total(g)
  BY SumsAdd
<1>3. \A f \in [Participants -> 0 .. MaxU64] : Total(f) \in Nat
  BY TotalIsNat
<1>4. QED
  BY Zenon, <1>1, <1>2, <1>3

\* One channel's collateral grows by n: so does the sum of its own mint alone.
LEMMA CollateralGrows ==
  ASSUME NEW f \in [Channels -> U64], NEW h \in [Channels -> U64], NEW c \in Channels,
         NEW n \in Nat, \A x \in Channels : h[x] = IF x = c THEN f[x] + n ELSE f[x], NEW m
  PROVE  Total(OfMint(h, m)) = Total(OfMint(f, m)) + (IF InMint(c, m) THEN n ELSE 0)
<1> DEFINE k == IF InMint(c, m) THEN n ELSE 0
<1>1. \A x \in Channels : OfMint(h, m)[x] = IF x = c THEN OfMint(f, m)[x] + k ELSE OfMint(f, m)[x]
  BY DEF OfMint, U64
<1>2. k \in Nat
  OBVIOUS
<1>3. OfMint(f, m) \in [Channels -> 0 .. MaxU64] /\ OfMint(h, m) \in [Channels -> 0 .. MaxU64]
  BY OfMintTypes
<1> DEFINE F == OfMint(f, m)
           H == OfMint(h, m)
<1> HIDE DEF k, F, H
<1>4. H[c] = F[c] + k /\ \A x \in Channels \ {c} : H[x] = F[x]
  BY <1>1 DEF F, H
<1>5. F \in [Channels -> 0 .. MaxU64] /\ H \in [Channels -> 0 .. MaxU64]
  BY <1>3 DEF F, H
<1>6. Total(H) = Total(F) + k
  BY <1>2, <1>4, <1>5, ChannelSums
<1>7. QED
  BY <1>6 DEF k, F, H

\* One entry of a mint's balance sheet differs by n: so do the sums.
LEMMA SheetGrows ==
  ASSUME NEW F \in [Participants -> U64], NEW H \in [Participants -> U64],
         NEW p \in Participants, NEW n \in Nat,
         H[p] = F[p] + n, \A q \in Participants \ {p} : H[q] = F[q]
  PROVE  Total(H) = Total(F) + n
<1>1. F \in [Participants -> 0 .. MaxU64] /\ H \in [Participants -> 0 .. MaxU64]
  BY DEF U64
<1>2. QED
  BY <1>1, BalanceSums

\* The sums of the ledger and the vault are natural numbers.
LEMMA TotalsAreNat ==
  ASSUME TypeOK, NEW m \in Mints
  PROVE  Total(available[m]) \in Nat /\ Total(OfMint(locked, m)) \in Nat /\ vault[m] \in Nat
<1>1. Total(available[m]) \in Nat
  BY BalanceTypes, BalanceSums
<1>2. Total(OfMint(locked, m)) \in Nat
  <2>1. locked \in [Channels -> U64]
    BY DEF TypeOK
  <2>2. OfMint(locked, m) \in [Channels -> 0 .. MaxU64]
    BY <2>1, OfMintTypes
  <2>3. QED
    BY <2>2, ChannelSums
<1>3. QED
  BY <1>1, <1>2 DEF TypeOK

\* Crediting a balance raises the sum of its mint alone, debiting it lowers that sum.
LEMMA CreditAdds ==
  ASSUME TypeOK, TypeOK', NEW m \in Mints, NEW p \in Participants, NEW n \in Nat,
         Credit(m, p, n), NEW x \in Mints
  PROVE  Total(available'[x]) = Total(available[x]) + (IF x = m THEN n ELSE 0)
<1>1. available[m] \in [Participants -> U64] /\ available'[m] \in [Participants -> U64]
  BY DEF TypeOK
<1>2. available'[m][p] = available[m][p] + n
  BY DEF Credit, TypeOK
<1>3. \A q \in Participants \ {p} : available'[m][q] = available[m][q]
  BY DEF Credit, TypeOK
<1>4. CASE x = m
  <2>1. Total(available'[m]) = Total(available[m]) + n
    BY <1>1, <1>2, <1>3, SheetGrows
  <2>2. QED
    BY <1>4, <2>1
<1>5. CASE x # m
  <2>1. available'[x] = available[x]
    BY <1>5 DEF Credit, TypeOK
  <2>2. QED
    BY <1>5, <2>1, TotalsAreNat
<1>6. QED
  BY <1>4, <1>5

\* A debit lowers the sum of balances by its amount.
LEMMA DebitSubtracts ==
  ASSUME TypeOK, TypeOK', NEW m \in Mints, NEW p \in Participants, NEW n \in Nat,
         Debit(m, p, n), NEW x \in Mints
  PROVE  Total(available[x]) = Total(available'[x]) + (IF x = m THEN n ELSE 0)
<1>1. available[m] \in [Participants -> U64] /\ available'[m] \in [Participants -> U64]
  BY DEF TypeOK
<1>2. available[m][p] = available'[m][p] + n
  BY DEF Debit, TypeOK, U64
<1>3. \A q \in Participants \ {p} : available[m][q] = available'[m][q]
  BY DEF Debit, TypeOK
<1>4. CASE x = m
  <2>1. Total(available[m]) = Total(available'[m]) + n
    BY <1>1, <1>2, <1>3, SheetGrows
  <2>2. QED
    BY <1>4, <2>1
<1>5. CASE x # m
  <2>1. available'[x] = available[x]
    BY <1>5 DEF Debit, TypeOK
  <2>2. QED
    BY <1>5, <2>1, TotalsAreNat
<1>6. QED
  BY <1>4, <1>5

\* While no bucket is opened, the sum of a mint is over the same channels.
LEMMA SameBuckets ==
  ASSUME bucket' = bucket, NEW CONSTANT m
  PROVE  OfMint(locked, m)' = OfMint(locked', m)
<1>1. \A c : InMint(c, m)' <=> InMint(c, m)
  BY DEF InMint, HeaderOf
<1>2. QED
  BY <1>1 DEF OfMint

\* What solvency says of the next state, in the terms the steps below supply.
LEMMA SolventNext ==
  ASSUME bucket' = bucket,
         \A x \in Mints : vault'[x] = Total(available'[x]) + Total(OfMint(locked', x))
  PROVE  Solvency'
<1>1. \A x \in Mints : OfMint(locked, x)' = OfMint(locked', x)
  BY SameBuckets
<1>2. QED
  BY <1>1 DEF Solvency

\* Nothing about money changes.
LEMMA SolventIdle ==
  ASSUME Solvency, UNCHANGED <<vault, available, bucket, locked>>
  PROVE  Solvency'
<1>1. \A x \in Mints : vault'[x] = Total(available'[x]) + Total(OfMint(locked', x))
  BY DEF Solvency
<1>2. QED
  BY <1>1, SolventNext

\* A deposit adds the same amount to the vault and to one balance.
LEMMA SolventDeposit ==
  ASSUME TypeOK, TypeOK', Solvency, NEW p \in Participants, NEW m \in Mints, NEW amount \in U64,
         Deposit(p, m, amount)
  PROVE  Solvency'
<1>1. amount \in Nat /\ Credit(m, p, amount) /\ bucket' = bucket /\ locked' = locked
  BY DEF Deposit, U64, identity
<1>2. ASSUME NEW x \in Mints
      PROVE  vault'[x] = Total(available'[x]) + Total(OfMint(locked', x))
  <2>1. Total(available'[x]) = Total(available[x]) + (IF x = m THEN amount ELSE 0)
    BY <1>1, CreditAdds
  <2>2. vault'[x] = vault[x] + (IF x = m THEN amount ELSE 0)
    BY <1>1 DEF Deposit, TypeOK
  <2>3. vault[x] = Total(available[x]) + Total(OfMint(locked, x))
    BY DEF Solvency
  <2>4. Total(available[x]) \in Nat /\ Total(OfMint(locked, x)) \in Nat
    BY TotalsAreNat
  <2>5. QED
    BY <1>1, <2>1, <2>2, <2>3, <2>4
<1>3. QED
  BY <1>1, <1>2, SolventNext

\* The destination is not the vault: what leaves the balance leaves the vault.
LEMMA SolventWithdraw ==
  ASSUME TypeOK, TypeOK', Solvency, NEW p \in Participants, NEW m \in Mints, NEW amount \in U64,
         NEW destination, Withdraw(p, m, amount, destination)
  PROVE  Solvency'
<1>1. amount \in Nat /\ Debit(m, p, amount) /\ bucket' = bucket /\ locked' = locked
  BY DEF Withdraw, WithdrawAccepted, U64, identity
<1>2. ASSUME NEW x \in Mints
      PROVE  vault'[x] = Total(available'[x]) + Total(OfMint(locked', x))
  <2>1. Total(available[x]) = Total(available'[x]) + (IF x = m THEN amount ELSE 0)
    BY <1>1, DebitSubtracts
  <2>2. vault[x] = vault'[x] + (IF x = m THEN amount ELSE 0)
    BY <1>1 DEF Withdraw, WithdrawAccepted, AllowedDestination, TransferOut, TypeOK
  <2>3. vault[x] = Total(available[x]) + Total(OfMint(locked, x))
    BY DEF Solvency
  <2>4. Total(available'[x]) \in Nat /\ Total(OfMint(locked, x)) \in Nat /\ vault'[x] \in Nat
    <3>1. available'[x] \in [Participants -> 0 .. MaxU64] /\ vault'[x] \in Nat
      BY DEF TypeOK, U64
    <3>2. QED
      BY <3>1, BalanceSums, TotalsAreNat
  <2>5. QED
    BY <1>1, <2>1, <2>2, <2>3, <2>4
<1>3. QED
  BY <1>1, <1>2, SolventNext

\* Between collateral and the payer's balance, in either direction.
LEMMA SolventRelease ==
  ASSUME TypeOK, TypeOK', Solvency, NEW c \in Channels, PayerOp(c),
         NEW released \in U64, Release(c, released)
  PROVE  Solvency'
<1> DEFINE m == HeaderOf(c).mint
           p == payer[c]
<1>1. /\ m \in Mints /\ p \in Participants /\ released \in Nat
      /\ \A x \in Mints : InMint(c, x) <=> x = m
  BY PayerOpTypes DEF InMint, PayerOp, U64
<1>2. Credit(m, p, released) /\ vault' = vault /\ bucket' = bucket
  BY DEF Release, ReleaseAccepted, identity
<1>3. locked \in [Channels -> U64] /\ locked' \in [Channels -> U64]
  BY DEF TypeOK
<1>4. \A x \in Channels : locked[x] = IF x = c THEN locked'[x] + released ELSE locked'[x]
  BY <1>1, <1>3 DEF Release, ReleaseAccepted, U64
<1> HIDE DEF m, p
<1>5. ASSUME NEW x \in Mints
      PROVE  vault'[x] = Total(available'[x]) + Total(OfMint(locked', x))
  <2>1. Total(available'[x]) = Total(available[x]) + (IF x = m THEN released ELSE 0)
    BY <1>1, <1>2, CreditAdds
  <2>2. Total(OfMint(locked, x)) = Total(OfMint(locked', x)) + (IF x = m THEN released ELSE 0)
    BY <1>1, <1>3, <1>4, CollateralGrows
  <2>3. Total(OfMint(locked', x)) \in Nat /\ Total(available[x]) \in Nat
    <3>1. OfMint(locked', x) \in [Channels -> 0 .. MaxU64]
      BY <1>3, OfMintTypes
    <3>2. QED
      BY <3>1, ChannelSums, TotalsAreNat
  <2>4. vault[x] = Total(available[x]) + Total(OfMint(locked, x))
    BY DEF Solvency
  <2>5. QED
    BY <1>1, <1>2, <2>1, <2>2, <2>3, <2>4
<1>6. QED
  BY <1>2, <1>5, SolventNext

\* Locking moves an amount from a balance to a slot.
LEMMA SolventLock ==
  ASSUME TypeOK, TypeOK', Solvency, NEW c \in Channels, NEW amount \in U64,
         LockChannelFunds(c, amount)
  PROVE  Solvency'
<1> DEFINE m == HeaderOf(c).mint
           p == payer[c]
<1>1. /\ m \in Mints /\ p \in Participants /\ amount \in Nat
      /\ \A x \in Mints : InMint(c, x) <=> x = m
  BY PayerOpTypes DEF LockChannelFunds, InMint, PayerOp, U64
<1>2. Debit(m, p, amount) /\ vault' = vault /\ bucket' = bucket
  BY DEF LockChannelFunds, identity
<1>3. locked \in [Channels -> U64] /\ locked' \in [Channels -> U64]
  BY DEF TypeOK
<1>4. \A x \in Channels : locked'[x] = IF x = c THEN locked[x] + amount ELSE locked[x]
  BY <1>1, <1>3 DEF LockChannelFunds, U64
<1> HIDE DEF m, p
<1>5. ASSUME NEW x \in Mints
      PROVE  vault'[x] = Total(available'[x]) + Total(OfMint(locked', x))
  <2>1. Total(available[x]) = Total(available'[x]) + (IF x = m THEN amount ELSE 0)
    BY <1>1, <1>2, DebitSubtracts
  <2>2. Total(OfMint(locked', x)) = Total(OfMint(locked, x)) + (IF x = m THEN amount ELSE 0)
    BY <1>1, <1>3, <1>4, CollateralGrows
  <2>3. Total(OfMint(locked, x)) \in Nat /\ Total(available'[x]) \in Nat
    <3>1. available'[x] \in [Participants -> 0 .. MaxU64]
      BY DEF TypeOK, U64
    <3>2. QED
      BY <3>1, BalanceSums, TotalsAreNat
  <2>4. vault[x] = Total(available[x]) + Total(OfMint(locked, x))
    BY DEF Solvency
  <2>5. QED
    BY <1>1, <1>2, <2>1, <2>2, <2>3, <2>4
<1>6. QED
  BY <1>2, <1>5, SolventNext

\* A bucket that is opened brings no collateral into its mint.
LEMMA SolventOpening ==
  ASSUME TypeOK, TypeOK', Solvency, NothingOutsideAccounts, NEW b \in Buckets,
         NEW p \in Participants, NEW m \in Mints, NEW kind \in {Direct, Routed},
         InitializeChannelBucket(b, p, m, kind)
  PROVE  Solvency'
<1>1. vault' = vault /\ available' = available /\ locked' = locked
  BY DEF InitializeChannelBucket
<1>2. \A c \in Channels : c[1] = b => locked[c] = 0
  BY DEF InitializeChannelBucket, NothingOutsideAccounts, HeaderOf
<1>3. \A c \in Channels : c[1] # b => bucket'[c[1]] = bucket[c[1]]
  BY DEF InitializeChannelBucket, Channels, TypeOK
<1>4. ASSUME NEW x \in Mints
      PROVE  OfMint(locked, x)' = OfMint(locked, x)
  BY <1>1, <1>2, <1>3 DEF OfMint, InMint, HeaderOf
<1>5. QED
  BY <1>1, <1>4 DEF Solvency

\* Settlement pays out, mint by mint, what left the collateral.
LEMMA SolventSettle ==
  ASSUME TypeOK, TypeOK', Solvency, NEW moved \in Movable, NEW paid \in Payouts,
         Settle(moved, paid)
  PROVE  Solvency'
<1>1. vault' = vault /\ bucket' = bucket
  BY DEF Settle, identity
<1>2. /\ locked \in [Channels -> U64] /\ locked' \in [Channels -> U64]
      /\ moved \in [Channels -> U64]
  BY DEF TypeOK, Movable
<1>3. ASSUME NEW x \in Mints
      PROVE  vault'[x] = Total(available'[x]) + Total(OfMint(locked', x))
  <2>1. Total(available'[x]) = Total(available[x]) + Total(paid[x])
    <3> DEFINE F == available[x]
               G == paid[x]
               H == available'[x]
    <3>1. /\ F \in [Participants -> 0 .. MaxU64] /\ G \in [Participants -> 0 .. MaxU64]
          /\ H \in [Participants -> 0 .. MaxU64]
      BY DEF TypeOK, Payouts, U64
    <3>2. \A q \in Participants : H[q] = F[q] + G[q]
      BY DEF Settle
    <3> HIDE DEF F, G, H
    <3>3. Total(H) = Total(F) + Total(G)
      BY <3>1, <3>2, BalanceSums
    <3>4. QED
      BY <3>3 DEF F, G, H
  <2>2. Total(OfMint(locked, x)) = Total(OfMint(locked', x)) + Total(OfMint(moved, x))
    <3> DEFINE F == OfMint(locked', x)
               G == OfMint(moved, x)
               H == OfMint(locked, x)
    <3>1. /\ F \in [Channels -> 0 .. MaxU64] /\ G \in [Channels -> 0 .. MaxU64]
          /\ H \in [Channels -> 0 .. MaxU64]
      BY <1>2, OfMintTypes
    <3>2. \A c \in Channels : locked[c] = locked'[c] + moved[c]
      BY <1>2 DEF Settle, U64
    <3>3. \A c \in Channels : H[c] = F[c] + G[c]
      BY <3>2 DEF OfMint
    <3> HIDE DEF F, G, H
    <3>4. Total(H) = Total(F) + Total(G)
      BY <3>1, <3>3, ChannelSums
    <3>5. QED
      BY <3>4 DEF F, G, H
  <2>3. Total(paid[x]) = Total(OfMint(moved, x))
    BY DEF Settle
  <2>4. vault[x] = Total(available[x]) + Total(OfMint(locked, x))
    BY DEF Solvency
  <2>5. /\ Total(available[x]) \in Nat /\ Total(OfMint(moved, x)) \in Nat
        /\ Total(OfMint(locked', x)) \in Nat
    <3>1. /\ OfMint(moved, x) \in [Channels -> 0 .. MaxU64]
          /\ OfMint(locked', x) \in [Channels -> 0 .. MaxU64]
      BY <1>2, OfMintTypes
    <3>2. QED
      BY <3>1, ChannelSums, TotalsAreNat
  <2>6. QED
    BY <1>1, <2>1, <2>2, <2>3, <2>4, <2>5
<1>4. QED
  BY <1>1, <1>3, SolventNext

\* Every instruction keeps vaults and ledger equal.
LEMMA SolventStep ==
  ASSUME TypeOK, TypeOK', NothingOutsideAccounts, Solvency, [Next]_custodyVars
  PROVE  Solvency'
<1>1. CASE Tick
  BY <1>1, SolventIdle DEF Tick, identity
<1>2. CASE TokenStep
  <2> SUFFICES ASSUME NEW m \in Mints, RegisterToken(m) \/ \E e \in BOOLEAN : SetTokenDepositEnabled(m, e)
               PROVE  Solvency'
    BY <1>2 DEF TokenStep
  <2>1. QED
    BY SolventIdle DEF RegisterToken, SetTokenDepositEnabled, identity
<1>3. CASE BalanceStep
  <2> SUFFICES ASSUME NEW p \in Participants, NEW m \in Mints,
                      \/ OpenBalance(p, m)
                      \/ \E amount \in U64 : Deposit(p, m, amount)
                      \/ \E amount \in U64, d \in {"wallet", "vault"} : Withdraw(p, m, amount, d)
                      \/ \E b \in Buckets, k \in {Direct, Routed} : InitializeChannelBucket(b, p, m, k)
               PROVE  Solvency'
    BY <1>3 DEF BalanceStep
  <2>1. CASE OpenBalance(p, m)
    BY <2>1, SolventIdle DEF OpenBalance, identity
  <2>2. CASE \E amount \in U64 : Deposit(p, m, amount)
    BY <2>2, SolventDeposit
  <2>3. CASE \E amount \in U64, d \in {"wallet", "vault"} : Withdraw(p, m, amount, d)
    BY <2>3, SolventWithdraw
  <2>4. CASE \E b \in Buckets, k \in {Direct, Routed} : InitializeChannelBucket(b, p, m, k)
    BY <2>4, SolventOpening
  <2>5. QED
    BY <2>1, <2>2, <2>3, <2>4
<1>4. CASE PayerStep
  <2> SUFFICES ASSUME NEW c \in Channels,
                      \/ \E p \in Participants : CreateChannel(c, p)
                      \/ \E amount \in U64 : LockChannelFunds(c, amount)
                      \/ \E amount \in U64 : RequestUnlock(c, amount)
                      \/ CancelUnlock(c)
                      \/ ExecuteUnlock(c)
               PROVE  Solvency'
    BY <1>4 DEF PayerStep
  <2>1. CASE \E p \in Participants : CreateChannel(c, p)
    BY <2>1, SolventIdle DEF CreateChannel
  <2>2. CASE \E amount \in U64 : LockChannelFunds(c, amount)
    BY <2>2, SolventLock
  <2>3. CASE \E amount \in U64 : RequestUnlock(c, amount)
    BY <2>3, SolventIdle DEF RequestUnlock, identity
  <2>4. CASE CancelUnlock(c)
    BY <2>4, SolventIdle DEF CancelUnlock, identity
  <2>5. CASE ExecuteUnlock(c)
    <3>1. Smaller(pendingAmount[c], locked[c]) \in U64
      BY SmallerIsU64 DEF TypeOK
    <3>2. QED
      BY <2>5, <3>1, SolventRelease DEF ExecuteUnlock, ExecuteUnlockAccepted, UnlockedAmount
  <2>6. QED
    BY <2>1, <2>2, <2>3, <2>4, <2>5
<1>5. CASE BothStep
  <2> SUFFICES ASSUME NEW c \in Channels, NEW amount \in U64, CooperativeUnlock(c, amount)
               PROVE  Solvency'
    BY <1>5 DEF BothStep
  <2>1. Smaller(amount, locked[c]) \in U64
    BY SmallerIsU64 DEF TypeOK
  <2>2. QED
    BY <2>1, SolventRelease DEF CooperativeUnlock
<1>6. CASE SettleChannels
  BY <1>6, SolventSettle DEF SettleChannels
<1>7. CASE UNCHANGED custodyVars
  BY <1>7, SolventIdle DEF custodyVars
<1>8. QED
  BY <1>1, <1>2, <1>3, <1>4, <1>5, <1>6, <1>7 DEF Next

\* Vaults and ledger start empty.
LEMMA SolventInit == Init => Solvency
<1> SUFFICES ASSUME Init, NEW m \in Mints
             PROVE  vault[m] = Total(available[m]) + Total(OfMint(locked, m))
  BY DEF Solvency
<1>1. vault[m] = 0
  BY DEF Init
<1>2. Total(available[m]) = 0
  <2>1. available[m] \in [Participants -> 0 .. 0]
    BY DEF Init
  <2>2. QED
    BY <2>1, TotalOfNothing
<1>3. Total(OfMint(locked, m)) = 0
  <2>1. OfMint(locked, m) \in [Channels -> 0 .. 0]
    BY DEF Init, OfMint
  <2>2. QED
    BY <2>1, TotalOfNothing
<1>4. QED
  BY <1>1, <1>2, <1>3

\* The vault of every mint holds exactly what the accounts record, for ever.
THEOREM CustodySolvent == Spec => []Solvency
<1> DEFINE Inv == TypeOK /\ NothingOutsideAccounts /\ Solvency
<1>1. Init => Inv
  BY TypeInit, AccountsInit, SolventInit
<1>2. Inv /\ [Next]_custodyVars => Inv'
  BY TypeStep, AccountsStep, SolventStep
<1>3. Inv => Solvency
  OBVIOUS
<1> HIDE DEF Inv
<1>4. QED
  BY <1>1, <1>2, <1>3, PTL DEF Spec

\* Whatever is free or locked is in the vault, so that both together fit a balance.
LEMMA FundsInVault ==
  ASSUME TypeOK, Solvency, NEW c \in Channels, NEW p \in Participants, HeaderOf(c) # Unopened
  PROVE  LET m == HeaderOf(c).mint
         IN  /\ available[m][p] \in Nat /\ locked[c] \in Nat
             /\ available[m][p] + locked[c] <= vault[m] /\ vault[m] <= MaxU64
<1> DEFINE m == HeaderOf(c).mint
<1>1. m \in Mints /\ InMint(c, m)
  BY DEF HeaderOf, InMint, TypeOK, Channels, Header
<1> HIDE DEF m
<1>2. locked[c] \in Nat /\ locked[c] <= Total(OfMint(locked, m))
  <2>1. OfMint(locked, m) \in [Channels -> 0 .. MaxU64] /\ MaxU64 \in Nat /\ IsFiniteSet(Channels)
    BY OfMintTypes, ChannelsFinite DEF TypeOK
  <2>2. OfMint(locked, m)[c] = locked[c]
    BY <1>1 DEF OfMint
  <2>3. OfMint(locked, m)[c] <= Total(OfMint(locked, m))
    BY <2>1, EntryInTotal
  <2> QED BY <2>1, <2>2, <2>3
<1>3. available[m][p] \in Nat /\ available[m][p] <= Total(available[m])
  <2>1. available[m] \in [Participants -> 0 .. MaxU64]
    BY <1>1, BalanceTypes
  <2> QED BY <2>1, EntryInTotal
<1>4. /\ Total(available[m]) \in Nat /\ Total(OfMint(locked, m)) \in Nat
      /\ vault[m] = Total(available[m]) + Total(OfMint(locked, m))
      /\ vault[m] \in 0 .. Supply
  BY <1>1, TotalsAreNat DEF Solvency, TypeOK
<1> QED BY <1>2, <1>3, <1>4 DEF m

\* Free balances can be withdrawn and matured requests executed.
LEMMA FundsFree ==
  ASSUME TypeOK, NothingOutsideAccounts, Solvency
  PROVE  FundsNeverFrozen
<1>1. ASSUME NEW m \in Mints, NEW p \in Participants, available[m][p] > 0
      PROVE  WithdrawAccepted(p, m, available[m][p], "wallet")
  <2>1. <<p, m>> \in opened
    BY <1>1 DEF NothingOutsideAccounts
  <2>2. available[m][p] <= vault[m]
    <3>1. available[m] \in [Participants -> 0 .. MaxU64]
      BY BalanceTypes
    <3>2. available[m][p] <= Total(available[m]) /\ available[m][p] \in Nat
      BY <3>1, EntryInTotal
    <3>3. /\ vault[m] = Total(available[m]) + Total(OfMint(locked, m))
          /\ Total(available[m]) \in Nat /\ Total(OfMint(locked, m)) \in Nat
      BY TotalsAreNat DEF Solvency
    <3> QED BY <3>2, <3>3
  <2>3. available[m][p] \in Nat
    BY DEF TypeOK, U64
  <2> QED BY <1>1, <2>1, <2>2, <2>3 DEF WithdrawAccepted, AllowedDestination
<1>2. ASSUME NEW c \in Channels, pendingAmount[c] > 0, Matured(c)
      PROVE  ExecuteUnlockAccepted(c)
  <2>1. PayerOp(c)
    <3>1. pendingAmount[c] # 0
      BY <1>2
    <3>2. Occupied(c)
      BY <3>1 DEF NothingOutsideAccounts
    <3>3. HeaderOf(c) # Unopened
      BY <3>2 DEF NothingOutsideAccounts
    <3> QED BY <3>2, <3>3 DEF PayerOp
  <2>2. payer[c] \in Participants
    BY <2>1 DEF PayerOp, Occupied, TypeOK
  <2>3. LET m == HeaderOf(c).mint
        IN  /\ available[m][payer[c]] \in Nat /\ locked[c] \in Nat
            /\ available[m][payer[c]] + locked[c] <= vault[m] /\ vault[m] <= MaxU64 /\ vault[m] \in Nat
    <3>1. HeaderOf(c).mint \in Mints
      BY <2>1 DEF HeaderOf, PayerOp, TypeOK, Channels, Header
    <3>2. vault[HeaderOf(c).mint] \in Nat
      BY <3>1, TotalsAreNat
    <3> QED BY <2>1, <2>2, <3>2, FundsInVault DEF PayerOp
  <2>4. UnlockedAmount(c) \in Nat /\ UnlockedAmount(c) <= locked[c]
    BY <2>3 DEF UnlockedAmount, Smaller, TypeOK, U64
  <2>5. ReleaseAccepted(c, UnlockedAmount(c))
    BY <2>3, <2>4 DEF ReleaseAccepted
  <2> QED BY <1>2, <2>1, <2>5 DEF ExecuteUnlockAccepted
<1> QED BY <1>1, <1>2 DEF FundsNeverFrozen

\* Nobody's money can be made to stay: whatever the other participants do, a free
\* balance can be withdrawn whole and a matured request executed.
THEOREM CustodyNeverFreezes == Spec => []FundsNeverFrozen
<1> DEFINE Inv == TypeOK /\ NothingOutsideAccounts /\ Solvency
<1>1. Init => Inv
  BY TypeInit, AccountsInit, SolventInit
<1>2. Inv /\ [Next]_custodyVars => Inv'
  BY TypeStep, AccountsStep, SolventStep
<1>3. Inv => FundsNeverFrozen
  BY FundsFree
<1> HIDE DEF Inv
<1>4. QED
  BY <1>1, <1>2, <1>3, PTL DEF Spec

-----------------------------------------------------------------------------
(* A slot belongs to its payer for ever, and a watermark never goes back.  *)

\* No instruction gives an occupied slot or an opened bucket to another, or lowers a watermark.
LEMMA IdentityStep ==
  ASSUME TypeOK, [Next]_custodyVars
  PROVE  /\ \A b \in Buckets : bucket[b] # Unopened => bucket'[b] = bucket[b]
         /\ \A c \in Channels : /\ payer[c] # NoOne => payer'[c] = payer[c]
                                /\ settled'[c] >= settled[c]
<1> DEFINE Kept == /\ \A b \in Buckets : bucket[b] # Unopened => bucket'[b] = bucket[b]
                   /\ \A c \in Channels : payer[c] # NoOne => payer'[c] = payer[c]
           Grown == \A c \in Channels : settled'[c] >= settled[c]
<1>1. ASSUME identity' = identity PROVE Kept
  BY <1>1 DEF identity
<1>2. ASSUME settled' = settled PROVE Grown
  BY <1>2 DEF TypeOK, U64
<1>3. ASSUME NEW b \in Buckets, NEW p \in Participants, NEW m \in Mints, NEW k \in {Direct, Routed},
             InitializeChannelBucket(b, p, m, k)
      PROVE  Kept /\ Grown
  <2>1. bucket[b] = Unopened /\ payer' = payer /\ settled' = settled
        /\ \A x \in Buckets \ {b} : bucket'[x] = bucket[x]
    BY <1>3 DEF InitializeChannelBucket, TypeOK
  <2>2. QED
    BY <1>2, <2>1
<1>4. ASSUME NEW c \in Channels, NEW p \in Participants, CreateChannel(c, p)
      PROVE  Kept /\ Grown
  <2>1. payer[c] = NoOne /\ bucket' = bucket /\ settled' = settled
        /\ \A x \in Channels \ {c} : payer'[x] = payer[x]
    BY <1>4 DEF CreateChannel, Occupied, TypeOK
  <2>2. QED
    BY <1>2, <2>1
<1>5. ASSUME SettleChannels PROVE Kept /\ Grown
  <2>1. PICK moved \in Movable, paid \in Payouts : Settle(moved, paid)
    BY <1>5 DEF SettleChannels
  <2>2. ASSUME NEW c \in Channels PROVE settled'[c] >= settled[c]
    BY <2>1 DEF Settle, Movable, TypeOK, U64
  <2>3. identity' = identity
    BY <2>1 DEF Settle
  <2>4. QED
    BY <1>1, <2>2, <2>3
<1> HIDE DEF Kept, Grown
<1>6. ASSUME BalanceStep PROVE Kept /\ Grown
  <2>1. \/ identity' = identity /\ settled' = settled
        \/ \E b \in Buckets, p \in Participants, m \in Mints, k \in {Direct, Routed} :
              InitializeChannelBucket(b, p, m, k)
    BY <1>6 DEF BalanceStep, OpenBalance, Deposit, Withdraw, WithdrawAccepted
  <2>2. QED
    BY <1>1, <1>2, <1>3, <2>1
<1>7. ASSUME PayerStep PROVE Kept /\ Grown
  <2>1. \/ identity' = identity /\ settled' = settled
        \/ \E c \in Channels, p \in Participants : CreateChannel(c, p)
    BY <1>7 DEF PayerStep, LockChannelFunds, RequestUnlock, CancelUnlock, ExecuteUnlock, ExecuteUnlockAccepted,
                  UnlockedAmount, Release, ReleaseAccepted
  <2>2. QED
    BY <1>1, <1>2, <1>4, <2>1
<1>8. ASSUME Tick \/ TokenStep \/ BothStep \/ UNCHANGED custodyVars
      PROVE  identity' = identity /\ settled' = settled
  BY <1>8 DEF Tick, TokenStep, RegisterToken, SetTokenDepositEnabled, BothStep,
              CooperativeUnlock, Release, custodyVars, identity
<1>9. Kept /\ Grown
  BY <1>1, <1>2, <1>5, <1>6, <1>7, <1>8 DEF Next
<1>10. QED
  BY <1>9 DEF Kept, Grown

\* What a signed commitment refers to never changes under it.
THEOREM CustodyIdentity == Spec => ChannelIdentityPermanent
<1>1. TypeOK /\ [Next]_custodyVars =>
        [/\ \A b \in Buckets : bucket[b] # Unopened => bucket'[b] = bucket[b]
         /\ \A c \in Channels : /\ payer[c] # NoOne => payer'[c] = payer[c]
                                /\ settled'[c] >= settled[c]]_custodyVars
  BY IdentityStep
<1>2. QED
  BY <1>1, CustodyTypes, PTL DEF Spec, ChannelIdentityPermanent
=============================================================================
