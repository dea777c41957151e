------------------------------ MODULE PayeeProofs ------------------------------
(***************************************************************************)
(* What the payee of a channel counts on.  First, that the plan its client *)
(* builds for one settle_channels instruction pays as its records would be *)
(* paid one by one, and is accepted whenever they would be, for any batch, *)
(* order and sharing of accounts (SettlementPlan).  At the end, that what  *)
(* it sees inside its window is there, for any timelock and any number of  *)
(* channels (CollateralWindow).                                            *)
(*                                                                         *)
(* For the plan: the table numbers every account once, the groups          *)
(* partition the order, the records of a group run in order against a copy *)
(* of one balance that no other credit of the group touches, and the money *)
(* after any set of records is the same in whichever groups they lie.      *)
(***************************************************************************)
EXTENDS SettlementPlan, CollateralWindow, ClearingProofs

-----------------------------------------------------------------------------
(* The states of the plan's specification.                                 *)

\* The verified batch stays in its buffer; a direct commitment has no allocations.
BatchThere ==
    /\ Account(staging[Buffer]) /\ Account(result[Buffer]) /\ result[Buffer].verified
    /\ \A i \in Indices :
         /\ staging[Buffer].slots[i] # Blank
         /\ staging[Buffer].kind = Direct => staging[Buffer].slots[i].com.allocations = <<>>

\* Money, buffers and verdicts are as Clearing keeps them.
BatchInv == ClearingInv /\ BatchThere

\* The buffer is one of the buffers.
LEMMA BufferThere == Buffer \in Stagings
  BY OneBuffer DEF Buffer

\* What is written of the batch at the start.
LEMMA VerifiedAt ==
  ASSUME NEW batch \in Batches, NEW o \in Offsets, VerifiedBatch(batch, o), FundedMoney,
         NEW s \in Stagings
  PROVE  LET kind == HeaderOf(batch[1].channel).kind
             b == staging[s]
             r == result[s]
         IN  /\ kind \in Kinds
             /\ b = [open |-> TRUE, kind |-> kind, sealed |-> TRUE,
                     route |-> IF kind = Routed THEN RouteOf(batch[1]) ELSE NoRoute,
                     staged |-> Indices,
                     slots |-> [i \in Indices |-> [com |-> batch[i + 1], signed |-> Signers]]]
             /\ r = [open |-> TRUE, kind |-> kind, count |-> BatchSize, verified |-> TRUE,
                     failed |-> FALSE, bitmap |-> Indices, applied |-> {}, offset |-> o,
                     instance |-> 1]
             /\ \A i \in Indices : i + 1 \in 1 .. BatchSize /\ batch[i + 1] \in Commitments
             /\ \A i \in Indices : RecordFits(b, batch[i + 1])
             /\ kind = Direct => \A i \in Indices : batch[i + 1].allocations = <<>>
<1> DEFINE kind == HeaderOf(batch[1].channel).kind
           b == staging[s]
           r == result[s]
<1>1. /\ b = [open |-> TRUE, kind |-> kind, sealed |-> TRUE,
              route |-> IF kind = Routed THEN RouteOf(batch[1]) ELSE NoRoute,
              staged |-> Indices,
              slots |-> [i \in Indices |-> [com |-> batch[i + 1], signed |-> Signers]]]
      /\ r = [QueuedResult(kind, BatchSize, o, 1) EXCEPT !.verified = TRUE, !.bitmap = Indices]
  BY DEF VerifiedBatch
<1>2. r = [open |-> TRUE, kind |-> kind, count |-> BatchSize, verified |-> TRUE, failed |-> FALSE,
           bitmap |-> Indices, applied |-> {}, offset |-> o, instance |-> 1]
  BY <1>1 DEF QueuedResult, ClearedResult
<1>3. \A i \in Indices : i + 1 \in 1 .. BatchSize
  BY BatchesNotEmpty DEF Indices
<1>4. bucket = Layout /\ payer = Payers /\ settled = [c \in Channels |-> 0]
  BY DEF FundedMoney
<1>5. 1 \in 1 .. BatchSize
  BY BatchesNotEmpty
<1>6. ASSUME NEW n \in 1 .. BatchSize
      PROVE  LET k == batch[n] IN
             /\ k \in Commitments /\ k.channel \in Channels /\ Occupied(k.channel)
             /\ HeaderOf(k.channel) \in Header /\ HeaderOf(k.channel).kind = kind
             /\ kind = Direct => k.allocations = <<>>
             /\ kind = Routed => /\ Validate(k) /\ k.base <= settled[k.channel]
                                 /\ Gateway(k) \notin Named(k) /\ RouteOf(k) = RouteOf(batch[1])
  <2> DEFINE k == batch[n]
  <2>1. LET header == Layout[k.channel[1]]
            first == Layout[batch[1].channel[1]]
        IN  /\ k \in Commitments /\ Payers[k.channel] # NoOne
            /\ header \in Header /\ header.kind = first.kind
            /\ header.kind = Direct => k.allocations = <<>>
            /\ header.kind = Routed =>
                 /\ Validate(k) /\ k.base = 0
                 /\ \A a \in DOMAIN k.allocations : k.allocations[a].id # header.payee
                 /\ <<header.payee, header.mint>> = <<first.payee, first.mint>>
    BY BatchesAreStaged
  <2>2. k.channel \in Channels
    BY <2>1, CommitmentFacts
  <2> HIDE DEF k
  <2>3. HeaderOf(k.channel) = Layout[k.channel[1]]
    BY <1>4 DEF HeaderOf
  <2>4. HeaderOf(batch[1].channel) = Layout[batch[1].channel[1]]
    BY <1>4 DEF HeaderOf
  <2>5. Occupied(k.channel)
    BY <1>4, <2>1 DEF Occupied
  <2>6. kind = Direct => k.allocations = <<>>
    BY <2>1, <2>3, <2>4
  <2>7. ASSUME kind = Routed
        PROVE  /\ Validate(k) /\ k.base <= settled[k.channel]
               /\ Gateway(k) \notin Named(k) /\ RouteOf(k) = RouteOf(batch[1])
    <3>1. /\ Validate(k) /\ k.base = 0
          /\ \A a \in DOMAIN k.allocations : k.allocations[a].id # HeaderOf(k.channel).payee
          /\ <<HeaderOf(k.channel).payee, HeaderOf(k.channel).mint>>
               = <<HeaderOf(batch[1].channel).payee, HeaderOf(batch[1].channel).mint>>
      BY <2>1, <2>3, <2>4, <2>7
    <3>2. settled[k.channel] = 0
      BY <1>4, <2>2
    <3>3. Gateway(k) \notin Named(k)
      BY <3>1 DEF Gateway, Named
    <3>4. RouteOf(k) = RouteOf(batch[1])
      BY <3>1 DEF RouteOf, Gateway
    <3> QED BY <3>1, <3>2, <3>3, <3>4
  <2> QED BY <2>1, <2>2, <2>3, <2>4, <2>5, <2>6, <2>7 DEF k
<1>7. kind \in Kinds
  BY <1>5, <1>6 DEF Header, Kinds
<1>8. ASSUME NEW i \in Indices
      PROVE  RecordFits(b, batch[i + 1])
  <2> DEFINE k == batch[i + 1]
  <2>1. /\ Occupied(k.channel) /\ HeaderOf(k.channel) \in Header /\ HeaderOf(k.channel).kind = kind
        /\ kind = Routed => /\ Validate(k) /\ k.base <= settled[k.channel]
                            /\ Gateway(k) \notin Named(k) /\ RouteOf(k) = RouteOf(batch[1])
    BY <1>3, <1>6
  <2>2. b.kind = kind /\ (kind = Routed => b.route = RouteOf(batch[1]))
    BY <1>1
  <2> HIDE DEF k, b, kind
  <2>3. RecordFits(b, k)
    BY <2>1, <2>2, UnopenedIsNoHeader DEF RecordFits
  <2> QED BY <2>3 DEF k
<1> HIDE DEF b, r, kind
<1>9. kind = Direct => \A i \in Indices : batch[i + 1].allocations = <<>>
  BY <1>3, <1>6
<1>10. \A i \in Indices : batch[i + 1] \in Commitments
  BY <1>3, <1>6
<1> QED BY <1>1, <1>2, <1>3, <1>7, <1>8, <1>9, <1>10 DEF b, r, kind

\* A verified batch over deposits and collateral is a state that Clearing keeps.
LEMMA PlanStarts == PInit => BatchInv
<1> SUFFICES ASSUME PInit PROVE BatchInv
  OBVIOUS
<1>1. FundedMoney /\ MoneyInOrder
  BY FundsInOrder DEF PInit
<1>2. PICK batch \in Batches, o \in Offsets : VerifiedBatch(batch, o)
  BY DEF PInit
<1>3. /\ comp = [p \in Offsets |-> Closed] /\ outputs = {} /\ instance = 1
      /\ signatures = [k \in Commitments |-> Signers]
  BY DEF PInit
<1>4. ASSUME NEW s \in Stagings
      PROVE  LET b == staging[s]
                 r == result[s]
             IN  /\ b \in BufferWith(b.route) /\ r \in ResultSet /\ r.kind = b.kind
                 /\ b.sealed /\ b.staged = Indices /\ r.count = BatchSize
                 /\ r.verified /\ r.bitmap = Indices /\ r.applied = {} /\ r.instance = 1
                 /\ r.offset \in Offsets
                 /\ \A i \in Indices :
                      /\ b.slots[i] # Blank /\ b.slots[i].com \in Commitments
                      /\ b.slots[i].signed = Signers
                      /\ RecordFits(b, b.slots[i].com)
                      /\ b.kind = Direct => b.slots[i].com.allocations = <<>>
  <2> DEFINE kind == HeaderOf(batch[1].channel).kind
             b == staging[s]
             r == result[s]
             route == IF kind = Routed THEN RouteOf(batch[1]) ELSE NoRoute
             slots == [i \in Indices |-> [com |-> batch[i + 1], signed |-> Signers]]
  <2>1. /\ kind \in Kinds
        /\ b = [open |-> TRUE, kind |-> kind, sealed |-> TRUE, route |-> route,
                staged |-> Indices, slots |-> slots]
        /\ r = [open |-> TRUE, kind |-> kind, count |-> BatchSize, verified |-> TRUE,
                failed |-> FALSE, bitmap |-> Indices, applied |-> {}, offset |-> o,
                instance |-> 1]
        /\ \A i \in Indices : batch[i + 1] \in Commitments
        /\ \A i \in Indices : RecordFits(b, batch[i + 1])
        /\ kind = Direct => \A i \in Indices : batch[i + 1].allocations = <<>>
    BY <1>1, <1>2, VerifiedAt
  <2>2. \A i \in Indices : slots[i] = [com |-> batch[i + 1], signed |-> Signers]
    OBVIOUS
  <2>3. slots \in [Indices -> Record \cup {Blank}]
    BY <2>1, <2>2 DEF Record
  <2>4. BatchSize \in 0 .. BatchSize
    BY BatchesNotEmpty
  <2>5. ASSUME NEW i \in Indices
        PROVE  /\ slots[i] # Blank /\ slots[i].com = batch[i + 1] /\ slots[i].signed = Signers
    <3>1. DOMAIN [com |-> batch[i + 1], signed |-> Signers] = {"com", "signed"}
      OBVIOUS
    <3>2. DOMAIN Blank = {"blank"}
      BY DEF Blank
    <3>3. slots[i] # Blank
      BY <2>2, <3>1, <3>2
    <3> QED BY <2>2, <3>3
  <2> HIDE DEF kind, route, slots, b, r
  <2>6. b \in BufferWith(b.route)
    BY <2>1, <2>3 DEF BufferWith
  <2>7. r \in ResultSet
    BY <2>1, <2>4 DEF ResultSet
  <2>8. /\ r.kind = b.kind /\ b.kind = kind /\ b.slots = slots
        /\ b.sealed /\ b.staged = Indices /\ r.count = BatchSize
        /\ r.verified /\ r.bitmap = Indices /\ r.applied = {} /\ r.instance = 1
        /\ r.offset \in Offsets
    BY <2>1
  <2>9. \A i \in Indices : /\ b.slots[i] # Blank /\ b.slots[i].com \in Commitments
                           /\ b.slots[i].signed = Signers
                           /\ RecordFits(b, b.slots[i].com)
                           /\ b.kind = Direct => b.slots[i].com.allocations = <<>>
    <3> SUFFICES ASSUME NEW i \in Indices
                 PROVE  /\ b.slots[i] # Blank /\ b.slots[i].com \in Commitments
                        /\ b.slots[i].signed = Signers
                        /\ RecordFits(b, b.slots[i].com)
                        /\ b.kind = Direct => b.slots[i].com.allocations = <<>>
      OBVIOUS
    <3>1. PICK k, e : k = batch[i + 1] /\ e = b.slots[i]
      BY Zenon
    <3>2. e # Blank /\ e.com = k /\ e.signed = Signers
      BY <2>5, <2>8, <3>1
    <3>3. k \in Commitments /\ RecordFits(b, k) /\ (b.kind = Direct => k.allocations = <<>>)
      BY <2>1, <2>8, <3>1
    <3> QED BY Zenon, <3>1, <3>2, <3>3
  <2> QED BY <2>6, <2>7, <2>8, <2>9 DEF b, r
<1>5. DOMAIN staging = Stagings /\ DOMAIN result = Stagings
  BY <1>2 DEF VerifiedBatch
<1>6. \A p \in Offsets : ~Account(comp[p])
  BY <1>3, ClosedFacts
<1>7. Types
  <2>1. \A s \in Stagings : IsBuffer(staging[s]) /\ result[s] \in ResultSet \cup {Closed}
    BY <1>4 DEF IsBuffer
  <2> QED BY <1>3, <1>5, <2>1 DEF Types
<1>8. \A s \in Stagings : Account(staging[s]) /\ Account(result[s])
  BY <1>4, ClosedFacts
<1>9. Paired /\ NoneFromTheFuture /\ Unbound
  BY <1>3, <1>4, <1>6, <1>8 DEF Paired, NoneFromTheFuture, Unbound
<1>10. BoundResults
  <2> SUFFICES ASSUME NEW s \in Stagings PROVE Bound(s)
    BY DEF BoundResults
  <2>1. BatchSize \in 1 .. BatchSize /\ 0 .. BatchSize - 1 \subseteq Indices
    BY BatchesNotEmpty DEF Indices
  <2> QED BY <1>3, <1>4, <1>6, <2>1 DEF Bound
<1>11. Verdicts
  <2> SUFFICES ASSUME NEW s \in Stagings
               PROVE  /\ result[s].offset # 0
                      /\ result[s].bitmap = {i \in 0 .. result[s].count - 1 : i \in Bits(staging[s])}
    BY DEF Verdicts
  <2>1. staging[s].kind \in Kinds
    BY <1>4 DEF BufferWith
  <2>2. Required(staging[s].kind) \subseteq Signers
    BY DEF Required, Signers
  <2>3. Bits(staging[s]) = Indices
    BY <1>4, <2>2 DEF Bits, Verifies
  <2>4. 0 .. BatchSize - 1 = Indices
    BY DEF Indices
  <2> QED BY <1>4, <2>3, <2>4, BatchesNotEmpty
<1>12. SignedInBuffer
  BY <1>3, <1>4 DEF SignedInBuffer
<1>13. StagedRecords /\ VerdictBits
  BY <1>4 DEF StagedRecords, VerdictBits
<1>14. BatchThere
  BY <1>4, <1>8, BufferThere DEF BatchThere
<1>15. instance \in 0 .. MaxInstances
  BY <1>3, OneBuffer, BatchesNotEmpty
<1> QED BY <1>1, <1>7, <1>9, <1>10, <1>11, <1>12, <1>13, <1>14, <1>15
        DEF BatchInv, ClearingInv, VInv

-----------------------------------------------------------------------------
(* What the recursive definitions run through.                             *)

\* What Added runs through.
LEMMA AddedUnfolds ==
  ASSUME NEW table, NEW accounts, Len(accounts) \in Nat
  PROVE  \E f : /\ f[0] = table
                /\ \A i \in 1 .. Len(accounts) : f[i] = AddedOne(f[i - 1], accounts[i])
                /\ Added(table, accounts) = f[Len(accounts)]
<1> DEFINE n == Len(accounts)
           A == {m \in 0 .. n : \E f : /\ f = [i \in 0 .. m |-> f[i]] /\ f[0] = table
                                      /\ \A i \in 1 .. m : f[i] = AddedOne(f[i - 1], accounts[i])}
           h == CHOOSE f : f = [i \in 0 .. n |-> IF i = 0 THEN table ELSE AddedOne(f[i - 1], accounts[i])]
<1>1. 0 \in A
  <2> DEFINE f == [i \in 0 .. 0 |-> table]
  <2>1. f = [i \in 0 .. 0 |-> f[i]] /\ f[0] = table
    OBVIOUS
  <2> HIDE DEF f
  <2>2. \A i \in 1 .. 0 : f[i] = AddedOne(f[i - 1], accounts[i])
    OBVIOUS
  <2> QED BY <2>1, <2>2
<1>2. \A m \in 0 .. n - 1 : m \in A => m + 1 \in A
  <2> SUFFICES ASSUME NEW m \in 0 .. n - 1, m \in A
               PROVE  m + 1 \in A
    OBVIOUS
  <2>1. PICK f : /\ f = [i \in 0 .. m |-> f[i]] /\ f[0] = table
                 /\ \A i \in 1 .. m : f[i] = AddedOne(f[i - 1], accounts[i])
    OBVIOUS
  <2>2. PICK last : last = AddedOne(f[m], accounts[m + 1])
    OBVIOUS
  <2> DEFINE g == [i \in 0 .. m + 1 |-> IF i <= m THEN f[i] ELSE last]
  <2>3. g = [i \in 0 .. m + 1 |-> g[i]] /\ g[0] = f[0]
    OBVIOUS
  <2>4. \A i \in 0 .. m : g[i] = f[i]
    OBVIOUS
  <2>5. g[m + 1] = last
    OBVIOUS
  <2> HIDE DEF g
  <2>6. ASSUME NEW i \in 1 .. m + 1
        PROVE  g[i] = AddedOne(g[i - 1], accounts[i])
    <3>1. CASE i <= m
      <4>1. i \in 1 .. m /\ i - 1 \in 0 .. m /\ i \in 0 .. m
        BY <3>1
      <4> QED BY <2>1, <2>4, <4>1
    <3>2. CASE i = m + 1
      <4>1. m \in 0 .. m /\ i - 1 = m
        BY <3>2
      <4> QED BY <2>2, <2>4, <2>5, <3>2, <4>1
    <3> QED BY <3>1, <3>2
  <2>7. m + 1 \in 0 .. n
    OBVIOUS
  <2> QED BY <2>1, <2>3, <2>6, <2>7
<1>3. n \in A
  <2>1. 0 .. n \subseteq A
    <3> HIDE DEF A
    <3> QED BY <1>1, <1>2, Induction
  <2> QED BY <2>1
<1>4. \E f : f = [i \in 0 .. n |-> IF i = 0 THEN table ELSE AddedOne(f[i - 1], accounts[i])]
  <2>1. PICK f : /\ f = [i \in 0 .. n |-> f[i]] /\ f[0] = table
                 /\ \A i \in 1 .. n : f[i] = AddedOne(f[i - 1], accounts[i])
    BY <1>3
  <2>2. \A i \in 0 .. n : i = 0 \/ i \in 1 .. n
    OBVIOUS
  <2>3. \A i \in 0 .. n : f[i] = IF i = 0 THEN table ELSE AddedOne(f[i - 1], accounts[i])
    BY <2>1, <2>2
  <2>4. f = [i \in 0 .. n |-> IF i = 0 THEN table ELSE AddedOne(f[i - 1], accounts[i])]
    BY <2>1, <2>3
  <2> QED BY <2>4
<1>5. h = [i \in 0 .. n |-> IF i = 0 THEN table ELSE AddedOne(h[i - 1], accounts[i])]
  BY <1>4, Zenon
<1>6. Added(table, accounts) = h[n]
  BY Zenon DEF Added
<1> HIDE DEF h, A
<1>7. h[0] = table /\ \A i \in 1 .. n : h[i] = AddedOne(h[i - 1], accounts[i])
  <2>1. 0 \in 0 .. n /\ \A i \in 1 .. n : i \in 0 .. n /\ i # 0
    OBVIOUS
  <2> HIDE DEF n
  <2> QED BY <1>5, <2>1
<1> QED BY <1>6, <1>7

\* The plans that PlanOf runs through.
LEMMA PlanUnfolds ==
  ASSUME NEW order, Len(order) \in Nat
  PROVE  \E f : /\ f[0] = NoPlan
                /\ \A i \in 1 .. Len(order) : f[i] = Grouped(f[i - 1], order[i])
                /\ PlanOf(order) = f[Len(order)]
<1> DEFINE n == Len(order)
           A == {m \in 0 .. n : \E f : /\ f = [i \in 0 .. m |-> f[i]] /\ f[0] = NoPlan
                                      /\ \A i \in 1 .. m : f[i] = Grouped(f[i - 1], order[i])}
           h == CHOOSE f : f = [i \in 0 .. n |-> IF i = 0 THEN NoPlan ELSE Grouped(f[i - 1], order[i])]
<1>1. 0 \in A
  <2> DEFINE f == [i \in 0 .. 0 |-> NoPlan]
  <2>1. f = [i \in 0 .. 0 |-> f[i]] /\ f[0] = NoPlan
    OBVIOUS
  <2> HIDE DEF f
  <2>2. \A i \in 1 .. 0 : f[i] = Grouped(f[i - 1], order[i])
    OBVIOUS
  <2> QED BY <2>1, <2>2
<1>2. \A m \in 0 .. n - 1 : m \in A => m + 1 \in A
  <2> SUFFICES ASSUME NEW m \in 0 .. n - 1, m \in A
               PROVE  m + 1 \in A
    OBVIOUS
  <2>1. PICK f : /\ f = [i \in 0 .. m |-> f[i]] /\ f[0] = NoPlan
                 /\ \A i \in 1 .. m : f[i] = Grouped(f[i - 1], order[i])
    OBVIOUS
  <2>2. PICK last : last = Grouped(f[m], order[m + 1])
    OBVIOUS
  <2> DEFINE g == [i \in 0 .. m + 1 |-> IF i <= m THEN f[i] ELSE last]
  <2>3. g = [i \in 0 .. m + 1 |-> g[i]] /\ g[0] = f[0]
    OBVIOUS
  <2>4. \A i \in 0 .. m : g[i] = f[i]
    OBVIOUS
  <2>5. g[m + 1] = last
    OBVIOUS
  <2> HIDE DEF g
  <2>6. ASSUME NEW i \in 1 .. m + 1
        PROVE  g[i] = Grouped(g[i - 1], order[i])
    <3>1. CASE i <= m
      <4>1. i \in 1 .. m /\ i - 1 \in 0 .. m /\ i \in 0 .. m
        BY <3>1
      <4> QED BY <2>1, <2>4, <4>1
    <3>2. CASE i = m + 1
      <4>1. m \in 0 .. m /\ i - 1 = m
        BY <3>2
      <4> QED BY <2>2, <2>4, <2>5, <3>2, <4>1
    <3> QED BY <3>1, <3>2
  <2>7. m + 1 \in 0 .. n
    OBVIOUS
  <2> QED BY <2>1, <2>3, <2>6, <2>7
<1>3. n \in A
  <2>1. 0 .. n \subseteq A
    <3> HIDE DEF A
    <3> QED BY <1>1, <1>2, Induction
  <2> QED BY <2>1
<1>4. \E f : f = [i \in 0 .. n |-> IF i = 0 THEN NoPlan ELSE Grouped(f[i - 1], order[i])]
  <2>1. PICK f : /\ f = [i \in 0 .. n |-> f[i]] /\ f[0] = NoPlan
                 /\ \A i \in 1 .. n : f[i] = Grouped(f[i - 1], order[i])
    BY <1>3
  <2>2. \A i \in 0 .. n : i = 0 \/ i \in 1 .. n
    OBVIOUS
  <2>3. \A i \in 0 .. n : f[i] = IF i = 0 THEN NoPlan ELSE Grouped(f[i - 1], order[i])
    BY <2>1, <2>2
  <2>4. f = [i \in 0 .. n |-> IF i = 0 THEN NoPlan ELSE Grouped(f[i - 1], order[i])]
    BY <2>1, <2>3
  <2> QED BY <2>4
<1>5. h = [i \in 0 .. n |-> IF i = 0 THEN NoPlan ELSE Grouped(h[i - 1], order[i])]
  BY <1>4, Zenon
<1>6. PlanOf(order) = h[n]
  BY Zenon DEF PlanOf
<1> HIDE DEF h, A
<1>7. h[0] = NoPlan /\ \A i \in 1 .. n : h[i] = Grouped(h[i - 1], order[i])
  <2>1. 0 \in 0 .. n /\ \A i \in 1 .. n : i \in 0 .. n /\ i # 0
    OBVIOUS
  <2> HIDE DEF n
  <2> QED BY <1>5, <2>1
<1> QED BY <1>6, <1>7

\* The runs that ProvidersPaid runs through.
LEMMA ProvidersUnfold ==
  ASSUME NEW run, NEW plan, NEW group, NEW k, NEW pieces, Len(k.allocations) \in Nat
  PROVE  \E f : /\ f[0] = run
                /\ \A i \in 1 .. Len(k.allocations) : f[i] = PayProvider(f[i - 1], plan, group, k, i, pieces[i])
                /\ ProvidersPaid(run, plan, group, k, pieces) = f[Len(k.allocations)]
<1> DEFINE n == Len(k.allocations)
           A == {m \in 0 .. n : \E f : /\ f = [i \in 0 .. m |-> f[i]] /\ f[0] = run
                                      /\ \A i \in 1 .. m : f[i] = PayProvider(f[i - 1], plan, group, k, i, pieces[i])}
           h == CHOOSE f : f = [i \in 0 .. n |-> IF i = 0 THEN run ELSE PayProvider(f[i - 1], plan, group, k, i, pieces[i])]
<1>1. 0 \in A
  <2> DEFINE f == [i \in 0 .. 0 |-> run]
  <2>1. f = [i \in 0 .. 0 |-> f[i]] /\ f[0] = run
    OBVIOUS
  <2> HIDE DEF f
  <2>2. \A i \in 1 .. 0 : f[i] = PayProvider(f[i - 1], plan, group, k, i, pieces[i])
    OBVIOUS
  <2> QED BY <2>1, <2>2
<1>2. \A m \in 0 .. n - 1 : m \in A => m + 1 \in A
  <2> SUFFICES ASSUME NEW m \in 0 .. n - 1, m \in A
               PROVE  m + 1 \in A
    OBVIOUS
  <2>1. PICK f : /\ f = [i \in 0 .. m |-> f[i]] /\ f[0] = run
                 /\ \A i \in 1 .. m : f[i] = PayProvider(f[i - 1], plan, group, k, i, pieces[i])
    OBVIOUS
  <2>2. PICK last : last = PayProvider(f[m], plan, group, k, m + 1, pieces[m + 1])
    OBVIOUS
  <2> DEFINE g == [i \in 0 .. m + 1 |-> IF i <= m THEN f[i] ELSE last]
  <2>3. g = [i \in 0 .. m + 1 |-> g[i]] /\ g[0] = f[0]
    OBVIOUS
  <2>4. \A i \in 0 .. m : g[i] = f[i]
    OBVIOUS
  <2>5. g[m + 1] = last
    OBVIOUS
  <2> HIDE DEF g
  <2>6. ASSUME NEW i \in 1 .. m + 1
        PROVE  g[i] = PayProvider(g[i - 1], plan, group, k, i, pieces[i])
    <3>1. CASE i <= m
      <4>1. i \in 1 .. m /\ i - 1 \in 0 .. m /\ i \in 0 .. m
        BY <3>1
      <4> QED BY <2>1, <2>4, <4>1
    <3>2. CASE i = m + 1
      <4>1. m \in 0 .. m /\ i - 1 = m
        BY <3>2
      <4> QED BY <2>2, <2>4, <2>5, <3>2, <4>1
    <3> QED BY <3>1, <3>2
  <2>7. m + 1 \in 0 .. n
    OBVIOUS
  <2> QED BY <2>1, <2>3, <2>6, <2>7
<1>3. n \in A
  <2>1. 0 .. n \subseteq A
    <3> HIDE DEF A
    <3> QED BY <1>1, <1>2, Induction
  <2> QED BY <2>1
<1>4. \E f : f = [i \in 0 .. n |-> IF i = 0 THEN run ELSE PayProvider(f[i - 1], plan, group, k, i, pieces[i])]
  <2>1. PICK f : /\ f = [i \in 0 .. n |-> f[i]] /\ f[0] = run
                 /\ \A i \in 1 .. n : f[i] = PayProvider(f[i - 1], plan, group, k, i, pieces[i])
    BY <1>3
  <2>2. \A i \in 0 .. n : i = 0 \/ i \in 1 .. n
    OBVIOUS
  <2>3. \A i \in 0 .. n : f[i] = IF i = 0 THEN run ELSE PayProvider(f[i - 1], plan, group, k, i, pieces[i])
    BY <2>1, <2>2
  <2>4. f = [i \in 0 .. n |-> IF i = 0 THEN run ELSE PayProvider(f[i - 1], plan, group, k, i, pieces[i])]
    BY <2>1, <2>3
  <2> QED BY <2>4
<1>5. h = [i \in 0 .. n |-> IF i = 0 THEN run ELSE PayProvider(h[i - 1], plan, group, k, i, pieces[i])]
  BY <1>4, Zenon
<1>6. ProvidersPaid(run, plan, group, k, pieces) = h[n]
  BY Zenon DEF ProvidersPaid
<1> HIDE DEF h, A
<1>7. h[0] = run /\ \A i \in 1 .. n : h[i] = PayProvider(h[i - 1], plan, group, k, i, pieces[i])
  <2>1. 0 \in 0 .. n /\ \A i \in 1 .. n : i \in 0 .. n /\ i # 0
    OBVIOUS
  <2> HIDE DEF n
  <2> QED BY <1>5, <2>1
<1> QED BY <1>6, <1>7

\* The runs that RecordsSettled runs through.
LEMMA RecordsUnfold ==
  ASSUME NEW run, NEW plan, NEW group, Len(group.indices) \in Nat
  PROVE  \E f : /\ f[0] = run
                /\ \A i \in 1 .. Len(group.indices) : f[i] = SettleRecord(f[i - 1], plan, group, group.indices[i])
                /\ RecordsSettled(run, plan, group) = f[Len(group.indices)]
<1> DEFINE n == Len(group.indices)
           A == {m \in 0 .. n : \E f : /\ f = [i \in 0 .. m |-> f[i]] /\ f[0] = run
                                      /\ \A i \in 1 .. m : f[i] = SettleRecord(f[i - 1], plan, group, group.indices[i])}
           h == CHOOSE f : f = [i \in 0 .. n |-> IF i = 0 THEN run ELSE SettleRecord(f[i - 1], plan, group, group.indices[i])]
<1>1. 0 \in A
  <2> DEFINE f == [i \in 0 .. 0 |-> run]
  <2>1. f = [i \in 0 .. 0 |-> f[i]] /\ f[0] = run
    OBVIOUS
  <2> HIDE DEF f
  <2>2. \A i \in 1 .. 0 : f[i] = SettleRecord(f[i - 1], plan, group, group.indices[i])
    OBVIOUS
  <2> QED BY <2>1, <2>2
<1>2. \A m \in 0 .. n - 1 : m \in A => m + 1 \in A
  <2> SUFFICES ASSUME NEW m \in 0 .. n - 1, m \in A
               PROVE  m + 1 \in A
    OBVIOUS
  <2>1. PICK f : /\ f = [i \in 0 .. m |-> f[i]] /\ f[0] = run
                 /\ \A i \in 1 .. m : f[i] = SettleRecord(f[i - 1], plan, group, group.indices[i])
    OBVIOUS
  <2>2. PICK last : last = SettleRecord(f[m], plan, group, group.indices[m + 1])
    OBVIOUS
  <2> DEFINE g == [i \in 0 .. m + 1 |-> IF i <= m THEN f[i] ELSE last]
  <2>3. g = [i \in 0 .. m + 1 |-> g[i]] /\ g[0] = f[0]
    OBVIOUS
  <2>4. \A i \in 0 .. m : g[i] = f[i]
    OBVIOUS
  <2>5. g[m + 1] = last
    OBVIOUS
  <2> HIDE DEF g
  <2>6. ASSUME NEW i \in 1 .. m + 1
        PROVE  g[i] = SettleRecord(g[i - 1], plan, group, group.indices[i])
    <3>1. CASE i <= m
      <4>1. i \in 1 .. m /\ i - 1 \in 0 .. m /\ i \in 0 .. m
        BY <3>1
      <4> QED BY <2>1, <2>4, <4>1
    <3>2. CASE i = m + 1
      <4>1. m \in 0 .. m /\ i - 1 = m
        BY <3>2
      <4> QED BY <2>2, <2>4, <2>5, <3>2, <4>1
    <3> QED BY <3>1, <3>2
  <2>7. m + 1 \in 0 .. n
    OBVIOUS
  <2> QED BY <2>1, <2>3, <2>6, <2>7
<1>3. n \in A
  <2>1. 0 .. n \subseteq A
    <3> HIDE DEF A
    <3> QED BY <1>1, <1>2, Induction
  <2> QED BY <2>1
<1>4. \E f : f = [i \in 0 .. n |-> IF i = 0 THEN run ELSE SettleRecord(f[i - 1], plan, group, group.indices[i])]
  <2>1. PICK f : /\ f = [i \in 0 .. n |-> f[i]] /\ f[0] = run
                 /\ \A i \in 1 .. n : f[i] = SettleRecord(f[i - 1], plan, group, group.indices[i])
    BY <1>3
  <2>2. \A i \in 0 .. n : i = 0 \/ i \in 1 .. n
    OBVIOUS
  <2>3. \A i \in 0 .. n : f[i] = IF i = 0 THEN run ELSE SettleRecord(f[i - 1], plan, group, group.indices[i])
    BY <2>1, <2>2
  <2>4. f = [i \in 0 .. n |-> IF i = 0 THEN run ELSE SettleRecord(f[i - 1], plan, group, group.indices[i])]
    BY <2>1, <2>3
  <2> QED BY <2>4
<1>5. h = [i \in 0 .. n |-> IF i = 0 THEN run ELSE SettleRecord(h[i - 1], plan, group, group.indices[i])]
  BY <1>4, Zenon
<1>6. RecordsSettled(run, plan, group) = h[n]
  BY Zenon DEF RecordsSettled
<1> HIDE DEF h, A
<1>7. h[0] = run /\ \A i \in 1 .. n : h[i] = SettleRecord(h[i - 1], plan, group, group.indices[i])
  <2>1. 0 \in 0 .. n /\ \A i \in 1 .. n : i \in 0 .. n /\ i # 0
    OBVIOUS
  <2> HIDE DEF n
  <2> QED BY <1>5, <2>1
<1> QED BY <1>6, <1>7

\* The runs that RunOf runs through.
LEMMA GroupsUnfold ==
  ASSUME NEW plan, Len(plan.groups) \in Nat
  PROVE  \E f : /\ f[0] = Before
                /\ \A i \in 1 .. Len(plan.groups) : f[i] = SettleGroup(f[i - 1], plan, plan.groups[i])
                /\ RunOf(plan) = f[Len(plan.groups)]
<1> DEFINE n == Len(plan.groups)
           A == {m \in 0 .. n : \E f : /\ f = [i \in 0 .. m |-> f[i]] /\ f[0] = Before
                                      /\ \A i \in 1 .. m : f[i] = SettleGroup(f[i - 1], plan, plan.groups[i])}
           h == CHOOSE f : f = [i \in 0 .. n |-> IF i = 0 THEN Before ELSE SettleGroup(f[i - 1], plan, plan.groups[i])]
<1>1. 0 \in A
  <2> DEFINE f == [i \in 0 .. 0 |-> Before]
  <2>1. f = [i \in 0 .. 0 |-> f[i]] /\ f[0] = Before
    OBVIOUS
  <2> HIDE DEF f
  <2>2. \A i \in 1 .. 0 : f[i] = SettleGroup(f[i - 1], plan, plan.groups[i])
    OBVIOUS
  <2> QED BY <2>1, <2>2
<1>2. \A m \in 0 .. n - 1 : m \in A => m + 1 \in A
  <2> SUFFICES ASSUME NEW m \in 0 .. n - 1, m \in A
               PROVE  m + 1 \in A
    OBVIOUS
  <2>1. PICK f : /\ f = [i \in 0 .. m |-> f[i]] /\ f[0] = Before
                 /\ \A i \in 1 .. m : f[i] = SettleGroup(f[i - 1], plan, plan.groups[i])
    OBVIOUS
  <2>2. PICK last : last = SettleGroup(f[m], plan, plan.groups[m + 1])
    OBVIOUS
  <2> DEFINE g == [i \in 0 .. m + 1 |-> IF i <= m THEN f[i] ELSE last]
  <2>3. g = [i \in 0 .. m + 1 |-> g[i]] /\ g[0] = f[0]
    OBVIOUS
  <2>4. \A i \in 0 .. m : g[i] = f[i]
    OBVIOUS
  <2>5. g[m + 1] = last
    OBVIOUS
  <2> HIDE DEF g
  <2>6. ASSUME NEW i \in 1 .. m + 1
        PROVE  g[i] = SettleGroup(g[i - 1], plan, plan.groups[i])
    <3>1. CASE i <= m
      <4>1. i \in 1 .. m /\ i - 1 \in 0 .. m /\ i \in 0 .. m
        BY <3>1
      <4> QED BY <2>1, <2>4, <4>1
    <3>2. CASE i = m + 1
      <4>1. m \in 0 .. m /\ i - 1 = m
        BY <3>2
      <4> QED BY <2>2, <2>4, <2>5, <3>2, <4>1
    <3> QED BY <3>1, <3>2
  <2>7. m + 1 \in 0 .. n
    OBVIOUS
  <2> QED BY <2>1, <2>3, <2>6, <2>7
<1>3. n \in A
  <2>1. 0 .. n \subseteq A
    <3> HIDE DEF A
    <3> QED BY <1>1, <1>2, Induction
  <2> QED BY <2>1
<1>4. \E f : f = [i \in 0 .. n |-> IF i = 0 THEN Before ELSE SettleGroup(f[i - 1], plan, plan.groups[i])]
  <2>1. PICK f : /\ f = [i \in 0 .. n |-> f[i]] /\ f[0] = Before
                 /\ \A i \in 1 .. n : f[i] = SettleGroup(f[i - 1], plan, plan.groups[i])
    BY <1>3
  <2>2. \A i \in 0 .. n : i = 0 \/ i \in 1 .. n
    OBVIOUS
  <2>3. \A i \in 0 .. n : f[i] = IF i = 0 THEN Before ELSE SettleGroup(f[i - 1], plan, plan.groups[i])
    BY <2>1, <2>2
  <2>4. f = [i \in 0 .. n |-> IF i = 0 THEN Before ELSE SettleGroup(f[i - 1], plan, plan.groups[i])]
    BY <2>1, <2>3
  <2> QED BY <2>4
<1>5. h = [i \in 0 .. n |-> IF i = 0 THEN Before ELSE SettleGroup(h[i - 1], plan, plan.groups[i])]
  BY <1>4, Zenon
<1>6. RunOf(plan) = h[n]
  BY Zenon DEF RunOf
<1> HIDE DEF h, A
<1>7. h[0] = Before /\ \A i \in 1 .. n : h[i] = SettleGroup(h[i - 1], plan, plan.groups[i])
  <2>1. 0 \in 0 .. n /\ \A i \in 1 .. n : i \in 0 .. n /\ i # 0
    OBVIOUS
  <2> HIDE DEF n
  <2> QED BY <1>5, <2>1
<1> QED BY <1>6, <1>7

-----------------------------------------------------------------------------
(* The client's table of accounts.                                         *)

\* The accounts an instruction may name.
Accounts == ({"bucket"} \X Buckets) \cup ({"balance"} \X (Participants \cup Unassigned) \X Mints)

\* No account has two numbers.
Numbered(table) ==
    /\ table \in Seq(Accounts)
    /\ \A a, b \in 1 .. Len(table) : table[a] = table[b] => a = b

\* The numbers given in table still hold in wider.
Extends(wider, table) ==
    Len(table) <= Len(wider) /\ \A a \in 1 .. Len(table) : wider[a] = table[a]

\* A sequence of accounts has a length, and its members are accounts.
LEMMA SequenceIs ==
  \A S : \A s \in Seq(S) :
     Len(s) \in Nat /\ DOMAIN s = 1 .. Len(s) /\ \A a \in 1 .. Len(s) : s[a] \in S
OBVIOUS

\* Appending.
LEMMA AppendIs ==
  \A S : \A s \in Seq(S) : \A x \in S :
     /\ Append(s, x) \in Seq(S) /\ Len(Append(s, x)) = Len(s) + 1
     /\ \A a \in 1 .. Len(s) : Append(s, x)[a] = s[a]
     /\ Append(s, x)[Len(s) + 1] = x
OBVIOUS

\* Putting one sequence behind another.
LEMMA ConcatIs ==
  ASSUME NEW S, NEW s \in Seq(S), NEW t \in Seq(S), NEW both, both = s \o t
  PROVE  /\ both \in Seq(S) /\ Len(both) = Len(s) + Len(t)
         /\ \A a \in 1 .. Len(s) : both[a] = s[a]
         /\ \A a \in 1 .. Len(t) : both[Len(s) + a] = t[a]
OBVIOUS

\* An account is added once and the others keep their numbers.
LEMMA AddedOneFacts ==
  ASSUME NEW table, Numbered(table), NEW x \in Accounts
  PROVE  /\ Numbered(AddedOne(table, x)) /\ Extends(AddedOne(table, x), table)
         /\ \E b \in 1 .. Len(AddedOne(table, x)) : AddedOne(table, x)[b] = x
<1>1. table \in Seq(Accounts) /\ Len(table) \in Nat /\ DOMAIN table = 1 .. Len(table)
  BY SequenceIs DEF Numbered
<1>2. CASE x \in Range(table)
  <2>1. AddedOne(table, x) = table
    BY <1>2 DEF AddedOne
  <2>2. \E b \in 1 .. Len(table) : table[b] = x
    BY <1>1, <1>2 DEF Range
  <2> QED BY <1>1, <2>1, <2>2 DEF Extends
<1>3. CASE x \notin Range(table)
  <2> DEFINE t == Append(table, x)
  <2>1. AddedOne(table, x) = t
    BY <1>3 DEF AddedOne
  <2>2. /\ t \in Seq(Accounts) /\ Len(t) = Len(table) + 1
        /\ \A a \in 1 .. Len(table) : t[a] = table[a]
        /\ t[Len(table) + 1] = x
    BY <1>1, AppendIs
  <2>3. \A a \in 1 .. Len(table) : table[a] # x
    BY <1>1, <1>3 DEF Range
  <2> HIDE DEF t
  <2>4. ASSUME NEW a \in 1 .. Len(t), NEW b \in 1 .. Len(t), t[a] = t[b]
        PROVE  a = b
    <3>1. /\ a \in 1 .. Len(table) \/ a = Len(table) + 1
          /\ b \in 1 .. Len(table) \/ b = Len(table) + 1
      BY <1>1, <2>2
    <3> QED BY <2>2, <2>3, <2>4, <3>1 DEF Numbered
  <2>5. Numbered(t)
    BY <2>2, <2>4 DEF Numbered
  <2>6. Extends(t, table) /\ Len(table) + 1 \in 1 .. Len(t)
    BY <1>1, <2>2 DEF Extends
  <2> QED BY <2>1, <2>2, <2>5, <2>6
<1> QED BY <1>2, <1>3

\* Numbers are kept however often the table is extended.
LEMMA ExtendsIsTransitive ==
  ASSUME NEW t, NEW u, NEW v, Len(t) \in Nat, Len(u) \in Nat, Len(v) \in Nat,
         Extends(u, t), Extends(v, u)
  PROVE  Extends(v, t)
BY DEF Extends

\* After Added every account of the list has a number.
LEMMA AddedFacts ==
  ASSUME NEW table, Numbered(table), NEW accounts \in Seq(Accounts)
  PROVE  LET t == Added(table, accounts) IN
         /\ Numbered(t) /\ Extends(t, table)
         /\ \A a \in 1 .. Len(accounts) : \E b \in 1 .. Len(t) : t[b] = accounts[a]
<1> DEFINE n == Len(accounts)
<1>1. n \in Nat /\ \A a \in 1 .. n : accounts[a] \in Accounts
  BY SequenceIs
<1> HIDE DEF n
<1>2. PICK f : /\ f[0] = table
               /\ \A i \in 1 .. n : f[i] = AddedOne(f[i - 1], accounts[i])
               /\ Added(table, accounts) = f[n]
  BY <1>1, AddedUnfolds DEF n
<1> DEFINE Good(i) == /\ Numbered(f[i]) /\ Extends(f[i], table)
                      /\ \A a \in 1 .. i : \E b \in 1 .. Len(f[i]) : f[i][b] = accounts[a]
           A == {i \in 0 .. n : Good(i)}
<1>3. 0 \in A
  <2>1. Len(table) \in Nat
    BY SequenceIs DEF Numbered
  <2>2. Extends(table, table)
    BY <2>1 DEF Extends
  <2>3. Good(0)
    BY <1>2, <2>2
  <2> QED BY <1>1, <2>3
<1>4. \A i \in 0 .. n - 1 : i \in A => i + 1 \in A
  <2> SUFFICES ASSUME NEW i \in 0 .. n - 1, i \in A
               PROVE  i + 1 \in A
    OBVIOUS
  <2>1. PICK t, x, u : t = f[i] /\ x = accounts[i + 1] /\ u = f[i + 1]
    OBVIOUS
  <2>2. i + 1 \in 1 .. n /\ (i + 1) - 1 = i /\ i + 1 \in 0 .. n
    BY <1>1
  <2>3. x \in Accounts /\ u = AddedOne(t, x)
    BY <1>1, <1>2, <2>1, <2>2
  <2>4. /\ Numbered(t) /\ Extends(t, table)
        /\ \A a \in 1 .. i : \E b \in 1 .. Len(t) : t[b] = accounts[a]
    BY <2>1
  <2>5. /\ Numbered(u) /\ Extends(u, t) /\ \E b \in 1 .. Len(u) : u[b] = x
    BY <2>3, <2>4, AddedOneFacts
  <2>6. Len(table) \in Nat /\ Len(t) \in Nat /\ Len(u) \in Nat
    BY <2>4, <2>5, SequenceIs DEF Numbered
  <2>7. Extends(u, table)
    BY <2>4, <2>5, <2>6, ExtendsIsTransitive
  <2>8. ASSUME NEW a \in 1 .. i + 1
        PROVE  \E b \in 1 .. Len(u) : u[b] = accounts[a]
    <3>1. CASE a = i + 1
      BY <2>1, <2>5, <3>1
    <3>2. CASE a \in 1 .. i
      <4>1. PICK b \in 1 .. Len(t) : t[b] = accounts[a]
        BY <2>4, <3>2
      <4>2. b \in 1 .. Len(u) /\ u[b] = t[b]
        BY <2>5, <2>6 DEF Extends
      <4> QED BY <4>1, <4>2
    <3> QED BY <3>1, <3>2
  <2>9. Good(i + 1)
    BY <2>1, <2>5, <2>7, <2>8
  <2> QED BY <2>2, <2>9
<1>5. n \in A
  <2>1. 0 .. n \subseteq A
    <3> HIDE DEF A
    <3> QED BY <1>1, <1>3, <1>4, Induction
  <2> QED BY <1>1, <2>1
<1> QED BY <1>2, <1>5 DEF n

\* The number of an account in a table that has it.
LEMMA NumberIs ==
  ASSUME NEW table, Numbered(table), NEW x, \E b \in 1 .. Len(table) : table[b] = x
  PROVE  Number(table, x) \in 1 .. Len(table) /\ table[Number(table, x)] = x
<1>1. DOMAIN table = 1 .. Len(table)
  BY SequenceIs DEF Numbered
<1> QED BY <1>1 DEF Number

\* The accounts of a record.
LEMMA AccountsForIs ==
  ASSUME NEW k \in Commitments, HeaderOf(k.channel) \in Header
  PROVE  /\ AccountsFor(k) \in Seq(Accounts) /\ Len(AccountsFor(k)) = 2 + Len(k.allocations)
         /\ AccountsFor(k)[1] = BucketOf(k)
         /\ AccountsFor(k)[2] = BalanceOf(Gateway(k), MintOf(k))
         /\ \A a \in 1 .. Len(k.allocations) :
              AccountsFor(k)[2 + a] = BalanceOf(k.allocations[a].id, MintOf(k))
         /\ Len(k.allocations) \in Nat
<1> DEFINE two == <<BucketOf(k), BalanceOf(Gateway(k), MintOf(k))>>
           rest == [a \in DOMAIN k.allocations |-> BalanceOf(k.allocations[a].id, MintOf(k))]
           l == Len(k.allocations)
<1>1. k \in CommitmentType
  BY WellFormedCommitments
<1>2. k.channel \in Channels /\ k.allocations \in Seq([id : Participants \cup Unassigned, amount : U64])
  BY <1>1 DEF CommitmentType
<1>3. /\ l \in Nat /\ DOMAIN k.allocations = 1 .. l
      /\ \A a \in 1 .. l : k.allocations[a] \in [id : Participants \cup Unassigned, amount : U64]
  BY <1>2, SequenceIs
<1>4. Gateway(k) \in Participants /\ MintOf(k) \in Mints /\ k.channel[1] \in Buckets
  BY <1>2 DEF Gateway, MintOf, Header, Channels
<1>5. BucketOf(k) \in Accounts
  BY <1>4 DEF BucketOf, Accounts
<1>6. \A p \in Participants \cup Unassigned : BalanceOf(p, MintOf(k)) \in Accounts
  BY <1>4 DEF BalanceOf, Accounts
<1> HIDE DEF l
<1>7. \A a \in 1 .. l : BalanceOf(k.allocations[a].id, MintOf(k)) \in Accounts
  BY <1>3, <1>6
<1>8. rest \in Seq(Accounts) /\ Len(rest) = l
  <2>1. rest = [a \in 1 .. l |-> BalanceOf(k.allocations[a].id, MintOf(k))]
    BY <1>3
  <2>2. rest \in [1 .. l -> Accounts]
    BY <1>7, <2>1
  <2> HIDE DEF rest
  <2> QED BY <1>3, <2>2
<1>9. \A a \in 1 .. l : rest[a] = BalanceOf(k.allocations[a].id, MintOf(k))
  BY <1>3
<1>10. /\ two \in Seq(Accounts) /\ Len(two) = 2
       /\ two[1] = BucketOf(k) /\ two[2] = BalanceOf(Gateway(k), MintOf(k))
  BY <1>4, <1>5, <1>6
<1>11. PICK t, u, all : t = two /\ u = rest /\ all = t \o u /\ AccountsFor(k) = all
  BY DEF AccountsFor
<1> HIDE DEF two, rest
<1>12. /\ all \in Seq(Accounts) /\ Len(all) = Len(t) + Len(u)
       /\ \A a \in 1 .. Len(t) : all[a] = t[a]
       /\ \A a \in 1 .. Len(u) : all[Len(t) + a] = u[a]
  <2>1. t \in Seq(Accounts) /\ u \in Seq(Accounts)
    BY <1>8, <1>10, <1>11
  <2>2. all = t \o u
    BY <1>11
  <2> QED BY ONLY <2>1, <2>2, ConcatIs
<1>13. Len(t) = 2 /\ t[1] = two[1] /\ t[2] = two[2] /\ Len(u) = l /\ u = rest
  BY <1>8, <1>10, <1>11
<1>14. /\ all[1] = two[1] /\ all[2] = two[2] /\ Len(all) = 2 + l
       /\ \A a \in 1 .. l : all[2 + a] = rest[a]
  BY ONLY <1>12, <1>13
<1> QED BY <1>3, <1>9, <1>10, <1>11, <1>12, <1>14, ZenonT(30) DEF l

-----------------------------------------------------------------------------
(* The client's groups.                                                    *)

\* The record at place q of the instruction.
Com(order, q) == staging[Buffer].slots[order[q]].com
Owed(k) == BalanceOf(Gateway(k), MintOf(k))

Groups == [source : Nat, primary : Nat, indices : Seq(Indices), providers : Seq(Nat)]

\* The group G of a plan for the first n places: its records are those of one bucket, in
\* the places pos of the instruction and in their order; the provider accounts of record j
\* are numbered behind at[j - 1].
Traced(order, n, table, G, pos, at) ==
    /\ G \in Groups
    /\ G.source \in 1 .. Len(table) /\ G.primary \in 1 .. Len(table)
    /\ pos \in [1 .. Len(G.indices) -> 1 .. n]
    /\ \A i, j \in 1 .. Len(G.indices) : i < j => pos[i] < pos[j]
    /\ \A j \in 1 .. Len(G.indices) :
         /\ G.indices[j] = order[pos[j]]
         /\ BucketOf(Com(order, pos[j])) = table[G.source]
         /\ Owed(Com(order, pos[j])) = table[G.primary]
    /\ \A q \in 1 .. n :
         BucketOf(Com(order, q)) = table[G.source] => \E j \in 1 .. Len(G.indices) : pos[j] = q
    /\ at \in [0 .. Len(G.indices) -> Nat]
    /\ at[0] = 0 /\ at[Len(G.indices)] = Len(G.providers)
    /\ \A j \in 1 .. Len(G.indices) :
         at[j] = at[j - 1] + Len(Com(order, pos[j]).allocations)

\* The providers of a group's records have their numbers in the group's list.
Listed(order, table, G, pos, at) ==
    \A j \in 1 .. Len(G.indices) :
       \A a \in 1 .. Len(Com(order, pos[j]).allocations) :
          /\ at[j - 1] + a \in 1 .. Len(G.providers)
          /\ G.providers[at[j - 1] + a] \in 1 .. Len(table)
          /\ table[G.providers[at[j - 1] + a]]
               = BalanceOf(Com(order, pos[j]).allocations[a].id, MintOf(Com(order, pos[j])))

\* A plan for the first n places: one group for each of their buckets.
PlanFits(plan, order, n) ==
    /\ plan = [table |-> plan.table, groups |-> plan.groups]
    /\ Numbered(plan.table) /\ plan.groups \in Seq(Groups)
    /\ \A g \in 1 .. Len(plan.groups) :
         /\ Len(plan.groups[g].indices) >= 1
         /\ \E pos, at : /\ Traced(order, n, plan.table, plan.groups[g], pos, at)
                         /\ Listed(order, plan.table, plan.groups[g], pos, at)
    /\ \A g, h \in 1 .. Len(plan.groups) :
         plan.groups[g].source = plan.groups[h].source => g = h
    /\ \A q \in 1 .. n : \E g \in 1 .. Len(plan.groups) :
         plan.table[plan.groups[g].source] = BucketOf(Com(order, q))

\* Places that a batch of records can be settled in.
OrderIs(order) ==
    /\ Len(order) \in Nat /\ DOMAIN order = 1 .. Len(order)
    /\ \A q \in 1 .. Len(order) :
         /\ order[q] \in Indices /\ Com(order, q) \in Commitments
         /\ HeaderOf(Com(order, q).channel) \in Header

\* A group stays what it is when the table is extended by more accounts.
LEMMA TraceWidens ==
  ASSUME NEW order, NEW n, NEW table, Len(table) \in Nat, NEW wider, Len(wider) \in Nat,
         Extends(wider, table), NEW G, NEW pos, NEW at,
         Traced(order, n, table, G, pos, at), Listed(order, table, G, pos, at)
  PROVE  Traced(order, n, wider, G, pos, at) /\ Listed(order, wider, G, pos, at)
<1>1. G.source \in 1 .. Len(wider) /\ G.primary \in 1 .. Len(wider)
  BY DEF Traced, Extends
<1>2. wider[G.source] = table[G.source] /\ wider[G.primary] = table[G.primary]
  BY DEF Traced, Extends
<1>3. Traced(order, n, wider, G, pos, at)
  BY <1>1, <1>2 DEF Traced
<1>4. \A x \in 1 .. Len(table) : x \in 1 .. Len(wider) /\ wider[x] = table[x]
  BY DEF Extends
<1>5. Listed(order, wider, G, pos, at)
  BY <1>4 DEF Listed
<1> QED BY <1>3, <1>5

\* A record of another bucket leaves a group as it is.
LEMMA TraceStays ==
  ASSUME NEW order, NEW n \in Nat, NEW table, NEW G, NEW pos, NEW at,
         Traced(order, n, table, G, pos, at), Listed(order, table, G, pos, at),
         BucketOf(Com(order, n + 1)) # table[G.source]
  PROVE  Traced(order, n + 1, table, G, pos, at) /\ Listed(order, table, G, pos, at)
<1>1. pos \in [1 .. Len(G.indices) -> 1 .. n + 1]
  BY DEF Traced
<1>2. \A q \in 1 .. n + 1 : q \in 1 .. n \/ q = n + 1
  OBVIOUS
<1>3. \A q \in 1 .. n + 1 :
         BucketOf(Com(order, q)) = table[G.source] => \E j \in 1 .. Len(G.indices) : pos[j] = q
  BY <1>2 DEF Traced
<1> QED BY <1>1, <1>3 DEF Traced

\* A group that has no record yet.
LEMMA TraceStarts ==
  ASSUME NEW order, NEW n \in Nat, NEW table, NEW source \in 1 .. Len(table),
         NEW primary \in 1 .. Len(table), Len(table) \in Nat,
         \A q \in 1 .. n : BucketOf(Com(order, q)) # table[source]
  PROVE  \E pos, at : /\ Traced(order, n, table, EmptyGroup(source, primary), pos, at)
                      /\ Listed(order, table, EmptyGroup(source, primary), pos, at)
<1> DEFINE G == EmptyGroup(source, primary)
           pos == [j \in 1 .. 0 |-> 1]
           at == [j \in 0 .. 0 |-> 0]
<1>1. /\ G = [source |-> source, primary |-> primary, indices |-> <<>>, providers |-> <<>>]
      /\ <<>> \in Seq(Indices) /\ <<>> \in Seq(Nat) /\ Len(<<>>) = 0
  BY DEF EmptyGroup
<1>2. G \in Groups /\ G.source = source /\ G.primary = primary
      /\ Len(G.indices) = 0 /\ Len(G.providers) = 0
  BY <1>1 DEF Groups
<1> HIDE DEF G
<1>3. \A j : j \notin 1 .. 0
  OBVIOUS
<1>4. pos \in [1 .. 0 -> 1 .. n] /\ at \in [0 .. 0 -> Nat] /\ at[0] = 0
  BY <1>3
<1> HIDE DEF pos, at
<1>5. Traced(order, n, table, G, pos, at)
  BY <1>2, <1>3, <1>4 DEF Traced
<1>6. Listed(order, table, G, pos, at)
  BY <1>2, <1>3 DEF Listed
<1> QED BY <1>5, <1>6 DEF G

\* G with one record more.
Grown(G, i, numbers) ==
    [G EXCEPT !.indices = Append(@, i), !.providers = @ \o numbers]

\* What Grown is.
LEMMA GrownIs ==
  ASSUME NEW G \in Groups, NEW i \in Indices, NEW numbers \in Seq(Nat)
  PROVE  LET H == Grown(G, i, numbers)
             l == Len(G.indices)
             p == Len(G.providers)
         IN  /\ H \in Groups /\ H.source = G.source /\ H.primary = G.primary
             /\ l \in Nat /\ p \in Nat
             /\ Len(H.indices) = l + 1 /\ Len(H.providers) = p + Len(numbers)
             /\ \A j \in 1 .. l : H.indices[j] = G.indices[j]
             /\ H.indices[l + 1] = i
             /\ \A a \in 1 .. p : H.providers[a] = G.providers[a]
             /\ \A a \in 1 .. Len(numbers) : H.providers[p + a] = numbers[a]
<1>1. G.indices \in Seq(Indices) /\ G.providers \in Seq(Nat)
  BY DEF Groups
<1>2. PICK s, t, u, v : /\ s = G.indices /\ u = Append(s, i)
                        /\ t = G.providers /\ v = t \o numbers
  OBVIOUS
<1>3. Grown(G, i, numbers) = [G EXCEPT !.indices = u, !.providers = v]
  BY <1>2 DEF Grown
<1>4. /\ u \in Seq(Indices) /\ Len(u) = Len(s) + 1
      /\ \A j \in 1 .. Len(s) : u[j] = s[j]
      /\ u[Len(s) + 1] = i
  BY <1>1, <1>2, AppendIs
<1>5. /\ v \in Seq(Nat) /\ Len(v) = Len(t) + Len(numbers)
      /\ \A a \in 1 .. Len(t) : v[a] = t[a]
      /\ \A a \in 1 .. Len(numbers) : v[Len(t) + a] = numbers[a]
  <2>1. t \in Seq(Nat) /\ numbers \in Seq(Nat)
    BY <1>1, <1>2
  <2>2. v = t \o numbers
    BY <1>2
  <2> QED BY ONLY <2>1, <2>2, ConcatIs
<1>6. PICK H : H = Grown(G, i, numbers)
  OBVIOUS
<1>7. /\ H \in Groups /\ H.source = G.source /\ H.primary = G.primary
      /\ H.indices = u /\ H.providers = v
  BY <1>3, <1>4, <1>5, <1>6 DEF Groups
<1>8. Len(s) \in Nat /\ Len(t) \in Nat
  BY <1>1, <1>2, SequenceIs
<1> QED BY <1>2, <1>4, <1>5, <1>6, <1>7, <1>8

\* The next record of a group goes behind the others, its providers behind theirs.
LEMMA TraceGrows ==
  ASSUME NEW order, NEW n \in Nat, NEW table, Len(table) \in Nat, NEW G, NEW pos, NEW at,
         Traced(order, n, table, G, pos, at), Listed(order, table, G, pos, at),
         NEW k, k = Com(order, n + 1), order[n + 1] \in Indices,
         BucketOf(k) = table[G.source], Owed(k) = table[G.primary],
         NEW numbers \in Seq(1 .. Len(table)), Len(numbers) = Len(k.allocations),
         \A a \in 1 .. Len(numbers) :
            table[numbers[a]] = BalanceOf(k.allocations[a].id, MintOf(k))
  PROVE  \E newPos, newAt :
            /\ Traced(order, n + 1, table, Grown(G, order[n + 1], numbers), newPos, newAt)
            /\ Listed(order, table, Grown(G, order[n + 1], numbers), newPos, newAt)
<1> DEFINE i == order[n + 1]
           w == Len(numbers)
           l == Len(G.indices)
           p == Len(G.providers)
<1>1. PICK H : H = Grown(G, i, numbers)
  OBVIOUS
<1>2. G \in Groups /\ numbers \in Seq(Nat) /\ w \in Nat /\ i \in Indices
  BY SequenceIs DEF Traced
<1> HIDE DEF i, w, l, p
<1>3. /\ H \in Groups /\ H.source = G.source /\ H.primary = G.primary
      /\ l \in Nat /\ p \in Nat
      /\ Len(H.indices) = l + 1 /\ Len(H.providers) = p + w
      /\ \A j \in 1 .. l : H.indices[j] = G.indices[j]
      /\ H.indices[l + 1] = i
      /\ \A a \in 1 .. p : H.providers[a] = G.providers[a]
      /\ \A a \in 1 .. w : H.providers[p + a] = numbers[a]
  <2>1. G \in Groups
    BY <1>2
  <2>2. numbers \in Seq(Nat)
    BY <1>2
  <2>3. i \in Indices
    BY <1>2
  <2>4. LET J == Grown(G, i, numbers)
            x == Len(G.indices)
            y == Len(G.providers)
        IN  /\ J \in Groups /\ J.source = G.source /\ J.primary = G.primary
            /\ x \in Nat /\ y \in Nat
            /\ Len(J.indices) = x + 1 /\ Len(J.providers) = y + Len(numbers)
            /\ \A j \in 1 .. x : J.indices[j] = G.indices[j]
            /\ J.indices[x + 1] = i
            /\ \A a \in 1 .. y : J.providers[a] = G.providers[a]
            /\ \A a \in 1 .. Len(numbers) : J.providers[y + a] = numbers[a]
    BY ONLY <2>1, <2>2, <2>3, GrownIs
  <2> QED BY <1>1, <2>4 DEF l, p, w
<1> DEFINE newPos == [j \in 1 .. l + 1 |-> IF j <= l THEN pos[j] ELSE n + 1]
           newAt == [j \in 0 .. l + 1 |-> IF j <= l THEN at[j] ELSE p + w]
<1>4. /\ pos \in [1 .. l -> 1 .. n] /\ at \in [0 .. l -> Nat] /\ at[0] = 0 /\ at[l] = p
      /\ \A j \in 1 .. l : at[j] = at[j - 1] + Len(Com(order, pos[j]).allocations)
      /\ \A a, b \in 1 .. l : a < b => pos[a] < pos[b]
  BY DEF Traced, l, p
<1>5. /\ \A j \in 1 .. l : newPos[j] = pos[j]
      /\ newPos[l + 1] = n + 1
      /\ newPos \in [1 .. l + 1 -> 1 .. n + 1]
  <2>1. \A j \in 1 .. l : pos[j] \in 1 .. n /\ j \in 1 .. l + 1
    BY <1>3, <1>4, SMTT(30)
  <2>2. \A j \in 1 .. l + 1 : j <= l \/ j = l + 1
    BY <1>3
  <2>3. newPos[l + 1] = n + 1
    BY <1>3
  <2>4. \A j \in 1 .. l + 1 : j <= l => j \in 1 .. l
    BY <1>3
  <2>5. ASSUME NEW j \in 1 .. l + 1
        PROVE  (IF j <= l THEN pos[j] ELSE n + 1) \in 1 .. n + 1
    BY <2>1, <2>4
  <2> QED BY <2>1, <2>3, <2>5
<1>6. /\ \A j \in 0 .. l : newAt[j] = at[j]
      /\ newAt[l + 1] = p + w /\ newAt[0] = 0
      /\ newAt \in [0 .. l + 1 -> Nat]
  BY <1>2, <1>3, <1>4
<1> HIDE DEF newPos, newAt
<1>7. \A j \in 1 .. l + 1 : j \in 1 .. l \/ j = l + 1
  BY <1>3
<1>8. Com(order, newPos[l + 1]) = k
  BY <1>5
<1>9. \A a, b \in 1 .. l + 1 : a < b => newPos[a] < newPos[b]
  <2> SUFFICES ASSUME NEW a \in 1 .. l + 1, NEW b \in 1 .. l + 1, a < b
               PROVE  newPos[a] < newPos[b]
    OBVIOUS
  <2>1. a \in 1 .. l
    BY <1>3
  <2>2. CASE b \in 1 .. l
    BY <1>4, <1>5, <2>1, <2>2
  <2>3. CASE b = l + 1
    <3>1. pos[a] \in 1 .. n
      BY <1>4, <2>1
    <3> QED BY <1>5, <2>1, <2>3, <3>1
  <2> QED BY <1>7, <2>2, <2>3
<1>10. ASSUME NEW j \in 1 .. l + 1
       PROVE  /\ H.indices[j] = order[newPos[j]]
              /\ BucketOf(Com(order, newPos[j])) = table[H.source]
              /\ Owed(Com(order, newPos[j])) = table[H.primary]
              /\ newAt[j] = newAt[j - 1] + Len(Com(order, newPos[j]).allocations)
  <2>1. CASE j \in 1 .. l
    <3>1. newPos[j] = pos[j] /\ H.indices[j] = G.indices[j]
      BY <1>3, <1>5, <2>1
    <3>2. /\ G.indices[j] = order[pos[j]]
          /\ BucketOf(Com(order, pos[j])) = table[G.source]
          /\ Owed(Com(order, pos[j])) = table[G.primary]
      BY <2>1 DEF Traced, l
    <3>3. newAt[j] = at[j] /\ newAt[j - 1] = at[j - 1]
      <4>1. j \in 0 .. l /\ j - 1 \in 0 .. l
        BY <1>3, <2>1
      <4> QED BY <1>6, <4>1
    <3>4. at[j] = at[j - 1] + Len(Com(order, pos[j]).allocations)
      BY <1>4, <2>1
    <3>5. H.source = G.source /\ H.primary = G.primary
      BY <1>3
    <3>6. /\ H.indices[j] = order[newPos[j]]
          /\ BucketOf(Com(order, newPos[j])) = table[H.source]
          /\ Owed(Com(order, newPos[j])) = table[H.primary]
      BY Zenon, <3>1, <3>2, <3>5
    <3>7. newAt[j] = newAt[j - 1] + Len(Com(order, newPos[j]).allocations)
      BY Zenon, <3>1, <3>3, <3>4
    <3> QED BY Zenon, <3>6, <3>7
  <2>2. CASE j = l + 1
    <3>1. newAt[j - 1] = p /\ newAt[j] = p + w
      <4>1. j - 1 = l /\ l \in 0 .. l
        <5>1. l \in Nat
          BY Zenon, <1>3
        <5> QED BY ONLY <2>2, <5>1
      <4>2. newAt[l] = p
        BY <1>4, <1>6, <4>1
      <4>3. newAt[l + 1] = p + w
        BY <1>6
      <4> QED BY Zenon, <2>2, <4>1, <4>2, <4>3
    <3>2. newPos[j] = n + 1 /\ H.indices[j] = i
      BY <1>3, <1>5, <2>2
    <3>3. w = Len(k.allocations)
      BY DEF w
    <3> QED BY <1>3, <1>8, <2>2, <3>1, <3>2, <3>3 DEF i
  <2> QED BY <1>7, <2>1, <2>2
<1>11. ASSUME NEW q \in 1 .. n + 1, BucketOf(Com(order, q)) = table[H.source]
       PROVE  \E j \in 1 .. l + 1 : newPos[j] = q
  <2>1. CASE q \in 1 .. n
    <3>1. PICK j \in 1 .. l : pos[j] = q
      BY <1>3, <1>11, <2>1 DEF Traced, l
    <3>2. l \in Nat
      BY <1>3
    <3>3. j \in 1 .. l + 1
      BY <3>2
    <3>4. newPos[j] = q
      BY <1>5, <3>1
    <3> QED BY <3>3, <3>4
  <2>2. CASE q = n + 1
    <3>1. l + 1 \in 1 .. l + 1
      BY <1>3
    <3> QED BY <1>5, <2>2, <3>1
  <2> QED BY <2>1, <2>2
<1>12. Traced(order, n + 1, table, H, newPos, newAt)
  <2>1. H.source \in 1 .. Len(table) /\ H.primary \in 1 .. Len(table)
    BY <1>3 DEF Traced
  <2> QED BY <1>3, <1>5, <1>6, <1>9, <1>10, <1>11, <2>1 DEF Traced
<1>13. ASSUME NEW j \in 1 .. l + 1, NEW a \in 1 .. Len(Com(order, newPos[j]).allocations)
       PROVE  /\ newAt[j - 1] + a \in 1 .. Len(H.providers)
              /\ H.providers[newAt[j - 1] + a] \in 1 .. Len(table)
              /\ table[H.providers[newAt[j - 1] + a]]
                   = BalanceOf(Com(order, newPos[j]).allocations[a].id, MintOf(Com(order, newPos[j])))
  <2>1. CASE j \in 1 .. l
    <3>1. newPos[j] = pos[j] /\ newAt[j - 1] = at[j - 1]
      <4>1. j - 1 \in 0 .. l
        BY <1>3, <2>1
      <4> QED BY <1>5, <1>6, <2>1, <4>1
    <3>2. /\ at[j - 1] + a \in 1 .. p
          /\ G.providers[at[j - 1] + a] \in 1 .. Len(table)
          /\ table[G.providers[at[j - 1] + a]]
               = BalanceOf(Com(order, pos[j]).allocations[a].id, MintOf(Com(order, pos[j])))
      BY <2>1, <3>1 DEF Listed, l, p
    <3>3. H.providers[at[j - 1] + a] = G.providers[at[j - 1] + a]
      BY <1>3, <3>2
    <3>4. at[j - 1] + a \in 1 .. Len(H.providers)
      BY <1>2, <1>3, <3>2
    <3> QED BY <3>1, <3>2, <3>3, <3>4
  <2>2. CASE j = l + 1
    <3>1. newAt[j - 1] = p
      <4>1. j - 1 = l /\ l \in 0 .. l
        BY <1>3, <2>2
      <4> QED BY <1>4, <1>6, <4>1
    <3>2. Com(order, newPos[j]) = k /\ a \in 1 .. w
      BY <1>8, <1>13, <2>2 DEF w
    <3>3. H.providers[p + a] = numbers[a] /\ p + a \in 1 .. Len(H.providers)
      BY <1>2, <1>3, <3>2
    <3>4. numbers[a] \in 1 .. Len(table) /\ table[numbers[a]] = BalanceOf(k.allocations[a].id, MintOf(k))
      BY <3>2, SequenceIs DEF w
    <3> QED BY <3>1, <3>2, <3>3, <3>4
  <2> QED BY <1>7, <2>1, <2>2
<1>14. Listed(order, table, H, newPos, newAt)
  BY <1>3, <1>13 DEF Listed
<1> QED BY <1>1, <1>12, <1>14 DEF i

\* Records of one bucket owe to one balance.
LEMMA SameBucket ==
  ASSUME NEW j, NEW k, BucketOf(j) = BucketOf(k)
  PROVE  Owed(j) = Owed(k) /\ MintOf(j) = MintOf(k)
<1>1. j.channel[1] = k.channel[1]
  BY DEF BucketOf
<1> QED BY <1>1 DEF Owed, MintOf, Gateway, HeaderOf

\* The client and the program name the same record.
LEMMA BatchHas ==
  ASSUME NEW order, OrderIs(order), NEW q \in 1 .. Len(order)
  PROVE  Batch[order[q] + 1] = Com(order, q)
<1>1. order[q] \in Indices /\ BatchSize \in Nat
  BY BatchesNotEmpty DEF OrderIs
<1>2. order[q] + 1 \in 1 .. BatchSize /\ (order[q] + 1) - 1 = order[q]
  BY <1>1 DEF Indices
<1> QED BY <1>2 DEF Batch, Com

\* The numbers of a record's accounts are those of its bucket, the balance it owes to and
\* its providers.
NumbersFor(table, k, numbers) ==
    /\ numbers[1] \in 1 .. Len(table) /\ table[numbers[1]] = BucketOf(k)
    /\ numbers[2] \in 1 .. Len(table) /\ table[numbers[2]] = Owed(k)
    /\ SubSeq(numbers, 3, Len(numbers)) \in Seq(1 .. Len(table))
    /\ Len(SubSeq(numbers, 3, Len(numbers))) = Len(k.allocations)
    /\ \A a \in 1 .. Len(k.allocations) :
         table[SubSeq(numbers, 3, Len(numbers))[a]] = BalanceOf(k.allocations[a].id, MintOf(k))

\* What is behind the first two of a sequence.
LEMMA BehindTwo ==
  ASSUME NEW S, NEW w \in Nat, NEW s \in [1 .. 2 + w -> S]
  PROVE  /\ Len(s) = 2 + w
         /\ SubSeq(s, 3, Len(s)) \in Seq(S) /\ Len(SubSeq(s, 3, Len(s))) = w
         /\ \A a \in 1 .. w : SubSeq(s, 3, Len(s))[a] = s[2 + a]
<1>1. s \in Seq(S) /\ Len(s) = 2 + w
  OBVIOUS
<1>2. SubSeq(s, 3, Len(s)) = [a \in 1 .. w |-> s[2 + a]]
  BY <1>1
<1>3. \A a \in 1 .. w : 2 + a \in 1 .. 2 + w
  OBVIOUS
<1>4. [a \in 1 .. w |-> s[2 + a]] \in [1 .. w -> S]
  BY <1>3
<1> QED BY <1>1, <1>2, <1>4

\* What the client makes of a record's accounts.
LEMMA NumberedAccounts ==
  ASSUME NEW table, Numbered(table), NEW k \in Commitments, HeaderOf(k.channel) \in Header,
         NEW accounts, accounts = AccountsFor(k), NEW wider, wider = Added(table, accounts),
         NEW numbers, numbers = [a \in DOMAIN accounts |-> Number(wider, accounts[a])]
  PROVE  /\ Numbered(wider) /\ Extends(wider, table)
         /\ NumbersFor(wider, k, numbers)
<1> DEFINE w == Len(k.allocations)
<1>1. /\ accounts \in Seq(Accounts) /\ Len(accounts) = 2 + w /\ w \in Nat
      /\ accounts[1] = BucketOf(k) /\ accounts[2] = Owed(k)
      /\ \A a \in 1 .. w : accounts[2 + a] = BalanceOf(k.allocations[a].id, MintOf(k))
  BY AccountsForIs DEF Owed
<1>2. /\ Numbered(wider) /\ Extends(wider, table)
      /\ \A a \in 1 .. Len(accounts) : \E b \in 1 .. Len(wider) : wider[b] = accounts[a]
  BY SMTT(60), <1>1, AddedFacts
<1> HIDE DEF w
<1>3. DOMAIN accounts = 1 .. 2 + w
  BY <1>1
<1>4. \A a \in 1 .. 2 + w : numbers[a] \in 1 .. Len(wider) /\ wider[numbers[a]] = accounts[a]
  <2> SUFFICES ASSUME NEW a \in 1 .. 2 + w
               PROVE  numbers[a] \in 1 .. Len(wider) /\ wider[numbers[a]] = accounts[a]
    OBVIOUS
  <2>1. PICK x : x = accounts[a]
    BY Zenon
  <2>2. \E b \in 1 .. Len(wider) : wider[b] = x
    BY <1>1, <1>2, <2>1
  <2>3. Number(wider, x) \in 1 .. Len(wider) /\ wider[Number(wider, x)] = x
    BY <1>2, <2>2, NumberIs
  <2>4. numbers[a] = Number(wider, x)
    BY <1>3, <2>1
  <2> QED BY <2>1, <2>3, <2>4
<1>5. numbers \in [1 .. 2 + w -> 1 .. Len(wider)]
  BY <1>3, <1>4
<1>6. PICK behind : behind = SubSeq(numbers, 3, Len(numbers))
  BY Zenon
<1>7. /\ behind \in Seq(1 .. Len(wider)) /\ Len(behind) = w
      /\ \A a \in 1 .. w : behind[a] = numbers[2 + a]
  BY <1>1, <1>5, <1>6, BehindTwo
<1>8. \A a \in 1 .. w : wider[behind[a]] = BalanceOf(k.allocations[a].id, MintOf(k))
  <2> SUFFICES ASSUME NEW a \in 1 .. w
               PROVE  wider[behind[a]] = BalanceOf(k.allocations[a].id, MintOf(k))
    OBVIOUS
  <2>1. 2 + a \in 1 .. 2 + w
    BY <1>1
  <2>2. wider[numbers[2 + a]] = accounts[2 + a]
    BY <1>4, <2>1
  <2> QED BY <1>1, <1>7, <2>2
<1>9. 1 \in 1 .. 2 + w /\ 2 \in 1 .. 2 + w
  BY <1>1
<1>10. NumbersFor(wider, k, numbers)
  BY <1>1, <1>4, <1>6, <1>7, <1>8, <1>9 DEF NumbersFor, w
<1> QED BY <1>2, <1>10

\* The groups that a record is put into: its own, or a new one behind the others.
Home(plan, table, groups, g, source, primary) ==
    /\ groups \in Seq(Groups) /\ g \in 1 .. Len(groups)
    /\ groups[g].source = source /\ groups[g].primary = primary
    /\ \/ groups = plan.groups
       \/ /\ g = Len(plan.groups) + 1 /\ Len(groups) = Len(plan.groups) + 1
          /\ \A h \in 1 .. Len(plan.groups) : groups[h] = plan.groups[h] /\ plan.groups[h].source # source
          /\ groups[g] = EmptyGroup(source, primary)

\* One update of two fields of a group.
LEMMA GrownAt ==
  ASSUME NEW groups \in Seq(Groups), NEW g \in 1 .. Len(groups), NEW i, NEW numbers
  PROVE  Joined(groups, g, i, numbers) = [groups EXCEPT ![g] = Grown(groups[g], i, numbers)]
<1>1. g \in DOMAIN groups /\ groups[g] \in Groups
  BY SequenceIs
<1>2. PICK G : G = groups[g]
  BY Zenon
<1>3. PICK a, b : a = Append(G.indices, i) /\ b = G.providers \o numbers
  OBVIOUS
<1>4. [groups EXCEPT ![g].indices = Append(@, i), ![g].providers = @ \o numbers]
        = [[groups EXCEPT ![g] = [G EXCEPT !.indices = a]] EXCEPT ![g] = [[G EXCEPT !.indices = a] EXCEPT !.providers = b]]
  <2>1. [groups EXCEPT ![g].indices = Append(@, i), ![g].providers = @ \o numbers]
          = [[groups EXCEPT ![g] = [G EXCEPT !.indices = a]] EXCEPT ![g].providers = @ \o numbers]
    BY <1>1, <1>2, <1>3
  <2> QED BY <1>1, <1>2, <1>3, <2>1 DEF Groups
<1>5. Grown(groups[g], i, numbers) = [[G EXCEPT !.indices = a] EXCEPT !.providers = b]
  BY <1>1, <1>2, <1>3 DEF Grown, Groups
<1> QED BY <1>1, <1>4, <1>5 DEF Joined

\* A group with a record of its bucket owes to that record's balance.
LEMMA TraceOwes ==
  ASSUME NEW order, NEW n, NEW table, NEW G, NEW s, s = G.source, NEW p, p = G.primary,
         Len(G.indices) >= 1, \E pos, at : Traced(order, n, table, G, pos, at),
         NEW k, table[s] = BucketOf(k)
  PROVE  s \in 1 .. Len(table) /\ p \in 1 .. Len(table) /\ table[p] = Owed(k)
<1>1. PICK pos, at : Traced(order, n, table, G, pos, at)
  OBVIOUS
<1>2. Len(G.indices) \in Nat
  BY <1>1, SequenceIs DEF Traced, Groups
<1>3. 1 \in 1 .. Len(G.indices)
  BY <1>2
<1>4. /\ G.source \in 1 .. Len(table) /\ G.primary \in 1 .. Len(table)
      /\ BucketOf(Com(order, pos[1])) = table[G.source]
      /\ Owed(Com(order, pos[1])) = table[G.primary]
  BY <1>1, <1>3 DEF Traced
<1>5. Owed(Com(order, pos[1])) = Owed(k)
  BY <1>4, SameBucket
<1> QED BY <1>4, <1>5

\* So does each group of a plan that fits.
LEMMA GroupOwes ==
  ASSUME NEW order, NEW n \in Nat, NEW plan, PlanFits(plan, order, n),
         NEW g \in 1 .. Len(plan.groups), NEW k,
         plan.table[plan.groups[g].source] = BucketOf(k)
  PROVE  /\ plan.groups[g].source \in 1 .. Len(plan.table)
         /\ plan.groups[g].primary \in 1 .. Len(plan.table)
         /\ plan.table[plan.groups[g].primary] = Owed(k)
<1>1. PICK G, table, s, p : /\ G = plan.groups[g] /\ table = plan.table
                            /\ s = G.source /\ p = G.primary
  BY Zenon
<1>2. Len(G.indices) >= 1 /\ \E pos, at : Traced(order, n, table, G, pos, at)
  BY <1>1 DEF PlanFits
<1>3. table[s] = BucketOf(k)
  BY <1>1
<1>4. s \in 1 .. Len(table) /\ p \in 1 .. Len(table) /\ table[p] = Owed(k)
  BY <1>1, <1>2, <1>3, TraceOwes
<1> QED BY <1>1, <1>4

\* Where the client puts the next record.
LEMMA GroupedIs ==
  ASSUME NEW order, OrderIs(order), NEW n \in Nat, n < Len(order), NEW plan,
         PlanFits(plan, order, n)
  PROVE  LET k == Com(order, n + 1)
         IN  \E wider, numbers, groups, g :
               /\ Numbered(wider) /\ Extends(wider, plan.table)
               /\ NumbersFor(wider, k, numbers)
               /\ Home(plan, wider, groups, g, numbers[1], numbers[2])
               /\ Grouped(plan, order[n + 1])
                    = [table |-> wider,
                       groups |-> [groups EXCEPT ![g] =
                          Grown(groups[g], order[n + 1], SubSeq(numbers, 3, Len(numbers)))]]
<1> DEFINE i == order[n + 1]
           k == Com(order, n + 1)
<1>1. n + 1 \in 1 .. Len(order) /\ Len(order) \in Nat
  BY DEF OrderIs
<1>2. /\ i \in Indices /\ k \in Commitments /\ HeaderOf(k.channel) \in Header
      /\ Batch[i + 1] = k
  BY <1>1, BatchHas DEF OrderIs
<1>3. Numbered(plan.table) /\ plan.groups \in Seq(Groups)
  BY DEF PlanFits
<1> HIDE DEF k, i
<1>4. PICK accounts : accounts = AccountsFor(k)
  BY Zenon
<1>5. PICK wider : wider = Added(plan.table, accounts)
  BY Zenon
<1>6. PICK numbers : numbers = [a \in DOMAIN accounts |-> Number(wider, accounts[a])]
  BY Zenon
<1>7. /\ Numbered(wider) /\ Extends(wider, plan.table)
      /\ NumbersFor(wider, k, numbers)
  BY <1>2, <1>3, <1>4, <1>5, <1>6, NumberedAccounts
<1> DEFINE mine == {h \in DOMAIN plan.groups : /\ plan.groups[h].source = numbers[1]
                                               /\ plan.groups[h].primary = numbers[2]}
           groups == IF mine = {} THEN Append(plan.groups, EmptyGroup(numbers[1], numbers[2]))
                                  ELSE plan.groups
           g == IF mine = {} THEN Len(groups) ELSE CHOOSE h \in mine : TRUE
<1>8. Grouped(plan, i)
        = [table |-> wider, groups |-> Joined(groups, g, i, SubSeq(numbers, 3, Len(numbers)))]
  <2>1. Grouped(plan, i) = [table |-> wider, groups |-> Placed(plan.groups, i, numbers)]
    BY <1>2, <1>4, <1>5, <1>6 DEF Grouped
  <2>2. Placed(plan.groups, i, numbers) = Joined(groups, g, i, SubSeq(numbers, 3, Len(numbers)))
    BY ONLY Zenon DEF Placed, mine, groups, g
  <2> QED BY <2>1, <2>2
<1>9. Len(plan.groups) \in Nat /\ DOMAIN plan.groups = 1 .. Len(plan.groups)
  BY <1>3, SequenceIs
<1>10. \A h \in 1 .. Len(plan.groups) :
          plan.groups[h].source = numbers[1] => plan.groups[h].primary = numbers[2]
  <2> SUFFICES ASSUME NEW h \in 1 .. Len(plan.groups), plan.groups[h].source = numbers[1]
               PROVE  plan.groups[h].primary = numbers[2]
    OBVIOUS
  <2>1. PICK s, p : s = plan.groups[h].source /\ p = plan.groups[h].primary
    BY Zenon
  <2>2. s \in 1 .. Len(plan.table) /\ p \in 1 .. Len(plan.table)
    <3>1. \E pos, at : Traced(order, n, plan.table, plan.groups[h], pos, at)
      BY DEF PlanFits
    <3> QED BY <2>1, <3>1 DEF Traced
  <2>3. wider[s] = plan.table[s] /\ wider[p] = plan.table[p] /\ p \in 1 .. Len(wider)
    <3>1. Len(wider) \in Nat /\ Len(plan.table) \in Nat
      BY <1>3, <1>7, SequenceIs DEF Numbered
    <3> QED BY <1>7, <2>2, <3>1 DEF Extends
  <2>4. plan.table[plan.groups[h].source] = BucketOf(k)
    BY <1>7, <2>1, <2>3 DEF NumbersFor
  <2>5. wider[p] = Owed(k)
    <3>1. PICK c, G, table : c = k /\ G = plan.groups[h] /\ table = plan.table
      BY Zenon
    <3>2. table[s] = BucketOf(c)
      BY <2>1, <2>4, <3>1
    <3>3. Len(G.indices) >= 1 /\ \E pos, at : Traced(order, n, table, G, pos, at)
      BY <3>1 DEF PlanFits
    <3>4. G.source = s /\ G.primary = p
      BY <2>1, <3>1
    <3> HIDE DEF k
    <3>5. table[p] = Owed(c)
      BY <3>2, <3>3, <3>4, TraceOwes
    <3> QED BY <2>3, <3>1, <3>5
  <2>6. wider[numbers[2]] = Owed(k) /\ numbers[2] \in 1 .. Len(wider)
    BY <1>7 DEF NumbersFor
  <2> QED BY <1>7, <2>1, <2>3, <2>5, <2>6 DEF Numbered
<1>11. Home(plan, wider, groups, g, numbers[1], numbers[2])
  <2>1. CASE mine = {}
    <3>1. PICK E : E = EmptyGroup(numbers[1], numbers[2])
      BY Zenon
    <3>2. numbers[1] \in Nat /\ numbers[2] \in Nat
      <4>1. Len(wider) \in Nat
        BY <1>7, SequenceIs DEF Numbered
      <4> QED BY <1>7, <4>1 DEF NumbersFor
    <3>3. E \in Groups /\ E.source = numbers[1] /\ E.primary = numbers[2]
      BY <3>1, <3>2 DEF EmptyGroup, Groups
    <3>4. groups = Append(plan.groups, E) /\ g = Len(groups)
      BY <2>1, <3>1
    <3>5. \A h \in 1 .. Len(plan.groups) : plan.groups[h].source # numbers[1]
      BY <1>9, <1>10, <2>1
    <3> HIDE DEF groups, g, mine
    <3>6. /\ groups \in Seq(Groups) /\ Len(groups) = Len(plan.groups) + 1
          /\ \A h \in 1 .. Len(plan.groups) : groups[h] = plan.groups[h]
          /\ groups[Len(plan.groups) + 1] = E
      BY <1>3, <3>3, <3>4, AppendIs
    <3>7. g \in 1 .. Len(groups) /\ g = Len(plan.groups) + 1
      BY <1>9, <3>4, <3>6
    <3> QED BY <3>1, <3>3, <3>5, <3>6, <3>7 DEF Home
  <2>2. CASE mine # {}
    <3>1. groups = plan.groups
      BY <2>2
    <3>2. g \in mine
      BY <2>2, SMTT(30)
    <3>3. g \in 1 .. Len(groups) /\ groups[g].source = numbers[1] /\ groups[g].primary = numbers[2]
      BY <1>9, <3>1, <3>2
    <3> QED BY <1>3, <3>1, <3>3 DEF Home
  <2> QED BY <2>1, <2>2
<1> HIDE DEF groups, g, mine
<1>12. PICK numbersBehind : numbersBehind = SubSeq(numbers, 3, Len(numbers))
  BY Zenon
<1>13. Joined(groups, g, i, numbersBehind)
         = [groups EXCEPT ![g] = Grown(groups[g], i, numbersBehind)]
  <2>1. groups \in Seq(Groups) /\ g \in 1 .. Len(groups)
    BY <1>11 DEF Home
  <2>2. groups \in Seq(Groups)
    BY <2>1
  <2>3. g \in 1 .. Len(groups)
    BY <2>1
  <2> QED BY ONLY <2>2, <2>3, GrownAt
<1>14. Grouped(plan, i)
         = [table |-> wider, groups |-> [groups EXCEPT ![g] = Grown(groups[g], i, SubSeq(numbers, 3, Len(numbers)))]]
  BY <1>8, <1>12, <1>13
<1> QED BY <1>7, <1>11, <1>14 DEF i, k

\* The groups are those of the plan, and perhaps one more, for the bucket numbered source.
Housed(order, n, plan, wider, groups, g, source) ==
    /\ Len(groups) \in Nat /\ Len(plan.groups) \in Nat /\ Len(plan.groups) <= Len(groups)
    /\ \A h \in 1 .. Len(plan.groups) : groups[h] = plan.groups[h]
    /\ \A h \in 1 .. Len(groups) : h # g => h \in 1 .. Len(plan.groups)
    /\ \A h \in 1 .. Len(groups) :
         \E pos, at : /\ Traced(order, n, wider, groups[h], pos, at)
                      /\ Listed(order, wider, groups[h], pos, at)
    /\ \A h \in 1 .. Len(groups) : groups[h].source = source => h = g

\* The groups before the record is put in, over the wider table.
LEMMA HomeTraced ==
  ASSUME NEW order, NEW n \in Nat, NEW plan, PlanFits(plan, order, n),
         NEW wider, Numbered(wider), Extends(wider, plan.table),
         NEW source \in 1 .. Len(wider), NEW primary \in 1 .. Len(wider),
         NEW groups, NEW g, Home(plan, wider, groups, g, source, primary)
  PROVE  Housed(order, n, plan, wider, groups, g, source)
<1>1. /\ Len(plan.groups) \in Nat /\ Len(plan.table) \in Nat /\ Len(wider) \in Nat
      /\ Len(groups) \in Nat
  BY SequenceIs DEF PlanFits, Numbered, Home
<1>2. /\ Len(plan.groups) <= Len(groups)
      /\ \A h \in 1 .. Len(plan.groups) : groups[h] = plan.groups[h]
      /\ \A h \in 1 .. Len(groups) : h # g => h \in 1 .. Len(plan.groups)
  <2>1. CASE groups = plan.groups
    BY <1>1, <2>1
  <2>2. CASE groups # plan.groups
    <3>1. /\ g = Len(plan.groups) + 1 /\ Len(groups) = Len(plan.groups) + 1
          /\ \A h \in 1 .. Len(plan.groups) : groups[h] = plan.groups[h]
      BY <2>2 DEF Home
    <3> QED BY <1>1, <3>1
  <2> QED BY <2>1, <2>2
<1>3. ASSUME NEW h \in 1 .. Len(plan.groups)
      PROVE  \E pos, at : /\ Traced(order, n, wider, groups[h], pos, at)
                          /\ Listed(order, wider, groups[h], pos, at)
  <2>1. PICK G : G = groups[h]
    BY Zenon
  <2>2. G = plan.groups[h]
    BY <1>2, <2>1
  <2>3. PICK pos, at : /\ Traced(order, n, plan.table, G, pos, at)
                       /\ Listed(order, plan.table, G, pos, at)
    BY <2>2 DEF PlanFits
  <2>4. Traced(order, n, wider, G, pos, at) /\ Listed(order, wider, G, pos, at)
    BY <1>1, <2>3, TraceWidens
  <2> QED BY <2>1, <2>4
<1>4. ASSUME groups # plan.groups
      PROVE  \E pos, at : /\ Traced(order, n, wider, groups[g], pos, at)
                          /\ Listed(order, wider, groups[g], pos, at)
  <2>1. /\ \A h \in 1 .. Len(plan.groups) : plan.groups[h].source # source
        /\ groups[g] = EmptyGroup(source, primary)
    BY <1>4 DEF Home
  <2>2. ASSUME NEW q \in 1 .. n
        PROVE  BucketOf(Com(order, q)) # wider[source]
    <3>1. PICK h \in 1 .. Len(plan.groups) :
             plan.table[plan.groups[h].source] = BucketOf(Com(order, q))
      BY DEF PlanFits
    <3>2. plan.groups[h].source \in 1 .. Len(plan.table)
      BY <3>1, GroupOwes
    <3>3. PICK x : x = plan.groups[h].source
      BY Zenon
    <3>4. x \in 1 .. Len(wider) /\ wider[x] = plan.table[x] /\ x # source
      BY <1>1, <2>1, <3>2, <3>3, SMTT(30) DEF Extends
    <3> QED BY <3>1, <3>3, <3>4 DEF Numbered
  <2>3. \E pos, at : /\ Traced(order, n, wider, EmptyGroup(source, primary), pos, at)
                     /\ Listed(order, wider, EmptyGroup(source, primary), pos, at)
    BY <1>1, <2>2, TraceStarts
  <2> QED BY <2>1, <2>3
<1>5. ASSUME NEW h \in 1 .. Len(groups)
      PROVE  \E pos, at : /\ Traced(order, n, wider, groups[h], pos, at)
                          /\ Listed(order, wider, groups[h], pos, at)
  <2>1. CASE h \in 1 .. Len(plan.groups)
    BY <1>3, <2>1
  <2>2. CASE h \notin 1 .. Len(plan.groups)
    <3>1. h = g /\ groups # plan.groups
      BY <1>2, <2>2
    <3> QED BY <1>4, <3>1
  <2> QED BY <2>1, <2>2
<1>6. ASSUME NEW h \in 1 .. Len(groups), groups[h].source = source
      PROVE  h = g
  <2>1. CASE groups = plan.groups
    <3>1. g \in 1 .. Len(plan.groups) /\ plan.groups[g].source = source
      BY <2>1 DEF Home
    <3> QED BY <1>6, <2>1, <3>1 DEF PlanFits
  <2>2. CASE groups # plan.groups
    <3>1. \A x \in 1 .. Len(plan.groups) : groups[x] = plan.groups[x] /\ plan.groups[x].source # source
      BY <2>2 DEF Home
    <3> QED BY <1>2, <1>6, <3>1
  <2> QED BY <2>1, <2>2
<1> QED BY <1>1, <1>2, <1>5, <1>6 DEF Housed

\* The plan goes on fitting as the client takes up record after record.
LEMMA GroupedFits ==
  ASSUME NEW order, OrderIs(order), NEW n \in Nat, n < Len(order), NEW plan,
         PlanFits(plan, order, n)
  PROVE  PlanFits(Grouped(plan, order[n + 1]), order, n + 1)
<1>1. PICK k, i : k = Com(order, n + 1) /\ i = order[n + 1]
  OBVIOUS
<1>2. /\ n + 1 \in 1 .. Len(order) /\ i \in Indices /\ k \in Commitments
  BY <1>1 DEF OrderIs
<1>3. PICK wider, numbers, groups, g :
         /\ Numbered(wider) /\ Extends(wider, plan.table)
         /\ NumbersFor(wider, k, numbers)
         /\ Home(plan, wider, groups, g, numbers[1], numbers[2])
         /\ Grouped(plan, i)
              = [table |-> wider,
                 groups |-> [groups EXCEPT ![g] =
                    Grown(groups[g], i, SubSeq(numbers, 3, Len(numbers)))]]
  <2>1. \E wider, numbers, groups, g :
           /\ Numbered(wider) /\ Extends(wider, plan.table)
           /\ NumbersFor(wider, Com(order, n + 1), numbers)
           /\ Home(plan, wider, groups, g, numbers[1], numbers[2])
           /\ Grouped(plan, order[n + 1])
                = [table |-> wider,
                   groups |-> [groups EXCEPT ![g] =
                      Grown(groups[g], order[n + 1], SubSeq(numbers, 3, Len(numbers)))]]
    BY GroupedIs
  <2> QED BY ONLY <1>1, <2>1
<1>4. PICK behind, G, source, primary :
         /\ behind = SubSeq(numbers, 3, Len(numbers)) /\ G = groups[g]
         /\ source = numbers[1] /\ primary = numbers[2]
  OBVIOUS
<1>5. /\ source \in 1 .. Len(wider) /\ wider[source] = BucketOf(k)
      /\ primary \in 1 .. Len(wider) /\ wider[primary] = Owed(k)
      /\ behind \in Seq(1 .. Len(wider)) /\ Len(behind) = Len(k.allocations)
      /\ \A a \in 1 .. Len(k.allocations) :
           wider[behind[a]] = BalanceOf(k.allocations[a].id, MintOf(k))
  BY <1>3, <1>4 DEF NumbersFor
<1>6. Home(plan, wider, groups, g, source, primary)
  BY <1>3, <1>4
<1>7. /\ Len(groups) \in Nat /\ Len(plan.groups) \in Nat /\ Len(plan.groups) <= Len(groups)
      /\ \A h \in 1 .. Len(plan.groups) : groups[h] = plan.groups[h]
      /\ \A h \in 1 .. Len(groups) : h # g => h \in 1 .. Len(plan.groups)
      /\ \A h \in 1 .. Len(groups) :
           \E pos, at : /\ Traced(order, n, wider, groups[h], pos, at)
                        /\ Listed(order, wider, groups[h], pos, at)
      /\ \A h \in 1 .. Len(groups) : groups[h].source = source => h = g
  <2>1. source \in 1 .. Len(wider)
    BY <1>5
  <2>2. primary \in 1 .. Len(wider)
    BY <1>5
  <2>3. Numbered(wider)
    BY <1>3
  <2>4. Extends(wider, plan.table)
    BY <1>3
  <2>5. Housed(order, n, plan, wider, groups, g, source)
    BY <1>6, <2>1, <2>2, <2>3, <2>4, HomeTraced
  <2> QED BY <2>5 DEF Housed
<1>8. /\ groups \in Seq(Groups) /\ g \in 1 .. Len(groups) /\ G \in Groups
      /\ G.source = source /\ G.primary = primary /\ Len(wider) \in Nat
  BY <1>3, <1>4, <1>6, SequenceIs DEF Home, Numbered
<1>9. PICK H, new : H = Grown(G, i, behind) /\ new = [groups EXCEPT ![g] = H]
  OBVIOUS
<1>10. Grouped(plan, i) = [table |-> wider, groups |-> new]
  BY <1>3, <1>4, <1>9
<1>11. behind \in Seq(Nat)
  BY <1>5, <1>8
<1>12. H \in Groups /\ H.source = source /\ H.primary = primary /\ Len(H.indices) >= 1
  <2>1. /\ H \in Groups /\ H.source = G.source /\ H.primary = G.primary
        /\ Len(G.indices) \in Nat /\ Len(H.indices) = Len(G.indices) + 1
    <3>1. G \in Groups
      BY <1>8
    <3>2. i \in Indices
      BY <1>2
    <3>3. LET J == Grown(G, i, behind)
              x == Len(G.indices)
              y == Len(G.providers)
          IN  /\ J \in Groups /\ J.source = G.source /\ J.primary = G.primary
              /\ x \in Nat /\ y \in Nat
              /\ Len(J.indices) = x + 1 /\ Len(J.providers) = y + Len(behind)
              /\ \A j \in 1 .. x : J.indices[j] = G.indices[j]
              /\ J.indices[x + 1] = i
              /\ \A a \in 1 .. y : J.providers[a] = G.providers[a]
              /\ \A a \in 1 .. Len(behind) : J.providers[y + a] = behind[a]
      BY ONLY <3>1, <3>2, <1>11, GrownIs
    <3> QED BY ONLY <1>9, <3>3
  <2> QED BY <1>8, <2>1
<1>13. /\ new \in Seq(Groups) /\ Len(new) = Len(groups) /\ new[g] = H
       /\ \A h \in 1 .. Len(groups) : h # g => new[h] = plan.groups[h]
  <2>1. groups \in [1 .. Len(groups) -> Groups]
    BY <1>8
  <2>2. new \in [1 .. Len(groups) -> Groups]
    BY <1>9, <1>12, <2>1
  <2>3. new \in Seq(Groups) /\ Len(new) = Len(groups)
    BY <1>7, <2>2
  <2>4. new[g] = H /\ \A h \in 1 .. Len(groups) : h # g => new[h] = groups[h]
    BY <1>8, <1>9, <2>1
  <2> QED BY <1>7, <2>3, <2>4
<1>14. \E pos, at : /\ Traced(order, n + 1, wider, H, pos, at)
                    /\ Listed(order, wider, H, pos, at)
  <2>1. PICK pos, at : /\ Traced(order, n, wider, G, pos, at) /\ Listed(order, wider, G, pos, at)
    BY <1>4, <1>7, <1>8
  <2>2. \E newPos, newAt :
            /\ Traced(order, n + 1, wider, Grown(G, order[n + 1], behind), newPos, newAt)
            /\ Listed(order, wider, Grown(G, order[n + 1], behind), newPos, newAt)
    <3>1. behind \in Seq(1 .. Len(wider))
      BY <1>5
    <3>2. /\ Len(behind) = Len(k.allocations)
          /\ BucketOf(k) = wider[G.source] /\ Owed(k) = wider[G.primary]
          /\ \A a \in 1 .. Len(behind) : wider[behind[a]] = BalanceOf(k.allocations[a].id, MintOf(k))
      BY <1>5, <1>8
    <3>3. k = Com(order, n + 1) /\ order[n + 1] \in Indices /\ Len(wider) \in Nat
      BY <1>1, <1>2, <1>8
    <3> QED BY <2>1, <3>1, <3>2, <3>3, TraceGrows
  <2> QED BY <1>1, <1>9, <2>2
<1>15. ASSUME NEW h \in 1 .. Len(groups), h # g
       PROVE  /\ Len(new[h].indices) >= 1 /\ new[h].source # source
              /\ \E pos, at : /\ Traced(order, n + 1, wider, new[h], pos, at)
                              /\ Listed(order, wider, new[h], pos, at)
  <2>1. PICK J : J = new[h]
    BY Zenon
  <2>2. J = groups[h] /\ J = plan.groups[h] /\ h \in 1 .. Len(plan.groups)
    BY <1>7, <1>13, <1>15, <2>1
  <2>3. Len(J.indices) >= 1 /\ J.source # source
    BY <1>7, <1>15, <2>2 DEF PlanFits
  <2>4. PICK pos, at : /\ Traced(order, n, wider, J, pos, at) /\ Listed(order, wider, J, pos, at)
    BY <1>7, <2>2
  <2>5. BucketOf(Com(order, n + 1)) # wider[J.source]
    <3>1. J.source \in 1 .. Len(wider)
      BY <2>4 DEF Traced
    <3> QED BY <1>1, <1>3, <1>5, <2>3, <3>1 DEF Numbered
  <2>6. /\ Traced(order, n + 1, wider, J, pos, at) /\ Listed(order, wider, J, pos, at)
    BY <2>4, <2>5, TraceStays
  <2> QED BY <2>1, <2>3, <2>6
<1>16. \A h \in 1 .. Len(new) :
          /\ Len(new[h].indices) >= 1
          /\ \E pos, at : /\ Traced(order, n + 1, wider, new[h], pos, at)
                          /\ Listed(order, wider, new[h], pos, at)
  BY <1>12, <1>13, <1>14, <1>15
<1>17. ASSUME NEW a \in 1 .. Len(new), NEW b \in 1 .. Len(new), new[a].source = new[b].source
       PROVE  a = b
  <2>1. CASE a = g \/ b = g
    BY <1>12, <1>13, <1>15, <1>17, <2>1
  <2>2. CASE a # g /\ b # g
    <3>1. a \in 1 .. Len(plan.groups) /\ b \in 1 .. Len(plan.groups)
          /\ plan.groups[a].source = plan.groups[b].source
      BY <1>7, <1>13, <1>17, <2>2
    <3> QED BY <3>1 DEF PlanFits
  <2> QED BY <2>1, <2>2
<1>18. ASSUME NEW q \in 1 .. n + 1
       PROVE  \E h \in 1 .. Len(new) : wider[new[h].source] = BucketOf(Com(order, q))
  <2>1. CASE q \in 1 .. n
    <3>1. PICK h \in 1 .. Len(plan.groups) :
             plan.table[plan.groups[h].source] = BucketOf(Com(order, q))
      BY <2>1 DEF PlanFits
    <3>2. plan.groups[h].source \in 1 .. Len(plan.table)
      BY <3>1, GroupOwes
    <3>3. wider[plan.groups[h].source] = BucketOf(Com(order, q))
      BY <1>3, <3>1, <3>2 DEF Extends
    <3>4. h \in 1 .. Len(new) /\ new[h].source = plan.groups[h].source
      <4>1. h \in 1 .. Len(groups)
        BY <1>7
      <4>2. CASE h = g
        BY <1>4, <1>7, <1>8, <1>12, <1>13, <4>2
      <4>3. CASE h # g
        BY <1>13, <4>1, <4>3
      <4> QED BY <1>13, <4>1, <4>2, <4>3
    <3> QED BY <3>3, <3>4
  <2>2. CASE q = n + 1
    BY <1>1, <1>5, <1>8, <1>12, <1>13, <2>2
  <2> QED BY <2>1, <2>2
<1>19. PICK plan2 : plan2 = Grouped(plan, i)
  BY Zenon
<1>20. plan2 = [table |-> wider, groups |-> new] /\ plan2.table = wider /\ plan2.groups = new
  BY <1>10, <1>19
<1>21. PlanFits(plan2, order, n + 1)
  BY <1>3, <1>13, <1>16, <1>17, <1>18, <1>20 DEF PlanFits
<1> QED BY <1>1, <1>19, <1>21

\* The client's plan fits the order.
LEMMA PlanOfFits ==
  ASSUME NEW order, OrderIs(order)
  PROVE  PlanFits(PlanOf(order), order, Len(order))
<1> DEFINE N == Len(order)
<1>1. N \in Nat
  BY DEF OrderIs
<1>2. PICK f : /\ f[0] = NoPlan
               /\ \A i \in 1 .. N : f[i] = Grouped(f[i - 1], order[i])
               /\ PlanOf(order) = f[N]
  BY <1>1, PlanUnfolds
<1> DEFINE A == {n \in 0 .. N : PlanFits(f[n], order, n)}
<1>3. PlanFits(NoPlan, order, 0)
  <2>1. PICK p : p = NoPlan
    BY Zenon
  <2>2. /\ p = [table |-> p.table, groups |-> p.groups]
        /\ p.table = <<>> /\ p.groups = <<>>
    BY <2>1 DEF NoPlan
  <2>3. p.table \in Seq(Accounts) /\ p.groups \in Seq(Groups) /\ Len(p.table) = 0 /\ Len(p.groups) = 0
    BY <2>2
  <2>4. PlanFits(p, order, 0)
    BY <2>2, <2>3 DEF PlanFits, Numbered
  <2> QED BY <2>1, <2>4
<1>4. ASSUME NEW i \in 0 .. N - 1, i \in A
      PROVE  i + 1 \in A
  <2>1. PICK p : p = f[i]
    BY Zenon
  <2>2. i + 1 \in 1 .. N /\ (i + 1) - 1 = i /\ i \in Nat /\ i < Len(order)
    BY <1>1
  <2>3. f[i + 1] = Grouped(p, order[i + 1])
    BY <1>2, <2>1, <2>2
  <2>4. PlanFits(Grouped(p, order[i + 1]), order, i + 1)
    BY <1>4, <2>1, <2>2, GroupedFits
  <2> QED BY <2>2, <2>3, <2>4
<1>5. 0 \in A
  BY <1>1, <1>2, <1>3
<1> HIDE DEF A
<1>6. 0 .. N \subseteq A
  BY <1>1, <1>4, <1>5, Induction
<1>7. N \in A
  BY <1>1, <1>6
<1> QED BY <1>2, <1>7 DEF A

-----------------------------------------------------------------------------
(* The money after any part of an instruction.                             *)

\* What f holds at the places in D.
Part(f, D) == [q \in DOMAIN f |-> IF q \in D THEN f[q] ELSE 0]

\* A part is a sum of natural numbers.
LEMMA PartTypes ==
  ASSUME NEW n \in Nat, NEW max \in Nat, NEW f \in [1 .. n -> 0 .. max], NEW D
  PROVE  Part(f, D) \in [1 .. n -> 0 .. max] /\ Total(Part(f, D)) \in Nat
<1>1. Part(f, D) \in [1 .. n -> 0 .. max]
  BY DEF Part
<1>2. IsFiniteSet(1 .. n)
  BY FS_Interval
<1>3. PICK g : g = Part(f, D)
  BY Zenon
<1>4. g \in [1 .. n -> 0 .. max]
  BY <1>1, <1>3
<1>5. Total(g) \in Nat
  BY ONLY <1>2, <1>4, TotalIsNat, max \in Nat
<1> QED BY <1>1, <1>3, <1>5

\* One place more adds what is there.
LEMMA PartStep ==
  ASSUME NEW n \in Nat, NEW max \in Nat, NEW f \in [1 .. n -> 0 .. max], NEW D,
         NEW q \in 1 .. n, q \notin D
  PROVE  Total(Part(f, D \cup {q})) = Total(Part(f, D)) + f[q]
<1>1. IsFiniteSet(1 .. n)
  BY FS_Interval
<1>2. PICK g, h : g = Part(f, D) /\ h = Part(f, D \cup {q})
  OBVIOUS
<1>3. g \in [1 .. n -> 0 .. max] /\ h \in [1 .. n -> 0 .. max]
  BY <1>2, PartTypes
<1>4. h[q] = g[q] + f[q] /\ \A x \in 1 .. n \ {q} : h[x] = g[x]
  BY <1>2 DEF Part
<1>5. f[q] \in Nat
  OBVIOUS
<1>6. \A x, y \in [1 .. n -> 0 .. max] : \A e \in 1 .. n : \A i \in Nat :
         (y[e] = x[e] + i /\ \A z \in 1 .. n \ {e} : y[z] = x[z]) => Total(y) = Total(x) + i
  <2> DEFINE Adds(S) ==
         \A x, y \in [S -> 0 .. max] : \A e \in S : \A i \in Nat :
            (y[e] = x[e] + i /\ \A z \in S \ {e} : y[z] = x[z]) => Total(y) = Total(x) + i
  <2>1. PICK S : S = 1 .. n
    BY Zenon
  <2>2. IsFiniteSet(S)
    BY ONLY <1>1, <2>1, Zenon
  <2>3. Adds(S)
    BY <2>2, IncreaseAdds
  <2>4. Adds(1 .. n)
    <3> HIDE DEF Adds
    <3> QED BY Zenon, <2>1, <2>3
  <2> QED BY Zenon, <2>4
<1>7. Total(h) = Total(g) + f[q]
  <2>1. \A e \in 1 .. n : \A i \in Nat :
           (h[e] = g[e] + i /\ \A z \in 1 .. n \ {e} : h[z] = g[z]) => Total(h) = Total(g) + i
    BY Zenon, <1>3, <1>6
  <2> QED BY Zenon, <1>4, <1>5, <2>1
<1> QED BY <1>2, <1>7

\* Nothing is in no place.
LEMMA PartOfNothing ==
  ASSUME NEW n \in Nat, NEW max \in Nat, NEW f \in [1 .. n -> 0 .. max]
  PROVE  Total(Part(f, {})) = 0
<1>1. PICK g : g = Part(f, {})
  BY Zenon
<1>2. g \in [1 .. n -> 0 .. 0]
  BY <1>1 DEF Part
<1>3. Total(g) = 0
  BY ONLY <1>2, TotalOfNothing
<1> QED BY <1>1, <1>3

\* More places hold no less.
LEMMA PartGrows ==
  ASSUME NEW n \in Nat, NEW max \in Nat, NEW f \in [1 .. n -> 0 .. max], NEW D, NEW E, D \subseteq E
  PROVE  Total(Part(f, D)) <= Total(Part(f, E))
<1>1. IsFiniteSet(1 .. n)
  BY FS_Interval
<1>2. PICK g, h, r : g = Part(f, D) /\ h = Part(f, E) /\ r = Part(f, E \ D)
  OBVIOUS
<1>3. /\ g \in [1 .. n -> 0 .. max] /\ h \in [1 .. n -> 0 .. max] /\ r \in [1 .. n -> 0 .. max]
      /\ Total(g) \in Nat /\ Total(r) \in Nat
  BY <1>2, PartTypes
<1>4. \A x \in 1 .. n : h[x] = g[x] + r[x]
  BY <1>2 DEF Part
<1>5. \A x, y, z \in [1 .. n -> 0 .. max] :
         (\A i \in 1 .. n : z[i] = x[i] + y[i]) => Total(z) = Total(x) + Total(y)
  BY <1>1, SumsAdd
<1>6. Total(h) = Total(g) + Total(r)
  BY <1>3, <1>4, <1>5
<1> QED BY <1>2, <1>3, <1>6

\* Places where nothing is do not count.
LEMMA PartSame ==
  ASSUME NEW f, NEW D, NEW E, \A q \in DOMAIN f : f[q] # 0 => (q \in D <=> q \in E)
  PROVE  Part(f, D) = Part(f, E)
<1>1. \A q \in DOMAIN f : (IF q \in D THEN f[q] ELSE 0) = (IF q \in E THEN f[q] ELSE 0)
  OBVIOUS
<1> QED BY ONLY <1>1 DEF Part

\* What the records move and pay when they are settled in the order they are given, M
\* being the money in between.
Moves(order, M) == [q \in 1 .. Len(order) |-> MovedBy(M[q - 1], Com(order, q))]
Paying(order, M) == [q \in 1 .. Len(order) |-> Shares(M[q - 1], Com(order, q))]

\* Place by place: what left channel c, what reached p in mint m, what p had from c.
OfChannel(order, V, c) ==
    [q \in 1 .. Len(order) |-> IF Com(order, q).channel = c THEN V[q] ELSE 0]
IntoMint(order, S, m, p) ==
    [q \in 1 .. Len(order) |-> IF MintOf(Com(order, q)) = m THEN S[q][p] ELSE 0]
FromChannel(order, S, c, p) ==
    [q \in 1 .. Len(order) |-> IF Com(order, q).channel = c THEN S[q][p] ELSE 0]

\* The money after the places in D, whatever their order.
After(order, V, S, D) ==
    [locked |-> [c \in Channels |-> locked[c] - Total(Part(OfChannel(order, V, c), D))],
     settled |-> [c \in Channels |-> settled[c] + Total(Part(OfChannel(order, V, c), D))],
     available |-> [m \in Mints |-> [p \in Participants |->
                      available[m][p] + Total(Part(IntoMint(order, S, m, p), D))]],
     paidFrom |-> [c \in Channels |-> [p \in Participants |->
                      paidFrom[c][p] + Total(Part(FromChannel(order, S, c, p), D))]]]

\* Pay, for given amounts.
Effect(M, k, moved, share) ==
    [locked |-> [c \in Channels |-> IF c = k.channel THEN M.locked[c] - moved ELSE M.locked[c]],
     settled |-> [c \in Channels |-> IF c = k.channel THEN M.settled[c] + moved ELSE M.settled[c]],
     available |-> [m \in Mints |-> [p \in Participants |->
                      IF m = MintOf(k) THEN M.available[m][p] + share[p] ELSE M.available[m][p]]],
     paidFrom |-> [c \in Channels |-> [p \in Participants |->
                      IF c = k.channel THEN M.paidFrom[c][p] + share[p] ELSE M.paidFrom[c][p]]]]

\* The amounts are u64.
Tabled(order, V, S) ==
    /\ V \in [1 .. Len(order) -> U64] /\ S \in [1 .. Len(order) -> [Participants -> U64]]

\* The places' amounts are u64.
LEMMA PlaceTypes ==
  ASSUME NEW order, NEW V, NEW S, Tabled(order, V, S)
  PROVE  /\ MaxU64 \in Nat
         /\ \A c : OfChannel(order, V, c) \in [1 .. Len(order) -> 0 .. MaxU64]
         /\ \A m : \A p \in Participants : IntoMint(order, S, m, p) \in [1 .. Len(order) -> 0 .. MaxU64]
         /\ \A c : \A p \in Participants : FromChannel(order, S, c, p) \in [1 .. Len(order) -> 0 .. MaxU64]
<1>1. MaxU64 \in Nat /\ 0 \in 0 .. MaxU64 /\ U64 = 0 .. MaxU64
  BY NumbersAreU64 DEF U64
<1>2. \A q \in 1 .. Len(order) : V[q] \in 0 .. MaxU64 /\ \A p \in Participants : S[q][p] \in 0 .. MaxU64
  BY <1>1 DEF Tabled
<1>3. \A c : OfChannel(order, V, c) \in [1 .. Len(order) -> 0 .. MaxU64]
  BY <1>1, <1>2 DEF OfChannel
<1>4. \A m : \A p \in Participants : IntoMint(order, S, m, p) \in [1 .. Len(order) -> 0 .. MaxU64]
  BY <1>1, <1>2 DEF IntoMint
<1>5. \A c : \A p \in Participants : FromChannel(order, S, c, p) \in [1 .. Len(order) -> 0 .. MaxU64]
  BY <1>1, <1>2 DEF FromChannel
<1> QED BY <1>1, <1>3, <1>4, <1>5

\* PartTypes and PartStep, at a place of the instruction.
LEMMA PartAt ==
  ASSUME NEW order, Len(order) \in Nat, NEW f \in [1 .. Len(order) -> 0 .. MaxU64], NEW D,
         NEW q \in 1 .. Len(order), q \notin D
  PROVE  /\ Total(Part(f, D)) \in Nat
         /\ Total(Part(f, D \cup {q})) = Total(Part(f, D)) + f[q]
<1>1. PICK n : n = Len(order)
  BY Zenon
<1>2. n \in Nat /\ MaxU64 \in Nat /\ f \in [1 .. n -> 0 .. MaxU64] /\ q \in 1 .. n
  BY <1>1, NumbersAreU64
<1>3. Total(Part(f, D)) \in Nat
  BY <1>2, PartTypes
<1>4. Total(Part(f, D \cup {q})) = Total(Part(f, D)) + f[q]
  BY <1>2, PartStep, SMTT(30)
<1> QED BY <1>3, <1>4

\* Before the first record.
LEMMA AfterNothing ==
  ASSUME MoneyInOrder, NEW order, Len(order) \in Nat, NEW V, NEW S, Tabled(order, V, S)
  PROVE  After(order, V, S, {}) = Money
<1>1. /\ locked \in [Channels -> U64] /\ settled \in [Channels -> U64]
      /\ available \in [Mints -> [Participants -> U64]]
      /\ paidFrom \in [Channels -> [Participants -> U64]]
      /\ \A x \in U64 : x - 0 = x /\ x + 0 = x
  BY NumbersAreU64 DEF MoneyInOrder, TypeOK, U64
<1>2. \A c : Total(Part(OfChannel(order, V, c), {})) = 0
  BY PlaceTypes, PartOfNothing
<1>3. \A m : \A p \in Participants : Total(Part(IntoMint(order, S, m, p), {})) = 0
  BY PlaceTypes, PartOfNothing
<1>4. \A c : \A p \in Participants : Total(Part(FromChannel(order, S, c, p), {})) = 0
  BY PlaceTypes, PartOfNothing
<1>5. [c \in Channels |-> locked[c] - Total(Part(OfChannel(order, V, c), {}))] = locked
  BY <1>1, <1>2
<1>6. [c \in Channels |-> settled[c] + Total(Part(OfChannel(order, V, c), {}))] = settled
  BY <1>1, <1>2
<1>7. [m \in Mints |-> [p \in Participants |->
          available[m][p] + Total(Part(IntoMint(order, S, m, p), {}))]] = available
  BY <1>1, <1>3
<1>8. [c \in Channels |-> [p \in Participants |->
          paidFrom[c][p] + Total(Part(FromChannel(order, S, c, p), {}))]] = paidFrom
  BY <1>1, <1>4
<1> QED BY <1>5, <1>6, <1>7, <1>8 DEF After, Money

\* One place more has the effect of its record.
LEMMA AfterStep ==
  ASSUME MoneyInOrder, NEW order, Len(order) \in Nat, NEW V, NEW S, Tabled(order, V, S),
         NEW D, NEW q \in 1 .. Len(order), q \notin D
  PROVE  After(order, V, S, D \cup {q}) = Effect(After(order, V, S, D), Com(order, q), V[q], S[q])
<1> DEFINE k == Com(order, q)
<1>1. /\ locked \in [Channels -> Int] /\ settled \in [Channels -> Int]
      /\ available \in [Mints -> [Participants -> Int]]
      /\ paidFrom \in [Channels -> [Participants -> Int]]
      /\ V[q] \in Int /\ \A p \in Participants : S[q][p] \in Int
  <2>1. U64 \subseteq Int
    BY NumbersAreU64 DEF U64
  <2>2. /\ locked \in [Channels -> U64] /\ settled \in [Channels -> U64]
        /\ available \in [Mints -> [Participants -> U64]]
        /\ paidFrom \in [Channels -> [Participants -> U64]]
    BY DEF MoneyInOrder, TypeOK
  <2>3. V[q] \in U64 /\ S[q] \in [Participants -> U64]
    BY DEF Tabled
  <2> QED BY <2>1, <2>2, <2>3
<1> DEFINE a(c) == Total(Part(OfChannel(order, V, c), D))
           b(m, p) == Total(Part(IntoMint(order, S, m, p), D))
           d(c, p) == Total(Part(FromChannel(order, S, c, p), D))
<1>2. \A c : /\ a(c) \in Nat
             /\ Total(Part(OfChannel(order, V, c), D \cup {q})) = a(c) + (IF k.channel = c THEN V[q] ELSE 0)
  <2> SUFFICES ASSUME NEW c
               PROVE  /\ a(c) \in Nat
                      /\ Total(Part(OfChannel(order, V, c), D \cup {q})) = a(c) + (IF k.channel = c THEN V[q] ELSE 0)
    OBVIOUS
  <2>1. PICK f : f = OfChannel(order, V, c)
    BY Zenon
  <2>2. f \in [1 .. Len(order) -> 0 .. MaxU64] /\ MaxU64 \in Nat
    BY <2>1, PlaceTypes
  <2>3. f[q] = IF k.channel = c THEN V[q] ELSE 0
    BY <2>1 DEF OfChannel
  <2>4. Total(Part(f, D)) \in Nat
    BY <2>2, PartAt
  <2>5. Total(Part(f, D \cup {q})) = Total(Part(f, D)) + f[q]
    BY <2>2, PartAt
  <2> QED BY <2>1, <2>3, <2>4, <2>5
<1>3. \A m : \A p \in Participants :
             /\ b(m, p) \in Nat
             /\ Total(Part(IntoMint(order, S, m, p), D \cup {q})) = b(m, p) + (IF MintOf(k) = m THEN S[q][p] ELSE 0)
  <2> SUFFICES ASSUME NEW m, NEW p \in Participants
               PROVE  /\ b(m, p) \in Nat
                      /\ Total(Part(IntoMint(order, S, m, p), D \cup {q})) = b(m, p) + (IF MintOf(k) = m THEN S[q][p] ELSE 0)
    OBVIOUS
  <2>1. PICK f : f = IntoMint(order, S, m, p)
    BY Zenon
  <2>2. f \in [1 .. Len(order) -> 0 .. MaxU64] /\ MaxU64 \in Nat
    BY <2>1, PlaceTypes
  <2>3. f[q] = IF MintOf(k) = m THEN S[q][p] ELSE 0
    BY <2>1 DEF IntoMint
  <2>4. Total(Part(f, D)) \in Nat
    BY <2>2, PartAt
  <2>5. Total(Part(f, D \cup {q})) = Total(Part(f, D)) + f[q]
    BY <2>2, PartAt
  <2> QED BY <2>1, <2>3, <2>4, <2>5
<1>4. \A c : \A p \in Participants :
             /\ d(c, p) \in Nat
             /\ Total(Part(FromChannel(order, S, c, p), D \cup {q})) = d(c, p) + (IF k.channel = c THEN S[q][p] ELSE 0)
  <2> SUFFICES ASSUME NEW c, NEW p \in Participants
               PROVE  /\ d(c, p) \in Nat
                      /\ Total(Part(FromChannel(order, S, c, p), D \cup {q})) = d(c, p) + (IF k.channel = c THEN S[q][p] ELSE 0)
    OBVIOUS
  <2>1. PICK f : f = FromChannel(order, S, c, p)
    BY Zenon
  <2>2. f \in [1 .. Len(order) -> 0 .. MaxU64] /\ MaxU64 \in Nat
    BY <2>1, PlaceTypes
  <2>3. f[q] = IF k.channel = c THEN S[q][p] ELSE 0
    BY <2>1 DEF FromChannel
  <2>4. Total(Part(f, D)) \in Nat
    BY <2>2, PartAt
  <2>5. Total(Part(f, D \cup {q})) = Total(Part(f, D)) + f[q]
    BY <2>2, PartAt
  <2> QED BY <2>1, <2>3, <2>4, <2>5
<1>5. PICK A, B : A = After(order, V, S, D) /\ B = After(order, V, S, D \cup {q})
  OBVIOUS
<1>6. A = [locked |-> [c \in Channels |-> locked[c] - a(c)],
           settled |-> [c \in Channels |-> settled[c] + a(c)],
           available |-> [m \in Mints |-> [p \in Participants |-> available[m][p] + b(m, p)]],
           paidFrom |-> [c \in Channels |-> [p \in Participants |-> paidFrom[c][p] + d(c, p)]]]
  BY <1>5 DEF After
<1>7. /\ B = [locked |-> B.locked, settled |-> B.settled, available |-> B.available, paidFrom |-> B.paidFrom]
      /\ B.locked = [c \in Channels |-> locked[c] - Total(Part(OfChannel(order, V, c), D \cup {q}))]
      /\ B.settled = [c \in Channels |-> settled[c] + Total(Part(OfChannel(order, V, c), D \cup {q}))]
      /\ B.available = [m \in Mints |-> [p \in Participants |->
                          available[m][p] + Total(Part(IntoMint(order, S, m, p), D \cup {q}))]]
      /\ B.paidFrom = [c \in Channels |-> [p \in Participants |->
                         paidFrom[c][p] + Total(Part(FromChannel(order, S, c, p), D \cup {q}))]]
  BY <1>5 DEF After
<1> HIDE DEF a, b, d, k
<1>8. B.locked = [c \in Channels |-> IF c = k.channel THEN A.locked[c] - V[q] ELSE A.locked[c]]
  <2>1. ASSUME NEW c \in Channels
        PROVE  locked[c] - Total(Part(OfChannel(order, V, c), D \cup {q}))
                 = IF c = k.channel THEN A.locked[c] - V[q] ELSE A.locked[c]
    <3>1. A.locked[c] = locked[c] - a(c)
      BY <1>6
    <3>2. locked[c] \in Int /\ V[q] \in Int /\ a(c) \in Nat
      BY <1>1, <1>2
    <3>3. Total(Part(OfChannel(order, V, c), D \cup {q})) = a(c) + (IF k.channel = c THEN V[q] ELSE 0)
      BY <1>2
    <3> QED BY <3>1, <3>2, <3>3
  <2> QED BY ONLY <1>7, <2>1
<1>9. B.settled = [c \in Channels |-> IF c = k.channel THEN A.settled[c] + V[q] ELSE A.settled[c]]
  <2>1. ASSUME NEW c \in Channels
        PROVE  settled[c] + Total(Part(OfChannel(order, V, c), D \cup {q}))
                 = IF c = k.channel THEN A.settled[c] + V[q] ELSE A.settled[c]
    <3>1. A.settled[c] = settled[c] + a(c)
      BY <1>6
    <3>2. settled[c] \in Int /\ V[q] \in Int /\ a(c) \in Nat
      BY <1>1, <1>2
    <3>3. Total(Part(OfChannel(order, V, c), D \cup {q})) = a(c) + (IF k.channel = c THEN V[q] ELSE 0)
      BY <1>2
    <3> QED BY <3>1, <3>2, <3>3
  <2> QED BY ONLY <1>7, <2>1
<1>10. B.available = [m \in Mints |-> [p \in Participants |->
                        IF m = MintOf(k) THEN A.available[m][p] + S[q][p] ELSE A.available[m][p]]]
  <2>1. ASSUME NEW m \in Mints, NEW p \in Participants
        PROVE  available[m][p] + Total(Part(IntoMint(order, S, m, p), D \cup {q}))
                 = IF m = MintOf(k) THEN A.available[m][p] + S[q][p] ELSE A.available[m][p]
    <3>1. A.available[m][p] = available[m][p] + b(m, p)
      BY <1>6
    <3>2. available[m][p] \in Int /\ S[q][p] \in Int /\ b(m, p) \in Nat
      BY <1>1, <1>3
    <3>3. Total(Part(IntoMint(order, S, m, p), D \cup {q})) = b(m, p) + (IF MintOf(k) = m THEN S[q][p] ELSE 0)
      BY <1>3
    <3> QED BY <3>1, <3>2, <3>3
  <2>2. ASSUME NEW m \in Mints
        PROVE  [p \in Participants |->
                  available[m][p] + Total(Part(IntoMint(order, S, m, p), D \cup {q}))]
                 = [p \in Participants |->
                      IF m = MintOf(k) THEN A.available[m][p] + S[q][p] ELSE A.available[m][p]]
    BY ONLY <2>1
  <2> QED BY ONLY <1>7, <2>2
<1>11. B.paidFrom = [c \in Channels |-> [p \in Participants |->
                        IF c = k.channel THEN A.paidFrom[c][p] + S[q][p] ELSE A.paidFrom[c][p]]]
  <2>1. ASSUME NEW c \in Channels, NEW p \in Participants
        PROVE  paidFrom[c][p] + Total(Part(FromChannel(order, S, c, p), D \cup {q}))
                 = IF c = k.channel THEN A.paidFrom[c][p] + S[q][p] ELSE A.paidFrom[c][p]
    <3>1. A.paidFrom[c][p] = paidFrom[c][p] + d(c, p)
      BY <1>6
    <3>2. paidFrom[c][p] \in Int /\ S[q][p] \in Int /\ d(c, p) \in Nat
      BY <1>1, <1>4
    <3>3. Total(Part(FromChannel(order, S, c, p), D \cup {q})) = d(c, p) + (IF k.channel = c THEN S[q][p] ELSE 0)
      BY <1>4
    <3> QED BY <3>1, <3>2, <3>3
  <2>2. B.paidFrom = [c \in Channels |-> [p \in Participants |->
                        paidFrom[c][p] + Total(Part(FromChannel(order, S, c, p), D \cup {q}))]]
    BY <1>7
  <2>3. PICK h : h = [c \in Channels |-> [p \in Participants |->
                        paidFrom[c][p] + Total(Part(FromChannel(order, S, c, p), D \cup {q}))]]
    BY Zenon
  <2>4. h = [c \in Channels |-> [p \in Participants |->
               IF c = k.channel THEN A.paidFrom[c][p] + S[q][p] ELSE A.paidFrom[c][p]]]
    BY ONLY <2>1, <2>3
  <2> QED BY ONLY <2>2, <2>3, <2>4
<1>12. B = Effect(A, k, V[q], S[q])
  BY <1>7, <1>8, <1>9, <1>10, <1>11 DEF Effect
<1> QED BY <1>5, <1>12 DEF k

\* Pay has the effect of what it moves.
LEMMA PayIsEffect ==
  ASSUME TypeOK, NEW x, x \in Commitments, HeaderOf(x.channel) \in Header, NEW M \in MoneySet
  PROVE  Pay(M, x) = Effect(M, x, MovedBy(M, x), Shares(M, x))
<1>1. x.channel \in Channels /\ MintOf(x) = HeaderOf(x.channel).mint /\ MintOf(x) \in Mints
  BY CommitmentFacts DEF MintOf, Header
<1>2. PICK c, m, moved, share, l, s, a, f :
         /\ c = x.channel /\ m = MintOf(x) /\ moved = MovedBy(M, x) /\ share = Shares(M, x)
         /\ l = M.locked /\ s = M.settled /\ a = M.available /\ f = M.paidFrom
  OBVIOUS
<1>3. /\ l = [d \in Channels |-> l[d]] /\ s = [d \in Channels |-> s[d]]
      /\ a = [n \in Mints |-> a[n]] /\ \A n \in Mints : a[n] = [p \in Participants |-> a[n][p]]
      /\ f = [d \in Channels |-> f[d]] /\ \A d \in Channels : f[d] = [p \in Participants |-> f[d][p]]
  BY <1>2 DEF MoneySet
<1>4. Pay(M, x) = [locked |-> [l EXCEPT ![c] = @ - moved], settled |-> [s EXCEPT ![c] = @ + moved],
                   available |-> [a EXCEPT ![m] = [p \in Participants |-> @[p] + share[p]]],
                   paidFrom |-> [f EXCEPT ![c] = [p \in Participants |-> @[p] + share[p]]]]
  BY <1>1, <1>2 DEF Pay
<1>5. [l EXCEPT ![c] = @ - moved] = [d \in Channels |-> IF d = c THEN l[d] - moved ELSE l[d]]
  BY ONLY <1>3
<1>6. [s EXCEPT ![c] = @ + moved] = [d \in Channels |-> IF d = c THEN s[d] + moved ELSE s[d]]
  BY ONLY <1>3
<1>7. [a EXCEPT ![m] = [p \in Participants |-> @[p] + share[p]]]
        = [n \in Mints |-> [p \in Participants |-> IF n = m THEN a[n][p] + share[p] ELSE a[n][p]]]
  BY ONLY <1>3
<1>8. [f EXCEPT ![c] = [p \in Participants |-> @[p] + share[p]]]
        = [d \in Channels |-> [p \in Participants |-> IF d = c THEN f[d][p] + share[p] ELSE f[d][p]]]
  BY ONLY <1>3
<1>9. Effect(M, x, moved, share)
        = [locked |-> [d \in Channels |-> IF d = c THEN l[d] - moved ELSE l[d]],
           settled |-> [d \in Channels |-> IF d = c THEN s[d] + moved ELSE s[d]],
           available |-> [n \in Mints |-> [p \in Participants |-> IF n = m THEN a[n][p] + share[p] ELSE a[n][p]]],
           paidFrom |-> [d \in Channels |-> [p \in Participants |-> IF d = c THEN f[d][p] + share[p] ELSE f[d][p]]]]
  BY ONLY <1>2 DEF Effect
<1> QED BY ONLY <1>2, <1>4, <1>5, <1>6, <1>7, <1>8, <1>9

RecordsReady(order) == \A q \in 1 .. Len(order) : Ready(Com(order, q))

\* What each record moves and pays is an amount of u64.
LEMMA TablesFit ==
  ASSUME MoneyInOrder, NEW order, Len(order) \in Nat, RecordsReady(order),
         NEW M, PaidInTurn(M, Buffer, order)
  PROVE  Tabled(order, Moves(order, M), Paying(order, M))
<1>1. ASSUME NEW q \in 1 .. Len(order)
      PROVE  /\ MovedBy(M[q - 1], Com(order, q)) \in U64
             /\ Shares(M[q - 1], Com(order, q)) \in [Participants -> U64]
  <2>1. PICK k, L : k = Com(order, q) /\ L = M[q - 1]
    OBVIOUS
  <2>2. Ready(k)
    BY <2>1 DEF RecordsReady
  <2>3. q - 1 \in 0 .. Len(order)
    OBVIOUS
  <2>4. PaidOut(L)
    BY <2>1, <2>3 DEF PaidInTurn
  <2>5. TypeOK
    BY DEF MoneyInOrder
  <2>6. GoodSplit(L, k)
    BY <2>2, <2>4, <2>5, PayKeeps
  <2>7. L.locked[k.channel] \in U64
    BY <2>2, <2>4, CommitmentFacts DEF PaidOut, MoneySet, Ready
  <2>8. /\ MovedBy(L, k) \in Nat /\ MovedBy(L, k) <= L.locked[k.channel]
        /\ Shares(L, k) \in [Participants -> 0 .. MovedBy(L, k)]
    BY <2>6 DEF GoodSplit
  <2>9. MovedBy(L, k) \in U64 /\ 0 .. MovedBy(L, k) \subseteq U64
    BY <2>7, <2>8, NumbersAreU64 DEF U64
  <2>10. Shares(L, k) \in [Participants -> U64]
    BY <2>8, <2>9
  <2> QED BY <2>1, <2>9, <2>10
<1> QED BY <1>1 DEF Tabled, Moves, Paying

\* The money after n records is the money after the first n places.
LEMMA MoneyIsAfter ==
  ASSUME MoneyInOrder, NEW order, Len(order) \in Nat, RecordsReady(order),
         NEW M, PaidInTurn(M, Buffer, order)
  PROVE  \A n \in 0 .. Len(order) : M[n] = After(order, Moves(order, M), Paying(order, M), 1 .. n)
<1>1. PICK N, V, S : N = Len(order) /\ V = Moves(order, M) /\ S = Paying(order, M)
  OBVIOUS
<1>2. Tabled(order, V, S) /\ N \in Nat
  BY <1>1, TablesFit
<1> DEFINE A == {n \in 0 .. N : M[n] = After(order, V, S, 1 .. n)}
<1>3. 0 \in A
  <2>1. 1 .. 0 = {}
    OBVIOUS
  <2>2. After(order, V, S, {}) = Money
    BY <1>2, AfterNothing
  <2>3. M[0] = Money
    BY DEF PaidInTurn
  <2> QED BY <1>2, <2>1, <2>2, <2>3
<1>4. ASSUME NEW n \in 0 .. N - 1, n \in A
      PROVE  n + 1 \in A
  <2>1. PICK q, k, L : q = n + 1 /\ k = Com(order, q) /\ L = M[n]
    OBVIOUS
  <2>2. q \in 1 .. Len(order) /\ q - 1 = n /\ n \in 0 .. Len(order) /\ q \notin 1 .. n
    BY <1>1, <1>2, <2>1
  <2>3. Ready(k) /\ TypeOK
    BY <2>1, <2>2 DEF RecordsReady, MoneyInOrder
  <2>4. M[q] = Pay(L, k) /\ PaidOut(L)
    BY <2>1, <2>2 DEF PaidInTurn, Com
  <2>5. Pay(L, k) = Effect(L, k, MovedBy(L, k), Shares(L, k))
    BY <2>3, <2>4, PayIsEffect DEF Ready, PaidOut
  <2>6. V[q] = MovedBy(L, k) /\ S[q] = Shares(L, k)
    BY <1>1, <2>1, <2>2 DEF Moves, Paying
  <2>7. L = After(order, V, S, 1 .. n)
    BY <1>4, <2>1
  <2>8. After(order, V, S, (1 .. n) \cup {q}) = Effect(After(order, V, S, 1 .. n), Com(order, q), V[q], S[q])
    <3>1. PICK D : D = 1 .. n
      BY Zenon
    <3>2. q \notin D
      BY <2>2, <3>1
    <3>3. After(order, V, S, D \cup {q}) = Effect(After(order, V, S, D), Com(order, q), V[q], S[q])
      BY <1>2, <2>2, <3>2, AfterStep
    <3> QED BY <3>1, <3>3
  <2>9. (1 .. n) \cup {q} = 1 .. q
    BY <2>1
  <2>10. M[q] = After(order, V, S, 1 .. q)
    BY <2>1, <2>4, <2>5, <2>6, <2>7, <2>8, <2>9
  <2>11. n + 1 \in 0 .. N
    BY <1>2
  <2> QED BY <2>1, <2>10, <2>11
<1> HIDE DEF A
<1>5. 0 .. N \subseteq A
  BY <1>2, <1>3, <1>4, Induction
<1> QED BY <1>1, <1>5 DEF A

\* Whatever places were settled, the money is typed: it lies between the first and the last.
LEMMA AfterTyped ==
  ASSUME MoneyInOrder, NEW order, Len(order) \in Nat, RecordsReady(order),
         NEW M, PaidInTurn(M, Buffer, order), NEW D, D \subseteq 1 .. Len(order)
  PROVE  LET L == After(order, Moves(order, M), Paying(order, M), D)
         IN  /\ L \in MoneySet
             /\ \A c \in Channels : settled[c] <= L.settled[c]
<1>1. PICK N, V, S, L, R :
         /\ N = Len(order) /\ V = Moves(order, M) /\ S = Paying(order, M)
         /\ L = After(order, V, S, D) /\ R = After(order, V, S, 1 .. N)
  OBVIOUS
<1>2. Tabled(order, V, S) /\ N \in Nat /\ MaxU64 \in Nat /\ U64 = 0 .. MaxU64
  BY <1>1, TablesFit, NumbersAreU64 DEF U64
<1>3. R = M[N] /\ N \in 0 .. Len(order)
  BY <1>1, <1>2, MoneyIsAfter
<1>4. R \in MoneySet
  BY <1>3 DEF PaidInTurn, PaidOut
<1>5. /\ locked \in [Channels -> U64] /\ settled \in [Channels -> U64]
      /\ available \in [Mints -> [Participants -> U64]]
      /\ paidFrom \in [Channels -> [Participants -> U64]]
  BY DEF MoneyInOrder, TypeOK
<1>6. ASSUME NEW f \in [1 .. Len(order) -> 0 .. MaxU64]
      PROVE  /\ Total(Part(f, D)) \in Nat /\ Total(Part(f, 1 .. N)) \in Nat
             /\ Total(Part(f, D)) <= Total(Part(f, 1 .. N))
  <2>1. f \in [1 .. N -> 0 .. MaxU64] /\ D \subseteq 1 .. N
    BY <1>1
  <2>2. Total(Part(f, D)) \in Nat /\ Total(Part(f, 1 .. N)) \in Nat
    BY <1>2, <2>1, PartTypes
  <2>3. PICK E : E = 1 .. N
    BY Zenon
  <2>4. D \subseteq E
    BY <2>1, <2>3
  <2>5. Total(Part(f, D)) <= Total(Part(f, E))
    BY <1>2, <2>1, <2>4, PartGrows
  <2> QED BY <2>2, <2>3, <2>5
<1>7. ASSUME NEW c \in Channels
      PROVE  L.locked[c] \in U64 /\ L.settled[c] \in U64 /\ settled[c] <= L.settled[c]
  <2>1. PICK f, x, y : /\ f = OfChannel(order, V, c)
                       /\ x = Total(Part(f, D)) /\ y = Total(Part(f, 1 .. N))
    OBVIOUS
  <2>2. x \in Nat /\ y \in Nat /\ x <= y
    BY <1>2, <1>6, <2>1, PlaceTypes
  <2>3. /\ L.locked[c] = locked[c] - x /\ L.settled[c] = settled[c] + x
        /\ R.locked[c] = locked[c] - y /\ R.settled[c] = settled[c] + y
    BY <1>1, <2>1 DEF After
  <2>4. R.locked[c] \in U64 /\ R.settled[c] \in U64 /\ locked[c] \in U64 /\ settled[c] \in U64
    BY <1>4, <1>5 DEF MoneySet
  <2>5. PICK a, b : a = locked[c] /\ b = settled[c]
    OBVIOUS
  <2>6. a \in 0 .. MaxU64 /\ b \in 0 .. MaxU64 /\ a - y \in 0 .. MaxU64 /\ b + y \in 0 .. MaxU64
    BY <1>2, <2>3, <2>4, <2>5
  <2>7. a - x \in 0 .. MaxU64 /\ b + x \in 0 .. MaxU64 /\ b <= b + x
    BY <1>2, <2>2, <2>6
  <2> QED BY <1>2, <2>3, <2>5, <2>7
<1>8. ASSUME NEW m \in Mints, NEW p \in Participants
      PROVE  L.available[m][p] \in U64
  <2>1. PICK f, x, y : /\ f = IntoMint(order, S, m, p)
                       /\ x = Total(Part(f, D)) /\ y = Total(Part(f, 1 .. N))
    OBVIOUS
  <2>2. x \in Nat /\ y \in Nat /\ x <= y
    BY <1>2, <1>6, <2>1, PlaceTypes
  <2>3. L.available[m][p] = available[m][p] + x /\ R.available[m][p] = available[m][p] + y
    BY <1>1, <2>1 DEF After
  <2>4. R.available[m][p] \in U64 /\ available[m][p] \in U64
    BY <1>4, <1>5 DEF MoneySet
  <2> QED BY <1>2, <2>2, <2>3, <2>4
<1>9. ASSUME NEW c \in Channels, NEW p \in Participants
      PROVE  L.paidFrom[c][p] \in U64
  <2>1. PICK f, x, y : /\ f = FromChannel(order, S, c, p)
                       /\ x = Total(Part(f, D)) /\ y = Total(Part(f, 1 .. N))
    OBVIOUS
  <2>2. x \in Nat /\ y \in Nat /\ x <= y
    BY <1>2, <1>6, <2>1, PlaceTypes
  <2>3. L.paidFrom[c][p] = paidFrom[c][p] + x /\ R.paidFrom[c][p] = paidFrom[c][p] + y
    BY <1>1, <2>1 DEF After
  <2>4. R.paidFrom[c][p] \in U64 /\ paidFrom[c][p] \in U64
    BY <1>4, <1>5 DEF MoneySet
  <2> QED BY <1>2, <2>2, <2>3, <2>4
<1>10. /\ L = [locked |-> L.locked, settled |-> L.settled, available |-> L.available, paidFrom |-> L.paidFrom]
       /\ L.locked = [c \in Channels |-> L.locked[c]] /\ L.settled = [c \in Channels |-> L.settled[c]]
       /\ L.available = [m \in Mints |-> [p \in Participants |-> L.available[m][p]]]
       /\ L.paidFrom = [c \in Channels |-> [p \in Participants |-> L.paidFrom[c][p]]]
  BY <1>1 DEF After
<1>11. /\ L.locked \in [Channels -> U64] /\ L.settled \in [Channels -> U64]
  BY <1>7, <1>10
<1>12. L.available \in [Mints -> [Participants -> U64]]
  BY <1>8, <1>10
<1>13. L.paidFrom \in [Channels -> [Participants -> U64]]
  BY <1>9, <1>10
<1>14. L \in MoneySet
  BY <1>10, <1>11, <1>12, <1>13 DEF MoneySet
<1> QED BY <1>1, <1>7, <1>14

\* The places of q's channel that are in D are those before q.
InTurn(order, D, q) ==
    /\ D \subseteq 1 .. Len(order) /\ q \in 1 .. Len(order) /\ q \notin D
    /\ \A x \in 1 .. Len(order) :
         Com(order, x).channel = Com(order, q).channel => (x \in D <=> x < q)

\* The record at q has its one effect, whatever places of other channels come before it.
TurnTaken(order, V, S, D, q) ==
    LET L == After(order, V, S, D)
        k == Com(order, q)
    IN  /\ L \in MoneySet /\ GoodSplit(L, k)
        /\ MovedBy(L, k) = V[q]
        /\ Pay(L, k) = After(order, V, S, D \cup {q})
        /\ Pay(L, k) \in MoneySet

\* A record that is due, every earlier one of its channel having been settled, pays as in
\* the list order.
LEMMA RecordTurn ==
  ASSUME MoneyInOrder, NEW order, Len(order) \in Nat, RecordsReady(order),
         NEW M, PaidInTurn(M, Buffer, order), NEW D, NEW q, InTurn(order, D, q)
  PROVE  TurnTaken(order, Moves(order, M), Paying(order, M), D, q)
<1>1. PICK V, S, L, k, c, K :
         /\ V = Moves(order, M) /\ S = Paying(order, M) /\ L = After(order, V, S, D)
         /\ k = Com(order, q) /\ c = k.channel /\ K = M[q - 1]
  OBVIOUS
<1>2. q \in 1 .. Len(order) /\ q - 1 \in 0 .. Len(order) /\ D \subseteq 1 .. Len(order) /\ q \notin D
  BY DEF InTurn
<1>3. Ready(k) /\ TypeOK /\ k \in Commitments /\ HeaderOf(k.channel) \in Header /\ c \in Channels
  BY <1>1, <1>2, CommitmentFacts DEF RecordsReady, MoneyInOrder, Ready
<1>4. K = After(order, V, S, 1 .. q - 1)
  BY <1>1, <1>2, MoneyIsAfter
<1>5. Part(OfChannel(order, V, c), D) = Part(OfChannel(order, V, c), 1 .. q - 1)
  <2>1. PICK f, E : f = OfChannel(order, V, c) /\ E = 1 .. q - 1
    OBVIOUS
  <2>2. ASSUME NEW x \in DOMAIN f, f[x] # 0
        PROVE  x \in D <=> x \in E
    <3>1. x \in 1 .. Len(order) /\ Com(order, x).channel = c
      BY <2>1, <2>2 DEF OfChannel
    <3>2. x \in D <=> x < q
      BY <1>1, <3>1 DEF InTurn
    <3> QED BY <1>2, <2>1, <3>1, <3>2
  <2>3. Part(f, D) = Part(f, E)
    BY <2>2, PartSame
  <2> QED BY <2>1, <2>3
<1>6. L.settled[c] = K.settled[c] /\ L.locked[c] = K.locked[c]
  BY <1>1, <1>3, <1>4, <1>5 DEF After
<1>7. MovedBy(L, k) = MovedBy(K, k) /\ Shares(L, k) = Shares(K, k)
  BY <1>1, <1>6 DEF MovedBy, Shares
<1>8. MovedBy(L, k) = V[q] /\ Shares(L, k) = S[q]
  BY <1>1, <1>2, <1>7 DEF Moves, Paying
<1>9. Tabled(order, V, S)
  BY <1>1, TablesFit
<1>10. L \in MoneySet /\ settled[c] <= L.settled[c]
  BY <1>1, <1>2, <1>3, AfterTyped
<1>11. GoodSplit(L, k)
  BY <1>1, <1>3, <1>10, ReadySplits
<1>12. Pay(L, k) = After(order, V, S, D \cup {q})
  <2>1. Pay(L, k) = Effect(L, k, MovedBy(L, k), Shares(L, k))
    BY <1>3, <1>10, PayIsEffect
  <2>2. After(order, V, S, D \cup {q}) = Effect(After(order, V, S, D), Com(order, q), V[q], S[q])
    BY <1>2, <1>9, AfterStep
  <2> QED BY <1>1, <1>8, <2>1, <2>2
<1>13. After(order, V, S, D \cup {q}) \in MoneySet
  <2>1. PICK E : E = D \cup {q}
    BY Zenon
  <2>2. E \subseteq 1 .. Len(order)
    BY <1>2, <2>1
  <2>3. After(order, V, S, E) \in MoneySet
    BY <1>1, <2>2, AfterTyped
  <2> QED BY <2>1, <2>3
<1> QED BY <1>1, <1>8, <1>10, <1>11, <1>12, <1>13 DEF TurnTaken

-----------------------------------------------------------------------------
(* The program's runs.                                                     *)

\* A run has six parts.
IsRun(r) ==
    /\ r = [x \in {"money", "copy", "changed", "cursor", "moved", "ok"} |-> r[x]]
    /\ r.ok \in BOOLEAN /\ r.changed \in BOOLEAN

\* What paying a provider makes of a run.
ProviderPaidIn(n, r, plan, group, k, a, amount) ==
    LET account == plan.table[group.providers[r.cursor + a]]
        after == Stored(r.money, account) + amount
    IN  /\ IsRun(n) /\ n.money = Paid(Store(r.money, account, after), k, account, amount)
        /\ n.copy = r.copy /\ n.changed = r.changed /\ n.cursor = r.cursor /\ n.moved = r.moved
        /\ n.ok <=> /\ r.ok
                    /\ account = BalanceOf(k.allocations[a].id, staging[Buffer].route[2])
                    /\ account # plan.table[group.primary]
                    /\ <<account[2], account[3]>> \in opened
                    /\ after <= MaxU64

\* PayProvider does just that.
LEMMA PayProviderIs ==
  ASSUME NEW r, IsRun(r), NEW plan, NEW group, NEW k, NEW a, NEW amount
  PROVE  ProviderPaidIn(PayProvider(r, plan, group, k, a, amount), r, plan, group, k, a, amount)
<1>1. PICK n, account, after, money :
         /\ n = PayProvider(r, plan, group, k, a, amount)
         /\ account = plan.table[group.providers[r.cursor + a]]
         /\ after = Stored(r.money, account) + amount
         /\ money = Paid(Store(r.money, account, after), k, account, amount)
  OBVIOUS
<1>2. n = [r EXCEPT
             !.ok = /\ @
                    /\ account = BalanceOf(k.allocations[a].id, staging[Buffer].route[2])
                    /\ account # plan.table[group.primary]
                    /\ <<account[2], account[3]>> \in opened
                    /\ after <= MaxU64,
             !.money = money]
  BY <1>1 DEF PayProvider, ProviderIndex
<1>3. n.money = money
  BY <1>2 DEF IsRun
<1>4. /\ IsRun(n)
      /\ n.copy = r.copy /\ n.changed = r.changed /\ n.cursor = r.cursor /\ n.moved = r.moved
      /\ n.ok <=> /\ r.ok
                  /\ account = BalanceOf(k.allocations[a].id, staging[Buffer].route[2])
                  /\ account # plan.table[group.primary]
                  /\ <<account[2], account[3]>> \in opened
                  /\ after <= MaxU64
  BY <1>2 DEF IsRun
<1> QED BY <1>1, <1>3, <1>4 DEF ProviderPaidIn

\* What moving collateral makes of a run.
MovedIn(n, r, k, moved) ==
    /\ IsRun(n) /\ n.money = Drawn(r.money, k, moved) /\ n.moved = r.moved + moved
    /\ n.copy = r.copy /\ n.changed = r.changed /\ n.cursor = r.cursor /\ n.ok = r.ok

\* MoveFromBucket does just that.
LEMMA MoveIs ==
  ASSUME NEW r, IsRun(r), NEW k, NEW moved
  PROVE  MovedIn(MoveFromBucket(r, k, moved), r, k, moved)
<1>1. PICK n, money : n = MoveFromBucket(r, k, moved) /\ money = Drawn(r.money, k, moved)
  OBVIOUS
<1>2. n = [r EXCEPT !.money = money, !.moved = @ + moved]
  BY <1>1 DEF MoveFromBucket
<1>3. MovedIn(n, r, k, moved)
  BY <1>1, <1>2 DEF IsRun, MovedIn
<1> QED BY <1>1, <1>3

\* What crediting the copy makes of a run.
Credited(n, r, primary, k, fee) ==
    /\ IsRun(n) /\ n.money = Paid(r.money, k, primary, fee) /\ n.copy = r.copy + fee
    /\ (n.changed <=> r.changed \/ fee > 0) /\ n.cursor = r.cursor /\ n.moved = r.moved
    /\ n.ok <=> r.ok /\ r.copy + fee <= MaxU64

\* CreditPrimary does just that.
LEMMA CreditIs ==
  ASSUME NEW r, IsRun(r), NEW primary, NEW k, NEW fee
  PROVE  Credited(CreditPrimary(r, primary, k, fee), r, primary, k, fee)
<1>1. PICK money, n : money = Paid(r.money, k, primary, fee) /\ n = CreditPrimary(r, primary, k, fee)
  OBVIOUS
<1>2. n = [r EXCEPT !.copy = @ + fee, !.changed = @ \/ fee > 0,
                    !.ok = @ /\ r.copy + fee <= MaxU64, !.money = money]
  BY <1>1 DEF CreditPrimary
<1>3. Credited(n, r, primary, k, fee)
  BY <1>1, <1>2 DEF IsRun, Credited
<1> QED BY <1>1, <1>3

\* The amounts that SettleRecord finds.
FeeOf(k, old, moved) == IF BatchKind = Direct THEN moved ELSE GatewayFee(k, old, old + moved)
ProvidersAfter(r, plan, group, k) ==
    ProvidersPaid(MoveFromBucket(r, k, MovedBy(r.money, k)), plan, group, k,
                  Pieces(k, r.money.settled[k.channel], r.money.settled[k.channel] + MovedBy(r.money, k)))

\* What a record makes of a run, once the providers are paid.
Recorded(n, r, plan, group, k, paid) ==
    LET old == r.money.settled[k.channel]
        moved == MovedBy(r.money, k)
        fee == FeeOf(k, old, moved)
    IN  /\ IsRun(n) /\ n.money = Paid(paid.money, k, plan.table[group.primary], fee)
        /\ n.copy = paid.copy + fee /\ (n.changed <=> paid.changed \/ fee > 0)
        /\ n.cursor = paid.cursor + Len(k.allocations) /\ n.moved = paid.moved
        /\ n.ok <=> /\ paid.ok /\ paid.copy + fee <= MaxU64
                    /\ RecordAccepted(plan, group, k, old, moved)

\* SettleRecord does just that: the copy is credited last, and a check that failed stays failed.
LEMMA SettleRecordIs ==
  ASSUME NEW r, NEW plan, NEW group, NEW i, IsRun(ProvidersAfter(r, plan, group, staging[Buffer].slots[i].com))
  PROVE  Recorded(SettleRecord(r, plan, group, i), r, plan, group, staging[Buffer].slots[i].com,
                  ProvidersAfter(r, plan, group, staging[Buffer].slots[i].com))
<1> DEFINE k == staging[Buffer].slots[i].com
           old == r.money.settled[k.channel]
           moved == MovedBy(r.money, k)
           fee == FeeOf(k, old, moved)
           paid == ProvidersAfter(r, plan, group, k)
           primary == plan.table[group.primary]
<1>1. PICK n : n = SettleRecord(r, plan, group, i)
  BY Zenon
<1>2. n = [CreditPrimary(paid, primary, k, fee) EXCEPT
             !.ok = @ /\ RecordAccepted(plan, group, k, old, moved),
             !.cursor = @ + Len(k.allocations)]
  BY ONLY <1>1, Zenon DEF SettleRecord, FeeOf, ProvidersAfter, k, old, moved, fee, paid, primary
<1>3. IsRun(paid)
  OBVIOUS
<1> HIDE DEF k, old, moved, fee, paid, primary
<1>4. PICK c : c = CreditPrimary(paid, primary, k, fee)
  BY Zenon
<1>5. Credited(c, paid, primary, k, fee)
  BY <1>3, <1>4, CreditIs
<1>6. PICK b, l : b = RecordAccepted(plan, group, k, old, moved) /\ l = c.cursor + Len(k.allocations)
  OBVIOUS
<1>7. n = [c EXCEPT !.ok = @ /\ b, !.cursor = l]
  BY <1>2, <1>4, <1>6
<1>8. /\ IsRun(n) /\ n.money = c.money /\ n.copy = c.copy /\ n.changed = c.changed
      /\ n.cursor = l /\ n.moved = c.moved /\ (n.ok <=> c.ok /\ b)
  BY <1>5, <1>7 DEF IsRun, Credited
<1>9. Recorded(n, r, plan, group, k, paid)
  BY <1>5, <1>6, <1>8 DEF Recorded, Credited, old, moved, fee, primary
<1> QED BY <1>1, <1>9 DEF k, paid

\* Every balance that k pays a provider into exists.
ProvidersOpen(k) ==
    \A a \in 1 .. Len(k.allocations) : <<k.allocations[a].id, staging[Buffer].route[2]>> \in opened

\* Once refused, an instruction stays refused; one that is not has found its providers.
ProvidersDone(n, r, k) ==
    /\ IsRun(n) /\ n.copy = r.copy /\ n.changed = r.changed /\ n.cursor = r.cursor /\ n.moved = r.moved
    /\ n.ok => r.ok /\ ProvidersOpen(k)

\* Paying the providers of a record.
LEMMA ProvidersStick ==
  ASSUME NEW r, IsRun(r), NEW plan, NEW group, NEW k, Len(k.allocations) \in Nat, NEW pieces
  PROVE  ProvidersDone(ProvidersPaid(r, plan, group, k, pieces), r, k)
<1>0. PICK p : p = ProvidersPaid(r, plan, group, k, pieces)
  OBVIOUS
<1>1. PICK f : /\ f[0] = r
               /\ \A i \in 1 .. Len(k.allocations) :
                    f[i] = PayProvider(f[i - 1], plan, group, k, i, pieces[i])
               /\ p = f[Len(k.allocations)]
  BY <1>0, ProvidersUnfold
<1> DEFINE w == Len(k.allocations)
           Opened(i) == \A a \in 1 .. i : <<k.allocations[a].id, staging[Buffer].route[2]>> \in opened
<1> DEFINE A == {i \in 0 .. w : /\ IsRun(f[i]) /\ f[i].copy = r.copy /\ f[i].changed = r.changed
                                /\ f[i].cursor = r.cursor /\ f[i].moved = r.moved
                                /\ f[i].ok => r.ok /\ Opened(i)}
<1>2. 0 \in A
  BY <1>1
<1>3. ASSUME NEW i \in 0 .. w - 1, i \in A
      PROVE  i + 1 \in A
  <2>1. PICK x, n, account, after, e, q :
           /\ x = f[i] /\ n = f[i + 1] /\ e = i + 1 /\ q = pieces[i + 1]
           /\ account = plan.table[group.providers[x.cursor + e]]
           /\ after = Stored(x.money, account) + q
    OBVIOUS
  <2>2. e \in 1 .. w /\ e - 1 = i
    BY <2>1
  <2>3. n = PayProvider(x, plan, group, k, e, q)
    BY <1>1, <2>1, <2>2
  <2>4. IsRun(x)
    BY <1>3, <2>1
  <2>5. ProviderPaidIn(n, x, plan, group, k, e, q)
    BY <2>3, <2>4, PayProviderIs
  <2>6. /\ IsRun(n)
        /\ n.copy = x.copy /\ n.changed = x.changed /\ n.cursor = x.cursor /\ n.moved = x.moved
        /\ n.ok => x.ok /\ <<k.allocations[e].id, staging[Buffer].route[2]>> \in opened
    <3>1. n.ok => /\ x.ok /\ account = BalanceOf(k.allocations[e].id, staging[Buffer].route[2])
                  /\ <<account[2], account[3]>> \in opened
      BY <2>1, <2>5 DEF ProviderPaidIn
    <3>2. account = BalanceOf(k.allocations[e].id, staging[Buffer].route[2])
            => account[2] = k.allocations[e].id /\ account[3] = staging[Buffer].route[2]
      BY DEF BalanceOf
    <3>3. /\ IsRun(n)
          /\ n.copy = x.copy /\ n.changed = x.changed /\ n.cursor = x.cursor /\ n.moved = x.moved
      BY <2>5 DEF ProviderPaidIn
    <3> QED BY <3>1, <3>2, <3>3
  <2>7. n.ok => r.ok /\ Opened(e)
    <3>1. x.ok => r.ok /\ Opened(i)
      BY <1>3, <2>1
    <3>2. \A a \in 1 .. e : a \in 1 .. i \/ a = e
      BY <2>1
    <3> QED BY <2>6, <3>1, <3>2
  <2> HIDE DEF Opened
  <2>8. x.copy = r.copy /\ x.changed = r.changed /\ x.cursor = r.cursor /\ x.moved = r.moved
    BY <1>3, <2>1
  <2> QED BY <2>1, <2>2, <2>6, <2>7, <2>8
<1> HIDE DEF A
<1>4. 0 .. w \subseteq A
  BY <1>2, <1>3, Induction
<1>5. w \in A
  BY <1>4
<1> QED BY <1>0, <1>1, <1>5 DEF A, ProvidersDone, ProvidersOpen

\* The same for a record.
RecordDone(n, r, k) == IsRun(n) /\ (n.ok => r.ok /\ ProvidersOpen(k))

\* A record that is accepted has found its providers, and no earlier check failed.
LEMMA RecordSticks ==
  ASSUME NEW r, IsRun(r), NEW plan, NEW group, NEW i,
         Len(staging[Buffer].slots[i].com.allocations) \in Nat
  PROVE  RecordDone(SettleRecord(r, plan, group, i), r, staging[Buffer].slots[i].com)
<1>1. PICK k, moved, m, pieces, paid, n :
         /\ k = staging[Buffer].slots[i].com
         /\ moved = MovedBy(r.money, k) /\ m = MoveFromBucket(r, k, moved)
         /\ pieces = Pieces(k, r.money.settled[k.channel], r.money.settled[k.channel] + moved)
         /\ paid = ProvidersPaid(m, plan, group, k, pieces)
         /\ n = SettleRecord(r, plan, group, i)
  OBVIOUS
<1>2. paid = ProvidersAfter(r, plan, group, k)
  BY <1>1 DEF ProvidersAfter
<1>3. IsRun(m) /\ m.ok = r.ok
  <2>1. MovedIn(m, r, k, moved)
    BY <1>1, MoveIs, ZenonT(30)
  <2> QED BY <2>1 DEF MovedIn
<1>4. ProvidersDone(paid, m, k)
  BY <1>1, <1>3, ProvidersStick
<1>5. IsRun(paid) /\ (paid.ok => r.ok /\ ProvidersOpen(k))
  BY <1>3, <1>4 DEF ProvidersDone
<1>6. Recorded(n, r, plan, group, k, paid)
  BY <1>1, <1>2, <1>5, SettleRecordIs
<1>7. IsRun(n) /\ (n.ok => paid.ok)
  BY <1>6 DEF Recorded
<1> QED BY <1>1, <1>5, <1>7 DEF RecordDone

\* And for the records of a group.
LEMMA RecordsStick ==
  ASSUME NEW r, IsRun(r), NEW plan, NEW group, Len(group.indices) \in Nat,
         \A j \in 1 .. Len(group.indices) :
            Len(staging[Buffer].slots[group.indices[j]].com.allocations) \in Nat
  PROVE  LET n == RecordsSettled(r, plan, group)
         IN  /\ IsRun(n)
             /\ n.ok => /\ r.ok
                        /\ \A j \in 1 .. Len(group.indices) :
                             ProvidersOpen(staging[Buffer].slots[group.indices[j]].com)
<1>1. PICK f : /\ f[0] = r
               /\ \A i \in 1 .. Len(group.indices) :
                    f[i] = SettleRecord(f[i - 1], plan, group, group.indices[i])
               /\ RecordsSettled(r, plan, group) = f[Len(group.indices)]
  BY RecordsUnfold
<1> DEFINE w == Len(group.indices)
           Rec(j) == staging[Buffer].slots[group.indices[j]].com
<1> DEFINE A == {i \in 0 .. w : /\ IsRun(f[i])
                                /\ f[i].ok => r.ok /\ \A j \in 1 .. i : ProvidersOpen(Rec(j))}
<1>2. 0 \in A
  BY <1>1
<1>3. ASSUME NEW i \in 0 .. w - 1, i \in A
      PROVE  i + 1 \in A
  <2>1. PICK x, n, e, s : x = f[i] /\ n = f[i + 1] /\ e = i + 1 /\ s = group.indices[i + 1]
    OBVIOUS
  <2>2. e \in 1 .. w /\ e - 1 = i
    BY <2>1
  <2>3. n = SettleRecord(x, plan, group, s)
    BY <1>1, <2>1, <2>2
  <2>4. IsRun(x) /\ Len(staging[Buffer].slots[s].com.allocations) \in Nat
    BY <1>3, <2>1, <2>2
  <2>5. RecordDone(n, x, staging[Buffer].slots[s].com)
    BY <2>3, <2>4, RecordSticks
  <2>6. IsRun(n) /\ (n.ok => x.ok /\ ProvidersOpen(Rec(e)))
    BY <2>1, <2>5 DEF RecordDone
  <2>7. \A j \in 1 .. e : j \in 1 .. i \/ j = e
    BY <2>1
  <2>8. x.ok => r.ok /\ \A j \in 1 .. i : ProvidersOpen(Rec(j))
    BY <1>3, <2>1
  <2> HIDE DEF Rec
  <2>9. n.ok => r.ok /\ \A j \in 1 .. e : ProvidersOpen(Rec(j))
    BY <2>6, <2>7, <2>8
  <2> QED BY <2>1, <2>2, <2>6, <2>9
<1> HIDE DEF A
<1>4. 0 .. w \subseteq A
  BY <1>2, <1>3, Induction
<1>5. w \in A
  BY <1>4
<1> QED BY <1>1, <1>5 DEF A

-----------------------------------------------------------------------------
(* The money of a group whose primary balance is worked on as a copy.      *)

\* The money L, but for the stored balance of g in m, which is still v.
Behind(L, g, m, v) ==
    [locked |-> L.locked, settled |-> L.settled,
     available |-> [n \in Mints |-> [p \in Participants |->
                      IF n = m /\ p = g THEN v ELSE L.available[n][p]]],
     paidFrom |-> L.paidFrom]

\* What the first a allocations of k pay.
Upto(k, share, a) ==
    [p \in Participants |-> IF \E b \in 1 .. a : k.allocations[b].id = p THEN share[p] ELSE 0]

\* A table with a row for each of S and a column for each of T.
IsTable(f, S, T) == f = [n \in S |-> [p \in T |-> f[n][p]]]

\* One entry of a table is replaced.
Put(S, T, f, a, b, y) == [n \in S |-> [p \in T |-> IF n = a /\ p = b THEN y ELSE f[n][p]]]

\* EXCEPT at two levels, entry by entry.
LEMMA PutAt ==
  ASSUME NEW S, NEW T, NEW f, IsTable(f, S, T), NEW a, NEW b, NEW y
  PROVE  [f EXCEPT ![a][b] = y] = Put(S, T, f, a, b, y)
<1>1. PICK h : h = [f EXCEPT ![a][b] = y]
  OBVIOUS
<1>2. h = [n \in S |-> IF n = a THEN [f[n] EXCEPT ![b] = y] ELSE f[n]]
  <2>1. PICK e : e = [x \in T |-> IF x = b THEN y ELSE f[a][x]]
    OBVIOUS
  <2>2. f = [n \in S |-> [p \in T |-> f[n][p]]]
    BY DEF IsTable
  <2> QED BY <1>1, <2>2
<1>3. ASSUME NEW n \in S
      PROVE  h[n] = [p \in T |-> IF n = a /\ p = b THEN y ELSE f[n][p]]
  <2>1. PICK e : e = f[n]
    OBVIOUS
  <2>2. e = [p \in T |-> e[p]]
    BY <2>1 DEF IsTable
  <2>3. [e EXCEPT ![b] = y] = [p \in T |-> IF p = b THEN y ELSE e[p]]
    BY <2>2
  <2>4. h[n] = IF n = a THEN [e EXCEPT ![b] = y] ELSE e
    BY <1>2, <2>1
  <2> QED BY <2>1, <2>2, <2>3, <2>4
<1> QED BY <1>1, <1>2, <1>3 DEF Put

\* What Paid does to the history, and to nothing else.
LEMMA PaidIs ==
  ASSUME NEW l, NEW s, NEW v, NEW h, IsTable(h, Channels, Participants),
         NEW k, NEW account, NEW amount
  PROVE  Paid([locked |-> l, settled |-> s, available |-> v, paidFrom |-> h], k, account, amount)
           = [locked |-> l, settled |-> s, available |-> v,
              paidFrom |-> [c \in Channels |-> [p \in Participants |->
                 IF c = k.channel /\ p = account[2] THEN h[c][p] + amount ELSE h[c][p]]]]
<1>1. PICK d, q, y : d = k.channel /\ q = account[2] /\ y = h[d][q] + amount
  OBVIOUS
<1>2. [h EXCEPT ![k.channel][account[2]] = @ + amount] = [h EXCEPT ![d][q] = y]
  BY <1>1
<1>3. [h EXCEPT ![d][q] = y] = Put(Channels, Participants, h, d, q, y)
  BY PutAt
<1>4. PICK new : new = [h EXCEPT ![k.channel][account[2]] = @ + amount]
  OBVIOUS
<1>5. new = [c \in Channels |-> [p \in Participants |->
               IF c = k.channel /\ p = account[2] THEN h[c][p] + amount ELSE h[c][p]]]
  BY <1>1, <1>2, <1>3, <1>4 DEF Put
<1>6. PICK r : r = [locked |-> l, settled |-> s, available |-> v, paidFrom |-> h]
  OBVIOUS
<1>7. Paid(r, k, account, amount) = [r EXCEPT !.paidFrom = new]
  BY <1>4, <1>6 DEF Paid
<1>8. [r EXCEPT !.paidFrom = new] = [locked |-> l, settled |-> s, available |-> v, paidFrom |-> new]
  BY <1>6
<1> QED BY <1>5, <1>6, <1>7, <1>8

\* What Store does to the balances.
LEMMA StoreIs ==
  ASSUME NEW l, NEW s, NEW v, NEW h, IsTable(v, Mints, Participants),
         NEW account, NEW amount
  PROVE  Store([locked |-> l, settled |-> s, available |-> v, paidFrom |-> h], account, amount)
           = [locked |-> l, settled |-> s,
              available |-> [m \in Mints |-> [p \in Participants |->
                 IF m = account[3] /\ p = account[2] THEN amount ELSE v[m][p]]],
              paidFrom |-> h]
<1>0. PICK n, q : n = account[3] /\ q = account[2]
  OBVIOUS
<1>1. [v EXCEPT ![n][q] = amount] = Put(Mints, Participants, v, n, q, amount)
  BY PutAt
<1>4. PICK new : new = [v EXCEPT ![account[3]][account[2]] = amount]
  OBVIOUS
<1>6. PICK r : r = [locked |-> l, settled |-> s, available |-> v, paidFrom |-> h]
  OBVIOUS
<1>7. Store(r, account, amount) = [r EXCEPT !.available = new]
  BY <1>4, <1>6 DEF Store
<1>8. [r EXCEPT !.available = new] = [locked |-> l, settled |-> s, available |-> new, paidFrom |-> h]
  BY <1>6
<1>9. new = [m \in Mints |-> [p \in Participants |->
               IF m = account[3] /\ p = account[2] THEN amount ELSE v[m][p]]]
  BY <1>0, <1>1, <1>4 DEF Put
<1> QED BY <1>6, <1>7, <1>8, <1>9

\* Collateral leaves the bucket.
LEMMA MoveBehind ==
  ASSUME NEW L \in MoneySet, NEW k, NEW g, NEW m, NEW v, NEW moved, NEW share
  PROVE  Drawn(Behind(L, g, m, v), k, moved) = Behind(Effect(L, k, moved, Upto(k, share, 0)), g, m, v)
<1>1. /\ L.locked = [c \in Channels |-> L.locked[c]] /\ L.settled = [c \in Channels |-> L.settled[c]]
      /\ L.paidFrom = [c \in Channels |-> [p \in Participants |-> L.paidFrom[c][p]]]
      /\ \A n \in Mints : \A p \in Participants : L.available[n][p] \in Int
      /\ \A c \in Channels : \A p \in Participants : L.paidFrom[c][p] \in Int
  BY NumbersAreU64 DEF MoneySet, U64
<1>2. PICK u : u = Upto(k, share, 0)
  OBVIOUS
<1>3. \A p \in Participants : u[p] = 0
  BY <1>2 DEF Upto
<1>4. PICK x : x = Effect(L, k, moved, u)
  OBVIOUS
<1>5. /\ x.locked = [L.locked EXCEPT ![k.channel] = @ - moved]
      /\ x.settled = [L.settled EXCEPT ![k.channel] = @ + moved]
  BY <1>1, <1>4 DEF Effect
<1>6. x.paidFrom = L.paidFrom
  <2>1. x.paidFrom = [c \in Channels |-> [p \in Participants |->
                        IF c = k.channel THEN L.paidFrom[c][p] + u[p] ELSE L.paidFrom[c][p]]]
    BY <1>4 DEF Effect
  <2>2. \A c \in Channels : \A p \in Participants : L.paidFrom[c][p] + u[p] = L.paidFrom[c][p]
    BY <1>1, <1>3
  <2> QED BY <1>1, <2>1, <2>2
<1>7. \A n \in Mints : \A p \in Participants : x.available[n][p] = L.available[n][p]
  <2>1. x.available = [n \in Mints |-> [p \in Participants |->
                        IF n = MintOf(k) THEN L.available[n][p] + u[p] ELSE L.available[n][p]]]
    BY <1>4 DEF Effect
  <2>2. \A n \in Mints : \A p \in Participants : L.available[n][p] + u[p] = L.available[n][p]
    BY <1>1, <1>3
  <2> QED BY <2>1, <2>2
<1>8. PICK b : b = Behind(L, g, m, v)
  OBVIOUS
<1>9. b = [locked |-> L.locked, settled |-> L.settled, available |-> b.available, paidFrom |-> L.paidFrom]
  BY <1>8 DEF Behind
<1>10. Drawn(b, k, moved) = [locked |-> x.locked, settled |-> x.settled, available |-> b.available,
                             paidFrom |-> x.paidFrom]
  <2>1. PICK l, s : l = x.locked /\ s = x.settled
    OBVIOUS
  <2>2. l = [b.locked EXCEPT ![k.channel] = @ - moved] /\ s = [b.settled EXCEPT ![k.channel] = @ + moved]
    BY <1>5, <1>9, <2>1
  <2>3. Drawn(b, k, moved) = [locked |-> l, settled |-> s, available |-> b.available, paidFrom |-> b.paidFrom]
    <3>1. PICK d : d = Drawn(b, k, moved)
      OBVIOUS
    <3>2. /\ d.locked = l /\ d.settled = s /\ d.available = b.available /\ d.paidFrom = b.paidFrom
          /\ d = [f \in {"locked", "settled", "available", "paidFrom"} |-> d[f]]
      BY <1>9, <2>2, <3>1 DEF Drawn
    <3>3. d = [locked |-> l, settled |-> s, available |-> b.available, paidFrom |-> b.paidFrom]
      BY <3>2
    <3> QED BY <3>1, <3>3
  <2>5. b.paidFrom = x.paidFrom
    BY <1>6, <1>9
  <2> QED BY <2>1, <2>3, <2>5
<1>11. b.available = [n \in Mints |-> [p \in Participants |->
                        IF n = m /\ p = g THEN v ELSE x.available[n][p]]]
  BY <1>7, <1>8, SMTT(30) DEF Behind
<1> QED BY <1>2, <1>4, <1>8, <1>10, <1>11, ZenonT(30) DEF Behind

\* A balance loaded, credited and written back is the next allocation's payment.
PaidNext(X, L, k, g, m, v, moved, share, a, id) ==
    LET account == BalanceOf(id, m)
        amount == share[id]
        after == L.available[m][id] + amount
    IN  /\ Stored(X, account) = L.available[m][id]
        /\ Paid(Store(X, account, after), k, account, amount)
             = Behind(Effect(L, k, moved, Upto(k, share, a)), g, m, v)

\* While the copy holds the gateway's credits, the stored balances hold those of everybody else:
\* the provider paid is not the gateway, so its balance is the one to load.
LEMMA ProviderBehind ==
  ASSUME NEW L \in MoneySet, NEW k, NEW g, NEW m \in Mints, m = MintOf(k), NEW v, NEW moved,
         NEW share \in [Participants -> U64], NEW a \in Nat, a >= 1,
         NEW id \in Participants, id = k.allocations[a].id, id # g,
         \A b \in 1 .. a - 1 : k.allocations[b].id # id,
         NEW X, X = Behind(Effect(L, k, moved, Upto(k, share, a - 1)), g, m, v)
  PROVE  PaidNext(X, L, k, g, m, v, moved, share, a, id)
<1>1. PICK u, w, x, y, account :
         /\ u = Upto(k, share, a - 1) /\ w = Upto(k, share, a)
         /\ x = Effect(L, k, moved, u) /\ y = Effect(L, k, moved, w)
         /\ account = BalanceOf(id, m)
  OBVIOUS
<1>2. account[2] = id /\ account[3] = m
  BY <1>1 DEF BalanceOf
<1>3. /\ \A n \in Mints : \A p \in Participants : L.available[n][p] \in Int
      /\ \A c \in Channels : \A p \in Participants : L.paidFrom[c][p] \in Int
      /\ \A p \in Participants : share[p] \in Int
  BY NumbersAreU64 DEF MoneySet, U64
<1>4. /\ u[id] = 0 /\ w[id] = share[id]
      /\ \A p \in Participants : p # id => u[p] = w[p]
  <2>1. a \in 1 .. a /\ \A b \in 1 .. a : b \in 1 .. a - 1 \/ b = a
    OBVIOUS
  <2>2. \A b \in 1 .. a - 1 : b \in 1 .. a
    OBVIOUS
  <2> QED BY <1>1, <2>1, <2>2 DEF Upto
<1>5. /\ x.locked = y.locked /\ x.settled = y.settled
      /\ x.available = [n \in Mints |-> [p \in Participants |->
                         IF n = m THEN L.available[n][p] + u[p] ELSE L.available[n][p]]]
      /\ y.available = [n \in Mints |-> [p \in Participants |->
                         IF n = m THEN L.available[n][p] + w[p] ELSE L.available[n][p]]]
      /\ x.paidFrom = [c \in Channels |-> [p \in Participants |->
                         IF c = k.channel THEN L.paidFrom[c][p] + u[p] ELSE L.paidFrom[c][p]]]
      /\ y.paidFrom = [c \in Channels |-> [p \in Participants |->
                         IF c = k.channel THEN L.paidFrom[c][p] + w[p] ELSE L.paidFrom[c][p]]]
  BY <1>1 DEF Effect
<1>6. PICK V : V = [n \in Mints |-> [p \in Participants |-> IF n = m /\ p = g THEN v ELSE x.available[n][p]]]
  OBVIOUS
<1>7. X = [locked |-> x.locked, settled |-> x.settled, available |-> V, paidFrom |-> x.paidFrom]
  BY <1>1, <1>6 DEF Behind
<1>8. Stored(X, account) = L.available[m][id]
  <2>1. Stored(X, account) = V[m][id]
    BY ONLY <1>2, <1>7 DEF Stored
  <2>2. V[m][id] = x.available[m][id]
    BY <1>6
  <2>3. x.available[m][id] = L.available[m][id] + u[id]
    BY <1>5
  <2>4. u[id] = 0 /\ L.available[m][id] \in Int
    BY <1>3, <1>4
  <2> QED BY ONLY <2>1, <2>2, <2>3, <2>4
<1>9. PICK A : A = L.available[m][id] + share[id]
  OBVIOUS
<1>10. Store(X, account, A)
         = [locked |-> x.locked, settled |-> x.settled,
            available |-> [n \in Mints |-> [p \in Participants |->
               IF n = account[3] /\ p = account[2] THEN A ELSE V[n][p]]],
            paidFrom |-> x.paidFrom]
  <2>1. IsTable(V, Mints, Participants)
    BY <1>6 DEF IsTable
  <2> QED BY <1>7, <2>1, StoreIs
<1>11. PICK W, B :
          /\ W = [n \in Mints |-> [p \in Participants |-> IF n = account[3] /\ p = account[2] THEN A ELSE V[n][p]]]
          /\ B = [locked |-> x.locked, settled |-> x.settled, available |-> W, paidFrom |-> x.paidFrom]
  OBVIOUS
<1>12. W = [n \in Mints |-> [p \in Participants |-> IF n = m /\ p = g THEN v ELSE y.available[n][p]]]
  <2>1. ASSUME NEW n \in Mints, NEW p \in Participants
        PROVE  (IF n = account[3] /\ p = account[2] THEN A ELSE V[n][p])
                 = (IF n = m /\ p = g THEN v ELSE y.available[n][p])
    <3>1. V[n][p] = IF n = m /\ p = g THEN v ELSE x.available[n][p]
      BY <1>6
    <3>2. x.available[n][p] = IF n = m THEN L.available[n][p] + u[p] ELSE L.available[n][p]
      BY <1>5
    <3>3. y.available[n][p] = IF n = m THEN L.available[n][p] + w[p] ELSE L.available[n][p]
      BY <1>5
    <3> QED BY <1>2, <1>4, <1>9, <3>1, <3>2, <3>3
  <2> QED BY <1>11, <2>1
<1>13. Paid(B, k, account, share[id])
         = [locked |-> x.locked, settled |-> x.settled, available |-> W,
            paidFrom |-> [c \in Channels |-> [p \in Participants |->
               IF c = k.channel /\ p = account[2] THEN x.paidFrom[c][p] + share[id] ELSE x.paidFrom[c][p]]]]
  <2>1. IsTable(x.paidFrom, Channels, Participants)
    BY <1>5 DEF IsTable
  <2>2. PICK h, q, l, s : h = x.paidFrom /\ q = share[id] /\ l = x.locked /\ s = x.settled
    OBVIOUS
  <2>3. Paid([locked |-> l, settled |-> s, available |-> W, paidFrom |-> h], k, account, q)
          = [locked |-> l, settled |-> s, available |-> W,
             paidFrom |-> [c \in Channels |-> [p \in Participants |->
                IF c = k.channel /\ p = account[2] THEN h[c][p] + q ELSE h[c][p]]]]
    BY <2>1, <2>2, PaidIs
  <2> QED BY <1>11, <2>2, <2>3
<1>14. y.paidFrom = [c \in Channels |-> [p \in Participants |->
          IF c = k.channel /\ p = account[2] THEN x.paidFrom[c][p] + share[id] ELSE x.paidFrom[c][p]]]
  <2>1. ASSUME NEW c \in Channels, NEW p \in Participants
        PROVE  y.paidFrom[c][p]
                 = IF c = k.channel /\ p = account[2] THEN x.paidFrom[c][p] + share[id] ELSE x.paidFrom[c][p]
    <3>2. x.paidFrom[c][p] = IF c = k.channel THEN L.paidFrom[c][p] + u[p] ELSE L.paidFrom[c][p]
      BY <1>5
    <3>3. y.paidFrom[c][p] = IF c = k.channel THEN L.paidFrom[c][p] + w[p] ELSE L.paidFrom[c][p]
      BY <1>5
    <3> QED BY <1>2, <1>3, <1>4, <3>2, <3>3
  <2>2. y.paidFrom = [c \in Channels |-> [p \in Participants |-> y.paidFrom[c][p]]]
    BY <1>5
  <2> QED BY <2>1, <2>2
<1>15. Behind(y, g, m, v) = [locked |-> x.locked, settled |-> x.settled, available |-> W, paidFrom |-> y.paidFrom]
  BY <1>5, <1>12 DEF Behind
<1>16. Paid(B, k, account, share[id]) = Behind(y, g, m, v)
  BY <1>13, <1>14, <1>15
<1>17. Store(X, account, A) = B
  BY <1>10, <1>11
<1> QED BY <1>1, <1>8, <1>9, <1>16, <1>17 DEF PaidNext

\* The copy is credited: only the history shows the payment.
CreditNext(X, L, k, g, m, v, moved, share) ==
    /\ Paid(X, k, BalanceOf(g, m), share[g]) = Behind(Effect(L, k, moved, share), g, m, v)
    /\ Effect(L, k, moved, share).available[m][g] = L.available[m][g] + share[g]

\* Once all providers are paid, crediting the copy completes the record.
LEMMA CreditBehind ==
  ASSUME NEW L \in MoneySet, NEW k, NEW g \in Participants, NEW m, NEW v, NEW moved,
         NEW share \in [Participants -> U64], NEW a,
         \A b \in 1 .. a : k.allocations[b].id # g,
         \A p \in Participants : p # g /\ (\A b \in 1 .. a : k.allocations[b].id # p) => share[p] = 0,
         m = MintOf(k), m \in Mints,
         NEW X, X = Behind(Effect(L, k, moved, Upto(k, share, a)), g, m, v)
  PROVE  CreditNext(X, L, k, g, m, v, moved, share)
<1>1. PICK u, x, y, account :
         /\ u = Upto(k, share, a) /\ x = Effect(L, k, moved, u) /\ y = Effect(L, k, moved, share)
         /\ account = BalanceOf(g, m)
  OBVIOUS
<1>2. account[2] = g
  BY <1>1 DEF BalanceOf
<1>3. /\ \A c \in Channels : \A p \in Participants : L.paidFrom[c][p] \in Int
      /\ \A p \in Participants : share[p] \in Int
  BY NumbersAreU64 DEF MoneySet, U64
<1>4. u[g] = 0 /\ \A p \in Participants : p # g => u[p] = share[p]
  BY <1>1 DEF Upto
<1>5. /\ x.locked = y.locked /\ x.settled = y.settled
      /\ x.available = [n \in Mints |-> [p \in Participants |->
                         IF n = m THEN L.available[n][p] + u[p] ELSE L.available[n][p]]]
      /\ y.available = [n \in Mints |-> [p \in Participants |->
                         IF n = m THEN L.available[n][p] + share[p] ELSE L.available[n][p]]]
      /\ x.paidFrom = [c \in Channels |-> [p \in Participants |->
                         IF c = k.channel THEN L.paidFrom[c][p] + u[p] ELSE L.paidFrom[c][p]]]
      /\ y.paidFrom = [c \in Channels |-> [p \in Participants |->
                         IF c = k.channel THEN L.paidFrom[c][p] + share[p] ELSE L.paidFrom[c][p]]]
  BY <1>1 DEF Effect
<1>6. PICK V : V = [n \in Mints |-> [p \in Participants |-> IF n = m /\ p = g THEN v ELSE x.available[n][p]]]
  OBVIOUS
<1>7. X = [locked |-> x.locked, settled |-> x.settled, available |-> V, paidFrom |-> x.paidFrom]
  BY <1>1, <1>6 DEF Behind
<1>8. V = [n \in Mints |-> [p \in Participants |-> IF n = m /\ p = g THEN v ELSE y.available[n][p]]]
  <2>1. ASSUME NEW n \in Mints, NEW p \in Participants
        PROVE  (IF n = m /\ p = g THEN v ELSE x.available[n][p])
                 = (IF n = m /\ p = g THEN v ELSE y.available[n][p])
    BY <1>4, <1>5
  <2> QED BY <1>6, <2>1
<1>9. Paid(X, k, account, share[g])
         = [locked |-> x.locked, settled |-> x.settled, available |-> V,
            paidFrom |-> [c \in Channels |-> [p \in Participants |->
               IF c = k.channel /\ p = account[2] THEN x.paidFrom[c][p] + share[g] ELSE x.paidFrom[c][p]]]]
  <2>1. IsTable(x.paidFrom, Channels, Participants)
    BY <1>5 DEF IsTable
  <2>2. PICK h, q : h = x.paidFrom /\ q = share[g]
    OBVIOUS
  <2> QED BY <1>7, <2>1, <2>2, PaidIs
<1>10. y.paidFrom = [c \in Channels |-> [p \in Participants |->
          IF c = k.channel /\ p = account[2] THEN x.paidFrom[c][p] + share[g] ELSE x.paidFrom[c][p]]]
  <2>1. ASSUME NEW c \in Channels, NEW p \in Participants
        PROVE  y.paidFrom[c][p]
                 = IF c = k.channel /\ p = account[2] THEN x.paidFrom[c][p] + share[g] ELSE x.paidFrom[c][p]
    <3>2. x.paidFrom[c][p] = IF c = k.channel THEN L.paidFrom[c][p] + u[p] ELSE L.paidFrom[c][p]
      BY <1>5
    <3>3. y.paidFrom[c][p] = IF c = k.channel THEN L.paidFrom[c][p] + share[p] ELSE L.paidFrom[c][p]
      BY <1>5
    <3> QED BY <1>2, <1>3, <1>4, <3>2, <3>3
  <2>2. y.paidFrom = [c \in Channels |-> [p \in Participants |-> y.paidFrom[c][p]]]
    BY <1>5
  <2> QED BY <2>1, <2>2
<1>11. Behind(y, g, m, v) = [locked |-> x.locked, settled |-> x.settled, available |-> V, paidFrom |-> y.paidFrom]
  BY <1>5, <1>8 DEF Behind
<1>12. y.available[m][g] = L.available[m][g] + share[g]
  BY <1>5
<1> QED BY <1>1, <1>9, <1>10, <1>11, <1>12 DEF CreditNext

\* Nothing is behind when the stored balance is the right one.
LEMMA NothingBehind ==
  ASSUME NEW L \in MoneySet, NEW g, NEW m, NEW v, v = L.available[m][g]
  PROVE  Behind(L, g, m, v) = L
<1>1. /\ L = [locked |-> L.locked, settled |-> L.settled, available |-> L.available, paidFrom |-> L.paidFrom]
      /\ L.available = [i \in Mints |-> [q \in Participants |-> L.available[i][q]]]
  BY DEF MoneySet
<1>2. PICK V : V = [i \in Mints |-> [q \in Participants |-> IF i = m /\ q = g THEN v ELSE L.available[i][q]]]
  OBVIOUS
<1>3. \A i \in Mints : \A q \in Participants :
         (IF i = m /\ q = g THEN v ELSE L.available[i][q]) = L.available[i][q]
  OBVIOUS
<1>4. V = L.available
  BY <1>1, <1>2, <1>3
<1> QED BY <1>1, <1>2, <1>4 DEF Behind

\* Writing back what the copy has makes the money whole.
LEMMA StoredBack ==
  ASSUME NEW L \in MoneySet, NEW p \in Participants, NEW n \in Mints, NEW v,
         NEW account, account = BalanceOf(p, n), NEW y, y = L.available[n][p]
  PROVE  Store(Behind(L, p, n, v), account, y) = L
<1>1. /\ L = [locked |-> L.locked, settled |-> L.settled, available |-> L.available, paidFrom |-> L.paidFrom]
      /\ L.available = [i \in Mints |-> [q \in Participants |-> L.available[i][q]]]
  BY DEF MoneySet
<1>2. PICK V : V = [i \in Mints |-> [q \in Participants |-> IF i = n /\ q = p THEN v ELSE L.available[i][q]]]
  OBVIOUS
<1>3. Behind(L, p, n, v) = [locked |-> L.locked, settled |-> L.settled, available |-> V, paidFrom |-> L.paidFrom]
  BY <1>2 DEF Behind
<1>4. PICK l, s, h : l = L.locked /\ s = L.settled /\ h = L.paidFrom
  OBVIOUS
<1>5. IsTable(V, Mints, Participants)
  BY <1>2 DEF IsTable
<1>6. Store([locked |-> l, settled |-> s, available |-> V, paidFrom |-> h], account, y)
        = [locked |-> l, settled |-> s,
           available |-> [i \in Mints |-> [q \in Participants |->
              IF i = account[3] /\ q = account[2] THEN y ELSE V[i][q]]],
           paidFrom |-> h]
  BY <1>5, StoreIs
<1>7. account[2] = p /\ account[3] = n
  BY DEF BalanceOf
<1>8. [i \in Mints |-> [q \in Participants |->
         IF i = account[3] /\ q = account[2] THEN y ELSE V[i][q]]] = L.available
  <2>1. ASSUME NEW i \in Mints, NEW q \in Participants
        PROVE  (IF i = account[3] /\ q = account[2] THEN y ELSE V[i][q]) = L.available[i][q]
    BY <1>2, <1>7
  <2> QED BY <1>1, <2>1
<1> QED BY <1>1, <1>3, <1>4, <1>6, <1>8

-----------------------------------------------------------------------------
(* One record of a group, as its records are settled.                      *)

\* A record of the batch, of gateway g and mint m: a direct one names no providers, a
\* routed one names each once.
RecordOf(k, g, m) ==
    /\ Ready(k) /\ g = Gateway(k) /\ m = MintOf(k)
    /\ HeaderOf(k.channel).kind = BatchKind
    /\ BatchKind = Direct => k.allocations = <<>>
    /\ BatchKind = Routed => staging[Buffer].route = <<g, m>>

\* What a record pays, allocation by allocation and in all.
Shared(k, g, m, share, pieces) ==
    /\ g \in Participants /\ m \in Mints /\ k.channel \in Channels /\ Len(k.allocations) \in Nat
    /\ share \in [Participants -> U64]
    /\ \A a \in 1 .. Len(k.allocations) :
         /\ k.allocations[a].id \in Participants /\ k.allocations[a].id # g
         /\ <<k.allocations[a].id, m>> \in opened /\ staging[Buffer].route[2] = m
         /\ pieces[a] = share[k.allocations[a].id]
         /\ \A b \in 1 .. a - 1 : k.allocations[b].id # k.allocations[a].id
    /\ \A p \in Participants :
         p # g /\ (\A b \in 1 .. Len(k.allocations) : k.allocations[b].id # p) => share[p] = 0

\* The amounts that SettleRecord finds are those of the record.
SharesFit(k, g, m, share, pieces, old, moved) ==
    /\ Shared(k, g, m, share, pieces)
    /\ FeeOf(k, old, moved) = share[g]
    /\ BatchKind = Routed => PayoutAccepted(k, old, old + moved)

\* What a record moves is divided as Clearing divides it.
LEMMA SharesAre ==
  ASSUME TypeOK, NEW k, NEW g, NEW m, RecordOf(k, g, m), NEW L \in MoneySet, GoodSplit(L, k),
         NEW old, old = L.settled[k.channel], NEW moved, moved = MovedBy(L, k),
         NEW pieces, pieces = Pieces(k, old, old + moved)
  PROVE  SharesFit(k, g, m, Shares(L, k), pieces, old, moved)
<1>1. PICK share, w : share = Shares(L, k) /\ w = Len(k.allocations)
  OBVIOUS
<1>2. /\ k \in Commitments /\ HeaderOf(k.channel) \in Header /\ k.channel \in Channels
      /\ BalancesOpen(k) /\ w \in Nat
  BY <1>1, CommitmentFacts, AccountsForIs DEF RecordOf, Ready
<1>3. g \in Participants /\ m \in Mints /\ HeaderOf(k.channel).kind \in {Direct, Routed}
  <2>1. HeaderOf(k.channel) \in Header
    BY <1>2
  <2>2. m \in Mints /\ HeaderOf(k.channel).kind \in Kinds
    <3>1. PICK h : h = HeaderOf(k.channel)
      OBVIOUS
    <3>2. h.mint \in Mints /\ h.kind \in Kinds
      BY <2>1, <3>1 DEF Header, Kinds
    <3>3. m = h.mint
      BY <3>1 DEF RecordOf, MintOf
    <3> QED BY <3>1, <3>2, <3>3
  <2>3. <<g, m>> \in opened
    BY <1>2 DEF BalancesOpen, RecordOf, MintOf
  <2> QED BY <2>2, <2>3 DEF TypeOK, Kinds
<1>4. moved \in Nat /\ old \in Nat /\ old + moved <= MaxU64 /\ share \in [Participants -> 0 .. moved]
  <2>1. L.settled[k.channel] \in U64
    BY <1>2 DEF MoneySet
  <2> QED BY <1>1, <2>1, NumbersAreU64 DEF GoodSplit, U64
<1>5. share \in [Participants -> U64]
  <2>1. 0 .. moved \subseteq 0 .. MaxU64
    BY <1>4, NumbersAreU64
  <2> QED BY <1>4, <2>1 DEF U64
<1>6. (old + moved) - old = moved
  BY <1>4
<1>7. CASE BatchKind = Direct
  <2>1. k.allocations = <<>> /\ w = 0 /\ HeaderOf(k.channel).kind = Direct
    BY <1>1, <1>7 DEF RecordOf
  <2>2. share = [p \in Participants |-> IF p = g THEN moved ELSE 0]
    <3>1. share = [p \in Participants |-> IF p = Gateway(k) THEN (old + moved) - old ELSE 0]
      BY <1>1, <2>1 DEF Shares
    <3> QED BY <1>6, <3>1 DEF RecordOf
  <2>3. \A a \in 1 .. w : FALSE
    BY <2>1
  <2>4. FeeOf(k, old, moved) = share[g]
    BY <1>3, <1>7, <2>2 DEF FeeOf
  <2>5. Shared(k, g, m, share, pieces)
    BY <1>1, <1>2, <1>3, <1>5, <2>2, <2>3 DEF Shared
  <2> QED BY <1>1, <1>7, <2>4, <2>5 DEF Direct, Routed, SharesFit
<1>8. CASE BatchKind = Routed
  <2>1. /\ HeaderOf(k.channel).kind = Routed /\ Routed # Direct /\ staging[Buffer].route[2] = m
        /\ Validate(k) /\ g \notin Named(k)
    BY <1>8 DEF RecordOf, Ready, Routed, Direct
  <2>2. share = [p \in Participants |-> IF p = g THEN GatewayFee(k, old, old + moved)
                                                 ELSE PaidTo(k, old, old + moved, p)]
    BY <1>1, <2>1 DEF Shares, RecordOf
  <2>3. /\ DOMAIN k.allocations = 1 .. w
        /\ \A a, b \in 1 .. w : a < b => k.allocations[a].id # k.allocations[b].id
    <3>1. DOMAIN k.allocations = 1 .. w
      BY <1>1, <1>2, CommitmentFacts
    <3> QED BY <1>1, <2>1, <3>1 DEF Validate
  <2>4. ASSUME NEW a \in 1 .. w
        PROVE  /\ k.allocations[a].id \in Participants /\ k.allocations[a].id # g
               /\ <<k.allocations[a].id, m>> \in opened
               /\ pieces[a] = share[k.allocations[a].id]
               /\ \A b \in 1 .. a - 1 : k.allocations[b].id # k.allocations[a].id
    <3>1. PICK id : id = k.allocations[a].id
      OBVIOUS
    <3>2. id \in Named(k)
      BY <2>3, <3>1 DEF Named
    <3>3. <<id, m>> \in opened
      BY <1>2, <3>2 DEF BalancesOpen, RecordOf, MintOf
    <3>4. id \in Participants /\ id # g
      BY <2>1, <3>2, <3>3 DEF TypeOK
    <3>5. \A b \in 1 .. w : k.allocations[b].id = id => b = a
      BY <1>2, <2>3, <3>1
    <3>6. {b \in 1 .. w : k.allocations[b].id = id} = {a}
      BY <3>1, <3>5
    <3>7. PICK S : S = {b \in 1 .. w : k.allocations[b].id = id}
      OBVIOUS
    <3>8. (CHOOSE b \in S : TRUE) = a /\ S # {}
      BY <3>6, <3>7
    <3>9. PaidTo(k, old, old + moved, id) = IF S = {} THEN 0 ELSE Pieces(k, old, old + moved)[CHOOSE b \in S : TRUE]
      BY <1>1, <3>7 DEF PaidTo
    <3>10. share[id] = pieces[a]
      BY <2>2, <3>4, <3>8, <3>9
    <3>11. \A b \in 1 .. a - 1 : k.allocations[b].id # id
      BY <1>2, <3>5
    <3> QED BY <3>1, <3>3, <3>4, <3>10, <3>11
  <2>5. ASSUME NEW p \in Participants, p # g, \A b \in 1 .. w : k.allocations[b].id # p
        PROVE  share[p] = 0
    <3>1. {b \in 1 .. Len(k.allocations) : k.allocations[b].id = p} = {}
      BY <1>1, <2>5
    <3>2. PaidTo(k, old, old + moved, p) = 0
      BY <3>1 DEF PaidTo
    <3> QED BY <2>2, <2>5, <3>2
  <2>6. FeeOf(k, old, moved) = share[g]
    BY <1>3, <1>8, <2>1, <2>2 DEF FeeOf
  <2>7. Shared(k, g, m, share, pieces)
    BY <1>1, <1>2, <1>3, <1>5, <2>1, <2>4, <2>5 DEF Shared
  <2>8. PayoutAccepted(k, old, old + moved)
    BY <2>1 DEF GoodSplit
  <2> QED BY <1>1, <2>6, <2>7, <2>8 DEF SharesFit
<1> QED BY <1>3, <1>7, <1>8 DEF RecordOf

\* The accounts that a record of gateway g and mint m finds behind the cursor.
Charged(plan, group, cursor, k, g, m) ==
    /\ plan.table[group.primary] = BalanceOf(g, m)
    /\ \A a \in 1 .. Len(k.allocations) :
         plan.table[group.providers[cursor + a]] = BalanceOf(k.allocations[a].id, m)

\* The providers are paid what the record pays them; no check of theirs fails.
PaidBehind(n, r, L, k, g, m, v, moved, share) ==
    /\ IsRun(n) /\ n.copy = r.copy /\ n.changed = r.changed /\ n.cursor = r.cursor /\ n.moved = r.moved
    /\ n.ok = r.ok
    /\ n.money = Behind(Effect(L, k, moved, Upto(k, share, Len(k.allocations))), g, m, v)

\* The loop over the allocations of a record, which load the accounts from the cursor on.
LEMMA ProvidersPay ==
  ASSUME NEW L \in MoneySet, NEW k, NEW g, NEW m, m = MintOf(k), NEW v, NEW moved, NEW share, NEW pieces,
         Shared(k, g, m, share, pieces),
         \A p \in Participants : L.available[m][p] + share[p] <= MaxU64,
         NEW r, IsRun(r), r.money = Behind(Effect(L, k, moved, Upto(k, share, 0)), g, m, v),
         NEW plan, NEW group, Charged(plan, group, r.cursor, k, g, m)
  PROVE  PaidBehind(ProvidersPaid(r, plan, group, k, pieces), r, L, k, g, m, v, moved, share)
<1>0. PICK p : p = ProvidersPaid(r, plan, group, k, pieces)
  OBVIOUS
<1>1. Len(k.allocations) \in Nat
  BY DEF Shared
<1>2. PICK f : /\ f[0] = r
               /\ \A i \in 1 .. Len(k.allocations) :
                    f[i] = PayProvider(f[i - 1], plan, group, k, i, pieces[i])
               /\ p = f[Len(k.allocations)]
  BY <1>0, <1>1, ProvidersUnfold
<1> DEFINE w == Len(k.allocations)
           Good(n, i) == /\ IsRun(n) /\ n.copy = r.copy /\ n.changed = r.changed
                         /\ n.cursor = r.cursor /\ n.moved = r.moved /\ n.ok = r.ok
                         /\ n.money = Behind(Effect(L, k, moved, Upto(k, share, i)), g, m, v)
           A == {i \in 0 .. w : Good(f[i], i)}
<1>3. 0 \in A
  BY <1>1, <1>2
<1>4. ASSUME NEW i \in 0 .. w - 1, i \in A
      PROVE  i + 1 \in A
  <2>1. PICK x, n, id, account, e, q, after :
           /\ x = f[i] /\ n = f[i + 1] /\ e = i + 1 /\ q = pieces[i + 1]
           /\ id = k.allocations[i + 1].id
           /\ account = BalanceOf(id, m)
           /\ after = Stored(x.money, account) + q
    OBVIOUS
  <2>2. e \in 1 .. w /\ e - 1 = i /\ e \in Nat /\ e >= 1
    BY <1>1, <2>1
  <2>3. n = PayProvider(x, plan, group, k, e, q)
    BY <1>2, <2>1, <2>2
  <2>4. Good(x, e - 1)
    BY <1>4, <2>1, <2>2
  <2>5. ProviderPaidIn(n, x, plan, group, k, e, q)
    BY <2>3, <2>4, PayProviderIs
  <2>6. plan.table[group.providers[x.cursor + e]] = account
    BY <2>1, <2>2, <2>4 DEF Charged
  <2>7. /\ id \in Participants /\ id # g /\ <<id, m>> \in opened /\ staging[Buffer].route[2] = m
        /\ q = share[id] /\ \A b \in 1 .. e - 1 : k.allocations[b].id # id
        /\ id = k.allocations[e].id /\ m \in Mints /\ share \in [Participants -> U64] /\ g \in Participants
    BY <2>1, <2>2, SMTT(30) DEF Shared
  <2>8. /\ Stored(x.money, account) = L.available[m][id]
        /\ Paid(Store(x.money, account, L.available[m][id] + share[id]), k, account, share[id])
             = Behind(Effect(L, k, moved, Upto(k, share, e)), g, m, v)
    <3>1. PICK X : X = x.money
      OBVIOUS
    <3>2. X = Behind(Effect(L, k, moved, Upto(k, share, e - 1)), g, m, v)
      BY <2>4, <3>1
    <3>3. PaidNext(X, L, k, g, m, v, moved, share, e, id)
      BY <2>2, <2>7, <3>2, ProviderBehind
    <3> QED BY <2>1, <3>1, <3>3 DEF PaidNext
  <2>9. after = L.available[m][id] + share[id] /\ after <= MaxU64
    BY <2>1, <2>7, <2>8
  <2>10. n.money = Behind(Effect(L, k, moved, Upto(k, share, e)), g, m, v)
    <3>1. n.money = Paid(Store(x.money, account, after), k, account, q)
      BY <2>1, <2>5, <2>6 DEF ProviderPaidIn
    <3>2. PICK t : t = L.available[m][id] + share[id]
      OBVIOUS
    <3>3. Paid(Store(x.money, account, t), k, account, share[id])
            = Behind(Effect(L, k, moved, Upto(k, share, e)), g, m, v)
      BY <2>8, <3>2, SMTT(30)
    <3>4. after = t /\ q = share[id]
      BY <2>7, <2>9, <3>2
    <3> QED BY <3>1, <3>3, <3>4
  <2>11. account # plan.table[group.primary]
    <3>1. plan.table[group.primary] = BalanceOf(g, m)
      BY DEF Charged
    <3>2. account = BalanceOf(id, m) /\ id # g
      BY <2>1, <2>7
    <3> QED BY ONLY <3>1, <3>2 DEF BalanceOf
  <2>12. account[2] = id /\ account[3] = m
    BY <2>1 DEF BalanceOf
  <2>13. account = BalanceOf(k.allocations[e].id, staging[Buffer].route[2])
    BY <2>1, <2>7
  <2>14. n.ok <=> x.ok
    BY <2>1, <2>5, <2>6, <2>7, <2>9, <2>11, <2>12, <2>13 DEF ProviderPaidIn
  <2>15. Good(n, e)
    BY <2>4, <2>5, <2>10, <2>14 DEF ProviderPaidIn, IsRun
  <2> QED BY <1>1, <2>1, <2>2, <2>15
<1> HIDE DEF A, Good
<1>5. 0 .. w \subseteq A
  BY <1>1, <1>3, <1>4, Induction
<1>6. w \in A
  BY <1>1, <1>5
<1> QED BY <1>0, <1>2, <1>6 DEF A, Good, PaidBehind

\* The run shows the money L: what it stores is L, but for the primary balance of g in m,
\* which is in the copy and is as it was stored until the copy has changed.
Shows(r, L, g, m) ==
    /\ IsRun(r) /\ r.copy = L.available[m][g]
    /\ \E v : r.money = Behind(L, g, m, v) /\ (~r.changed => v = L.available[m][g])

\* The record has its one effect on the money that the run shows, and no check fails.
RecordPaid(n, r, L, k, g, m) ==
    /\ Shows(n, Pay(L, k), g, m)
    /\ n.cursor = r.cursor + Len(k.allocations) /\ n.moved = r.moved + MovedBy(L, k) /\ n.ok = r.ok

\* A record of a group: drawn from the bucket, its providers paid, the copy credited.
LEMMA RecordPays ==
  ASSUME TypeOK, NEW i, NEW k, k = staging[Buffer].slots[i].com, NEW g, NEW m, RecordOf(k, g, m),
         NEW L \in MoneySet, GoodSplit(L, k), Pay(L, k) \in MoneySet,
         NEW r, Shows(r, L, g, m), NEW plan, NEW group, Charged(plan, group, r.cursor, k, g, m),
         plan.table[group.source] = BucketOf(k)
  PROVE  RecordPaid(SettleRecord(r, plan, group, i), r, L, k, g, m)
<1>1. PICK n, v, old, moved, pieces, share, E, fee :
         /\ n = SettleRecord(r, plan, group, i)
         /\ r.money = Behind(L, g, m, v) /\ (~r.changed => v = L.available[m][g])
         /\ old = L.settled[k.channel] /\ moved = MovedBy(L, k)
         /\ pieces = Pieces(k, old, old + moved) /\ share = Shares(L, k)
         /\ E = Pay(L, k) /\ fee = FeeOf(k, old, moved)
  BY DEF Shows
<1>2. /\ IsRun(r) /\ r.copy = L.available[m][g]
      /\ k \in Commitments /\ HeaderOf(k.channel) \in Header
  BY ZenonT(30) DEF Shows, RecordOf, Ready
<1>3. /\ Shared(k, g, m, share, pieces) /\ fee = share[g]
      /\ BatchKind = Routed => PayoutAccepted(k, old, old + moved)
  <2>1. SharesFit(k, g, m, share, pieces, old, moved)
    BY <1>1, SharesAre, ZenonT(30)
  <2> QED BY <1>1, <2>1, ZenonT(30) DEF SharesFit
<1>4. /\ g \in Participants /\ m \in Mints /\ m = MintOf(k) /\ share \in [Participants -> U64]
      /\ Len(k.allocations) \in Nat
  BY <1>3, ZenonT(30) DEF Shared, RecordOf
<1>5. E = Effect(L, k, moved, share) /\ E \in MoneySet
  BY <1>1, <1>2, PayIsEffect
<1>6. ASSUME NEW p \in Participants
      PROVE  E.available[m][p] = L.available[m][p] + share[p] /\ L.available[m][p] + share[p] <= MaxU64
  <2>1. E.available[m][p] = L.available[m][p] + share[p]
    BY <1>4, <1>5 DEF Effect
  <2>2. PICK a : a = E.available
    OBVIOUS
  <2>3. a \in [Mints -> [Participants -> 0 .. MaxU64]]
    BY <1>5, <2>2, ZenonT(30) DEF MoneySet, U64
  <2>4. a[m][p] \in 0 .. MaxU64
    BY <1>4, <2>3
  <2> QED BY <2>1, <2>2, <2>4, NumbersAreU64
<1>7. r.money.settled = L.settled /\ r.money.locked = L.locked
  <2>1. PICK b : b = r.money
    OBVIOUS
  <2>0. b = Behind(L, g, m, v)
    BY <1>1, <2>1
  <2>2. b.settled = L.settled /\ b.locked = L.locked
    BY ONLY <2>0 DEF Behind
  <2> QED BY <2>1, <2>2
<1>8. MovedBy(r.money, k) = moved /\ r.money.settled[k.channel] = old
  BY <1>1, <1>7 DEF MovedBy
<1>9. PICK x : x = MoveFromBucket(r, k, moved)
  OBVIOUS
<1>10. MovedIn(x, r, k, moved)
  BY <1>2, <1>9, MoveIs
<1>11. /\ IsRun(x) /\ x.copy = r.copy /\ x.changed = r.changed /\ x.cursor = r.cursor /\ x.ok = r.ok
       /\ x.moved = r.moved + moved
       /\ x.money = Behind(Effect(L, k, moved, Upto(k, share, 0)), g, m, v)
  <2>1. Drawn(Behind(L, g, m, v), k, moved) = Behind(Effect(L, k, moved, Upto(k, share, 0)), g, m, v)
    BY MoveBehind
  <2> QED BY <1>1, <1>10, <2>1 DEF MovedIn
<1>12. PICK paid : paid = ProvidersPaid(x, plan, group, k, pieces)
  OBVIOUS
<1>13. PaidBehind(paid, x, L, k, g, m, v, moved, share)
  BY <1>3, <1>4, <1>6, <1>11, <1>12, ProvidersPay, ZenonT(30)
<1>14. paid = ProvidersAfter(r, plan, group, k)
  BY <1>1, <1>8, <1>9, <1>12 DEF ProvidersAfter
<1>15. IsRun(paid)
  BY <1>13 DEF PaidBehind
<1>16. Recorded(n, r, plan, group, k, paid)
  BY <1>1, <1>14, <1>15, SettleRecordIs
<1>17. RecordAccepted(plan, group, k, old, moved)
  BY <1>3 DEF RecordAccepted
<1>18. /\ IsRun(n) /\ n.money = Paid(paid.money, k, plan.table[group.primary], fee)
       /\ n.copy = paid.copy + fee /\ (n.changed <=> paid.changed \/ fee > 0)
       /\ n.cursor = paid.cursor + Len(k.allocations) /\ n.moved = paid.moved
       /\ (n.ok <=> paid.ok /\ paid.copy + fee <= MaxU64)
  BY <1>1, <1>8, <1>16, <1>17 DEF Recorded
<1>19. n.money = Behind(E, g, m, v)
  <2>1. PICK X : X = paid.money
    OBVIOUS
  <2>2. X = Behind(Effect(L, k, moved, Upto(k, share, Len(k.allocations))), g, m, v)
    BY <1>13, <2>1 DEF PaidBehind
  <2>3. /\ \A b \in 1 .. Len(k.allocations) : k.allocations[b].id # g
        /\ \A p \in Participants :
             p # g /\ (\A b \in 1 .. Len(k.allocations) : k.allocations[b].id # p) => share[p] = 0
    BY <1>3 DEF Shared
  <2>4. PICK w : w = Len(k.allocations)
    OBVIOUS
  <2>5. CreditNext(X, L, k, g, m, v, moved, share)
    <3>1. \A b \in 1 .. w : k.allocations[b].id # g
      BY <2>3, <2>4
    <3>2. \A p \in Participants : p # g /\ (\A b \in 1 .. w : k.allocations[b].id # p) => share[p] = 0
      BY <2>3, <2>4
    <3>3. X = Behind(Effect(L, k, moved, Upto(k, share, w)), g, m, v)
      BY <2>2, <2>4
    <3> QED BY <1>4, <3>1, <3>2, <3>3, CreditBehind, ZenonT(30)
  <2>6. plan.table[group.primary] = BalanceOf(g, m)
    BY DEF Charged
  <2> QED BY <1>3, <1>5, <1>18, <2>1, <2>5, <2>6 DEF CreditNext
<1>20. /\ paid.copy = r.copy /\ paid.changed = r.changed /\ paid.cursor = r.cursor
       /\ paid.moved = r.moved + moved /\ (paid.ok <=> r.ok)
  BY <1>11, <1>13 DEF PaidBehind
<1>21. n.copy = E.available[m][g] /\ n.copy <= MaxU64
  <2>1. paid.copy = L.available[m][g]
    BY <1>2, <1>20
  <2>2. n.copy = paid.copy + fee /\ fee = share[g]
    BY <1>3, <1>18
  <2>3. /\ E.available[m][g] = L.available[m][g] + share[g]
        /\ L.available[m][g] + share[g] <= MaxU64
    BY <1>4, <1>6
  <2> QED BY ONLY <2>1, <2>2, <2>3, ZenonT(30)
<1>22. ~n.changed => v = E.available[m][g]
  <2>1. L.available[m][g] \in Nat /\ fee \in Nat
    <3>1. PICK a : a = L.available
      OBVIOUS
    <3>2. a \in [Mints -> [Participants -> 0 .. MaxU64]] /\ share \in [Participants -> 0 .. MaxU64]
      BY <1>4, <3>1, ZenonT(30) DEF MoneySet, U64
    <3>3. a[m][g] \in 0 .. MaxU64 /\ share[g] \in 0 .. MaxU64
      BY <1>4, <3>2
    <3> QED BY <1>3, <3>1, <3>3, NumbersAreU64
  <2>2. ~n.changed => ~r.changed /\ fee = 0
    BY <1>18, <1>20, <2>1
  <2>3. E.available[m][g] = L.available[m][g] + fee
    BY <1>3, <1>4, <1>6
  <2>4. fee = 0 => E.available[m][g] = L.available[m][g]
    BY <2>1, <2>3
  <2>5. ~r.changed => v = L.available[m][g]
    BY <1>1
  <2> QED BY <2>2, <2>4, <2>5
<1>23. Shows(n, E, g, m)
  BY <1>18, <1>19, <1>21, <1>22 DEF Shows
<1>24. n.ok = r.ok
  <2>1. n.ok \in BOOLEAN /\ r.ok \in BOOLEAN
    BY <1>2, <1>18 DEF IsRun
  <2>2. n.ok <=> r.ok
    BY <1>18, <1>20, <1>21
  <2> QED BY <2>1, <2>2
<1>25. n.cursor = r.cursor + Len(k.allocations) /\ n.moved = r.moved + moved
  BY <1>18, <1>20
<1> QED BY <1>1, <1>23, <1>24, <1>25, ZenonT(30) DEF RecordPaid

-----------------------------------------------------------------------------
(* One group.                                                              *)

\* The records of the instruction are all of the batch's kind and route, and ready.
AllOfBatch(order) ==
    \A q \in 1 .. Len(order) : RecordOf(Com(order, q), Gateway(Com(order, q)), MintOf(Com(order, q)))

\* The places of a group's first j records.
Places(pos, j) == {pos[i] : i \in 1 .. j}

\* No place of D is of the group's bucket.
Apart(order, D, table, G) ==
    D \subseteq 1 .. Len(order) /\ \A x \in D : BucketOf(Com(order, x)) # table[G.source]

\* When a record's turn comes, the places of its channel that are done are those before it.
LEMMA TurnOfPlace ==
  ASSUME NEW order, Len(order) \in Nat, NEW table, NEW G, NEW pos, NEW at,
         Traced(order, Len(order), table, G, pos, at), NEW D, Apart(order, D, table, G),
         NEW j \in 1 .. Len(G.indices)
  PROVE  InTurn(order, D \cup Places(pos, j - 1), pos[j])
<1>1. PICK n, w, q, E : n = Len(order) /\ w = Len(G.indices) /\ q = pos[j] /\ E = D \cup Places(pos, j - 1)
  OBVIOUS
<1>2. w \in Nat /\ j \in 1 .. w /\ n \in Nat
  BY <1>1 DEF Traced, Groups
<1>3. /\ pos \in [1 .. w -> 1 .. n]
      /\ \A i, h \in 1 .. w : i < h => pos[i] < pos[h]
      /\ \A i \in 1 .. w : BucketOf(Com(order, pos[i])) = table[G.source]
      /\ \A x \in 1 .. n : BucketOf(Com(order, x)) = table[G.source] => \E i \in 1 .. w : pos[i] = x
  BY <1>1 DEF Traced
<1>4. q \in 1 .. n
  BY <1>1, <1>2, <1>3
<1>5. E \subseteq 1 .. n
  <2>1. D \subseteq 1 .. n
    BY <1>1 DEF Apart
  <2>2. \A i \in 1 .. j - 1 : pos[i] \in 1 .. n
    BY <1>2, <1>3
  <2> QED BY <1>1, <2>1, <2>2 DEF Places
<1>6. ASSUME NEW x \in 1 .. n, Com(order, x).channel = Com(order, q).channel
      PROVE  x \in E <=> x < q
  <2>1. BucketOf(Com(order, x)) = table[G.source]
    BY <1>1, <1>2, <1>3, <1>6 DEF BucketOf
  <2>2. x \notin D
    BY <2>1 DEF Apart
  <2>3. PICK i \in 1 .. w : pos[i] = x
    BY <1>3, <2>1
  <2>4. x < q <=> i < j
    BY <1>1, <1>2, <1>3, <2>3
  <2>5. x \in Places(pos, j - 1) <=> i < j
    <3>1. i < j => i \in 1 .. j - 1
      BY <1>2
    <3>2. ASSUME NEW h \in 1 .. j - 1, pos[h] = x
          PROVE  i < j
      <4>1. h \in 1 .. w
        BY <1>2
      <4>2. h = i
        BY <1>2, <1>3, <2>3, <3>2, <4>1
      <4> QED BY <1>2, <4>2
    <3> QED BY <2>3, <3>1, <3>2 DEF Places
  <2> QED BY <1>1, <2>2, <2>4, <2>5
<1>7. q \notin E
  <2>1. Com(order, q).channel = Com(order, q).channel /\ ~(q < q)
    BY <1>2, <1>4
  <2> QED BY <1>4, <1>6, <2>1
<1> QED BY <1>1, <1>4, <1>5, <1>6, <1>7 DEF InTurn

\* The records of a group are of one gateway and mint; what the group charges is theirs.
PlaceIs(order, plan, G, pos, at, g, m, j, k) ==
    /\ G.indices[j] = order[pos[j]] /\ g = Gateway(k) /\ m = MintOf(k)
    /\ plan.table[G.source] = BucketOf(k)
    /\ Charged(plan, G, at[j - 1], k, g, m)
    /\ at[j] = at[j - 1] + Len(k.allocations)
    /\ pos[j] \in 1 .. Len(order)

\* What Grouped wrote down of each record of a group.
LEMMA GroupIs ==
  ASSUME NEW order, Len(order) \in Nat, NEW plan, NEW G, NEW pos, NEW at,
         Traced(order, Len(order), plan.table, G, pos, at), Listed(order, plan.table, G, pos, at),
         NEW g, NEW m, plan.table[G.primary] = BalanceOf(g, m),
         NEW j \in 1 .. Len(G.indices), NEW k, k = Com(order, pos[j])
  PROVE  PlaceIs(order, plan, G, pos, at, g, m, j, k)
<1>1. /\ G.indices[j] = order[pos[j]] /\ BucketOf(k) = plan.table[G.source]
      /\ Owed(k) = plan.table[G.primary] /\ at[j] = at[j - 1] + Len(k.allocations)
      /\ pos[j] \in 1 .. Len(order)
  BY DEF Traced
<1>2. BalanceOf(Gateway(k), MintOf(k)) = BalanceOf(g, m)
  BY <1>1 DEF Owed
<1>3. g = Gateway(k) /\ m = MintOf(k)
  BY <1>2 DEF BalanceOf
<1>4. \A a \in 1 .. Len(k.allocations) :
         plan.table[G.providers[at[j - 1] + a]] = BalanceOf(k.allocations[a].id, m)
  BY <1>3 DEF Listed
<1> QED BY <1>1, <1>3, <1>4 DEF Charged, PlaceIs

\* What has been done when the money is that after the places D.
SettledTo(n, order, V, S, D, g, m) ==
    /\ Shows(n, After(order, V, S, D), g, m)
    /\ n.moved = Total(Part(V, D))

\* The records of a group are paid one by one, each at its turn; no check fails.
GroupPaid(n, r, order, V, S, E, g, m) == SettledTo(n, order, V, S, E, g, m) /\ n.ok = r.ok

\* The loop over the records of a group.
LEMMA RecordsPay ==
  ASSUME MoneyInOrder, NEW order, Len(order) \in Nat, AllOfBatch(order),
         NEW M, PaidInTurn(M, Buffer, order), NEW V, NEW S, V = Moves(order, M), S = Paying(order, M),
         NEW plan, NEW G, NEW pos, NEW at,
         Traced(order, Len(order), plan.table, G, pos, at), Listed(order, plan.table, G, pos, at),
         NEW D, Apart(order, D, plan.table, G),
         NEW g, NEW m, plan.table[G.primary] = BalanceOf(g, m),
         NEW r, SettledTo(r, order, V, S, D, g, m), r.cursor = 0,
         NEW p, p = RecordsSettled(r, plan, G),
         NEW E, E = D \cup Places(pos, Len(G.indices))
  PROVE  GroupPaid(p, r, order, V, S, E, g, m)
<1>1. Len(G.indices) \in Nat /\ at[0] = 0
  BY DEF Traced, Groups
<1>2. PICK f : /\ f[0] = r
               /\ \A i \in 1 .. Len(G.indices) : f[i] = SettleRecord(f[i - 1], plan, G, G.indices[i])
               /\ p = f[Len(G.indices)]
  BY <1>1, RecordsUnfold
<1>3. RecordsReady(order) /\ TypeOK
  BY DEF RecordsReady, AllOfBatch, RecordOf, MoneyInOrder
<1>4. V \in [1 .. Len(order) -> 0 .. MaxU64] /\ MaxU64 \in Nat
  BY <1>3, TablesFit, NumbersAreU64 DEF Tabled, U64
<1> DEFINE w == Len(G.indices)
           Good(n, j) == /\ SettledTo(n, order, V, S, D \cup Places(pos, j), g, m)
                         /\ n.cursor = at[j] /\ n.ok = r.ok
           A == {j \in 0 .. w : Good(f[j], j)}
<1>5. 0 \in A
  <2>1. Places(pos, 0) = {}
    BY DEF Places
  <2>2. D \cup Places(pos, 0) = D
    BY <2>1
  <2>3. PICK B : B = D \cup Places(pos, 0)
    OBVIOUS
  <2>4. SettledTo(r, order, V, S, B, g, m)
    BY <2>2, <2>3
  <2>5. Good(r, 0)
    BY <1>1, <2>3, <2>4
  <2> QED BY <1>1, <1>2, <2>5
<1>6. ASSUME NEW i \in 0 .. w - 1, i \in A
      PROVE  i + 1 \in A
  <2>1. PICK x, n, j, q, k, B, F, L, s :
           /\ x = f[i] /\ n = f[i + 1] /\ j = i + 1 /\ q = pos[i + 1] /\ k = Com(order, pos[i + 1])
           /\ B = D \cup Places(pos, i) /\ F = D \cup Places(pos, i + 1) /\ L = After(order, V, S, B)
           /\ s = G.indices[i + 1]
    OBVIOUS
  <2>2. j \in 1 .. w /\ j - 1 = i
    BY <1>1, <2>1
  <2>3. n = SettleRecord(x, plan, G, s)
    BY <1>2, <2>1, <2>2
  <2>4. Shows(x, L, g, m) /\ x.moved = Total(Part(V, B)) /\ x.cursor = at[i] /\ x.ok = r.ok
    BY <1>6, <2>1 DEF SettledTo
  <2>5. InTurn(order, B, q)
    BY <2>1, <2>2, TurnOfPlace
  <2>6. /\ s = order[q] /\ g = Gateway(k) /\ m = MintOf(k) /\ plan.table[G.source] = BucketOf(k)
        /\ Charged(plan, G, at[i], k, g, m) /\ at[j] = at[i] + Len(k.allocations)
        /\ q \in 1 .. Len(order) /\ k = Com(order, q)
    <3>1. PlaceIs(order, plan, G, pos, at, g, m, j, k)
      BY <2>1, <2>2, GroupIs
    <3> QED BY <2>1, <2>2, <3>1 DEF PlaceIs
  <2>7. RecordOf(k, g, m) /\ k = staging[Buffer].slots[s].com
    BY <2>6 DEF AllOfBatch, Com
  <2>8. /\ L \in MoneySet /\ GoodSplit(L, k) /\ MovedBy(L, k) = V[q]
        /\ Pay(L, k) = After(order, V, S, B \cup {q}) /\ Pay(L, k) \in MoneySet
    <3>1. TurnTaken(order, V, S, B, q)
      BY <1>3, <2>5, RecordTurn
    <3> QED BY <2>1, <3>1 DEF TurnTaken
  <2>9. RecordPaid(n, x, L, k, g, m)
    BY <1>3, <2>3, <2>4, <2>6, <2>7, <2>8, RecordPays
  <2>10. F = B \cup {q}
    <3>1. 1 .. i + 1 = 1 .. i \cup {i + 1}
      BY <2>2
    <3> QED BY <2>1, <3>1 DEF Places
  <2>11. Total(Part(V, B \cup {q})) = Total(Part(V, B)) + V[q]
    <3>1. q \notin B /\ q \in 1 .. Len(order)
      BY <2>5 DEF InTurn
    <3>2. PICK N : N = Len(order)
      OBVIOUS
    <3>3. N \in Nat /\ V \in [1 .. N -> 0 .. MaxU64] /\ q \in 1 .. N
      BY <1>4, <3>1, <3>2
    <3>4. PICK u : u = MaxU64
      BY Zenon
    <3>5. N \in Nat /\ u \in Nat /\ V \in [1 .. N -> 0 .. u] /\ q \in 1 .. N /\ q \notin B
      BY <1>4, <3>1, <3>3, <3>4
    <3> QED BY ONLY <3>5, PartStep, SMTT(30)
  <2>12. Shows(n, After(order, V, S, F), g, m) /\ n.moved = Total(Part(V, F))
    BY <2>4, <2>8, <2>9, <2>10, <2>11 DEF RecordPaid
  <2>13. n.cursor = at[j] /\ n.ok = r.ok
    BY <2>4, <2>6, <2>9 DEF RecordPaid
  <2>14. Good(n, j)
    BY <2>1, <2>12, <2>13 DEF SettledTo
  <2> QED BY <1>1, <2>1, <2>2, <2>14
<1> HIDE DEF A, Good
<1>7. 0 .. w \subseteq A
  BY <1>1, <1>5, <1>6, Induction
<1>8. w \in A
  BY <1>1, <1>7
<1> QED BY <1>2, <1>8 DEF A, Good, GroupPaid

\* The group may be settled: its balance exists and is the payee's, in the bucket's mint.
GroupGood(plan, G) ==
    /\ GroupAccepted(plan, G)
    /\ \E g, m : g \in Participants /\ m \in Mints /\ plan.table[G.primary] = BalanceOf(g, m)

\* A group of acceptable records passes the checks of the group.
LEMMA GroupIsAccepted ==
  ASSUME NEW order, Len(order) \in Nat, AllOfBatch(order), NEW plan, NEW G, NEW pos, NEW at,
         Traced(order, Len(order), plan.table, G, pos, at), Listed(order, plan.table, G, pos, at),
         Len(G.indices) >= 1, TypeOK
  PROVE  GroupGood(plan, G)
<1>1. PICK k : k = Com(order, pos[1])
  OBVIOUS
<1>2. 1 \in 1 .. Len(G.indices)
  BY DEF Traced, Groups
<1>3. /\ pos[1] \in 1 .. Len(order) /\ BucketOf(k) = plan.table[G.source]
      /\ Owed(k) = plan.table[G.primary]
  BY <1>1, <1>2 DEF Traced
<1>4. PICK g, m : g = Gateway(k) /\ m = MintOf(k)
  OBVIOUS
<1>5. RecordOf(k, g, m)
  BY <1>1, <1>3, <1>4 DEF AllOfBatch
<1>6. plan.table[G.primary] = BalanceOf(g, m)
  BY <1>3, <1>4 DEF Owed
<1>7. <<g, m>> \in opened /\ g \in Participants /\ m \in Mints
  <2>1. <<g, m>> \in opened
    BY <1>4, <1>5 DEF RecordOf, Ready, BalancesOpen, MintOf
  <2> QED BY <2>1 DEF TypeOK
<1>8. PICK source, primary, header :
         /\ source = plan.table[G.source] /\ primary = plan.table[G.primary]
         /\ header = bucket[source[2]]
  OBVIOUS
<1>9. source[2] = k.channel[1]
  BY <1>3, <1>8 DEF BucketOf
<1>10. header = HeaderOf(k.channel)
  BY <1>8, <1>9 DEF HeaderOf
<1>11. header.kind = BatchKind /\ header.payee = g /\ header.mint = m
       /\ (BatchKind = Routed => <<g, m>> = staging[Buffer].route)
  BY <1>4, <1>5, <1>10 DEF RecordOf, Gateway, MintOf
<1>12. GroupAccepted(plan, G)
  BY <1>6, <1>7, <1>8, <1>11 DEF GroupAccepted
<1> QED BY <1>6, <1>7, <1>12 DEF GroupGood

\* What the end of a group makes of a run.
EndedIn(n, e, plan, G, primary) ==
    /\ IsRun(n) /\ n.money = WrittenBack(e, primary) /\ n.moved = e.moved
    /\ (n.ok <=> e.ok /\ GroupAccepted(plan, G) /\ e.moved <= MaxU64)

\* A group begins by loading the copy and ends by writing it back.
LEMMA SettleGroupIs ==
  ASSUME NEW r, IsRun(r), NEW plan, NEW G, NEW primary, primary = plan.table[G.primary],
         NEW l, l = Loaded(r, primary), NEW e, e = RecordsSettled(l, plan, G), IsRun(e)
  PROVE  /\ IsRun(l) /\ l.money = r.money /\ l.moved = r.moved /\ l.ok = r.ok
         /\ l.copy = Stored(r.money, primary) /\ l.cursor = 0 /\ l.changed = FALSE
         /\ EndedIn(SettleGroup(r, plan, G), e, plan, G, primary)
<1>1. PICK c : c = Stored(r.money, primary)
  OBVIOUS
<1>2. l = [r EXCEPT !.copy = c, !.changed = FALSE, !.cursor = 0]
  BY <1>1 DEF Loaded
<1>3. /\ IsRun(l) /\ l.money = r.money /\ l.moved = r.moved /\ l.ok = r.ok
      /\ l.copy = c /\ l.cursor = 0 /\ l.changed = FALSE
  BY <1>2 DEF IsRun
<1>4. PICK n : n = SettleGroup(r, plan, G)
  OBVIOUS
<1>5. n = [e EXCEPT !.money = WrittenBack(e, primary),
                    !.ok = @ /\ GroupAccepted(plan, G) /\ e.moved <= MaxU64]
  BY ONLY <1>4, primary = plan.table[G.primary], l = Loaded(r, primary), e = RecordsSettled(l, plan, G), Zenon
     DEF SettleGroup
<1>6. PICK back, b : back = WrittenBack(e, primary) /\ b = GroupAccepted(plan, G)
  OBVIOUS
<1>7. n = [e EXCEPT !.money = back, !.ok = @ /\ b /\ e.moved <= MaxU64]
  BY <1>5, <1>6
<1>8. IsRun(n) /\ n.money = back /\ n.moved = e.moved /\ (n.ok <=> e.ok /\ b /\ e.moved <= MaxU64)
  BY <1>7 DEF IsRun
<1>9. EndedIn(n, e, plan, G, primary)
  BY <1>6, <1>8 DEF EndedIn
<1> QED BY <1>1, <1>3, <1>4, <1>9

\* Between groups: the money is that after the places D, nothing is in a copy.
RunAt(r, order, V, S, D) ==
    IsRun(r) /\ r.money = After(order, V, S, D) /\ r.moved = Total(Part(V, D))

\* A group pays its records, whatever groups came before it.
GroupDone(n, r, order, V, S, E) ==
    RunAt(n, order, V, S, E) /\ (n.ok <=> r.ok /\ Total(Part(V, E)) <= MaxU64)

\* Write-back included, a group leaves the money its records leave.
LEMMA GroupPays ==
  ASSUME MoneyInOrder, NEW order, Len(order) \in Nat, AllOfBatch(order),
         NEW M, PaidInTurn(M, Buffer, order), NEW V, NEW S, V = Moves(order, M), S = Paying(order, M),
         NEW plan, NEW G, NEW pos, NEW at,
         Traced(order, Len(order), plan.table, G, pos, at), Listed(order, plan.table, G, pos, at),
         Len(G.indices) >= 1, NEW D, Apart(order, D, plan.table, G),
         NEW E, E = D \cup Places(pos, Len(G.indices)),
         NEW r, RunAt(r, order, V, S, D)
  PROVE  GroupDone(SettleGroup(r, plan, G), r, order, V, S, E)
<1>1. TypeOK /\ RecordsReady(order)
  BY DEF RecordsReady, AllOfBatch, RecordOf, MoneyInOrder
<1>2. GroupGood(plan, G)
  BY <1>1, GroupIsAccepted
<1>3. GroupAccepted(plan, G)
  BY <1>2 DEF GroupGood
<1>4. PICK g, m : g \in Participants /\ m \in Mints /\ plan.table[G.primary] = BalanceOf(g, m)
  BY <1>2 DEF GroupGood
<1>5. PICK primary, l, e, n, L, F :
         /\ primary = plan.table[G.primary] /\ l = Loaded(r, primary)
         /\ e = RecordsSettled(l, plan, G) /\ n = SettleGroup(r, plan, G)
         /\ L = After(order, V, S, D) /\ F = After(order, V, S, E)
  OBVIOUS
<1>6. primary = BalanceOf(g, m)
  BY <1>4, <1>5
<1>7. D \subseteq 1 .. Len(order) /\ E \subseteq 1 .. Len(order)
  <2>1. D \subseteq 1 .. Len(order)
    BY DEF Apart
  <2>2. PICK w : w = Len(G.indices)
    OBVIOUS
  <2>3. \A i \in 1 .. w : pos[i] \in 1 .. Len(order)
    BY <2>2 DEF Traced
  <2> QED BY <2>1, <2>2, <2>3 DEF Places
<1>8. L \in MoneySet /\ F \in MoneySet
  BY <1>1, <1>5, <1>7, AfterTyped
<1>9. /\ IsRun(l) /\ l.money = r.money /\ l.moved = r.moved /\ l.ok = r.ok
      /\ l.copy = Stored(r.money, primary) /\ l.cursor = 0 /\ l.changed = FALSE
  <2>1. PICK c : c = Stored(r.money, primary)
    OBVIOUS
  <2>2. l = [r EXCEPT !.copy = c, !.changed = FALSE, !.cursor = 0]
    BY <1>5, <2>1 DEF Loaded
  <2> QED BY <2>1, <2>2 DEF IsRun, RunAt
<1>10. r.money = L /\ r.moved = Total(Part(V, D)) /\ IsRun(r)
  BY <1>5 DEF RunAt
<1>11. Shows(l, L, g, m)
  <2>1. Stored(L, primary) = L.available[m][g]
    BY <1>6 DEF Stored, BalanceOf
  <2>2. PICK v : v = L.available[m][g]
    OBVIOUS
  <2>3. Behind(L, g, m, v) = L
    BY <1>8, <2>2, NothingBehind
  <2> QED BY <1>9, <1>10, <2>1, <2>2, <2>3 DEF Shows
<1>12. SettledTo(l, order, V, S, D, g, m)
  BY <1>5, <1>9, <1>10, <1>11 DEF SettledTo
<1>13. SettledTo(e, order, V, S, E, g, m) /\ e.ok = l.ok
  <2>1. GroupPaid(e, l, order, V, S, E, g, m)
    BY <1>4, <1>5, <1>9, <1>12, RecordsPay
  <2> QED BY <2>1 DEF GroupPaid
<1>14. Shows(e, F, g, m) /\ e.moved = Total(Part(V, E))
  BY <1>5, <1>13 DEF SettledTo
<1>15. EndedIn(n, e, plan, G, primary)
  <2>1. IsRun(e)
    BY <1>14 DEF Shows
  <2> QED BY <1>5, <1>10, <2>1, SettleGroupIs
<1>16. WrittenBack(e, primary) = F
  <2>1. PICK v : e.money = Behind(F, g, m, v) /\ (~e.changed => v = F.available[m][g])
    BY <1>14 DEF Shows
  <2>2. e.copy = F.available[m][g] /\ e.changed \in BOOLEAN
    BY <1>14 DEF Shows, IsRun
  <2>3. PICK y : y = F.available[m][g]
    OBVIOUS
  <2>4. Store(Behind(F, g, m, v), primary, y) = F
    BY <1>4, <1>6, <1>8, <2>3, StoredBack
  <2>5. v = y => Behind(F, g, m, v) = F
    BY <1>8, <2>3, NothingBehind
  <2> QED BY <2>1, <2>2, <2>3, <2>4, <2>5 DEF WrittenBack
<1>17. RunAt(n, order, V, S, E)
  BY <1>5, <1>14, <1>15, <1>16 DEF RunAt, EndedIn
<1>18. n.ok <=> r.ok /\ Total(Part(V, E)) <= MaxU64
  BY <1>3, <1>9, <1>13, <1>14, <1>15 DEF EndedIn
<1> QED BY <1>5, <1>17, <1>18 DEF GroupDone

-----------------------------------------------------------------------------
(* The groups one after the other.                                         *)

\* The places of the buckets of the first h groups.
PlacesOf(order, plan, h) ==
    {q \in 1 .. Len(order) :
        \E i \in 1 .. h : BucketOf(Com(order, q)) = plan.table[plan.groups[i].source]}

\* A group takes up the places of its bucket, and no group did before.
PlacesFollow(order, plan, h, G, pos) ==
    /\ Apart(order, PlacesOf(order, plan, h - 1), plan.table, G)
    /\ PlacesOf(order, plan, h) = PlacesOf(order, plan, h - 1) \cup Places(pos, Len(G.indices))

\* The groups take up the places of the order one bucket after another.
LEMMA NextPlaces ==
  ASSUME NEW order, Len(order) \in Nat, NEW plan, PlanFits(plan, order, Len(order)),
         NEW h \in 1 .. Len(plan.groups), NEW G, G = plan.groups[h],
         NEW pos, NEW at, Traced(order, Len(order), plan.table, G, pos, at)
  PROVE  PlacesFollow(order, plan, h, G, pos)
<1>1. PICK n, w, D : n = Len(order) /\ w = Len(G.indices) /\ D = PlacesOf(order, plan, h - 1)
  OBVIOUS
<1>2. Len(plan.groups) \in Nat /\ h \in 1 .. Len(plan.groups)
  BY DEF PlanFits
<1>3. /\ \A j \in 1 .. w : pos[j] \in 1 .. n /\ BucketOf(Com(order, pos[j])) = plan.table[G.source]
      /\ \A q \in 1 .. n : BucketOf(Com(order, q)) = plan.table[G.source] => \E j \in 1 .. w : pos[j] = q
  BY <1>1 DEF Traced
<1>4. ASSUME NEW q \in D
      PROVE  q \in 1 .. n /\ BucketOf(Com(order, q)) # plan.table[G.source]
  <2>1. q \in 1 .. n
    BY <1>1 DEF PlacesOf
  <2>2. PICK i \in 1 .. h - 1 : BucketOf(Com(order, q)) = plan.table[plan.groups[i].source]
    BY <1>1 DEF PlacesOf
  <2>3. i \in 1 .. Len(plan.groups) /\ i # h
    BY <1>2
  <2>4. /\ plan.groups[i].source \in 1 .. Len(plan.table) /\ G.source \in 1 .. Len(plan.table)
    <3>1. \A j \in 1 .. Len(plan.groups) : plan.groups[j].source \in 1 .. Len(plan.table)
      BY DEF PlanFits, Traced
    <3> QED BY <2>3, <3>1
  <2>5. plan.groups[i].source # G.source
    BY <2>3 DEF PlanFits
  <2>6. plan.table[plan.groups[i].source] # plan.table[G.source]
    BY <2>4, <2>5 DEF PlanFits, Numbered
  <2> QED BY <2>1, <2>2, <2>6
<1>5. Apart(order, D, plan.table, G)
  BY <1>1, <1>4 DEF Apart
<1>6. ASSUME NEW q
      PROVE  q \in PlacesOf(order, plan, h) <=> q \in D \/ q \in Places(pos, w)
  <2>1. q \in Places(pos, w) <=> q \in 1 .. n /\ BucketOf(Com(order, q)) = plan.table[G.source]
    BY <1>3 DEF Places
  <2>2. \A i : i \in 1 .. h <=> i \in 1 .. h - 1 \/ i = h
    BY <1>2
  <2>3. q \in PlacesOf(order, plan, h)
          <=> q \in 1 .. n /\ \E i \in 1 .. h : BucketOf(Com(order, q)) = plan.table[plan.groups[i].source]
    BY <1>1 DEF PlacesOf
  <2>4. q \in D
          <=> q \in 1 .. n /\ \E i \in 1 .. h - 1 : BucketOf(Com(order, q)) = plan.table[plan.groups[i].source]
    BY <1>1 DEF PlacesOf
  <2> QED BY <2>1, <2>2, <2>3, <2>4
<1> QED BY <1>1, <1>5, <1>6 DEF PlacesFollow

\* The run of a plan that fits the order leaves the money of its records; no check fails if
\* the total of what moves is a u64.
RunPaid(n, order, V, S) ==
    /\ RunAt(n, order, V, S, 1 .. Len(order))
    /\ Total(Part(V, 1 .. Len(order))) <= MaxU64 => n.ok

\* The loop over the groups.
LEMMA RunPays ==
  ASSUME MoneyInOrder, NEW order, Len(order) \in Nat, AllOfBatch(order),
         NEW M, PaidInTurn(M, Buffer, order), NEW V, NEW S, V = Moves(order, M), S = Paying(order, M),
         NEW plan, PlanFits(plan, order, Len(order))
  PROVE  RunPaid(RunOf(plan), order, V, S)
<1>0. PICK p, N : p = RunOf(plan) /\ N = Len(order)
  OBVIOUS
<1>1. Len(plan.groups) \in Nat
  BY DEF PlanFits
<1>2. PICK f : /\ f[0] = Before
               /\ \A i \in 1 .. Len(plan.groups) : f[i] = SettleGroup(f[i - 1], plan, plan.groups[i])
               /\ p = f[Len(plan.groups)]
  BY <1>0, <1>1, GroupsUnfold
<1>3. RecordsReady(order)
  BY DEF RecordsReady, AllOfBatch, RecordOf
<1>4. V \in [1 .. N -> 0 .. MaxU64] /\ MaxU64 \in Nat /\ N \in Nat /\ Tabled(order, V, S)
  BY <1>0, <1>3, TablesFit, NumbersAreU64 DEF Tabled, U64
<1>5. ASSUME NEW D, D \subseteq 1 .. N
      PROVE  /\ Total(Part(V, D)) \in Nat /\ Total(Part(V, 1 .. N)) \in Nat
             /\ Total(Part(V, D)) <= Total(Part(V, 1 .. N))
  <2>1. PICK E : E = 1 .. N
    BY Zenon
  <2>2. D \subseteq E
    BY <1>5, <2>1
  <2>3. Total(Part(V, D)) \in Nat /\ Total(Part(V, E)) \in Nat
    BY <1>4, PartTypes
  <2>4. Total(Part(V, D)) <= Total(Part(V, E))
    BY <1>4, <2>2, PartGrows
  <2> QED BY <2>1, <2>3, <2>4
<1> DEFINE w == Len(plan.groups)
           Good(n, h) == /\ RunAt(n, order, V, S, PlacesOf(order, plan, h))
                         /\ Total(Part(V, 1 .. N)) <= MaxU64 => n.ok
           A == {h \in 0 .. w : Good(f[h], h)}
<1>6. 0 \in A
  <2>1. PlacesOf(order, plan, 0) = {}
    BY DEF PlacesOf
  <2>2. PICK b : b = Before
    OBVIOUS
  <2>3. IsRun(b) /\ b.money = Money /\ b.moved = 0 /\ b.ok
    BY <2>2 DEF IsRun, Before
  <2>4. After(order, V, S, {}) = Money
    BY <1>4, AfterNothing
  <2>5. Total(Part(V, {})) = 0
    BY <1>4, PartOfNothing
  <2>6. Good(b, 0)
    BY <2>1, <2>3, <2>4, <2>5 DEF RunAt
  <2> QED BY <1>1, <1>2, <2>2, <2>6
<1>7. ASSUME NEW i \in 0 .. w - 1, i \in A
      PROVE  i + 1 \in A
  <2>1. PICK x, n, h, G, D, E :
           /\ x = f[i] /\ n = f[i + 1] /\ h = i + 1 /\ G = plan.groups[i + 1]
           /\ D = PlacesOf(order, plan, i) /\ E = PlacesOf(order, plan, i + 1)
    OBVIOUS
  <2>2. h \in 1 .. w /\ h - 1 = i
    BY <1>1, <2>1
  <2>3. n = SettleGroup(x, plan, G)
    BY <1>2, <2>1, <2>2
  <2>4. RunAt(x, order, V, S, D) /\ (Total(Part(V, 1 .. N)) <= MaxU64 => x.ok)
    BY <1>7, <2>1
  <2>5. PICK pos, at : /\ Traced(order, Len(order), plan.table, G, pos, at)
                       /\ Listed(order, plan.table, G, pos, at)
    BY <2>1, <2>2 DEF PlanFits
  <2>6. Len(G.indices) >= 1
    BY <2>1, <2>2 DEF PlanFits
  <2>7. /\ Apart(order, D, plan.table, G)
        /\ E = D \cup Places(pos, Len(G.indices))
    <3>1. PlacesFollow(order, plan, h, G, pos)
      BY <2>1, <2>2, <2>5, NextPlaces
    <3> QED BY <2>1, <2>2, <3>1 DEF PlacesFollow
  <2>8. /\ RunAt(n, order, V, S, E)
        /\ n.ok <=> x.ok /\ Total(Part(V, E)) <= MaxU64
    <3>1. GroupDone(n, x, order, V, S, E)
      BY <2>3, <2>4, <2>5, <2>6, <2>7, GroupPays
    <3> QED BY <3>1 DEF GroupDone
  <2>9. E \subseteq 1 .. N
    BY <1>0, <2>1 DEF PlacesOf
  <2>10. Total(Part(V, 1 .. N)) <= MaxU64 => n.ok
    <3>1. PICK t, e : t = Total(Part(V, 1 .. N)) /\ e = Total(Part(V, E))
      OBVIOUS
    <3>2. t \in Nat /\ e \in Nat /\ e <= t
      BY <1>5, <2>9, <3>1
    <3>3. t <= MaxU64 => e <= MaxU64
      BY <1>4, <3>2
    <3> QED BY <2>4, <2>8, <3>1, <3>3
  <2>11. Good(n, h)
    BY <2>1, <2>8, <2>10
  <2> QED BY <1>1, <2>1, <2>2, <2>11
<1> HIDE DEF A, Good
<1>8. 0 .. w \subseteq A
  BY <1>1, <1>6, <1>7, Induction
<1>9. w \in A
  BY <1>1, <1>8
<1>10. PlacesOf(order, plan, w) = 1 .. N
  BY <1>0 DEF PlacesOf, PlanFits
<1> QED BY <1>0, <1>2, <1>9, <1>10 DEF A, Good, RunPaid

-----------------------------------------------------------------------------
(* What an instruction that is not refused has found.                      *)

\* The records of a group, as their accounts were found.
GroupFound(plan, G) ==
    /\ GroupAccepted(plan, G)
    /\ \A j \in 1 .. Len(G.indices) : ProvidersOpen(staging[Buffer].slots[G.indices[j]].com)

\* A group that ends accepted was accepted throughout.
LEMMA GroupSticks ==
  ASSUME NEW r, IsRun(r), NEW plan, NEW G, Len(G.indices) \in Nat,
         \A j \in 1 .. Len(G.indices) : Len(staging[Buffer].slots[G.indices[j]].com.allocations) \in Nat,
         NEW n, n = SettleGroup(r, plan, G)
  PROVE  IsRun(n) /\ (n.ok => r.ok /\ GroupFound(plan, G))
<1>1. PICK primary, c, l, e :
         /\ primary = plan.table[G.primary] /\ l = Loaded(r, primary)
         /\ c = Stored(r.money, primary) /\ e = RecordsSettled(l, plan, G)
  OBVIOUS
<1>2. l = [r EXCEPT !.copy = c, !.changed = FALSE, !.cursor = 0]
  BY <1>1 DEF Loaded
<1>3. IsRun(l) /\ l.ok = r.ok
  BY <1>2 DEF IsRun
<1>4. /\ IsRun(e)
      /\ e.ok => /\ l.ok
                 /\ \A j \in 1 .. Len(G.indices) :
                      ProvidersOpen(staging[Buffer].slots[G.indices[j]].com)
  BY <1>1, <1>3, RecordsStick
<1>5. EndedIn(n, e, plan, G, primary)
  BY <1>1, <1>4, SettleGroupIs
<1>6. IsRun(n) /\ (n.ok => e.ok /\ GroupAccepted(plan, G))
  BY <1>5 DEF EndedIn
<1> QED BY <1>3, <1>4, <1>6 DEF GroupFound

\* A run that was not refused has found the accounts of every group.
LEMMA RunSticks ==
  ASSUME NEW plan, Len(plan.groups) \in Nat,
         \A h \in 1 .. Len(plan.groups) :
            /\ Len(plan.groups[h].indices) \in Nat
            /\ \A j \in 1 .. Len(plan.groups[h].indices) :
                 Len(staging[Buffer].slots[plan.groups[h].indices[j]].com.allocations) \in Nat,
         RunOf(plan).ok
  PROVE  \A h \in 1 .. Len(plan.groups) : GroupFound(plan, plan.groups[h])
<1>1. PICK p, w : p = RunOf(plan) /\ w = Len(plan.groups)
  BY Zenon
<1>2. w \in Nat
  BY ONLY <1>1, Len(plan.groups) \in Nat
<1>3. PICK f : /\ f[0] = Before
               /\ \A i \in 1 .. w : f[i] = SettleGroup(f[i - 1], plan, plan.groups[i])
               /\ p = f[w]
  BY <1>1, GroupsUnfold
<1> DEFINE Good(n, h) == IsRun(n) /\ (n.ok => \A i \in 1 .. h : GroupFound(plan, plan.groups[i]))
           A == {h \in 0 .. w : Good(f[h], h)}
<1>4. 0 \in A
  <2>1. PICK b : b = Before
    BY Zenon
  <2>2. IsRun(b)
    BY ONLY <2>1 DEF IsRun, Before
  <2>3. Good(b, 0)
    BY ONLY <2>2
  <2>4. f[0] = b
    BY ONLY <1>3, <2>1
  <2> HIDE DEF Good
  <2> QED BY ONLY <1>2, <2>3, <2>4
<1>5. ASSUME NEW i \in 0 .. w - 1, i \in A
      PROVE  i + 1 \in A
  <2>1. PICK x, n, h, G : x = f[i] /\ n = f[i + 1] /\ h = i + 1 /\ G = plan.groups[i + 1]
    BY Zenon
  <2>2. h \in 1 .. w /\ h \in 0 .. w /\ h - 1 = i
    BY ONLY <1>2, <2>1
  <2>3. n = SettleGroup(x, plan, G)
    BY ONLY <1>3, <2>1, <2>2
  <2>4. IsRun(x) /\ (x.ok => \A j \in 1 .. i : GroupFound(plan, plan.groups[j]))
    BY ONLY <1>5, <2>1
  <2>5. /\ Len(G.indices) \in Nat
        /\ \A j \in 1 .. Len(G.indices) : Len(staging[Buffer].slots[G.indices[j]].com.allocations) \in Nat
    <3>1. h \in 1 .. Len(plan.groups) /\ G = plan.groups[h]
      BY ONLY <1>1, <2>1, <2>2
    <3> QED BY <3>1
  <2>6. IsRun(n) /\ (n.ok => x.ok /\ GroupFound(plan, G))
    BY ONLY <2>3, <2>4, <2>5, GroupSticks
  <2>7. \A j \in 1 .. h : j \in 1 .. i \/ j = h
    BY ONLY <1>2, <2>1, <2>2
  <2>8. Good(n, h)
    <3>1. ASSUME n.ok, NEW j \in 1 .. h
          PROVE  GroupFound(plan, plan.groups[j])
      <4>1. CASE j = h
        BY ONLY <2>1, <2>6, <3>1, <4>1
      <4>2. CASE j \in 1 .. i
        BY ONLY <2>4, <2>6, <3>1, <4>2
      <4> QED BY ONLY <2>7, <4>1, <4>2
    <3> QED BY ONLY <2>6, <3>1
  <2> HIDE DEF Good
  <2> QED BY ONLY <2>1, <2>2, <2>8
<1> HIDE DEF A, Good
<1>6. 0 .. w \subseteq A
  BY ONLY <1>2, <1>4, <1>5, Induction
<1>7. w \in A
  BY ONLY <1>2, <1>6
<1>8. Good(p, w)
  BY ONLY <1>3, <1>7 DEF A
<1> QED BY <1>1, <1>8 DEF Good

\* Every record of such an instruction has its balances.
LEMMA RunFinds ==
  ASSUME NEW order, OrderIs(order), NEW plan, PlanFits(plan, order, Len(order)), RunOf(plan).ok,
         NEW q \in 1 .. Len(order)
  PROVE  /\ ProvidersOpen(Com(order, q))
         /\ <<Gateway(Com(order, q)), MintOf(Com(order, q))>> \in opened
<1>1. Len(plan.groups) \in Nat
  BY DEF PlanFits
<1>2. ASSUME NEW h \in 1 .. Len(plan.groups)
      PROVE  /\ Len(plan.groups[h].indices) \in Nat
             /\ \A j \in 1 .. Len(plan.groups[h].indices) :
                  Len(staging[Buffer].slots[plan.groups[h].indices[j]].com.allocations) \in Nat
  <2>1. PICK G : G = plan.groups[h]
    OBVIOUS
  <2>2. PICK pos, at : Traced(order, Len(order), plan.table, G, pos, at)
    BY <2>1 DEF PlanFits
  <2>3. Len(G.indices) \in Nat
    BY <2>2 DEF Traced, Groups
  <2>4. ASSUME NEW j \in 1 .. Len(G.indices)
        PROVE  Len(staging[Buffer].slots[G.indices[j]].com.allocations) \in Nat
    <3>1. pos[j] \in 1 .. Len(order) /\ G.indices[j] = order[pos[j]]
      BY <2>2 DEF Traced
    <3>2. PICK k : k = Com(order, pos[j])
      OBVIOUS
    <3>3. k \in Commitments /\ HeaderOf(k.channel) \in Header
      BY <3>1, <3>2 DEF OrderIs
    <3>4. Len(k.allocations) \in Nat
      BY <3>3, AccountsForIs
    <3> QED BY <3>1, <3>2, <3>4 DEF Com
  <2> QED BY <2>1, <2>3, <2>4
<1>3. \A h \in 1 .. Len(plan.groups) : GroupFound(plan, plan.groups[h])
  BY <1>1, <1>2, RunSticks
<1>4. PICK k : k = Com(order, q)
  OBVIOUS
<1>5. PICK h \in 1 .. Len(plan.groups) : plan.table[plan.groups[h].source] = BucketOf(k)
  BY <1>4 DEF PlanFits
<1>6. PICK G : G = plan.groups[h]
  OBVIOUS
<1>7. PICK pos, at : Traced(order, Len(order), plan.table, G, pos, at)
  BY <1>6 DEF PlanFits
<1>8. PICK j \in 1 .. Len(G.indices) : pos[j] = q
  BY <1>4, <1>5, <1>6, <1>7 DEF Traced
<1>9. G.indices[j] = order[q]
  BY <1>7, <1>8 DEF Traced
<1>10. GroupFound(plan, G)
  BY <1>3, <1>6
<1>11. ProvidersOpen(k)
  BY <1>4, <1>9, <1>10 DEF GroupFound, Com
<1>12. PICK source : source = plan.table[G.source]
  OBVIOUS
<1>13. <<bucket[source[2]].payee, bucket[source[2]].mint>> \in opened
  BY <1>10, <1>12 DEF GroupFound, GroupAccepted
<1>14. source[2] = k.channel[1]
  BY <1>5, <1>6, <1>12 DEF BucketOf
<1> QED BY <1>4, <1>11, <1>13, <1>14 DEF Gateway, MintOf, HeaderOf

-----------------------------------------------------------------------------
(* The instruction.                                                        *)

\* An order of the batch's records.
LEMMA OrderFits ==
  ASSUME BatchInv, NEW order \in Orders
  PROVE  OrderIs(order) /\ Len(order) >= 1
<1>1. PICK n \in 1 .. BatchSize : order \in [1 .. n -> Indices]
  BY DEF Orders
<1>2. Len(order) = n /\ n \in Nat /\ n >= 1 /\ DOMAIN order = 1 .. n
  BY <1>1, BatchesNotEmpty
<1>3. ASSUME NEW i \in Indices, NEW k, k = staging[Buffer].slots[i].com
      PROVE  k \in Commitments /\ HeaderOf(k.channel) \in Header
  <2>1. Account(staging[Buffer]) /\ staging[Buffer].slots[i] # Blank
    BY DEF BatchInv, BatchThere
  <2>2. k \in Commitments
    BY <1>3, <2>1, BufferThere DEF BatchInv, ClearingInv, VInv, SignedInBuffer
  <2>3. RecordFits(staging[Buffer], k)
    BY <1>3, <2>1, BufferThere DEF BatchInv, ClearingInv, StagedRecords
  <2>4. k.channel[1] \in Buckets
    BY <2>2, CommitmentFacts DEF Channels
  <2>5. HeaderOf(k.channel) \in Header \cup {Unopened} /\ HeaderOf(k.channel) # Unopened
    BY <2>3, <2>4 DEF HeaderOf, BatchInv, ClearingInv, MoneyInOrder, TypeOK, RecordFits
  <2> QED BY <2>2, <2>5
<1>4. \A q \in 1 .. Len(order) :
         /\ order[q] \in Indices /\ Com(order, q) \in Commitments
         /\ HeaderOf(Com(order, q).channel) \in Header
  BY <1>1, <1>2, <1>3 DEF Com
<1> QED BY <1>2, <1>4 DEF OrderIs

\* Verified records whose balances exist are settled as the batch's.
LEMMA BatchIsReady ==
  ASSUME BatchInv, NEW order, OrderIs(order),
         \A q \in 1 .. Len(order) : order[q] \in result[Buffer].bitmap /\ BalancesOpen(Com(order, q))
  PROVE  AllOfBatch(order)
<1> SUFFICES ASSUME NEW q \in 1 .. Len(order)
             PROVE  RecordOf(Com(order, q), Gateway(Com(order, q)), MintOf(Com(order, q)))
  BY DEF AllOfBatch
<1>1. PICK k, i : k = Com(order, q) /\ i = order[q]
  OBVIOUS
<1>2. k = staging[Buffer].slots[i].com /\ i \in result[Buffer].bitmap /\ BalancesOpen(k) /\ i \in Indices
  BY <1>1 DEF Com, OrderIs
<1>3. Account(result[Buffer]) /\ ClearingInv
  BY DEF BatchInv, BatchThere
<1>4. RecordFits(staging[Buffer], k) /\ Ready(k)
  BY <1>2, <1>3, BufferThere, VerifiedIsReady
<1>5. HeaderOf(k.channel).kind = BatchKind
  BY <1>4 DEF RecordFits, BatchKind
<1>6. BatchKind = Direct => k.allocations = <<>>
  BY <1>2 DEF BatchKind, BatchInv, BatchThere
<1>7. BatchKind = Routed => staging[Buffer].route = <<Gateway(k), MintOf(k)>>
  BY <1>4 DEF RecordFits, RouteOf, BatchKind, MintOf
<1> QED BY <1>1, <1>4, <1>5, <1>6, <1>7 DEF RecordOf

\* The program's view of the plan is the client's order: every record once.
RecordsOnce(order) ==
    /\ \A q \in 1 .. Len(order) : Settleable(result[Buffer], order[q])
    /\ \A p, q \in 1 .. Len(order) : p # q => order[p] # order[q]

\* Groups without a double.
GroupsOnce(groups) ==
    \A g \in DOMAIN groups : \A a \in DOMAIN groups[g].indices :
       /\ Settleable(result[Buffer], groups[g].indices[a])
       /\ \A h \in DOMAIN groups : \A b \in DOMAIN groups[h].indices :
            groups[g].indices[a] = groups[h].indices[b] => g = h /\ a = b

\* An order that names no record twice makes groups that name none twice.
LEMMA OnceInGroups ==
  ASSUME NEW order, OrderIs(order), NEW plan, PlanFits(plan, order, Len(order)), RecordsOnce(order)
  PROVE  GroupsOnce(plan.groups)
<1>1. /\ DOMAIN plan.groups = 1 .. Len(plan.groups)
      /\ \A g \in 1 .. Len(plan.groups) :
           DOMAIN plan.groups[g].indices = 1 .. Len(plan.groups[g].indices)
  BY SMTT(30) DEF PlanFits, Groups
<1>2. ASSUME NEW g \in 1 .. Len(plan.groups), NEW a \in 1 .. Len(plan.groups[g].indices)
      PROVE  /\ Settleable(result[Buffer], plan.groups[g].indices[a])
             /\ \A h \in 1 .. Len(plan.groups) : \A b \in 1 .. Len(plan.groups[h].indices) :
                  plan.groups[g].indices[a] = plan.groups[h].indices[b] => g = h /\ a = b
  <2>1. PICK G : G = plan.groups[g]
    OBVIOUS
  <2>2. PICK pos, at : Traced(order, Len(order), plan.table, G, pos, at)
    BY <2>1 DEF PlanFits
  <2>3. /\ a \in 1 .. Len(G.indices) /\ Len(G.indices) \in Nat
        /\ \A j \in 1 .. Len(G.indices) :
             /\ pos[j] \in 1 .. Len(order) /\ G.indices[j] = order[pos[j]]
             /\ BucketOf(Com(order, pos[j])) = plan.table[G.source]
        /\ \A i, j \in 1 .. Len(G.indices) : i < j => pos[i] < pos[j]
        /\ G.source \in 1 .. Len(plan.table)
    <3>1. G \in Groups
      BY <2>2 DEF Traced
    <3>2. Len(G.indices) \in Nat
      BY <3>1 DEF Groups
    <3> QED BY <2>1, <2>2, <3>2 DEF Traced
  <2>4. Settleable(result[Buffer], G.indices[a])
    BY <2>3 DEF RecordsOnce
  <2>5. ASSUME NEW h \in 1 .. Len(plan.groups), NEW b \in 1 .. Len(plan.groups[h].indices),
               G.indices[a] = plan.groups[h].indices[b]
        PROVE  g = h /\ a = b
    <3>1. PICK H : H = plan.groups[h]
      OBVIOUS
    <3>2. PICK opos, oat : Traced(order, Len(order), plan.table, H, opos, oat)
      BY <3>1 DEF PlanFits
    <3>3. /\ opos[b] \in 1 .. Len(order) /\ H.indices[b] = order[opos[b]]
          /\ BucketOf(Com(order, opos[b])) = plan.table[H.source]
          /\ H.source \in 1 .. Len(plan.table)
      BY <3>1, <3>2 DEF Traced
    <3>4. opos[b] = pos[a]
      <4>1. PICK x, y : x = pos[a] /\ y = opos[b]
        OBVIOUS
      <4>2. x \in 1 .. Len(order) /\ G.indices[a] = order[x]
        BY <2>3, <4>1
      <4>3. y \in 1 .. Len(order) /\ H.indices[b] = order[y]
        BY <3>3, <4>1
      <4>4. order[x] = order[y]
        BY <2>5, <3>1, <4>2, <4>3
      <4> QED BY <4>1, <4>2, <4>3, <4>4 DEF RecordsOnce
    <3>5. plan.table[H.source] = plan.table[G.source]
      BY <2>3, <3>3, <3>4
    <3>6. H.source = G.source
      BY <2>3, <3>3, <3>5 DEF PlanFits, Numbered
    <3>7. g = h
      BY <2>1, <3>1, <3>6 DEF PlanFits
    <3>8. b \in 1 .. Len(G.indices) /\ G.indices[b] = G.indices[a]
      BY <2>1, <2>5, <3>7
    <3>9. pos[a] = pos[b]
      <4>1. PICK x, y : x = pos[a] /\ y = pos[b]
        OBVIOUS
      <4>2. x \in 1 .. Len(order) /\ y \in 1 .. Len(order) /\ order[x] = order[y]
        BY <2>3, <3>8, <4>1
      <4> QED BY <4>1, <4>2 DEF RecordsOnce
    <3>10. ~(a < b) /\ ~(b < a)
      <4>1. a < b => pos[a] < pos[b]
        BY <2>3, <3>8
      <4>2. b < a => pos[b] < pos[a]
        BY <2>3, <3>8
      <4>3. pos[a] \in Int /\ pos[b] \in Int
        BY <2>3, <3>8, SMTT(30) DEF OrderIs
      <4> QED BY <3>9, <4>1, <4>2, <4>3
    <3> QED BY <2>3, <3>7, <3>8, <3>10
  <2>6. \A h \in 1 .. Len(plan.groups) : \A b \in 1 .. Len(plan.groups[h].indices) :
           G.indices[a] = plan.groups[h].indices[b] => g = h /\ a = b
    BY <2>5
  <2> QED BY <2>1, <2>4, <2>6
<1> SUFFICES ASSUME NEW g \in DOMAIN plan.groups, NEW a \in DOMAIN plan.groups[g].indices
             PROVE  /\ Settleable(result[Buffer], plan.groups[g].indices[a])
                    /\ \A h \in DOMAIN plan.groups : \A b \in DOMAIN plan.groups[h].indices :
                         plan.groups[g].indices[a] = plan.groups[h].indices[b] => g = h /\ a = b
  BY DEF GroupsOnce
<1>3. g \in 1 .. Len(plan.groups) /\ a \in 1 .. Len(plan.groups[g].indices)
  BY <1>1
<1>4. Settleable(result[Buffer], plan.groups[g].indices[a])
  BY <1>2, <1>3
<1>5. ASSUME NEW h \in DOMAIN plan.groups, NEW b \in DOMAIN plan.groups[h].indices,
             plan.groups[g].indices[a] = plan.groups[h].indices[b]
      PROVE  g = h /\ a = b
  <2>1. h \in 1 .. Len(plan.groups) /\ b \in 1 .. Len(plan.groups[h].indices)
    BY <1>1
  <2> QED BY <1>2, <1>3, <1>5, <2>1
<1> QED BY <1>4, <1>5

\* And the other way round: the check over the groups is a check over the order.
LEMMA OnceInOrder ==
  ASSUME NEW order, OrderIs(order), NEW plan, PlanFits(plan, order, Len(order)),
         GroupsOnce(plan.groups)
  PROVE  RecordsOnce(order)
<1>1. /\ DOMAIN plan.groups = 1 .. Len(plan.groups)
      /\ \A g \in 1 .. Len(plan.groups) :
           DOMAIN plan.groups[g].indices = 1 .. Len(plan.groups[g].indices)
  BY SMTT(30) DEF PlanFits, Groups
<1>2. ASSUME NEW p \in 1 .. Len(order)
      PROVE  /\ Settleable(result[Buffer], order[p])
             /\ \A q \in 1 .. Len(order) : order[p] = order[q] => p = q
  <2>1. PICK g \in 1 .. Len(plan.groups) : plan.table[plan.groups[g].source] = BucketOf(Com(order, p))
    BY DEF PlanFits
  <2>2. PICK G : G = plan.groups[g]
    OBVIOUS
  <2>3. PICK pos, at : Traced(order, Len(order), plan.table, G, pos, at)
    BY <2>2 DEF PlanFits
  <2>4. /\ \A j \in 1 .. Len(G.indices) : G.indices[j] = order[pos[j]]
        /\ \A q \in 1 .. Len(order) :
             BucketOf(Com(order, q)) = plan.table[G.source] => \E j \in 1 .. Len(G.indices) : pos[j] = q
    BY <2>3 DEF Traced
  <2>5. PICK a \in 1 .. Len(G.indices) : pos[a] = p
    BY <2>1, <2>2, <2>4
  <2>6. G.indices[a] = order[p]
    BY <2>4, <2>5
  <2>7. /\ g \in DOMAIN plan.groups /\ a \in DOMAIN plan.groups[g].indices
    BY <1>1, <2>2
  <2>8. Settleable(result[Buffer], order[p])
    BY <2>2, <2>6, <2>7 DEF GroupsOnce
  <2>9. ASSUME NEW q \in 1 .. Len(order), order[p] = order[q]
        PROVE  p = q
    <3>1. Com(order, q) = Com(order, p)
      BY <2>9 DEF Com
    <3>2. PICK b \in 1 .. Len(G.indices) : pos[b] = q
      BY <2>1, <2>2, <2>4, <3>1
    <3>3. G.indices[b] = G.indices[a] /\ b \in DOMAIN plan.groups[g].indices
      BY <1>1, <2>2, <2>4, <2>6, <2>9, <3>2
    <3>4. a = b
      BY <2>2, <2>7, <3>3 DEF GroupsOnce
    <3> QED BY <2>5, <3>2, <3>4
  <2> QED BY <2>8, <2>9
<1> QED BY <1>2 DEF RecordsOnce

\* The money in between, and the run of the client's plan, when the records are ready.
LEMMA PlanRuns ==
  ASSUME BatchInv, NEW order \in Orders, AllOfBatch(order), NEW M, M = MoneyAfter(Buffer, order)
  PROVE  /\ PaidInTurn(M, Buffer, order)
         /\ RunPaid(RunOf(PlanOf(order)), order, Moves(order, M), Paying(order, M))
<1>1. OrderIs(order) /\ Len(order) \in Nat
  BY OrderFits DEF OrderIs
<1>2. MoneyInOrder
  BY DEF BatchInv, ClearingInv
<1>3. \A a \in 1 .. Len(order) : Ready(staging[Buffer].slots[order[a]].com)
  BY DEF AllOfBatch, RecordOf, Com
<1>4. PaidInTurn(M, Buffer, order)
  BY <1>1, <1>2, <1>3, MoneyAfterIs
<1>5. PICK plan : plan = PlanOf(order)
  OBVIOUS
<1>6. PlanFits(plan, order, Len(order))
  BY <1>1, <1>5, PlanOfFits
<1>7. RunPaid(RunOf(plan), order, Moves(order, M), Paying(order, M))
  BY <1>1, <1>2, <1>4, <1>6, RunPays
<1> QED BY <1>4, <1>5, <1>7

\* Records that are accepted one by one are accepted as the client plans them.
LEMMA AcceptedRuns ==
  ASSUME BatchInv, NEW order \in Orders, SettlementAccepted(Buffer, order), TotalFits(order)
  PROVE  PlanAccepted(PlanOf(order)) /\ RunOf(PlanOf(order)).ok
<1>1. OrderIs(order) /\ Len(order) >= 1 /\ Len(order) \in Nat
  BY OrderFits DEF OrderIs
<1>2. /\ Account(staging[Buffer]) /\ result[Buffer].verified
      /\ staging[Buffer].sealed /\ staging[Buffer].kind = result[Buffer].kind
      /\ RecordsOnce(order)
      /\ \A q \in 1 .. Len(order) : BalancesOpen(Com(order, q))
  BY DEF SettlementAccepted, RecordsOnce, AccountsAccepted, Com
<1>3. \A q \in 1 .. Len(order) : order[q] \in result[Buffer].bitmap
  BY <1>2 DEF RecordsOnce, Settleable
<1>4. AllOfBatch(order)
  BY <1>1, <1>2, <1>3, BatchIsReady
<1>5. PICK plan, M, V, S : /\ plan = PlanOf(order) /\ M = MoneyAfter(Buffer, order)
                           /\ V = Moves(order, M) /\ S = Paying(order, M)
  OBVIOUS
<1>6. RunPaid(RunOf(plan), order, V, S)
  BY <1>4, <1>5, PlanRuns
<1>7. PlanFits(plan, order, Len(order))
  BY <1>1, <1>5, PlanOfFits
<1>8. Total(V) <= MaxU64
  BY <1>5 DEF TotalFits, Moves, Com
<1>9. Part(V, 1 .. Len(order)) = V
  BY <1>5 DEF Part, Moves
<1>10. RunOf(plan).ok
  BY <1>6, <1>8, <1>9 DEF RunPaid
<1>11. GroupsOnce(plan.groups)
  BY <1>1, <1>2, <1>7, OnceInGroups
<1>12. plan.groups # <<>>
  <2>1. 1 \in 1 .. Len(order)
    BY <1>1
  <2>2. PICK g : g \in 1 .. Len(plan.groups)
    BY <1>7, <2>1 DEF PlanFits
  <2> QED BY <2>2
<1>13. PlanAccepted(plan)
  BY <1>2, <1>11, <1>12 DEF PlanAccepted, GroupsOnce
<1> QED BY <1>5, <1>10, <1>13

\* What an instruction has found of a record: its buckets and balances are accepted.
LEMMA FoundIsAccepted ==
  ASSUME BatchInv, NEW k, NEW i \in Indices, k = staging[Buffer].slots[i].com, k \in Commitments,
         ProvidersOpen(k), <<Gateway(k), MintOf(k)>> \in opened
  PROVE  AccountsAccepted(Buffer, k)
<1>1. /\ Account(staging[Buffer]) /\ staging[Buffer].slots[i] # Blank
      /\ staging[Buffer].kind = Direct => k.allocations = <<>>
  BY DEF BatchInv, BatchThere
<1>2. RecordFits(staging[Buffer], k)
  BY <1>1, BufferThere DEF BatchInv, ClearingInv, StagedRecords
<1>3. staging[Buffer].kind \in {Direct, Routed}
  <2>1. IsBuffer(staging[Buffer])
    BY BufferThere DEF BatchInv, ClearingInv, VInv, Types
  <2> QED BY <1>1, <2>1, ClosedFacts DEF IsBuffer, BufferWith, Kinds
<1>4. DOMAIN k.allocations = 1 .. Len(k.allocations)
  BY CommitmentFacts
<1>5. \A a \in DOMAIN k.allocations : <<k.allocations[a].id, MintOf(k)>> \in opened
  <2>1. CASE staging[Buffer].kind = Direct
    BY <1>1, <2>1
  <2>2. CASE staging[Buffer].kind = Routed
    <3>1. staging[Buffer].route[2] = MintOf(k)
      BY <1>2, <2>2, SMTT(30) DEF RecordFits, RouteOf, MintOf
    <3> QED BY <1>4, <3>1 DEF ProvidersOpen
  <2> QED BY <1>3, <2>1, <2>2
<1>6. BalancesOpen(k)
  BY <1>5, ZenonT(30) DEF BalancesOpen, Named, MintOf
<1> QED BY <1>2, <1>6 DEF RecordFits, AccountsAccepted

\* What an instruction pays is what its records pay one by one.
LEMMA InstructionSettles ==
  ASSUME BatchInv, NEW order \in Orders, SettleInstruction(order)
  PROVE  SettleGroups(Buffer, order)
<1>1. OrderIs(order) /\ Len(order) >= 1 /\ Len(order) \in Nat
  BY OrderFits DEF OrderIs
<1>2. PICK plan, run, M, V, S :
         /\ plan = PlanOf(order) /\ run = RunOf(plan) /\ M = MoneyAfter(Buffer, order)
         /\ V = Moves(order, M) /\ S = Paying(order, M)
  OBVIOUS
<1>3. /\ PlanAccepted(plan) /\ run.ok
      /\ locked' = run.money.locked /\ settled' = run.money.settled
      /\ available' = run.money.available /\ paidFrom' = run.money.paidFrom
      /\ result' = [result EXCEPT ![Buffer].applied = @ \cup {order[n] : n \in DOMAIN order}]
      /\ UNCHANGED <<now, tokenVars, vault, opened, identity, pending,
                     signatures, staging, arciumVars>>
  BY <1>2 DEF SettleInstruction
<1>4. PlanFits(plan, order, Len(order))
  BY <1>1, <1>2, PlanOfFits
<1>5. /\ Account(staging[Buffer]) /\ result[Buffer].verified
      /\ staging[Buffer].sealed /\ staging[Buffer].kind = result[Buffer].kind
      /\ GroupsOnce(plan.groups)
  BY <1>3 DEF PlanAccepted, GroupsOnce
<1>6. RecordsOnce(order)
  BY <1>1, <1>4, <1>5, OnceInOrder
<1>7. ASSUME NEW q \in 1 .. Len(order)
      PROVE  AccountsAccepted(Buffer, Com(order, q)) /\ order[q] \in result[Buffer].bitmap
  <2>1. PICK k, i : k = Com(order, q) /\ i = order[q]
    OBVIOUS
  <2>2. ProvidersOpen(k) /\ <<Gateway(k), MintOf(k)>> \in opened
    BY <1>1, <1>2, <1>3, <1>4, <2>1, RunFinds
  <2>3. k = staging[Buffer].slots[i].com /\ i \in Indices /\ k \in Commitments
    BY <1>1, <2>1 DEF Com, OrderIs
  <2>4. AccountsAccepted(Buffer, k)
    BY <2>2, <2>3, FoundIsAccepted
  <2> QED BY <1>6, <2>1, <2>4 DEF RecordsOnce, Settleable
<1>8. AllOfBatch(order)
  BY <1>1, <1>7, BatchIsReady DEF AccountsAccepted
<1>9. PaidInTurn(M, Buffer, order) /\ RunPaid(run, order, V, S)
  BY <1>2, <1>8, PlanRuns
<1>10. MoneyInOrder /\ TypeOK /\ RecordsReady(order)
  BY <1>8 DEF BatchInv, ClearingInv, MoneyInOrder, RecordsReady, AllOfBatch, RecordOf
<1>11. run.money = M[Len(order)]
  <2>1. run.money = After(order, V, S, 1 .. Len(order))
    BY <1>9 DEF RunPaid, RunAt
  <2>2. Len(order) \in 0 .. Len(order)
    BY <1>1
  <2> QED BY <1>1, <1>2, <1>9, <1>10, <2>1, <2>2, MoneyIsAfter
<1>12. ASSUME NEW q \in 1 .. Len(order)
       PROVE  AmountsAccepted(M[q - 1], Com(order, q))
  <2>1. PICK k, L, D, m, E : /\ k = Com(order, q) /\ L = M[q - 1] /\ D = 1 .. q - 1
                             /\ m = MintOf(k) /\ E = Pay(L, k)
    BY Zenon
  <2>2. q - 1 \in 0 .. Len(order) /\ q \notin D /\ D \subseteq 1 .. Len(order)
    BY <1>1, <2>1
  <2>3. L = After(order, V, S, D)
    BY <1>1, <1>2, <1>9, <1>10, <2>1, <2>2, MoneyIsAfter
  <2>4. InTurn(order, D, q)
    <3>1. \A x \in 1 .. Len(order) : x \in D <=> x < q
      BY <1>1, <2>1
    <3> QED BY <2>2, <3>1 DEF InTurn
  <2>5. TurnTaken(order, V, S, D, q)
    BY <1>1, <1>2, <1>9, <1>10, <2>4, RecordTurn
  <2>6. L \in MoneySet /\ GoodSplit(L, k) /\ E \in MoneySet
    BY <2>1, <2>3, <2>5 DEF TurnTaken
  <2>7. k \in Commitments /\ HeaderOf(k.channel) \in Header /\ m \in Mints
    <3>1. k \in Commitments /\ HeaderOf(k.channel) \in Header
      BY <1>1, <2>1 DEF OrderIs
    <3> QED BY <2>1, <3>1 DEF MintOf, Header
  <2>8. E = Effect(L, k, MovedBy(L, k), Shares(L, k))
    BY <1>10, <2>1, <2>6, <2>7, PayIsEffect
  <2>9. ASSUME NEW p \in Participants
        PROVE  L.available[m][p] + Shares(L, k)[p] <= MaxU64
    <3>1. E.available[m][p] = L.available[m][p] + Shares(L, k)[p]
      BY <2>1, <2>7, <2>8, SMTT(30) DEF Effect
    <3>2. PICK a : a = E.available
      OBVIOUS
    <3>3. a \in [Mints -> [Participants -> 0 .. MaxU64]]
      BY <2>6, <3>2 DEF MoneySet, U64
    <3>4. a[m][p] \in 0 .. MaxU64
      BY <2>7, <3>3
    <3> QED BY <3>1, <3>2, <3>4, NumbersAreU64
  <2>10. HeaderOf(k.channel).kind = Routed
           => PayoutAccepted(k, L.settled[k.channel], L.settled[k.channel] + MovedBy(L, k))
    BY <2>6 DEF GoodSplit
  <2> QED BY <2>1, <2>9, <2>10 DEF AmountsAccepted, MintOf
<1>13. SettlementAccepted(Buffer, order)
  BY <1>1, <1>2, <1>5, <1>6, <1>7, <1>12 DEF SettlementAccepted, RecordsOnce, Com
<1> QED BY <1>2, <1>3, <1>11, <1>13 DEF SettleGroups

-----------------------------------------------------------------------------
(* The theorems.                                                           *)

\* A verdict keeps its account and its verification when records are marked as applied.
LEMMA AppliedStays ==
  ASSUME BatchInv, NEW D,
         result' = [result EXCEPT ![Buffer].applied = @ \cup D], staging' = staging
  PROVE  BatchThere'
<1>1. result[Buffer] \in ResultSet /\ DOMAIN result = Stagings /\ Account(result[Buffer])
  BY BufferThere, ClosedFacts DEF BatchInv, BatchThere, ClearingInv, VInv, Types
<1>2. result'[Buffer] = [result[Buffer] EXCEPT !.applied = @ \cup D]
  BY <1>1, BufferThere
<1>3. result'[Buffer].open = result[Buffer].open /\ result'[Buffer].verified = result[Buffer].verified
  BY <1>1, <1>2 DEF ResultSet
<1> QED BY <1>3 DEF BatchInv, BatchThere, Account

\* The batch's commitments are of channels of the program.
LEMMA BatchChannels ==
  ASSUME BatchInv, NEW n \in DOMAIN Batch
  PROVE  Batch[n].channel \in Channels
<1>1. n \in 1 .. BatchSize /\ Batch[n] = staging[Buffer].slots[n - 1].com
  BY DEF Batch
<1>2. n - 1 \in Indices
  BY <1>1, BatchesNotEmpty DEF Indices
<1>3. staging[Buffer].slots[n - 1].com \in Commitments
  BY <1>2, BufferThere DEF BatchInv, BatchThere, ClearingInv, VInv, SignedInBuffer
<1> QED BY <1>1, <1>3, CommitmentFacts

\* An instruction of the plan is a settlement of Clearing, and collateral that arrives an
\* instruction of Custody: both keep what Clearing keeps, and the batch stays.
LEMMA PlanStep == BatchInv /\ [PNext]_vars => BatchInv'
<1> SUFFICES ASSUME BatchInv, [PNext]_vars PROVE BatchInv'
  OBVIOUS
<1>1. ASSUME NEW order \in Orders, SettleInstruction(order)
      PROVE  BatchInv'
  <2>1. SettleGroups(Buffer, order)
    BY <1>1, InstructionSettles
  <2>2. CNext
    BY <2>1, BufferThere DEF CNext, SettleStep
  <2>3. ClearingInv'
    BY <2>2, NextClearing DEF BatchInv
  <2>4. staging' = staging
        /\ result' = [result EXCEPT ![Buffer].applied = @ \cup {order[a] : a \in DOMAIN order}]
    BY <2>1 DEF SettleGroups
  <2>5. BatchThere'
    BY <2>4, AppliedStays
  <2> QED BY <2>3, <2>5 DEF BatchInv
<1>2. CASE LockMore
  <2>1. PICK c \in {Batch[n].channel : n \in DOMAIN Batch}, amount \in U64 :
          LockChannelFunds(c, amount) /\ UNCHANGED clearingVars
    BY <1>2 DEF LockMore
  <2>2. c \in Channels
    BY <2>1, BatchChannels
  <2>3. MoneyStep
    BY <2>1, <2>2 DEF MoneyStep, PayerStep
  <2>4. CNext
    BY <2>1, <2>3 DEF CNext
  <2>5. ClearingInv'
    BY <2>4, NextClearing DEF BatchInv
  <2>6. staging' = staging /\ result' = result
    BY <2>1 DEF clearingVars
  <2> QED BY <2>5, <2>6 DEF BatchInv, BatchThere, Account
<1>3. CASE UNCHANGED vars
  <2>1. ClearingInv'
    BY <1>3, NextClearing DEF BatchInv
  <2>2. staging' = staging /\ result' = result
    BY <1>3 DEF vars, clearingVars
  <2> QED BY <2>1, <2>2 DEF BatchInv, BatchThere, Account
<1> QED BY <1>1, <1>2, <1>3 DEF PNext

\* BatchInv holds for ever.
LEMMA PlanStays == PSpec => []BatchInv
BY PlanStarts, PlanStep, PTL DEF PSpec

\* Whatever the batch, the order and the balances, a plan whose records would be accepted
\* one by one is accepted as the client built it (settlementInstruction, settle_channels).
THEOREM ClientPlansAccepted == PSpec => []PlanNeverRefused
<1>1. BatchInv => PlanNeverRefused
  BY AcceptedRuns DEF PlanNeverRefused
<1> QED BY <1>1, PlanStays, PTL

\* Every instruction of the plan pays what its records would be paid one by one: the
\* copy of the primary balance, the shared accounts and the cursor change nothing.
THEOREM GroupsPayRecords == PSpec => InstructionPaysRecords
<1>1. BatchInv /\ [PNext]_vars => [result' # result => SettleStep]_vars
  <2> SUFFICES ASSUME BatchInv, [PNext]_vars, result' # result PROVE SettleStep
    OBVIOUS
  <2>1. ASSUME NEW order \in Orders, SettleInstruction(order)
        PROVE  SettleStep
    BY <2>1, InstructionSettles, BufferThere DEF SettleStep
  <2>2. LockMore \/ UNCHANGED vars => result' = result
    BY DEF LockMore, vars, clearingVars
  <2> QED BY <2>1, <2>2 DEF PNext
<1> QED BY <1>1, PlanStays, PTL DEF PSpec, InstructionPaysRecords

-----------------------------------------------------------------------------
(* The window.                                                             *)

USE NumbersAreU64

\* Locks lie in the past: with it FreshCollateralStays is inductive.
LocksArePast == \A c \in Channels : lastLock[c] <= now

\* The window only watches: every step of it is one of Custody, or no step at all.
LEMMA WindowWatches == [WNext]_allVars => [Next]_custodyVars
<1>1. ASSUME NEW c \in Channels, NEW t \in 0 .. MaxTime + Timelock, Inspect(c, t)
      PROVE  [Next]_custodyVars
  BY <1>1 DEF Inspect
<1>2. ASSUME NEW c \in Channels, NEW amount \in U64, WCooperativeUnlock(c, amount)
      PROVE  [Next]_custodyVars
  BY <1>2 DEF WCooperativeUnlock, Next, BothStep
<1>3. ASSUME NEW c \in Channels, NEW amount \in U64, WLockChannelFunds(c, amount)
      PROVE  [Next]_custodyVars
  BY <1>3 DEF WLockChannelFunds, Next, PayerStep
<1>4. ASSUME NEW c \in Channels, OtherPayerStep(c) PROVE [Next]_custodyVars
  BY <1>4 DEF OtherPayerStep, Next, PayerStep
<1>5. ASSUME Tick \/ TokenStep \/ BalanceStep \/ SettleChannels PROVE [Next]_custodyVars
  BY <1>5 DEF Next
<1>6. ASSUME UNCHANGED allVars PROVE [Next]_custodyVars
  BY <1>6 DEF allVars
<1>7. QED
  BY <1>1, <1>2, <1>3, <1>4, <1>5, <1>6 DEF WNext

\* Watching a channel adds no behaviour: the instructions are Custody's, so is what is
\* proved of them.
THEOREM WindowImplementsCustody == WSpec => Spec
  BY WindowWatches, PTL DEF WSpec, WInit, Spec

-----------------------------------------------------------------------------
(* Arithmetic of one channel.                                              *)

\* Types of what the window reads of a channel.
LEMMA ChannelTypes ==
  ASSUME TypeOK, NEW c \in Channels
  PROVE  /\ now \in Nat /\ locked[c] \in Nat /\ settled[c] \in Nat
         /\ pendingAmount[c] \in Nat /\ pendingAt[c] \in Nat
  BY DEF TypeOK, U64

\* Types of what the payee noted.
LEMMA WindowTypes ==
  ASSUME WTypeOK, NEW c \in Channels
  PROVE  floor[c] \in Nat /\ until[c] \in Nat /\ lastLock[c] \in Nat
  BY DEF WTypeOK

\* What may escape is part of what is locked.
LEMMA EscapingBounds ==
  ASSUME TypeOK, NEW c \in Channels, NEW t \in Nat
  PROVE  Escaping(c, t) \in Nat /\ Escaping(c, t) <= locked[c]
         /\ Reserved(c, t) \in Nat /\ Reserved(c, t) <= settled[c] + locked[c]
  BY ChannelTypes DEF Escaping, Smaller, Reserved

\* The invariant of one channel.
Fresh(c) == pendingAmount[c] > 0 => pendingAt[c] >= lastLock[c] + Timelock
Floor(c) == /\ until[c] <= now + Timelock
            /\ now < until[c] => Reserved(c, until[c]) >= floor[c]
ChannelInv(c) == lastLock[c] <= now /\ Fresh(c) /\ Floor(c)

\* The values a channel step leaves alone.
SameWindow(c) == floor'[c] = floor[c] /\ until'[c] = until[c] /\ lastLock'[c] = lastLock[c]
SamePending(c) == pendingAmount'[c] = pendingAmount[c] /\ pendingAt'[c] = pendingAt[c]
SameFunds(c) == locked'[c] = locked[c] /\ settled'[c] = settled[c]

\* A step that does not touch the channel.
LEMMA IdleChannel ==
  ASSUME TypeOK, TypeOK', WTypeOK, NEW c \in Channels, ChannelInv(c),
         now' >= now, SameWindow(c), SamePending(c), SameFunds(c)
  PROVE  ChannelInv(c)'
<1>1. /\ now \in Nat /\ now' \in Nat /\ until[c] \in Nat /\ lastLock[c] \in Nat /\ floor[c] \in Nat
  BY ChannelTypes, WindowTypes DEF TypeOK
<1>2. Reserved(c, until[c])' = Reserved(c, until[c])
  BY DEF Reserved, Escaping, Smaller, SameWindow, SamePending, SameFunds
<1>3. QED
  BY <1>1, <1>2 DEF ChannelInv, Fresh, Floor, SameWindow, SamePending

\* Settlement moves collateral to settled, and what may escape only shrinks.
LEMMA SettledChannel ==
  ASSUME TypeOK, TypeOK', WTypeOK, NEW c \in Channels, ChannelInv(c), NEW moved \in Nat,
         now' = now, SameWindow(c), SamePending(c),
         locked'[c] = locked[c] - moved, settled'[c] = settled[c] + moved
  PROVE  ChannelInv(c)'
<1>1. /\ now \in Nat /\ locked[c] \in Nat /\ locked'[c] \in Nat /\ settled[c] \in Nat
      /\ pendingAmount[c] \in Nat /\ pendingAt[c] \in Nat
      /\ until[c] \in Nat /\ lastLock[c] \in Nat /\ floor[c] \in Nat
  BY ChannelTypes, WindowTypes DEF TypeOK, U64
<1>2. Reserved(c, until[c])' >= Reserved(c, until[c])
  BY <1>1 DEF Reserved, Escaping, Smaller, SameWindow, SamePending
<1>3. Reserved(c, until[c]) \in Nat /\ Reserved(c, until[c])' \in Nat
  BY <1>1 DEF Reserved, Escaping, Smaller, SameWindow, SamePending
<1>4. QED
  BY <1>1, <1>2, <1>3 DEF ChannelInv, Fresh, Floor, SameWindow, SamePending

\* A channel whose request is gone, or too new to mature in the window: all that is
\* locked is reserved.
LEMMA NothingEscapes ==
  ASSUME TypeOK, TypeOK', WTypeOK, WTypeOK', NEW c \in Channels, ChannelInv(c),
         now' = now, until'[c] = until[c], lastLock'[c] \in {lastLock[c], now},
         pendingAmount'[c] = 0 \/ pendingAt'[c] = now + Timelock,
         now < until[c] => settled'[c] + locked'[c] >= floor'[c]
  PROVE  ChannelInv(c)'
<1>1. /\ now \in Nat /\ locked'[c] \in Nat /\ settled'[c] \in Nat
      /\ pendingAmount'[c] \in Nat /\ pendingAt'[c] \in Nat
      /\ until[c] \in Nat /\ lastLock[c] \in Nat /\ floor'[c] \in Nat
  BY ChannelTypes, WindowTypes DEF TypeOK, WTypeOK, U64
<1>2. until[c] <= now + Timelock /\ lastLock[c] <= now
  BY DEF ChannelInv, Floor
<1>3. Reserved(c, until[c])' = settled'[c] + locked'[c]
  BY <1>1, <1>2 DEF Reserved, Escaping
<1>4. QED
  BY <1>1, <1>2, <1>3 DEF ChannelInv, Fresh, Floor

\* Inside the window the floor is covered by what was paid and is locked.
LEMMA FloorCovered ==
  ASSUME TypeOK, WTypeOK, NEW c \in Channels, ChannelInv(c), now < until[c]
  PROVE  settled[c] + locked[c] >= floor[c]
<1>1. Reserved(c, until[c]) >= floor[c] /\ until[c] \in Nat
  BY WindowTypes DEF ChannelInv, Floor
<1>2. QED
  BY <1>1, EscapingBounds, ChannelTypes, WindowTypes

\* It stays covered when a matured request is executed: the floor had discounted it.
LEMMA ExecutionDiscounted ==
  ASSUME TypeOK, WTypeOK, NEW c \in Channels, ChannelInv(c), now < until[c],
         pendingAmount[c] > 0, Matured(c)
  PROVE  settled[c] + (locked[c] - Smaller(pendingAmount[c], locked[c])) >= floor[c]
<1>1. Reserved(c, until[c]) >= floor[c]
  BY DEF ChannelInv, Floor
<1>2. pendingAt[c] < until[c]
  BY ChannelTypes, WindowTypes DEF Matured
<1>3. Smaller(pendingAmount[c], locked[c]) \in Nat
  BY ChannelTypes DEF Smaller
<1>4. QED
  BY <1>1, <1>2, <1>3, ChannelTypes, WindowTypes DEF Reserved, Escaping

-----------------------------------------------------------------------------
(* The invariant of all channels, action by action.                        *)

WInv == WTypeOK /\ \A c \in Channels : ChannelInv(c)

\* A step of one channel c; the others are as they were.
LEMMA OneChannel ==
  ASSUME TypeOK, TypeOK', WInv, WTypeOK', NEW c \in Channels, now' = now, ChannelInv(c)',
         \A d \in Channels \ {c} : SameWindow(d) /\ SamePending(d) /\ SameFunds(d)
  PROVE  WInv'
<1>1. ASSUME NEW d \in Channels, d # c PROVE ChannelInv(d)'
  <2>1. ChannelInv(d) /\ now' >= now /\ WTypeOK
    BY ChannelTypes DEF WInv
  <2>2. SameWindow(d) /\ SamePending(d) /\ SameFunds(d)
    BY <1>1
  <2>3. QED
    BY <2>1, <2>2, IdleChannel
<1>2. QED
  BY <1>1 DEF WInv

\* A step of no channel.
LEMMA NoChannel ==
  ASSUME TypeOK, TypeOK', WInv, now' >= now, UNCHANGED windowVars,
         UNCHANGED pending, UNCHANGED <<locked, settled>>
  PROVE  WInv'
<1>1. WTypeOK' /\ WTypeOK
  BY DEF WInv, WTypeOK, windowVars
<1>2. ASSUME NEW c \in Channels PROVE ChannelInv(c)'
  <2>1. SameWindow(c) /\ SamePending(c) /\ SameFunds(c)
    BY DEF SameWindow, SamePending, SameFunds, windowVars, pending
  <2>2. ChannelInv(c)
    BY DEF WInv
  <2>3. QED
    BY <1>1, <2>1, <2>2, IdleChannel
<1>3. QED
  BY <1>1, <1>2 DEF WInv

\* A look notes a floor that holds at that moment, and keeps the window below a timelock.
LEMMA WindowInspect ==
  ASSUME TypeOK, TypeOK', WInv, NEW c \in Channels, NEW t \in 0 .. MaxTime + Timelock, Inspect(c, t)
  PROVE  WInv'
<1>1. t \in Nat /\ t <= now + Timelock /\ now \in Nat
  BY DEF Inspect, TypeOK
<1>2. UNCHANGED custodyVars /\ lastLock' = lastLock
  BY DEF Inspect
<1>3. WTypeOK /\ Reserved(c, t) \in Nat /\ ChannelInv(c)
  BY <1>1, EscapingBounds DEF WInv
<1>4. WTypeOK' /\ floor'[c] = Reserved(c, t) /\ until'[c] = t
  BY <1>1, <1>3 DEF Inspect, WTypeOK
<1>5. ChannelInv(c)'
  <2>1. Reserved(c, until[c])' = Reserved(c, t)
    BY <1>2, <1>4 DEF custodyVars, Reserved, Escaping, Smaller
  <2>2. lastLock'[c] <= now' /\ Fresh(c)'
    BY <1>2, <1>3 DEF ChannelInv, Fresh, custodyVars
  <2>3. Floor(c)'
    BY <1>1, <1>2, <1>3, <1>4, <2>1 DEF Floor, custodyVars
  <2>4. QED
    BY <2>2, <2>3 DEF ChannelInv
<1>6. ASSUME NEW d \in Channels \ {c} PROVE SameWindow(d) /\ SamePending(d) /\ SameFunds(d)
  BY <1>2, <1>3 DEF Inspect, WTypeOK, SameWindow, SamePending, SameFunds, custodyVars
<1>7. now' = now
  BY <1>2 DEF custodyVars
<1>8. QED
  BY <1>4, <1>5, <1>6, <1>7, OneChannel

\* More collateral raises what is reserved and drops the pending request.
LEMMA WindowLock ==
  ASSUME TypeOK, TypeOK', WInv, NEW c \in Channels, NEW amount \in U64, WLockChannelFunds(c, amount)
  PROVE  WInv'
<1>1. /\ locked' = [locked EXCEPT ![c] = @ + amount] /\ ClearPending(c)
      /\ now' = now /\ settled' = settled
      /\ lastLock' = [lastLock EXCEPT ![c] = now] /\ floor' = floor /\ until' = until
  BY DEF WLockChannelFunds, LockChannelFunds
<1>2. WTypeOK /\ ChannelInv(c) /\ WTypeOK'
  BY <1>1 DEF WInv, WTypeOK, TypeOK
<1>3. pendingAmount'[c] = 0 /\ lastLock'[c] = now /\ locked'[c] = locked[c] + amount
  BY <1>1, <1>2 DEF ClearPending, TypeOK, WTypeOK
<1>4. now < until[c] => settled'[c] + locked'[c] >= floor'[c]
  BY <1>1, <1>2, <1>3, FloorCovered, ChannelTypes, WindowTypes DEF U64
<1>5. ChannelInv(c)'
  BY <1>1, <1>2, <1>3, <1>4, NothingEscapes
<1>6. \A d \in Channels \ {c} : SameWindow(d) /\ SamePending(d) /\ SameFunds(d)
  BY <1>1, <1>2 DEF ClearPending, TypeOK, WTypeOK, SameWindow, SamePending, SameFunds
<1>7. QED
  BY <1>1, <1>2, <1>5, <1>6, OneChannel

\* A cooperative unlock lowers the floor by what the payee signed away, and drops the request.
LEMMA WindowCooperation ==
  ASSUME TypeOK, TypeOK', WInv, NEW c \in Channels, NEW amount \in U64, WCooperativeUnlock(c, amount)
  PROVE  WInv'
<1> DEFINE released == Smaller(amount, locked[c])
<1>1. /\ locked' = [locked EXCEPT ![c] = @ - released] /\ ClearPending(c)
      /\ now' = now /\ settled' = settled
      /\ floor' = [floor EXCEPT ![c] = IF @ >= released THEN @ - released ELSE 0]
      /\ until' = until /\ lastLock' = lastLock
  BY DEF WCooperativeUnlock, CooperativeUnlock, Release
<1>2. released \in Nat /\ released <= locked[c]
  BY SmallerIsU64, ChannelTypes DEF TypeOK, U64
<1> HIDE DEF released
<1>3. WTypeOK /\ ChannelInv(c) /\ WTypeOK'
  BY <1>1, <1>2 DEF WInv, WTypeOK
<1>4. /\ pendingAmount'[c] = 0 /\ locked'[c] = locked[c] - released
      /\ floor'[c] = IF floor[c] >= released THEN floor[c] - released ELSE 0
  BY <1>1, <1>3 DEF ClearPending, TypeOK, WTypeOK
<1>5. now < until[c] => settled'[c] + locked'[c] >= floor'[c]
  BY <1>1, <1>2, <1>3, <1>4, FloorCovered, ChannelTypes, WindowTypes
<1>6. ChannelInv(c)'
  BY <1>1, <1>3, <1>4, <1>5, NothingEscapes
<1>7. \A d \in Channels \ {c} : SameWindow(d) /\ SamePending(d) /\ SameFunds(d)
  BY <1>1, <1>3 DEF ClearPending, TypeOK, WTypeOK, SameWindow, SamePending, SameFunds
<1>8. QED
  BY <1>1, <1>3, <1>6, <1>7, OneChannel

\* A step of the payer that changes the request of c and may release collateral.
LEMMA WindowPayer ==
  ASSUME TypeOK, TypeOK', WInv, NEW c \in Channels, OtherPayerStep(c), UNCHANGED windowVars
  PROVE  WInv'
<1>1. WTypeOK /\ WTypeOK' /\ ChannelInv(c)
  BY DEF WInv, WTypeOK, windowVars
<1>2. floor' = floor /\ until' = until /\ lastLock' = lastLock
  BY DEF windowVars
<1>3. ASSUME NEW p \in Participants, CreateChannel(c, p) PROVE WInv'
  <2>1. now' >= now /\ UNCHANGED pending /\ UNCHANGED <<locked, settled>>
    BY <1>3, ChannelTypes DEF CreateChannel, pending
  <2>2. QED
    BY <2>1, NoChannel
<1>4. ASSUME now' = now, settled' = settled,
             pendingAmount'[c] = 0 \/ pendingAt'[c] = now + Timelock,
             now < until[c] => settled[c] + locked'[c] >= floor[c],
             \A d \in Channels \ {c} : SamePending(d) /\ SameFunds(d)
      PROVE  WInv'
  <2>1. ChannelInv(c)'
    BY <1>1, <1>2, <1>4, NothingEscapes
  <2>2. \A d \in Channels \ {c} : SameWindow(d)
    BY <1>2 DEF SameWindow
  <2>3. QED
    BY <1>1, <1>4, <2>1, <2>2, OneChannel
<1>5. ASSUME NEW amount \in U64, RequestUnlock(c, amount) PROVE WInv'
  <2>1. /\ now' = now /\ settled' = settled /\ locked' = locked
        /\ pendingAmount' = [pendingAmount EXCEPT ![c] = amount]
        /\ pendingAt' = [pendingAt EXCEPT ![c] = now + Timelock]
    BY <1>5 DEF RequestUnlock, UnlockTime
  <2>2. pendingAt'[c] = now + Timelock
    BY <2>1 DEF TypeOK
  <2>3. now < until[c] => settled[c] + locked'[c] >= floor[c]
    BY <1>1, <2>1, FloorCovered
  <2>4. \A d \in Channels \ {c} : SamePending(d) /\ SameFunds(d)
    BY <2>1 DEF TypeOK, SamePending, SameFunds
  <2>5. QED
    BY <1>4, <2>1, <2>2, <2>3, <2>4
<1>6. ASSUME CancelUnlock(c) PROVE WInv'
  <2>1. now' = now /\ settled' = settled /\ locked' = locked /\ ClearPending(c)
    BY <1>6 DEF CancelUnlock
  <2>2. pendingAmount'[c] = 0
    BY <2>1 DEF ClearPending, TypeOK
  <2>3. now < until[c] => settled[c] + locked'[c] >= floor[c]
    BY <1>1, <2>1, FloorCovered
  <2>4. \A d \in Channels \ {c} : SamePending(d) /\ SameFunds(d)
    BY <2>1 DEF ClearPending, TypeOK, SamePending, SameFunds
  <2>5. QED
    BY <1>4, <2>1, <2>2, <2>3, <2>4
<1>7. ASSUME ExecuteUnlock(c) PROVE WInv'
  <2> DEFINE released == Smaller(pendingAmount[c], locked[c])
  <2>1. /\ now' = now /\ settled' = settled /\ ClearPending(c)
        /\ locked' = [locked EXCEPT ![c] = @ - released]
        /\ pendingAmount[c] > 0 /\ Matured(c)
    BY <1>7 DEF ExecuteUnlock, ExecuteUnlockAccepted, UnlockedAmount, Release
  <2>2. now < until[c] => settled[c] + (locked[c] - released) >= floor[c]
    BY <1>1, <2>1, ExecutionDiscounted
  <2> HIDE DEF released
  <2>3. pendingAmount'[c] = 0 /\ locked'[c] = locked[c] - released
    BY <2>1 DEF ClearPending, TypeOK
  <2>4. \A d \in Channels \ {c} : SamePending(d) /\ SameFunds(d)
    BY <2>1 DEF ClearPending, TypeOK, SamePending, SameFunds
  <2>5. QED
    BY <1>4, <2>1, <2>2, <2>3, <2>4
<1>8. QED
  BY <1>3, <1>5, <1>6, <1>7 DEF OtherPayerStep

\* A settlement moves collateral into the watermark; their sum stays.
LEMMA WindowSettle ==
  ASSUME TypeOK, TypeOK', WInv, NEW moved \in Movable, NEW paid \in Payouts, Settle(moved, paid),
         UNCHANGED windowVars
  PROVE  WInv'
<1>1. WTypeOK /\ WTypeOK'
  BY DEF WInv, WTypeOK, windowVars
<1>2. ASSUME NEW c \in Channels PROVE ChannelInv(c)'
  <2>1. moved[c] \in Nat /\ ChannelInv(c)
    BY DEF Movable, U64, WInv
  <2>2. locked'[c] = locked[c] - moved[c] /\ settled'[c] = settled[c] + moved[c] /\ now' = now
    BY DEF Settle
  <2>3. SameWindow(c) /\ SamePending(c)
    BY DEF Settle, SameWindow, SamePending, windowVars, pending
  <2>4. QED
    BY <1>1, <2>1, <2>2, <2>3, SettledChannel
<1>3. QED
  BY <1>1, <1>2 DEF WInv

\* Every step keeps the window's invariant.
LEMMA WindowStep ==
  ASSUME TypeOK, TypeOK', WInv, [WNext]_allVars
  PROVE  WInv'
<1>1. CASE \E c \in Channels, t \in 0 .. MaxTime + Timelock : Inspect(c, t)
  BY <1>1, WindowInspect
<1>2. CASE \E c \in Channels, amount \in U64 : \/ WCooperativeUnlock(c, amount)
                                               \/ WLockChannelFunds(c, amount)
  BY <1>2, WindowCooperation, WindowLock
<1>3. CASE Tick /\ UNCHANGED windowVars
  BY <1>3, NoChannel, ChannelTypes DEF Tick, TypeOK
<1>4. CASE TokenStep /\ UNCHANGED windowVars
  BY <1>4, NoChannel DEF TokenStep, RegisterToken, SetTokenDepositEnabled, TypeOK
<1>5. CASE BalanceStep /\ UNCHANGED windowVars
  <2>1. now' = now /\ UNCHANGED pending /\ UNCHANGED <<locked, settled>>
    BY <1>5 DEF BalanceStep, OpenBalance, Deposit, Withdraw, InitializeChannelBucket
  <2>2. QED
    BY <1>5, <2>1, NoChannel DEF TypeOK
<1>6. CASE SettleChannels /\ UNCHANGED windowVars
  BY <1>6, WindowSettle DEF SettleChannels
<1>7. CASE (\E c \in Channels : OtherPayerStep(c)) /\ UNCHANGED windowVars
  BY <1>7, WindowPayer
<1>8. CASE UNCHANGED allVars
  BY <1>8, NoChannel DEF allVars, custodyVars, windowVars, pending, TypeOK
<1>9. QED
  BY <1>1, <1>2, <1>3, <1>4, <1>5, <1>6, <1>7, <1>8 DEF WNext

\* Nobody has looked at a channel yet.
LEMMA WindowInit == WInit => WInv
  BY DEF WInit, Init, WInv, WTypeOK, ChannelInv, Fresh, Floor, Reserved, Escaping

\* The invariant of the window, beside Custody's types.
LEMMA WindowInvariant == WSpec => []WInv
<1>1. WSpec => []TypeOK
  BY WindowImplementsCustody, CustodyTypes, PTL
<1>2. TypeOK /\ TypeOK' /\ WInv /\ [WNext]_allVars => WInv'
  BY WindowStep
<1>3. QED
  BY <1>1, <1>2, WindowInit, PTL DEF WSpec

-----------------------------------------------------------------------------

\* The strengthened guarantee: what was paid, and what is locked and cannot escape
\* before the window ends, covers the floor.
THEOREM WindowFloor == WSpec => []FloorReserved
<1>1. WInv => FloorReserved
  BY DEF WInv, ChannelInv, Floor, FloorReserved
<1>2. QED
  BY <1>1, WindowInvariant, PTL

\* No request ever reaches collateral locked after it was made.
THEOREM WindowFresh == WSpec => []FreshCollateralStays
<1>1. WInv => FreshCollateralStays
  BY DEF WInv, ChannelInv, Fresh, FreshCollateralStays
<1>2. QED
  BY <1>1, WindowInvariant, PTL

\* The payee's guarantee, for every timelock and every number of channels.
THEOREM WindowHolds == WSpec => []CollateralHolds
<1>1. TypeOK /\ WInv => CollateralHolds
  BY FloorCovered DEF WInv, CollateralHolds
<1>2. WSpec => []TypeOK
  BY WindowImplementsCustody, CustodyTypes, PTL
<1>3. QED
  BY <1>1, <1>2, WindowInvariant, PTL

=============================================================================
