---------------------------- MODULE ClearingProofs ----------------------------
(***************************************************************************)
(* Clearing for every number of buffers, records, computations and         *)
(* offsets.  First, what settle_channels does to the money, record by      *)
(* record: each unit goes to the one owner that a signature gives it, no   *)
(* check refuses a record that is ready, and the whole is a settlement as  *)
(* Custody has it.  Then: a verdict is always the verdict on the batch     *)
(* that is in the buffer (VInv); with it, every unit is paid once to whom  *)
(* it was signed, verified records stay settleable and Custody is          *)
(* implemented (ClearingInv).                                              *)
(***************************************************************************)
EXTENDS Clearing, CustodyProofs

-----------------------------------------------------------------------------
(* Commitments as routes.                                                  *)

\* What is in a sequence.
LEMMA SeqEntries ==
  \A S : \A seq \in Seq(S) : \A a \in 1 .. Len(seq) : seq[a] \in S
OBVIOUS

\* A commitment is a route in shape, and its numbers are u64.
LEMMA CommitmentFacts ==
  ASSUME NEW k \in Commitments
  PROVE  /\ k.channel \in Channels /\ k.base \in U64 /\ k.target \in U64
         /\ IsRoute(k)
<1>1. k \in CommitmentType
  BY WellFormedCommitments
<1>2. k.channel \in Channels /\ k.base \in U64 /\ k.target \in U64
  BY <1>1 DEF CommitmentType
<1>3. k.allocations \in Seq([id : Participants \cup Unassigned, amount : U64])
  BY <1>1 DEF CommitmentType
<1>4. Len(k.allocations) \in Nat /\ DOMAIN k.allocations = 1 .. Len(k.allocations)
  BY <1>3
<1>5. \A a \in 1 .. Len(k.allocations) : k.allocations[a].amount \in Nat
  <2>1. \A a \in 1 .. Len(k.allocations) :
           k.allocations[a] \in [id : Participants \cup Unassigned, amount : U64]
    BY <1>3, SeqEntries
  <2> QED BY <2>1, NumbersAreU64 DEF U64
<1>6. k.base \in Nat /\ k.target \in Nat
  BY <1>2, NumbersAreU64 DEF U64
<1> QED BY <1>2, <1>4, <1>5, <1>6 DEF IsRoute

\* Amounts counted from zero end as far from zero as the pieces end from the base.
LEMMA PiecesShift ==
  ASSUME NEW x, IsRoute(x)
  PROVE  \A a \in 0 .. Len(x.allocations) :
            /\ RunningTotal(0, Amounts(x))[a] \in Int
            /\ PieceEnd(x)[a] = x.base + RunningTotal(0, Amounts(x))[a]
<1> DEFINE n == Len(x.allocations)
           end == PieceEnd(x)
           given == RunningTotal(0, Amounts(x))
           A == {a \in 0 .. n : end[a] = x.base + given[a]}
<1>1. n \in Nat /\ x.base \in Int /\ Amounts(x) \in [1 .. n -> Int]
  BY DEF IsRoute, Amounts
<1>2. /\ end[0] = x.base
      /\ \A a \in 1 .. n : end[a] = end[a - 1] + Amounts(x)[a]
  <2>1. SumFacts(end, n, x.base, Amounts(x))
    <3> HIDE DEF n
    <3> QED BY <1>1, RunningTotalIs DEF PieceEnd
  <2> QED BY <2>1 DEF SumFacts
<1>3. /\ given \in [0 .. n -> Int] /\ given[0] = 0
      /\ \A a \in 1 .. n : given[a] = given[a - 1] + Amounts(x)[a]
  <2>1. SumFacts(given, n, 0, Amounts(x))
    <3> HIDE DEF n
    <3> QED BY <1>1, RunningTotalIs
  <2> QED BY <2>1 DEF SumFacts
<1> HIDE DEF n, end, given
<1>4. 0 \in A
  BY <1>1, <1>2, <1>3
<1>5. \A a \in 0 .. n - 1 : a \in A => a + 1 \in A
  <2> SUFFICES ASSUME NEW a \in 0 .. n - 1, end[a] = x.base + given[a]
               PROVE  end[a + 1] = x.base + given[a + 1]
    BY <1>1
  <2>1. a + 1 \in 1 .. n /\ (a + 1) - 1 = a /\ a \in 0 .. n
    BY <1>1
  <2>2. Amounts(x)[a + 1] \in Int /\ given[a] \in Int
    BY <1>1, <1>3, <2>1
  <2>3. end[a + 1] = end[a] + Amounts(x)[a + 1] /\ given[a + 1] = given[a] + Amounts(x)[a + 1]
    BY <1>2, <1>3, <2>1
  <2> QED BY <1>1, <2>2, <2>3
<1>6. 0 .. n \subseteq A
  <2> HIDE DEF A
  <2> QED BY <1>1, <1>4, <1>5, Induction
<1> QED BY <1>3, <1>6 DEF n, end, given

\* The owner of a unit is the provider of the piece that holds it, or the gateway.
LEMMA OwnerIs ==
  ASSUME NEW x, IsRoute(x), NEW u \in Int, NEW g
  PROVE  /\ \A a \in 1 .. Len(x.allocations) :
               Holds(x, a, u) => OwnerAmong(x, u, g) = x.allocations[a].id
         /\ (~ \E a \in 1 .. Len(x.allocations) : Holds(x, a, u)) => OwnerAmong(x, u, g) = g
<1> DEFINE given == RunningTotal(0, Amounts(x))
           n == Len(x.allocations)
           pieces == {a \in DOMAIN x.allocations : u - x.base \in given[a - 1] + 1 .. given[a]}
<1>1. DOMAIN x.allocations = 1 .. n /\ n \in Nat /\ x.base \in Int
  BY DEF IsRoute
<1>2. ASSUME NEW a \in 1 .. n
      PROVE  u - x.base \in given[a - 1] + 1 .. given[a] <=> Holds(x, a, u)
  <2>1. a \in 0 .. n /\ a - 1 \in 0 .. n
    BY <1>1
  <2>2. /\ given[a] \in Int /\ given[a - 1] \in Int
        /\ PieceEnd(x)[a] = x.base + given[a] /\ PieceEnd(x)[a - 1] = x.base + given[a - 1]
    BY <2>1, PiecesShift
  <2> HIDE DEF given, n
  <2> QED BY <1>1, <2>2 DEF Holds
<1>3. pieces = {a \in 1 .. n : Holds(x, a, u)}
  BY <1>1, <1>2
<1>4. OwnerAmong(x, u, g) = IF pieces = {} THEN g ELSE x.allocations[CHOOSE a \in pieces : TRUE].id
  BY DEF OwnerAmong
<1> HIDE DEF pieces
<1>5. ASSUME NEW a \in 1 .. n, Holds(x, a, u)
      PROVE  OwnerAmong(x, u, g) = x.allocations[a].id
  <2>1. a \in pieces
    BY <1>3, <1>5
  <2>2. (CHOOSE b \in pieces : TRUE) \in pieces
    BY <2>1
  <2>3. (CHOOSE b \in pieces : TRUE) = a
    <3> DEFINE b == CHOOSE b \in pieces : TRUE
    <3>1. b \in 1 .. n /\ Holds(x, b, u)
      BY <1>3, <2>2
    <3> HIDE DEF b
    <3>2. b = a
      BY <1>5, <3>1, PieceIsUnique
    <3> QED BY <3>2 DEF b
  <2> QED BY <1>4, <2>1, <2>3
<1>6. ASSUME ~ \E a \in 1 .. n : Holds(x, a, u)
      PROVE  OwnerAmong(x, u, g) = g
  BY <1>3, <1>4, <1>6
<1> QED BY <1>5, <1>6

-----------------------------------------------------------------------------
(* Who owns a unit, and what the split of a record gives.                  *)

\* A commitment that can be settled: signed, in an occupied slot, its accounts there.
Ready(k) ==
    /\ k \in Commitments /\ HeaderOf(k.channel) \in Header /\ Occupied(k.channel)
    /\ BalancesOpen(k)
    /\ Required(HeaderOf(k.channel).kind) \subseteq signatures[k]
    /\ HeaderOf(k.channel).kind = Routed =>
         Validate(k) /\ Gateway(k) \notin Named(k) /\ k.base <= settled[k.channel]

\* What Pay works on.
MoneySet == [locked : [Channels -> U64], settled : [Channels -> U64],
             available : [Mints -> [Participants -> U64]],
             paidFrom : [Channels -> [Participants -> U64]]]

\* The units that a settlement of old + 1 .. new gives to p.
UnitsOf(k, old, new, p) == {u \in old + 1 .. new : OwnerOf(k, u) = p}

\* A ready commitment names participants only, and every unit has one of them for owner.
LEMMA OwnerIsThere ==
  ASSUME TypeOK, NEW x, Ready(x), NEW u \in Int
  PROVE  /\ Gateway(x) \in Participants /\ HeaderOf(x.channel).mint \in Mints
         /\ OwnerOf(x, u) \in Participants
         /\ <<OwnerOf(x, u), HeaderOf(x.channel).mint>> \in opened
<1> DEFINE m == HeaderOf(x.channel).mint
<1>1. Gateway(x) \in Participants /\ m \in Mints
  BY DEF Ready, Gateway, Header
<1>2. opened \subseteq Participants \X Mints
  BY DEF TypeOK
<1>3. \A p \in Named(x) \cup {Gateway(x)} : <<p, m>> \in opened
  BY DEF Ready, BalancesOpen
<1>4. OwnerOf(x, u) \in Named(x) \cup {Gateway(x)}
  <2>1. IsRoute(x)
    BY CommitmentFacts DEF Ready
  <2>2. CASE \E a \in 1 .. Len(x.allocations) : Holds(x, a, u)
    <3>1. PICK a \in 1 .. Len(x.allocations) : Holds(x, a, u)
      BY <2>2
    <3>2. OwnerAmong(x, u, Gateway(x)) = x.allocations[a].id
      BY <2>1, <3>1, OwnerIs
    <3>3. x.allocations[a].id \in Named(x)
      BY <2>1 DEF Named, IsRoute
    <3> QED BY <3>2, <3>3 DEF OwnerOf
  <2>3. CASE ~ \E a \in 1 .. Len(x.allocations) : Holds(x, a, u)
    <3>1. OwnerAmong(x, u, Gateway(x)) = Gateway(x)
      BY <2>1, <2>3, OwnerIs
    <3> QED BY <3>1 DEF OwnerOf
  <2> QED BY <2>2, <2>3
<1> HIDE DEF m
<1>5. <<OwnerOf(x, u), m>> \in opened
  BY <1>3, <1>4
<1>6. OwnerOf(x, u) \in Participants
  BY <1>2, <1>5
<1> QED BY <1>1, <1>5, <1>6 DEF m

\* Each is paid as many units as it owns: the gateway of a direct channel all of them.
LEMMA DirectUnits ==
  ASSUME NEW x, HeaderOf(x.channel).kind = Direct, NEW old \in Nat, NEW new \in Nat, old <= new, NEW p
  PROVE  Cardinality(UnitsOf(x, old, new, p)) = IF p = Gateway(x) THEN new - old ELSE 0
<1>1. \A u : OwnerOf(x, u) = Gateway(x)
  BY DEF OwnerOf
<1>2. CASE p = Gateway(x)
  <2>1. UnitsOf(x, old, new, p) = old + 1 .. new
    BY <1>1, <1>2 DEF UnitsOf
  <2>2. Cardinality(old + 1 .. new) = IF old + 1 > new THEN 0 ELSE new - (old + 1) + 1
    <3>1. old + 1 \in Int /\ new \in Int
      OBVIOUS
    <3> QED BY <3>1, FS_Interval
  <2> QED BY <1>2, <2>1, <2>2
<1>3. CASE p # Gateway(x)
  <2>1. UnitsOf(x, old, new, p) = {}
    BY <1>1, <1>3 DEF UnitsOf
  <2> QED BY <1>3, <2>1, FS_EmptySet
<1> QED BY <1>2, <1>3

\* Of a routed channel, a provider what its piece holds, the gateway the rest.
LEMMA RoutedUnits ==
  ASSUME NEW x, IsRoute(x), Validate(x), Gateway(x) \notin Named(x),
         HeaderOf(x.channel).kind = Routed,
         NEW old \in Nat, NEW new \in Nat, old <= new, x.base <= old, NEW p
  PROVE  Cardinality(UnitsOf(x, old, new, p))
           = IF p = Gateway(x) THEN GatewayFee(x, old, new) ELSE PaidTo(x, old, new, p)
<1> DEFINE n == Len(x.allocations)
           held(u) == \E a \in 1 .. n : Holds(x, a, u)
<1>1. \A u : OwnerOf(x, u) = OwnerAmong(x, u, Gateway(x))
  BY DEF OwnerOf, Routed, Direct
<1>2. ASSUME NEW u \in Int, NEW a \in 1 .. n, Holds(x, a, u)
      PROVE  OwnerOf(x, u) = x.allocations[a].id
  <2>1. OwnerAmong(x, u, Gateway(x)) = x.allocations[a].id
    BY <1>2, OwnerIs
  <2> QED BY <1>1, <2>1
<1>3. ASSUME NEW u \in Int, ~held(u)
      PROVE  OwnerOf(x, u) = Gateway(x)
  <2>1. OwnerAmong(x, u, Gateway(x)) = Gateway(x)
    BY <1>3, OwnerIs
  <2> QED BY <1>1, <2>1
<1>4. \A a \in 1 .. n : x.allocations[a].id # Gateway(x)
  BY DEF Named, IsRoute
<1>5. CASE p = Gateway(x)
  <2>1. UnitsOf(x, old, new, p) = {u \in old + 1 .. new : ~held(u)}
    <3>1. \A u \in old + 1 .. new : u \in Int
      OBVIOUS
    <3> QED BY <1>2, <1>3, <1>4, <1>5, <3>1 DEF UnitsOf
  <2> QED BY <1>5, <2>1, LeftCounts
<1>6. CASE p # Gateway(x)
  <2>1. UnitsOf(x, old, new, p)
          = {u \in old + 1 .. new : \E a \in 1 .. n : Holds(x, a, u) /\ x.allocations[a].id = p}
    <3>1. \A u \in old + 1 .. new : u \in Int
      OBVIOUS
    <3>2. ASSUME NEW u \in Int
          PROVE  OwnerOf(x, u) = p <=> \E a \in 1 .. n : Holds(x, a, u) /\ x.allocations[a].id = p
      <4>1. CASE held(u)
        <5>1. PICK a \in 1 .. n : Holds(x, a, u)
          BY <4>1
        <5>2. OwnerOf(x, u) = x.allocations[a].id
          BY <5>1, <1>2
        <5>3. \A b \in 1 .. n : Holds(x, b, u) => x.allocations[b].id = OwnerOf(x, u)
          BY <1>2
        <5> QED BY <5>1, <5>2, <5>3
      <4>2. CASE ~held(u)
        BY <4>2, <1>3, <1>6
      <4> QED BY <4>1, <4>2
    <3> QED BY <3>1, <3>2 DEF UnitsOf
  <2> QED BY <1>6, <2>1, HeldCounts
<1> QED BY <1>5, <1>6

\* What Shares gives.
GoodSplit(money, k) ==
    LET old == money.settled[k.channel]
        moved == MovedBy(money, k)
    IN  /\ moved \in Nat /\ moved <= money.locked[k.channel] /\ old + moved <= MaxU64
        /\ moved > 0 => old + moved <= k.target
        /\ Shares(money, k) \in [Participants -> 0 .. moved]
        /\ \A p \in Participants :
             Shares(money, k)[p] = Cardinality(UnitsOf(k, old, old + moved, p))
        /\ Total(Shares(money, k)) = moved
        /\ HeaderOf(k.channel).kind = Routed => PayoutAccepted(k, old, old + moved)

\* A ready commitment is split so: every unit that moves goes to its one owner.
LEMMA ReadySplits ==
  ASSUME TypeOK, NEW x, Ready(x), NEW money \in MoneySet,
         settled[x.channel] <= money.settled[x.channel]
  PROVE  GoodSplit(money, x)
<1> DEFINE old == money.settled[x.channel]
           cap == money.locked[x.channel]
           moved == MovedBy(money, x)
           new == old + moved
           share == Shares(money, x)
<1>1. x.channel \in Channels /\ x.target \in 0 .. MaxU64 /\ x.base \in Nat /\ IsRoute(x) /\ x \in Commitments
  BY CommitmentFacts, NumbersAreU64 DEF Ready, U64
<1>2. old \in 0 .. MaxU64 /\ cap \in 0 .. MaxU64 /\ MaxU64 \in Nat /\ settled[x.channel] \in Nat
  BY <1>1, NumbersAreU64 DEF MoneySet, U64, TypeOK
<1>3. moved = Payable(x.target, old, cap)
  BY DEF MovedBy
<1> HIDE DEF old, cap, moved
<1>4. moved \in Nat /\ moved <= cap /\ old + moved <= MaxU64 /\ (moved > 0 => old + moved <= x.target)
  BY <1>1, <1>2, <1>3 DEF Payable
<1>5. old \in Nat /\ new \in Nat /\ old <= new /\ new - old = moved
  BY <1>2, <1>4
<1>6. HeaderOf(x.channel).kind = Direct \/ HeaderOf(x.channel).kind = Routed
  BY DEF Ready, Header
<1>7. HeaderOf(x.channel).kind = Routed => Validate(x) /\ Gateway(x) \notin Named(x) /\ x.base <= old
  BY <1>1, <1>2 DEF Ready, old
<1>8. share = IF HeaderOf(x.channel).kind = Direct
        THEN [p \in Participants |-> IF p = Gateway(x) THEN new - old ELSE 0]
        ELSE [p \in Participants |-> IF p = Gateway(x) THEN GatewayFee(x, old, new)
                                                       ELSE PaidTo(x, old, new, p)]
  BY DEF Shares, old, moved
<1> HIDE DEF new, share
<1>9. share = [p \in Participants |-> Cardinality(UnitsOf(x, old, new, p))]
  <2>1. CASE HeaderOf(x.channel).kind = Direct
    <3>1. \A p : Cardinality(UnitsOf(x, old, new, p)) = IF p = Gateway(x) THEN new - old ELSE 0
      BY <1>5, <2>1, DirectUnits
    <3> QED BY <1>8, <2>1, <3>1
  <2>2. CASE HeaderOf(x.channel).kind = Routed
    <3>1. \A p : Cardinality(UnitsOf(x, old, new, p))
                   = IF p = Gateway(x) THEN GatewayFee(x, old, new) ELSE PaidTo(x, old, new, p)
      BY <1>1, <1>5, <1>7, <2>2, RoutedUnits
    <3>2. HeaderOf(x.channel).kind # Direct
      BY <2>2 DEF Direct, Routed
    <3> QED BY <1>8, <3>2, <3>1
  <2> QED BY <1>6, <2>1, <2>2
<1>10. IsFiniteSet(old + 1 .. new) /\ Cardinality(old + 1 .. new) = moved
  <2>1. old + 1 \in Int /\ new \in Int
    BY <1>5
  <2>2. IsFiniteSet(old + 1 .. new) /\ Cardinality(old + 1 .. new) = IF old + 1 > new THEN 0 ELSE new - (old + 1) + 1
    BY <2>1, FS_Interval
  <2> QED BY <1>5, <2>2
<1>11. \A p \in Participants : Cardinality(UnitsOf(x, old, new, p)) \in 0 .. moved
  <2>1. ASSUME NEW p \in Participants
        PROVE  Cardinality(UnitsOf(x, old, new, p)) \in 0 .. moved
    <3>1. UnitsOf(x, old, new, p) \subseteq old + 1 .. new
      BY DEF UnitsOf
    <3>2. IsFiniteSet(UnitsOf(x, old, new, p))
          /\ Cardinality(UnitsOf(x, old, new, p)) <= Cardinality(old + 1 .. new)
      BY <1>10, <3>1, FS_Subset
    <3>3. Cardinality(UnitsOf(x, old, new, p)) \in Nat
      BY <3>2, FS_CardinalityType
    <3> QED BY <1>4, <1>10, <3>2, <3>3
  <2> QED BY <2>1
<1>12. share \in [Participants -> 0 .. moved]
  BY <1>9, <1>11
<1>13. Total(share) = moved
  <2> DEFINE U == old + 1 .. new
             o == [u \in U |-> OwnerOf(x, u)]
  <2>1. o \in [U -> Participants]
    <3>1. \A u \in U : u \in Int
      BY <1>5
    <3> QED BY <3>1, OwnerIsThere
  <2>2. CountsBy(share, Participants, U, o)
    <3>1. \A p \in Participants : UnitsOf(x, old, new, p) = {u \in U : o[u] = p}
      BY DEF UnitsOf
    <3> QED BY <1>9, <3>1 DEF CountsBy
  <2>3. IsFiniteSet(U) /\ Cardinality(U) = moved
    BY <1>10
  <2> HIDE DEF U, o
  <2> QED BY <2>1, <2>2, <2>3, TotalOfCounts
<1>14. HeaderOf(x.channel).kind = Routed => PayoutAccepted(x, old, new)
  BY <1>1, <1>5, <1>7, ValidatedIsAccepted
<1> QED BY <1>4, <1>9, <1>12, <1>13, <1>14 DEF GoodSplit, old, cap, moved, new, share

-----------------------------------------------------------------------------
(* What one record does to the money.                                      *)

\* Each of the first n units of c has one owner, who has a signature for it, and each
\* participant is paid as many units as it owns.
Owned(c, n, paid) ==
    \E owner \in [1 .. n -> Participants] :
       /\ \A u \in 1 .. n : SignedUnit(c, u, owner[u])
       /\ \A p \in Participants : paid[p] = Cardinality({u \in 1 .. n : owner[u] = p})

\* Unit by unit, what is paid stays owned.
LEMMA OwnedGrows ==
  ASSUME TypeOK, NEW x, Ready(x), NEW old \in Nat, NEW new \in Nat, old <= new,
         new > old => new <= x.target,
         HeaderOf(x.channel).kind = Routed => x.base <= old,
         NEW paid \in [Participants -> U64], NEW after,
         Owned(x.channel, old, paid),
         after = [p \in Participants |-> paid[p] + Cardinality(UnitsOf(x, old, new, p))]
  PROVE  Owned(x.channel, new, after)
<1>1. PICK owner \in [1 .. old -> Participants] :
         /\ \A u \in 1 .. old : SignedUnit(x.channel, u, owner[u])
         /\ \A p \in Participants : paid[p] = Cardinality({u \in 1 .. old : owner[u] = p})
  BY DEF Owned
<1> DEFINE both == [u \in 1 .. new |-> IF u <= old THEN owner[u] ELSE OwnerOf(x, u)]
<1>2. \A u \in 1 .. new : IF u <= old THEN u \in 1 .. old /\ both[u] = owner[u]
                                      ELSE u \in old + 1 .. new /\ both[u] = OwnerOf(x, u)
  OBVIOUS
<1>3. both \in [1 .. new -> Participants]
  <2>1. \A u \in 1 .. new : OwnerOf(x, u) \in Participants
    <3>1. \A u \in 1 .. new : u \in Int
      OBVIOUS
    <3> QED BY <3>1, OwnerIsThere
  <2>2. \A u \in 1 .. new : u <= old => owner[u] \in Participants
    OBVIOUS
  <2> QED BY <2>1, <2>2
<1>4. ASSUME NEW u \in 1 .. new
      PROVE  SignedUnit(x.channel, u, both[u])
  <2>1. CASE u <= old
    BY <1>1, <1>2, <2>1
  <2>2. CASE ~(u <= old)
    <3>1. u <= x.target /\ old < u
      BY <2>2, CommitmentFacts, NumbersAreU64 DEF Ready, U64
    <3>2. HeaderOf(x.channel).kind = Routed => x.base < u
      BY <3>1, CommitmentFacts, NumbersAreU64 DEF Ready, U64
    <3>3. Covers(x, u)
      BY <3>1, <3>2 DEF Covers
    <3>4. x \in Commitments /\ Required(HeaderOf(x.channel).kind) \subseteq signatures[x]
      BY DEF Ready
    <3>5. both[u] = OwnerOf(x, u)
      BY <1>2, <2>2
    <3> HIDE DEF both
    <3> QED BY <3>3, <3>4, <3>5 DEF SignedUnit
  <2> QED BY <2>1, <2>2
<1>5. ASSUME NEW p \in Participants
      PROVE  after[p] = Cardinality({u \in 1 .. new : both[u] = p})
  <2> DEFINE first == {u \in 1 .. old : owner[u] = p}
             then == UnitsOf(x, old, new, p)
  <2>1. {u \in 1 .. new : both[u] = p} = first \cup then
    <3>1. \A u \in 1 .. old : u \in 1 .. new /\ u <= old
      OBVIOUS
    <3>2. \A u \in old + 1 .. new : u \in 1 .. new /\ ~(u <= old)
      OBVIOUS
    <3> HIDE DEF both
    <3> QED BY <1>2, <3>1, <3>2 DEF UnitsOf
  <2>2. first \cap then = {}
    BY DEF UnitsOf
  <2>3. IsFiniteSet(first) /\ IsFiniteSet(then)
    <3>1. IsFiniteSet(1 .. old) /\ IsFiniteSet(old + 1 .. new)
      <4>1. old + 1 \in Int
        OBVIOUS
      <4> QED BY <4>1, FS_Interval
    <3>2. first \subseteq 1 .. old /\ then \subseteq old + 1 .. new
      BY DEF UnitsOf
    <3> QED BY <3>1, <3>2, FS_Subset
  <2>4. Cardinality(first) \in Nat /\ Cardinality(then) \in Nat
    BY <2>3, FS_CardinalityType
  <2>5. after[p] = Cardinality(first) + Cardinality(then)
    BY <1>1
  <2> HIDE DEF first, then, both
  <2>6. Cardinality(first \cup then) = Cardinality(first) + Cardinality(then)
    <3>1. Cardinality(first \cap then) = 0
      BY <2>2, FS_EmptySet
    <3>2. Cardinality(first \cup then)
            = Cardinality(first) + Cardinality(then) - Cardinality(first \cap then)
      BY <2>3, FS_Union
    <3> QED BY <2>4, <3>1, <3>2
  <2> QED BY <2>1, <2>5, <2>6
<1> HIDE DEF both
<1> QED BY <1>3, <1>4, <1>5 DEF Owned

\* What left each channel, and the part of it that was paid to p directly.
MovedFrom(M) == [c \in Channels |-> locked[c] - M.locked[c]]
DirectPart(f, m, p) == [c \in Channels |-> IF PaysDirectly(c, m, p) THEN f[c] ELSE 0]

\* M is the money after a part of a settlement: what left the channels is in the
\* balances of participants, who have accounts and own it; direct payments are whole.
MovedMoney(M) ==
    \A c \in Channels : /\ M.locked[c] <= locked[c]
                        /\ M.settled[c] + M.locked[c] = settled[c] + locked[c]
                        /\ M.locked[c] < locked[c] => Occupied(c)
SameTokens(M) ==
    \A m \in Mints : Total(M.available[m]) + Total(OfMint(M.locked, m)) = vault[m]
PaidMoney(M) ==
    \A m \in Mints, p \in Participants :
       /\ available[m][p] <= M.available[m][p]
       /\ available[m][p] < M.available[m][p] => <<p, m>> \in opened
       /\ available[m][p] + Total(DirectPart(MovedFrom(M), m, p)) <= M.available[m][p]
OwnedMoney(M) == \A c \in Channels : Owned(c, M.settled[c], M.paidFrom[c])
PaidOut(M) == M \in MoneySet /\ MovedMoney(M) /\ SameTokens(M) /\ PaidMoney(M) /\ OwnedMoney(M)

\* One record's effect, component by component.
PayFacts(M, k) ==
    LET c == k.channel
        m == HeaderOf(c).mint
        moved == MovedBy(M, k)
        N == Pay(M, k)
    IN  /\ c \in Channels /\ m \in Mints
        /\ N = [locked |-> N.locked, settled |-> N.settled,
                available |-> N.available, paidFrom |-> N.paidFrom]
        /\ N.locked \in [Channels -> U64] /\ N.settled \in [Channels -> U64]
        /\ N.locked[c] = M.locked[c] - moved /\ N.settled[c] = M.settled[c] + moved
        /\ \A d \in Channels \ {c} : N.locked[d] = M.locked[d] /\ N.settled[d] = M.settled[d]
                                     /\ N.paidFrom[d] = M.paidFrom[d]
        /\ N.available = [n \in Mints |-> N.available[n]]
        /\ N.paidFrom = [d \in Channels |-> N.paidFrom[d]]
        /\ \A n \in Mints \ {m} : N.available[n] = M.available[n]
        /\ N.available[m] = [p \in Participants |-> M.available[m][p] + Shares(M, k)[p]]
        /\ N.paidFrom[c] = [p \in Participants |-> M.paidFrom[c][p] + Shares(M, k)[p]]

\* This is what Pay does with a good split.
LEMMA PayEffect ==
  ASSUME TypeOK, NEW x, Ready(x), NEW M \in MoneySet, GoodSplit(M, x)
  PROVE  PayFacts(M, x)
<1> DEFINE c == x.channel
           m == HeaderOf(c).mint
           moved == MovedBy(M, x)
           share == Shares(M, x)
           N == Pay(M, x)
<1>1. c \in Channels /\ m \in Mints
  BY CommitmentFacts DEF Ready, Header
<1>2. moved \in Nat /\ moved <= M.locked[c] /\ M.settled[c] + moved <= MaxU64
  BY DEF GoodSplit
<1>3. /\ M.locked \in [Channels -> U64] /\ M.settled \in [Channels -> U64]
      /\ M.available \in [Mints -> [Participants -> U64]]
      /\ M.paidFrom \in [Channels -> [Participants -> U64]]
  BY DEF MoneySet
<1>4. /\ N = [locked |-> N.locked, settled |-> N.settled,
              available |-> N.available, paidFrom |-> N.paidFrom]
      /\ N.locked = [M.locked EXCEPT ![c] = M.locked[c] - moved]
      /\ N.settled = [M.settled EXCEPT ![c] = M.settled[c] + moved]
      /\ N.available = [M.available EXCEPT
            ![m] = [p \in Participants |-> M.available[m][p] + share[p]]]
      /\ N.paidFrom = [M.paidFrom EXCEPT
            ![c] = [p \in Participants |-> M.paidFrom[c][p] + share[p]]]
  BY DEF Pay
<1> HIDE DEF c, m, moved, share, N
<1>5. M.locked[c] - moved \in U64 /\ M.settled[c] + moved \in U64
  BY <1>1, <1>2, <1>3, NumbersAreU64 DEF U64
<1>6. /\ N.locked \in [Channels -> U64] /\ N.settled \in [Channels -> U64]
      /\ N.locked[c] = M.locked[c] - moved /\ N.settled[c] = M.settled[c] + moved
      /\ \A d \in Channels \ {c} : N.locked[d] = M.locked[d] /\ N.settled[d] = M.settled[d]
                                   /\ N.paidFrom[d] = M.paidFrom[d]
  BY <1>1, <1>3, <1>4, <1>5
<1>7. /\ N.available = [n \in Mints |-> N.available[n]]
      /\ \A n \in Mints \ {m} : N.available[n] = M.available[n]
      /\ N.available[m] = [p \in Participants |-> M.available[m][p] + share[p]]
  BY <1>1, <1>3, <1>4
<1>8. /\ N.paidFrom = [d \in Channels |-> N.paidFrom[d]]
      /\ N.paidFrom[c] = [p \in Participants |-> M.paidFrom[c][p] + share[p]]
  BY <1>1, <1>3, <1>4
<1> QED BY <1>1, <1>4, <1>6, <1>7, <1>8 DEF PayFacts, c, m, moved, share, N

\* The tokens of each mint stay as many, so no balance outgrows a u64.
LEMMA PayTokens ==
  ASSUME TypeOK, NEW x, Ready(x), NEW M \in MoneySet, SameTokens(M), GoodSplit(M, x)
  PROVE  SameTokens(Pay(M, x)) /\ Pay(M, x).available \in [Mints -> [Participants -> U64]]
<1> DEFINE c == x.channel
           m == HeaderOf(c).mint
           moved == MovedBy(M, x)
           share == Shares(M, x)
           N == Pay(M, x)
<1>1. /\ c \in Channels /\ m \in Mints
      /\ N.locked \in [Channels -> U64] /\ N.locked[c] = M.locked[c] - moved
      /\ \A d \in Channels \ {c} : N.locked[d] = M.locked[d]
      /\ N.available = [n \in Mints |-> N.available[n]]
      /\ \A n \in Mints \ {m} : N.available[n] = M.available[n]
      /\ N.available[m] = [p \in Participants |-> M.available[m][p] + share[p]]
  <2>1. PayFacts(M, x)
    BY PayEffect
  <2> QED BY <2>1 DEF PayFacts
<1>2. HeaderOf(c) # Unopened
  BY UnopenedIsNoHeader DEF Ready
<1>3. /\ moved \in Nat /\ moved <= M.locked[c]
      /\ share \in [Participants -> 0 .. moved] /\ Total(share) = moved
  BY DEF GoodSplit
<1>4. /\ M.locked \in [Channels -> U64] /\ M.available \in [Mints -> [Participants -> U64]]
  BY DEF MoneySet
<1>5. \A n \in Mints : /\ OfMint(M.locked, n) \in [Channels -> 0 .. MaxU64]
                       /\ OfMint(N.locked, n) \in [Channels -> 0 .. MaxU64]
  BY <1>1, <1>4, OfMintTypes
<1>6. \A n \in Mints : Total(M.available[n]) + Total(OfMint(M.locked, n)) = vault[n]
  BY DEF SameTokens
<1>7. \A n \in Mints : vault[n] \in 0 .. MaxU64
  BY NumbersAreU64 DEF TypeOK
<1> HIDE DEF m, moved, share, N
<1>8. ASSUME NEW n \in Mints \ {m}
      PROVE  OfMint(N.locked, n) = OfMint(M.locked, n)
  <2>1. \A d \in Channels : InMint(d, n) => d # c
    BY <1>1 DEF InMint, m
  <2> QED BY <1>1, <2>1 DEF OfMint
<1>9. Total(OfMint(M.locked, m)) = Total(OfMint(N.locked, m)) + moved
      /\ Total(OfMint(N.locked, m)) \in Nat
  <2> DEFINE f == OfMint(N.locked, m)
             h == OfMint(M.locked, m)
  <2>1. InMint(c, m)
    BY <1>2 DEF InMint, m
  <2>2. h[c] = M.locked[c] /\ f[c] = N.locked[c]
    BY <1>1, <2>1 DEF OfMint
  <2>3. M.locked[c] \in Nat
    BY <1>1, <1>4, NumbersAreU64 DEF U64
  <2>4. h[c] = f[c] + moved
    BY <1>1, <1>3, <2>2, <2>3
  <2>5. \A d \in Channels \ {c} : h[d] = f[d]
    BY <1>1 DEF OfMint
  <2>6. f \in [Channels -> 0 .. MaxU64] /\ h \in [Channels -> 0 .. MaxU64]
    BY <1>1, <1>5
  <2> HIDE DEF f, h
  <2>7. Total(h) = Total(f) + moved /\ Total(f) \in Nat
    BY <1>1, <1>3, <2>4, <2>5, <2>6, ChannelSums
  <2> QED BY <2>7 DEF f, h
<1> DEFINE top == MaxU64 + MaxU64
<1>10. /\ top \in Nat /\ M.available[m] \in [Participants -> 0 .. top]
       /\ share \in [Participants -> 0 .. top] /\ N.available[m] \in [Participants -> 0 .. top]
       /\ \A p \in Participants : N.available[m][p] = M.available[m][p] + share[p]
  <2>1. MaxU64 \in Nat /\ M.available[m] \in [Participants -> 0 .. MaxU64]
    BY <1>1, <1>4, NumbersAreU64 DEF U64
  <2>2. M.locked[c] \in 0 .. MaxU64
    BY <1>1, <1>4 DEF U64
  <2>3. share \in [Participants -> 0 .. MaxU64]
    BY <1>3, <2>1, <2>2
  <2> HIDE DEF c
  <2> QED BY <1>1, <2>1, <2>3
<1> HIDE DEF top
<1>11. Total(N.available[m]) = Total(M.available[m]) + moved
  <2> DEFINE f == M.available[m]
             h == N.available[m]
  <2>1. /\ f \in [Participants -> 0 .. top] /\ share \in [Participants -> 0 .. top]
        /\ h \in [Participants -> 0 .. top] /\ \A p \in Participants : h[p] = f[p] + share[p]
    BY <1>10
  <2> HIDE DEF f, h
  <2>2. \A a, b, d \in [Participants -> 0 .. top] :
           (\A p \in Participants : d[p] = a[p] + b[p]) => Total(d) = Total(a) + Total(b)
    <3>1. top \in Nat /\ IsFiniteSet(Participants)
      BY <1>10, FiniteInstance
    <3> QED BY <3>1, SumsAdd
  <2>3. Total(h) = Total(f) + Total(share)
    BY <2>1, <2>2
  <2> QED BY <1>3, <2>3 DEF f, h
<1>12. Total(M.available[m]) \in Nat /\ Total(N.available[m]) \in Nat
  BY <1>10, TotalIsNat, FiniteInstance
<1>13. Total(N.available[m]) + Total(OfMint(N.locked, m)) = vault[m]
  <2>1. Total(M.available[m]) + Total(OfMint(M.locked, m)) = vault[m]
    BY <1>1, <1>6
  <2> QED BY <1>3, <1>9, <1>11, <1>12, <2>1
<1>14. \A p \in Participants : N.available[m][p] <= Total(N.available[m])
  BY <1>10, EntryInTotal, FiniteInstance
<1>15. Total(N.available[m]) <= MaxU64
  <2>1. vault[m] \in 0 .. MaxU64 /\ MaxU64 \in Nat
    BY <1>1, <1>7, NumbersAreU64
  <2> QED BY <1>9, <1>12, <1>13, <2>1
<1>16. N.available[m] \in [Participants -> U64]
  <2>1. N.available[m] \in [Participants -> Nat]
    BY <1>10
  <2>2. \A p \in Participants : N.available[m][p] \in Nat /\ N.available[m][p] <= MaxU64
    BY <1>12, <1>14, <1>15, <2>1, NumbersAreU64
  <2> QED BY <2>1, <2>2, NumbersAreU64 DEF U64
<1>17. N.available \in [Mints -> [Participants -> U64]]
  <2>1. \A n \in Mints : N.available[n] \in [Participants -> U64]
    BY <1>1, <1>4, <1>16
  <2> QED BY <1>1, <2>1
<1>18. SameTokens(N)
  <2>1. ASSUME NEW n \in Mints
        PROVE  Total(N.available[n]) + Total(OfMint(N.locked, n)) = vault[n]
    BY <1>1, <1>6, <1>8, <1>13
  <2> QED BY <2>1 DEF SameTokens
<1> QED BY <1>17, <1>18 DEF N

\* Owned units make u64 payments that add up to the units.
LEMMA OwnedTotals ==
  ASSUME NEW c, NEW n \in U64, NEW paid, DOMAIN paid = Participants,
         paid = [p \in Participants |-> paid[p]], Owned(c, n, paid)
  PROVE  /\ paid \in [Participants -> U64] /\ Total(paid) = n
         /\ \A p \in Participants : paid[p] <= Cardinality({u \in 1 .. n : SignedUnit(c, u, p)})
<1>1. PICK owner \in [1 .. n -> Participants] :
         /\ \A u \in 1 .. n : SignedUnit(c, u, owner[u])
         /\ \A p \in Participants : paid[p] = Cardinality({u \in 1 .. n : owner[u] = p})
  BY DEF Owned
<1>2. n \in Nat /\ n <= MaxU64 /\ MaxU64 \in Nat
  BY NumbersAreU64 DEF U64
<1>3. IsFiniteSet(1 .. n) /\ Cardinality(1 .. n) = n
  <2>1. 1 \in Int /\ n \in Int
    BY <1>2
  <2>2. IsFiniteSet(1 .. n) /\ Cardinality(1 .. n) = IF 1 > n THEN 0 ELSE n - 1 + 1
    BY <2>1, FS_Interval
  <2> QED BY <1>2, <2>2
<1>4. ASSUME NEW p \in Participants
      PROVE  /\ paid[p] \in U64
             /\ paid[p] <= Cardinality({u \in 1 .. n : SignedUnit(c, u, p)})
  <2> DEFINE mine == {u \in 1 .. n : owner[u] = p}
             mayBe == {u \in 1 .. n : SignedUnit(c, u, p)}
  <2>1. mine \subseteq mayBe /\ mayBe \subseteq 1 .. n
    BY <1>1
  <2>2. paid[p] = Cardinality(mine)
    BY <1>1
  <2> HIDE DEF mine, mayBe
  <2>3. IsFiniteSet(mayBe) /\ Cardinality(mayBe) <= n
    <3> DEFINE U == 1 .. n
    <3>1. IsFiniteSet(U) /\ Cardinality(U) = n /\ mayBe \subseteq U
      BY <1>3, <2>1
    <3> HIDE DEF U
    <3> QED BY <3>1, FS_Subset
  <2>4. IsFiniteSet(mine) /\ Cardinality(mine) <= Cardinality(mayBe)
    BY <2>1, <2>3, FS_Subset
  <2>5. Cardinality(mine) \in Nat /\ Cardinality(mayBe) \in Nat
    BY <2>3, <2>4, FS_CardinalityType
  <2> QED BY <1>2, <2>2, <2>3, <2>4, <2>5 DEF U64, mayBe
<1>5. Total(paid) = n
  <2> DEFINE U == 1 .. n
  <2>1. CountsBy(paid, Participants, U, owner)
    BY <1>1 DEF CountsBy
  <2>2. IsFiniteSet(U) /\ Cardinality(U) = n
    BY <1>3
  <2>3. owner \in [U -> Participants]
    OBVIOUS
  <2> HIDE DEF U
  <2>4. Total(paid) = Cardinality(U)
    BY ONLY <2>1, <2>2, <2>3, TotalOfCounts
  <2> QED BY <2>2, <2>4
<1> QED BY <1>4, <1>5

\* Every unit has one owner after a record as before it.
LEMMA PayOwned ==
  ASSUME TypeOK, NEW x, Ready(x), NEW M \in MoneySet, GoodSplit(M, x), OwnedMoney(M),
         settled[x.channel] <= M.settled[x.channel]
  PROVE  OwnedMoney(Pay(M, x)) /\ Pay(M, x).paidFrom \in [Channels -> [Participants -> U64]]
<1> DEFINE c == x.channel
           moved == MovedBy(M, x)
           share == Shares(M, x)
           N == Pay(M, x)
           old == M.settled[c]
<1>1. /\ c \in Channels
      /\ N.settled \in [Channels -> U64] /\ N.settled[c] = old + moved
      /\ \A d \in Channels \ {c} : N.settled[d] = M.settled[d] /\ N.paidFrom[d] = M.paidFrom[d]
      /\ N.paidFrom = [d \in Channels |-> N.paidFrom[d]]
      /\ N.paidFrom[c] = [p \in Participants |-> M.paidFrom[c][p] + share[p]]
  <2>1. PayFacts(M, x)
    BY PayEffect
  <2> QED BY <2>1 DEF PayFacts
<1>2. /\ moved \in Nat /\ (moved > 0 => old + moved <= x.target)
      /\ \A p \in Participants : share[p] = Cardinality(UnitsOf(x, old, old + moved, p))
  BY DEF GoodSplit
<1>3. /\ M.settled \in [Channels -> U64] /\ M.paidFrom \in [Channels -> [Participants -> U64]]
  BY DEF MoneySet
<1>4. \A d \in Channels : Owned(d, M.settled[d], M.paidFrom[d])
  BY DEF OwnedMoney
<1>5. old \in Nat /\ settled[c] \in Nat /\ settled[c] <= old /\ x.base \in Nat
  BY <1>1, <1>3, CommitmentFacts, NumbersAreU64 DEF TypeOK, U64, Ready
<1>6. HeaderOf(c).kind = Routed => x.base <= old
  <2>1. HeaderOf(c).kind = Routed => x.base <= settled[c]
    BY DEF Ready
  <2> HIDE DEF c, old
  <2> QED BY <1>5, <2>1
<1> HIDE DEF moved, share, N, old
<1>7. Owned(c, old + moved, N.paidFrom[c])
  <2> DEFINE new == old + moved
             paid == M.paidFrom[c]
             after == N.paidFrom[c]
  <2>1. new \in Nat /\ old <= new /\ (new > old => new <= x.target)
    BY <1>2, <1>5
  <2>2. after = [p \in Participants |-> paid[p] + Cardinality(UnitsOf(x, old, new, p))]
    BY <1>1, <1>2
  <2>3. paid \in [Participants -> U64] /\ Owned(c, old, paid)
    BY <1>1, <1>3, <1>4 DEF old
  <2> HIDE DEF new, paid, after
  <2>4. Owned(c, new, after)
    BY <1>5, <1>6, <2>1, <2>2, <2>3, OwnedGrows
  <2> QED BY <2>4 DEF new, after
<1>8. \A d \in Channels : Owned(d, N.settled[d], N.paidFrom[d])
  BY <1>1, <1>4, <1>7
<1>9. \A d \in Channels : N.paidFrom[d] = [p \in Participants |-> N.paidFrom[d][p]]
  <2>1. N.paidFrom[c] = [p \in Participants |-> N.paidFrom[c][p]]
    BY <1>1
  <2>2. \A d \in Channels : M.paidFrom[d] = [p \in Participants |-> M.paidFrom[d][p]]
    BY <1>3
  <2> QED BY <1>1, <2>1, <2>2
<1>10. \A d \in Channels : N.paidFrom[d] \in [Participants -> U64]
  <2> SUFFICES ASSUME NEW d \in Channels
               PROVE  N.paidFrom[d] \in [Participants -> U64]
    OBVIOUS
  <2>1. N.settled[d] \in U64 /\ Owned(d, N.settled[d], N.paidFrom[d])
    BY <1>1, <1>8
  <2>2. N.paidFrom[d] = [p \in Participants |-> N.paidFrom[d][p]] /\ DOMAIN N.paidFrom[d] = Participants
    BY <1>9
  <2> QED BY <2>1, <2>2, OwnedTotals
<1>11. N.paidFrom \in [Channels -> [Participants -> U64]]
  BY <1>1, <1>10
<1> QED BY <1>8, <1>11 DEF OwnedMoney, N

\* What a record takes from its channel is collateral that was there.
LEMMA PayMoved ==
  ASSUME TypeOK, NEW x, Ready(x), NEW M \in MoneySet, GoodSplit(M, x), MovedMoney(M)
  PROVE  MovedMoney(Pay(M, x))
<1> DEFINE c == x.channel
           moved == MovedBy(M, x)
           N == Pay(M, x)
<1>1. /\ c \in Channels
      /\ N.locked[c] = M.locked[c] - moved /\ N.settled[c] = M.settled[c] + moved
      /\ \A d \in Channels \ {c} : N.locked[d] = M.locked[d] /\ N.settled[d] = M.settled[d]
  <2>1. PayFacts(M, x)
    BY PayEffect
  <2> QED BY <2>1 DEF PayFacts
<1>2. moved \in Nat /\ moved <= M.locked[c] /\ Occupied(c)
  BY DEF GoodSplit, Ready
<1>3. /\ locked[c] \in Nat /\ settled[c] \in Nat /\ M.locked[c] \in Nat /\ M.settled[c] \in Nat
  BY <1>1, NumbersAreU64 DEF MoneySet, TypeOK, U64
<1> HIDE DEF c, moved, N
<1>4. /\ N.locked[c] <= locked[c]
      /\ N.settled[c] + N.locked[c] = settled[c] + locked[c]
  BY <1>1, <1>2, <1>3 DEF MovedMoney
<1>5. \A d \in Channels \ {c} :
        /\ N.locked[d] <= locked[d]
        /\ N.settled[d] + N.locked[d] = settled[d] + locked[d]
        /\ N.locked[d] < locked[d] => Occupied(d)
  BY <1>1 DEF MovedMoney
<1>6. MovedMoney(N)
  BY <1>2, <1>4, <1>5 DEF MovedMoney
<1> QED BY <1>6 DEF N

\* What left the channels that pay p directly is a sum of u64 amounts.
LEMMA DirectPartTypes ==
  ASSUME TypeOK, NEW M \in MoneySet, MovedMoney(M), NEW m, NEW p
  PROVE  DirectPart(MovedFrom(M), m, p) \in [Channels -> 0 .. MaxU64]
<1>1. \A c \in Channels : locked[c] - M.locked[c] \in 0 .. MaxU64
  <2> SUFFICES ASSUME NEW c \in Channels
               PROVE  locked[c] - M.locked[c] \in 0 .. MaxU64
    OBVIOUS
  <2>1. locked[c] \in 0 .. MaxU64 /\ M.locked[c] \in 0 .. MaxU64 /\ M.locked[c] <= locked[c]
    BY DEF TypeOK, MoneySet, U64, MovedMoney
  <2> QED BY <2>1, NumbersAreU64
<1>2. 0 \in 0 .. MaxU64
  BY NumbersAreU64
<1>3. \A c \in Channels : MovedFrom(M)[c] \in 0 .. MaxU64
  BY <1>1 DEF MovedFrom
<1> QED BY <1>2, <1>3 DEF DirectPart

\* One more direct payment counts for the payee of its channel and for nobody else.
LEMMA PayDirect ==
  ASSUME TypeOK, NEW x, Ready(x), NEW M \in MoneySet, MovedMoney(M), GoodSplit(M, x),
         Pay(M, x) \in MoneySet, MovedMoney(Pay(M, x)), NEW n \in Mints, NEW p \in Participants
  PROVE  /\ Total(DirectPart(MovedFrom(M), n, p)) \in Nat
         /\ Total(DirectPart(MovedFrom(Pay(M, x)), n, p))
              = Total(DirectPart(MovedFrom(M), n, p))
                  + (IF PaysDirectly(x.channel, n, p) THEN MovedBy(M, x) ELSE 0)
<1> DEFINE c == x.channel
           moved == MovedBy(M, x)
           N == Pay(M, x)
           f == DirectPart(MovedFrom(M), n, p)
           h == DirectPart(MovedFrom(N), n, p)
<1>1. /\ c \in Channels /\ N.locked[c] = M.locked[c] - moved
      /\ \A d \in Channels \ {c} : N.locked[d] = M.locked[d]
  <2>1. PayFacts(M, x)
    BY PayEffect
  <2> QED BY <2>1 DEF PayFacts
<1>2. moved \in Nat /\ locked[c] \in Nat /\ M.locked[c] \in Nat
  BY <1>1, NumbersAreU64 DEF GoodSplit, TypeOK, MoneySet, U64
<1>3. f \in [Channels -> 0 .. MaxU64] /\ h \in [Channels -> 0 .. MaxU64]
  BY DirectPartTypes
<1> HIDE DEF c, moved, N
<1>4. \A d \in Channels \ {c} : h[d] = f[d]
  BY <1>1 DEF DirectPart, MovedFrom
<1>5. h[c] = f[c] + (IF PaysDirectly(c, n, p) THEN moved ELSE 0)
  BY <1>1, <1>2 DEF DirectPart, MovedFrom
<1> DEFINE more == IF PaysDirectly(c, n, p) THEN moved ELSE 0
<1>6. more \in Nat /\ h[c] = f[c] + more
  BY <1>2, <1>5
<1> HIDE DEF f, h, more
<1>7. Total(h) = Total(f) + more /\ Total(f) \in Nat
  BY <1>1, <1>3, <1>4, <1>6, ChannelSums
<1> QED BY <1>7 DEF c, moved, N, f, h, more

\* Balances grow by what their owners are paid, direct payments included.
LEMMA PayPaid ==
  ASSUME TypeOK, NEW x, Ready(x), NEW M \in MoneySet, MovedMoney(M), GoodSplit(M, x),
         Pay(M, x) \in MoneySet, MovedMoney(Pay(M, x)), PaidMoney(M)
  PROVE  PaidMoney(Pay(M, x))
<1> DEFINE c == x.channel
           m == HeaderOf(c).mint
           moved == MovedBy(M, x)
           share == Shares(M, x)
           N == Pay(M, x)
           direct(A, n, p) == Total(DirectPart(MovedFrom(A), n, p))
<1>1. /\ c \in Channels /\ m \in Mints
      /\ \A n \in Mints \ {m} : N.available[n] = M.available[n]
      /\ N.available[m] = [p \in Participants |-> M.available[m][p] + share[p]]
  <2>1. PayFacts(M, x)
    BY PayEffect
  <2> QED BY <2>1 DEF PayFacts
<1>2. /\ moved \in Nat /\ share \in [Participants -> 0 .. moved]
      /\ M.settled[c] \in Nat
      /\ \A p \in Participants :
           share[p] = Cardinality(UnitsOf(x, M.settled[c], M.settled[c] + moved, p))
  BY <1>1, NumbersAreU64 DEF GoodSplit, MoneySet, U64
<1>3. ASSUME NEW p \in Participants, share[p] > 0
      PROVE  <<p, m>> \in opened
  <2>1. UnitsOf(x, M.settled[c], M.settled[c] + moved, p) # {}
    <3> DEFINE units == UnitsOf(x, M.settled[c], M.settled[c] + moved, p)
    <3>1. share[p] = Cardinality(units) /\ share[p] > 0
      BY <1>2, <1>3
    <3>2. Cardinality({}) = 0
      BY FS_EmptySet
    <3> HIDE DEF units, share
    <3>3. units # {}
      BY <3>1, <3>2
    <3> QED BY <3>3 DEF units
  <2>2. PICK u \in M.settled[c] + 1 .. M.settled[c] + moved : OwnerOf(x, u) = p
    BY <2>1 DEF UnitsOf
  <2>3. u \in Int
    BY <1>2
  <2> QED BY <2>2, <2>3, OwnerIsThere
<1>4. ASSUME NEW p \in Participants, NEW n \in Mints, PaysDirectly(c, n, p)
      PROVE  n = m /\ share[p] = moved
  <2>1. HeaderOf(c).kind = Direct /\ p = Gateway(x) /\ n = m
    BY <1>4 DEF PaysDirectly, InMint, Gateway
  <2>2. M.settled[c] + moved \in Nat /\ M.settled[c] <= M.settled[c] + moved
    BY <1>2
  <2>3. Cardinality(UnitsOf(x, M.settled[c], M.settled[c] + moved, p))
          = IF p = Gateway(x) THEN (M.settled[c] + moved) - M.settled[c] ELSE 0
    BY <1>2, <2>1, <2>2, DirectUnits
  <2> QED BY <1>2, <2>1, <2>3
<1>5. \A n \in Mints, p \in Participants :
         /\ direct(M, n, p) \in Nat
         /\ direct(N, n, p) = direct(M, n, p) + (IF PaysDirectly(c, n, p) THEN moved ELSE 0)
  BY PayDirect
<1>6. \A n \in Mints, p \in Participants :
         /\ available[n][p] \in Nat /\ M.available[n][p] \in Nat
         /\ available[n][p] <= M.available[n][p]
         /\ available[n][p] < M.available[n][p] => <<p, n>> \in opened
         /\ available[n][p] + direct(M, n, p) <= M.available[n][p]
  <2>1. \A n \in Mints, p \in Participants : available[n][p] \in Nat /\ M.available[n][p] \in Nat
    BY NumbersAreU64 DEF TypeOK, MoneySet, U64
  <2> QED BY <2>1 DEF PaidMoney
<1> HIDE DEF c, m, moved, share, N, direct
<1>7. ASSUME NEW n \in Mints, NEW p \in Participants
      PROVE  /\ available[n][p] <= N.available[n][p]
             /\ available[n][p] < N.available[n][p] => <<p, n>> \in opened
             /\ available[n][p] + direct(N, n, p) <= N.available[n][p]
  <2>1. CASE n = m
    <3>1. N.available[n][p] = M.available[n][p] + share[p] /\ share[p] \in Nat
      BY <1>1, <1>2, <2>1
    <3>2. CASE PaysDirectly(c, n, p)
      BY <1>2, <1>3, <1>4, <1>5, <1>6, <2>1, <3>1, <3>2
    <3>3. CASE ~PaysDirectly(c, n, p)
      BY <1>3, <1>5, <1>6, <2>1, <3>1, <3>3
    <3> QED BY <3>2, <3>3
  <2>2. CASE n # m
    <3>1. N.available[n] = M.available[n]
      BY <1>1, <2>2
    <3>2. ~PaysDirectly(c, n, p)
      BY <1>4, <2>2
    <3> QED BY <1>5, <1>6, <3>1, <3>2
  <2> QED BY <2>1, <2>2
<1>8. PaidMoney(N)
  BY <1>7 DEF PaidMoney, direct
<1> QED BY <1>8 DEF N

\* Paying a ready record keeps the money in order.
LEMMA PayKeeps ==
  ASSUME TypeOK, NEW x, Ready(x), NEW M, PaidOut(M)
  PROVE  PaidOut(Pay(M, x)) /\ AmountsAccepted(M, x) /\ GoodSplit(M, x)
<1> DEFINE c == x.channel
           m == HeaderOf(c).mint
           N == Pay(M, x)
<1>1. /\ M \in MoneySet /\ MovedMoney(M) /\ SameTokens(M) /\ PaidMoney(M) /\ OwnedMoney(M)
      /\ c \in Channels
  BY CommitmentFacts DEF PaidOut, Ready
<1>2. settled[c] <= M.settled[c]
  <2>1. /\ settled[c] \in Nat /\ locked[c] \in Nat /\ M.settled[c] \in Nat /\ M.locked[c] \in Nat
    BY <1>1, NumbersAreU64 DEF TypeOK, MoneySet, U64
  <2>2. M.locked[c] <= locked[c] /\ M.settled[c] + M.locked[c] = settled[c] + locked[c]
    BY <1>1 DEF MovedMoney
  <2> HIDE DEF c
  <2> QED BY <2>1, <2>2
<1>3. GoodSplit(M, x)
  BY <1>1, <1>2, ReadySplits
<1>4. PayFacts(M, x)
  BY <1>1, <1>3, PayEffect
<1>5. SameTokens(N) /\ N.available \in [Mints -> [Participants -> U64]]
  BY <1>1, <1>3, PayTokens
<1>6. OwnedMoney(N) /\ N.paidFrom \in [Channels -> [Participants -> U64]]
  BY <1>1, <1>2, <1>3, PayOwned
<1>7. MovedMoney(N)
  BY <1>1, <1>3, PayMoved
<1>8. N \in MoneySet
  <2>1. /\ N = [locked |-> N.locked, settled |-> N.settled,
                available |-> N.available, paidFrom |-> N.paidFrom]
        /\ N.locked \in [Channels -> U64] /\ N.settled \in [Channels -> U64]
    BY <1>4 DEF PayFacts
  <2> HIDE DEF N
  <2> QED BY <1>5, <1>6, <2>1 DEF MoneySet
<1>9. PaidMoney(N)
  BY <1>1, <1>3, <1>7, <1>8, PayPaid
<1>10. AmountsAccepted(M, x)
  <2>1. HeaderOf(c).kind = Routed => PayoutAccepted(x, M.settled[c], M.settled[c] + MovedBy(M, x))
    BY <1>3 DEF GoodSplit
  <2>2. \A p \in Participants : M.available[m][p] + Shares(M, x)[p] <= MaxU64
    <3>1. N.available[m] = [p \in Participants |-> M.available[m][p] + Shares(M, x)[p]] /\ m \in Mints
      BY <1>4 DEF PayFacts
    <3> HIDE DEF N, m
    <3>2. \A p \in Participants : N.available[m][p] <= MaxU64
      BY <1>5, <3>1, NumbersAreU64 DEF U64
    <3> QED BY <3>1, <3>2
  <2> QED BY <2>1, <2>2 DEF AmountsAccepted
<1> QED BY <1>3, <1>5, <1>6, <1>7, <1>8, <1>9, <1>10 DEF PaidOut

-----------------------------------------------------------------------------
(* What an instruction does to the money.                                  *)

\* The money between instructions: solvent, in accounts, each unit paid to its owner.
PaidOwners == \A c \in Channels : Owned(c, settled[c], paidFrom[c])
MoneyInOrder ==
    /\ TypeOK /\ NothingOutsideAccounts /\ Solvency
    /\ paidFrom \in [Channels -> [Participants -> U64]]
    /\ PaidOwners

\* Before the first record nothing has moved.
LEMMA NothingPaidYet ==
  ASSUME MoneyInOrder
  PROVE  PaidOut(Money)
<1>1. /\ Money.locked = locked /\ Money.settled = settled /\ Money.available = available
      /\ Money.paidFrom = paidFrom
  BY DEF Money
<1>2. Money \in MoneySet
  BY DEF Money, MoneySet, MoneyInOrder, TypeOK
<1> HIDE DEF Money
<1>3. \A c \in Channels : locked[c] \in Nat /\ settled[c] \in Nat
  BY NumbersAreU64 DEF MoneyInOrder, TypeOK, U64
<1>4. MovedMoney(Money)
  BY <1>1, <1>3 DEF MovedMoney
<1>5. SameTokens(Money)
  <2>1. ASSUME NEW m \in Mints
        PROVE  Total(available[m]) + Total(OfMint(locked, m)) = vault[m]
    <3>1. vault[m] = Total(available[m]) + Total(OfMint(locked, m))
      BY DEF MoneyInOrder, Solvency
    <3> QED BY <3>1
  <2> QED BY <1>1, <2>1 DEF SameTokens
<1>6. ASSUME NEW m \in Mints, NEW p \in Participants
      PROVE  available[m][p] \in Nat /\ Total(DirectPart(MovedFrom(Money), m, p)) = 0
  <2>1. \A c \in Channels : MovedFrom(Money)[c] = 0
    BY <1>1, <1>3 DEF MovedFrom
  <2>2. DirectPart(MovedFrom(Money), m, p) \in [Channels -> 0 .. 0]
    BY <2>1 DEF DirectPart
  <2>3. Total(DirectPart(MovedFrom(Money), m, p)) = 0
    <3> DEFINE f == DirectPart(MovedFrom(Money), m, p)
    <3>1. f \in [Channels -> 0 .. 0]
      BY <2>2
    <3> HIDE DEF f
    <3>2. Total(f) = 0
      BY <3>1, TotalOfNothing
    <3> QED BY <3>2 DEF f
  <2>4. available[m][p] \in Nat
    BY NumbersAreU64 DEF MoneyInOrder, TypeOK, U64
  <2> QED BY <2>3, <2>4
<1>7. PaidMoney(Money)
  <2>1. ASSUME NEW m \in Mints, NEW p \in Participants
        PROVE  /\ available[m][p] <= available[m][p]
               /\ ~(available[m][p] < available[m][p])
               /\ available[m][p] + Total(DirectPart(MovedFrom(Money), m, p)) <= available[m][p]
    BY <1>6
  <2> QED BY <1>1, <2>1 DEF PaidMoney
<1>8. OwnedMoney(Money)
  BY <1>1 DEF OwnedMoney, MoneyInOrder, PaidOwners
<1> QED BY <1>2, <1>4, <1>5, <1>7, <1>8 DEF PaidOut

\* What MoneyAfter is: after each record the money is in order.
PaidInTurn(after, s, order) ==
    /\ after[0] = Money
    /\ \A a \in 1 .. Len(order) : after[a] = Pay(after[a - 1], staging[s].slots[order[a]].com)
    /\ \A a \in 0 .. Len(order) : PaidOut(after[a])

\* The function that MoneyAfter picks exists and runs through money in order, record by
\* record, when every record is ready.
LEMMA MoneyAfterIs ==
  ASSUME MoneyInOrder, NEW s, NEW order, Len(order) \in Nat,
         \A a \in 1 .. Len(order) : Ready(staging[s].slots[order[a]].com)
  PROVE  PaidInTurn(MoneyAfter(s, order), s, order)
<1> DEFINE n == Len(order)
           com(a) == staging[s].slots[order[a]].com
           h == MoneyAfter(s, order)
           S == {M \in MoneySet : PaidOut(M)}
           step == [a \in 1 .. n |-> [M \in S |-> Pay(M, com(a))]]
<1>0. TypeOK
  BY DEF MoneyInOrder
<1>1. Money \in S
  <2>1. PaidOut(Money)
    BY NothingPaidYet
  <2> QED BY <2>1 DEF PaidOut
<1>2. ASSUME NEW a \in 1 .. n, NEW M \in S
      PROVE  Pay(M, com(a)) \in S
  <2>1. Ready(com(a)) /\ PaidOut(M)
    OBVIOUS
  <2> HIDE DEF com
  <2>2. PaidOut(Pay(M, com(a)))
    BY <1>0, <2>1, PayKeeps
  <2> QED BY <2>2 DEF PaidOut
<1>3. step \in [1 .. n -> [S -> S]]
  <2>1. \A a \in 1 .. n : [M \in S |-> Pay(M, com(a))] \in [S -> S]
    <3> HIDE DEF S, com
    <3> QED BY <1>2
  <2> QED BY <2>1
<1>4. \E f : Unfolds(f, S, n, Money, step)
  <2> HIDE DEF S, step
  <2> QED BY <1>1, <1>3, Recursion
<1> HIDE DEF S, com
<1>5. \E f : f = [a \in 0 .. n |-> IF a = 0 THEN Money ELSE Pay(f[a - 1], com(a))]
  <2>1. PICK f : Unfolds(f, S, n, Money, step)
    BY <1>4
  <2>2. f \in [0 .. n -> S] /\ f[0] = Money /\ \A a \in 1 .. n : f[a] = step[a][f[a - 1]]
    BY <2>1 DEF Unfolds
  <2>3. ASSUME NEW a \in 1 .. n
        PROVE  f[a] = Pay(f[a - 1], com(a))
    <3>1. a - 1 \in 0 .. n
      OBVIOUS
    <3>2. f[a - 1] \in S
      BY <2>2, <3>1
    <3> QED BY <2>2, <3>2
  <2>4. f = [a \in 0 .. n |-> f[a]]
    BY <2>2
  <2>5. \A a \in 0 .. n : a = 0 \/ a \in 1 .. n
    OBVIOUS
  <2>6. f = [a \in 0 .. n |-> IF a = 0 THEN Money ELSE Pay(f[a - 1], com(a))]
    BY <2>2, <2>3, <2>4, <2>5
  <2> QED BY <2>6
<1>6. h = [a \in 0 .. n |-> IF a = 0 THEN Money ELSE Pay(h[a - 1], com(a))]
  BY <1>5, Zenon DEF MoneyAfter, com
<1> HIDE DEF h
<1>7. h[0] = Money /\ \A a \in 1 .. n : h[a] = Pay(h[a - 1], com(a))
  <2>1. 0 \in 0 .. n /\ \A a \in 1 .. n : a \in 0 .. n /\ a # 0
    OBVIOUS
  <2> HIDE DEF n
  <2> QED BY <1>6, <2>1
<1> DEFINE A == {a \in 0 .. n : h[a] \in S}
<1>8. 0 \in A
  BY <1>1, <1>7
<1>9. \A a \in 0 .. n - 1 : a \in A => a + 1 \in A
  <2> SUFFICES ASSUME NEW a \in 0 .. n - 1, h[a] \in S
               PROVE  h[a + 1] \in S
    OBVIOUS
  <2>1. a + 1 \in 1 .. n /\ (a + 1) - 1 = a
    OBVIOUS
  <2> QED BY <1>2, <1>7, <2>1
<1>10. 0 .. n \subseteq A
  <2> HIDE DEF A
  <2> QED BY <1>8, <1>9, Induction
<1>11. \A a \in 0 .. n : PaidOut(h[a])
  BY <1>10 DEF S
<1> QED BY <1>7, <1>11 DEF PaidInTurn, h, com

\* Money that is paid out is a settlement as Custody promises it.
LEMMA PaidOutSettles ==
  ASSUME MoneyInOrder, NEW M, PaidOut(M),
         locked' = M.locked, settled' = M.settled, available' = M.available,
         UNCHANGED <<now, tokenVars, vault, opened, identity, pending>>
  PROVE  SettleChannels
<1> DEFINE moved == [c \in Channels |-> locked[c] - M.locked[c]]
           paid == [m \in Mints |-> [p \in Participants |-> M.available[m][p] - available[m][p]]]
<1>1. /\ M \in MoneySet /\ MovedMoney(M) /\ SameTokens(M) /\ PaidMoney(M)
      /\ TypeOK /\ Solvency
  BY DEF PaidOut, MoneyInOrder
<1>2. /\ M.locked \in [Channels -> U64] /\ M.settled \in [Channels -> U64]
      /\ M.available \in [Mints -> [Participants -> U64]]
  BY <1>1 DEF MoneySet
<1>3. ASSUME NEW c \in Channels
      PROVE  /\ moved[c] \in U64 /\ moved[c] <= locked[c] /\ (moved[c] > 0 => Occupied(c))
             /\ settled[c] + moved[c] <= MaxU64
             /\ M.locked[c] = locked[c] - moved[c] /\ M.settled[c] = settled[c] + moved[c]
             /\ locked[c] = M.locked[c] + moved[c]
  <2>1. /\ locked[c] \in 0 .. MaxU64 /\ M.locked[c] \in 0 .. MaxU64
        /\ settled[c] \in 0 .. MaxU64 /\ M.settled[c] \in 0 .. MaxU64
    BY <1>1, <1>2 DEF TypeOK, U64
  <2>2. /\ M.locked[c] <= locked[c] /\ M.settled[c] + M.locked[c] = settled[c] + locked[c]
        /\ M.locked[c] < locked[c] => Occupied(c)
    BY <1>1 DEF MovedMoney
  <2> QED BY <2>1, <2>2, NumbersAreU64 DEF U64
<1>4. ASSUME NEW m \in Mints, NEW p \in Participants
      PROVE  /\ paid[m][p] \in U64 /\ M.available[m][p] = available[m][p] + paid[m][p]
             /\ available[m][p] + paid[m][p] <= MaxU64
             /\ paid[m][p] > 0 => <<p, m>> \in opened
  <2>1. available[m][p] \in 0 .. MaxU64 /\ M.available[m][p] \in 0 .. MaxU64
    BY <1>1, <1>2 DEF TypeOK, U64
  <2>2. /\ available[m][p] <= M.available[m][p]
        /\ available[m][p] < M.available[m][p] => <<p, m>> \in opened
    BY <1>1 DEF PaidMoney
  <2> QED BY <2>1, <2>2, NumbersAreU64 DEF U64
<1>5. moved \in Movable
  BY <1>3 DEF Movable
<1>6. paid \in Payouts
  BY <1>4 DEF Payouts
<1>7. ASSUME NEW m \in Mints, NEW p \in Participants
      PROVE  paid[m][p] >= Total([c \in Channels |-> IF PaysDirectly(c, m, p) THEN moved[c] ELSE 0])
  <2> DEFINE part == Total(DirectPart(MovedFrom(M), m, p))
  <2>1. part = Total([c \in Channels |-> IF PaysDirectly(c, m, p) THEN moved[c] ELSE 0])
    BY DEF DirectPart, MovedFrom
  <2>2. part \in Nat
    <3> DEFINE f == DirectPart(MovedFrom(M), m, p)
    <3>1. f \in [Channels -> 0 .. MaxU64]
      BY <1>1, DirectPartTypes
    <3> HIDE DEF f
    <3>2. Total(f) \in Nat
      BY <3>1, ChannelSums
    <3> QED BY <3>2 DEF f
  <2>3. available[m][p] + part <= M.available[m][p]
    BY <1>1 DEF PaidMoney
  <2>4. available[m][p] \in Nat /\ paid[m][p] \in Nat /\ M.available[m][p] = available[m][p] + paid[m][p]
    <3>1. available[m][p] \in Nat
      BY <1>1, NumbersAreU64 DEF TypeOK, U64
    <3>2. paid[m][p] \in U64 /\ M.available[m][p] = available[m][p] + paid[m][p]
      BY <1>4
    <3> HIDE DEF paid
    <3> QED BY <3>1, <3>2, NumbersAreU64 DEF U64
  <2> HIDE DEF part, paid, moved
  <2>5. paid[m][p] >= part
    BY <2>2, <2>3, <2>4
  <2> QED BY <2>1, <2>5
<1>8. ASSUME NEW m \in Mints
      PROVE  Total(paid[m]) = Total(OfMint(moved, m))
  <2> DEFINE f == available[m]
             g == paid[m]
             h == M.available[m]
             lf == OfMint(M.locked, m)
             lg == OfMint(moved, m)
             lh == OfMint(locked, m)
  <2>1. /\ f \in [Participants -> 0 .. MaxU64] /\ h \in [Participants -> 0 .. MaxU64]
        /\ g \in [Participants -> 0 .. MaxU64]
        /\ \A p \in Participants : h[p] = f[p] + g[p]
    BY <1>1, <1>2, <1>4 DEF TypeOK, U64
  <2>2. moved \in [Channels -> U64] /\ locked \in [Channels -> U64]
    BY <1>1, <1>3 DEF TypeOK
  <2>3. /\ lf \in [Channels -> 0 .. MaxU64] /\ lg \in [Channels -> 0 .. MaxU64]
        /\ lh \in [Channels -> 0 .. MaxU64]
    <3> HIDE DEF moved
    <3> QED BY <1>2, <2>2, OfMintTypes
  <2>4. \A c \in Channels : lh[c] = lf[c] + lg[c]
    <3> HIDE DEF moved
    <3> QED BY <1>3 DEF OfMint
  <2>5. f = available[m] /\ h = M.available[m] /\ lf = OfMint(M.locked, m) /\ lh = OfMint(locked, m)
    OBVIOUS
  <2> HIDE DEF f, g, h, lf, lg, lh, moved, paid
  <2>6. Total(h) = Total(f) + Total(g) /\ Total(f) \in Nat /\ Total(g) \in Nat /\ Total(h) \in Nat
    BY <2>1, BalanceSums
  <2>7. Total(lh) = Total(lf) + Total(lg) /\ Total(lf) \in Nat /\ Total(lg) \in Nat /\ Total(lh) \in Nat
    BY <2>3, <2>4, ChannelSums
  <2>8. Total(h) + Total(lf) = vault[m] /\ vault[m] = Total(f) + Total(lh)
    BY <1>1, <2>5 DEF SameTokens, Solvency
  <2>9. Total(g) = Total(lg)
    BY <2>6, <2>7, <2>8
  <2> QED BY <2>9 DEF g, lg
<1>9. locked' = [c \in Channels |-> locked[c] - moved[c]]
  BY <1>2, <1>3
<1>10. settled' = [c \in Channels |-> settled[c] + moved[c]]
  BY <1>2, <1>3
<1>11. available' = [m \in Mints |-> [p \in Participants |-> available[m][p] + paid[m][p]]]
  BY <1>2, <1>4
<1> HIDE DEF moved, paid
<1>12. Settle(moved, paid)
  BY <1>3, <1>4, <1>7, <1>8, <1>9, <1>10, <1>11 DEF Settle
<1> QED BY <1>5, <1>6, <1>12 DEF SettleChannels

-----------------------------------------------------------------------------
(* The inductive invariant of verdicts.                                    *)

BufferWith(route) ==
    [open : {TRUE}, kind : Kinds, sealed : BOOLEAN, route : {route},
     staged : SUBSET Indices, slots : [Indices -> Record \cup {Blank}]]
ResultSet ==
    [open : {TRUE}, kind : Kinds, count : 0 .. BatchSize, verified : BOOLEAN, failed : BOOLEAN,
     bitmap : SUBSET Indices, applied : SUBSET Indices, offset : Offsets \cup {0},
     instance : Nat]
CompSet ==
    [open : {TRUE}, instance : Nat, target : Stagings, kind : Kinds, ran : BOOLEAN]
OutputSet ==
    [offset : Offsets, instance : Nat, target : Stagings, kind : Kinds, failure : BOOLEAN,
     bits : SUBSET Indices]

IsBuffer(b) == b = Closed \/ b \in BufferWith(b.route)

Types ==
    /\ DOMAIN staging = Stagings /\ \A s \in Stagings : IsBuffer(staging[s])
    /\ DOMAIN result = Stagings /\ \A s \in Stagings : result[s] \in ResultSet \cup {Closed}
    /\ comp \in [Offsets -> CompSet \cup {Closed}]
    /\ outputs \subseteq OutputSet
    /\ instance \in Nat
    /\ signatures \in [Commitments -> SUBSET Signers]

\* A buffer and its result are opened and closed together.
Paired == \A s \in Stagings : Account(staging[s]) <=> Account(result[s])

\* No computation or output carries an instance that was not given out yet.
NoneFromTheFuture ==
    /\ \A o \in Offsets : Account(comp[o]) => comp[o].instance <= instance
    /\ \A out \in outputs : out.instance <= instance

\* The bits that the circuit gives for this buffer.
Bits(b) == {i \in Indices : Verifies(b.slots[i], b.kind)}

\* A result that is bound to an instance belongs to a sealed buffer, and everything
\* that carries this instance is about this buffer as it is.
Bound(s) ==
    LET b == staging[s]
        r == result[s]
    IN  /\ b.sealed /\ b.kind = r.kind
        /\ r.count \in 1 .. BatchSize /\ 0 .. r.count - 1 \subseteq b.staged
        /\ r.instance <= instance
        /\ \A o \in Offsets : Account(comp[o]) /\ comp[o].instance = r.instance
                                => comp[o].target = s /\ comp[o].kind = r.kind
        /\ \A out \in outputs : out.instance = r.instance /\ ~out.failure => out.bits = Bits(b)

BoundResults == \A s \in Stagings : Account(result[s]) /\ result[s].offset # 0 => Bound(s)

\* A verdict comes only to a bound result, and is what the circuit says of the records.
Verdicts ==
    \A s \in Stagings : Account(result[s]) /\ result[s].verified =>
       /\ result[s].offset # 0
       /\ result[s].bitmap = {i \in 0 .. result[s].count - 1 : i \in Bits(staging[s])}

\* What a staged record shows as signed was signed.
SignedInBuffer ==
    \A s \in Stagings : Account(staging[s]) =>
       \A i \in Indices : staging[s].slots[i] # Blank =>
          /\ staging[s].slots[i].com \in Commitments
          /\ staging[s].slots[i].signed \subseteq signatures[staging[s].slots[i].com]

\* An unsealed buffer's result is bound to nothing.
Unbound ==
    \A s \in Stagings : Account(staging[s]) /\ ~staging[s].sealed => result[s].offset = 0

VInv == Types /\ Paired /\ NoneFromTheFuture /\ BoundResults /\ Verdicts /\ SignedInBuffer /\ Unbound

-----------------------------------------------------------------------------
(* Facts about the records the state is made of.                           *)

\* Indices of a batch.
LEMMA IndexFacts == BatchSize \in Nat /\ BatchSize >= 1 /\ 0 \in Indices
                    /\ 0 \notin Offsets /\ Indices \subseteq Nat
BY BatchesNotEmpty DEF Indices

\* A closed account is none of the open ones.
LEMMA ClosedFacts ==
    /\ ~Account(Closed)
    /\ \A b : b \in BufferWith(b.route) => Account(b)
    /\ \A r \in ResultSet : Account(r)
    /\ \A c \in CompSet : Account(c)
BY DEF Account, Closed, BufferWith, ResultSet, CompSet

\* A zeroed record verifies nothing and is no staged record.
LEMMA BlankFacts == \A k \in Kinds : ~Verifies(Blank, k)
BY DEF Verifies

\* What ClearedResult and EmptyBuffer are.
LEMMA ClearedFacts ==
    ASSUME NEW k \in Kinds, NEW n \in 0 .. BatchSize
    PROVE  /\ ClearedResult(k, n) \in ResultSet
           /\ ClearedResult(k, n).offset = 0 /\ ~ClearedResult(k, n).verified
           /\ EmptyBuffer(k) \in BufferWith(NoRoute) /\ EmptyBuffer(k).route = NoRoute
           /\ ~EmptyBuffer(k).sealed /\ EmptyBuffer(k).kind = k
           /\ \A i \in Indices : EmptyBuffer(k).slots[i] = Blank
<1>1. ClearedResult(k, n) \in ResultSet
  BY DEF ClearedResult, ResultSet
<1>2. EmptyBuffer(k) \in BufferWith(NoRoute)
  BY DEF EmptyBuffer, BufferWith
<1> QED BY <1>1, <1>2 DEF ClearedResult, EmptyBuffer

-----------------------------------------------------------------------------
(* Initial states.                                                         *)

\* Nothing is staged or bound; whoever signed has signed.
LEMMA InitVerdicts == Funded /\ signatures \in [Commitments -> SUBSET Signers] => VInv
<1>1. SUFFICES ASSUME Funded, signatures \in [Commitments -> SUBSET Signers] PROVE VInv
  OBVIOUS
<1>2. /\ staging = [s \in Stagings |-> Closed] /\ result = [s \in Stagings |-> Closed]
      /\ comp = [o \in Offsets |-> Closed] /\ outputs = {} /\ instance = 0
      /\ signatures \in [Commitments -> SUBSET Signers]
  BY <1>1 DEF Funded, NothingStaged
<1>3. /\ \A s \in Stagings : ~Account(staging[s]) /\ ~Account(result[s])
      /\ \A o \in Offsets : ~Account(comp[o])
  BY <1>2, ClosedFacts
<1>4. Types
  BY <1>2 DEF Types, IsBuffer
<1> QED BY <1>2, <1>3, <1>4 DEF VInv, Paired, NoneFromTheFuture, BoundResults, Verdicts,
                                SignedInBuffer, Unbound

-----------------------------------------------------------------------------
(* Every step keeps the invariant.                                         *)

\* A step that leaves the buffers, results and computations alone.
LEMMA FrameVerdicts ==
    VInv /\ UNCHANGED <<signatures, staging, result, comp, outputs, instance>> => VInv'
BY DEF VInv, Types, Paired, NoneFromTheFuture, BoundResults, Bound, Bits, Verdicts,
       SignedInBuffer, Unbound, Account, Verifies

\* A new signature takes none away.
LEMMA SignVerdicts ==
    ASSUME VInv, NEW k \in Commitments, NEW who \in Signers, Sign(k, who)
    PROVE  VInv'
<1>1. /\ signatures' = [signatures EXCEPT ![k] = @ \cup {who}]
      /\ UNCHANGED <<staging, result, comp, outputs, instance>>
  BY DEF Sign, arciumVars
<1>2. signatures \in [Commitments -> SUBSET Signers]
  BY DEF VInv, Types
<1>3. signatures' \in [Commitments -> SUBSET Signers]
  BY <1>1, <1>2
<1>4. \A c \in Commitments : signatures[c] \subseteq signatures'[c]
  BY <1>1, <1>2
<1>5. SignedInBuffer'
  BY <1>1, <1>4 DEF VInv, SignedInBuffer, Account
<1>6. Types'
  BY <1>1, <1>3 DEF VInv, Types, IsBuffer
<1>7. Paired' /\ NoneFromTheFuture' /\ Unbound'
  BY <1>1 DEF VInv, Paired, NoneFromTheFuture, Unbound, Account
<1>8. BoundResults' /\ Verdicts'
  BY <1>1 DEF VInv, BoundResults, Bound, Bits, Verdicts, Account, Verifies
<1> QED BY <1>5, <1>6, <1>7, <1>8 DEF VInv

\* The computation accounts, but for some that are gone.
CompsLeft(left) ==
    /\ left \in [Offsets -> CompSet \cup {Closed}]
    /\ \A p \in Offsets : left[p] \in {comp[p], Closed}

\* A buffer that is opened, reset, staged to or closed has nothing bound to it;
\* computation accounts may go in the same transaction.
LEMMA FreshVerdicts ==
    ASSUME VInv, NEW s \in Stagings, NEW b, NEW r,
           staging' = [staging EXCEPT ![s] = b], result' = [result EXCEPT ![s] = r],
           CompsLeft(comp'), UNCHANGED <<signatures, outputs, instance>>,
           \/ b = Closed /\ r = Closed
           \/ /\ b \in BufferWith(b.route) /\ r \in ResultSet
              /\ r.offset = 0 /\ ~r.verified /\ ~b.sealed
              /\ \A i \in Indices : b.slots[i] # Blank =>
                   /\ b.slots[i].com \in Commitments
                   /\ b.slots[i].signed \subseteq signatures[b.slots[i].com]
    PROVE  VInv'
<1>1. /\ DOMAIN staging = Stagings /\ DOMAIN result = Stagings
      /\ DOMAIN staging' = Stagings /\ DOMAIN result' = Stagings
  BY DEF VInv, Types
<1>2. staging'[s] = b /\ result'[s] = r
  BY <1>1
<1>3. \A t \in Stagings \ {s} : staging'[t] = staging[t] /\ result'[t] = result[t]
  BY <1>1
<1>4. Account(b) <=> Account(r)
  BY ClosedFacts
<1>5. Account(r) => r.offset = 0 /\ ~r.verified /\ ~b.sealed
  BY ClosedFacts
<1>0. /\ comp' \in [Offsets -> CompSet \cup {Closed}]
      /\ \A p \in Offsets : Account(comp'[p]) => comp'[p] = comp[p]
  BY ClosedFacts DEF CompsLeft
<1>6. Types'
  <2>1. IsBuffer(b) /\ r \in ResultSet \cup {Closed}
    BY DEF IsBuffer
  <2>2. \A t \in Stagings : IsBuffer(staging'[t]) /\ result'[t] \in ResultSet \cup {Closed}
    BY <2>1, <1>2, <1>3 DEF VInv, Types
  <2> QED BY <2>2, <1>0, <1>1 DEF VInv, Types, IsBuffer
<1>7. Paired'
  BY <1>2, <1>3, <1>4 DEF VInv, Paired, Account
<1>8. NoneFromTheFuture'
  <2>1. \A p \in Offsets : Account(comp'[p]) => comp'[p].instance <= instance'
    BY <1>0 DEF VInv, NoneFromTheFuture
  <2> QED BY <2>1 DEF VInv, NoneFromTheFuture, Account
<1>9. BoundResults'
  <2>1. ASSUME NEW t \in Stagings, Account(result'[t]), result'[t].offset # 0
        PROVE  Bound(t)'
    <3>1. t # s
      BY <2>1, <1>2, <1>5
    <3>2. Bound(t)
      BY <2>1, <3>1, <1>3 DEF VInv, BoundResults
    <3>3. \A p \in Offsets : Account(comp'[p]) /\ comp'[p].instance = result[t].instance
                                => comp'[p].target = t /\ comp'[p].kind = result[t].kind
      BY <3>2, <1>0 DEF Bound
    <3> QED BY <3>1, <3>2, <3>3, <1>3 DEF Bound, Bits, Verifies, Account
  <2> QED BY <2>1 DEF BoundResults, Account
<1>10. Verdicts'
  <2>1. ASSUME NEW t \in Stagings, Account(result'[t]), result'[t].verified
        PROVE  /\ result'[t].offset # 0
               /\ result'[t].bitmap = {i \in 0 .. result'[t].count - 1 : i \in Bits(staging'[t])}
    <3>1. t # s
      BY <2>1, <1>2, <1>5
    <3> QED BY <2>1, <3>1, <1>3 DEF VInv, Verdicts
  <2> QED BY <2>1 DEF Verdicts, Account, Bits, Verifies
<1>11. SignedInBuffer'
  <2>1. ASSUME NEW t \in Stagings, Account(staging'[t]), NEW i \in Indices,
               staging'[t].slots[i] # Blank
        PROVE  /\ staging'[t].slots[i].com \in Commitments
               /\ staging'[t].slots[i].signed \subseteq signatures[staging'[t].slots[i].com]
    <3>1. CASE t # s
      BY <2>1, <3>1, <1>3 DEF VInv, SignedInBuffer
    <3>2. CASE t = s
      <4>1. b # Closed
        BY <2>1, <3>2, <1>2, ClosedFacts
      <4> QED BY <2>1, <3>2, <4>1, <1>2
    <3> QED BY <3>1, <3>2
  <2> QED BY <2>1 DEF SignedInBuffer, Account
<1>12. Unbound'
  BY <1>2, <1>3, <1>4, <1>5 DEF VInv, Unbound, Account
<1> QED BY <1>6, <1>7, <1>8, <1>9, <1>10, <1>11, <1>12 DEF VInv

\* OpenStaging, ResetStaging and CloseStaging.
LEMMA BufferVerdicts ==
    ASSUME VInv, NEW s \in Stagings, NEW kind \in Kinds,
           OpenStaging(s, kind) \/ ResetStaging(s, kind) \/ CloseStaging(s)
    PROVE  VInv'
<1>1. 0 \in 0 .. BatchSize
  BY IndexFacts
<1>4. comp' = comp => CompsLeft(comp')
  BY DEF CompsLeft, VInv, Types
<1>2. CASE OpenStaging(s, kind) \/ ResetStaging(s, kind)
  <2>1. /\ staging' = [staging EXCEPT ![s] = EmptyBuffer(kind)]
        /\ result' = [result EXCEPT ![s] = ClearedResult(kind, 0)]
        /\ UNCHANGED <<signatures, comp, outputs, instance>>
    BY <1>2 DEF OpenStaging, ResetStaging, arciumVars
  <2> QED BY <2>1, <1>1, <1>4, ClearedFacts, FreshVerdicts
<1>3. CASE CloseStaging(s)
  <2>1. /\ staging' = [staging EXCEPT ![s] = Closed]
        /\ result' = [result EXCEPT ![s] = Closed]
        /\ UNCHANGED <<signatures, comp, outputs, instance>>
    BY <1>3 DEF CloseStaging, arciumVars
  <2> QED BY <2>1, <1>4, FreshVerdicts
<1> QED BY <1>2, <1>3

\* A record that StageRecord writes; the buffer stays open for staging.
LEMMA WithRecordFacts ==
    ASSUME NEW b, b \in BufferWith(b.route), NEW i \in Indices, NEW k \in Commitments,
           NEW signed \in SUBSET Signers
    PROVE  LET n == WithRecord(b, i, k, signed)
           IN  /\ n \in BufferWith(n.route) /\ n.sealed = b.sealed /\ n.kind = b.kind
               /\ n.staged = b.staged \cup {i}
               /\ n.route = IF b.kind = Routed THEN RouteOf(k) ELSE b.route
               /\ n.slots[i] = [com |-> k, signed |-> signed]
               /\ \A j \in Indices \ {i} : n.slots[j] = b.slots[j]
<1> DEFINE rec == [com |-> k, signed |-> signed]
           route == IF b.kind = Routed THEN RouteOf(k) ELSE b.route
           n == [b EXCEPT !.slots[i] = rec, !.staged = @ \cup {i}, !.route = route]
<1>1. rec \in Record
  BY DEF Record
<1>2. /\ b.kind \in Kinds /\ b.sealed \in BOOLEAN /\ b.staged \in SUBSET Indices
      /\ b.slots \in [Indices -> Record \cup {Blank}] /\ b.open = TRUE
  BY DEF BufferWith
<1>3. n = WithRecord(b, i, k, signed)
  BY DEF WithRecord
<1>4. /\ n = [b EXCEPT !.slots = [b.slots EXCEPT ![i] = rec], !.staged = b.staged \cup {i},
                       !.route = route]
  OBVIOUS
<1>5. n \in BufferWith(route)
  BY <1>1, <1>2, <1>4 DEF BufferWith
<1>6. n.route = route /\ n.sealed = b.sealed /\ n.kind = b.kind /\ n.staged = b.staged \cup {i}
      /\ n.slots = [b.slots EXCEPT ![i] = rec]
  BY <1>4 DEF BufferWith
<1>7. n.slots[i] = rec /\ \A j \in Indices \ {i} : n.slots[j] = b.slots[j]
  BY <1>6, <1>2
<1> QED BY <1>3, <1>5, <1>6, <1>7

\* Staging writes only to a buffer that is bound to nothing.
LEMMA StageVerdicts ==
    ASSUME VInv, NEW s \in Stagings, NEW i \in Indices, NEW k \in Commitments,
           NEW signed \in {{}, signatures[k]}, StageRecord(s, i, k, signed)
    PROVE  VInv'
<1> DEFINE n == WithRecord(staging[s], i, k, signed)
<1>1. /\ Account(staging[s]) /\ ~staging[s].sealed
      /\ staging' = [staging EXCEPT ![s] = n]
      /\ UNCHANGED <<signatures, result, comp, outputs, instance>>
  BY DEF StageRecord, Accepts, arciumVars
<1>2. DOMAIN staging = Stagings /\ DOMAIN staging' = Stagings
  BY <1>1 DEF VInv, Types
<1>3. staging[s] \in BufferWith(staging[s].route)
  BY <1>1, ClosedFacts DEF VInv, Types, IsBuffer
<1>4. signatures \in [Commitments -> SUBSET Signers]
  BY DEF VInv, Types
<1>5. signed \in SUBSET Signers /\ signed \subseteq signatures[k]
  BY <1>4
<1>6. /\ n \in BufferWith(n.route) /\ n.sealed = staging[s].sealed
      /\ n.slots[i] = [com |-> k, signed |-> signed]
      /\ \A j \in Indices \ {i} : n.slots[j] = staging[s].slots[j]
  BY <1>3, <1>5, WithRecordFacts
<1> HIDE DEF n
<1>7. staging'[s] = n /\ \A t \in Stagings \ {s} : staging'[t] = staging[t]
  BY <1>1, <1>2
<1>8. Account(n) /\ IsBuffer(n) /\ ~n.sealed
  BY <1>1, <1>6, ClosedFacts DEF IsBuffer
<1>9. result[s].offset = 0
  BY <1>1 DEF VInv, Unbound
<1>10. ~(Account(result[s]) /\ result[s].verified)
  BY <1>9 DEF VInv, Verdicts
<1>11. Types'
  <2>1. \A t \in Stagings : IsBuffer(staging'[t])
    BY <1>7, <1>8 DEF VInv, Types
  <2> QED BY <2>1, <1>1, <1>2 DEF VInv, Types, IsBuffer
<1>12. Paired'
  BY <1>1, <1>7, <1>8 DEF VInv, Paired, Account
<1>13. NoneFromTheFuture'
  BY <1>1 DEF VInv, NoneFromTheFuture, Account
<1>14. BoundResults'
  <2>1. ASSUME NEW t \in Stagings, Account(result'[t]), result'[t].offset # 0
        PROVE  Bound(t)'
    <3>1. t # s
      BY <2>1, <1>1, <1>9
    <3>2. Bound(t)
      BY <2>1, <1>1 DEF VInv, BoundResults
    <3> QED BY <3>1, <3>2, <1>1, <1>7 DEF Bound, Bits, Verifies, Account
  <2> QED BY <2>1 DEF BoundResults, Account
<1>15. Verdicts'
  <2>1. ASSUME NEW t \in Stagings, Account(result'[t]), result'[t].verified
        PROVE  /\ result'[t].offset # 0
               /\ result'[t].bitmap = {j \in 0 .. result'[t].count - 1 : j \in Bits(staging'[t])}
    <3>1. t # s
      BY <2>1, <1>1, <1>10
    <3> QED BY <2>1, <3>1, <1>1, <1>7 DEF VInv, Verdicts
  <2> QED BY <2>1 DEF Verdicts, Account, Bits, Verifies
<1>16. SignedInBuffer'
  <2>1. ASSUME NEW t \in Stagings, Account(staging'[t]), NEW j \in Indices,
               staging'[t].slots[j] # Blank
        PROVE  /\ staging'[t].slots[j].com \in Commitments
               /\ staging'[t].slots[j].signed \subseteq signatures[staging'[t].slots[j].com]
    <3>1. CASE t # s
      BY <2>1, <3>1, <1>7 DEF VInv, SignedInBuffer
    <3>2. CASE t = s /\ j = i
      <4>1. staging'[t].slots[j] = [com |-> k, signed |-> signed]
        BY <3>2, <1>6, <1>7
      <4>2. staging'[t].slots[j].com = k /\ staging'[t].slots[j].signed = signed
        BY <4>1
      <4> QED BY <4>2, <1>5
    <3>3. CASE t = s /\ j # i
      BY <2>1, <3>3, <1>1, <1>6, <1>7 DEF VInv, SignedInBuffer
    <3> QED BY <3>1, <3>2, <3>3
  <2> QED BY <2>1, <1>1 DEF SignedInBuffer, Account
<1>17. Unbound'
  BY <1>1, <1>7, <1>9 DEF VInv, Unbound, Account
<1> QED BY <1>11, <1>12, <1>13, <1>14, <1>15, <1>16, <1>17 DEF VInv

\* What SealAndQueue makes of the buffer, the result and the computation account.
LEMMA SealedFacts ==
    ASSUME NEW b, b \in BufferWith(b.route), NEW count \in 1 .. BatchSize, NEW s \in Stagings,
           NEW kind \in Kinds, NEW o \in Offsets, NEW queued \in Nat
    PROVE  /\ LET n == SealedBuffer(b, count)
              IN  /\ n \in BufferWith(n.route) /\ n.sealed /\ n.kind = b.kind
                  /\ n.staged = b.staged /\ n.route = b.route
                  /\ \A j \in Indices : n.slots[j] = IF j < count THEN b.slots[j] ELSE b.slots[0]
                  /\ \A j \in Indices : n.slots[j] \in {b.slots[x] : x \in Indices}
           /\ LET r == QueuedResult(kind, count, o, queued)
              IN  /\ r \in ResultSet /\ r.kind = kind /\ r.count = count /\ ~r.verified
                  /\ r.offset = o /\ r.instance = queued
           /\ LET c == QueuedComputation(s, kind, queued)
              IN  /\ c \in CompSet /\ c.target = s /\ c.kind = kind /\ c.instance = queued
<1> DEFINE slots == [i \in Indices |-> IF i < count THEN b.slots[i] ELSE b.slots[0]]
           n == [b EXCEPT !.sealed = TRUE, !.slots = slots]
           cleared == ClearedResult(kind, count)
           r == [cleared EXCEPT !.offset = o, !.instance = queued]
<1>1. /\ b.kind \in Kinds /\ b.sealed \in BOOLEAN /\ b.staged \in SUBSET Indices
      /\ b.slots \in [Indices -> Record \cup {Blank}] /\ b.open = TRUE
  BY DEF BufferWith
<1>2. slots \in [Indices -> Record \cup {Blank}]
  BY <1>1, IndexFacts
<1>3. n = SealedBuffer(b, count)
  BY DEF SealedBuffer
<1>4. n \in BufferWith(b.route) /\ n.route = b.route
  BY <1>1, <1>2 DEF BufferWith
<1>5. n.sealed /\ n.kind = b.kind /\ n.staged = b.staged /\ n.slots = slots
  BY DEF BufferWith
<1>6. /\ \A j \in Indices : n.slots[j] = IF j < count THEN b.slots[j] ELSE b.slots[0]
      /\ \A j \in Indices : n.slots[j] \in {b.slots[x] : x \in Indices}
  BY <1>5, IndexFacts
<1>7. cleared \in ResultSet /\ cleared.kind = kind /\ cleared.count = count /\ ~cleared.verified
  <2>1. count \in 0 .. BatchSize
    BY IndexFacts
  <2> QED BY <2>1, ClearedFacts DEF ClearedResult
<1> HIDE DEF cleared
<1>8. /\ r \in ResultSet /\ r.kind = kind /\ r.count = count /\ ~r.verified
      /\ r.offset = o /\ r.instance = queued
  BY <1>7 DEF ResultSet
<1>9. r = QueuedResult(kind, count, o, queued)
  BY DEF QueuedResult, cleared
<1>10. /\ QueuedComputation(s, kind, queued) \in CompSet
       /\ QueuedComputation(s, kind, queued).target = s
       /\ QueuedComputation(s, kind, queued).kind = kind
       /\ QueuedComputation(s, kind, queued).instance = queued
  BY DEF QueuedComputation, CompSet
<1> HIDE DEF n, r
<1> QED BY <1>3, <1>4, <1>5, <1>6, <1>8, <1>9, <1>10

\* Sealing binds the result to an instance that nothing carries yet; computation accounts
\* may go in the same transaction.
LEMMA QueuedVerdicts ==
    ASSUME VInv, NEW s \in Stagings, NEW kind \in Kinds, NEW count \in 1 .. BatchSize,
           NEW o \in Offsets, NEW old, old \in BufferWith(old.route), old.kind = kind,
           0 .. count - 1 \subseteq old.staged,
           \A i \in Indices : old.slots[i] # Blank =>
              /\ old.slots[i].com \in Commitments
              /\ old.slots[i].signed \subseteq signatures[old.slots[i].com],
           NEW left, CompsLeft(left),
           staging' = [staging EXCEPT ![s] = SealedBuffer(old, count)],
           result' = [result EXCEPT ![s] = QueuedResult(kind, count, o, instance + 1)],
           comp' = [left EXCEPT ![o] = QueuedComputation(s, kind, instance + 1)],
           instance' = instance + 1,
           UNCHANGED <<signatures, outputs>>
    PROVE  VInv'
<1> DEFINE b == SealedBuffer(old, count)
           r == QueuedResult(kind, count, o, instance + 1)
           c == QueuedComputation(s, kind, instance + 1)
<1>1. /\ instance' = instance + 1
      /\ staging' = [staging EXCEPT ![s] = b]
      /\ result' = [result EXCEPT ![s] = r]
      /\ comp' = [left EXCEPT ![o] = c]
      /\ UNCHANGED <<signatures, outputs>>
      /\ left \in [Offsets -> CompSet \cup {Closed}]
      /\ \A p \in Offsets : left[p] \in {comp[p], Closed}
  BY DEF CompsLeft
<1>2. 0 .. count - 1 \subseteq old.staged
  OBVIOUS
<1>4. instance \in Nat /\ instance + 1 \in Nat
  BY DEF VInv, Types
<1>5. /\ b \in BufferWith(b.route) /\ b.sealed /\ b.kind = kind /\ b.staged = old.staged
      /\ \A j \in Indices : b.slots[j] \in {old.slots[x] : x \in Indices}
      /\ r \in ResultSet /\ r.kind = kind /\ r.count = count /\ ~r.verified
      /\ r.offset = o /\ r.instance = instance + 1
      /\ c \in CompSet /\ c.target = s /\ c.kind = kind /\ c.instance = instance + 1
  BY <1>4, SealedFacts
<1> HIDE DEF b, r, c
<1>6. /\ DOMAIN staging = Stagings /\ DOMAIN result = Stagings
      /\ DOMAIN staging' = Stagings /\ DOMAIN result' = Stagings
      /\ comp \in [Offsets -> CompSet \cup {Closed}] /\ comp' \in [Offsets -> CompSet \cup {Closed}]
  BY <1>1, <1>5 DEF VInv, Types
<1>7. /\ staging'[s] = b /\ \A t \in Stagings \ {s} : staging'[t] = staging[t]
      /\ result'[s] = r /\ \A t \in Stagings \ {s} : result'[t] = result[t]
      /\ comp'[o] = c /\ \A p \in Offsets \ {o} : Account(comp'[p]) => comp'[p] = comp[p]
  BY <1>1, <1>6, ClosedFacts
<1>8. Account(b) /\ Account(r) /\ Account(c)
  BY <1>5, ClosedFacts
<1>9. /\ \A p \in Offsets : Account(comp[p]) => comp[p].instance \in Nat /\ comp[p].instance <= instance
      /\ \A out \in outputs : out.instance \in Nat /\ out.instance <= instance
  <2>1. \A p \in Offsets : Account(comp[p]) => comp[p].instance \in Nat
    BY <1>6, ClosedFacts DEF CompSet
  <2>2. \A out \in outputs : out.instance \in Nat
    BY DEF VInv, Types, OutputSet
  <2> QED BY <2>1, <2>2 DEF VInv, NoneFromTheFuture
<1>10. Types'
  <2>1. \A t \in Stagings : IsBuffer(staging'[t]) /\ result'[t] \in ResultSet \cup {Closed}
    BY <1>5, <1>7 DEF VInv, Types, IsBuffer
  <2> QED BY <2>1, <1>1, <1>4, <1>6 DEF VInv, Types, IsBuffer
<1>11. Paired'
  BY <1>7, <1>8 DEF VInv, Paired, Account
<1>12. NoneFromTheFuture'
  <2>1. \A p \in Offsets : Account(comp'[p]) => comp'[p].instance <= instance'
    BY <1>1, <1>4, <1>5, <1>7, <1>9
  <2>2. \A out \in outputs' : out.instance <= instance'
    BY <1>1, <1>4, <1>9
  <2> QED BY <2>1, <2>2 DEF NoneFromTheFuture, Account
<1>13. BoundResults'
  <2>1. ASSUME NEW t \in Stagings, Account(result'[t]), result'[t].offset # 0
        PROVE  Bound(t)'
    <3>1. CASE t = s
      <4>1. \A p \in Offsets : Account(comp'[p]) /\ comp'[p].instance = r.instance
                                 => comp'[p].target = s /\ comp'[p].kind = r.kind
        BY <1>4, <1>5, <1>7, <1>9
      <4>2. \A out \in outputs' : out.instance # r.instance
        BY <1>1, <1>4, <1>5, <1>9
      <4>3. instance' = r.instance /\ r.instance <= instance'
        BY <1>1, <1>4, <1>5
      <4> QED BY <3>1, <4>1, <4>2, <4>3, <1>2, <1>5, <1>7 DEF Bound, Account
    <3>2. CASE t # s
      <4>1. Bound(t)
        BY <2>1, <3>2, <1>7 DEF VInv, BoundResults
      <4>2. result[t].instance \in Nat /\ result[t].instance <= instance
        <5>1. result[t] \in ResultSet
          BY <2>1, <3>2, <1>7, ClosedFacts DEF VInv, Types
        <5> QED BY <5>1, <4>1 DEF ResultSet, Bound
      <4>3. result[t].instance # c.instance /\ result[t].instance <= instance'
        BY <4>2, <1>1, <1>4, <1>5
      <4>4. \A p \in Offsets : Account(comp'[p]) /\ comp'[p].instance = result[t].instance
                                 => comp'[p].target = t /\ comp'[p].kind = result[t].kind
        BY <4>1, <4>3, <1>7 DEF Bound
      <4> QED BY <3>2, <4>1, <4>3, <4>4, <1>1, <1>7 DEF Bound, Bits, Verifies, Account
    <3> QED BY <3>1, <3>2
  <2> QED BY <2>1 DEF BoundResults, Account
<1>14. Verdicts'
  <2>1. ASSUME NEW t \in Stagings, Account(result'[t]), result'[t].verified
        PROVE  /\ result'[t].offset # 0
               /\ result'[t].bitmap = {j \in 0 .. result'[t].count - 1 : j \in Bits(staging'[t])}
    <3>1. t # s
      BY <2>1, <1>5, <1>7
    <3> QED BY <2>1, <3>1, <1>7 DEF VInv, Verdicts
  <2> QED BY <2>1 DEF Verdicts, Account, Bits, Verifies
<1>15. SignedInBuffer'
  <2>1. ASSUME NEW t \in Stagings, Account(staging'[t]), NEW j \in Indices,
               staging'[t].slots[j] # Blank
        PROVE  /\ staging'[t].slots[j].com \in Commitments
               /\ staging'[t].slots[j].signed \subseteq signatures[staging'[t].slots[j].com]
    <3>1. CASE t # s
      BY <2>1, <3>1, <1>7 DEF VInv, SignedInBuffer
    <3>2. CASE t = s
      <4>1. PICK x \in Indices : staging'[t].slots[j] = old.slots[x]
        BY <3>2, <1>5, <1>7
      <4> QED BY <2>1, <4>1
    <3> QED BY <3>1, <3>2
  <2> QED BY <2>1, <1>1 DEF SignedInBuffer, Account
<1>16. Unbound'
  BY <1>5, <1>7 DEF VInv, Unbound, Account
<1> QED BY <1>10, <1>11, <1>12, <1>13, <1>14, <1>15, <1>16 DEF VInv

\* seal_and_queue.
LEMMA SealVerdicts ==
    ASSUME VInv, NEW s \in Stagings, NEW kind \in Kinds, NEW count \in 0 .. BatchSize,
           NEW o \in Offsets, SealAndQueue(s, kind, count, o)
    PROVE  VInv'
<1> DEFINE old == staging[s]
<1>1. /\ Account(old) /\ Sealable(old, kind, count)
      /\ staging' = [staging EXCEPT ![s] = SealedBuffer(old, count)]
      /\ result' = [result EXCEPT ![s] = QueuedResult(kind, count, o, instance + 1)]
      /\ comp' = [comp EXCEPT ![o] = QueuedComputation(s, kind, instance + 1)]
      /\ instance' = instance + 1
      /\ UNCHANGED <<signatures, outputs>>
  BY DEF SealAndQueue
<1>2. /\ old.kind = kind /\ count \in 1 .. BatchSize /\ 0 .. count - 1 \subseteq old.staged
  BY <1>1 DEF Sealable
<1>3. old \in BufferWith(old.route)
  BY <1>1, ClosedFacts DEF VInv, Types, IsBuffer
<1>4. CompsLeft(comp)
  BY DEF CompsLeft, VInv, Types
<1>5. \A i \in Indices : old.slots[i] # Blank =>
         /\ old.slots[i].com \in Commitments
         /\ old.slots[i].signed \subseteq signatures[old.slots[i].com]
  BY <1>1 DEF VInv, SignedInBuffer
<1> HIDE DEF old
<1> QED BY <1>1, <1>2, <1>3, <1>4, <1>5, QueuedVerdicts

\* A computation that runs for a bound result reads that result's buffer as it is, and
\* finds it of the batch's kind.
LEMMA RunVerdicts ==
    ASSUME VInv, NEW o \in Offsets, NEW fails \in BOOLEAN, RunComputation(o, fails)
    PROVE  VInv'
<1> DEFINE bits == IF fails THEN {} ELSE CircuitBits(comp[o].target, comp[o].kind)
           out == [offset |-> o, instance |-> comp[o].instance, target |-> comp[o].target,
                   kind |-> comp[o].kind, failure |-> fails, bits |-> bits]
<1>1. /\ Account(comp[o])
      /\ comp' = [comp EXCEPT ![o].ran = TRUE] /\ outputs' = outputs \cup {out}
      /\ UNCHANGED <<signatures, staging, result, instance>>
  BY DEF RunComputation
<1>2. comp \in [Offsets -> CompSet \cup {Closed}]
  BY DEF VInv, Types
<1>3. comp[o] \in CompSet
  BY <1>1, <1>2, ClosedFacts
<1>4. [comp[o] EXCEPT !.ran = TRUE] \in CompSet
  BY <1>3 DEF CompSet
<1>5. comp' = [comp EXCEPT ![o] = [comp[o] EXCEPT !.ran = TRUE]]
  BY <1>1
<1>6. comp' \in [Offsets -> CompSet \cup {Closed}]
  BY <1>2, <1>4, <1>5
<1>7. /\ comp'[o] = [comp[o] EXCEPT !.ran = TRUE]
      /\ \A p \in Offsets \ {o} : comp'[p] = comp[p]
  BY <1>2, <1>5
<1>8. \A p \in Offsets : Account(comp'[p]) =>
        /\ Account(comp[p]) /\ comp'[p].instance = comp[p].instance
        /\ comp'[p].target = comp[p].target /\ comp'[p].kind = comp[p].kind
  <2>1. /\ comp'[o].instance = comp[o].instance
        /\ comp'[o].target = comp[o].target /\ comp'[o].kind = comp[o].kind
    BY <1>3, <1>7 DEF CompSet
  <2> QED BY <2>1, <1>1, <1>7
<1>9. bits \in SUBSET Indices
  BY DEF CircuitBits
<1>10. out \in OutputSet /\ out.instance = comp[o].instance /\ out.bits = bits
       /\ out.failure = fails
  <2> HIDE DEF bits
  <2> QED BY <1>3, <1>9 DEF CompSet, OutputSet
<1>11. Types'
  <2>1. outputs' \subseteq OutputSet
    BY <1>1, <1>10 DEF VInv, Types
  <2> QED BY <2>1, <1>1, <1>6 DEF VInv, Types, IsBuffer
<1>12. NoneFromTheFuture'
  <2>1. \A p \in Offsets : Account(comp'[p]) => comp'[p].instance <= instance'
    BY <1>1, <1>8 DEF VInv, NoneFromTheFuture
  <2>2. out.instance <= instance
    BY <1>1, <1>10 DEF VInv, NoneFromTheFuture
  <2>3. \A x \in outputs' : x.instance <= instance'
    <3> HIDE DEF out
    <3> QED BY <2>2, <1>1 DEF VInv, NoneFromTheFuture
  <2> QED BY <2>1, <2>3 DEF NoneFromTheFuture, Account
<1>13. BoundResults'
  <2>1. ASSUME NEW t \in Stagings, Account(result'[t]), result'[t].offset # 0
        PROVE  Bound(t)'
    <3>1. Account(result[t]) /\ Bound(t)
      BY <2>1, <1>1 DEF VInv, BoundResults
    <3>2. \A p \in Offsets : Account(comp'[p]) /\ comp'[p].instance = result[t].instance
                               => comp'[p].target = t /\ comp'[p].kind = result[t].kind
      BY <3>1, <1>8 DEF Bound
    <3>3. out.instance = result[t].instance /\ ~out.failure => out.bits = Bits(staging[t])
      <4>1. ASSUME out.instance = result[t].instance, ~out.failure
            PROVE  out.bits = Bits(staging[t])
        <5>1. comp[o].target = t /\ comp[o].kind = result[t].kind
          BY <4>1, <3>1, <1>1, <1>10 DEF Bound
        <5>2. staging[t].kind = result[t].kind
          BY <3>1 DEF Bound
        <5>3. Account(staging[t])
          BY <3>1 DEF VInv, Paired
        <5>4. bits = CircuitBits(t, staging[t].kind)
          BY <5>1, <5>2, <4>1, <1>10
        <5> QED BY <5>3, <5>4, <1>10 DEF CircuitBits, Bits
      <4> QED BY <4>1
    <3>4. \A x \in outputs' : x.instance = result[t].instance /\ ~x.failure
                                => x.bits = Bits(staging[t])
      <4> HIDE DEF out
      <4> QED BY <3>1, <3>3, <1>1 DEF Bound
    <3> QED BY <3>1, <3>2, <3>4, <1>1 DEF Bound, Bits, Verifies, Account
  <2> QED BY <2>1 DEF BoundResults, Account
<1>14. Paired' /\ Verdicts' /\ SignedInBuffer' /\ Unbound'
  BY <1>1 DEF VInv, Paired, Verdicts, SignedInBuffer, Unbound, Account, Bits, Verifies
<1> QED BY <1>11, <1>12, <1>13, <1>14 DEF VInv

\* A computation account that goes takes nothing else with it.
LEMMA ClaimVerdicts ==
    ASSUME VInv, NEW o \in Offsets, ClaimComputationRent(o)
    PROVE  VInv'
<1>1. /\ comp' = [comp EXCEPT ![o] = Closed]
      /\ UNCHANGED <<signatures, staging, result, outputs, instance>>
  BY DEF ClaimComputationRent
<1>2. comp \in [Offsets -> CompSet \cup {Closed}]
  BY DEF VInv, Types
<1>3. comp'[o] = Closed /\ \A p \in Offsets \ {o} : comp'[p] = comp[p]
  BY <1>1, <1>2
<1>4. \A p \in Offsets : Account(comp'[p]) => Account(comp[p]) /\ comp'[p] = comp[p]
  BY <1>3, ClosedFacts
<1>5. comp' \in [Offsets -> CompSet \cup {Closed}]
  BY <1>1, <1>2
<1>6. Types'
  BY <1>1, <1>5 DEF VInv, Types, IsBuffer
<1>7. NoneFromTheFuture'
  BY <1>1, <1>4 DEF VInv, NoneFromTheFuture, Account
<1>8. BoundResults'
  BY <1>1, <1>4 DEF VInv, BoundResults, Bound, Account, Bits, Verifies
<1>9. Paired' /\ Verdicts' /\ SignedInBuffer' /\ Unbound'
  BY <1>1 DEF VInv, Paired, Verdicts, SignedInBuffer, Unbound, Account, Bits, Verifies
<1> QED BY <1>6, <1>7, <1>8, <1>9 DEF VInv

\* A step that changes one result, and neither what it is bound to nor, once it has
\* one, its verdict.
LEMMA ResultVerdicts ==
    ASSUME VInv, NEW s \in Stagings, NEW r \in ResultSet, Account(result[s]),
           result' = [result EXCEPT ![s] = r],
           UNCHANGED <<signatures, staging, comp, outputs, instance>>,
           r.offset = result[s].offset, r.instance = result[s].instance,
           r.kind = result[s].kind, r.count = result[s].count,
           r.verified => /\ r.offset # 0
                         /\ r.bitmap = {i \in 0 .. r.count - 1 : i \in Bits(staging[s])}
    PROVE  VInv'
<1>1. DOMAIN result = Stagings /\ DOMAIN result' = Stagings
  BY DEF VInv, Types
<1>2. result'[s] = r /\ \A t \in Stagings \ {s} : result'[t] = result[t]
  BY <1>1
<1>3. Account(r)
  BY ClosedFacts
<1>4. \A t \in Stagings : /\ Account(result'[t]) <=> Account(result[t])
                          /\ result'[t].offset = result[t].offset
                          /\ result'[t].instance = result[t].instance
                          /\ result'[t].kind = result[t].kind
                          /\ result'[t].count = result[t].count
  BY <1>2, <1>3
<1>5. Types'
  <2>1. \A t \in Stagings : result'[t] \in ResultSet \cup {Closed}
    BY <1>2 DEF VInv, Types
  <2> QED BY <2>1, <1>1 DEF VInv, Types, IsBuffer
<1>6. Paired' /\ SignedInBuffer' /\ Unbound' /\ NoneFromTheFuture'
  BY <1>4 DEF VInv, Paired, SignedInBuffer, Unbound, NoneFromTheFuture, Account
<1>7. BoundResults'
  <2>1. ASSUME NEW t \in Stagings, Account(result'[t]), result'[t].offset # 0
        PROVE  Bound(t)'
    <3>1. Bound(t)
      BY <2>1, <1>4 DEF VInv, BoundResults
    <3> QED BY <3>1, <1>4 DEF Bound, Bits, Verifies, Account
  <2> QED BY <2>1 DEF BoundResults, Account
<1>8. Verdicts'
  <2>1. ASSUME NEW t \in Stagings, Account(result'[t]), result'[t].verified
        PROVE  /\ result'[t].offset # 0
               /\ result'[t].bitmap = {i \in 0 .. result'[t].count - 1 : i \in Bits(staging[t])}
    <3>1. CASE t = s
      BY <2>1, <3>1, <1>2
    <3>2. CASE t # s
      BY <2>1, <3>2, <1>2 DEF VInv, Verdicts
    <3> QED BY <3>1, <3>2
  <2> QED BY <2>1 DEF Verdicts, Account, Bits, Verifies
<1> QED BY <1>5, <1>6, <1>7, <1>8 DEF VInv

\* A callback that is current brings the bits of the buffer that the result belongs to,
\* for its output was verified against the instance the result is bound to.
LEMMA CallbackVerdicts ==
    ASSUME VInv, NEW out \in outputs, Callback(out)
    PROVE  VInv'
<1> DEFINE s == out.target
           failed == [result[s] EXCEPT !.failed = TRUE]
           given == {i \in out.bits : i < result[s].count}
           verified == [result[s] EXCEPT !.verified = TRUE, !.bitmap = given]
<1>1. out \in OutputSet
  BY DEF VInv, Types
<1>2. s \in Stagings /\ out.bits \in SUBSET Indices
  BY <1>1 DEF OutputSet
<1>3. /\ Account(result[s]) /\ Current(result[s], out.offset)
      /\ UNCHANGED <<signatures, staging, comp, outputs, instance>>
  BY DEF Callback, arciumVars
<1>4. result[s] \in ResultSet
  BY <1>2, <1>3, ClosedFacts DEF VInv, Types
<1>5. result[s].offset # 0 /\ comp[out.offset].instance = result[s].instance
  BY <1>3 DEF Current
<1>6. CASE out.failure /\ RecordFailure(s)
  <2>1. result' = [result EXCEPT ![s] = failed]
    BY <1>6 DEF RecordFailure
  <2>2. failed \in ResultSet
    BY <1>4 DEF ResultSet
  <2>3. /\ failed.offset = result[s].offset /\ failed.instance = result[s].instance
        /\ failed.kind = result[s].kind /\ failed.count = result[s].count
        /\ failed.verified = result[s].verified
    BY <1>4 DEF ResultSet
  <2>4. ~failed.verified
    BY <2>3, <1>6 DEF RecordFailure
  <2> HIDE DEF failed
  <2> QED BY <2>1, <2>2, <2>3, <2>4, <1>2, <1>3, ResultVerdicts
<1>7. CASE ~out.failure /\ OutputVerified(out) /\ RecordBitmap(s, out)
  <2>1. result' = [result EXCEPT ![s] = verified]
    BY <1>7 DEF RecordBitmap
  <2>2. given \in SUBSET Indices
    BY <1>2
  <2>3. verified \in ResultSet
    <3> HIDE DEF given
    <3> QED BY <2>2, <1>4 DEF ResultSet
  <2>4. /\ verified.offset = result[s].offset /\ verified.instance = result[s].instance
        /\ verified.kind = result[s].kind /\ verified.count = result[s].count
        /\ verified.bitmap = given
    <3> HIDE DEF given
    <3> QED BY <1>4 DEF ResultSet
  <2>5. out.bits = Bits(staging[s])
    <3>1. Bound(s)
      BY <1>2, <1>3, <1>5 DEF VInv, BoundResults
    <3>2. out.instance = result[s].instance
      BY <1>5, <1>7 DEF OutputVerified
    <3> QED BY <3>1, <3>2, <1>7 DEF Bound
  <2>6. result[s].count \in 1 .. BatchSize
    BY <1>2, <1>3, <1>5 DEF VInv, BoundResults, Bound
  <2>7. given = {i \in 0 .. result[s].count - 1 : i \in Bits(staging[s])}
    <3>1. Bits(staging[s]) \subseteq 0 .. BatchSize - 1
      BY DEF Bits, Indices
    <3>2. result[s].count \in Nat /\ BatchSize \in Nat
      BY <2>6, IndexFacts
    <3> QED BY <3>1, <3>2, <2>5
  <2> HIDE DEF verified, given
  <2> QED BY <2>1, <2>3, <2>4, <2>7, <1>2, <1>3, <1>5, ResultVerdicts
<1> QED BY <1>6, <1>7 DEF Callback

\* Settling sets applied bits only.
LEMMA SettleVerdicts ==
    ASSUME VInv, NEW s \in Stagings, NEW order \in Orders, SettleGroups(s, order)
    PROVE  VInv'
<1> DEFINE done == {order[a] : a \in DOMAIN order}
           r == [result[s] EXCEPT !.applied = @ \cup done]
<1>1. /\ result' = [result EXCEPT ![s] = r] /\ Account(staging[s]) /\ result[s].verified
      /\ UNCHANGED <<signatures, staging, comp, outputs, instance>>
  BY DEF SettleGroups, SettlementAccepted, arciumVars
<1>2. Account(result[s])
  BY <1>1 DEF VInv, Paired
<1>3. result[s] \in ResultSet
  BY <1>2, ClosedFacts DEF VInv, Types
<1>4. done \subseteq Indices
  BY DEF Orders
<1>5. r \in ResultSet
  <2> HIDE DEF done
  <2> QED BY <1>3, <1>4 DEF ResultSet
<1>6. /\ r.offset = result[s].offset /\ r.instance = result[s].instance
      /\ r.kind = result[s].kind /\ r.count = result[s].count
      /\ r.bitmap = result[s].bitmap
  BY <1>3 DEF ResultSet
<1>7. /\ result[s].offset # 0
      /\ result[s].bitmap = {i \in 0 .. result[s].count - 1 : i \in Bits(staging[s])}
  BY <1>1, <1>2 DEF VInv, Verdicts
<1> HIDE DEF r
<1> QED BY <1>1, <1>2, <1>5, <1>6, <1>7, ResultVerdicts

-----------------------------------------------------------------------------
(* Verdicts.                                                               *)

\* Every step of clearing, and every other instruction of the program, keeps VInv.
LEMMA NextVerdicts == VInv /\ [CNext]_vars => VInv'
<1>1. SUFFICES ASSUME VInv, [CNext]_vars PROVE VInv'
  OBVIOUS
<1>2. ASSUME NEW k \in Commitments, NEW who \in Signers, Sign(k, who) PROVE VInv'
  BY <1>1, <1>2, SignVerdicts
<1>3. CASE RelayerStep
  <2>1. PICK s \in Stagings :
          \/ \E kind \in Kinds : OpenStaging(s, kind) \/ ResetStaging(s, kind)
          \/ CloseStaging(s)
          \/ \E i \in Indices, k \in Commitments :
               \E signed \in {{}, signatures[k]} : StageRecord(s, i, k, signed)
          \/ \E kind \in Kinds, count \in 0 .. BatchSize, o \in Offsets :
               SealAndQueue(s, kind, count, o)
    BY <1>3 DEF RelayerStep
  <2>2. ASSUME NEW kind \in Kinds, OpenStaging(s, kind) \/ ResetStaging(s, kind) PROVE VInv'
    BY <2>2, <1>1, BufferVerdicts
  <2>3. CASE CloseStaging(s)
    BY <2>3, <1>1, BufferVerdicts DEF Kinds
  <2>4. ASSUME NEW i \in Indices, NEW k \in Commitments, NEW signed \in {{}, signatures[k]},
               StageRecord(s, i, k, signed)
        PROVE  VInv'
    BY <2>4, <1>1, StageVerdicts
  <2>5. ASSUME NEW kind \in Kinds, NEW count \in 0 .. BatchSize, NEW o \in Offsets,
               SealAndQueue(s, kind, count, o)
        PROVE  VInv'
    BY <2>5, <1>1, SealVerdicts
  <2> QED BY <2>1, <2>2, <2>3, <2>4, <2>5
<1>4. CASE ArciumStep
  <2>1. ASSUME NEW o \in Offsets, NEW fails \in BOOLEAN, RunComputation(o, fails) PROVE VInv'
    BY <2>1, <1>1, RunVerdicts
  <2>2. ASSUME NEW o \in Offsets, ClaimComputationRent(o) PROVE VInv'
    BY <2>2, <1>1, ClaimVerdicts
  <2>3. ASSUME NEW out \in outputs, Callback(out) PROVE VInv'
    BY <2>3, <1>1, CallbackVerdicts
  <2> QED BY <1>4, <2>1, <2>2, <2>3 DEF ArciumStep
<1>5. CASE SettleStep
  BY <1>5, <1>1, SettleVerdicts DEF SettleStep
<1>6. CASE UNCHANGED clearingVars
  BY <1>6, <1>1, FrameVerdicts DEF clearingVars, arciumVars
<1>7. CASE UNCHANGED vars
  BY <1>6, <1>7 DEF vars
<1> QED BY <1>1, <1>2, <1>3, <1>4, <1>5, <1>6, <1>7 DEF CNext

\* The invariant says what VerdictMatchesBatch claims.
LEMMA VerdictsMatch == VInv => VerdictMatchesBatch
<1>1. SUFFICES ASSUME VInv, NEW s \in Stagings, Account(result[s]), result[s].verified
               PROVE  /\ staging[s].sealed /\ staging[s].kind = result[s].kind
                      /\ 0 .. result[s].count - 1 \subseteq staging[s].staged
                      /\ result[s].bitmap = {i \in 0 .. result[s].count - 1 :
                                               Verifies(staging[s].slots[i], result[s].kind)}
                      /\ \A i \in result[s].bitmap :
                            Required(result[s].kind) \subseteq signatures[staging[s].slots[i].com]
  BY DEF VerdictMatchesBatch
<1> DEFINE b == staging[s]
           r == result[s]
<1>2. Bound(s)
  BY <1>1 DEF VInv, Verdicts, BoundResults
<1>3. b.sealed /\ b.kind = r.kind /\ 0 .. r.count - 1 \subseteq b.staged /\ r.count \in 1 .. BatchSize
  BY <1>2 DEF Bound
<1>4. Account(b)
  BY <1>1 DEF VInv, Paired
<1>5. 0 .. r.count - 1 \subseteq Indices
  BY <1>3, IndexFacts DEF Indices
<1>6. r.bitmap = {i \in 0 .. r.count - 1 : i \in Bits(b)}
  BY <1>1 DEF VInv, Verdicts
<1>7. r.bitmap = {i \in 0 .. r.count - 1 : Verifies(b.slots[i], r.kind)}
  BY <1>3, <1>5, <1>6 DEF Bits
<1>8. ASSUME NEW i \in r.bitmap PROVE Required(r.kind) \subseteq signatures[b.slots[i].com]
  <2>1. i \in Indices /\ Verifies(b.slots[i], r.kind)
    BY <1>5, <1>7
  <2>2. b.slots[i] # Blank /\ Required(r.kind) \subseteq b.slots[i].signed
    BY <2>1 DEF Verifies
  <2>3. SignedInBuffer
    BY <1>1 DEF VInv
  <2>4. staging[s].slots[i].signed \subseteq signatures[staging[s].slots[i].com]
    BY <2>1, <2>2, <2>3, <1>4 DEF SignedInBuffer
  <2> QED BY <2>2, <2>4
<1> QED BY <1>3, <1>7, <1>8

\* A recorded bitmap is the verdict on the records that are in the buffer now, and every
\* bit of it stands for signatures that were given (require_current_computation,
\* verify_output, the seal), however late, often or under whatever offset outputs come.
THEOREM VerdictsAreOfTheBatch == CSpec => []VerdictMatchesBatch
<1>1. CInit => VInv
  BY InitVerdicts DEF CInit
<1>2. VInv /\ [CNext]_vars => VInv'
  BY NextVerdicts
<1>3. VInv => VerdictMatchesBatch
  BY VerdictsMatch
<1> QED BY <1>1, <1>2, <1>3, PTL DEF CSpec

-----------------------------------------------------------------------------
(* The inductive invariant of clearing: the money, the records that are    *)
(* staged and the bits.                                                    *)

\* A staged record still belongs to its channel as it was when it was staged.
RecordFits(b, k) ==
    /\ HeaderOf(k.channel) # Unopened /\ Occupied(k.channel)
    /\ HeaderOf(k.channel).kind = b.kind
    /\ b.kind = Routed => /\ Validate(k) /\ Gateway(k) \notin Named(k)
                          /\ k.base <= settled[k.channel] /\ RouteOf(k) = b.route
StagedRecords ==
    \A s \in Stagings : Account(staging[s]) =>
       \A i \in Indices : staging[s].slots[i] # Blank =>
          RecordFits(staging[s], staging[s].slots[i].com)

\* A bit is applied only after it was verified, and none is set before the verdict.
VerdictBits ==
    \A s \in Stagings : Account(result[s]) =>
       /\ result[s].applied \subseteq result[s].bitmap
       /\ ~result[s].verified => result[s].bitmap = {}

ClearingInv == VInv /\ MoneyInOrder /\ StagedRecords /\ VerdictBits /\ instance \in 0 .. MaxInstances

-----------------------------------------------------------------------------
(* Initial states: the money is where Custody can have brought it.         *)

\* Funds within the supply are u64 amounts.
LEMMA FundsTypes == FundedMoney => TypeOK
<1> SUFFICES ASSUME FundedMoney PROVE TypeOK
  OBVIOUS
<1>1. FundedMoney
  OBVIOUS
<1>2. ASSUME NEW m \in Mints
      PROVE  vault[m] \in 0 .. Supply
  <2>1. OfMint(Collateral, m) = [c \in Channels |->
           IF Layout[c[1]] # Unopened /\ Layout[c[1]].mint = m THEN Collateral[c] ELSE 0]
    BY <1>1 DEF FundedMoney, OfMint, InMint, HeaderOf
  <2>2. vault[m] = InUse(m)
    BY <1>1, <2>1 DEF FundedMoney, InUse
  <2>3. InUse(m) <= Supply
    BY FundsAreInOrder
  <2>4. Total(Funding[m]) \in Nat
    <3> DEFINE f == Funding[m]
    <3>1. f \in [Participants -> 0 .. MaxU64]
      BY FundsAreInOrder DEF U64
    <3> HIDE DEF f
    <3>2. Total(f) \in Nat
      BY <3>1, BalanceSums
    <3> QED BY <3>2 DEF f
  <2>5. Total(OfMint(Collateral, m)) \in Nat
    <3> DEFINE f == OfMint(Collateral, m)
    <3>1. Collateral \in [Channels -> U64]
      BY FundsAreInOrder
    <3>2. f \in [Channels -> 0 .. MaxU64]
      BY <3>1, OfMintTypes
    <3> HIDE DEF f
    <3>3. Total(f) \in Nat
      BY <3>2, ChannelSums
    <3> QED BY <3>3 DEF f
  <2>6. vault[m] = Total(Funding[m]) + Total(OfMint(Collateral, m))
    BY <1>1 DEF FundedMoney
  <2>7. vault[m] \in Nat
    BY <2>4, <2>5, <2>6
  <2> QED BY <2>2, <2>3, <2>7, NumbersAreU64
<1>3. vault \in [Mints -> 0 .. Supply]
  BY <1>1, <1>2 DEF FundedMoney
<1>4. /\ available \in [Mints -> [Participants -> U64]]
      /\ bucket \in [Buckets -> Header \cup {Unopened}]
      /\ payer \in [Channels -> Participants \cup {NoOne}]
      /\ locked \in [Channels -> U64]
  BY <1>1, FundsAreInOrder DEF FundedMoney
<1>5. /\ now \in 0 .. MaxTime /\ listed \subseteq Mints /\ depositsEnabled \in [Mints -> BOOLEAN]
      /\ opened \subseteq Participants \X Mints
      /\ settled \in [Channels -> U64] /\ pendingAmount \in [Channels -> U64]
      /\ pendingAt \in [Channels -> Nat]
  BY <1>1, NumbersAreU64 DEF FundedMoney, U64
<1> QED BY <1>3, <1>4, <1>5 DEF TypeOK

\* FundsAreInOrder puts the money where accounts are, and nothing was paid yet.
LEMMA FundsInOrder == FundedMoney => MoneyInOrder
<1> SUFFICES ASSUME FundedMoney PROVE MoneyInOrder
  OBVIOUS
<1>1. FundedMoney /\ TypeOK
  BY FundsTypes
<1>2. NothingOutsideAccounts
  <2>1. \A c \in Channels : Occupied(c) => /\ HeaderOf(c) # Unopened
                                           /\ <<payer[c], HeaderOf(c).mint>> \in opened
    <3> SUFFICES ASSUME NEW c \in Channels, Occupied(c)
                 PROVE  HeaderOf(c) # Unopened /\ <<payer[c], HeaderOf(c).mint>> \in opened
      OBVIOUS
    <3>1. payer[c] = Payers[c] /\ payer[c] # NoOne /\ HeaderOf(c) = Layout[c[1]]
      BY <1>1 DEF FundedMoney, Occupied, HeaderOf
    <3>2. HeaderOf(c) # Unopened /\ payer[c] \notin Absent
      BY <3>1, FundsAreInOrder
    <3>3. payer[c] \in Participants /\ HeaderOf(c).mint \in Mints
      BY <1>1, <3>1, <3>2 DEF TypeOK, HeaderOf, Channels, Header
    <3> QED BY <1>1, <3>2, <3>3 DEF FundedMoney
  <2>2. \A c \in Channels : ~Occupied(c) => locked[c] = 0 /\ settled[c] = 0 /\ pendingAmount[c] = 0
    BY <1>1, FundsAreInOrder DEF FundedMoney, Occupied
  <2>3. \A m \in Mints, p \in Participants : <<p, m>> \notin opened => available[m][p] = 0
    BY <1>1, FundsAreInOrder DEF FundedMoney
  <2> QED BY <2>1, <2>2, <2>3 DEF NothingOutsideAccounts
<1>3. Solvency
  BY <1>1 DEF FundedMoney, Solvency
<1>4. paidFrom \in [Channels -> [Participants -> U64]]
  BY <1>1, NumbersAreU64 DEF FundedMoney, U64
<1>5. PaidOwners
  <2> SUFFICES ASSUME NEW c \in Channels
               PROVE  Owned(c, settled[c], paidFrom[c])
    BY DEF PaidOwners
  <2>1. settled[c] = 0 /\ paidFrom[c] = [p \in Participants |-> 0]
    BY <1>1 DEF FundedMoney
  <2> DEFINE owner == [u \in 1 .. 0 |-> CHOOSE p \in Participants : TRUE]
  <2>2. 1 .. 0 = {}
    OBVIOUS
  <2>3. owner \in [1 .. 0 -> Participants]
    BY <2>2
  <2>4. \A p \in Participants : paidFrom[c][p] = Cardinality({u \in 1 .. 0 : owner[u] = p})
    BY <2>1, <2>2, FS_EmptySet
  <2> HIDE DEF owner
  <2> QED BY <2>1, <2>2, <2>3, <2>4 DEF Owned
<1> QED BY <1>1, <1>2, <1>3, <1>4, <1>5 DEF MoneyInOrder

\* Nothing is staged.
LEMMA InitClearing == Funded /\ signatures \in [Commitments -> SUBSET Signers] => ClearingInv
<1> SUFFICES ASSUME Funded, signatures \in [Commitments -> SUBSET Signers] PROVE ClearingInv
  OBVIOUS
<1>1. /\ staging = [s \in Stagings |-> Closed] /\ result = [s \in Stagings |-> Closed]
      /\ instance = 0
  BY DEF Funded, NothingStaged
<1>2. \A s \in Stagings : ~Account(staging[s]) /\ ~Account(result[s])
  BY <1>1, ClosedFacts
<1>3. instance \in 0 .. MaxInstances
  BY <1>1, BatchesNotEmpty
<1>4. MoneyInOrder
  BY FundsInOrder DEF Funded
<1> QED BY <1>2, <1>3, <1>4, InitVerdicts DEF ClearingInv, StagedRecords, VerdictBits

-----------------------------------------------------------------------------
(* What other steps leave of units and records.                            *)

\* Signatures are only added, and a bucket that was opened stays as it is.
LEMMA OwnedStays ==
  ASSUME NEW c, NEW n \in Nat, NEW paid, Owned(c, n, paid),
         n > 0 => HeaderOf(c)' = HeaderOf(c),
         \A k \in Commitments : signatures[k] \subseteq signatures'[k]
  PROVE  Owned(c, n, paid)'
<1>1. PICK owner \in [1 .. n -> Participants] :
         /\ \A u \in 1 .. n : SignedUnit(c, u, owner[u])
         /\ \A p \in Participants : paid[p] = Cardinality({u \in 1 .. n : owner[u] = p})
  BY DEF Owned
<1>2. ASSUME NEW u \in 1 .. n
      PROVE  SignedUnit(c, u, owner[u])'
  <2>1. HeaderOf(c)' = HeaderOf(c)
    <3>1. n > 0
      OBVIOUS
    <3> QED BY <3>1
  <2>2. PICK k \in Commitments :
           /\ k.channel = c /\ Covers(k, u)
           /\ Required(HeaderOf(c).kind) \subseteq signatures[k]
           /\ OwnerOf(k, u) = owner[u]
    BY <1>1 DEF SignedUnit
  <2>3. Covers(k, u)'
    BY <2>1, <2>2 DEF Covers
  <2>4. Gateway(k)' = Gateway(k)
    BY <2>1, <2>2 DEF Gateway
  <2>5. OwnerOf(k, u)' = OwnerOf(k, u)
    BY <2>1, <2>2, <2>4 DEF OwnerOf
  <2>6. Required(HeaderOf(c).kind)' = Required(HeaderOf(c).kind)
    BY <2>1 DEF Required
  <2>7. Required(HeaderOf(c).kind)' \subseteq signatures'[k]
    BY <2>2, <2>6
  <2> QED BY <2>2, <2>3, <2>5, <2>7 DEF SignedUnit
<1> QED BY <1>1, <1>2 DEF Owned

\* The identity of channels, the watermarks and the accounts, after a step.
Kept ==
    /\ \A b \in Buckets : bucket[b] # Unopened => bucket'[b] = bucket[b]
    /\ \A c \in Channels : payer[c] # NoOne => payer'[c] = payer[c]
    /\ \A c \in Channels : settled'[c] >= settled[c]

\* A record goes on fitting its channel.
LEMMA FitsStays ==
  ASSUME TypeOK, TypeOK', Kept, NEW b, NEW k \in Commitments, RecordFits(b, k)
  PROVE  RecordFits(b, k)'
<1> DEFINE c == k.channel
<1>1. c \in Channels /\ c[1] \in Buckets /\ k.base \in Nat
  BY CommitmentFacts, NumbersAreU64 DEF Channels, U64
<1>2. HeaderOf(c)' = HeaderOf(c)
  BY <1>1 DEF Kept, RecordFits, HeaderOf
<1>3. Occupied(c)'
  BY <1>1 DEF Kept, RecordFits, Occupied
<1>4. Gateway(k)' = Gateway(k) /\ RouteOf(k)' = RouteOf(k)
  BY <1>2 DEF Gateway, RouteOf
<1>5. settled[c] \in Nat /\ settled'[c] \in Nat /\ settled'[c] >= settled[c]
  BY <1>1, NumbersAreU64 DEF TypeOK, U64, Kept
<1>6. b.kind = Routed => k.base <= settled'[c]
  <2>1. b.kind = Routed => k.base <= settled[c]
    BY DEF RecordFits
  <2> HIDE DEF c
  <2> QED BY <1>1, <1>5, <2>1
<1> QED BY <1>2, <1>3, <1>4, <1>6 DEF RecordFits

\* A step that leaves the money alone.
LEMMA MoneyRests ==
  ASSUME MoneyInOrder, UNCHANGED <<custodyVars, paidFrom>>,
         \A k \in Commitments : signatures[k] \subseteq signatures'[k]
  PROVE  MoneyInOrder' /\ TypeOK /\ TypeOK' /\ Kept
<1>1. TypeOK /\ NothingOutsideAccounts /\ Solvency
  BY DEF MoneyInOrder
<1>2. UNCHANGED custodyVars
  OBVIOUS
<1>3. TypeOK' /\ NothingOutsideAccounts'
  BY <1>1, <1>2, TypeStep, AccountsStep
<1>4. Solvency'
  BY <1>1, <1>2, <1>3, SolventStep
<1>5. Kept
  BY <1>1, <1>2, IdentityStep DEF Kept
<1>6. /\ settled' = settled /\ paidFrom' = paidFrom
      /\ \A c : HeaderOf(c)' = HeaderOf(c)
  BY DEF custodyVars, HeaderOf
<1>7. PaidOwners'
  <2>1. ASSUME NEW c \in Channels
        PROVE  Owned(c, settled[c], paidFrom[c])'
    <3>1. settled[c] \in Nat /\ Owned(c, settled[c], paidFrom[c])
      BY NumbersAreU64 DEF MoneyInOrder, PaidOwners, TypeOK, U64
    <3> DEFINE n == settled[c]
               paid == paidFrom[c]
    <3>2. n' = n /\ paid' = paid
      BY <1>6
    <3>3. \A x, y : x \in Nat /\ Owned(c, x, y) => Owned(c, x, y)'
      BY <1>6, OwnedStays
    <3> QED BY <3>1, <3>2, <3>3
  <2> QED BY <2>1 DEF PaidOwners
<1> QED BY <1>1, <1>3, <1>4, <1>5, <1>6, <1>7 DEF MoneyInOrder

\* Records stay in order in every buffer that a step leaves as it was.
LEMMA RecordsStay ==
  ASSUME VInv, StagedRecords, TypeOK, TypeOK', Kept,
         \A t \in Stagings :
            \/ staging'[t] = staging[t]
            \/ \A i \in Indices : Account(staging'[t]) /\ staging'[t].slots[i] # Blank =>
                  RecordFits(staging[t], staging[t].slots[i].com)'
  PROVE  StagedRecords'
<1> SUFFICES ASSUME NEW t \in Stagings, Account(staging'[t]), NEW i \in Indices,
                    staging'[t].slots[i] # Blank
             PROVE  RecordFits(staging[t], staging[t].slots[i].com)'
  BY DEF StagedRecords, Account
<1>2. CASE staging'[t] = staging[t]
  <2>1. staging'[t] = staging[t]
    BY <1>2
  <2>2. staging[t].slots[i].com \in Commitments
    BY <2>1 DEF VInv, SignedInBuffer
  <2>3. RecordFits(staging[t], staging[t].slots[i].com)
    BY <2>1 DEF StagedRecords
  <2> DEFINE b == staging[t]
             k == staging[t].slots[i].com
  <2>4. \A x : \A y \in Commitments : RecordFits(x, y) => RecordFits(x, y)'
    BY FitsStays
  <2>5. b' = b /\ k' = k
    BY <2>1
  <2>6. RecordFits(b, k)'
    <3>1. k \in Commitments /\ RecordFits(b, k)
      BY <2>2, <2>3
    <3> QED BY <3>1, <2>4, <2>5
  <2> QED BY <2>6
<1> QED BY <1>2

\* What a step without money leaves to be shown of the buffers and results.
Steady ==
    /\ UNCHANGED <<custodyVars, paidFrom>>
    /\ \A k \in Commitments : signatures[k] \subseteq signatures'[k]

\* Sign, RunComputation, ClaimComputationRent and the callback leave the buffers alone.
LEMMA SameBuffers ==
  ASSUME ClearingInv, Steady, VInv', VerdictBits', instance' = instance, staging' = staging
  PROVE  ClearingInv'
<1>1. MoneyInOrder' /\ TypeOK /\ TypeOK' /\ Kept
  BY MoneyRests DEF Steady, ClearingInv
<1>2. StagedRecords'
  BY <1>1, RecordsStay DEF ClearingInv
<1> QED BY <1>1, <1>2 DEF ClearingInv

\* A step that leaves the results leaves their bits.
LEMMA SameVerdicts ==
  ASSUME ClearingInv, result' = result
  PROVE  VerdictBits'
BY DEF ClearingInv, VerdictBits, Account

\* Signing.
LEMMA SignKeeps ==
  ASSUME ClearingInv, VInv', NEW k \in Commitments, NEW who, Sign(k, who)
  PROVE  ClearingInv'
<1>1. signatures \in [Commitments -> SUBSET Signers]
  BY DEF ClearingInv, VInv, Types
<1>2. Steady
  BY <1>1 DEF Sign, Steady
<1>3. instance' = instance /\ staging' = staging /\ result' = result
  BY DEF Sign, arciumVars
<1> QED BY <1>2, <1>3, SameBuffers, SameVerdicts

\* Computations run and go.
LEMMA ComputationKeeps ==
  ASSUME ClearingInv, VInv', NEW o, NEW fails, RunComputation(o, fails) \/ ClaimComputationRent(o)
  PROVE  ClearingInv'
<1>1. Steady
  BY DEF RunComputation, ClaimComputationRent, Steady
<1>2. instance' = instance /\ staging' = staging /\ result' = result
  BY DEF RunComputation, ClaimComputationRent
<1> QED BY <1>1, <1>2, SameBuffers, SameVerdicts

\* OpenStaging, ResetStaging and CloseStaging leave no record.
LEMMA BufferKeeps ==
  ASSUME ClearingInv, VInv', NEW s \in Stagings, NEW kind \in Kinds,
         OpenStaging(s, kind) \/ ResetStaging(s, kind) \/ CloseStaging(s)
  PROVE  ClearingInv'
<1>1. Steady /\ instance' = instance
  BY DEF OpenStaging, ResetStaging, CloseStaging, Steady, arciumVars
<1>2. DOMAIN staging = Stagings /\ DOMAIN result = Stagings
  BY DEF ClearingInv, VInv, Types
<1>3. PICK b, r : /\ staging' = [staging EXCEPT ![s] = b] /\ result' = [result EXCEPT ![s] = r]
                  /\ \/ b = EmptyBuffer(kind) /\ r = ClearedResult(kind, 0)
                     \/ b = Closed /\ r = Closed
  BY DEF OpenStaging, ResetStaging, CloseStaging
<1>4. /\ staging'[s] = b /\ \A t \in Stagings \ {s} : staging'[t] = staging[t]
      /\ result'[s] = r /\ \A t \in Stagings \ {s} : result'[t] = result[t]
  BY <1>2, <1>3
<1>5. ~Account(Closed)
  BY ClosedFacts
<1>6. Account(r) => r.bitmap = {} /\ r.applied = {}
  BY <1>3, <1>5 DEF ClearedResult
<1>7. Account(b) => \A i \in Indices : b.slots[i] = Blank
  BY <1>3, <1>5 DEF EmptyBuffer
<1>8. VerdictBits'
  BY <1>4, <1>6 DEF ClearingInv, VerdictBits, Account
<1>9. MoneyInOrder' /\ TypeOK /\ TypeOK' /\ Kept
  BY <1>1, MoneyRests DEF Steady, ClearingInv
<1>10. \A t \in Stagings :
          \/ staging'[t] = staging[t]
          \/ \A i \in Indices : ~(Account(staging'[t]) /\ staging'[t].slots[i] # Blank)
  BY <1>4, <1>7
<1>11. StagedRecords'
  BY <1>9, <1>10, RecordsStay DEF ClearingInv
<1> QED BY <1>1, <1>8, <1>9, <1>11 DEF ClearingInv

\* Staging lets in only records that fit their channel, all of one route.
LEMMA AcceptedFits ==
  ASSUME NEW b, b \in BufferWith(b.route), NEW i \in Indices, NEW k \in Commitments,
         NEW signed \in SUBSET Signers, Accepts(b, k),
         \A j \in Indices : b.slots[j] # Blank => RecordFits(b, b.slots[j].com)
  PROVE  LET n == WithRecord(b, i, k, signed)
         IN  \A j \in Indices : n.slots[j] # Blank => RecordFits(n, n.slots[j].com)
<1> DEFINE n == WithRecord(b, i, k, signed)
           rec == [com |-> k, signed |-> signed]
<1>1. /\ n.kind = b.kind /\ n.route = IF b.kind = Routed THEN RouteOf(k) ELSE b.route
      /\ n.slots[i] = rec /\ \A j \in Indices \ {i} : n.slots[j] = b.slots[j]
  BY WithRecordFacts
<1>2. rec.com = k
  OBVIOUS
<1> HIDE DEF n, rec
<1>3. /\ HeaderOf(k.channel) # Unopened /\ Occupied(k.channel)
      /\ \/ b.kind = Direct /\ StageableDirect(k)
         \/ b.kind = Routed /\ StageableRoute(k) /\ b.route \in {NoRoute, RouteOf(k)}
  BY DEF Accepts
<1>4. Direct # Routed
  BY DEF Direct, Routed
<1>5. b.kind = Routed => Gateway(k) \notin Named(k)
  BY <1>3, <1>4 DEF StageableRoute, Named
<1>6. RecordFits(n, k)
  BY <1>1, <1>3, <1>4, <1>5 DEF RecordFits, StageableDirect, StageableRoute, BaseReached
<1>7. ASSUME NEW j \in Indices \ {i}, b.slots[j] # Blank
      PROVE  RecordFits(n, b.slots[j].com)
  <2> DEFINE x == b.slots[j].com
  <2>1. RecordFits(b, x)
    BY <1>7
  <2> HIDE DEF x
  <2>2. b.kind = Routed => RouteOf(x) = b.route
    BY <2>1 DEF RecordFits
  <2>3. RouteOf(x) # NoRoute
    BY DEF RouteOf, NoRoute
  <2>4. b.kind = Routed => RouteOf(x) = n.route
    BY <2>2, <2>3, <1>1, <1>3, <1>4
  <2>5. RecordFits(n, x)
    BY <2>1, <2>4, <1>1 DEF RecordFits
  <2> QED BY <2>5 DEF x
<1> QED BY <1>1, <1>2, <1>6, <1>7 DEF n

\* A buffer whose records fit before a step that keeps channels still has them fitting.
LEMMA FitsNext ==
  ASSUME VInv', TypeOK, TypeOK', Kept, NEW s \in Stagings, NEW b, staging'[s] = b, Account(b),
         \A j \in Indices : b.slots[j] # Blank => RecordFits(b, b.slots[j].com)
  PROVE  \A i \in Indices : staging'[s].slots[i] # Blank =>
            RecordFits(staging[s], staging[s].slots[i].com)'
<1> SUFFICES ASSUME NEW i \in Indices, staging'[s].slots[i] # Blank
             PROVE  RecordFits(staging[s], staging[s].slots[i].com)'
  OBVIOUS
<1> DEFINE k == b.slots[i].com
<1>1. k \in Commitments
  BY DEF VInv, SignedInBuffer, Account
<1>2. RecordFits(b, k)
  OBVIOUS
<1>3. RecordFits(b, k)'
  BY <1>1, <1>2, FitsStays
<1> QED BY <1>3

\* A buffer is written, by staging, by sealing or by both: its records fit, and its bits,
\* if they are not those of before, are none.
LEMMA BufferWritten ==
  ASSUME ClearingInv, VInv', Steady, instance' \in 0 .. MaxInstances,
         NEW s \in Stagings, NEW b, NEW r, Account(b),
         staging' = [staging EXCEPT ![s] = b],
         result'[s] = r, \A t \in Stagings \ {s} : result'[t] = result[t],
         \A j \in Indices : b.slots[j] # Blank => RecordFits(b, b.slots[j].com),
         r = result[s] \/ (r.bitmap = {} /\ r.applied = {})
  PROVE  ClearingInv'
<1>1. MoneyInOrder' /\ TypeOK /\ TypeOK' /\ Kept
  BY MoneyRests DEF Steady, ClearingInv
<1>2. DOMAIN staging = Stagings /\ DOMAIN result = Stagings
  BY DEF ClearingInv, VInv, Types
<1>3. /\ staging'[s] = b /\ \A t \in Stagings \ {s} : staging'[t] = staging[t]
      /\ result'[s] = r /\ \A t \in Stagings \ {s} : result'[t] = result[t]
  BY <1>2
<1>4. \A j \in Indices : staging'[s].slots[j] # Blank =>
          RecordFits(staging[s], staging[s].slots[j].com)'
  BY <1>1, <1>3, FitsNext
<1>5. StagedRecords'
  BY <1>1, <1>3, <1>4, RecordsStay DEF ClearingInv
<1>6. VerdictBits'
  BY <1>3 DEF ClearingInv, VerdictBits, Account
<1> QED BY <1>1, <1>5, <1>6 DEF ClearingInv

\* stage_records.
LEMMA StageKeeps ==
  ASSUME ClearingInv, VInv', NEW s \in Stagings, NEW i \in Indices, NEW k \in Commitments,
         NEW signed \in {{}, signatures[k]}, StageRecord(s, i, k, signed)
  PROVE  ClearingInv'
<1>1. PICK b : b = staging[s]
  OBVIOUS
<1>2. PICK n : n = WithRecord(b, i, k, signed)
  OBVIOUS
<1>3. /\ Account(b) /\ Accepts(b, k)
      /\ staging' = [staging EXCEPT ![s] = n]
      /\ result' = result /\ instance' = instance
  BY <1>1, <1>2 DEF StageRecord, arciumVars
<1>4. Steady
  BY DEF StageRecord, Steady
<1>5. b \in BufferWith(b.route)
  BY <1>1, <1>3, ClosedFacts DEF ClearingInv, VInv, Types, IsBuffer
<1>6. signed \in SUBSET Signers
  BY DEF ClearingInv, VInv, Types
<1>7. \A j \in Indices : b.slots[j] # Blank => RecordFits(b, b.slots[j].com)
  BY <1>1, <1>3 DEF ClearingInv, StagedRecords
<1>8. \A j \in Indices : n.slots[j] # Blank => RecordFits(n, n.slots[j].com)
  BY <1>2, <1>3, <1>5, <1>6, <1>7, AcceptedFits
<1>9. Account(n)
  BY <1>2, <1>5, <1>6, WithRecordFacts, ClosedFacts
<1>10. PICK r : r = result[s]
  OBVIOUS
<1>11. /\ result'[s] = r /\ \A t \in Stagings \ {s} : result'[t] = result[t]
       /\ instance' \in 0 .. MaxInstances
  BY <1>3, <1>10 DEF ClearingInv
<1> QED BY <1>3, <1>4, <1>8, <1>9, <1>10, <1>11, BufferWritten

\* What sealing makes of records that fit; nothing is verified of them yet.
LEMMA SealedFits ==
  ASSUME NEW b, b \in BufferWith(b.route), NEW count \in 1 .. BatchSize, NEW kind \in Kinds,
         NEW o, NEW queued,
         \A j \in Indices : b.slots[j] # Blank => RecordFits(b, b.slots[j].com)
  PROVE  LET n == SealedBuffer(b, count)
             r == QueuedResult(kind, count, o, queued)
         IN  /\ Account(n) /\ r.bitmap = {} /\ r.applied = {}
             /\ \A j \in Indices : n.slots[j] # Blank => RecordFits(n, n.slots[j].com)
<1> DEFINE n == SealedBuffer(b, count)
<1>1. /\ n \in BufferWith(n.route) /\ n.kind = b.kind /\ n.route = b.route
      /\ \A j \in Indices : n.slots[j] \in {b.slots[x] : x \in Indices}
  <2> DEFINE slots == [i \in Indices |-> IF i < count THEN b.slots[i] ELSE b.slots[0]]
  <2>2. b.slots \in [Indices -> Record \cup {Blank}]
    BY DEF BufferWith
  <2>3. slots \in [Indices -> Record \cup {Blank}]
    BY <2>2, IndexFacts
  <2>4. n = [b EXCEPT !.sealed = TRUE, !.slots = slots]
    BY DEF SealedBuffer
  <2>5. n \in BufferWith(b.route) /\ n.kind = b.kind /\ n.slots = slots /\ n.route = b.route
    BY <2>3, <2>4 DEF BufferWith
  <2> QED BY <2>5, IndexFacts
<1>2. QueuedResult(kind, count, o, queued).bitmap = {} /\ QueuedResult(kind, count, o, queued).applied = {}
  BY DEF QueuedResult, ClearedResult
<1> HIDE DEF n
<1>3. Account(n)
  BY <1>1, ClosedFacts
<1>4. ASSUME NEW j \in Indices, n.slots[j] # Blank
      PROVE  RecordFits(n, n.slots[j].com)
  <2>1. PICK x \in Indices : n.slots[j] = b.slots[x]
    BY <1>1
  <2>2. RecordFits(b, n.slots[j].com)
    BY <1>4, <2>1
  <2> QED BY <2>2, <1>1 DEF RecordFits
<1> QED BY <1>2, <1>3, <1>4 DEF n

\* seal_and_queue.
LEMMA SealKeeps ==
  ASSUME ClearingInv, VInv', NEW s \in Stagings, NEW kind \in Kinds, NEW count \in 0 .. BatchSize,
         NEW o \in Offsets, SealAndQueue(s, kind, count, o)
  PROVE  ClearingInv'
<1>1. PICK b : b = staging[s]
  OBVIOUS
<1>2. PICK n, r : n = SealedBuffer(b, count) /\ r = QueuedResult(kind, count, o, instance + 1)
  OBVIOUS
<1>3. /\ Account(b) /\ count \in 1 .. BatchSize /\ instance < MaxInstances
      /\ instance' = instance + 1
      /\ staging' = [staging EXCEPT ![s] = n] /\ result' = [result EXCEPT ![s] = r]
  BY <1>1, <1>2 DEF SealAndQueue, Sealable
<1>4. Steady
  BY DEF SealAndQueue, Steady
<1>5. b \in BufferWith(b.route)
  BY <1>1, <1>3, ClosedFacts DEF ClearingInv, VInv, Types, IsBuffer
<1>6. instance' \in 0 .. MaxInstances
  BY <1>3, BatchesNotEmpty DEF ClearingInv
<1>7. \A j \in Indices : b.slots[j] # Blank => RecordFits(b, b.slots[j].com)
  BY <1>1, <1>3 DEF ClearingInv, StagedRecords
<1>8. /\ Account(n) /\ r.bitmap = {} /\ r.applied = {}
      /\ \A j \in Indices : n.slots[j] # Blank => RecordFits(n, n.slots[j].com)
  BY <1>2, <1>3, <1>5, <1>7, SealedFits
<1>9. result'[s] = r /\ \A t \in Stagings \ {s} : result'[t] = result[t]
  BY <1>3 DEF ClearingInv, VInv, Types
<1> QED BY <1>3, <1>4, <1>6, <1>8, <1>9, BufferWritten

\* clear_*_callback: the bits come with the verdict, none was applied before it.
LEMMA CallbackKeeps ==
  ASSUME ClearingInv, VInv', NEW out \in outputs, Callback(out)
  PROVE  ClearingInv'
<1> DEFINE s == out.target
           failed == [result[s] EXCEPT !.failed = TRUE]
           given == {i \in out.bits : i < result[s].count}
           verified == [result[s] EXCEPT !.verified = TRUE, !.bitmap = given]
<1>1. s \in Stagings
  BY DEF ClearingInv, VInv, Types, OutputSet
<1>2. /\ Account(result[s]) /\ staging' = staging /\ instance' = instance
      /\ ~result[s].verified
      /\ result' = [result EXCEPT ![s] = failed] \/ result' = [result EXCEPT ![s] = verified]
  BY DEF Callback, RecordFailure, RecordBitmap, arciumVars
<1>3. result[s] \in ResultSet /\ DOMAIN result = Stagings
  BY <1>1, <1>2, ClosedFacts DEF ClearingInv, VInv, Types
<1>4. failed.bitmap = result[s].bitmap /\ failed.applied = result[s].applied
  BY <1>3 DEF ResultSet
<1>5. verified.applied = result[s].applied /\ verified.bitmap = given /\ verified.verified
  <2> HIDE DEF given
  <2> QED BY <1>3 DEF ResultSet
<1>6. result[s].bitmap = {} /\ result[s].applied = {}
  BY <1>1, <1>2 DEF ClearingInv, VerdictBits
<1> HIDE DEF failed, verified, given
<1>7. PICK r : /\ r = failed \/ r = verified
               /\ result' = [result EXCEPT ![s] = r]
  BY <1>2
<1>8. r.applied = {} /\ (~r.verified => r.bitmap = {})
  BY <1>4, <1>5, <1>6, <1>7
<1>9. result'[s] = r /\ \A t \in Stagings \ {s} : result'[t] = result[t]
  BY <1>1, <1>3, <1>7
<1> HIDE DEF s
<1>10. VerdictBits'
  BY <1>8, <1>9 DEF ClearingInv, VerdictBits, Account
<1>11. Steady
  BY DEF Callback, Steady
<1> QED BY <1>2, <1>10, <1>11, SameBuffers

\* A record whose bit is set is ready to be settled, if only the balances it pays exist.
LEMMA VerifiedIsReady ==
  ASSUME ClearingInv, NEW s \in Stagings, Account(result[s]), NEW i \in result[s].bitmap
  PROVE  LET k == staging[s].slots[i].com
         IN  /\ result[s].verified /\ Account(staging[s]) /\ staging[s].sealed
             /\ staging[s].kind = result[s].kind
             /\ i \in Indices /\ i < result[s].count
             /\ RecordFits(staging[s], k)
             /\ BalancesOpen(k) => Ready(k)
<1> DEFINE b == staging[s]
           r == result[s]
           k == b.slots[i].com
<1>1. r.verified
  BY DEF ClearingInv, VerdictBits
<1>2. VerdictMatchesBatch /\ VInv
  BY VerdictsMatch DEF ClearingInv
<1>3. /\ b.sealed /\ b.kind = r.kind /\ Account(b)
      /\ Required(r.kind) \subseteq signatures[k]
  BY <1>1, <1>2 DEF VerdictMatchesBatch, VInv, Paired
<1>4. r \in ResultSet
  BY <1>2, ClosedFacts DEF VInv, Types
<1>5. r.bitmap = {j \in 0 .. r.count - 1 : j \in Bits(b)} /\ r.count \in Nat
  <2>1. r.bitmap = {j \in 0 .. r.count - 1 : j \in Bits(b)}
    BY <1>1, <1>2 DEF VInv, Verdicts
  <2>2. r.count \in 0 .. BatchSize
    BY <1>4 DEF ResultSet
  <2> QED BY <2>1, <2>2
<1>6. i \in Indices /\ i < r.count /\ Verifies(b.slots[i], b.kind)
  <2>1. i \in Bits(b) /\ i \in 0 .. r.count - 1
    BY <1>5
  <2> QED BY <2>1, <1>5 DEF Bits
<1>7. b.slots[i] # Blank
  BY <1>6 DEF Verifies
<1>8. k \in Commitments
  BY <1>2, <1>3, <1>6, <1>7 DEF VInv, SignedInBuffer
<1>9. RecordFits(b, k)
  BY <1>3, <1>6, <1>7 DEF ClearingInv, StagedRecords
<1>10. HeaderOf(k.channel) \in Header
  <2>1. k.channel[1] \in Buckets
    BY <1>8, CommitmentFacts DEF Channels
  <2>2. HeaderOf(k.channel) \in Header \cup {Unopened} /\ HeaderOf(k.channel) # Unopened
    BY <1>9, <2>1 DEF HeaderOf, ClearingInv, MoneyInOrder, TypeOK, RecordFits
  <2> QED BY <2>2
<1>11. BalancesOpen(k) => Ready(k)
  BY <1>3, <1>8, <1>9, <1>10 DEF Ready, RecordFits
<1> QED BY <1>1, <1>3, <1>6, <1>9, <1>11

\* Each record of an instruction that is accepted is ready, and its bit set.
LEMMA OrderIsReady ==
  ASSUME ClearingInv, NEW s \in Stagings, NEW order \in Orders, SettlementAccepted(s, order)
  PROVE  /\ Account(result[s]) /\ Len(order) \in Nat /\ DOMAIN order = 1 .. Len(order)
         /\ \A a \in 1 .. Len(order) : /\ order[a] \in result[s].bitmap
                                       /\ Ready(staging[s].slots[order[a]].com)
<1>1. Account(result[s])
  BY DEF SettlementAccepted, ClearingInv, VInv, Paired
<1>2. PICK n \in 1 .. BatchSize : order \in [1 .. n -> Indices]
  BY DEF Orders
<1>3. Len(order) = n /\ n \in Nat /\ DOMAIN order = 1 .. n
  BY <1>2, BatchesNotEmpty
<1>4. ASSUME NEW a \in 1 .. Len(order)
      PROVE  order[a] \in result[s].bitmap /\ BalancesOpen(staging[s].slots[order[a]].com)
  BY DEF SettlementAccepted, Settleable, AccountsAccepted
<1> QED BY <1>1, <1>3, <1>4, VerifiedIsReady

\* settle_channels: the money of the last record is a settlement as Custody promises it,
\* every unit it passed went to an owner, and only verified bits were applied.
LEMMA SettleKeeps ==
  ASSUME ClearingInv, VInv', NEW s \in Stagings, NEW order \in Orders, SettleGroups(s, order)
  PROVE  ClearingInv' /\ SettleChannels
<1>1. /\ SettlementAccepted(s, order)
      /\ UNCHANGED <<now, tokenVars, vault, opened, identity, pending>>
      /\ signatures' = signatures /\ staging' = staging /\ instance' = instance
      /\ result' = [result EXCEPT ![s].applied = @ \cup {order[a] : a \in DOMAIN order}]
  BY DEF SettleGroups, arciumVars
<1>2. MoneyInOrder /\ TypeOK /\ NothingOutsideAccounts /\ Solvency
  BY DEF ClearingInv, MoneyInOrder
<1>3. /\ Account(result[s]) /\ Len(order) \in Nat /\ DOMAIN order = 1 .. Len(order)
      /\ \A a \in 1 .. Len(order) : /\ order[a] \in result[s].bitmap
                                    /\ Ready(staging[s].slots[order[a]].com)
  BY <1>1, OrderIsReady
<1>4. PaidInTurn(MoneyAfter(s, order), s, order)
  BY <1>2, <1>3, MoneyAfterIs
<1>5. PICK M : M = MoneyAfter(s, order)[Len(order)]
  OBVIOUS
<1>6. PaidOut(M)
  <2>1. Len(order) \in 0 .. Len(order)
    BY <1>3
  <2> QED BY <1>4, <1>5, <2>1 DEF PaidInTurn
<1>7. /\ locked' = M.locked /\ settled' = M.settled
      /\ available' = M.available /\ paidFrom' = M.paidFrom
  BY <1>5 DEF SettleGroups
<1>8. SettleChannels
  BY <1>1, <1>2, <1>6, <1>7, PaidOutSettles
<1>9. Next
  BY <1>8 DEF Next
<1>10. TypeOK' /\ NothingOutsideAccounts'
  BY <1>2, <1>9, TypeStep, AccountsStep
<1>11. Solvency'
  BY <1>2, <1>9, <1>10, SolventStep
<1>12. Kept
  BY <1>2, <1>9, IdentityStep DEF Kept
<1>13. PaidOwners'
  <2>1. ASSUME NEW c \in Channels
        PROVE  Owned(c, settled[c], paidFrom[c])'
    <3>1. PICK n, paid : n = M.settled[c] /\ paid = M.paidFrom[c]
      OBVIOUS
    <3>2. Owned(c, n, paid) /\ n \in Nat
      BY <1>6, <3>1, NumbersAreU64 DEF PaidOut, OwnedMoney, MoneySet, U64
    <3>3. HeaderOf(c)' = HeaderOf(c)
      BY <1>1 DEF identity, HeaderOf
    <3>4. Owned(c, n, paid)'
      BY <1>1, <3>2, <3>3, OwnedStays
    <3> QED BY <1>7, <3>1, <3>4
  <2> QED BY <2>1 DEF PaidOwners
<1>14. paidFrom' \in [Channels -> [Participants -> U64]]
  BY <1>6, <1>7 DEF PaidOut, MoneySet
<1>15. MoneyInOrder'
  BY <1>10, <1>11, <1>13, <1>14 DEF MoneyInOrder
<1>16. VerdictBits'
  <2> DEFINE done == {order[a] : a \in DOMAIN order}
             r == [result[s] EXCEPT !.applied = @ \cup done]
  <2>1. result[s] \in ResultSet /\ DOMAIN result = Stagings
    BY <1>3, ClosedFacts DEF ClearingInv, VInv, Types
  <2>2. done \subseteq result[s].bitmap
    BY <1>3
  <2>3. /\ r.applied = result[s].applied \cup done /\ r.bitmap = result[s].bitmap
        /\ r.verified = result[s].verified
    <3> HIDE DEF done
    <3> QED BY <2>1 DEF ResultSet
  <2>4. result' = [result EXCEPT ![s] = r]
    BY <1>1
  <2> HIDE DEF done, r
  <2>5. result'[s] = r /\ \A t \in Stagings \ {s} : result'[t] = result[t]
    BY <2>1, <2>4
  <2>6. r.applied \subseteq r.bitmap /\ (~r.verified => r.bitmap = {})
    BY <1>3, <2>2, <2>3 DEF ClearingInv, VerdictBits
  <2> QED BY <2>5, <2>6 DEF ClearingInv, VerdictBits, Account
<1>17. StagedRecords'
  BY <1>1, <1>2, <1>10, <1>12, RecordsStay DEF ClearingInv
<1> QED BY <1>1, <1>8, <1>15, <1>16, <1>17 DEF ClearingInv

\* The other instructions leave the watermarks, so every unit paid keeps its owner.
LEMMA WatermarksStay ==
  ASSUME MoneyStep
  PROVE  settled' = settled
BY DEF MoneyStep, Tick, BalanceStep, OpenBalance, Deposit, Withdraw, InitializeChannelBucket,
       PayerStep, CreateChannel, LockChannelFunds, RequestUnlock, CancelUnlock, ExecuteUnlock,
       BothStep, CooperativeUnlock, Release

\* The instructions of Custody, between those of clearing.
LEMMA MoneyKeeps ==
  ASSUME ClearingInv, VInv', MoneyStep, UNCHANGED clearingVars
  PROVE  ClearingInv'
<1>1. /\ signatures' = signatures /\ staging' = staging /\ instance' = instance
      /\ result' = result /\ paidFrom' = paidFrom
  BY DEF clearingVars, arciumVars
<1>2. MoneyInOrder /\ TypeOK /\ NothingOutsideAccounts /\ Solvency
  BY DEF ClearingInv, MoneyInOrder
<1>3. Next
  BY DEF MoneyStep, Next
<1>4. TypeOK' /\ NothingOutsideAccounts'
  BY <1>2, <1>3, TypeStep, AccountsStep
<1>5. Solvency'
  BY <1>2, <1>3, <1>4, SolventStep
<1>6. Kept
  BY <1>2, <1>3, IdentityStep DEF Kept
<1>7. settled' = settled
  BY WatermarksStay
<1>8. PaidOwners'
  <2>1. ASSUME NEW c \in Channels
        PROVE  Owned(c, settled[c], paidFrom[c])'
    <3>1. PICK n, paid : n = settled[c] /\ paid = paidFrom[c]
      OBVIOUS
    <3>2. Owned(c, n, paid) /\ n \in Nat
      BY <1>2, <3>1, NumbersAreU64 DEF MoneyInOrder, PaidOwners, TypeOK, U64
    <3>3. n > 0 => HeaderOf(c)' = HeaderOf(c)
      <4>1. ASSUME n > 0
            PROVE  HeaderOf(c)' = HeaderOf(c)
        <5>1. settled[c] # 0
          BY <3>1, <4>1
        <5>2. HeaderOf(c) # Unopened
          BY <1>2, <5>1 DEF NothingOutsideAccounts
        <5>3. c[1] \in Buckets
          BY DEF Channels
        <5> QED BY <1>6, <5>2, <5>3 DEF Kept, HeaderOf
      <4> QED BY <4>1
    <3>4. Owned(c, n, paid)'
      BY <1>1, <3>2, <3>3, OwnedStays
    <3> QED BY <1>1, <1>7, <3>1, <3>4
  <2> QED BY <2>1 DEF PaidOwners
<1>9. MoneyInOrder'
  BY <1>1, <1>2, <1>4, <1>5, <1>8 DEF MoneyInOrder
<1>10. StagedRecords'
  BY <1>1, <1>2, <1>4, <1>6, RecordsStay DEF ClearingInv
<1> QED BY <1>1, <1>9, <1>10, SameVerdicts DEF ClearingInv

-----------------------------------------------------------------------------
(* Every step.                                                             *)

\* Every step of clearing, and every other instruction of the program, keeps ClearingInv.
LEMMA NextClearing == ClearingInv /\ [CNext]_vars => ClearingInv'
<1> SUFFICES ASSUME ClearingInv, [CNext]_vars PROVE ClearingInv'
  OBVIOUS
<1>1. VInv'
  BY NextVerdicts DEF ClearingInv
<1>2. ASSUME NEW k \in Commitments, NEW who \in Signers, Sign(k, who) PROVE ClearingInv'
  BY <1>1, <1>2, SignKeeps
<1>3. CASE RelayerStep
  <2>1. PICK s \in Stagings :
          \/ \E kind \in Kinds : OpenStaging(s, kind) \/ ResetStaging(s, kind)
          \/ CloseStaging(s)
          \/ \E i \in Indices, k \in Commitments :
               \E signed \in {{}, signatures[k]} : StageRecord(s, i, k, signed)
          \/ \E kind \in Kinds, count \in 0 .. BatchSize, o \in Offsets :
               SealAndQueue(s, kind, count, o)
    BY <1>3 DEF RelayerStep
  <2>2. ASSUME NEW kind \in Kinds, OpenStaging(s, kind) \/ ResetStaging(s, kind)
        PROVE  ClearingInv'
    BY <2>2, <1>1, BufferKeeps
  <2>3. CASE CloseStaging(s)
    BY <2>3, <1>1, BufferKeeps DEF Kinds
  <2>4. ASSUME NEW i \in Indices, NEW k \in Commitments, NEW signed \in {{}, signatures[k]},
               StageRecord(s, i, k, signed)
        PROVE  ClearingInv'
    BY <2>4, <1>1, StageKeeps
  <2>5. ASSUME NEW kind \in Kinds, NEW count \in 0 .. BatchSize, NEW o \in Offsets,
               SealAndQueue(s, kind, count, o)
        PROVE  ClearingInv'
    BY <2>5, <1>1, SealKeeps
  <2> QED BY <2>1, <2>2, <2>3, <2>4, <2>5
<1>4. CASE ArciumStep
  <2>1. ASSUME NEW o \in Offsets, NEW fails \in BOOLEAN, RunComputation(o, fails)
        PROVE  ClearingInv'
    BY <2>1, <1>1, ComputationKeeps
  <2>2. ASSUME NEW o \in Offsets, ClaimComputationRent(o) PROVE ClearingInv'
    BY <2>2, <1>1, ComputationKeeps
  <2>3. ASSUME NEW out \in outputs, Callback(out) PROVE ClearingInv'
    BY <2>3, <1>1, CallbackKeeps
  <2> QED BY <1>4, <2>1, <2>2, <2>3 DEF ArciumStep
<1>5. CASE SettleStep
  BY <1>5, <1>1, SettleKeeps DEF SettleStep
<1>6. CASE MoneyStep /\ UNCHANGED clearingVars
  BY <1>6, <1>1, MoneyKeeps
<1>7. CASE UNCHANGED vars
  <2>1. Steady
    BY <1>7 DEF vars, clearingVars, Steady
  <2>2. instance' = instance /\ staging' = staging /\ result' = result
    BY <1>7 DEF vars, clearingVars, arciumVars
  <2> QED BY <1>1, <2>1, <2>2, SameBuffers, SameVerdicts
<1> QED BY <1>2, <1>3, <1>4, <1>5, <1>6, <1>7 DEF CNext

\* ClearingInv holds for ever.
LEMMA ClearingStays == CSpec => []ClearingInv
<1>1. CInit => ClearingInv
  <2>1. CInit => Funded /\ signatures \in [Commitments -> SUBSET Signers]
    BY DEF CInit
  <2> QED BY <2>1, InitClearing
<1> QED BY <1>1, NextClearing, PTL DEF CSpec

-----------------------------------------------------------------------------
(* The theorems.                                                           *)

\* Buffers, results and the money are well formed, and an applied bit is a verified bit
\* of the same batch (clearing/mod.rs:1236-1241).
THEOREM ClearingTypes == CSpec => []CTypeOK
<1>1. ClearingInv => CTypeOK
  <2> SUFFICES ASSUME ClearingInv PROVE CTypeOK
    OBVIOUS
  <2>1. TypeOK /\ paidFrom \in [Channels -> [Participants -> U64]]
    BY DEF ClearingInv, MoneyInOrder
  <2>2. signatures \in [Commitments -> SUBSET Signers]
    BY DEF ClearingInv, VInv, Types
  <2>3. ASSUME NEW s \in Stagings, Account(staging[s])
        PROVE  /\ staging[s].kind \in Kinds /\ staging[s].sealed \in BOOLEAN
               /\ staging[s].staged \subseteq Indices
               /\ staging[s].slots \in [Indices -> Record \cup {Blank}]
    <3>1. staging[s] \in BufferWith(staging[s].route)
      BY <2>3, ClosedFacts DEF ClearingInv, VInv, Types, IsBuffer
    <3> QED BY <3>1 DEF BufferWith
  <2>4. ASSUME NEW s \in Stagings, Account(result[s])
        PROVE  /\ result[s].kind \in Kinds /\ result[s].count \in 0 .. BatchSize
               /\ result[s].bitmap \subseteq Indices /\ result[s].applied \subseteq result[s].bitmap
    <3>1. result[s] \in ResultSet
      BY <2>4, ClosedFacts DEF ClearingInv, VInv, Types
    <3>2. result[s].applied \subseteq result[s].bitmap
      BY <2>4 DEF ClearingInv, VerdictBits
    <3> QED BY <3>1, <3>2 DEF ResultSet
  <2>5. instance \in 0 .. MaxInstances
    BY DEF ClearingInv
  <2> QED BY <2>1, <2>2, <2>3, <2>4, <2>5 DEF CTypeOK
<1> QED BY <1>1, ClearingStays, PTL

\* However settlements, instructions of others and Arcium interleave, every unit of every
\* channel is paid once, and only to one whom a fully signed commitment gives it to.
THEOREM EveryUnitOnceAsSigned == CSpec => []UnitsPaidOnceAsSigned
<1>1. ClearingInv => UnitsPaidOnceAsSigned
  <2> SUFFICES ASSUME ClearingInv, NEW c \in Channels
               PROVE  /\ Total(paidFrom[c]) = settled[c]
                      /\ \A p \in Participants : paidFrom[c][p] <= Cardinality(SignedFor(c, p))
    BY DEF UnitsPaidOnceAsSigned
  <2>1. /\ settled[c] \in U64 /\ paidFrom[c] \in [Participants -> U64]
        /\ Owned(c, settled[c], paidFrom[c])
    BY DEF ClearingInv, MoneyInOrder, PaidOwners, TypeOK
  <2>2. DOMAIN paidFrom[c] = Participants /\ paidFrom[c] = [p \in Participants |-> paidFrom[c][p]]
    BY <2>1
  <2> QED BY <2>1, <2>2, OwnedTotals DEF SignedFor
<1> QED BY <1>1, ClearingStays, PTL

\* A verified record can be settled by anyone, whatever was settled, unlocked or withdrawn
\* since, as long as the balances it pays exist.
THEOREM VerifiedSettles == CSpec => []VerifiedStaysSettleable
<1>1. ClearingInv => VerifiedStaysSettleable
  <2> SUFFICES ASSUME ClearingInv, NEW s \in Stagings, Account(result[s]),
                      NEW i \in result[s].bitmap \ result[s].applied,
                      BalancesOpen(staging[s].slots[i].com)
               PROVE  SettlementAccepted(s, <<i>>)
    BY DEF VerifiedStaysSettleable
  <2> DEFINE k == staging[s].slots[i].com
             order == <<i>>
             after == MoneyAfter(s, order)
  <2>1. /\ result[s].verified /\ Account(staging[s]) /\ staging[s].sealed
        /\ staging[s].kind = result[s].kind
        /\ i \in Indices /\ i < result[s].count
        /\ RecordFits(staging[s], k) /\ Ready(k)
    BY VerifiedIsReady
  <2>2. Len(order) = 1 /\ 1 .. Len(order) = {1} /\ order[1] = i
    OBVIOUS
  <2> HIDE DEF order
  <2>3. MoneyInOrder /\ TypeOK
    BY DEF ClearingInv, MoneyInOrder
  <2>4. PaidInTurn(after, s, order)
    BY <2>1, <2>2, <2>3, MoneyAfterIs
  <2>5. after[0] = Money /\ PaidOut(Money)
    BY <2>3, <2>4, NothingPaidYet DEF PaidInTurn
  <2>6. AmountsAccepted(after[0], k)
    BY <2>1, <2>3, <2>5, PayKeeps
  <2>7. AccountsAccepted(s, k)
    BY <2>1 DEF AccountsAccepted, RecordFits
  <2>8. Settleable(result[s], i)
    BY <2>1 DEF Settleable
  <2> HIDE DEF k, after
  <2>9. \A a \in 1 .. Len(order) : /\ Settleable(result[s], order[a])
                                   /\ staging[s].slots[order[a]].com = k
                                   /\ AccountsAccepted(s, k) /\ AmountsAccepted(after[a - 1], k)
    <3>1. 1 - 1 = 0
      OBVIOUS
    <3> QED BY <2>2, <2>6, <2>7, <2>8, <3>1 DEF k
  <2>10. Len(order) > 0 /\ \A a, b \in 1 .. Len(order) : a # b => order[a] # order[b]
    BY <2>2
  <2>11. SettlementAccepted(s, order)
    BY <2>1, <2>9, <2>10 DEF SettlementAccepted, after
  <2> QED BY <2>11 DEF order
<1> QED BY <1>1, ClearingStays, PTL

\* Vaults and ledger stay equal under settlement too.
THEOREM ClearingSolvent == CSpec => []Solvency
<1>1. ClearingInv => Solvency
  BY DEF ClearingInv, MoneyInOrder
<1> QED BY <1>1, ClearingStays, PTL

\* Every step of clearing is a settlement as Custody promises it, or leaves the money alone.
THEOREM ClearingRefinesCustody == CSpec => ImplementsCustody
<1>1. ClearingInv /\ ClearingInv' /\ [CNext]_vars =>
        [clearingVars' # clearingVars => UNCHANGED custodyVars \/ SettleChannels]_vars
  <2> SUFFICES ASSUME ClearingInv, ClearingInv', CNext, clearingVars' # clearingVars
               PROVE  UNCHANGED custodyVars \/ SettleChannels
    OBVIOUS
  <2>1. CASE SettleStep
    <3>1. VInv'
      BY DEF ClearingInv
    <3> QED BY <2>1, <3>1, SettleKeeps DEF SettleStep
  <2>2. CASE ~SettleStep
    BY <2>2 DEF CNext, Sign, RelayerStep, OpenStaging, ResetStaging, CloseStaging, StageRecord,
                SealAndQueue, ArciumStep, RunComputation, ClaimComputationRent, Callback
  <2> QED BY <2>1, <2>2
<1> QED BY <1>1, ClearingStays, PTL DEF CSpec, ImplementsCustody

\* With its clearing and the instructions in between, the program only ever takes steps
\* of Custody.
THEOREM ClearingStepsAreCustodys == CSpec => [][Next]_custodyVars
<1>1. ClearingInv /\ ClearingInv' /\ [CNext]_vars => [Next]_custodyVars
  <2> SUFFICES ASSUME ClearingInv, ClearingInv', [CNext]_vars
               PROVE  Next \/ UNCHANGED custodyVars
    OBVIOUS
  <2>1. CASE SettleStep
    <3>1. VInv'
      BY DEF ClearingInv
    <3> QED BY <2>1, <3>1, SettleKeeps DEF SettleStep, Next
  <2>2. CASE MoneyStep
    BY <2>2 DEF MoneyStep, Next
  <2>3. CASE UNCHANGED vars
    BY <2>3 DEF vars
  <2>4. CASE ~SettleStep /\ ~MoneyStep /\ CNext
    BY <2>4 DEF CNext, Sign, RelayerStep, OpenStaging, ResetStaging, CloseStaging, StageRecord,
                SealAndQueue, ArciumStep, RunComputation, ClaimComputationRent, Callback
  <2> QED BY <2>1, <2>2, <2>3, <2>4
<1> QED BY <1>1, ClearingStays, PTL DEF CSpec

\* Nor does settlement freeze anybody's free balance or matured request.
THEOREM ClearingNeverFreezes == CSpec => []FundsNeverFrozen
<1>1. ClearingInv => FundsNeverFrozen
  BY FundsFree DEF ClearingInv, MoneyInOrder
<1> QED BY <1>1, ClearingStays, PTL
=============================================================================
