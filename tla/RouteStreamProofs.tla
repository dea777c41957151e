--------------------------- MODULE RouteStreamProofs ---------------------------
(***************************************************************************)
(* However a routed commitment is cut by partial settlements, every unit   *)
(* of its range goes to its owner, for every commitment and every amount.  *)
(***************************************************************************)
EXTENDS RouteStream, PayoutProofs

-----------------------------------------------------------------------------
(* The reference: what Owners is.                                          *)

\* The ids of the first i pieces, unit by unit.
OwnersUpto(x, i) ==
    [u \in 1 .. PieceEnd(x)[i] - x.base |->
        x.allocations[CHOOSE a \in 1 .. Len(x.allocations) : Holds(x, a, u + x.base)].id]

\* The units of piece i, as Owners writes them.
PieceUnits(x) ==
    [a \in 1 .. Len(x.allocations) |->
        [u \in 1 .. x.allocations[a].amount |-> x.allocations[a].id]]

\* A unit's owner is that of the piece that holds it.
LEMMA HolderOf ==
  ASSUME NEW x, IsRoute(x), NEW i \in 1 .. Len(x.allocations), NEW u \in Int,
         Holds(x, i, u + x.base)
  PROVE  (CHOOSE a \in 1 .. Len(x.allocations) : Holds(x, a, u + x.base)) = i
<1>1. u + x.base \in Int
  BY DEF IsRoute
<1> QED BY <1>1, PieceIsUnique

Ids(x) == {x.allocations[a].id : a \in 1 .. Len(x.allocations)}

\* Both are sequences of ids.
LEMMA OwnersAreIds ==
  ASSUME NEW x, IsRoute(x), NEW i \in 0 .. Len(x.allocations)
  PROVE  /\ PieceEnd(x)[i] - x.base \in Nat
         /\ OwnersUpto(x, i) \in Seq(Ids(x))
         /\ Len(OwnersUpto(x, i)) = PieceEnd(x)[i] - x.base
<1> DEFINE n == Len(x.allocations)
           end == PieceEnd(x)
           holder(u) == CHOOSE a \in 1 .. n : Holds(x, a, u + x.base)
<1>1. /\ n \in Nat /\ end \in [0 .. n -> Int] /\ x.base \in Int
      /\ x.base <= end[i] /\ end[i] <= end[n] /\ end[i] \in Int
  <2>1. /\ n \in Nat /\ end \in [0 .. n -> Int] /\ x.base \in Int /\ end[0] = x.base
        /\ \A a \in 0 .. n : \A b \in a .. n : end[a] <= end[b]
    BY PieceFacts DEF PiecesFollow, IsRoute
  <2>2. 0 \in 0 .. n /\ i \in 0 .. n /\ n \in i .. n
    BY <2>1
  <2> HIDE DEF n, end
  <2> QED BY <2>1, <2>2
<1>2. end[i] - x.base \in Nat
  BY <1>1
<1>3. ASSUME NEW u \in 1 .. end[i] - x.base
      PROVE  x.allocations[holder(u)].id \in Ids(x)
  <2>1. u + x.base \in Int /\ x.base < u + x.base /\ u + x.base <= end[n]
    <3> HIDE DEF n, end
    <3> QED BY <1>1
  <2>2. \E a \in 1 .. n : Holds(x, a, u + x.base)
    BY <2>1, UnitHasPiece
  <2>3. holder(u) \in 1 .. n
    BY <2>2
  <2> QED BY <2>3 DEF Ids
<1>4. OwnersUpto(x, i) \in [1 .. end[i] - x.base -> Ids(x)]
  BY <1>3 DEF OwnersUpto
<1> HIDE DEF end
<1>5. OwnersUpto(x, i) \in Seq(Ids(x))
  BY <1>2, <1>4, SeqDef
<1>6. Len(OwnersUpto(x, i)) = end[i] - x.base
  BY <1>2, <1>4
<1> QED BY <1>2, <1>5, <1>6 DEF end

LEMMA UnitsAreIds ==
  ASSUME NEW x, IsRoute(x), NEW i \in 1 .. Len(x.allocations)
  PROVE  /\ PieceUnits(x)[i] \in Seq(Ids(x))
         /\ Len(PieceUnits(x)[i]) = x.allocations[i].amount
         /\ \A u \in 1 .. x.allocations[i].amount : PieceUnits(x)[i][u] = x.allocations[i].id
<1>1. x.allocations[i].amount \in Nat /\ x.allocations[i].id \in Ids(x)
  BY DEF IsRoute, Ids
<1>2. PieceUnits(x)[i] = [u \in 1 .. x.allocations[i].amount |-> x.allocations[i].id]
  BY DEF PieceUnits
<1>3. PieceUnits(x)[i] \in [1 .. x.allocations[i].amount -> Ids(x)]
  BY <1>1, <1>2
<1>4. PieceUnits(x)[i] \in Seq(Ids(x))
  BY <1>1, <1>3, SeqDef
<1> QED BY <1>1, <1>2, <1>3, <1>4

\* Appending a piece.
LEMMA OwnersGrow ==
  ASSUME NEW x, IsRoute(x), NEW i \in 1 .. Len(x.allocations)
  PROVE  /\ i = 1 => OwnersUpto(x, i) = PieceUnits(x)[i]
         /\ i # 1 => OwnersUpto(x, i) = OwnersUpto(x, i - 1) \o PieceUnits(x)[i]
<1> DEFINE n == Len(x.allocations)
           end == PieceEnd(x)
           amount == x.allocations[i].amount
           base == x.base
           units == PieceUnits(x)[i]
           before == OwnersUpto(x, i - 1)
           owners == OwnersUpto(x, i)
<1>1. /\ n \in Nat /\ i \in 1 .. n /\ end \in [0 .. n -> Int] /\ base \in Int /\ end[0] = base
      /\ end[i] = end[i - 1] + amount /\ amount \in Nat
  BY PieceFacts DEF PiecesFollow, IsRoute
<1>2. i - 1 \in 0 .. n /\ i \in 0 .. n /\ end[i] \in Int /\ end[i - 1] \in Int
  <2> HIDE DEF end
  <2> QED BY <1>1
<1>3. /\ units \in Seq(Ids(x)) /\ Len(units) = amount
      /\ \A u \in 1 .. amount : units[u] = x.allocations[i].id
  BY UnitsAreIds DEF amount, base
<1>4. /\ before \in Seq(Ids(x)) /\ Len(before) = end[i - 1] - base
      /\ owners \in Seq(Ids(x)) /\ Len(owners) = end[i] - base
      /\ end[i - 1] - base \in Nat
  BY <1>2, OwnersAreIds
<1>5. ASSUME NEW u \in 1 .. end[i] - base, end[i - 1] - base < u
      PROVE  owners[u] = x.allocations[i].id
  <2>1. end[i - 1] < u + base /\ u + base <= end[i] /\ u \in Int
    <3> HIDE DEF end, amount, base
    <3> QED BY <1>1, <1>2, <1>5
  <2>3. Holds(x, i, u + base)
    BY <2>1 DEF Holds
  <2>2. (CHOOSE a \in 1 .. n : Holds(x, a, u + base)) = i
    BY <2>1, <2>3, HolderOf
  <2> QED BY <2>2 DEF OwnersUpto
<1>6. ASSUME NEW u \in 1 .. end[i] - base, ~(end[i - 1] - base < u)
      PROVE  owners[u] = before[u]
  <2>1. u \in 1 .. end[i - 1] - base
    <3> HIDE DEF end, amount, base, before, owners
    <3> QED BY <1>1, <1>2, <1>4, <1>6
  <2> QED BY <2>1 DEF OwnersUpto
<1> DEFINE lo == end[i - 1] - base
           hi == end[i] - base
<1>7. /\ lo \in Nat /\ hi \in Nat /\ amount \in Nat /\ hi = lo + amount
      /\ i = 1 => lo = 0
      /\ Len(before) = lo /\ Len(owners) = hi /\ Len(units) = amount
  <2>1. i = 1 => end[i - 1] = base
    BY <1>1
  <2> HIDE DEF n, end, amount, base, units, before, owners
  <2>2. hi = lo + amount
    BY <1>1, <1>2
  <2>3. i = 1 => lo = 0
    BY <1>1, <1>2, <2>1
  <2> QED BY <1>1, <1>3, <1>4, <2>2, <2>3
<1>8. /\ \A u \in 1 .. hi : lo < u => owners[u] = x.allocations[i].id
      /\ \A u \in 1 .. hi : ~(lo < u) => owners[u] = before[u]
      /\ \A u \in 1 .. amount : units[u] = x.allocations[i].id
  BY <1>3, <1>5, <1>6
<1> HIDE DEF n, end, amount, base, units, before, owners, lo, hi
<1>9. ASSUME i = 1
      PROVE  owners = units
  <2>1. lo = 0 /\ hi = amount
    BY <1>7, <1>9
  <2>2. \A u \in 1 .. amount : owners[u] = units[u]
    BY <1>7, <1>8, <2>1
  <2>3. Len(owners) = Len(units) /\ \A u \in 1 .. Len(owners) : owners[u] = units[u]
    BY <1>7, <2>1, <2>2
  <2> QED BY <1>3, <1>4, <2>3, SeqEqual
<1>10. owners = before \o units
  <2>1. /\ before \o units \in Seq(Ids(x)) /\ Len(before \o units) = Len(before) + Len(units)
        /\ \A u \in 1 .. Len(before) + Len(units) :
              (before \o units)[u] = IF u <= Len(before) THEN before[u] ELSE units[u - Len(before)]
    BY <1>3, <1>4, ConcatProperties
  <2>2. /\ Len(before \o units) = hi
        /\ \A u \in 1 .. hi : (before \o units)[u] = IF u <= lo THEN before[u] ELSE units[u - lo]
    BY <1>7, <2>1
  <2>3. ASSUME NEW u \in 1 .. hi
        PROVE  owners[u] = (before \o units)[u]
    <3>1. CASE u <= lo
      BY <1>7, <1>8, <2>2, <3>1
    <3>2. CASE ~(u <= lo)
      <4>1. u - lo \in 1 .. amount /\ lo < u
        BY <1>7, <3>2
      <4> QED BY <1>8, <2>2, <3>2, <4>1
    <3> QED BY <3>1, <3>2
  <2>4. Len(owners) = Len(before \o units) /\ \A u \in 1 .. Len(owners) : owners[u] = (before \o units)[u]
    BY <1>7, <2>2, <2>3
  <2> QED BY <1>4, <2>1, <2>4, SeqEqual
<1> QED BY <1>9, <1>10 DEF owners, before, units

\* The reference gives every unit to the piece that holds it.
LEMMA OwnersAre ==
  ASSUME NEW x, IsRoute(x), Len(x.allocations) # 0
  PROVE  Owners(x) = OwnersUpto(x, Len(x.allocations))
<1> DEFINE n == Len(x.allocations)
           seqs == PieceUnits(x)
           owners == [i \in 1 .. n |-> OwnersUpto(x, i)]
<1>1. n \in Nat \ {0} /\ Len(seqs) = n
  BY DEF IsRoute, PieceUnits
<1>2. Flattens(owners, n, seqs)
  <2>1. ASSUME NEW i \in 1 .. n
        PROVE  owners[i] = IF i = 1 THEN seqs[i] ELSE owners[i - 1] \o seqs[i]
    <3>1. CASE i = 1
      BY <3>1, OwnersGrow
    <3>2. CASE i # 1
      <4>1. i - 1 \in 1 .. n
        BY <1>1, <3>2
      <4>2. OwnersUpto(x, i) = OwnersUpto(x, i - 1) \o seqs[i]
        BY <3>2, OwnersGrow
      <4> QED BY <3>2, <4>1, <4>2
    <3> QED BY <3>1, <3>2
  <2>2. owners = [i \in 1 .. n |-> owners[i]]
    OBVIOUS
  <2> HIDE DEF owners, seqs, n
  <2> QED BY <2>1, <2>2 DEF Flattens
<1>3. FlattenSeq(seqs) = owners[n]
  <2> HIDE DEF n, seqs, owners
  <2> QED BY <1>1, <1>2, FlattenIs
<1>4. Owners(x) = FlattenSeq(seqs)
  BY DEF Owners, PieceUnits
<1>5. owners[n] = OwnersUpto(x, n)
  BY <1>1
<1> QED BY <1>3, <1>4, <1>5

-----------------------------------------------------------------------------
(* Counting units.                                                         *)

\* A commitment of the instance is well formed.
LEMMA CommitmentIsRoute ==
  ASSUME NEW x \in Commitments
  PROVE  /\ IsRoute(x) /\ x.base \in 0 .. MaxAmount
         /\ \A a \in 1 .. Len(x.allocations) : x.allocations[a].id \in Providers
<1>1. x.base \in 0 .. MaxAmount /\ x.target \in 0 .. MaxAmount /\ x.allocations \in Allocations
  BY DEF Commitments
<1>2. PICK n \in 0 .. MaxPieces : x.allocations \in [1 .. n -> [id : Providers, amount : 0 .. MaxAmount]]
  BY <1>1 DEF Allocations
<1>3. n \in Nat /\ Len(x.allocations) = n /\ DOMAIN x.allocations = 1 .. n
  BY <1>2, BoundsAreNat
<1>4. \A a \in 1 .. n : x.allocations[a].id \in Providers /\ x.allocations[a].amount \in Nat
  BY <1>2, BoundsAreNat
<1> QED BY <1>1, <1>3, <1>4, BoundsAreNat DEF IsRoute

\* Which units a provider owns: those its piece holds.
LEMMA UnitsOfProvider ==
  ASSUME NEW x, IsRoute(x), Validate(x), NEW old \in Nat, NEW new \in Nat,
         old <= new, x.base <= old, NEW id
  PROVE  UnitsOwned(x, old, new, id)
           = {u \in old + 1 .. new :
                \E a \in 1 .. Len(x.allocations) : Holds(x, a, u) /\ x.allocations[a].id = id}
<1> DEFINE n == Len(x.allocations)
           end == PieceEnd(x)
           owners == OwnersUpto(x, n)
<1>1. n \in Nat /\ n # 0 /\ x.base \in Int /\ n \in 0 .. n
  BY DEF IsRoute, Validate
<1>2. Owners(x) = owners
  BY <1>1, OwnersAre
<1>3. DOMAIN owners = 1 .. end[n] - x.base /\ end[n] - x.base \in Nat
  BY <1>1, OwnersAreIds DEF OwnersUpto
<1>4. ASSUME NEW u \in old + 1 .. new
      PROVE  (u - x.base \in DOMAIN owners /\ owners[u - x.base] = id)
               <=> \E a \in 1 .. n : Holds(x, a, u) /\ x.allocations[a].id = id
  <2>1. u \in Int /\ x.base < u /\ u - x.base \in Int /\ (u - x.base) + x.base = u
    BY <1>1
  <2>2. ASSUME NEW a \in 1 .. n, Holds(x, a, u)
        PROVE  u - x.base \in DOMAIN owners /\ owners[u - x.base] = x.allocations[a].id
    <3>1. end[a] <= end[n] /\ end[a] \in Int /\ end[n] \in Int
      <4>1. /\ end \in [0 .. n -> Int]
            /\ \A i \in 0 .. n : \A j \in i .. n : end[i] <= end[j]
        BY PieceFacts DEF PiecesFollow
      <4>2. a \in 0 .. n /\ n \in a .. n
        BY <1>1
      <4> HIDE DEF n, end
      <4> QED BY <1>1, <4>1, <4>2
    <3>2. u <= end[a]
      BY <2>2 DEF Holds
    <3>3. u - x.base \in 1 .. end[n] - x.base
      <4> HIDE DEF n, end
      <4> QED BY <1>1, <2>1, <3>1, <3>2
    <3>4. (CHOOSE b \in 1 .. n : Holds(x, b, (u - x.base) + x.base)) = a
      BY <2>1, <2>2, HolderOf
    <3>5. owners[u - x.base] = x.allocations[a].id
      BY <3>3, <3>4 DEF OwnersUpto
    <3> QED BY <1>3, <3>3, <3>5
  <2>3. ASSUME u - x.base \in DOMAIN owners
        PROVE  \E a \in 1 .. n : Holds(x, a, u)
    <3>1. u <= end[n]
      <4>1. u - x.base \in 1 .. end[n] - x.base
        BY <1>3, <2>3
      <4>2. end[n] \in Int
        BY <1>1, PieceFacts DEF PiecesFollow
      <4> HIDE DEF n, end
      <4> QED BY <1>1, <2>1, <4>1, <4>2
    <3> QED BY <2>1, <3>1, UnitHasPiece
  <2> HIDE DEF owners, n, end
  <2> QED BY <2>2, <2>3
<1> QED BY <1>2, <1>4 DEF UnitsOwned

\* A provider owns as many units as it is paid.
LEMMA ProviderOwnsPaid ==
  ASSUME NEW x, IsRoute(x), Validate(x), NEW old \in Nat, NEW new \in Nat,
         old <= new, x.base <= old, NEW id
  PROVE  Cardinality(UnitsOwned(x, old, new, id)) = PaidTo(x, old, new, id)
BY UnitsOfProvider, HeldCounts

\* What nobody owns is as much as the fee.
LEMMA GatewayOwnsFee ==
  ASSUME NEW x \in Commitments, Validate(x), NEW old \in Nat, NEW new \in Nat,
         old <= new, x.base <= old
  PROVE  Cardinality({u \in old + 1 .. new : \A id \in Providers : u \notin UnitsOwned(x, old, new, id)})
           = GatewayFee(x, old, new)
<1>1. IsRoute(x) /\ \A a \in 1 .. Len(x.allocations) : x.allocations[a].id \in Providers
  BY CommitmentIsRoute
<1>2. \A u \in old + 1 .. new : (\A id \in Providers : u \notin UnitsOwned(x, old, new, id))
                                   <=> ~ \E a \in 1 .. Len(x.allocations) : Holds(x, a, u)
  BY <1>1, UnitsOfProvider
<1>3. {u \in old + 1 .. new : \A id \in Providers : u \notin UnitsOwned(x, old, new, id)}
        = {u \in old + 1 .. new : ~ \E a \in 1 .. Len(x.allocations) : Holds(x, a, u)}
  BY <1>2
<1> QED BY <1>1, <1>3, LeftCounts

\* What a provider is paid is a number.
LEMMA UnitsFinite ==
  ASSUME NEW x, NEW old \in Int, NEW new \in Int, NEW id
  PROVE  Cardinality(UnitsOwned(x, old, new, id)) \in Nat
<1>1. IsFiniteSet(old + 1 .. new)
  BY FS_Interval
<1>2. UnitsOwned(x, old, new, id) \subseteq old + 1 .. new
  BY DEF UnitsOwned
<1> QED BY <1>1, <1>2, FS_Subset, FS_CardinalityType


-----------------------------------------------------------------------------
(* The inductive invariant: what was paid is what one settlement from the  *)
(* first watermark to the present one would have paid.                     *)

IInv ==
    /\ k \in Commitments /\ Validate(k)
    /\ start \in k.base .. MaxAmount /\ cumulative \in start .. MaxAmount
    /\ held \in 0 .. MaxAmount
    /\ cumulative # start => cumulative <= k.target
    /\ paid = [id \in Providers |-> PaidTo(k, start, cumulative, id)]
    /\ fee = GatewayFee(k, start, cumulative)

\* What a commitment can move: no more than is locked, and not past its target.
LEMMA PayableFacts ==
  \A target, from, amount \in Nat :
     LET moved == Payable(target, from, amount)
     IN  /\ moved \in Nat /\ moved <= amount
         /\ moved # 0 => from + moved <= target
BY DEF Payable

\* Two settlements in a row pay what one would.
LEMMA PaymentsAdd ==
  ASSUME NEW x, IsRoute(x), Validate(x), NEW old \in Nat, NEW mid \in Nat, NEW new \in Nat,
         x.base <= old, old <= mid, mid <= new
  PROVE  /\ \A id : PaidTo(x, old, mid, id) + PaidTo(x, mid, new, id) = PaidTo(x, old, new, id)
         /\ GatewayFee(x, old, mid) + GatewayFee(x, mid, new) = GatewayFee(x, old, new)
<1> DEFINE n == Len(x.allocations)
           end == PieceEnd(x)
<1>1. \A s, e \in Int : s <= e =>
         Overlap(old, mid, s, e) + Overlap(mid, new, s, e) = Overlap(old, new, s, e)
  BY DEF Overlap
<1>2. /\ end \in [0 .. n -> Int] /\ n \in Nat /\ end[0] = x.base /\ x.base \in Int
      /\ \A i \in 0 .. n : \A j \in i .. n : end[i] <= end[j]
  BY PieceFacts DEF PiecesFollow, IsRoute
<1>3. \A a \in 1 .. n : Pieces(x, old, mid)[a] + Pieces(x, mid, new)[a] = Pieces(x, old, new)[a]
  <2> SUFFICES ASSUME NEW a \in 1 .. n
               PROVE  Pieces(x, old, mid)[a] + Pieces(x, mid, new)[a] = Pieces(x, old, new)[a]
    OBVIOUS
  <2>1. end[a - 1] \in Int /\ end[a] \in Int /\ end[a - 1] <= end[a]
    <3>1. a - 1 \in 0 .. n /\ a \in 0 .. n /\ a \in (a - 1) .. n
      BY <1>2
    <3> HIDE DEF n, end
    <3> QED BY <1>2, <3>1
  <2>2. Overlap(old, mid, end[a - 1], end[a]) + Overlap(mid, new, end[a - 1], end[a])
          = Overlap(old, new, end[a - 1], end[a])
    <3> HIDE DEF n, end
    <3> QED BY <1>1, <2>1
  <2> QED BY <2>2 DEF Pieces
<1>4. ASSUME NEW id
      PROVE  PaidTo(x, old, mid, id) + PaidTo(x, mid, new, id) = PaidTo(x, old, new, id)
  <2> DEFINE named == {a \in 1 .. n : x.allocations[a].id = id}
             a == CHOOSE b \in named : TRUE
  <2>1. CASE named = {}
    BY <2>1 DEF PaidTo
  <2>2. CASE named # {}
    <3>1. a \in 1 .. n
      BY <2>2
    <3>2. \A from, to : PaidTo(x, from, to, id) = Pieces(x, from, to)[a]
      BY <2>2 DEF PaidTo
    <3> HIDE DEF a, named, n
    <3> QED BY <1>3, <3>1, <3>2
  <2> QED BY <2>1, <2>2
<1>5. end[n] \in Int /\ x.base <= end[n]
  <2>1. 0 \in 0 .. n /\ n \in 0 .. n
    BY <1>2
  <2> HIDE DEF n, end
  <2> QED BY <1>2, <2>1
<1>6. /\ GatewayFee(x, old, mid) = mid - old - Overlap(old, mid, x.base, end[n])
      /\ GatewayFee(x, mid, new) = new - mid - Overlap(mid, new, x.base, end[n])
      /\ GatewayFee(x, old, new) = new - old - Overlap(old, new, x.base, end[n])
  BY ProvidersTogether DEF GatewayFee
<1>7. /\ Overlap(old, mid, x.base, end[n]) \in Nat /\ Overlap(mid, new, x.base, end[n]) \in Nat
      /\ Overlap(old, mid, x.base, end[n]) + Overlap(mid, new, x.base, end[n])
           = Overlap(old, new, x.base, end[n])
  <2> HIDE DEF n, end
  <2>1. x.base \in Int /\ end[n] \in Int /\ x.base <= end[n]
    BY <1>2, <1>5
  <2> QED BY <2>1 DEF Overlap
<1>8. GatewayFee(x, old, mid) + GatewayFee(x, mid, new) = GatewayFee(x, old, new)
  <2> HIDE DEF n, end
  <2> QED BY <1>6, <1>7
<1> QED BY <1>4, <1>8

\* Settling nothing pays nothing.
LEMMA NothingPaid ==
  ASSUME NEW x, IsRoute(x), Validate(x), NEW old \in Nat, x.base <= old
  PROVE  (\A id : PaidTo(x, old, old, id) = 0) /\ GatewayFee(x, old, old) = 0
<1>1. \A id : PaidTo(x, old, old, id) + PaidTo(x, old, old, id) = PaidTo(x, old, old, id)
  BY PaymentsAdd
<1>2. \A id : PaidTo(x, old, old, id) \in Nat
  BY ProviderOwnsPaid, UnitsFinite
<1>3. GatewayFee(x, old, old) \in Nat /\ GatewayFee(x, old, old) <= old - old
  BY ValidatedIsAccepted
<1> QED BY <1>1, <1>2, <1>3

-----------------------------------------------------------------------------

LEMMA InitPays == Init => IInv
<1> SUFFICES ASSUME Init PROVE IInv
  OBVIOUS
<1>1. k \in Commitments /\ Validate(k) /\ start \in k.base .. MaxAmount
  BY DEF Init
<1>2. IsRoute(k) /\ k.base \in Nat /\ start \in Nat /\ k.base <= start
  BY <1>1, CommitmentIsRoute, BoundsAreNat DEF IsRoute
<1>3. (\A id : PaidTo(k, start, start, id) = 0) /\ GatewayFee(k, start, start) = 0
  BY <1>1, <1>2, NothingPaid
<1> QED BY <1>1, <1>2, <1>3, BoundsAreNat DEF Init, IInv

LEMMA NextPays == IInv /\ [Next]_vars => IInv'
<1> SUFFICES ASSUME IInv, [Next]_vars PROVE IInv'
  OBVIOUS
<1>1. /\ k \in Commitments /\ Validate(k) /\ IsRoute(k) /\ k.base \in Nat /\ k.target \in Nat
      /\ start \in Nat /\ cumulative \in Nat /\ held \in Nat
      /\ k.base <= start /\ start <= cumulative /\ cumulative <= MaxAmount /\ held <= MaxAmount
  BY CommitmentIsRoute, BoundsAreNat DEF IInv, IsRoute
<1>2. CASE SettleRecord
  <2>1. /\ Reached \in Nat /\ cumulative <= Reached /\ Reached - cumulative <= held
        /\ Reached # cumulative => Reached <= k.target
    <3>1. /\ Payable(k.target, cumulative, held) \in Nat
          /\ Payable(k.target, cumulative, held) <= held
          /\ Payable(k.target, cumulative, held) # 0
                => cumulative + Payable(k.target, cumulative, held) <= k.target
      BY <1>1, PayableFacts
    <3> QED BY <1>1, <3>1 DEF Reached
  <2>2. k.target <= MaxAmount
    BY <1>1 DEF Commitments
  <2>3. /\ k' = k /\ start' = start /\ cumulative' = Reached /\ held' = held - (Reached - cumulative)
        /\ paid' = [id \in Providers |-> paid[id] + PaidTo(k, cumulative, Reached, id)]
        /\ fee' = fee + GatewayFee(k, cumulative, Reached)
    BY <1>2 DEF SettleRecord
  <2>4. /\ \A id : PaidTo(k, start, cumulative, id) + PaidTo(k, cumulative, Reached, id)
                     = PaidTo(k, start, Reached, id)
        /\ GatewayFee(k, start, cumulative) + GatewayFee(k, cumulative, Reached)
             = GatewayFee(k, start, Reached)
    BY <1>1, <2>1, PaymentsAdd
  <2>5. fee' = GatewayFee(k, start, Reached)
    BY <2>3, <2>4 DEF IInv
  <2>6. paid' = [id \in Providers |-> PaidTo(k, start, Reached, id)]
    <3>1. \A id \in Providers : paid[id] = PaidTo(k, start, cumulative, id)
      BY DEF IInv
    <3> QED BY <2>3, <2>4, <3>1
  <2>7. /\ cumulative' \in start' .. MaxAmount /\ held' \in 0 .. MaxAmount
        /\ cumulative' # start' => cumulative' <= k'.target
    BY <1>1, <2>1, <2>2, <2>3, BoundsAreNat DEF IInv
  <2> QED BY <2>3, <2>5, <2>6, <2>7 DEF IInv
<1>3. ASSUME NEW amount \in 1 .. MaxAmount, TopUp(amount)
      PROVE  IInv'
  BY <1>1, <1>3, BoundsAreNat DEF TopUp, IInv
<1>4. CASE UNCHANGED vars
  BY <1>4 DEF vars, IInv
<1> QED BY <1>2, <1>3, <1>4 DEF Next

\* The invariant holds in every reachable state.
LEMMA StreamInvariant == Spec => []IInv
BY InitPays, NextPays, PTL DEF Spec

-----------------------------------------------------------------------------
(* What follows from it.                                                   *)

LEMMA InvFacts ==
  ASSUME IInv
  PROVE  /\ k \in Commitments /\ Validate(k) /\ IsRoute(k) /\ k.base \in Nat /\ k.target \in Nat
         /\ start \in Nat /\ cumulative \in Nat /\ held \in Nat
         /\ k.base <= start /\ start <= cumulative /\ k.base <= cumulative
         /\ \A id : PaidTo(k, start, cumulative, id) \in Nat
         /\ GatewayFee(k, start, cumulative) \in Nat
<1>1. /\ k \in Commitments /\ Validate(k) /\ IsRoute(k) /\ k.base \in Nat /\ k.target \in Nat
      /\ start \in Nat /\ cumulative \in Nat /\ held \in Nat
      /\ k.base <= start /\ start <= cumulative /\ k.base <= cumulative
  BY CommitmentIsRoute, BoundsAreNat DEF IInv, IsRoute
<1>2. \A id : PaidTo(k, start, cumulative, id) \in Nat
  BY <1>1, ProviderOwnsPaid, UnitsFinite
<1>3. GatewayFee(k, start, cumulative) \in Nat
  BY <1>1, ValidatedIsAccepted
<1> QED BY <1>1, <1>2, <1>3

\* No subtraction of a settlement underflows (the saturating and checked subtractions of
\* settle_route_group), for every commitment, amount and collateral.
THEOREM StreamTypes == Spec => []TypeOK
<1>1. ASSUME IInv PROVE TypeOK
  BY <1>1, InvFacts, BoundsAreNat DEF IInv, TypeOK
<1> QED BY <1>1, StreamInvariant, PTL

\* However a range is cut by partial settlements, every provider has its own units and
\* the gateway those that nobody was allocated, counted one by one.
THEOREM EveryUnitToItsOwner == Spec => []PaysOwnUnits
<1>1. ASSUME IInv PROVE PaysOwnUnits
  <2>1. \A id \in Providers : paid[id] = Cardinality(UnitsOwned(k, start, cumulative, id))
    BY <1>1, InvFacts, ProviderOwnsPaid DEF IInv
  <2>2. fee = Cardinality({u \in start + 1 .. cumulative :
                  \A id \in Providers : u \notin UnitsOwned(k, start, cumulative, id)})
    BY <1>1, InvFacts, GatewayOwnsFee DEF IInv
  <2> QED BY <2>1, <2>2 DEF PaysOwnUnits
<1> QED BY <1>1, StreamInvariant, PTL

\* A validated commitment whose base is reached is accepted by settle_route_group with
\* whatever collateral there is.
THEOREM ValidatedNeverRefused == Spec => []NeverRefused
<1>1. ASSUME IInv PROVE NeverRefused
  <2>1. Reached \in Nat /\ cumulative <= Reached
    <3>1. Payable(k.target, cumulative, held) \in Nat
      BY <1>1, InvFacts, PayableFacts
    <3> QED BY <1>1, <3>1, InvFacts DEF Reached
  <2> QED BY <1>1, <2>1, InvFacts, ValidatedIsAccepted DEF NeverRefused
<1> QED BY <1>1, StreamInvariant, PTL

\* No settlement of a commitment brings the watermark past its target.
THEOREM StreamStopsAtTarget == Spec => []NeverPastTarget
<1>1. ASSUME IInv PROVE NeverPastTarget
  <2> SUFFICES ASSUME cumulative > k.target
               PROVE  cumulative = start /\ fee = 0
    BY DEF NeverPastTarget
  <2>1. cumulative = start
    BY <1>1, InvFacts DEF IInv
  <2>2. GatewayFee(k, start, start) = 0
    BY <1>1, InvFacts, NothingPaid
  <2> QED BY <1>1, <2>1, <2>2 DEF IInv
<1> QED BY <1>1, StreamInvariant, PTL
=============================================================================
