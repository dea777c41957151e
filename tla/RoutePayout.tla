------------------------------ MODULE RoutePayout ------------------------------
(***************************************************************************)
(* How a settled amount is split.  A routed commitment signs an absolute   *)
(* cumulative range base..target of its channel and cuts it, from base up, *)
(* into one piece per provider; what no provider is given is the gateway's *)
(* fee.  Settling old..new pays every provider the overlap with its piece. *)
(***************************************************************************)
EXTENDS Integers, Sequences

MaxRouteAllocations == 16

\* Mutants of Payable: no target, no collateral, no watermark.
AllLocked(target, settledAmount, lockedAmount) == lockedAmount
WholeDebt(target, settledAmount, lockedAmount) ==
    IF target > settledAmount THEN target - settledAmount ELSE 0
NoWatermark(target, settledAmount, lockedAmount) ==
    IF target <= lockedAmount THEN target ELSE lockedAmount

\* clearing/mod.rs payable(): what a commitment can still move, never an error.
Payable(target, settledAmount, lockedAmount) ==
    LET owed == IF target > settledAmount THEN target - settledAmount ELSE 0
    IN  IF owed <= lockedAmount THEN owed ELSE lockedAmount

\* The totals of the first 0, 1, 2, ... amounts, from a given start.
RunningTotal(from, amounts) ==
    LET total[i \in 0 .. Len(amounts)] == IF i = 0 THEN from ELSE total[i - 1] + amounts[i]
    IN  total

Amounts(k) == [a \in 1 .. Len(k.allocations) |-> k.allocations[a].amount]

PieceEndFromZero(k) == RunningTotal(0, Amounts(k))  \* mutant of PieceEnd
\* End of each piece; piece 0 is empty and ends at the base.
PieceEnd(k) == RunningTotal(k.base, Amounts(k))

WholeTarget(k) == k.target                          \* mutant of Increase
Increase(k) == k.target - k.base

\* RouteCommitment::validate: canonical and no more than the range it signs.
Validate(k) ==
    LET n == Len(k.allocations)
    IN  /\ n \in 1 .. MaxRouteAllocations
        /\ k.base < k.target
        /\ \A a \in 1 .. n : k.allocations[a].id # 0 /\ k.allocations[a].amount > 0
        /\ \A a, b \in 1 .. n : a < b => k.allocations[a].id # k.allocations[b].id
        /\ PieceEnd(k)[n] - k.base <= Increase(k)

\* Mutants of Overlap: what was paid before is paid again; no saturation.
OverlapFromStart(old, new, start, end) ==
    LET to == IF new <= end THEN new ELSE end
    IN  IF to > start THEN to - start ELSE 0
RawOverlap(old, new, start, end) ==
    (IF new <= end THEN new ELSE end) - (IF old >= start THEN old ELSE start)

\* Length of the overlap of (old, new] and (start, end].
Overlap(old, new, start, end) ==
    LET from == IF old >= start THEN old ELSE start
        to   == IF new <= end THEN new ELSE end
    IN  IF to > from THEN to - from ELSE 0

\* Payment of each allocation when the channel goes from old to new.
Pieces(k, old, new) ==
    [a \in 1 .. Len(k.allocations) |->
        Overlap(old, new, PieceEnd(k)[a - 1], PieceEnd(k)[a])]

\* All that the allocations of k are paid together.
ProviderPaid(k, old, new) == RunningTotal(0, Pieces(k, old, new))[Len(k.allocations)]

\* What a participant id is paid.
PaidTo(k, old, new, id) ==
    LET named == {a \in 1 .. Len(k.allocations) : k.allocations[a].id = id}
    IN  IF named = {} THEN 0 ELSE Pieces(k, old, new)[CHOOSE a \in named : TRUE]

WholeMove(k, old, new) == new - old                 \* mutant of GatewayFee
\* checked_sub: the fee is what is left of moved, and may not be negative.
GatewayFee(k, old, new) == new - old - ProviderPaid(k, old, new)

\* The errors of settle_route_group that depend on the amounts alone.
PayoutAccepted(k, old, new) ==
    /\ old >= k.base
    /\ \A a \in 1 .. Len(k.allocations) : PieceEnd(k)[a] <= k.target
    /\ GatewayFee(k, old, new) >= 0
=============================================================================
