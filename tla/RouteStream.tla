------------------------------ MODULE RouteStream ------------------------------
(***************************************************************************)
(* One routed commitment settled again and again while its channel is      *)
(* short of collateral: each settlement moves what is locked, a later one  *)
(* resumes from the watermark, in the same batch or in another.  The first *)
(* settlement may find part of the range already paid by an earlier        *)
(* commitment.                                                             *)
(***************************************************************************)
EXTENDS RoutePayout, FiniteSets, SequencesExt

CONSTANTS MaxAmount,  \* bound on cumulative amounts
          Providers,  \* participant ids, 0 (the padding id) among them
          MaxPieces   \* bound on the number of allocations

ASSUME BoundsAreNat == MaxAmount \in Nat /\ MaxPieces \in Nat

VARIABLES
    k,          \* the commitment
    start,      \* watermark when this commitment is first settled
    cumulative, \* settled_cumulative of the channel
    held,       \* locked_balance of the channel
    paid,       \* what this commitment paid each provider
    fee         \* and its gateway

vars == <<k, start, cumulative, held, paid, fee>>

Allocations == UNION {[1 .. n -> [id : Providers, amount : 0 .. MaxAmount]] : n \in 0 .. MaxPieces}
Commitments == [base : 0 .. MaxAmount, target : 0 .. MaxAmount, allocations : Allocations]

Init ==
    /\ k \in {x \in Commitments : Validate(x)}
    /\ start \in k.base .. MaxAmount
    /\ cumulative = start
    /\ held = 0
    /\ paid = [id \in Providers |-> 0]
    /\ fee = 0

\* The payer locks more, bounded by MaxAmount.
TopUp(amount) ==
    /\ held + amount <= MaxAmount
    /\ held' = held + amount
    /\ UNCHANGED <<k, start, cumulative, paid, fee>>

\* Where the next settlement brings the watermark.
Reached == cumulative + Payable(k.target, cumulative, held)

\* One record of settle_route_group.
SettleRecord ==
    /\ PayoutAccepted(k, cumulative, Reached)
    /\ cumulative' = Reached
    /\ held' = held - (Reached - cumulative)
    /\ paid' = [id \in Providers |-> paid[id] + PaidTo(k, cumulative, Reached, id)]
    /\ fee' = fee + GatewayFee(k, cumulative, Reached)
    /\ UNCHANGED <<k, start>>

Next == SettleRecord \/ \E amount \in 1 .. MaxAmount : TopUp(amount)

Spec == Init /\ [][Next]_vars

-----------------------------------------------------------------------------
\* The reference: who owns the units base+1, base+2, ... of the range, written out
\* one by one; past the last piece (and past the list) they are the gateway's.
Owners(x) ==
    FlattenSeq([a \in 1 .. Len(x.allocations) |->
                  [u \in 1 .. x.allocations[a].amount |-> x.allocations[a].id]])
UnitsOwned(x, from, to, id) ==
    {u \in from + 1 .. to : u - x.base \in DOMAIN Owners(x) /\ Owners(x)[u - x.base] = id}

\* Watermark and collateral stay in range, and no provider or fee total goes below
\* zero: the saturating and checked subtractions of settle_route_group.
TypeOK ==
    /\ k \in Commitments
    /\ start \in 0 .. MaxAmount /\ cumulative \in 0 .. MaxAmount /\ held \in 0 .. MaxAmount
    /\ paid \in [Providers -> Nat] /\ fee \in Nat

\* However the range is cut by partial settlements, a provider has been paid
\* exactly its own units between the first watermark and the present one, and
\* the gateway exactly the units nobody was allocated: nothing twice, nothing lost.
PaysOwnUnits ==
    LET own(id) == Cardinality(UnitsOwned(k, start, cumulative, id))
    IN  /\ \A id \in Providers : paid[id] = own(id)
        /\ fee = Cardinality({u \in start + 1 .. cumulative :
                                \A id \in Providers : u \notin UnitsOwned(k, start, cumulative, id)})

\* A validated commitment whose base is reached is never refused at settlement: the
\* pieces stay inside the range and the fee does not underflow (clearing/mod.rs:1478-1496).
NeverRefused == PayoutAccepted(k, cumulative, Reached)

\* A watermark past the target was there before and nothing was paid of it: a commitment
\* already overtaken moves nothing, and none moves the watermark past its target.
NeverPastTarget == cumulative > k.target => cumulative = start /\ fee = 0
=============================================================================
