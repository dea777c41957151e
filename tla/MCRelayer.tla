------------------------------- MODULE MCRelayer -------------------------------
(* Small instances of Relayer for TLC.                                         *)
EXTENDS Relayer

CONSTANTS agent, gateway, provider, other, usd, b1

RoutedLayout == [b \in {b1} |-> [payee |-> gateway, mint |-> usd, kind |-> Routed]]
AgentPays == [c \in {b1} \X Slots |-> agent]
NothingFree == [m \in {usd} |-> [p \in Participants |-> 0]]
ThreeEach == [c \in {b1} \X Slots |-> 3]

Route(slot, base, target, p) ==
    [channel |-> <<b1, slot>>, base |-> base, target |-> target,
     allocations |-> <<[id |-> p, amount |-> 1]>>]

\* Three channels in the first batch, staged in up to three transactions; the bases of
\* the second, two records and padding, are reached only by settling the first.
TwoBatches == <<Route(0, 0, 2, provider), Route(1, 0, 1, provider), Route(2, 0, 1, other),
                Route(0, 2, 3, other), Route(1, 1, 2, other)>>
TwoBatchesSet == {TwoBatches[n] : n \in DOMAIN TwoBatches}
=============================================================================
