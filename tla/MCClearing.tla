------------------------------- MODULE MCClearing -------------------------------
(* Small instances of Clearing for TLC.                                        *)
EXTENDS Clearing, TLC

CONSTANTS agent, gateway, provider, other, nobody, usd, b1

\* Buffers are interchangeable, and so are offsets.
Interchangeable == Permutations(Stagings) \cup Permutations(Offsets)

Channel == <<b1, 0>>

DirectLayout == [b \in {b1} |-> [payee |-> gateway, mint |-> usd, kind |-> Direct]]
RoutedLayout == [b \in {b1} |-> [payee |-> gateway, mint |-> usd, kind |-> Routed]]
AgentPays == [c \in {b1} \X Slots |-> agent]
Unlocked == [c \in {b1} \X Slots |-> 0]
AgentFunded == [m \in {usd} |-> [p \in Participants |-> IF p = agent THEN Supply ELSE 0]]

Upto(target) == [channel |-> Channel, base |-> 0, target |-> target, allocations |-> <<>>]
Route(base, target, allocations) ==
    [channel |-> Channel, base |-> base, target |-> target, allocations |-> allocations]
To(p, amount) == [id |-> p, amount |-> amount]

\* One commitment of a direct channel, paid in parts.
OneCommitment == {Upto(2)}

\* Two routes that give unit 2 to the gateway and to the provider; the second starts at
\* a base that only a partial payment of the first reaches.
ConflictingRoutes == {Route(0, 2, <<To(provider, 1)>>), Route(1, 2, <<To(provider, 1)>>)}

\* A route that pays an id nobody has.
RouteToNobody == {Route(0, 1, <<To(nobody, 1)>>)}
=============================================================================
