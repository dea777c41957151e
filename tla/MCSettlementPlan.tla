--------------------------- MODULE MCSettlementPlan ---------------------------
(* Small instances of SettlementPlan for TLC.                                  *)
EXTENDS SettlementPlan

CONSTANTS agent, gateway, provider, other, usd, eur, b1, b2, b3, b4

\* Two routed buckets of one gateway and mint; two direct buckets of two mints.
TwoOfEach ==
    [b \in Buckets |-> [payee |-> gateway, mint |-> IF b = b4 THEN eur ELSE usd,
                        kind |-> IF b \in {b1, b2} THEN Routed ELSE Direct]]
AgentPays == [c \in Channels |-> agent]
AgentHasTwo == [m \in Mints |-> [p \in Participants |-> IF p = agent THEN 2 ELSE 0]]
TwoInSome == [c \in Channels |-> IF c[2] = 0 /\ c[1] # b2 THEN 2 ELSE 0]

Route(channel, base, target, allocations) ==
    [channel |-> channel, base |-> base, target |-> target, allocations |-> allocations]
To(p, amount) == [id |-> p, amount |-> amount]

\* Two channels in two buckets, two records in one of the channels; the providers are
\* shared.  The fee of each goes to the one gateway.
SharedProviders ==
    <<Route(<<b1, 0>>, 0, 3, <<To(provider, 1), To(other, 1)>>),
      Route(<<b2, 0>>, 0, 2, <<To(provider, 1)>>),
      Route(<<b1, 0>>, 0, 2, <<To(other, 1)>>)>>

Upto(channel, target) == [channel |-> channel, base |-> 0, target |-> target, allocations |-> <<>>]
DirectBatch == <<Upto(<<b3, 0>>, 2), Upto(<<b4, 0>>, 3), Upto(<<b3, 1>>, 3)>>

\* The agent provides as well: the first two records together name six accounts, one more
\* than an instruction takes here.
TooManyAccounts ==
    <<Route(<<b1, 0>>, 0, 3, <<To(provider, 1), To(other, 1)>>),
      Route(<<b2, 0>>, 0, 3, <<To(agent, 1)>>),
      Route(<<b1, 0>>, 0, 2, <<To(other, 1)>>)>>

ThreeBatches == {SharedProviders, DirectBatch, TooManyAccounts}
AllRecords == UNION {{batch[n] : n \in DOMAIN batch} : batch \in ThreeBatches}
=============================================================================
