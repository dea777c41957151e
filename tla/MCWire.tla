--------------------------------- MODULE MCWire ---------------------------------
(* Small instance of Wire for TLC.                                             *)
EXTENDS Wire

OurDomain == <<1, 2, 0, 1>>
OneTag == <<1>>
Gateways == <<2, 1, 2>>
Keys == [c \in {1, 5} |-> IF c = 1 THEN <<1, 0, 2>> ELSE <<0, 2, 1>>]
Addresses == [c \in {1, 5} |-> <<c % 3, 2, 2, 1>>]

To(id, amount) == [id |-> id, amount |-> amount]
Upto(channel, target) == [kind |-> Unilateral, channel |-> channel, target |-> target]
Route(channel, base, target, allocations) ==
    [kind |-> RouteKind, channel |-> channel, base |-> base, target |-> target,
     allocations |-> allocations]

One == Upto(1, 7)
Five == Upto(5, 3)
ShortRoute == Route(1, 0, 4, <<To(3, 2)>>)
LongRoute == Route(5, 1, 8, <<To(3, 2), To(7, 1)>>)

Sig(b) == <<b, 0, 1, 2, b>>
Signature(key, com, b) == [key |-> key, com |-> com, sig |-> Sig(b)]
Made == {Signature(Keys[1], One, 1), Signature(Keys[5], Five, 2),
         Signature(Keys[1], ShortRoute, 0), Signature(Gateways, ShortRoute, 1),
         Signature(Keys[5], LongRoute, 2), Signature(Gateways, LongRoute, 0)}

\* The signed commitments, and some with signatures that belong to another.
Record(com, sigs) == [com |-> com, sigs |-> sigs]
SignedAndForged ==
    {Record(One, <<Sig(1)>>), Record(Five, <<Sig(2)>>), Record(Five, <<Sig(1)>>),
     Record(ShortRoute, <<Sig(0), Sig(1)>>), Record(LongRoute, <<Sig(2), Sig(0)>>),
     Record(LongRoute, <<Sig(0), Sig(2)>>), Record(ShortRoute, <<Sig(0), Sig(0)>>)}

\* Messages, the largest words among them; and the data of instructions.
SomeMessages == {Upto(1, 2), Upto(8, 8), ShortRoute, LongRoute}

SignedShort == Record(ShortRoute, <<Sig(0), Sig(1)>>)
SignedLong == Record(LongRoute, <<Sig(2), Sig(0)>>)
SomeDeliveries ==
    {<<Record(One, <<Sig(1)>>)>>, <<Record(One, <<Sig(1)>>), Record(Five, <<Sig(2)>>)>>,
     <<SignedShort>>, <<SignedLong, SignedShort>>, <<SignedShort, SignedLong>>}
=============================================================================
