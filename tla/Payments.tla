------------------------------- MODULE Payments -------------------------------
(***************************************************************************)
(* What clearing promises to whoever holds signed commitments.  Each unit  *)
(* of a channel has one owner; the head of the channel moves forward, pays *)
(* every unit it passes to its owner, once, and comes to the last one due. *)
(* How it is moved (buffers, computations, verdicts, crashes) is not       *)
(* visible here.                                                           *)
(***************************************************************************)
EXTENDS Naturals, FiniteSets

CONSTANTS
    Lanes,        \* the channels
    Owners,       \* who may own a unit
    Due(_),       \* the units of a channel, counted from 1
    Owner(_, _)   \* the owner of a unit of a channel

VARIABLES
    paid,         \* units paid of each channel
    received      \* units each owner received from each channel

OwnedUpto(c, n, p) == Cardinality({u \in 1 .. n : Owner(c, u) = p})

Init ==
    /\ paid = [c \in Lanes |-> 0]
    /\ received = [c \in Lanes |-> [p \in Owners |-> 0]]

Ahead(c) == paid[c] .. Due(c)

\* Some heads move forward, by any distance, never past the end.
Forward ==
    /\ paid' \in [Lanes -> UNION {Ahead(c) : c \in Lanes}]
    /\ paid' # paid
    /\ \A c \in Lanes : paid'[c] \in Ahead(c)

\* Every unit passed goes to its owner.
Pay ==
    /\ Forward
    /\ received' = [c \in Lanes |-> [p \in Owners |-> OwnedUpto(c, paid'[c], p)]]

AllPaid == \A c \in Lanes : paid[c] = Due(c)

Spec == Init /\ [][Pay]_<<paid, received>> /\ <>AllPaid
=============================================================================
