--------------------------- MODULE CollateralWindow ---------------------------
(***************************************************************************)
(* What the timelock of a channel is worth to its payee.  Custody runs     *)
(* unchanged; beside it a payee may look at a channel and note how much it *)
(* will at least have been paid or still hold locked, up to a moment of    *)
(* its choice at most one timelock away.  The payee then serves against    *)
(* that amount (README of the repository, the gateway's service decision). *)
(***************************************************************************)
EXTENDS Custody

VARIABLES
    floor,    \* cumulative amount the payee counts on, per channel
    until,    \* first moment the payee no longer counts on it
    lastLock  \* when collateral was last added, per channel

windowVars == <<floor, until, lastLock>>
allVars == <<custodyVars, windowVars>>

WInit ==
    /\ Init
    /\ floor = [c \in Channels |-> 0]
    /\ until = [c \in Channels |-> 0]
    /\ lastLock = [c \in Channels |-> 0]

\* The unlock that may execute before time t takes this much of the collateral.
Escaping(c, t) ==
    IF pendingAmount[c] > 0 /\ pendingAt[c] < t THEN Smaller(pendingAmount[c], locked[c]) ELSE 0

\* Collateral of c that no unlock can remove before time t, plus what was paid.
Reserved(c, t) == settled[c] + locked[c] - Escaping(c, t)

\* The payee reads the channel account (an external observer: no instruction).
Inspect(c, t) ==
    /\ Occupied(c)
    /\ t \in now .. now + Timelock
    /\ floor' = [floor EXCEPT ![c] = Reserved(c, t)]
    /\ until' = [until EXCEPT ![c] = t]
    /\ UNCHANGED <<custodyVars, lastLock>>

\* A payee that signs a cooperative unlock gives up what it releases.
WCooperativeUnlock(c, amount) ==
    LET released == Smaller(amount, locked[c])
    IN  /\ CooperativeUnlock(c, amount)
        /\ floor' = [floor EXCEPT ![c] = IF @ >= released THEN @ - released ELSE 0]
        /\ UNCHANGED <<until, lastLock>>

WLockChannelFunds(c, amount) ==
    /\ LockChannelFunds(c, amount)
    /\ lastLock' = [lastLock EXCEPT ![c] = now]
    /\ UNCHANGED <<floor, until>>

OtherPayerStep(c) ==
    \/ \E p \in Participants : CreateChannel(c, p)
    \/ \E amount \in U64 : RequestUnlock(c, amount)
    \/ CancelUnlock(c)
    \/ ExecuteUnlock(c)

WNext ==
    \/ \E c \in Channels, t \in 0 .. MaxTime + Timelock : Inspect(c, t)
    \/ \E c \in Channels, amount \in U64 : \/ WCooperativeUnlock(c, amount)
                                           \/ WLockChannelFunds(c, amount)
    \/ /\ \/ Tick \/ TokenStep \/ BalanceStep \/ SettleChannels
          \/ \E c \in Channels : OtherPayerStep(c)
       /\ UNCHANGED windowVars

WSpec == WInit /\ [][WNext]_allVars

-----------------------------------------------------------------------------

\* The payee's notes are amounts and times.
WTypeOK ==
    /\ floor \in [Channels -> Nat]
    /\ until \in [Channels -> Nat]
    /\ lastLock \in [Channels -> Nat]

\* The payee's guarantee: inside the window, what it was paid and what is still
\* locked never fall below what it counted on, whatever the payer requests,
\* executes, cancels or re-requests and whoever settles in between.
CollateralHolds ==
    \A c \in Channels : now < until[c] => settled[c] + locked[c] >= floor[c]

\* Collateral stays at least one timelock: no request reaches funds that were
\* locked after it (lock_channel_funds cancels a request, even a matured one).
FreshCollateralStays ==
    \A c \in Channels : pendingAmount[c] > 0 => pendingAt[c] >= lastLock[c] + Timelock

\* CollateralHolds made inductive: also after the unlock that can still execute
\* inside the window; and no request made from now on can.
FloorReserved ==
    \A c \in Channels : /\ until[c] <= now + Timelock
                        /\ now < until[c] => Reserved(c, until[c]) >= floor[c]
=============================================================================
