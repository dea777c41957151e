-------------------------------- MODULE Relayer --------------------------------
(***************************************************************************)
(* A gateway's relayer working through its signed commitments              *)
(* (scripts/devnet-gateway.ts, tests-arcium/clearing-client.ts) and the    *)
(* script that cleans up after one that crashed (settle-leftovers.ts).     *)
(* Both are processes whose memory dies with them; the accounts are those  *)
(* of Clearing.  What a process sends is a transaction: it lands whole,    *)
(* or is refused, or expires, and may still land after its sender died.    *)
(*                                                                         *)
(* That an operator starts the one after the other, and starts the gateway *)
(* again for the commitments still unpaid, is external to the repository.  *)
(***************************************************************************)
EXTENDS Clearing, Functions

CONSTANTS
    Records,     \* the commitments to settle, in order, all signed
    BatchKind,   \* kind of the batches
    MaxFaults    \* bound on what disturbs a run: crashes, expiries, failed computations,
                 \* settlements by strangers

VARIABLES
    operator,  \* who runs: "idle", "gateway", "crashed", "leftovers", "done"
    memory,    \* memory of the running process
    sent,      \* transactions neither landed, refused nor expired
    used,      \* buffers opened so far: openStaging draws a new address
    drawn,     \* computation offsets drawn so far
    faults

relayerVars == <<operator, memory, sent, used, drawn, faults>>
rvars == <<vars, relayerVars>>
processVars == <<operator, memory, used, drawn, faults>>

Nothing == [step |-> "nothing"]
NoOffset == 0
NoBuffer == 0

RInit ==
    /\ Funded
    /\ signatures = [k \in Commitments |-> Required(HeaderOf(k.channel).kind)]
    /\ operator = "idle" /\ memory = Nothing /\ sent = {}
    /\ used = {} /\ drawn = 0 /\ faults = 0

-----------------------------------------------------------------------------
(* Transactions.                                                           *)

OpenTx(s) == [type |-> "open", s |-> s, awaited |-> TRUE]

\* [claim,] [reset,] records [, seal]: what planStaging packs together.
StagingTx(s, reset, at, records) ==
    [type |-> "staging", s |-> s, reset |-> reset, at |-> at, records |-> records,
     count |-> 0, offset |-> NoOffset, claim |-> NoOffset, awaited |-> TRUE]
SettleTx(s, order) == [type |-> "settle", s |-> s, order |-> order, awaited |-> TRUE]
CloseTx(s, claim) == [type |-> "close", s |-> s, claim |-> claim, awaited |-> TRUE]

\* Nothing the process sent is under way.
Confirmed == \A t \in sent : ~t.awaited

\* The buffer after the first n records of a staging transaction.
Buffers(t) ==
    LET after[n \in 0 .. Len(t.records)] ==
          IF n = 0 THEN IF t.reset THEN EmptyBuffer(BatchKind) ELSE staging[t.s]
          ELSE WithRecord(after[n - 1], t.at + n - 1, t.records[n], signatures[t.records[n]])
    IN  after

Claimable(o) == o # NoOffset => Account(comp[o]) /\ comp[o].ran

StagingAccepted(t) ==
    /\ Account(staging[t.s])
    /\ Claimable(t.claim)
    /\ \A n \in DOMAIN t.records : Accepts(Buffers(t)[n - 1], t.records[n])
    /\ t.count > 0 => /\ Sealable(Buffers(t)[Len(t.records)], BatchKind, t.count)
                      /\ ~Account(comp[t.offset])
                      /\ instance < MaxInstances

Accepted(t) ==
    \/ t.type = "open" /\ ~Account(staging[t.s])
    \/ t.type = "staging" /\ StagingAccepted(t)
    \/ t.type = "settle" /\ SettlementAccepted(t.s, t.order)
    \/ t.type = "close" /\ Account(staging[t.s]) /\ Claimable(t.claim)

Claimed(o) == IF o = NoOffset THEN comp ELSE [comp EXCEPT ![o] = Closed]

LandStaging(t) ==
    LET buffer == Buffers(t)[Len(t.records)]
        sealed == t.count > 0
        queued == instance + 1
    IN  /\ staging' = [staging EXCEPT ![t.s] = IF sealed THEN SealedBuffer(buffer, t.count)
                                                         ELSE buffer]
        /\ result' = [result EXCEPT
             ![t.s] = IF sealed THEN QueuedResult(BatchKind, t.count, t.offset, queued)
                      ELSE IF t.reset THEN ClearedResult(BatchKind, 0) ELSE @]
        /\ instance' = IF sealed THEN queued ELSE instance
        /\ comp' = IF sealed
                    THEN [Claimed(t.claim) EXCEPT
                            ![t.offset] = QueuedComputation(t.s, BatchKind, queued)]
                    ELSE Claimed(t.claim)
        /\ UNCHANGED <<custodyVars, signatures, outputs, paidFrom>>

LandClose(t) ==
    /\ staging' = [staging EXCEPT ![t.s] = Closed]
    /\ result' = [result EXCEPT ![t.s] = Closed]
    /\ comp' = Claimed(t.claim)
    /\ UNCHANGED <<custodyVars, signatures, outputs, instance, paidFrom>>

Land(t) ==
    /\ Accepted(t)
    /\ \/ t.type = "open" /\ OpenStaging(t.s, BatchKind)
       \/ t.type = "staging" /\ LandStaging(t)
       \/ t.type = "settle" /\ SettleGroups(t.s, t.order)
       \/ t.type = "close" /\ LandClose(t)
    /\ sent' = sent \ {t}
    /\ UNCHANGED processVars

-----------------------------------------------------------------------------
(* How a process ends.                                                     *)

Orphaned(txs) == {[t EXCEPT !.awaited = FALSE] : t \in txs}

\* An uncaught error: memory is gone, what was sent stays sent.
Die(txs) ==
    /\ operator' = "crashed"
    /\ memory' = Nothing
    /\ sent' = Orphaned(txs)
    /\ UNCHANGED <<used, drawn>>

\* settle-leftovers catches the error of its closeStaging, and of nothing else.
Caught(t) == operator = "leftovers" /\ t.type = "close"

Drop(t) == sent' = sent \ {t} /\ UNCHANGED <<operator, memory, used, drawn>>

\* The sender of t, if it still waits, sees that t did not land.
Lose(t) == IF t.awaited /\ ~Caught(t) THEN Die(sent \ {t}) ELSE Drop(t)

\* The simulation before sending refuses t, or the chain does.  The gateway waits until a
\* settlement is confirmed and reads no error of it: one the chain refused it takes for
\* settled (devnet-gateway.ts:752).
Unnoticed(t) == operator = "gateway" /\ t.type = "settle" /\ Drop(t)

Refuse(t) == ~Accepted(t) /\ (Lose(t) \/ Unnoticed(t)) /\ UNCHANGED <<vars, faults>>

Fault == faults < MaxFaults /\ faults' = faults + 1

Expire(t) == Fault /\ Lose(t) /\ UNCHANGED vars

\* Settlement asks for no relayer (lib.rs:311): anyone may settle what is verified.
StrangerSettles ==
    /\ Fault
    /\ SettleStep
    /\ UNCHANGED <<operator, memory, sent, used, drawn>>

Crash ==
    /\ operator \in {"gateway", "leftovers"}
    /\ Fault
    /\ Die(sent)
    /\ UNCHANGED vars

-----------------------------------------------------------------------------
(* The gateway.                                                            *)

Owed(k) == k.target > settled[k.channel]
Batches(records) == (Len(records) + BatchSize - 1) \div BatchSize
BatchOf(records, b) ==
    SubSeq(records, (b - 1) * BatchSize + 1, Smaller(b * BatchSize, Len(records)))

\* The session of devnet-gateway.ts: every payee and provider is registered and has a
\* balance, every agent locks at least what it signs, and all channels are of one kind
\* and, when routed, of one route.
HeadOf(k) == Layout[k.channel[1]]
RecordSound(k) ==
    /\ Payers[k.channel] # NoOne /\ HeadOf(k).kind = BatchKind
    /\ Named(k) \cup {HeadOf(k).payee} \subseteq Participants \ Absent
    /\ k.target \in 1 .. Collateral[k.channel]
    /\ BatchKind = Routed => Validate(k) /\ HeadOf(k).payee \notin Named(k)
    /\ BatchKind = Direct => k.allocations = <<>>
ASSUME RecordsAreSound ==
    /\ BatchKind \in Kinds /\ MaxFaults \in Nat
    /\ Records \in Seq(Commitments) /\ Commitments = Range(Records)
    /\ \A k \in Commitments : RecordSound(k)
    /\ BatchKind = Routed => \A k, l \in Commitments : HeadOf(k) = HeadOf(l)

\* A record goes on where the batches before its own bring its channel.
InBatch(b, c) == {k \in Range(BatchOf(Records, b)) : k.channel = c}
ASSUME BatchesFollowOn ==
    \A b \in 1 .. Batches(Records) : \A k \in Range(BatchOf(Records, b)) :
       /\ k.base = 0 \/ \E a \in 1 .. b - 1 : \E l \in InBatch(a, k.channel) : k.base <= l.target
       /\ \A a \in 1 .. b - 1 : \A l \in InBatch(a, k.channel) : l.target < k.target

\* Offsets are drawn one by one, as many as computations may be queued.
ASSUME OffsetsEnough == Offsets = 1 .. MaxInstances

\* What is still owed, in order.
Owing ==
    LET kept[n \in 0 .. Len(Records)] ==
          IF n = 0 THEN <<>>
          ELSE IF Owed(Records[n]) THEN Append(kept[n - 1], Records[n]) ELSE kept[n - 1]
    IN  kept[Len(Records)]

\* As much of it as can be batched: each record goes on from what is settled, or from a
\* batch before its own.
FollowsOn(records) ==
    \A b \in 1 .. Batches(records) : \A k \in Range(BatchOf(records, b)) :
       \/ k.base <= settled[k.channel]
       \/ \E a \in 1 .. b - 1 : \E l \in Range(BatchOf(records, a)) :
            l.channel = k.channel /\ k.base <= l.target
Session ==
    SubSeq(Owing, 1, CHOOSE n \in 0 .. Len(Owing) :
                        /\ FollowsOn(SubSeq(Owing, 1, n))
                        /\ \A m \in n + 1 .. Len(Owing) : ~FollowsOn(SubSeq(Owing, 1, m)))

StartGateway ==
    /\ operator = "idle"
    /\ operator' = "gateway"
    /\ memory' = [step |-> "start", records |-> Session, batch |-> 0, last |-> NoOffset]
    /\ UNCHANGED <<vars, sent, used, drawn, faults>>

\* openStaging: a new account, made and opened in one transaction.
SendOpen ==
    /\ memory.step = "start"
    /\ \E s \in Stagings \ used :
         /\ s = CHOOSE fresh \in Stagings \ used : TRUE
         /\ used' = used \cup {s}
         /\ sent' = sent \cup {OpenTx(s)}
         /\ memory' = [step |-> "next", records |-> memory.records, batch |-> 0,
                       last |-> NoOffset, s |-> s]
    /\ UNCHANGED <<vars, operator, drawn, faults>>

\* planStaging: consecutive chunks, cut wherever the transaction sizes say; the last
\* one may ride in the seal transaction.  The first chunk carries the reset.
Plans(n) == [starts : {{0} \cup cuts : cuts \in SUBSET (1 .. n - 1)}, tail : BOOLEAN]

ChunkTx(s, records, fresh, starts, at) ==
    LET ends == {a \in starts : a > at} \cup {Len(records)}
        end == CHOOSE e \in ends : \A other \in ends : e <= other
    IN  StagingTx(s, at = 0 /\ ~fresh, at, SubSeq(records, at + 1, end))

PlanBatch ==
    /\ memory.step = "next" /\ Confirmed
    /\ memory.batch < Batches(memory.records)
    /\ LET b == memory.batch + 1
           records == BatchOf(memory.records, b)
       IN  \E plan \in Plans(Len(records)) :
             LET last == CHOOSE a \in plan.starts : \A other \in plan.starts : other <= a
                 chunk(at) == ChunkTx(memory.s, records, b = 1, plan.starts, at)
                 tail == IF plan.tail THEN chunk(last)
                                      ELSE StagingTx(memory.s, FALSE, 0, <<>>)
             IN  memory' = [step |-> "stage", records |-> memory.records, batch |-> b,
                            last |-> memory.last, s |-> memory.s,
                            plan |-> {chunk(at) : at \in plan.starts} \ {tail},
                            seal |-> [tail EXCEPT !.count = Len(records),
                                                  !.claim = memory.last]]
    /\ UNCHANGED <<vars, operator, sent, used, drawn, faults>>

AllAtOnce(plan) == plan                             \* mutant of FirstToSend
\* stageBatch: "the reset must land before any other chunk".
FirstToSend(plan) == IF \E t \in plan : t.at = 0 THEN {t \in plan : t.at = 0} ELSE plan

SendChunks ==
    /\ memory.step = "stage" /\ Confirmed
    /\ memory.plan # {}
    /\ sent' = sent \cup FirstToSend(memory.plan)
    /\ memory' = [memory EXCEPT !.plan = @ \ FirstToSend(@)]
    /\ UNCHANGED <<vars, operator, used, drawn, faults>>

\* sealAndQueue: the offset is 8 random bytes, here one never drawn before.
SendSeal ==
    /\ memory.step = "stage" /\ Confirmed
    /\ memory.plan = {}
    /\ drawn < MaxInstances
    /\ drawn' = drawn + 1
    /\ sent' = sent \cup {[memory.seal EXCEPT !.offset = drawn']}
    /\ memory' = [step |-> "await", records |-> memory.records, batch |-> memory.batch,
                  last |-> drawn', s |-> memory.s]
    /\ UNCHANGED <<vars, operator, used, faults>>

\* awaitClearing, then the result is fetched; a batch that failed, or has a record
\* that did not verify, ends the process.
ReadVerdict ==
    LET r == result[memory.s]
        count == Len(BatchOf(memory.records, memory.batch))
    IN  /\ memory.step = "await" /\ Confirmed
        /\ Account(r) /\ (r.verified \/ r.failed)
        /\ IF r.verified /\ r.bitmap = 0 .. count - 1
           THEN /\ memory' = [step |-> "settle", records |-> memory.records,
                              batch |-> memory.batch, last |-> memory.last, s |-> memory.s,
                              todo |-> [n \in 1 .. count |-> n - 1]]
                /\ UNCHANGED <<operator, sent, used, drawn>>
           ELSE Die(sent)
        /\ UNCHANGED <<vars, faults>>

\* Mutant of SendSettlement: consecutive settlements share a record.
SettlementsOverlap ==
    /\ memory.step = "settle" /\ Confirmed
    /\ memory.todo # <<>>
    /\ \E n \in 1 .. Len(memory.todo) :
         /\ sent' = sent \cup {SettleTx(memory.s, SubSeq(memory.todo, 1, n))}
         /\ memory' = [memory EXCEPT !.todo = IF n = Len(@) THEN <<>> ELSE SubSeq(@, n, Len(@))]
    /\ UNCHANGED <<vars, operator, used, drawn, faults>>

\* Gateway and leftovers alike: one settlement of as many records as the accounts of a
\* transaction allow.
SendSettlement ==
    /\ memory.step = "settle" /\ Confirmed
    /\ memory.todo # <<>>
    /\ \E n \in 1 .. Len(memory.todo) :
         /\ sent' = sent \cup {SettleTx(memory.s, SubSeq(memory.todo, 1, n))}
         /\ memory' = [memory EXCEPT !.todo = SubSeq(@, n + 1, Len(@))]
    /\ UNCHANGED <<vars, operator, used, drawn, faults>>

BatchSettled ==
    /\ operator = "gateway"
    /\ memory.step = "settle" /\ Confirmed
    /\ memory.todo = <<>>
    /\ memory' = [step |-> "next", records |-> memory.records, batch |-> memory.batch,
                  last |-> memory.last, s |-> memory.s]
    /\ UNCHANGED <<vars, operator, sent, used, drawn, faults>>

\* Step 6 asserts what every record of the session had to bring about, then closes.
SendClose ==
    /\ operator = "gateway"
    /\ memory.step = "next" /\ Confirmed
    /\ memory.batch = Batches(memory.records)
    /\ IF \A k \in Range(memory.records) : ~Owed(k)
       THEN /\ sent' = sent \cup {CloseTx(memory.s, memory.last)}
            /\ memory' = [step |-> "close"]
            /\ UNCHANGED <<operator, used, drawn>>
       ELSE Die(sent)
    /\ UNCHANGED <<vars, faults>>

\* The operator is done when nothing is owed.
GatewayDone ==
    /\ operator = "gateway"
    /\ memory.step = "close" /\ Confirmed
    /\ operator' = IF Owing = <<>> THEN "done" ELSE "idle"
    /\ memory' = Nothing
    /\ UNCHANGED <<vars, sent, used, drawn, faults>>

GatewayStep ==
    \/ StartGateway \/ SendOpen \/ PlanBatch \/ SendChunks \/ SendSeal \/ ReadVerdict
    \/ BatchSettled \/ SendClose \/ GatewayDone

-----------------------------------------------------------------------------
(* settle-leftovers.                                                       *)

\* The buffers are listed once, with their seals as they are then.
StartLeftovers ==
    /\ operator = "crashed"
    /\ operator' = "leftovers"
    /\ memory' = [step |-> "visit", s |-> NoBuffer, seen |-> 0,
                  left |-> {s \in Stagings : Account(staging[s])},
                  sealed |-> {s \in Stagings : Account(staging[s]) /\ staging[s].sealed}]
    /\ UNCHANGED <<vars, sent, used, drawn, faults>>

EveryBit(r) == r.bitmap                             \* mutant of Unsettled
Unsettled(r) == r.bitmap \ r.applied

\* The loop over the bits of the result.
InOrder(indices) ==
    LET taken[i \in 0 .. BatchSize] ==
          IF i = 0 THEN <<>>
          ELSE IF i - 1 \in indices THEN Append(taken[i - 1], i - 1) ELSE taken[i - 1]
    IN  taken[BatchSize]

\* The next buffer's result is fetched; what verified and is not applied is to do.
VisitBuffer(s) ==
    /\ memory.step = "visit" /\ Confirmed
    /\ s \in memory.left
    /\ IF Account(result[s])
       THEN /\ LET seen == s \in memory.sealed /\ result[s].verified
               IN  memory' = [step |-> "settle", left |-> memory.left \ {s},
                              sealed |-> memory.sealed, s |-> s,
                              seen |-> IF seen THEN result[s].instance ELSE 0,
                              todo |-> IF seen THEN InOrder(Unsettled(result[s]))
                                               ELSE <<>>]
            /\ UNCHANGED <<operator, sent, used, drawn>>
       ELSE Die(sent)
    /\ UNCHANGED <<vars, faults>>

\* Mutant of CloseLeftover: the last settlements are not flushed.
CloseUnflushed ==
    /\ operator = "leftovers"
    /\ memory.step = "settle" /\ Confirmed
    /\ sent' = sent \cup {CloseTx(memory.s, NoOffset)}
    /\ memory' = [memory EXCEPT !.step = "visit"]
    /\ UNCHANGED <<vars, operator, used, drawn, faults>>

\* Settled or not, the buffer is closed.
CloseLeftover ==
    /\ operator = "leftovers"
    /\ memory.step = "settle" /\ Confirmed
    /\ memory.todo = <<>>
    /\ sent' = sent \cup {CloseTx(memory.s, NoOffset)}
    /\ memory' = [memory EXCEPT !.step = "visit"]
    /\ UNCHANGED <<vars, operator, used, drawn, faults>>

LeftoversDone ==
    /\ operator = "leftovers"
    /\ memory.step = "visit" /\ Confirmed
    /\ memory.left = {}
    /\ operator' = "idle"
    /\ memory' = Nothing
    /\ UNCHANGED <<vars, sent, used, drawn, faults>>

LeftoversStep ==
    \/ StartLeftovers \/ CloseLeftover \/ LeftoversDone
    \/ \E s \in Stagings : VisitBuffer(s)

-----------------------------------------------------------------------------
(* Arcium, and the whole.                                                  *)

Compute == \E o \in Offsets : RunComputation(o, FALSE) /\ UNCHANGED relayerVars
FailToCompute ==
    /\ \E o \in Offsets : RunComputation(o, TRUE)
    /\ Fault
    /\ UNCHANGED <<operator, memory, sent, used, drawn>>
Deliver == \E out \in outputs : Callback(out) /\ UNCHANGED relayerVars

Done == operator = "done" /\ UNCHANGED rvars

\* One process runs at a time.
Process == GatewayStep \/ LeftoversStep \/ SendSettlement

RNext ==
    \/ Process
    \/ \E t \in sent : Land(t) \/ Refuse(t) \/ Expire(t)
    \/ StrangerSettles
    \/ Crash
    \/ Compute \/ FailToCompute \/ Deliver
    \/ Done

\* What Land and Refuse have in common, and no other step: a transaction is answered
\* without a fault.  One of the two is enabled for every transaction sent.
Answered ==
    /\ \E t \in sent : sent' \in {sent \ {t}, Orphaned(sent \ {t})}
    /\ UNCHANGED faults

\* Every process that runs makes its next step; what is sent is landed or refused in
\* the end; Arcium runs what is queued and delivers it.  Nothing is fair about faults.
Fairness ==
    /\ WF_rvars(Process)
    /\ WF_sent(Answered)
    /\ WF_rvars(Compute) /\ WF_rvars(Deliver)

RSpec == RInit /\ [][RNext]_rvars /\ Fairness

-----------------------------------------------------------------------------
(* Properties.                                                             *)

\* Whatever chunks were cut, whichever of them landed first, a batch that is sealed
\* for the running gateway holds its records in their order, and nothing of the batch
\* before it.
BatchSealedAsPlanned ==
    operator = "gateway" /\ memory.step = "await" /\ Confirmed =>
       LET records == BatchOf(memory.records, memory.batch)
       IN  /\ staging[memory.s].sealed
           /\ result[memory.s].offset = memory.last
           /\ \A n \in DOMAIN records : staging[memory.s].slots[n - 1].com = records[n]

\* Left alone, the plan works: nothing a process sends is refused and no process dies
\* unless a fault happened; not by a chunk before its reset, a base not yet reached, a
\* rent claimed too early or a record settled twice.
OnlyFaultsCrash == operator = "crashed" => faults > 0

\* Every commitment is paid in the end, up to its target, although processes crash,
\* transactions expire or land after their sender died, and computations fail.
EveryCommitmentPaid ==
    \A n \in DOMAIN Records :
       LET k == Records[n] IN <>(settled[k.channel] >= k.target)

\* The buffer's batch is over: reset, or closed.
BatchGone(s) == result'[s] # result[s] /\ (~Account(result'[s]) \/ ~result'[s].verified)

\* settle-leftovers.ts:2: "finish every batch of ours that was verified but never
\* (fully) settled ... Then close the buffer".
NoVerifiedRecordDropped ==
    [][\A s \in Stagings : Account(result[s]) /\ BatchGone(s) =>
          result[s].bitmap \subseteq result[s].applied]_rvars

\* The close a process sends loses nothing that it saw verified and that is still owed:
\* settle-leftovers has settled all of it by then; of a gateway whose settlement failed
\* unnoticed, every record was settled all the same.  Against settlements of crashed
\* processes and of strangers, settlements that are refused, and crashes of its own.
OwnCloseDropsNothingSeen ==
    \A t \in sent : t.type = "close" /\ t.awaited =>
       LET r == result[t.s]
       IN  Account(r) /\ (operator = "leftovers" => r.instance = memory.seen) =>
             \A i \in r.bitmap \ r.applied :
                operator = "gateway" /\ ~Owed(staging[t.s].slots[i].com)

\* A gateway's settlement of its own buffer is refused for one reason only: one of its
\* records was settled meanwhile, which takes a stranger.  Nothing that crashed processes
\* or strangers settle of other buffers for the same channels, in any order, refuses it,
\* and left alone the gateway does not forestall itself.
OnlyForestallingRefuses ==
    operator = "gateway" => \A t \in sent : t.type = "settle" /\ t.awaited =>
       Accepted(t) \/ (faults > 0 /\ Range(t.order) \cap result[t.s].applied # {})

\* devnet-gateway.ts:638-639: "settle right away so the buffer can be reset for the next
\* batch ... reuse requires it".  The gateway's reset finds its batch settled.
GatewayResetsSettled ==
    [][operator = "gateway" /\ memory.step \in {"stage", "await"}
         /\ Account(result[memory.s]) /\ BatchGone(memory.s) =>
            result[memory.s].bitmap \subseteq result[memory.s].applied]_rvars

\* What the commitments together give to whom, channel by channel.
DueUnits ==
    [c \in Channels |->
       LET targets == {k.target : k \in {r \in Range(Records) : r.channel = c}} \cup {0}
       IN  CHOOSE t \in targets : \A other \in targets : other <= t]
Signing(c, u) == {r \in Range(Records) : r.channel = c /\ r.base < u /\ u <= r.target}

\* The commitments of a channel follow one another and do not conflict.
ASSUME UnitsSignedOnce == \A c \in Channels : \A u \in 1 .. DueUnits[c] : Cardinality(Signing(c, u)) = 1

SignedOwner ==
    [c \in Channels |-> [u \in 1 .. DueUnits[c] |->
       OwnerAmong(CHOOSE r \in Signing(c, u) : TRUE, u, Layout[c[1]].payee)]]

DueOf(c) == DueUnits[c]
OwnerOfUnit(c, u) == SignedOwner[c][u]
P == INSTANCE Payments WITH
       Lanes <- Channels, Owners <- Participants, Due <- DueOf, Owner <- OwnerOfUnit,
       paid <- settled, received <- paidFrom

\* Under the same fairness the relayer implements the abstract payments: units are
\* paid to their owners in order, once, and all of them in the end.
ImplementsPayments == P!Spec
=============================================================================
