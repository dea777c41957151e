----------------------------- MODULE RelayerProofs -----------------------------
(***************************************************************************)
(* The relayer, for every number of commitments, batches, buffers and      *)
(* faults: what a process remembers of the transactions it sent, and what  *)
(* these have done to the accounts.  Three invariants, each on top of the  *)
(* one before: the accounts are in order whoever sends what                *)
(* (AccountsInOrder); a running process is where its memory says, beside   *)
(* whatever crashed processes sent (ProcessOK); and without a fault the    *)
(* gateway's plan is never refused (AsPlanned).                            *)
(***************************************************************************)
EXTENDS Relayer, ClearingProofs

-----------------------------------------------------------------------------
OpenTxs == [type : {"open"}, s : Stagings, awaited : BOOLEAN]
StagingTxs ==
    [type : {"staging"}, s : Stagings, reset : BOOLEAN, at : 0 .. BatchSize,
     records : Seq(Commitments), count : 0 .. BatchSize, offset : Offsets \cup {NoOffset},
     claim : Offsets \cup {NoOffset}, awaited : BOOLEAN]
SettleTxs == [type : {"settle"}, s : Stagings, order : Orders, awaited : BOOLEAN]
CloseTxs == [type : {"close"}, s : Stagings, claim : Offsets \cup {NoOffset}, awaited : BOOLEAN]

TxOK(t) ==
    /\ t \in OpenTxs \cup StagingTxs \cup SettleTxs \cup CloseTxs
    /\ t.s \in used
    /\ t.type = "staging" => /\ t.at + Len(t.records) <= BatchSize
                             /\ IF t.count > 0 THEN t.offset \in 1 .. drawn ELSE t.records # <<>>
SentOK ==
    /\ \A t \in sent : TxOK(t)
    /\ used \subseteq Stagings /\ drawn \in 0 .. MaxInstances /\ faults \in Nat

\* What no step of the relayer changes, and what the accounts hold.
Setting ==
    /\ signatures = [k \in Commitments |-> Required(HeaderOf(k.channel).kind)]
    /\ bucket = Layout /\ payer = Payers /\ opened = (Participants \ Absent) \X Mints
    /\ \A c \in Channels : settled[c] + locked[c] = Collateral[c]

Routes == {NoRoute} \cup {<<HeadOf(k).payee, HeadOf(k).mint>> : k \in Commitments}
BufferFull(b) ==
    /\ b.kind = BatchKind /\ b.route \in Routes
    /\ \A i \in Indices : b.slots[i] # Blank => Required(BatchKind) \subseteq b.slots[i].signed
    /\ \A i \in b.staged : b.slots[i] # Blank
BuffersFull ==
    \A s \in Stagings : Account(staging[s]) => s \in used /\ BufferFull(staging[s])
ResultsMarked ==
    \A s \in Stagings : Account(result[s]) =>
       /\ result[s].kind = BatchKind
       /\ result[s].instance = 0 <=> result[s].offset = 0
       /\ faults = 0 => ~result[s].failed
OffsetsMarked ==
    /\ \A o \in Offsets : Account(comp[o]) => o <= drawn
    /\ \A out \in outputs :
         /\ Account(comp[out.offset]) /\ comp[out.offset].instance = out.instance
              => comp[out.offset].ran
         /\ faults = 0 => ~out.failure
AccountsInOrder == ClearingInv /\ SentOK /\ Setting /\ BuffersFull /\ ResultsMarked /\ OffsetsMarked

-----------------------------------------------------------------------------
Own == {t \in sent : t.awaited}
OwnBuffer(s) == s \in used /\ \A t \in sent : t.s = s <=> t.awaited
Offset == Offsets \cup {NoOffset}

StartMemory == [step : {"start"}, records : Seq(Commitments), batch : {0}, last : {NoOffset}]
NextMemory ==
    [step : {"next"}, records : Seq(Commitments), batch : Nat, last : Offset, s : Stagings]
StageMemory ==
    [step : {"stage"}, records : Seq(Commitments), batch : Nat, last : Offset, s : Stagings,
     plan : SUBSET StagingTxs, seal : StagingTxs]
AwaitMemory ==
    [step : {"await"}, records : Seq(Commitments), batch : Nat, last : Offset, s : Stagings]
SettleMemory ==
    [step : {"settle"}, records : Seq(Commitments), batch : Nat, last : Offset, s : Stagings,
     todo : Seq(Indices)]
CloseMemory == [step : {"close"}]

ThisBatch == BatchOf(memory.records, memory.batch)

\* The bits of a result will not change.
Over(r) == r.verified \/ r.offset = 0

\* What verified in the buffer is of these records.
HoldsOnly(s, records) == \A i \in result[s].bitmap : staging[s].slots[i].com \in Range(records)

\* What verified in the buffer and is not applied is paid all the same.
PaidUp(s) ==
    \A i \in result[s].bitmap \ result[s].applied :
       LET k == staging[s].slots[i].com IN k \in Commitments /\ ~Owed(k)

AtStart == memory \in StartMemory /\ Own = {}

AtNext ==
    /\ memory \in NextMemory /\ OwnBuffer(memory.s) /\ memory.batch \in 0 .. Batches(memory.records)
    /\ \/ /\ memory.batch = 0 /\ Own = {OpenTx(memory.s)} /\ ~Account(staging[memory.s])
       \/ /\ Own = {} /\ Account(staging[memory.s]) /\ Over(result[memory.s])
          /\ HoldsOnly(memory.s, memory.records)
          /\ memory.batch = 0 => ~staging[memory.s].sealed

\* A transaction that carries records of the batch, each for its place.
ChunkOf(t, s, records) ==
    /\ t \in StagingTxs /\ t.s = s /\ t.awaited
    /\ t.at + Len(t.records) <= Len(records)
    /\ \A n \in 1 .. Len(t.records) : t.records[n] = records[t.at + n]
    /\ t.reset => t.at = 0
Carries(t, i) == i \in t.at .. t.at + Len(t.records) - 1
InPlace(b, records, i) == i \in b.staged /\ b.slots[i].com = records[i + 1]

\* The buffer with what is still to land: nothing of the batch is missing, and the reset
\* of the batch before it is first.
Underway(txs, s, records) ==
    /\ Account(staging[s])
    /\ \A t \in txs : ChunkOf(t, s, records)
    /\ \A t, u \in txs : t.reset /\ u.reset => t = u
    /\ staging[s].sealed => \E t \in txs : t.reset
    /\ \A i \in 0 .. Len(records) - 1 :
         \/ \E t \in txs : Carries(t, i)
         \/ /\ InPlace(staging[s], records, i)
            /\ \A t \in txs : ~t.reset

PlainChunk(t) == t.count = 0 /\ t.claim = NoOffset /\ t.records # <<>>
AtStage ==
    /\ memory \in StageMemory /\ OwnBuffer(memory.s)
    /\ memory.batch \in 1 .. Batches(memory.records)
    /\ Underway(memory.plan \cup Own \cup {memory.seal}, memory.s, ThisBatch)
    /\ \A t \in memory.plan \cup Own : t \in StagingTxs /\ PlainChunk(t)
    /\ memory.plan \cap Own = {} /\ \A t, u \in memory.plan \cup Own : t.at = u.at => t = u
    /\ memory.seal.count = Len(ThisBatch) /\ memory.seal.claim = memory.last
    /\ memory.seal.reset => memory.plan = {} /\ Own = {}
    /\ \A t \in Own : t.reset \/ \A u \in memory.plan \cup Own : ~u.reset

\* The batch, sealed, under the computation last queued.
SealedBatch(s, records, last) ==
    /\ Account(staging[s]) /\ staging[s].sealed
    /\ result[s].offset = last /\ result[s].count = Len(records)
    /\ last # NoOffset
    /\ \A n \in DOMAIN records : staging[s].slots[n - 1].com = records[n]

SealWaits == \E t \in Own :
    /\ Own = {t} /\ t \in StagingTxs /\ t.count = Len(ThisBatch) /\ t.offset = memory.last
    /\ Underway({t}, memory.s, ThisBatch)

AtAwait ==
    /\ memory \in AwaitMemory /\ OwnBuffer(memory.s)
    /\ memory.batch \in 1 .. Batches(memory.records)
    /\ memory.last # NoOffset
    /\ \/ SealWaits
       \/ /\ Own = {} /\ SealedBatch(memory.s, ThisBatch, memory.last)
          /\ faults = 0 => result[memory.s].applied = {}

Once(seq) == \A a, b \in DOMAIN seq : a # b => seq[a] # seq[b]
SettleWaits(s, o) == Own = IF o = <<>> THEN {} ELSE {SettleTx(s, o)}

AtSettle ==
    /\ memory \in SettleMemory /\ OwnBuffer(memory.s)
    /\ memory.batch \in 1 .. Batches(memory.records)
    /\ SealedBatch(memory.s, ThisBatch, memory.last)
    /\ result[memory.s].verified /\ result[memory.s].bitmap = 0 .. Len(ThisBatch) - 1
    /\ Once(memory.todo) /\ Len(memory.todo) <= BatchSize
    /\ \E o \in Orders \cup {<<>>} :
         /\ SettleWaits(memory.s, o)
         /\ Once(o) /\ Range(o) \cap Range(memory.todo) = {}
         /\ Range(o) \cup Range(memory.todo) \subseteq result[memory.s].bitmap
         /\ faults = 0 => Unsettled(result[memory.s]) = Range(o) \cup Range(memory.todo)

AtClose ==
    /\ memory \in CloseMemory
    /\ \A t \in Own : /\ t \in CloseTxs
                      /\ \A u \in sent : u.s = t.s => u = t
                      /\ Account(result[t.s]) => Over(result[t.s]) /\ PaidUp(t.s)

GatewayOK ==
    operator = "gateway" => AtStart \/ AtNext \/ AtStage \/ AtAwait \/ AtSettle \/ AtClose

-----------------------------------------------------------------------------
FirstVisit ==
    [step : {"visit"}, s : {NoBuffer}, seen : {0}, left : SUBSET Stagings, sealed : SUBSET Stagings]
VisitMemory ==
    [step : {"visit", "settle"}, s : Stagings, seen : Nat, left : SUBSET Stagings,
     sealed : SUBSET Stagings, todo : Seq(Indices)]

\* What was seen verified in the buffer and is still to be applied.
Remains(indices) ==
    LET r == result[memory.s]
    IN  Account(r) /\ r.instance = memory.seen =>
           (memory.seen # 0 => r.verified) /\ Unsettled(r) \subseteq indices

AtVisit ==
    /\ memory \in VisitMemory /\ memory.step = "visit" /\ memory.s \in used
    /\ \A t \in Own : t = CloseTx(memory.s, NoOffset)
    /\ memory.seen <= instance
    /\ Remains({})
AtLeftSettle ==
    /\ memory \in VisitMemory /\ memory.step = "settle" /\ memory.s \in used
    /\ memory.seen <= instance /\ Len(memory.todo) <= BatchSize
    /\ \E o \in Orders \cup {<<>>} :
         SettleWaits(memory.s, o) /\ Remains(Range(o) \cup Range(memory.todo))
LeftoversOK ==
    operator = "leftovers" =>
       /\ memory.left \subseteq used
       /\ \/ memory \in FirstVisit /\ Own = {}
          \/ AtVisit \/ AtLeftSettle

NobodyOK == operator \notin {"gateway", "leftovers"} => memory = Nothing /\ Own = {}

ProcessOK ==
    /\ operator \in {"idle", "gateway", "crashed", "leftovers", "done"}
    /\ GatewayOK /\ LeftoversOK /\ NobodyOK

-----------------------------------------------------------------------------
(* Without a fault.                                                        *)

\* The watermarks w bring every channel up to its targets in the first d batches, and no
\* channel beyond them.
Reached(d, w) == \A b \in 1 .. d : \A k \in Range(BatchOf(Records, b)) : w[k.channel] >= k.target
Within(d, w) == \A c \in Channels : w[c] > 0 =>
                   \E b \in 1 .. d : \E k \in InBatch(b, c) : w[c] <= k.target
Ran(o) == o # NoOffset => Account(comp[o]) /\ comp[o].ran

OnIdle == operator = "idle" =>
    /\ sent = {} /\ drawn = 0 /\ instance = 0
    /\ Reached(0, settled) /\ Within(0, settled)
OnStart == memory.step = "start" =>
    drawn = 0 /\ instance = 0 /\ Reached(0, settled) /\ Within(0, settled)
OnNext == memory.step = "next" =>
    /\ instance = drawn /\ Ran(memory.last)
    /\ Reached(memory.batch, settled) /\ Within(memory.batch, settled)
OnStage == memory.step = "stage" =>
    /\ instance = drawn /\ Ran(memory.last)
    /\ Reached(memory.batch - 1, settled) /\ Within(memory.batch - 1, settled)
OnAwait == memory.step = "await" =>
    /\ memory.last = drawn /\ Reached(memory.batch - 1, settled) /\ Within(memory.batch - 1, settled)
    /\ \A t \in Own : /\ instance + 1 = drawn /\ ~Account(comp[drawn])
                      /\ Ran(t.claim) /\ t.claim # drawn
    /\ Own = {} => /\ instance = drawn /\ Account(comp[memory.last])
                   /\ result[memory.s].verified => comp[memory.last].ran
OnSettle == memory.step = "settle" =>
    /\ instance = drawn /\ Ran(memory.last)
    /\ Reached(memory.batch - 1, settled) /\ Within(memory.batch, settled)
    /\ \A i \in result[memory.s].applied :
          LET k == ThisBatch[i + 1] IN settled[k.channel] >= k.target
OnClose == memory.step = "close" =>
    /\ \A k \in Commitments : ~Owed(k)
    /\ \A t \in Own : Own = {t} /\ Account(staging[t.s]) /\ Ran(t.claim)

AsPlanned ==
    faults = 0 =>
       /\ operator \in {"idle", "gateway", "done"}
       /\ sent = Own
       /\ OnIdle
       /\ operator = "gateway" =>
            /\ memory.step # "close" => memory.records = Records
            /\ OnStart /\ OnNext /\ OnStage /\ OnAwait /\ OnSettle /\ OnClose

RelayerInv == AccountsInOrder /\ ProcessOK /\ AsPlanned
-----------------------------------------------------------------------------
(* The buffer after each record of a staging transaction.                  *)

Base(t) == IF t.reset THEN EmptyBuffer(BatchKind) ELSE staging[t.s]
RecordOf(k) == [com |-> k, signed |-> signatures[k]]

\* After n records the buffer holds them at their places and is else what it was.
Written(t, n, b) ==
    LET o == Base(t)
    IN  /\ b \in BufferWith(b.route) /\ b.sealed = o.sealed /\ b.kind = o.kind
        /\ b.staged = o.staged \cup (t.at .. t.at + n - 1)
        /\ \A i \in Indices : b.slots[i] = IF i \in t.at .. t.at + n - 1
                                           THEN RecordOf(t.records[i - t.at + 1]) ELSE o.slots[i]
        /\ b.route = IF n > 0 /\ o.kind = Routed THEN RouteOf(t.records[n]) ELSE o.route

\* The kinds of records the relayer writes.
LEMMA KindFacts == BatchKind \in Kinds /\ Records \in Seq(Commitments) /\ Commitments = Range(Records)
                   /\ Direct # Routed /\ Kinds = {Direct, Routed}
BY RecordsAreSound DEF Kinds, Direct, Routed

\* The buffer a staging transaction starts from.
LEMMA BaseIs ==
  ASSUME VInv, NEW t \in StagingTxs, Account(staging[t.s])
  PROVE  Base(t) \in BufferWith(Base(t).route)
<1>1. t.s \in Stagings
  BY DEF StagingTxs
<1>2. staging[t.s] \in BufferWith(staging[t.s].route)
  BY <1>1, ClosedFacts DEF VInv, Types, IsBuffer
<1>3. 0 \in 0 .. BatchSize
  BY IndexFacts
<1>4. /\ EmptyBuffer(BatchKind) \in BufferWith(EmptyBuffer(BatchKind).route)
  BY <1>3, KindFacts, ClearedFacts
<1> QED BY <1>2, <1>4 DEF Base

\* One more record.
LEMMA WrittenOnce ==
  ASSUME VInv, NEW t \in StagingTxs, t.at + Len(t.records) <= BatchSize, Account(staging[t.s]),
         NEW n \in 1 .. Len(t.records), NEW b, Written(t, n - 1, b)
  PROVE  Written(t, n, WithRecord(b, t.at + n - 1, t.records[n], signatures[t.records[n]]))
<1> DEFINE i == t.at + n - 1
           k == t.records[n]
           w == WithRecord(b, i, k, signatures[k])
           o == Base(t)
<1>1. t.at \in Nat /\ t.records \in Seq(Commitments) /\ Len(t.records) \in Nat /\ BatchSize \in Nat
  BY IndexFacts DEF StagingTxs
<1>2. k \in Commitments
  BY <1>1, SeqEntries
<1>3. i \in Indices
  BY <1>1 DEF Indices
<1>4. signatures[k] \in SUBSET Signers
  BY <1>2 DEF VInv, Types
<1>5. /\ b \in BufferWith(b.route) /\ b.sealed = o.sealed /\ b.kind = o.kind
      /\ b.staged = o.staged \cup (t.at .. t.at + (n - 1) - 1)
      /\ \A j \in Indices : b.slots[j] = IF j \in t.at .. t.at + (n - 1) - 1
                                         THEN RecordOf(t.records[j - t.at + 1]) ELSE o.slots[j]
  BY DEF Written
<1> HIDE DEF i, k, o
<1>6. /\ w \in BufferWith(w.route) /\ w.sealed = b.sealed /\ w.kind = b.kind
      /\ w.staged = b.staged \cup {i}
      /\ w.route = IF b.kind = Routed THEN RouteOf(k) ELSE b.route
      /\ w.slots[i] = [com |-> k, signed |-> signatures[k]]
      /\ \A j \in Indices \ {i} : w.slots[j] = b.slots[j]
  BY <1>2, <1>3, <1>4, <1>5, WithRecordFacts
<1> HIDE DEF w
<1>7. b.route = IF n - 1 > 0 /\ o.kind = Routed THEN RouteOf(t.records[n - 1]) ELSE o.route
  BY DEF Written, o
<1>8. w.staged = o.staged \cup (t.at .. t.at + n - 1)
  <2>1. (t.at .. t.at + (n - 1) - 1) \cup {i} = t.at .. t.at + n - 1
    BY <1>1 DEF i
  <2> QED BY <2>1, <1>5, <1>6
<1>9. ASSUME NEW j \in Indices
      PROVE  w.slots[j] = IF j \in t.at .. t.at + n - 1
                          THEN RecordOf(t.records[j - t.at + 1]) ELSE o.slots[j]
  <2>1. CASE j = i
    <3>1. j \in t.at .. t.at + n - 1 /\ j - t.at + 1 = n
      BY <1>1, <2>1 DEF i
    <3> QED BY <2>1, <3>1, <1>6 DEF RecordOf, k
  <2>2. CASE j # i
    <3>1. j \in Nat /\ i = t.at + n - 1 /\ n \in Nat
      BY <1>1, IndexFacts DEF i
    <3>2. j \in t.at .. t.at + n - 1 <=> j \in t.at .. t.at + (n - 1) - 1
      BY <1>1, <2>2, <3>1
    <3>3. w.slots[j] = b.slots[j]
      BY <2>2, <1>6
    <3> QED BY <3>2, <3>3, <1>5
  <2> QED BY <2>1, <2>2
<1>10. w.route = IF n > 0 /\ o.kind = Routed THEN RouteOf(t.records[n]) ELSE o.route
  <2>1. n > 0
    BY <1>1
  <2>2. b.kind # Routed => b.route = o.route
    BY <1>5, <1>7
  <2> QED BY <2>1, <2>2, <1>5, <1>6 DEF k
<1>11. w.sealed = o.sealed /\ w.kind = o.kind /\ w \in BufferWith(w.route)
  BY <1>5, <1>6
<1> QED BY <1>8, <1>9, <1>10, <1>11 DEF Written, w, i, k, o

\* Buffers is the function its definition says it is.
BufferRun(t) ==
    /\ Buffers(t)[0] = Base(t)
    /\ \A n \in 1 .. Len(t.records) :
          Buffers(t)[n] = WithRecord(Buffers(t)[n - 1], t.at + n - 1, t.records[n],
                                     signatures[t.records[n]])
    /\ \A n \in 0 .. Len(t.records) : Written(t, n, Buffers(t)[n])

\* The buffer a staging transaction leaves is a run over its records.
LEMMA BuffersAre ==
  ASSUME VInv, NEW t \in StagingTxs, t.at + Len(t.records) <= BatchSize, Account(staging[t.s])
  PROVE  BufferRun(t)
<1> DEFINE l == Len(t.records)
           write(n, b) == WithRecord(b, t.at + n - 1, t.records[n], signatures[t.records[n]])
           R == {Base(t).route, NoRoute} \cup {RouteOf(k) : k \in Commitments}
           S == UNION {BufferWith(route) : route \in R}
           step == [n \in 1 .. l |-> [b \in S |-> write(n, b)]]
           h == Buffers(t)
<1>0. t.at \in Nat /\ t.records \in Seq(Commitments) /\ l \in Nat /\ BatchSize \in Nat
  BY IndexFacts DEF StagingTxs
<1>1. Base(t) \in BufferWith(Base(t).route) /\ Base(t) \in S
  BY BaseIs
<1>2. ASSUME NEW n \in 1 .. l, NEW b \in S
      PROVE  write(n, b) \in S
  <2>1. PICK route \in R : b \in BufferWith(route)
    OBVIOUS
  <2>2. b.route = route
    BY <2>1 DEF BufferWith
  <2>3. t.records[n] \in Commitments
    BY <1>0, SeqEntries
  <2>4. t.at + n - 1 \in Indices
    BY <1>0 DEF Indices
  <2>5. signatures[t.records[n]] \in SUBSET Signers
    BY <2>3 DEF VInv, Types
  <2>6. PICK i, k, signed : i = t.at + n - 1 /\ k = t.records[n] /\ signed = signatures[k]
    OBVIOUS
  <2>7. i \in Indices /\ k \in Commitments /\ signed \in SUBSET Signers
        /\ b \in BufferWith(b.route)
    BY <2>1, <2>2, <2>3, <2>4, <2>5, <2>6
  <2> DEFINE w == WithRecord(b, i, k, signed)
  <2>8. /\ w \in BufferWith(w.route) /\ w.sealed = b.sealed /\ w.kind = b.kind
        /\ w.staged = b.staged \cup {i}
        /\ w.route = IF b.kind = Routed THEN RouteOf(k) ELSE b.route
        /\ w.slots[i] = [com |-> k, signed |-> signed]
        /\ \A j \in Indices \ {i} : w.slots[j] = b.slots[j]
    BY ONLY <2>7, WithRecordFacts
  <2> HIDE DEF w
  <2>9. w.route \in R
    BY <2>2, <2>7, <2>8
  <2>10. w \in S
    BY <2>8, <2>9
  <2> QED BY <2>6, <2>10 DEF w
<1>3. step \in [1 .. l -> [S -> S]]
  <2>1. \A n \in 1 .. l : [b \in S |-> write(n, b)] \in [S -> S]
    <3> HIDE DEF S, write
    <3> QED BY <1>2
  <2> QED BY <2>1
<1>4. \E f : Unfolds(f, S, l, Base(t), step)
  <2> HIDE DEF S, step
  <2> QED BY <1>0, <1>1, <1>3, Recursion
<1> HIDE DEF S, write
<1>5. \E f : f = [n \in 0 .. l |-> IF n = 0 THEN Base(t) ELSE write(n, f[n - 1])]
  <2>1. PICK f : Unfolds(f, S, l, Base(t), step)
    BY <1>4
  <2>2. f \in [0 .. l -> S] /\ f[0] = Base(t) /\ \A n \in 1 .. l : f[n] = step[n][f[n - 1]]
    BY <2>1 DEF Unfolds
  <2>3. ASSUME NEW n \in 1 .. l
        PROVE  f[n] = write(n, f[n - 1])
    <3>1. n - 1 \in 0 .. l
      OBVIOUS
    <3>2. f[n - 1] \in S
      BY <2>2, <3>1
    <3> QED BY <2>2, <3>2
  <2>4. f = [n \in 0 .. l |-> f[n]]
    BY <2>2
  <2>5. \A n \in 0 .. l : n = 0 \/ n \in 1 .. l
    BY <1>0
  <2>6. f = [n \in 0 .. l |-> IF n = 0 THEN Base(t) ELSE write(n, f[n - 1])]
    BY <2>2, <2>3, <2>4, <2>5
  <2> QED BY <2>6
<1>6. h = [n \in 0 .. l |-> IF n = 0 THEN Base(t) ELSE write(n, h[n - 1])]
  BY <1>5, Zenon DEF Buffers, write, Base
<1> HIDE DEF h
<1>7. h[0] = Base(t) /\ \A n \in 1 .. l : h[n] = write(n, h[n - 1])
  <2>1. 0 \in 0 .. l /\ \A n \in 1 .. l : n \in 0 .. l /\ n # 0
    BY <1>0
  <2> HIDE DEF l
  <2> QED BY <1>6, <2>1
<1> DEFINE A == {n \in 0 .. l : Written(t, n, h[n])}
<1>8. 0 \in A
  <2>1. t.at .. t.at + 0 - 1 = {}
    BY <1>0
  <2>2. \A i \in Indices : i \notin t.at .. t.at + 0 - 1
    BY <2>1
  <2>3. Written(t, 0, Base(t))
    BY <1>1, <2>1, <2>2 DEF Written
  <2> QED BY <2>3, <1>7, <1>0
<1>9. \A n \in 0 .. l - 1 : n \in A => n + 1 \in A
  <2> SUFFICES ASSUME NEW n \in 0 .. l - 1, Written(t, n, h[n])
               PROVE  Written(t, n + 1, h[n + 1])
    OBVIOUS
  <2>1. n + 1 \in 1 .. l /\ (n + 1) - 1 = n
    OBVIOUS
  <2>2. Written(t, n + 1, write(n + 1, h[n]))
    BY <2>1, WrittenOnce DEF write
  <2> QED BY <2>1, <2>2, <1>7
<1>10. 0 .. l \subseteq A
  <2> HIDE DEF A, l
  <2> QED BY <1>0, <1>8, <1>9, Induction
<1>11. \A n \in 0 .. l : Written(t, n, h[n])
  BY <1>10
<1> QED BY <1>7, <1>11 DEF BufferRun, h, write

-----------------------------------------------------------------------------
(* What the setting says of the records and the buffers.                   *)

\* Every record is of a bucket of the batches' kind, and fully signed.
LEMMA RecordFacts ==
  ASSUME Setting, NEW k \in Commitments
  PROVE  /\ HeaderOf(k.channel) = HeadOf(k) /\ HeadOf(k).kind = BatchKind
         /\ signatures[k] = Required(BatchKind)
         /\ RouteOf(k) \in Routes
<1>1. HeaderOf(k.channel) = HeadOf(k) /\ HeadOf(k).kind = BatchKind
  BY RecordsAreSound DEF Setting, HeaderOf, HeadOf, RecordSound
<1>2. RouteOf(k) = <<HeadOf(k).payee, HeadOf(k).mint>>
  BY <1>1 DEF RouteOf, Gateway
<1>3. RouteOf(k) \in Routes
  BY <1>2 DEF Routes
<1> QED BY <1>1, <1>3 DEF Setting

\* Every record in the buffer a staging transaction leaves fits it, is signed, and fills
\* its place.
Landed(t) == Buffers(t)[Len(t.records)]
FitsBuffer(b) == \A j \in Indices : b.slots[j] # Blank => RecordFits(b, b.slots[j].com)
SignedBuffer(b) ==
    \A j \in Indices : b.slots[j] # Blank =>
       b.slots[j].com \in Commitments /\ b.slots[j].signed \subseteq signatures[b.slots[j].com]

\* The parts of a staging transaction.
LEMMA StagingParts ==
  ASSUME NEW t, TxOK(t), t.type = "staging"
  PROVE  /\ t \in StagingTxs /\ t.s \in Stagings /\ t.at + Len(t.records) <= BatchSize
         /\ t.at \in Nat /\ t.records \in Seq(Commitments) /\ Len(t.records) \in Nat
         /\ t.count \in 0 .. BatchSize /\ t.offset \in Offsets \cup {NoOffset}
         /\ t.claim \in Offsets \cup {NoOffset} /\ t.reset \in BOOLEAN
         /\ DOMAIN t.records = 1 .. Len(t.records)
         /\ \A n \in 1 .. Len(t.records) : t.records[n] \in Commitments
<1>1. t \in StagingTxs /\ t.at + Len(t.records) <= BatchSize
  BY DEF TxOK, OpenTxs, StagingTxs, SettleTxs, CloseTxs
<1>2. t.records \in Seq(Commitments)
  BY <1>1 DEF StagingTxs
<1>3. DOMAIN t.records = 1 .. Len(t.records) /\ Len(t.records) \in Nat
      /\ \A n \in 1 .. Len(t.records) : t.records[n] \in Commitments
  BY <1>2, SeqEntries
<1>4. t.s \in Stagings /\ t.at \in Nat /\ t.count \in 0 .. BatchSize
      /\ t.offset \in Offsets \cup {NoOffset} /\ t.claim \in Offsets \cup {NoOffset}
      /\ t.reset \in BOOLEAN
  BY <1>1, IndexFacts DEF StagingTxs
<1> QED BY <1>1, <1>2, <1>3, <1>4

\* What its records are put into is in order: the buffer there, or an empty one.
LEMMA BaseInOrder ==
  ASSUME AccountsInOrder, NEW t \in StagingTxs, Account(staging[t.s])
  PROVE  /\ BufferFull(Base(t)) /\ FitsBuffer(Base(t)) /\ SignedBuffer(Base(t))
<1>1. t.s \in Stagings
  BY DEF StagingTxs
<1>2. CASE t.reset
  <2>1. 0 \in 0 .. BatchSize
    BY IndexFacts
  <2>2. \A i \in Indices : EmptyBuffer(BatchKind).slots[i] = Blank
    BY <2>1, KindFacts, ClearedFacts
  <2>3. EmptyBuffer(BatchKind).kind = BatchKind /\ EmptyBuffer(BatchKind).route = NoRoute
        /\ EmptyBuffer(BatchKind).staged = {}
    BY DEF EmptyBuffer
  <2> HIDE DEF EmptyBuffer
  <2>4. BufferFull(EmptyBuffer(BatchKind))
    BY <2>2, <2>3 DEF BufferFull, Routes
  <2> QED BY <1>2, <2>2, <2>4 DEF Base, FitsBuffer, SignedBuffer
<1>3. CASE ~t.reset
  <2>1. BufferFull(staging[t.s])
    BY <1>1 DEF AccountsInOrder, BuffersFull
  <2>2. FitsBuffer(staging[t.s])
    BY <1>1 DEF AccountsInOrder, ClearingInv, StagedRecords, FitsBuffer
  <2>3. SignedBuffer(staging[t.s])
    BY <1>1 DEF AccountsInOrder, ClearingInv, VInv, SignedInBuffer, SignedBuffer
  <2> QED BY <1>3, <2>1, <2>2, <2>3 DEF Base
<1> QED BY <1>2, <1>3

\* What Written adds keeps the buffer full and signed.
LEMMA WrittenFull ==
  ASSUME Setting, NEW t, TxOK(t), t.type = "staging", NEW n \in 0 .. Len(t.records), NEW b,
         Written(t, n, b), BufferFull(Base(t)), SignedBuffer(Base(t))
  PROVE  BufferFull(b) /\ SignedBuffer(b)
<1> DEFINE o == Base(t)
<1>0. t.at \in Nat /\ Len(t.records) \in Nat /\ t.at + Len(t.records) <= BatchSize /\ BatchSize \in Nat
      /\ \A m \in 1 .. Len(t.records) : t.records[m] \in Commitments
  BY StagingParts, IndexFacts
<1>1. /\ b.kind = o.kind
      /\ b.staged = o.staged \cup (t.at .. t.at + n - 1)
      /\ \A i \in Indices : b.slots[i] = IF i \in t.at .. t.at + n - 1
                                         THEN RecordOf(t.records[i - t.at + 1]) ELSE o.slots[i]
      /\ b.route = IF n > 0 /\ o.kind = Routed THEN RouteOf(t.records[n]) ELSE o.route
  BY DEF Written
<1>2. /\ o.kind = BatchKind /\ o.route \in Routes
      /\ \A i \in Indices : o.slots[i] # Blank => Required(BatchKind) \subseteq o.slots[i].signed
      /\ \A i \in o.staged : o.slots[i] # Blank
  BY DEF BufferFull
<1>3. \A i \in Indices : o.slots[i] # Blank =>
         o.slots[i].com \in Commitments /\ o.slots[i].signed \subseteq signatures[o.slots[i].com]
  BY DEF SignedBuffer
<1>4. b \in BufferWith(b.route)
  BY DEF Written
<1>5. \A i \in b.staged : i \in Indices
  BY <1>4 DEF BufferWith
<1> HIDE DEF o
<1>6. ASSUME NEW i \in t.at .. t.at + n - 1
      PROVE  t.records[i - t.at + 1] \in Commitments
  <2>1. i - t.at + 1 \in 1 .. Len(t.records)
    BY <1>0
  <2> QED BY <2>1, <1>0
<1>7. ASSUME NEW k \in Commitments
      PROVE  /\ RecordOf(k) # Blank /\ RecordOf(k).com = k /\ RecordOf(k).signed = signatures[k]
             /\ signatures[k] = Required(BatchKind)
  BY <1>7, RecordFacts DEF RecordOf, Blank
<1>8. \A i \in Indices : b.slots[i] # Blank =>
         /\ Required(BatchKind) \subseteq b.slots[i].signed
         /\ b.slots[i].com \in Commitments /\ b.slots[i].signed \subseteq signatures[b.slots[i].com]
  <2> SUFFICES ASSUME NEW i \in Indices, b.slots[i] # Blank
               PROVE  /\ Required(BatchKind) \subseteq b.slots[i].signed
                      /\ b.slots[i].com \in Commitments
                      /\ b.slots[i].signed \subseteq signatures[b.slots[i].com]
    OBVIOUS
  <2>1. CASE i \in t.at .. t.at + n - 1
    <3>1. t.records[i - t.at + 1] \in Commitments
      BY <2>1, <1>6
    <3>2. b.slots[i] = RecordOf(t.records[i - t.at + 1])
      BY <2>1, <1>1
    <3> QED BY <3>1, <3>2, <1>7
  <2>2. CASE i \notin t.at .. t.at + n - 1
    <3>1. b.slots[i] = o.slots[i]
      BY <2>2, <1>1
    <3> QED BY <3>1, <1>2, <1>3
  <2> QED BY <2>1, <2>2
<1>9. \A i \in b.staged : b.slots[i] # Blank
  <2> SUFFICES ASSUME NEW i \in b.staged PROVE b.slots[i] # Blank
    OBVIOUS
  <2>0. i \in Indices
    BY <1>5
  <2>1. CASE i \in t.at .. t.at + n - 1
    <3>1. t.records[i - t.at + 1] \in Commitments
      BY <2>1, <1>6
    <3>2. b.slots[i] = RecordOf(t.records[i - t.at + 1])
      BY <2>0, <2>1, <1>1
    <3> QED BY <3>1, <3>2, <1>7
  <2>2. CASE i \notin t.at .. t.at + n - 1
    <3>1. b.slots[i] = o.slots[i] /\ i \in o.staged
      BY <2>0, <2>2, <1>1
    <3> QED BY <3>1, <1>2
  <2> QED BY <2>1, <2>2
<1>10. b.route \in Routes
  <2>1. CASE n > 0 /\ o.kind = Routed
    <3>1. t.records[n] \in Commitments
      BY <2>1, <1>0
    <3> QED BY <2>1, <3>1, <1>1, RecordFacts
  <2>2. CASE ~(n > 0 /\ o.kind = Routed)
    BY <2>2, <1>1, <1>2
  <2> QED BY <2>1, <2>2
<1>11. b.kind = BatchKind
  BY <1>1, <1>2
<1> QED BY <1>8, <1>9, <1>10, <1>11 DEF BufferFull, SignedBuffer

\* The buffer an accepted staging transaction leaves, before the seal.
LEMMA AcceptedBuffer ==
  ASSUME AccountsInOrder, NEW t, TxOK(t), t.type = "staging", StagingAccepted(t)
  PROVE  /\ BufferRun(t) /\ Written(t, Len(t.records), Landed(t))
         /\ Landed(t) \in BufferWith(Landed(t).route)
         /\ BufferFull(Landed(t)) /\ FitsBuffer(Landed(t)) /\ SignedBuffer(Landed(t))
<1> DEFINE l == Len(t.records)
           h == Buffers(t)
<1>0. t \in StagingTxs /\ l \in Nat /\ t.s \in Stagings /\ t.at + Len(t.records) <= BatchSize
      /\ t.at \in Nat /\ BatchSize \in Nat /\ DOMAIN t.records = 1 .. l
      /\ \A n \in 1 .. l : t.records[n] \in Commitments
  BY StagingParts, IndexFacts
<1>1. Account(staging[t.s]) /\ \A n \in 1 .. l : Accepts(h[n - 1], t.records[n])
  BY <1>0 DEF StagingAccepted
<1>2. VInv
  BY DEF AccountsInOrder, ClearingInv
<1>3. BufferRun(t)
  BY <1>0, <1>1, <1>2, BuffersAre
<1>4. /\ h[0] = Base(t)
      /\ \A n \in 1 .. l : h[n] = WithRecord(h[n - 1], t.at + n - 1, t.records[n],
                                             signatures[t.records[n]])
      /\ \A n \in 0 .. l : Written(t, n, h[n])
  BY <1>3 DEF BufferRun
<1>5. BufferFull(Base(t)) /\ FitsBuffer(Base(t)) /\ SignedBuffer(Base(t))
  BY <1>0, <1>1, BaseInOrder
<1> DEFINE A == {n \in 0 .. l : FitsBuffer(h[n])}
<1> HIDE DEF h
<1>6. 0 \in A
  BY <1>0, <1>4, <1>5
<1>7. \A n \in 0 .. l - 1 : n \in A => n + 1 \in A
  <2> SUFFICES ASSUME NEW n \in 0 .. l - 1, FitsBuffer(h[n])
               PROVE  FitsBuffer(h[n + 1])
    BY <1>0
  <2>1. n + 1 \in 1 .. l /\ (n + 1) - 1 = n /\ n \in 0 .. l
    BY <1>0
  <2>2. PICK i, k, signed, b : /\ i = t.at + (n + 1) - 1 /\ k = t.records[n + 1]
                               /\ signed = signatures[k] /\ b = h[n]
    OBVIOUS
  <2>3. k \in Commitments
    BY <2>1, <2>2, <1>0
  <2>4. i \in Indices
    BY <2>1, <2>2, <1>0 DEF Indices
  <2>5. signed \in SUBSET Signers
    BY <2>2, <2>3, <1>2 DEF VInv, Types
  <2>6. b \in BufferWith(b.route)
    BY <2>1, <2>2, <1>4 DEF Written
  <2>7. Accepts(b, k)
    BY <2>1, <2>2, <1>1
  <2>8. h[n + 1] = WithRecord(b, i, k, signed)
    <3>1. h[n + 1] = WithRecord(h[(n + 1) - 1], t.at + (n + 1) - 1, t.records[n + 1],
                                signatures[t.records[n + 1]])
      BY <2>1, <1>4
    <3> QED BY <3>1, <2>1, <2>2
  <2>9. \A j \in Indices : b.slots[j] # Blank => RecordFits(b, b.slots[j].com)
    BY <2>2 DEF FitsBuffer
  <2> DEFINE w == WithRecord(b, i, k, signed)
  <2>10. \A j \in Indices : w.slots[j] # Blank => RecordFits(w, w.slots[j].com)
    BY ONLY <2>3, <2>4, <2>5, <2>6, <2>7, <2>9, AcceptedFits
  <2> HIDE DEF w
  <2>11. FitsBuffer(w)
    BY <2>10 DEF FitsBuffer
  <2> QED BY <2>8, <2>11 DEF w
<1>8. 0 .. l \subseteq A
  <2> HIDE DEF A, l
  <2> QED BY <1>0, <1>6, <1>7, Induction
<1>9. l \in 0 .. l
  BY <1>0
<1>10. FitsBuffer(h[l]) /\ Written(t, l, h[l])
  BY <1>4, <1>8, <1>9
<1>11. h[l] \in BufferWith(h[l].route)
  BY <1>10 DEF Written
<1>12. Setting
  BY DEF AccountsInOrder
<1>13. BufferFull(h[l]) /\ SignedBuffer(h[l])
  <2>1. l \in 0 .. Len(t.records)
    BY <1>9
  <2> HIDE DEF l
  <2> QED BY <2>1, <1>5, <1>10, <1>12, WrittenFull
<1> QED BY <1>3, <1>10, <1>11, <1>13 DEF Landed, h

-----------------------------------------------------------------------------
(* What a staging transaction does to the accounts when it lands.          *)

Places(t) == t.at .. t.at + Len(t.records) - 1
Queues(t) == t.count > 0
StagingDone(t) ==
    /\ Account(staging[t.s]) /\ Claimable(t.claim)
    /\ \A u \in Stagings \ {t.s} : staging'[u] = staging[u] /\ result'[u] = result[u]
    /\ Account(staging'[t.s]) /\ Account(result'[t.s]) /\ BufferFull(staging'[t.s])
    /\ staging'[t.s].sealed <=> Queues(t)
    /\ staging'[t.s].staged = Base(t).staged \cup Places(t)
    /\ \A i \in Indices : (Queues(t) => i < t.count) =>
          staging'[t.s].slots[i] = IF i \in Places(t) THEN RecordOf(t.records[i - t.at + 1])
                                                      ELSE Base(t).slots[i]
    /\ Queues(t) => 0 .. t.count - 1 \subseteq staging'[t.s].staged
    /\ ~Base(t).sealed
    /\ UNCHANGED <<custodyVars, signatures, outputs, paidFrom>>
ResultDone(t) ==
    /\ Queues(t) =>
         /\ result'[t.s] = QueuedResult(BatchKind, t.count, t.offset, instance + 1)
         /\ instance' = instance + 1 /\ t.offset \in Offsets /\ ~Account(comp[t.offset])
         /\ comp'[t.offset] = QueuedComputation(t.s, BatchKind, instance + 1)
    /\ ~Queues(t) =>
         /\ instance' = instance
         /\ result'[t.s] = (IF t.reset THEN ClearedResult(BatchKind, 0) ELSE result[t.s])
         /\ result'[t.s].offset = 0 /\ ~result'[t.s].verified
    /\ \A o \in Offsets : (Queues(t) /\ o = t.offset)
                          \/ comp'[o] = IF o = t.claim THEN Closed ELSE comp[o]

\* Claiming the rent of a computation closes that account and no other.
LEMMA ClaimedFacts ==
  ASSUME VInv, NEW o \in Offsets \cup {NoOffset}
  PROVE  /\ CompsLeft(Claimed(o))
         /\ \A p \in Offsets : Claimed(o)[p] = IF p = o THEN Closed ELSE comp[p]
<1>1. comp \in [Offsets -> CompSet \cup {Closed}] /\ NoOffset \notin Offsets
  BY IndexFacts DEF VInv, Types, NoOffset
<1>2. CASE o = NoOffset
  BY <1>1, <1>2 DEF Claimed, CompsLeft
<1>3. CASE o \in Offsets
  <2>1. Claimed(o) = [comp EXCEPT ![o] = Closed]
    BY <1>1, <1>3 DEF Claimed
  <2> QED BY <2>1, <1>1, <1>3 DEF CompsLeft
<1> QED BY <1>2, <1>3

\* A seal fills what was not staged with the first record, signatures included.
LEMMA SealedFull ==
  ASSUME NEW b, b \in BufferWith(b.route), BufferFull(b), NEW n, NEW count \in 1 .. BatchSize,
         0 .. count - 1 \subseteq b.staged,
         n.kind = b.kind /\ n.staged = b.staged /\ n.route = b.route,
         \A j \in Indices : n.slots[j] = IF j < count THEN b.slots[j] ELSE b.slots[0]
  PROVE  BufferFull(n)
<1>1. 0 \in b.staged /\ 0 \in Indices /\ b.staged \subseteq Indices
  BY IndexFacts DEF BufferWith
<1>2. \A j \in Indices : n.slots[j] \in {b.slots[j], b.slots[0]}
  OBVIOUS
<1>3. b.slots[0] # Blank /\ Required(BatchKind) \subseteq b.slots[0].signed
  BY <1>1 DEF BufferFull
<1>4. \A j \in Indices : n.slots[j] # Blank => Required(BatchKind) \subseteq n.slots[j].signed
  BY <1>2, <1>3 DEF BufferFull
<1>5. \A j \in n.staged : n.slots[j] # Blank
  BY <1>1, <1>2, <1>3 DEF BufferFull
<1> QED BY <1>4, <1>5 DEF BufferFull

\* A staging transaction that lands keeps the accounts in order.
LEMMA LandedStaging ==
  ASSUME AccountsInOrder, NEW t \in sent, Land(t), t.type = "staging"
  PROVE  ClearingInv' /\ StagingDone(t) /\ ResultDone(t)
<1> DEFINE s == t.s
           l == Len(t.records)
           full == Landed(t)
<1>1. StagingAccepted(t) /\ LandStaging(t)
  BY DEF Land, Accepted
<1>2. TxOK(t) /\ ClearingInv /\ VInv /\ Setting /\ TypeOK
  BY DEF AccountsInOrder, SentOK, ClearingInv, MoneyInOrder
<1>3. /\ t \in StagingTxs /\ s \in Stagings /\ t.at + l <= BatchSize /\ t.at \in Nat /\ l \in Nat
      /\ t.count \in 0 .. BatchSize /\ t.offset \in Offsets \cup {NoOffset}
      /\ t.claim \in Offsets \cup {NoOffset} /\ t.reset \in BOOLEAN
  BY <1>2, StagingParts
<1>4. /\ BufferRun(t) /\ Written(t, l, full) /\ full \in BufferWith(full.route)
      /\ BufferFull(full) /\ FitsBuffer(full) /\ SignedBuffer(full)
  BY <1>1, <1>2, AcceptedBuffer
<1>5. /\ full.sealed = Base(t).sealed
      /\ full.staged = Base(t).staged \cup Places(t)
      /\ \A i \in Indices : full.slots[i] = IF i \in Places(t) THEN RecordOf(t.records[i - t.at + 1])
                                                               ELSE Base(t).slots[i]
  BY <1>4 DEF Written, Places
<1>6. Queues(t) => /\ t.offset \in Offsets /\ t.offset # NoOffset /\ t.count \in 1 .. BatchSize
                   /\ full.kind = BatchKind /\ ~full.sealed /\ 0 .. t.count - 1 \subseteq full.staged
                   /\ ~Account(comp[t.offset]) /\ instance < MaxInstances
  <2> SUFFICES ASSUME Queues(t)
               PROVE  /\ t.offset \in Offsets /\ t.offset # NoOffset /\ t.count \in 1 .. BatchSize
                      /\ full.kind = BatchKind /\ ~full.sealed /\ 0 .. t.count - 1 \subseteq full.staged
                      /\ ~Account(comp[t.offset]) /\ instance < MaxInstances
    OBVIOUS
  <2>1. t.offset \in 1 .. drawn /\ drawn \in 0 .. MaxInstances
    BY <1>2 DEF Queues, TxOK, AccountsInOrder, SentOK
  <2>2. t.offset \in Offsets /\ t.offset # NoOffset
    BY <2>1, OffsetsEnough, BatchesNotEmpty DEF NoOffset
  <2>3. /\ Sealable(full, BatchKind, t.count) /\ ~Account(comp[t.offset]) /\ instance < MaxInstances
    BY <1>1 DEF Queues, StagingAccepted, Landed
  <2> QED BY <2>2, <2>3 DEF Sealable
<1>7. ~Queues(t) => t.records # <<>> /\ l >= 1
  <2>1. ~Queues(t) => t.records # <<>>
    BY <1>2, <1>3, IndexFacts DEF TxOK, Queues
  <2>2. t.records \in Seq(Commitments)
    BY <1>3 DEF StagingTxs
  <2> QED BY <1>3, <2>1, <2>2
<1>8. ~Base(t).sealed
  <2>1. CASE Queues(t)
    BY <2>1, <1>5, <1>6
  <2>2. CASE ~Queues(t)
    <3>1. 1 \in DOMAIN t.records /\ 1 - 1 = 0
      BY <2>2, <1>2, <1>7, StagingParts
    <3>2. Accepts(Buffers(t)[0], t.records[1])
      BY <3>1, <1>1 DEF StagingAccepted
    <3>3. Buffers(t)[0] = Base(t)
      BY <1>4 DEF BufferRun
    <3> QED BY <3>2, <3>3 DEF Accepts
  <2> QED BY <2>1, <2>2
<1>9. ~t.reset => ~staging[s].sealed
  BY <1>8 DEF Base
<1>10. Account(staging[s]) /\ Account(result[s]) /\ Claimable(t.claim)
  BY <1>1, <1>2, <1>3 DEF StagingAccepted, VInv, Paired
<1>11. ~t.reset => result[s].offset = 0 /\ ~result[s].verified
  BY <1>2, <1>3, <1>9, <1>10 DEF VInv, Unbound, Verdicts
<1>12. PICK b, r :
         /\ staging' = [staging EXCEPT ![s] = b] /\ result' = [result EXCEPT ![s] = r]
         /\ b = IF Queues(t) THEN SealedBuffer(full, t.count) ELSE full
         /\ r = IF Queues(t) THEN QueuedResult(BatchKind, t.count, t.offset, instance + 1)
                ELSE IF t.reset THEN ClearedResult(BatchKind, 0) ELSE result[s]
         /\ instance' = (IF Queues(t) THEN instance + 1 ELSE instance)
         /\ comp' = (IF Queues(t)
                     THEN [Claimed(t.claim) EXCEPT
                             ![t.offset] = QueuedComputation(s, BatchKind, instance + 1)]
                     ELSE Claimed(t.claim))
         /\ UNCHANGED <<custodyVars, signatures, outputs, paidFrom>>
  BY <1>1, Zenon DEF LandStaging, Landed, Queues
<1> HIDE DEF full, s
<1>13. CompsLeft(Claimed(t.claim))
       /\ \A p \in Offsets : Claimed(t.claim)[p] = IF p = t.claim THEN Closed ELSE comp[p]
  BY <1>2, <1>3, ClaimedFacts
<1>14. BatchKind \in Kinds /\ 0 \in 0 .. BatchSize /\ instance \in 0 .. MaxInstances
       /\ MaxInstances \in Nat /\ instance + 1 \in Nat
  BY <1>2, KindFacts, IndexFacts, BatchesNotEmpty DEF ClearingInv
<1>15. staging'[s] = b /\ result'[s] = r
       /\ \A u \in Stagings \ {s} : staging'[u] = staging[u] /\ result'[u] = result[u]
  BY <1>2, <1>3, <1>12 DEF VInv, Types
<1>16. CASE Queues(t)
  <2>1. /\ b \in BufferWith(b.route) /\ b.sealed /\ b.kind = full.kind
        /\ b.staged = full.staged /\ b.route = full.route
        /\ \A j \in Indices : b.slots[j] = IF j < t.count THEN full.slots[j] ELSE full.slots[0]
    BY <1>3, <1>4, <1>6, <1>12, <1>14, <1>16, SealedFacts
  <2>2. /\ r \in ResultSet /\ r.kind = BatchKind /\ r.count = t.count /\ ~r.verified
        /\ r.offset = t.offset /\ r.instance = instance + 1
    BY <1>3, <1>4, <1>6, <1>12, <1>14, <1>16, SealedFacts
  <2>3. Account(b) /\ r.bitmap = {} /\ r.applied = {}
        /\ \A j \in Indices : b.slots[j] # Blank => RecordFits(b, b.slots[j].com)
    <3>1. \A j \in Indices : full.slots[j] # Blank => RecordFits(full, full.slots[j].com)
      BY <1>4 DEF FitsBuffer
    <3> QED BY <3>1, <1>4, <1>6, <1>12, <1>14, <1>16, SealedFits
  <2>4. VInv'
    <3>1. \A i \in Indices : full.slots[i] # Blank =>
              /\ full.slots[i].com \in Commitments
              /\ full.slots[i].signed \subseteq signatures[full.slots[i].com]
      BY <1>4 DEF SignedBuffer
    <3>2. PICK left : left = Claimed(t.claim)
      OBVIOUS
    <3>3. /\ staging' = [staging EXCEPT ![s] = SealedBuffer(full, t.count)]
          /\ result' = [result EXCEPT ![s] = QueuedResult(BatchKind, t.count, t.offset, instance + 1)]
          /\ comp' = [left EXCEPT ![t.offset] = QueuedComputation(s, BatchKind, instance + 1)]
          /\ instance' = instance + 1 /\ UNCHANGED <<signatures, outputs>> /\ CompsLeft(left)
      BY <1>12, <1>13, <1>16, <3>2
    <3>4. s \in Stagings
      BY <1>3
    <3> QED BY <3>1, <3>3, <3>4, <1>2, <1>4, <1>6, <1>14, <1>16, QueuedVerdicts
  <2>5. Steady
    BY <1>12 DEF Steady
  <2>6. instance' \in 0 .. MaxInstances
    BY <1>6, <1>12, <1>14, <1>16
  <2>7. ClearingInv'
    <3>1. s \in Stagings
      BY <1>3
    <3> QED BY <2>3, <2>4, <2>5, <2>6, <3>1, <1>2, <1>12, <1>15, BufferWritten
  <2>8. BufferFull(b)
    <3>1. t.count \in 1 .. BatchSize /\ 0 .. t.count - 1 \subseteq full.staged
      BY <1>6, <1>16
    <3> QED BY <2>1, <3>1, <1>4, SealedFull
  <2>9. Account(result'[s])
    BY <1>15, <2>2 DEF ResultSet, Account
  <2>10. StagingDone(t)
    BY <1>5, <1>6, <1>8, <1>10, <1>12, <1>15, <1>16, <2>1, <2>3, <2>8, <2>9 DEF StagingDone, s
  <2>11. comp'[t.offset] = QueuedComputation(s, BatchKind, instance + 1)
         /\ \A o \in Offsets \ {t.offset} : comp'[o] = Claimed(t.claim)[o]
    BY <1>6, <1>12, <1>13, <1>16 DEF CompsLeft
  <2>12. ResultDone(t)
    BY <1>6, <1>12, <1>13, <1>15, <1>16, <2>11 DEF ResultDone, s
  <2> QED BY <2>7, <2>10, <2>12
<1>17. CASE ~Queues(t)
  <2>1. b = full /\ ~b.sealed
    BY <1>5, <1>8, <1>12, <1>17
  <2>2. r = (IF t.reset THEN ClearedResult(BatchKind, 0) ELSE result[s])
    BY <1>12, <1>17
  <2>3. r \in ResultSet /\ r.offset = 0 /\ ~r.verified
    <3>1. CASE t.reset
      <4>1. r = ClearedResult(BatchKind, 0)
        BY <3>1, <2>2
      <4> QED BY <4>1, <1>14, ClearedFacts
    <3>2. CASE ~t.reset
      <4>1. r = result[s] /\ r \in ResultSet
        BY <3>2, <2>2, <1>2, <1>3, <1>10, ClosedFacts DEF VInv, Types, s
      <4> QED BY <4>1, <3>2, <1>11
    <3> QED BY <3>1, <3>2
  <2>4. r = result[s] \/ (r.bitmap = {} /\ r.applied = {})
    BY <2>2 DEF ClearedResult
  <2>5. VInv'
    <3>1. \A i \in Indices : b.slots[i] # Blank =>
              /\ b.slots[i].com \in Commitments
              /\ b.slots[i].signed \subseteq signatures[b.slots[i].com]
      BY <1>4, <2>1 DEF SignedBuffer
    <3>2. CompsLeft(comp') /\ UNCHANGED <<signatures, outputs, instance>>
      BY <1>12, <1>13, <1>17 DEF CompsLeft
    <3>3. s \in Stagings /\ b \in BufferWith(b.route)
      BY <1>3, <1>4, <2>1
    <3> QED BY <3>1, <3>2, <3>3, <2>1, <2>3, <1>2, <1>12, FreshVerdicts
  <2>6. Steady
    BY <1>12 DEF Steady
  <2>7. ClearingInv'
    <3>1. s \in Stagings /\ Account(b)
      BY <1>3, <1>4, <2>1, ClosedFacts
    <3>2. \A j \in Indices : b.slots[j] # Blank => RecordFits(b, b.slots[j].com)
      BY <1>4, <2>1 DEF FitsBuffer
    <3>3. instance' \in 0 .. MaxInstances
      BY <1>12, <1>14, <1>17
    <3>4. /\ staging' = [staging EXCEPT ![s] = b] /\ result'[s] = r
          /\ \A u \in Stagings \ {s} : result'[u] = result[u]
      BY <1>12, <1>15
    <3>5. ClearingInv
      BY <1>2
    <3> QED BY ONLY <2>4, <2>5, <2>6, <3>1, <3>2, <3>3, <3>4, <3>5, BufferWritten
  <2>8. Account(staging'[s]) /\ Account(result'[s])
    BY <1>15, <2>1, <2>3, <1>4, ClosedFacts
  <2>9. StagingDone(t)
    BY <1>4, <1>5, <1>8, <1>10, <1>12, <1>15, <1>17, <2>1, <2>8 DEF StagingDone, s
  <2>10. ResultDone(t)
    BY <1>12, <1>13, <1>15, <1>17, <2>2, <2>3 DEF ResultDone, s
  <2> QED BY <2>7, <2>9, <2>10
<1> QED BY <1>16, <1>17

-----------------------------------------------------------------------------
(* What the other transactions do when they land.                          *)

\* The parts of a transaction, by its type.
LEMMA TxParts ==
  ASSUME NEW t, TxOK(t)
  PROVE  /\ t.s \in Stagings /\ t.s \in used
         /\ t.type \in {"open", "staging", "settle", "close"} /\ t.awaited \in BOOLEAN
         /\ t.type = "open" => t \in OpenTxs
         /\ t.type = "staging" => t \in StagingTxs
         /\ t.type = "settle" => t \in SettleTxs /\ t.order \in Orders
         /\ t.type = "close" => t \in CloseTxs /\ t.claim \in Offsets \cup {NoOffset}
BY DEF TxOK, OpenTxs, StagingTxs, SettleTxs, CloseTxs

OthersSame(s) == \A u \in Stagings \ {s} : staging'[u] = staging[u] /\ result'[u] = result[u]
OpenDone(t) ==
    /\ ~Account(staging[t.s]) /\ OthersSame(t.s)
    /\ staging'[t.s] = EmptyBuffer(BatchKind) /\ result'[t.s] = ClearedResult(BatchKind, 0)
    /\ UNCHANGED <<custodyVars, signatures, arciumVars, paidFrom>>
CloseDone(t) ==
    /\ Account(staging[t.s]) /\ Claimable(t.claim) /\ OthersSame(t.s)
    /\ staging'[t.s] = Closed /\ result'[t.s] = Closed
    /\ \A o \in Offsets : comp'[o] = IF o = t.claim THEN Closed ELSE comp[o]
    /\ UNCHANGED <<custodyVars, signatures, outputs, instance, paidFrom>>
\* The result of s but for its applied bits.
SameVerdict(s) ==
    LET r == result[s] n == result'[s]
    IN  /\ n.open = r.open /\ n.kind = r.kind /\ n.count = r.count /\ n.verified = r.verified
        /\ n.failed = r.failed /\ n.bitmap = r.bitmap /\ n.offset = r.offset
        /\ n.instance = r.instance
SettleDone(t) ==
    /\ SettlementAccepted(t.s, t.order) /\ OthersSame(t.s)
    /\ Account(result[t.s]) /\ result[t.s].verified
    /\ staging' = staging /\ SameVerdict(t.s)
    /\ result'[t.s].applied = result[t.s].applied \cup Range(t.order)
    /\ Range(t.order) \subseteq Unsettled(result[t.s])
    /\ SettleChannels
    /\ UNCHANGED <<opened, identity, signatures, arciumVars>>

\* What the opening of a buffer changes.
LEMMA LandedOpen ==
  ASSUME AccountsInOrder, NEW t \in sent, Land(t), t.type = "open"
  PROVE  ClearingInv' /\ OpenDone(t)
<1>1. OpenStaging(t.s, BatchKind)
  BY DEF Land
<1>2. TxOK(t) /\ ClearingInv /\ VInv
  BY DEF AccountsInOrder, SentOK, ClearingInv
<1>3. t.s \in Stagings /\ BatchKind \in Kinds
  BY <1>2, TxParts, KindFacts
<1>4. VInv'
  BY <1>1, <1>2, <1>3, BufferVerdicts
<1>5. ClearingInv'
  BY <1>1, <1>2, <1>3, <1>4, BufferKeeps
<1>6. OpenDone(t)
  BY <1>1, <1>2, <1>3 DEF OpenStaging, OpenDone, OthersSame, VInv, Types
<1> QED BY <1>5, <1>6

\* What the closing of a buffer changes.
LEMMA LandedClose ==
  ASSUME AccountsInOrder, NEW t \in sent, Land(t), t.type = "close"
  PROVE  ClearingInv' /\ CloseDone(t)
<1>1. LandClose(t) /\ Account(staging[t.s]) /\ Claimable(t.claim)
  BY DEF Land, Accepted
<1>2. TxOK(t) /\ ClearingInv /\ VInv
  BY DEF AccountsInOrder, SentOK, ClearingInv
<1>3. t.s \in Stagings /\ t.claim \in Offsets \cup {NoOffset}
  BY <1>2, TxParts
<1>4. CompsLeft(Claimed(t.claim))
      /\ \A p \in Offsets : Claimed(t.claim)[p] = IF p = t.claim THEN Closed ELSE comp[p]
  BY <1>2, <1>3, ClaimedFacts
<1>5. /\ staging' = [staging EXCEPT ![t.s] = Closed] /\ result' = [result EXCEPT ![t.s] = Closed]
      /\ comp' = Claimed(t.claim) /\ UNCHANGED <<custodyVars, signatures, outputs, instance, paidFrom>>
  BY <1>1 DEF LandClose
<1>6. CompsLeft(comp')
  BY <1>4, <1>5 DEF CompsLeft
<1>7. VInv'
  <2>1. PICK s, b, r : s \in Stagings /\ s = t.s /\ b = Closed /\ r = Closed
    BY <1>3
  <2>2. /\ staging' = [staging EXCEPT ![s] = b] /\ result' = [result EXCEPT ![s] = r]
        /\ UNCHANGED <<signatures, outputs, instance>>
    BY <1>5, <2>1
  <2> QED BY <2>1, <2>2, <1>2, <1>6, FreshVerdicts
<1>8. /\ staging'[t.s] = Closed /\ \A u \in Stagings \ {t.s} : staging'[u] = staging[u]
      /\ result'[t.s] = Closed /\ \A u \in Stagings \ {t.s} : result'[u] = result[u]
  BY <1>2, <1>3, <1>5 DEF VInv, Types
<1>9. ~Account(Closed)
  BY ClosedFacts
<1>10. VerdictBits'
  BY <1>2, <1>8, <1>9 DEF ClearingInv, VerdictBits, Account
<1>11. MoneyInOrder' /\ TypeOK /\ TypeOK' /\ Kept
  BY <1>2, <1>5, MoneyRests DEF ClearingInv
<1>12. StagedRecords'
  <2>1. \A u \in Stagings :
          \/ staging'[u] = staging[u]
          \/ \A i \in Indices : ~(Account(staging'[u]) /\ staging'[u].slots[i] # Blank)
    BY <1>8, <1>9
  <2> QED BY <1>2, <1>11, <2>1, RecordsStay DEF ClearingInv
<1>13. ClearingInv'
  BY <1>2, <1>5, <1>7, <1>10, <1>11, <1>12 DEF ClearingInv
<1>14. CloseDone(t)
  BY <1>1, <1>4, <1>5, <1>8 DEF CloseDone, OthersSame
<1> QED BY <1>13, <1>14

\* What a settlement changes.
LEMMA SettledBySomebody ==
  ASSUME AccountsInOrder, NEW t, t.s \in Stagings, t.order \in Orders, SettleGroups(t.s, t.order)
  PROVE  ClearingInv' /\ SettleDone(t)
<1>1. SettleGroups(t.s, t.order)
  OBVIOUS
<1>2. ClearingInv /\ VInv
  BY DEF AccountsInOrder, ClearingInv
<1>3. t.s \in Stagings /\ t.order \in Orders
  OBVIOUS
<1>4. VInv'
  BY <1>1, <1>2, <1>3, SettleVerdicts
<1>5. ClearingInv' /\ SettleChannels
  BY <1>1, <1>2, <1>3, <1>4, SettleKeeps
<1>6. SettlementAccepted(t.s, t.order) /\ staging' = staging
      /\ UNCHANGED <<opened, identity, signatures, arciumVars>>
      /\ result' = [result EXCEPT ![t.s].applied = @ \cup {t.order[a] : a \in DOMAIN t.order}]
  BY <1>1 DEF SettleGroups
<1>7. Account(result[t.s]) /\ result[t.s].verified /\ result[t.s] \in ResultSet
  <2>1. Account(result[t.s]) /\ result[t.s].verified
    BY <1>2, <1>3, <1>6 DEF SettlementAccepted, VInv, Paired
  <2> QED BY <2>1, <1>2, <1>3, ClosedFacts DEF VInv, Types
<1>8. {t.order[a] : a \in DOMAIN t.order} = Range(t.order)
  BY DEF Range
<1>9. result'[t.s] = [result[t.s] EXCEPT !.applied = @ \cup Range(t.order)]
      /\ \A u \in Stagings \ {t.s} : result'[u] = result[u]
  BY <1>2, <1>3, <1>6, <1>8 DEF VInv, Types
<1>10. SameVerdict(t.s) /\ result'[t.s].applied = result[t.s].applied \cup Range(t.order)
  <2>1. PICK r, n, done : /\ r = result[t.s] /\ n = result'[t.s] /\ done = Range(t.order)
                          /\ n = [r EXCEPT !.applied = @ \cup done] /\ r \in ResultSet
    BY <1>7, <1>9
  <2>2. /\ n.open = r.open /\ n.kind = r.kind /\ n.count = r.count /\ n.verified = r.verified
        /\ n.failed = r.failed /\ n.bitmap = r.bitmap /\ n.offset = r.offset
        /\ n.instance = r.instance /\ n.applied = r.applied \cup done
    BY ONLY <2>1 DEF ResultSet
  <2> QED BY <2>1, <2>2 DEF SameVerdict
<1>11. Range(t.order) \subseteq Unsettled(result[t.s])
  <2>1. PICK n \in 1 .. BatchSize : t.order \in [1 .. n -> Indices]
    BY <1>3 DEF Orders
  <2>2. Len(t.order) = n /\ n \in Nat /\ DOMAIN t.order = 1 .. n
    BY <2>1, BatchesNotEmpty
  <2>3. \A a \in 1 .. n : t.order[a] \in result[t.s].bitmap /\ t.order[a] \notin result[t.s].applied
    BY <1>6, <2>2 DEF SettlementAccepted, Settleable
  <2> QED BY <2>2, <2>3, <1>8 DEF Unsettled
<1>12. OthersSame(t.s)
  BY <1>6, <1>9 DEF OthersSame
<1> QED BY <1>5, <1>6, <1>7, <1>10, <1>11, <1>12 DEF SettleDone

\* A settlement that was sent, and lands.
LEMMA LandedSettle ==
  ASSUME AccountsInOrder, NEW t \in sent, Land(t), t.type = "settle"
  PROVE  ClearingInv' /\ SettleDone(t)
<1>1. SettleGroups(t.s, t.order)
  BY DEF Land
<1>2. TxOK(t)
  BY DEF AccountsInOrder, SentOK
<1>3. t.s \in Stagings /\ t.order \in Orders
  BY <1>2, TxParts
<1> QED BY <1>1, <1>3, SettledBySomebody

\* What a stranger settles changes no more than a settlement that was sent.
LEMMA StrangerDone ==
  ASSUME AccountsInOrder, StrangerSettles
  PROVE  ClearingInv' /\ \E t : t.s \in Stagings /\ SettleDone(t)
<1>1. PICK s \in Stagings, order \in Orders : SettleGroups(s, order)
  BY DEF StrangerSettles, SettleStep
<1>2. PICK t : t = SettleTx(s, order)
  OBVIOUS
<1>3. t.s = s /\ t.order = order
  BY <1>2 DEF SettleTx
<1>4. ClearingInv' /\ SettleDone(t)
  BY <1>1, <1>3, SettledBySomebody
<1> QED BY <1>3, <1>4

-----------------------------------------------------------------------------
(* The accounts stay in order.                                             *)

\* What opens, signs or locks nothing keeps the setting.
LEMMA SettingStays ==
  ASSUME TypeOK, Setting, UNCHANGED <<signatures, opened, identity>>,
         SettleChannels \/ UNCHANGED <<settled, locked>>
  PROVE  Setting'
<1>1. \A c \in Channels : settled'[c] + locked'[c] = settled[c] + locked[c]
  <2>1. CASE SettleChannels
    <3>1. PICK moved \in Movable, paid \in Payouts : Settle(moved, paid)
      BY <2>1 DEF SettleChannels
    <3>2. /\ locked' = [c \in Channels |-> locked[c] - moved[c]]
          /\ settled' = [c \in Channels |-> settled[c] + moved[c]]
      BY <3>1 DEF Settle
    <3>3. \A c \in Channels : settled[c] \in Nat /\ locked[c] \in Nat /\ moved[c] \in Nat
      BY NumbersAreU64 DEF TypeOK, Movable, U64
    <3> QED BY <3>2, <3>3
  <2>2. CASE UNCHANGED <<settled, locked>>
    BY <2>2
  <2> QED BY <2>1, <2>2
<1> QED BY <1>1 DEF Setting, identity, HeaderOf

\* Steps that leave the accounts alone.
LEMMA AccountsRest ==
  ASSUME AccountsInOrder, UNCHANGED vars, SentOK', used \subseteq used', drawn <= drawn',
         faults' = 0 => faults = 0
  PROVE  AccountsInOrder'
<1>1. ClearingInv'
  BY NextClearing DEF AccountsInOrder
<1>2. /\ UNCHANGED <<custodyVars, signatures, staging, result, comp, outputs, instance, paidFrom>>
      /\ UNCHANGED <<opened, identity, settled, locked>>
  BY DEF vars, clearingVars, arciumVars, custodyVars, identity
<1>3. Setting'
  BY <1>2, SettingStays DEF AccountsInOrder, ClearingInv, MoneyInOrder
<1>4. BuffersFull'
  BY <1>2 DEF AccountsInOrder, BuffersFull, BufferFull
<1>5. ResultsMarked'
  BY <1>2 DEF AccountsInOrder, ResultsMarked
<1>6. OffsetsMarked'
  <2>1. \A o \in Offsets : Account(comp'[o]) => o <= drawn'
    <3>1. SUFFICES ASSUME NEW o \in Offsets, Account(comp'[o]) PROVE o <= drawn'
      OBVIOUS
    <3>2. o <= drawn
      BY <1>2, <3>1 DEF AccountsInOrder, OffsetsMarked
    <3>4. o \in Nat
      BY OffsetsEnough, BatchesNotEmpty
    <3>3. drawn \in Nat /\ drawn' \in Nat
      BY BatchesNotEmpty DEF AccountsInOrder, SentOK
    <3> QED BY <3>2, <3>3, <3>4
  <2> QED BY <2>1, <1>2 DEF AccountsInOrder, OffsetsMarked
<1> QED BY <1>1, <1>3, <1>4, <1>5, <1>6 DEF AccountsInOrder

\* A transaction that lands leaves the others as they were sent.
LEMMA SentAfterLand ==
  ASSUME SentOK, NEW t \in sent, Land(t)
  PROVE  SentOK' /\ sent' = sent \ {t} /\ UNCHANGED processVars
         /\ UNCHANGED <<operator, memory, used, drawn, faults>>
BY DEF Land, SentOK, TxOK, processVars, OpenTxs, StagingTxs, SettleTxs, CloseTxs

\* A settlement keeps the accounts in order.
LEMMA SettlingKeepsAccounts ==
  ASSUME AccountsInOrder, NEW t, t.s \in Stagings, ClearingInv', SettleDone(t), SentOK',
         used' = used, drawn' = drawn, faults' = 0 => faults = 0
  PROVE  AccountsInOrder'
<1>1. TypeOK /\ Setting /\ BuffersFull /\ ResultsMarked /\ OffsetsMarked
  BY DEF AccountsInOrder, ClearingInv, MoneyInOrder
<1>2. Setting'
  BY <1>1, SettingStays DEF SettleDone
<1>3. BuffersFull'
  BY <1>1 DEF SettleDone, BuffersFull
<1>4. ResultsMarked'
  BY <1>1 DEF SettleDone, OthersSame, SameVerdict, ResultsMarked, Account
<1>5. OffsetsMarked'
  BY <1>1 DEF SettleDone, arciumVars, OffsetsMarked
<1> QED BY <1>2, <1>3, <1>4, <1>5 DEF AccountsInOrder

\* Whoever settles keeps the accounts in order.
LEMMA StrangerKeepsAccounts ==
  ASSUME AccountsInOrder, StrangerSettles
  PROVE  AccountsInOrder' /\ faults' # 0
<1>1. PICK t : ClearingInv' /\ t.s \in Stagings /\ SettleDone(t)
  BY StrangerDone
<1>2. faults \in Nat /\ SentOK
  BY DEF AccountsInOrder, SentOK
<1>3. faults' = faults + 1 /\ UNCHANGED <<sent, used, drawn>>
  BY DEF StrangerSettles, Fault
<1>4. SentOK'
  BY <1>2, <1>3 DEF SentOK, TxOK, OpenTxs, StagingTxs, SettleTxs, CloseTxs
<1>5. AccountsInOrder'
  BY <1>1, <1>2, <1>3, <1>4, SettlingKeepsAccounts
<1> QED BY <1>2, <1>3, <1>5

\* Whatever lands keeps the accounts in order.
LEMMA LandKeepsAccounts ==
  ASSUME AccountsInOrder, NEW t \in sent, Land(t)
  PROVE  AccountsInOrder'
<1>1. /\ SentOK /\ VInv /\ TypeOK /\ Setting /\ BuffersFull /\ ResultsMarked /\ OffsetsMarked
      /\ TxOK(t)
  BY DEF AccountsInOrder, ClearingInv, MoneyInOrder, SentOK
<1>2. SentOK' /\ used' = used /\ drawn' = drawn /\ faults' = faults
  BY <1>1, SentAfterLand
<1>3. t.s \in Stagings /\ t.s \in used /\ t.type \in {"open", "staging", "settle", "close"}
  BY <1>1, TxParts
<1>4. ~Account(Closed) /\ NoOffset = 0 /\ 0 \notin Offsets
  BY ClosedFacts, IndexFacts DEF NoOffset
<1>5. /\ \A o \in Offsets : Account(comp[o]) => o <= drawn
      /\ \A out \in outputs : /\ out.offset \in Offsets /\ out.instance <= instance
                              /\ out.instance \in Nat
                              /\ Account(comp[out.offset]) /\ comp[out.offset].instance = out.instance
                                   => comp[out.offset].ran
                              /\ faults = 0 => ~out.failure
  BY <1>1 DEF OffsetsMarked, VInv, Types, OutputSet, NoneFromTheFuture
<1>6. instance \in Nat
  BY <1>1 DEF VInv, Types
<1>7. CASE t.type = "open"
  <2>1. ClearingInv' /\ OpenDone(t)
    BY <1>7, LandedOpen
  <2>2. Setting'
    BY <1>1, <2>1, SettingStays DEF OpenDone, custodyVars, identity
  <2>3. BuffersFull'
    <3>1. BufferFull(EmptyBuffer(BatchKind))
      BY DEF BufferFull, EmptyBuffer, Routes
    <3> HIDE DEF EmptyBuffer
    <3> QED BY <1>1, <1>2, <1>3, <2>1, <3>1 DEF OpenDone, OthersSame, BuffersFull
  <2>4. ResultsMarked'
    BY <1>1, <1>2, <2>1 DEF OpenDone, OthersSame, ResultsMarked, ClearedResult
  <2>5. OffsetsMarked'
    BY <1>1, <1>2, <2>1 DEF OpenDone, arciumVars, OffsetsMarked
  <2> QED BY <1>2, <2>1, <2>2, <2>3, <2>4, <2>5 DEF AccountsInOrder
<1>8. CASE t.type = "close"
  <2>1. ClearingInv' /\ CloseDone(t)
    BY <1>8, LandedClose
  <2>2. Setting'
    BY <1>1, <2>1, SettingStays DEF CloseDone, custodyVars, identity
  <2>3. BuffersFull'
    BY <1>1, <1>2, <1>4, <2>1 DEF CloseDone, OthersSame, BuffersFull
  <2>4. ResultsMarked'
    BY <1>1, <1>2, <1>4, <2>1 DEF CloseDone, OthersSame, ResultsMarked
  <2>5. OffsetsMarked'
    <3>1. outputs' = outputs
      BY <2>1 DEF CloseDone
    <3>2. \A o \in Offsets : comp'[o] \in {comp[o], Closed}
      BY <2>1 DEF CloseDone
    <3> QED BY <1>2, <1>4, <1>5, <3>1, <3>2 DEF OffsetsMarked
  <2> QED BY <1>2, <2>1, <2>2, <2>3, <2>4, <2>5 DEF AccountsInOrder
<1>9. CASE t.type = "settle"
  <2>1. ClearingInv' /\ SettleDone(t)
    BY <1>9, LandedSettle
  <2> QED BY <1>2, <1>3, <2>1, SettlingKeepsAccounts
<1>10. CASE t.type = "staging"
  <2>1. ClearingInv' /\ StagingDone(t) /\ ResultDone(t)
    BY <1>10, LandedStaging
  <2>2. Setting'
    BY <1>1, <2>1, SettingStays DEF StagingDone, custodyVars, identity
  <2>3. BuffersFull'
    BY <1>1, <1>2, <1>3, <2>1 DEF StagingDone, BuffersFull
  <2>4. result'[t.s].kind = BatchKind
        /\ (result'[t.s].instance = 0 <=> result'[t.s].offset = 0)
        /\ (faults' = 0 => ~result'[t.s].failed)
    <3>1. CASE Queues(t)
      <4>1. result'[t.s] = QueuedResult(BatchKind, t.count, t.offset, instance + 1)
            /\ t.offset \in Offsets
        BY <3>1, <2>1 DEF ResultDone
      <4>2. /\ result'[t.s].kind = BatchKind /\ result'[t.s].instance = instance + 1
            /\ result'[t.s].offset = t.offset /\ result'[t.s].failed = FALSE
        BY <4>1 DEF QueuedResult, ClearedResult
      <4>3. t.offset # 0 /\ instance + 1 # 0
        BY <4>1, <1>4, <1>6
      <4> QED BY <4>2, <4>3
    <3>2. CASE ~Queues(t) /\ t.reset
      <4>1. result'[t.s] = ClearedResult(BatchKind, 0)
        BY <3>2, <2>1 DEF ResultDone
      <4> QED BY <4>1 DEF ClearedResult
    <3>3. CASE ~Queues(t) /\ ~t.reset
      <4>1. result'[t.s] = result[t.s] /\ Account(result[t.s])
        BY <3>3, <2>1, <1>1, <1>3 DEF ResultDone, StagingDone, VInv, Paired
      <4> QED BY <4>1, <1>1, <1>2, <1>3 DEF ResultsMarked
    <3> QED BY <3>1, <3>2, <3>3
  <2>5. ResultsMarked'
    BY <1>1, <1>2, <2>1, <2>4 DEF StagingDone, ResultsMarked
  <2>6. outputs' = outputs
    BY <2>1 DEF StagingDone
  <2>7. \A o \in Offsets :
          \/ comp'[o] \in {comp[o], Closed}
          \/ /\ Queues(t) /\ o = t.offset
             /\ comp'[o] = QueuedComputation(t.s, BatchKind, instance + 1)
    BY <2>1 DEF ResultDone
  <2>8. Queues(t) => t.offset <= drawn
    BY <1>1, <1>10 DEF Queues, TxOK
  <2>9. \A o \in Offsets : Account(comp'[o]) => o <= drawn
    BY <2>7, <2>8, <1>4, <1>5
  <2>10. \A out \in outputs :
           Account(comp'[out.offset]) /\ comp'[out.offset].instance = out.instance
             => comp'[out.offset].ran
    <3> SUFFICES ASSUME NEW out \in outputs, Account(comp'[out.offset]),
                        comp'[out.offset].instance = out.instance
                 PROVE  comp'[out.offset].ran
      OBVIOUS
    <3>1. CASE comp'[out.offset] = comp[out.offset]
      BY <3>1, <1>5
    <3>2. CASE comp'[out.offset] = QueuedComputation(t.s, BatchKind, instance + 1)
      <4>1. comp'[out.offset].instance = instance + 1
        BY <3>2 DEF QueuedComputation
      <4>2. out.instance = instance + 1
        BY <4>1
      <4>3. out.instance \in Nat /\ out.instance <= instance
        BY <1>5
      <4> QED BY <4>2, <4>3, <1>6
    <3> QED BY <3>1, <3>2, <2>7, <1>4, <1>5
  <2>11. OffsetsMarked'
    BY <1>2, <1>5, <2>6, <2>9, <2>10 DEF OffsetsMarked
  <2> QED BY <1>2, <2>1, <2>2, <2>3, <2>5, <2>11 DEF AccountsInOrder
<1> QED BY <1>3, <1>7, <1>8, <1>9, <1>10

-----------------------------------------------------------------------------
(* What Arcium's steps do to the accounts.                                 *)

RunDone ==
    /\ \A p \in Offsets : /\ Account(comp'[p]) <=> Account(comp[p])
                          /\ comp[p].ran => comp'[p].ran
    /\ UNCHANGED <<custodyVars, signatures, staging, result, instance, paidFrom>>
DeliverDone(out) ==
    LET r == result[out.target] n == result'[out.target]
    IN  /\ out.target \in Stagings /\ Account(r) /\ ~r.verified
        /\ \A u \in Stagings \ {out.target} : result'[u] = result[u]
        /\ n.open = r.open /\ n.kind = r.kind /\ n.count = r.count /\ n.offset = r.offset
        /\ n.instance = r.instance /\ n.applied = r.applied
        /\ r.offset # 0 /\ r.offset = out.offset /\ out.offset \in Offsets
        /\ IF out.failure THEN n.failed /\ n.verified = r.verified /\ n.bitmap = r.bitmap
           ELSE n.failed = r.failed /\ n.verified /\ Account(comp[out.offset])
                /\ comp[out.offset].instance = out.instance
        /\ UNCHANGED <<custodyVars, signatures, staging, comp, outputs, instance, paidFrom>>

\* A computation that runs, or fails, keeps the accounts in order.
LEMMA RunKeepsAccounts ==
  ASSUME AccountsInOrder, Compute \/ FailToCompute
  PROVE  AccountsInOrder' /\ RunDone /\ UNCHANGED <<operator, memory, sent, used, drawn>>
         /\ (faults' = faults \/ faults' = faults + 1)
<1>1. PICK o \in Offsets, fails \in BOOLEAN :
         /\ RunComputation(o, fails) /\ UNCHANGED <<operator, memory, sent, used, drawn>>
         /\ faults' = (IF fails THEN faults + 1 ELSE faults)
  BY DEF Compute, FailToCompute, Fault, relayerVars
<1>2. VInv /\ TypeOK /\ SentOK /\ Setting /\ BuffersFull /\ ResultsMarked /\ OffsetsMarked /\ ClearingInv
  BY DEF AccountsInOrder, ClearingInv, MoneyInOrder
<1>3. ClearingInv'
  <2>1. CNext
    BY <1>1 DEF CNext, ArciumStep
  <2> QED BY <1>2, <2>1, NextClearing
<1>4. /\ Account(comp[o]) /\ ~comp[o].ran /\ comp' = [comp EXCEPT ![o].ran = TRUE]
      /\ outputs' = outputs \cup
           {[offset |-> o, instance |-> comp[o].instance, target |-> comp[o].target,
             kind |-> comp[o].kind, failure |-> fails,
             bits |-> IF fails THEN {} ELSE CircuitBits(comp[o].target, comp[o].kind)]}
      /\ UNCHANGED <<custodyVars, signatures, staging, result, instance, paidFrom>>
  BY <1>1 DEF RunComputation
<1>5. comp \in [Offsets -> CompSet \cup {Closed}]
  BY <1>2 DEF VInv, Types
<1>6. comp[o] \in CompSet
  BY <1>4, <1>5, ClosedFacts
<1>7. PICK c, d : c \in CompSet /\ c = comp[o] /\ d = [c EXCEPT !.ran = TRUE] /\ comp' = [comp EXCEPT ![o] = d]
  BY <1>4, <1>6
<1>8. d.ran /\ d.open = c.open /\ d.instance = c.instance
  BY ONLY <1>7 DEF CompSet
<1>9. /\ comp'[o] = d /\ \A p \in Offsets \ {o} : comp'[p] = comp[p]
  BY <1>5, <1>7
<1>10. \A p \in Offsets : /\ Account(comp'[p]) <=> Account(comp[p])
                          /\ comp[p].ran => comp'[p].ran
                          /\ Account(comp'[p]) => comp'[p].instance = comp[p].instance
  BY <1>7, <1>8, <1>9 DEF Account
<1>11. RunDone
  BY <1>4, <1>10 DEF RunDone
<1>12. faults \in Nat /\ faults' \in Nat /\ (faults' = 0 => faults = 0 /\ ~fails)
  BY <1>1, <1>2 DEF SentOK
<1>13. SentOK'
  <2>1. \A t \in sent : TxOK(t)'
    BY <1>1, <1>2 DEF SentOK, TxOK, OpenTxs, StagingTxs, SettleTxs, CloseTxs
  <2> QED BY <1>1, <1>2, <1>12, <2>1 DEF SentOK
<1>14. Setting' /\ BuffersFull' /\ ResultsMarked'
  <2>1. Setting'
    BY <1>2, <1>4, SettingStays DEF custodyVars, identity
  <2>2. BuffersFull'
    BY <1>1, <1>2, <1>4 DEF BuffersFull
  <2> QED BY <2>1, <2>2, <1>2, <1>4, <1>12 DEF ResultsMarked
<1>15. OffsetsMarked'
  <2>1. \A p \in Offsets : Account(comp'[p]) => p <= drawn'
    BY <1>1, <1>2, <1>10 DEF OffsetsMarked
  <2>2. ASSUME NEW out \in outputs'
        PROVE  /\ Account(comp'[out.offset]) /\ comp'[out.offset].instance = out.instance
                    => comp'[out.offset].ran
               /\ faults' = 0 => ~out.failure
    <3>1. CASE out \in outputs
      <4>1. out.offset \in Offsets
        BY <3>1, <1>2 DEF VInv, Types, OutputSet
      <4> QED BY <3>1, <4>1, <1>2, <1>10, <1>12 DEF OffsetsMarked
    <3>2. CASE out \notin outputs
      <4>1. out.offset = o /\ out.failure = fails
        BY <3>2, <1>4
      <4> QED BY <4>1, <1>8, <1>9, <1>12
    <3> QED BY <3>1, <3>2
  <2> QED BY <2>1, <2>2 DEF OffsetsMarked
<1>16. faults' = faults \/ faults' = faults + 1
  BY <1>1
<1> QED BY <1>1, <1>3, <1>11, <1>13, <1>14, <1>15, <1>16 DEF AccountsInOrder

\* A callback keeps the accounts in order.
LEMMA DeliverKeepsAccounts ==
  ASSUME AccountsInOrder, NEW out \in outputs, Callback(out), UNCHANGED relayerVars
  PROVE  AccountsInOrder' /\ DeliverDone(out)
<1>1. VInv /\ TypeOK /\ SentOK /\ Setting /\ BuffersFull /\ ResultsMarked /\ OffsetsMarked /\ ClearingInv
  BY DEF AccountsInOrder, ClearingInv, MoneyInOrder
<1>2. ClearingInv'
  <2>1. CNext
    BY DEF CNext, ArciumStep
  <2> QED BY <1>1, <2>1, NextClearing
<1>3. out.target \in Stagings /\ out.offset \in Offsets /\ out.failure \in BOOLEAN
  BY <1>1 DEF VInv, Types, OutputSet
<1>4. /\ Account(comp[out.offset]) /\ Account(result[out.target])
      /\ Current(result[out.target], out.offset)
      /\ UNCHANGED <<custodyVars, signatures, staging, comp, outputs, instance, paidFrom>>
  BY DEF Callback, arciumVars
<1>5. UNCHANGED <<operator, memory, sent, used, drawn, faults>>
  BY DEF relayerVars
<1>6. result[out.target] \in ResultSet /\ DOMAIN result = Stagings
  BY <1>1, <1>3, <1>4, ClosedFacts DEF VInv, Types
<1>7. PICK r, n, bits :
         /\ r \in ResultSet
         /\ r = result[out.target] /\ result' = [result EXCEPT ![out.target] = n]
         /\ ~r.verified /\ ~r.failed
         /\ \/ out.failure /\ n = [r EXCEPT !.failed = TRUE]
            \/ /\ ~out.failure /\ OutputVerified(out)
               /\ n = [r EXCEPT !.verified = TRUE, !.bitmap = bits]
  <2>1. CASE out.failure
    <3>1. ~result[out.target].verified /\ ~result[out.target].failed
          /\ result' = [result EXCEPT ![out.target].failed = TRUE]
      BY <2>1 DEF Callback, RecordFailure
    <3> QED BY <2>1, <3>1, <1>6
  <2>2. CASE ~out.failure
    <3>1. /\ OutputVerified(out) /\ ~result[out.target].verified /\ ~result[out.target].failed
      BY <2>2 DEF Callback, RecordBitmap
    <3>2. result' = [result EXCEPT ![out.target] =
              [result[out.target] EXCEPT !.verified = TRUE,
                   !.bitmap = {i \in out.bits : i < result[out.target].count}]]
      BY <2>2 DEF Callback, RecordBitmap
    <3> QED BY <2>2, <3>1, <3>2, <1>6
  <2> QED BY <2>1, <2>2, <1>3
<1>8. /\ n.open = r.open /\ n.kind = r.kind /\ n.count = r.count /\ n.offset = r.offset
      /\ n.instance = r.instance /\ n.applied = r.applied
      /\ IF out.failure THEN n.failed /\ n.verified = r.verified /\ n.bitmap = r.bitmap
         ELSE n.failed = r.failed /\ n.verified
  <2>1. CASE out.failure
    <3>1. n = [r EXCEPT !.failed = TRUE]
      BY <1>7, <2>1
    <3>2. r \in ResultSet
      BY <1>7
    <3> QED BY ONLY <2>1, <3>1, <3>2 DEF ResultSet
  <2>2. CASE ~out.failure
    <3>1. n = [r EXCEPT !.verified = TRUE, !.bitmap = bits]
      BY <1>7, <2>2
    <3>2. r \in ResultSet
      BY <1>7
    <3> QED BY ONLY <2>2, <3>1, <3>2 DEF ResultSet
  <2> QED BY <2>1, <2>2, <1>3
<1>9. result'[out.target] = n /\ \A u \in Stagings \ {out.target} : result'[u] = result[u]
  BY <1>3, <1>6, <1>7
<1>10. DeliverDone(out)
  <2>1. r.offset # 0 /\ r.offset = out.offset
    BY <1>4, <1>7 DEF Current
  <2>2. ~out.failure => comp[out.offset].instance = out.instance
    BY <1>7 DEF OutputVerified
  <2> QED BY <1>3, <1>4, <1>7, <1>8, <1>9, <2>1, <2>2 DEF DeliverDone
<1>11. SentOK'
  <2>1. \A t \in sent : TxOK(t)'
    BY <1>1, <1>5 DEF SentOK, TxOK, OpenTxs, StagingTxs, SettleTxs, CloseTxs
  <2> QED BY <1>1, <1>5, <2>1 DEF SentOK
<1>12. Setting' /\ BuffersFull' /\ OffsetsMarked'
  <2>1. Setting'
    BY <1>1, <1>4, SettingStays DEF custodyVars, identity
  <2>2. BuffersFull'
    BY <1>1, <1>4, <1>5 DEF BuffersFull
  <2> QED BY <2>1, <2>2, <1>1, <1>4, <1>5 DEF OffsetsMarked
<1>13. ResultsMarked'
  <2>1. faults = 0 => ~out.failure
    BY <1>1 DEF OffsetsMarked
  <2>2. /\ r.kind = BatchKind /\ (r.instance = 0 <=> r.offset = 0) /\ (faults = 0 => ~r.failed)
    BY <1>1, <1>3, <1>4, <1>7 DEF ResultsMarked
  <2>3. n.kind = BatchKind /\ (n.instance = 0 <=> n.offset = 0) /\ (faults = 0 => ~n.failed)
    BY <1>8, <2>1, <2>2
  <2> QED BY <1>1, <1>5, <1>9, <2>3 DEF ResultsMarked
<1> QED BY <1>2, <1>10, <1>11, <1>12, <1>13 DEF AccountsInOrder

-----------------------------------------------------------------------------
(* At the start, and a process that dies.                                  *)

\* The accounts are in order at first, and nobody runs.
LEMMA InitAccounts == RInit => AccountsInOrder /\ ProcessOK
<1> SUFFICES ASSUME RInit PROVE AccountsInOrder /\ ProcessOK
  OBVIOUS
<1>1. /\ Funded /\ signatures = [k \in Commitments |-> Required(HeaderOf(k.channel).kind)]
      /\ operator = "idle" /\ memory = Nothing /\ sent = {}
      /\ used = {} /\ drawn = 0 /\ faults = 0
  BY DEF RInit
<1>2. \A k \in Commitments : Required(HeaderOf(k.channel).kind) \in SUBSET Signers
  BY DEF Required, Signers
<1>3. ClearingInv
  BY <1>1, <1>2, InitClearing
<1>4. SentOK
  BY <1>1, BatchesNotEmpty DEF SentOK
<1>5. /\ bucket = Layout /\ payer = Payers /\ opened = (Participants \ Absent) \X Mints
      /\ settled = [c \in Channels |-> 0] /\ locked = Collateral
      /\ staging = [s \in Stagings |-> Closed] /\ result = [s \in Stagings |-> Closed]
      /\ comp = [o \in Offsets |-> Closed] /\ outputs = {}
  BY <1>1 DEF Funded, FundedMoney, NothingStaged
<1>6. \A c \in Channels : Collateral[c] \in Nat
  BY FundsAreInOrder, NumbersAreU64 DEF U64
<1>7. Setting
  BY <1>1, <1>5, <1>6 DEF Setting
<1>8. BuffersFull /\ ResultsMarked /\ OffsetsMarked
  BY <1>5, ClosedFacts DEF BuffersFull, ResultsMarked, OffsetsMarked
<1>9. ProcessOK
  BY <1>1 DEF ProcessOK, GatewayOK, LeftoversOK, NobodyOK, Own
<1> QED BY <1>3, <1>4, <1>7, <1>8, <1>9 DEF AccountsInOrder

\* A transaction whose sender died is still a transaction.
LEMMA OrphansAre ==
  ASSUME NEW t, TxOK(t)
  PROVE  LET n == [t EXCEPT !.awaited = FALSE]
         IN  /\ TxOK(n) /\ ~n.awaited /\ n.s = t.s /\ n.type = t.type
             /\ t.type = "settle" => n.order = t.order
             /\ t.type = "close" => n.claim = t.claim
<1> DEFINE n == [t EXCEPT !.awaited = FALSE]
<1>1. CASE t \in OpenTxs
  <2>1. n \in OpenTxs /\ ~n.awaited /\ n.s = t.s /\ n.type = t.type /\ n.type = "open"
    BY ONLY <1>1 DEF OpenTxs
  <2> HIDE DEF n
  <2> QED BY <2>1 DEF TxOK, n
<1>2. CASE t \in StagingTxs
  <2>1. /\ n \in StagingTxs /\ ~n.awaited /\ n.s = t.s /\ n.type = t.type /\ n.type = "staging"
        /\ n.at = t.at /\ n.records = t.records /\ n.count = t.count /\ n.offset = t.offset
    BY ONLY <1>2 DEF StagingTxs
  <2> HIDE DEF n
  <2> QED BY <2>1 DEF TxOK, n
<1>3. CASE t \in SettleTxs
  <2>1. /\ n \in SettleTxs /\ ~n.awaited /\ n.s = t.s /\ n.type = t.type /\ n.type = "settle"
        /\ n.order = t.order
    BY ONLY <1>3 DEF SettleTxs
  <2> HIDE DEF n
  <2> QED BY <2>1 DEF TxOK, n
<1>4. CASE t \in CloseTxs
  <2>1. /\ n \in CloseTxs /\ ~n.awaited /\ n.s = t.s /\ n.type = t.type /\ n.type = "close"
        /\ n.claim = t.claim
    BY ONLY <1>4 DEF CloseTxs
  <2> HIDE DEF n
  <2> QED BY <2>1 DEF TxOK, n
<1> QED BY <1>1, <1>2, <1>3, <1>4 DEF TxOK

\* A process that dies leaves nobody, and its transactions.
LEMMA DeathIsOrderly ==
  ASSUME AccountsInOrder, UNCHANGED vars, NEW txs \in SUBSET sent, Die(txs),
         faults' \in Nat, faults' = 0 => faults = 0
  PROVE  AccountsInOrder' /\ ProcessOK'
<1>1. /\ operator' = "crashed" /\ memory' = Nothing /\ sent' = Orphaned(txs)
      /\ used' = used /\ drawn' = drawn
  BY DEF Die
<1>2. \A t \in sent : TxOK(t)
  BY DEF AccountsInOrder, SentOK
<1>3. \A n \in sent' : TxOK(n) /\ ~n.awaited
  <2> SUFFICES ASSUME NEW n \in sent' PROVE TxOK(n) /\ ~n.awaited
    OBVIOUS
  <2>1. PICK t \in txs : n = [t EXCEPT !.awaited = FALSE]
    BY <1>1 DEF Orphaned
  <2> QED BY <2>1, <1>2, OrphansAre
<1>4. \A n \in sent' : TxOK(n)'
  BY <1>1, <1>3 DEF TxOK, OpenTxs, StagingTxs, SettleTxs, CloseTxs
<1>5. SentOK'
  BY <1>1, <1>4 DEF AccountsInOrder, SentOK
<1>6. drawn \in Nat /\ drawn <= drawn'
  BY <1>1, BatchesNotEmpty DEF AccountsInOrder, SentOK
<1>7. AccountsInOrder'
  BY <1>1, <1>5, <1>6, AccountsRest
<1>8. Own' = {}
  BY <1>3 DEF Own
<1>9. ProcessOK'
  BY <1>1, <1>8 DEF ProcessOK, GatewayOK, LeftoversOK, NobodyOK
<1> QED BY <1>7, <1>9

-----------------------------------------------------------------------------
(* Steps that are not the process's own.                                   *)

\* The buffer s belongs to the running gateway.
Mine(s) ==
    \/ memory.step \in {"next", "stage", "await", "settle"} /\ s = memory.s
    \/ memory.step = "close" /\ \E t \in Own : t.s = s
OwnSame ==
    operator = "gateway" =>
       \A s \in Stagings : Mine(s) =>
          /\ staging'[s] = staging[s]
          /\ \/ result'[s] = result[s]
             \/ faults' # 0 /\ SameVerdict(s) /\ result[s].applied \subseteq result'[s].applied

\* No watermark goes back, and no fault is forgotten.
Onward ==
    /\ faults' = 0 => faults = 0
    /\ \A c \in Channels : settled[c] \in Nat /\ settled'[c] \in Nat /\ settled[c] <= settled'[c]

\* What is left to apply of the batch seen in s gets no more.
Quiet(s, seen) ==
    Account(result'[s]) /\ result'[s].instance = seen =>
       \/ seen = 0 /\ Unsettled(result'[s]) = {}
       \/ /\ Account(result[s]) /\ result[s].instance = seen
          /\ result[s].verified => result'[s].verified
          /\ Unsettled(result'[s]) \subseteq Unsettled(result[s])
SeenQuiet == operator = "leftovers" /\ (AtVisit \/ AtLeftSettle) => Quiet(memory.s, memory.seen)

\* What is left to settle of a buffer that is not touched stays within what it was.
LEMMA RemainsStays ==
  ASSUME NEW indices, NEW more, indices \subseteq more, Remains(indices), memory.s \in Stagings,
         memory' = memory, Quiet(memory.s, memory.seen)
  PROVE  Remains(more)'
<1> SUFFICES ASSUME Account(result'[memory.s]), result'[memory.s].instance = memory.seen
             PROVE  /\ memory.seen # 0 => result'[memory.s].verified
                    /\ Unsettled(result'[memory.s]) \subseteq more
  BY DEF Remains, Unsettled
<1>1. CASE memory.seen = 0 /\ Unsettled(result'[memory.s]) = {}
  BY <1>1
<1>2. CASE /\ Account(result[memory.s]) /\ result[memory.s].instance = memory.seen
           /\ result[memory.s].verified => result'[memory.s].verified
           /\ Unsettled(result'[memory.s]) \subseteq Unsettled(result[memory.s])
  BY <1>2 DEF Remains
<1> QED BY <1>1, <1>2 DEF Quiet

\* A settlement takes no watermark back.
LEMMA SettledGrows ==
  ASSUME AccountsInOrder, settled' = settled \/ SettleChannels
  PROVE  \A c \in Channels : settled[c] \in Nat /\ settled'[c] \in Nat /\ settled'[c] >= settled[c]
<1>1. TypeOK /\ settled \in [Channels -> U64]
  BY DEF AccountsInOrder, ClearingInv, MoneyInOrder, TypeOK
<1>2. CASE settled' = settled
  BY <1>1, <1>2, NumbersAreU64 DEF U64
<1>3. CASE SettleChannels
  <2>1. PICK moved \in Movable, paid \in Payouts : Settle(moved, paid)
    BY <1>3 DEF SettleChannels
  <2>2. settled' = [c \in Channels |-> settled[c] + moved[c]]
    BY <2>1 DEF Settle
  <2>3. \A c \in Channels : settled[c] \in Nat /\ moved[c] \in Nat
    BY <1>1, NumbersAreU64 DEF TypeOK, Movable, U64
  <2> QED BY <2>2, <2>3
<1> QED BY <1>2, <1>3

\* A step that settles, or leaves the watermarks, goes onward.
LEMMA GoesOnward ==
  ASSUME AccountsInOrder, settled' = settled \/ SettleChannels, faults' = 0 => faults = 0
  PROVE  Onward
<1>1. \A c \in Channels : settled[c] \in Nat /\ settled'[c] \in Nat /\ settled'[c] >= settled[c]
  BY SettledGrows
<1> QED BY <1>1 DEF Onward

\* What is paid stays paid.
LEMMA PaidStays ==
  ASSUME Onward, NEW k \in Commitments, ~Owed(k)
  PROVE  ~(k.target > settled'[k.channel])
<1>1. k.channel \in Channels /\ k.target \in Nat
  BY CommitmentFacts, NumbersAreU64 DEF U64
<1> QED BY <1>1 DEF Onward, Owed

\* A buffer that is paid up stays so while nothing but applied bits change.
LEMMA PaidUpStays ==
  ASSUME Onward, NEW s, PaidUp(s), staging'[s] = staging[s], result'[s].bitmap = result[s].bitmap,
         result[s].applied \subseteq result'[s].applied
  PROVE  PaidUp(s)'
<1> SUFFICES ASSUME NEW i \in result'[s].bitmap \ result'[s].applied
             PROVE  /\ staging[s].slots[i].com \in Commitments
                    /\ ~Owed(staging[s].slots[i].com)'
  BY DEF PaidUp, Owed
<1>1. PICK k : k = staging[s].slots[i].com
  OBVIOUS
<1>2. k \in Commitments /\ ~Owed(k)
  BY <1>1 DEF PaidUp
<1>3. ~(k.target > settled'[k.channel])
  BY <1>2, PaidStays
<1> QED BY <1>1, <1>2, <1>3 DEF Owed

\* A process that sees none of a change is where it was.
LEMMA ProcessSame ==
  ASSUME ProcessOK, UNCHANGED <<operator, memory, used>>, sent' \subseteq sent, Own' = Own,
         instance \in Nat, instance' \in Nat, instance <= instance', OwnSame, SeenQuiet, Onward
  PROVE  ProcessOK'
<1>0. faults' = 0 => faults = 0
  BY DEF Onward
<1>1. \A s : OwnBuffer(s) => OwnBuffer(s)'
  BY DEF OwnBuffer
<1>2. ASSUME operator = "gateway", AtStart \/ AtNext \/ AtStage \/ AtAwait \/ AtSettle \/ AtClose
      PROVE  (AtStart \/ AtNext \/ AtStage \/ AtAwait \/ AtSettle \/ AtClose)'
  <2>1. ASSUME memory.step \in {"next", "stage", "await", "settle"}, memory.s \in Stagings
        PROVE  /\ staging'[memory.s] = staging[memory.s]
               /\ result'[memory.s] = result[memory.s] \/ (faults' # 0 /\ SameVerdict(memory.s))
    <3>1. Mine(memory.s)
      BY <2>1 DEF Mine
    <3> QED BY <1>2, <2>1, <3>1 DEF OwnSame
  <2>2. CASE AtStart
    BY <2>2 DEF AtStart
  <2>3. CASE AtNext
    <3>1. memory.step = "next" /\ memory.s \in Stagings
      BY <2>3 DEF AtNext, NextMemory
    <3>2. AtNext'
      BY <1>1, <2>1, <2>3, <3>1 DEF AtNext, Over, HoldsOnly, SameVerdict
    <3> QED BY <3>2
  <2>4. CASE AtStage
    <3>1. memory.step = "stage" /\ memory.s \in Stagings
      BY <2>4 DEF AtStage, StageMemory
    <3>2. staging'[memory.s] = staging[memory.s]
      BY <2>1, <3>1
    <3>3. \A txs, records : Underway(txs, memory.s, records) => Underway(txs, memory.s, records)'
      BY <3>2 DEF Underway
    <3>4. AtStage'
      <4>1. PICK txs, records : txs = memory.plan \cup Own \cup {memory.seal} /\ records = ThisBatch
        OBVIOUS
      <4>2. Underway(txs, memory.s, records)'
        BY <2>4, <3>3, <4>1 DEF AtStage
      <4>3. Underway(memory.plan \cup Own \cup {memory.seal}, memory.s, ThisBatch)'
        BY <4>1, <4>2 DEF ThisBatch, Underway
      <4> QED BY <1>1, <2>4, <4>3 DEF AtStage, ThisBatch
    <3> QED BY <3>4
  <2>5. CASE AtAwait
    <3>1. memory.step = "await" /\ memory.s \in Stagings
      BY <2>5 DEF AtAwait, AwaitMemory
    <3>2. /\ staging'[memory.s] = staging[memory.s]
          /\ result'[memory.s] = result[memory.s] \/ (faults' # 0 /\ SameVerdict(memory.s))
      BY <2>1, <3>1
    <3>3. SealWaits => SealWaits'
      BY <3>2 DEF SealWaits, Underway, ThisBatch
    <3>4. SealedBatch(memory.s, ThisBatch, memory.last)
             => SealedBatch(memory.s, ThisBatch, memory.last)'
      BY <3>2 DEF SealedBatch, SameVerdict, ThisBatch
    <3>6. (faults = 0 => result[memory.s].applied = {})
             => (faults' = 0 => result'[memory.s].applied = {})
      BY <1>0, <3>2
    <3>5. AtAwait'
      BY <1>1, <2>5, <3>3, <3>4, <3>6 DEF AtAwait
    <3> QED BY <3>5
  <2>6. CASE AtSettle
    <3>1. memory.step = "settle" /\ memory.s \in Stagings
      BY <2>6 DEF AtSettle, SettleMemory
    <3>2. /\ staging'[memory.s] = staging[memory.s]
          /\ result'[memory.s] = result[memory.s] \/ (faults' # 0 /\ SameVerdict(memory.s))
      BY <2>1, <3>1
    <3>3. SealedBatch(memory.s, ThisBatch, memory.last)
             => SealedBatch(memory.s, ThisBatch, memory.last)'
      BY <3>2 DEF SealedBatch, SameVerdict, ThisBatch
    <3>5. /\ result'[memory.s].verified = result[memory.s].verified
          /\ result'[memory.s].bitmap = result[memory.s].bitmap
      BY <3>2 DEF SameVerdict
    <3>6. faults' = 0 => faults = 0 /\ result'[memory.s] = result[memory.s]
      BY <1>0, <3>2
    <3>7. PICK o \in Orders \cup {<<>>} :
            /\ SettleWaits(memory.s, o)
            /\ Once(o) /\ Range(o) \cap Range(memory.todo) = {}
            /\ Range(o) \cup Range(memory.todo) \subseteq result[memory.s].bitmap
            /\ faults = 0 => Unsettled(result[memory.s]) = Range(o) \cup Range(memory.todo)
      BY <2>6 DEF AtSettle
    <3>8. SettleWaits(memory.s, o)'
      BY <3>7 DEF SettleWaits
    <3>9. faults' = 0 => Unsettled(result'[memory.s]) = Range(o) \cup Range(memory.todo)
      BY <3>6, <3>7
    <3>4. AtSettle'
      <4>1. \E w \in Orders \cup {<<>>} :
              /\ SettleWaits(memory.s, w)'
              /\ Once(w) /\ Range(w) \cap Range(memory.todo) = {}
              /\ Range(w) \cup Range(memory.todo) \subseteq result'[memory.s].bitmap
              /\ faults' = 0 => Unsettled(result'[memory.s]) = Range(w) \cup Range(memory.todo)
        BY <3>5, <3>7, <3>8, <3>9
      <4> QED BY <1>1, <2>6, <3>3, <3>5, <4>1 DEF AtSettle, ThisBatch, Unsettled
    <3> QED BY <3>4
  <2>7. CASE AtClose
    <3>1. memory.step = "close"
      BY <2>7 DEF AtClose, CloseMemory
    <3>2. \A t \in Own : t.s \in Stagings
      BY <2>7 DEF AtClose, CloseTxs
    <3>3. \A t \in Own :
            /\ staging'[t.s] = staging[t.s] /\ result[t.s].applied \subseteq result'[t.s].applied
            /\ result'[t.s] = result[t.s] \/ SameVerdict(t.s)
      BY <1>2, <3>1, <3>2 DEF OwnSame, Mine
    <3>5. \A t \in Own :
            /\ result'[t.s].bitmap = result[t.s].bitmap
            /\ Account(result'[t.s]) => Account(result[t.s])
            /\ Over(result[t.s]) => Over(result'[t.s])
      BY <3>3 DEF SameVerdict, Over, Account
    <3>6. \A t \in Own : PaidUp(t.s) => PaidUp(t.s)'
      BY <3>3, <3>5, PaidUpStays
    <3>7. \A t \in Own' :
            /\ t \in CloseTxs
            /\ \A u \in sent' : u.s = t.s => u = t
            /\ Account(result'[t.s]) => Over(result'[t.s]) /\ PaidUp(t.s)'
      BY <2>7, <3>5, <3>6 DEF AtClose
    <3>4. AtClose'
      BY <2>7, <3>7 DEF AtClose, Over
    <3> QED BY <3>4
  <2> QED BY <1>2, <2>2, <2>3, <2>4, <2>5, <2>6, <2>7
<1>3. GatewayOK'
  BY <1>2 DEF ProcessOK, GatewayOK
<1>4. LeftoversOK'
  <2> SUFFICES ASSUME operator = "leftovers"
               PROVE  /\ memory.left \subseteq used
                      /\ (memory \in FirstVisit /\ Own = {}) \/ AtVisit' \/ AtLeftSettle'
    BY DEF LeftoversOK
  <2>1. memory.left \subseteq used
    BY DEF ProcessOK, LeftoversOK
  <2>2. CASE AtVisit
    <3>1. memory.s \in Stagings
      BY <2>2 DEF AtVisit, VisitMemory
    <3>2. Remains({})'
      BY <2>2, <3>1, RemainsStays DEF AtVisit, SeenQuiet
    <3>3. memory.seen \in Nat /\ memory.seen <= instance
      BY <2>2 DEF AtVisit, VisitMemory
    <3>4. memory.seen <= instance'
      BY <3>3
    <3> QED BY <2>1, <2>2, <3>2, <3>4 DEF AtVisit
  <2>3. CASE AtLeftSettle
    <3>1. memory.s \in Stagings
      BY <2>3 DEF AtLeftSettle, VisitMemory
    <3>2. PICK o \in Orders \cup {<<>>} :
             SettleWaits(memory.s, o) /\ Remains(Range(o) \cup Range(memory.todo))
      BY <2>3 DEF AtLeftSettle
    <3>3. PICK indices : indices = Range(o) \cup Range(memory.todo)
      OBVIOUS
    <3>4. Remains(indices)'
      BY <2>3, <3>1, <3>2, <3>3, RemainsStays DEF SeenQuiet
    <3>5. Remains(Range(o) \cup Range(memory.todo))'
      BY <3>3, <3>4 DEF Remains
    <3>6. memory.seen \in Nat /\ memory.seen <= instance
      BY <2>3 DEF AtLeftSettle, VisitMemory
    <3>7. memory.seen <= instance'
      BY <3>6
    <3> QED BY <2>1, <2>3, <3>2, <3>5, <3>7 DEF AtLeftSettle, SettleWaits
  <2>4. CASE memory \in FirstVisit /\ Own = {}
    BY <2>1, <2>4
  <2> QED BY <2>2, <2>3, <2>4 DEF ProcessOK, LeftoversOK
<1>5. NobodyOK'
  BY DEF ProcessOK, NobodyOK
<1> QED BY <1>3, <1>4, <1>5 DEF ProcessOK

\* A transaction that lands touches its own buffer, where what is left to apply of a
\* batch gets no more.
LEMMA LandEffect ==
  ASSUME AccountsInOrder, NEW t \in sent, Land(t)
  PROVE  /\ OthersSame(t.s) /\ instance \in Nat /\ instance' \in Nat /\ instance <= instance'
         /\ \A s \in Stagings, seen \in 0 .. instance : Quiet(s, seen)
<1>1. TxOK(t) /\ VInv /\ ClearingInv /\ instance \in Nat
  BY DEF AccountsInOrder, ClearingInv, SentOK, VInv, Types
<1>2. t.s \in Stagings /\ t.type \in {"open", "staging", "settle", "close"}
  BY <1>1, TxParts
<1>3. ASSUME OthersSame(t.s), \A seen \in 0 .. instance : Quiet(t.s, seen)
      PROVE  \A s \in Stagings, seen \in 0 .. instance : Quiet(s, seen)
  <2> SUFFICES ASSUME NEW s \in Stagings, NEW seen \in 0 .. instance, s # t.s
               PROVE  Quiet(s, seen)
    BY <1>3
  <2>1. result'[s] = result[s]
    BY <1>3 DEF OthersSame
  <2> QED BY <2>1 DEF Quiet
<1>4. CASE t.type = "open"
  <2>1. OpenDone(t)
    BY <1>4, LandedOpen
  <2>2. result'[t.s].instance = 0 /\ Unsettled(result'[t.s]) = {}
    BY <2>1 DEF OpenDone, ClearedResult, Unsettled
  <2>3. \A seen \in 0 .. instance : Quiet(t.s, seen)
    BY <2>2 DEF Quiet
  <2>4. instance' = instance
    BY <2>1 DEF OpenDone, arciumVars
  <2> QED BY <1>1, <1>3, <2>1, <2>3, <2>4 DEF OpenDone
<1>5. CASE t.type = "close"
  <2>1. CloseDone(t)
    BY <1>5, LandedClose
  <2>2. ~Account(result'[t.s])
    BY <2>1, ClosedFacts DEF CloseDone
  <2>3. \A seen \in 0 .. instance : Quiet(t.s, seen)
    BY <2>2 DEF Quiet
  <2> QED BY <1>1, <1>3, <2>1, <2>3 DEF CloseDone
<1>6. CASE t.type = "settle"
  <2>1. SettleDone(t)
    BY <1>6, LandedSettle
  <2>2. /\ Account(result[t.s]) /\ result'[t.s].instance = result[t.s].instance
        /\ result'[t.s].verified = result[t.s].verified
        /\ Unsettled(result'[t.s]) \subseteq Unsettled(result[t.s])
    BY <2>1 DEF SettleDone, SameVerdict, Unsettled
  <2>3. \A seen \in 0 .. instance : Quiet(t.s, seen)
    BY <2>2 DEF Quiet
  <2>4. instance' = instance
    BY <2>1 DEF SettleDone, arciumVars
  <2> QED BY <1>1, <1>3, <2>1, <2>3, <2>4 DEF SettleDone
<1>7. CASE t.type = "staging"
  <2>1. StagingDone(t) /\ ResultDone(t)
    BY <1>7, LandedStaging
  <2>2. OthersSame(t.s)
    BY <2>1 DEF StagingDone, OthersSame
  <2>3. CASE Queues(t)
    <3>1. result'[t.s].instance = instance + 1 /\ instance' = instance + 1
      BY <2>1, <2>3 DEF ResultDone, QueuedResult, ClearedResult
    <3>2. \A seen \in 0 .. instance : seen # instance + 1
      BY <1>1
    <3>3. \A seen \in 0 .. instance : Quiet(t.s, seen)
      BY <3>1, <3>2 DEF Quiet
    <3> QED BY <1>1, <1>3, <2>2, <3>1, <3>3
  <2>4. CASE ~Queues(t)
    <3>1. instance' = instance
          /\ result'[t.s] = (IF t.reset THEN ClearedResult(BatchKind, 0) ELSE result[t.s])
      BY <2>1, <2>4 DEF ResultDone
    <3>2. CASE t.reset
      <4>1. result'[t.s].instance = 0 /\ Unsettled(result'[t.s]) = {}
        BY <3>1, <3>2 DEF ClearedResult, Unsettled
      <4>2. \A seen \in 0 .. instance : Quiet(t.s, seen)
        BY <4>1 DEF Quiet
      <4> QED BY <1>1, <1>3, <2>2, <3>1, <4>2
    <3>3. CASE ~t.reset
      <4>1. \A seen \in 0 .. instance : Quiet(t.s, seen)
        BY <3>1, <3>3 DEF Quiet
      <4> QED BY <1>1, <1>3, <2>2, <3>1, <4>1
    <3> QED BY <3>2, <3>3
  <2> QED BY <2>3, <2>4
<1> QED BY <1>2, <1>4, <1>5, <1>6, <1>7

\* What lands takes no watermark back.
LEMMA LandOnward ==
  ASSUME AccountsInOrder, NEW t \in sent, Land(t)
  PROVE  Onward
<1>1. t.type \in {"open", "staging", "settle", "close"}
  BY TxParts DEF AccountsInOrder, SentOK
<1>2. settled' = settled \/ SettleChannels
  BY <1>1, LandedOpen, LandedStaging, LandedSettle, LandedClose
     DEF OpenDone, StagingDone, SettleDone, CloseDone, custodyVars
<1>3. faults' = faults
  BY SentAfterLand DEF AccountsInOrder
<1> QED BY <1>2, <1>3, GoesOnward

\* What the leftovers script saw is of the past.
LEMMA SeenInPast ==
  ASSUME AtVisit \/ AtLeftSettle
  PROVE  memory.s \in Stagings /\ memory.seen \in Nat /\ memory.seen <= instance
         /\ \E indices : Remains(indices)
BY DEF AtVisit, AtLeftSettle, VisitMemory

\* Own transactions are of the process's own buffer.
LEMMA ForeignElsewhere ==
  ASSUME ProcessOK, operator = "gateway", NEW t \in sent, ~t.awaited, NEW s, Mine(s)
  PROVE  t.s # s
<1>1. AtStart \/ AtNext \/ AtStage \/ AtAwait \/ AtSettle \/ AtClose
  BY DEF ProcessOK, GatewayOK
<1>2. CASE AtStart
  BY <1>2 DEF AtStart, StartMemory, Mine
<1>3. CASE AtNext
  BY <1>3 DEF AtNext, NextMemory, Mine, OwnBuffer
<1>4. CASE AtStage
  BY <1>4 DEF AtStage, StageMemory, Mine, OwnBuffer
<1>5. CASE AtAwait
  BY <1>5 DEF AtAwait, AwaitMemory, Mine, OwnBuffer
<1>6. CASE AtSettle
  BY <1>6 DEF AtSettle, SettleMemory, Mine, OwnBuffer
<1>7. CASE AtClose
  BY <1>7 DEF AtClose, CloseMemory, Mine, Own
<1> QED BY <1>1, <1>2, <1>3, <1>4, <1>5, <1>6, <1>7

\* What a crashed process sent lands without moving the running one.
LEMMA ForeignLand ==
  ASSUME AccountsInOrder, ProcessOK, NEW t \in sent, ~t.awaited, Land(t)
  PROVE  ProcessOK'
<1>1. sent' = sent \ {t} /\ UNCHANGED <<operator, memory, used, drawn, faults>>
  BY DEF Land, processVars
<1>2. Own' = Own
  BY <1>1 DEF Own
<1>3. /\ OthersSame(t.s) /\ instance \in Nat /\ instance' \in Nat /\ instance <= instance'
      /\ \A s \in Stagings, seen \in 0 .. instance : Quiet(s, seen)
  BY LandEffect
<1>4. OwnSame
  BY <1>3, ForeignElsewhere DEF OwnSame, OthersSame
<1>5. SeenQuiet
  BY <1>3, SeenInPast DEF SeenQuiet
<1>6. Onward
  BY <1>1, LandOnward
<1>7. sent' \subseteq sent
  BY <1>1
<1> QED BY <1>1, <1>2, <1>3, <1>4, <1>5, <1>6, <1>7, ProcessSame

\* What a stranger settles does not move the running process.
LEMMA StrangerProcess ==
  ASSUME AccountsInOrder, ProcessOK, StrangerSettles
  PROVE  ProcessOK'
<1>1. PICK t : t.s \in Stagings /\ SettleDone(t)
  BY StrangerDone
<1>2. UNCHANGED <<operator, memory, sent, used>>
  BY DEF StrangerSettles
<1>3. Own' = Own
  BY <1>2 DEF Own
<1>4. faults' # 0
  BY StrangerKeepsAccounts
<1>5. instance \in Nat /\ instance' = instance
  BY <1>1 DEF AccountsInOrder, ClearingInv, VInv, Types, SettleDone, arciumVars
<1>6. /\ staging' = staging /\ OthersSame(t.s) /\ SameVerdict(t.s)
      /\ result'[t.s].applied = result[t.s].applied \cup Range(t.order)
      /\ Account(result[t.s])
  BY <1>1 DEF SettleDone
<1>7. \A s \in Stagings : \/ result'[s] = result[s]
                         \/ /\ SameVerdict(s) /\ Account(result[s])
                            /\ result[s].applied \subseteq result'[s].applied
  BY <1>6 DEF OthersSame
<1>8. OwnSame
  BY <1>4, <1>6, <1>7 DEF OwnSame
<1>9. SeenQuiet
  <2>1. \A s \in Stagings : \A seen : Quiet(s, seen)
    BY <1>7 DEF Quiet, SameVerdict, Unsettled
  <2> QED BY <2>1, SeenInPast DEF SeenQuiet
<1>10. Onward
  BY <1>1, <1>4, GoesOnward DEF SettleDone
<1> QED BY <1>2, <1>3, <1>5, <1>8, <1>9, <1>10, ProcessSame

\* A computation that runs does not move the process.
LEMMA RunProcess ==
  ASSUME AccountsInOrder, ProcessOK, RunDone, UNCHANGED <<operator, memory, sent, used>>,
         instance \in Nat, faults' = 0 => faults = 0
  PROVE  ProcessOK'
<1>1. staging' = staging /\ result' = result /\ instance' = instance
  BY DEF RunDone
<1>2. Own' = Own
  BY DEF Own
<1>3. OwnSame /\ SeenQuiet
  <2>1. OwnSame
    BY <1>1 DEF OwnSame
  <2>2. SeenQuiet
    BY <1>1 DEF SeenQuiet, Quiet
  <2> QED BY <2>1, <2>2
<1>4. sent' \subseteq sent
  OBVIOUS
<1>5. Onward
  <2>1. settled' = settled
    BY DEF RunDone, custodyVars
  <2> QED BY <2>1, GoesOnward
<1> QED BY <1>1, <1>2, <1>3, <1>4, <1>5, ProcessSame

\* A verdict that comes in is of a batch still awaited.
LEMMA DeliverProcess ==
  ASSUME AccountsInOrder, ProcessOK, NEW out \in outputs, DeliverDone(out),
         UNCHANGED <<operator, memory, sent, used>>, faults' = 0 => faults = 0
  PROVE  ProcessOK'
<1>0. Onward
  <2>1. settled' = settled
    BY DEF DeliverDone, custodyVars
  <2> QED BY <2>1, GoesOnward
<1> DEFINE s == out.target
<1>1. /\ s \in Stagings /\ Account(result[s]) /\ ~result[s].verified
      /\ \A u \in Stagings \ {s} : result'[u] = result[u]
      /\ result'[s].open = result[s].open /\ result'[s].count = result[s].count
      /\ result'[s].offset = result[s].offset /\ result'[s].instance = result[s].instance
      /\ result[s].offset # 0 /\ staging' = staging /\ instance' = instance
  BY DEF DeliverDone
<1>2. result[s].instance # 0 /\ Account(staging[s]) /\ instance \in Nat
  BY <1>1 DEF AccountsInOrder, ResultsMarked, ClearingInv, VInv, Paired, Types
<1>3. Own' = Own
  BY DEF Own
<1> HIDE DEF s
<1>4. SeenQuiet
  <2> SUFFICES ASSUME AtVisit \/ AtLeftSettle,
                      Account(result'[memory.s]), result'[memory.s].instance = memory.seen
               PROVE  \/ memory.seen = 0 /\ Unsettled(result'[memory.s]) = {}
                      \/ /\ Account(result[memory.s]) /\ result[memory.s].instance = memory.seen
                         /\ result[memory.s].verified => result'[memory.s].verified
                         /\ Unsettled(result'[memory.s]) \subseteq Unsettled(result[memory.s])
    BY DEF SeenQuiet, Quiet
  <2>1. PICK indices : Remains(indices) /\ memory.s \in Stagings
    BY SeenInPast
  <2>2. CASE memory.s = s
    <3>1. result[s].instance = memory.seen
      BY <1>1, <2>2
    <3>2. result[s].verified
      BY <1>1, <1>2, <2>1, <2>2, <3>1 DEF Remains
    <3> QED BY <1>1, <3>2
  <2>3. CASE memory.s # s
    BY <1>1, <2>1, <2>3
  <2> QED BY <2>2, <2>3
<1>5. CASE ~(operator = "gateway" /\ Mine(s))
  <2>1. OwnSame
    BY <1>1, <1>5 DEF OwnSame
  <2> QED BY <1>0, <1>1, <1>2, <1>3, <1>4, <2>1, ProcessSame
<1>6. CASE operator = "gateway" /\ Mine(s)
  <2>1. AtStart \/ AtNext \/ AtStage \/ AtAwait \/ AtSettle \/ AtClose
    BY <1>6 DEF ProcessOK, GatewayOK
  <2>2. ~AtStart
    BY <1>6 DEF AtStart, StartMemory, Mine
  <2>3. ~AtNext
    BY <1>1, <1>2, <1>6 DEF AtNext, NextMemory, Mine, Over
  <2>4. ~AtSettle
    BY <1>1, <1>2, <1>6 DEF AtSettle, SettleMemory, Mine
  <2>5. ~AtClose
    <3> SUFFICES ASSUME AtClose PROVE FALSE
      OBVIOUS
    <3>1. PICK t \in Own : t.s = s
      BY <1>6 DEF AtClose, CloseMemory, Mine
    <3>2. Over(result[s])
      BY <1>1, <3>1 DEF AtClose
    <3> QED BY <1>1, <3>2 DEF Over
  <2>6. \A u : OwnBuffer(u) => OwnBuffer(u)'
    BY DEF OwnBuffer
  <2>7. CASE AtStage
    <3>1. \A txs, records : Underway(txs, memory.s, records) => Underway(txs, memory.s, records)'
      BY <1>1 DEF Underway
    <3>2. AtStage'
      <4>1. PICK txs, records : txs = memory.plan \cup Own \cup {memory.seal} /\ records = ThisBatch
        OBVIOUS
      <4>2. Underway(txs, memory.s, records)'
        BY <2>7, <3>1, <4>1 DEF AtStage
      <4>3. Underway(memory.plan \cup Own \cup {memory.seal}, memory.s, ThisBatch)'
        BY <1>3, <4>1, <4>2 DEF ThisBatch, Underway
      <4> QED BY <1>3, <2>6, <2>7, <4>3 DEF AtStage, ThisBatch
    <3> QED BY <1>6, <3>2 DEF ProcessOK, GatewayOK, LeftoversOK, NobodyOK
  <2>8. CASE AtAwait
    <3>1. SealWaits => SealWaits'
      BY <1>1, <1>3 DEF SealWaits, Underway, ThisBatch
    <3>2. s = memory.s
      BY <1>6, <2>8 DEF AtAwait, AwaitMemory, Mine
    <3>3. SealedBatch(memory.s, ThisBatch, memory.last)
             => SealedBatch(memory.s, ThisBatch, memory.last)'
      BY <1>1, <3>2 DEF SealedBatch, ThisBatch
    <3>5. result'[memory.s].applied = result[memory.s].applied
      BY <3>2 DEF DeliverDone, s
    <3>4. AtAwait'
      BY <1>3, <2>6, <2>8, <3>1, <3>3, <3>5 DEF AtAwait
    <3> QED BY <1>6, <3>4 DEF ProcessOK, GatewayOK, LeftoversOK, NobodyOK
  <2> QED BY <2>1, <2>2, <2>3, <2>4, <2>5, <2>7, <2>8
<1> QED BY <1>5, <1>6

-----------------------------------------------------------------------------
(* The batches of a list of records.                                       *)

\* The batches of a sequence of records are its consecutive parts.
LEMMA BatchFacts ==
  ASSUME NEW records \in Seq(Commitments), NEW b \in 1 .. Batches(records)
  PROVE  /\ BatchOf(records, b) \in Seq(Commitments)
         /\ Len(BatchOf(records, b)) \in 1 .. BatchSize
         /\ DOMAIN BatchOf(records, b) = 1 .. Len(BatchOf(records, b))
         /\ Len(BatchOf(records, b)) = Smaller(b * BatchSize, Len(records)) - (b - 1) * BatchSize
         /\ \A n \in 1 .. Len(BatchOf(records, b)) :
               /\ (b - 1) * BatchSize + n \in 1 .. Len(records)
               /\ BatchOf(records, b)[n] = records[(b - 1) * BatchSize + n]
<1> DEFINE L == Len(records)
           q == Batches(records)
<1>0. L \in Nat /\ BatchSize \in Nat \ {0}
  BY BatchesNotEmpty
<1>1. q \in Nat /\ (L + BatchSize - 1) % BatchSize \in 0 .. BatchSize - 1
      /\ L + BatchSize - 1 = q * BatchSize + ((L + BatchSize - 1) % BatchSize)
  <2>1. L + BatchSize - 1 \in Nat
    BY <1>0
  <2>2. PICK v \in Nat : v = L + BatchSize - 1
    BY <2>1
  <2>3. /\ v \div BatchSize \in Nat /\ v % BatchSize \in 0 .. BatchSize - 1
        /\ v = (v \div BatchSize) * BatchSize + (v % BatchSize)
    BY <1>0, <2>2, Quotient
  <2> QED BY <2>2, <2>3 DEF Batches
<1> HIDE DEF q
<1>2. b \in Nat /\ b >= 1 /\ b <= q
  BY <1>1 DEF q
<1>3. PICK d \in Nat : q = b + d
  BY <1>1, <1>2
<1>4. PICK a \in Nat : b = a + 1
  BY <1>2
<1>5. PICK e \in Nat : e = a * BatchSize
  BY <1>0, <1>4
<1>6. b * BatchSize = e + BatchSize /\ (b - 1) * BatchSize = e
  <2>1. b - 1 = a /\ (a + 1) * BatchSize = a * BatchSize + BatchSize
    BY <1>0, <1>4
  <2> QED BY <2>1, <1>4, <1>5
<1>7. PICK x \in Nat : x = d * BatchSize
  BY <1>0, <1>3
<1>8. q * BatchSize = e + BatchSize + x
  <2>1. q * BatchSize = b * BatchSize + d * BatchSize
    BY <1>0, <1>2, <1>3
  <2> QED BY <2>1, <1>6, <1>7
<1>9. e + 1 <= L
  BY <1>0, <1>1, <1>5, <1>7, <1>8
<1> DEFINE m == e + 1
           n == IF e + BatchSize <= L THEN e + BatchSize ELSE L
<1>10. m \in 1 .. L /\ n \in m .. L /\ n - e \in 1 .. BatchSize
  BY <1>0, <1>5, <1>9
<1>11. BatchOf(records, b) = SubSeq(records, m, n)
  <2>1. Smaller(b * BatchSize, L) = n
    BY <1>6 DEF Smaller
  <2> QED BY <2>1, <1>6 DEF BatchOf
<1>12. Smaller(b * BatchSize, L) = n
  BY <1>6 DEF Smaller
<1> HIDE DEF n, m
<1>13. /\ SubSeq(records, m, n) \in Seq(Commitments)
       /\ Len(SubSeq(records, m, n)) = n - m + 1
       /\ \A i \in 1 .. n - m + 1 : SubSeq(records, m, n)[i] = records[m + i - 1]
  BY <1>10, SubSeqProperties
<1>14. n - m + 1 = n - e /\ \A i \in 1 .. n - e : m + i - 1 = e + i /\ e + i \in 1 .. L
  BY <1>0, <1>5, <1>10 DEF m
<1>15. \A i \in 1 .. n - e : SubSeq(records, m, n)[i] = records[e + i]
  BY <1>13, <1>14
<1>16. Len(SubSeq(records, m, n)) = n - e
  BY <1>13, <1>14
<1>17. PICK seq : seq = BatchOf(records, b)
  OBVIOUS
<1>18. /\ seq \in Seq(Commitments) /\ Len(seq) = n - e
       /\ \A i \in 1 .. n - e : seq[i] = records[e + i] /\ e + i \in 1 .. L
  BY <1>11, <1>13, <1>14, <1>15, <1>16, <1>17
<1>19. Len(seq) \in 1 .. BatchSize /\ DOMAIN seq = 1 .. Len(seq)
  BY <1>10, <1>18
<1>20. Len(seq) = Smaller(b * BatchSize, L) - (b - 1) * BatchSize
  BY <1>6, <1>12, <1>18
<1>21. \A i \in 1 .. Len(seq) : /\ (b - 1) * BatchSize + i \in 1 .. L
                                /\ seq[i] = records[(b - 1) * BatchSize + i]
  BY <1>6, <1>18
<1> QED BY <1>17, <1>18, <1>19, <1>20, <1>21

-----------------------------------------------------------------------------
(* The process's own transactions land.                                    *)

\* The empty sequence holds nothing.
LEMMA RangeOfNothing == Range(<<>>) = {}
BY DEF Range

\* What landed is no longer under way.
LEMMA OwnAfterLand ==
  ASSUME NEW t, sent' = sent \ {t}, UNCHANGED used
  PROVE  Own' = Own \ {t} /\ \A s : OwnBuffer(s) => OwnBuffer(s)'
BY DEF Own, OwnBuffer

\* A chunk that lands puts its records into their places and leaves the rest alone.
LEMMA ChunkLands ==
  ASSUME AccountsInOrder, NEW s \in Stagings, NEW t, TxOK(t), t.type = "staging", t.s = s,
         StagingDone(t), NEW txs, t \in txs, NEW records, Underway(txs, s, records),
         Len(records) \in 0 .. BatchSize, t.reset \/ \A u \in txs : ~u.reset
  PROVE  /\ \A i \in 0 .. Len(records) - 1 :
              \/ \E u \in txs \ {t} : Carries(u, i)
              \/ /\ i \in staging'[s].staged
                 /\ (Queues(t) => i < t.count) => InPlace(staging'[s], records, i)
         /\ \A u \in txs \ {t} : ~u.reset
<1>1. /\ \A u \in txs : ChunkOf(u, s, records)
      /\ \A u, v \in txs : u.reset /\ v.reset => u = v
      /\ \A i \in 0 .. Len(records) - 1 :
           \/ \E u \in txs : Carries(u, i)
           \/ InPlace(staging[s], records, i) /\ \A u \in txs : ~u.reset
  BY DEF Underway
<1>2. \A u \in txs \ {t} : ~u.reset
  BY <1>1
<1>3. /\ staging'[s].staged = Base(t).staged \cup Places(t)
      /\ \A i \in Indices : (Queues(t) => i < t.count) =>
            staging'[s].slots[i] = IF i \in Places(t) THEN RecordOf(t.records[i - t.at + 1])
                                                      ELSE Base(t).slots[i]
  BY DEF StagingDone
<1>4. t.at \in Nat /\ Len(t.records) \in Nat /\ t.at + Len(t.records) <= BatchSize
  BY StagingParts
<1>5. /\ t.at + Len(t.records) <= Len(records)
      /\ \A n \in 1 .. Len(t.records) : t.records[n] = records[t.at + n]
  BY <1>1 DEF ChunkOf
<1>6. ASSUME NEW i \in 0 .. Len(records) - 1
      PROVE  \/ \E u \in txs \ {t} : Carries(u, i)
             \/ /\ i \in staging'[s].staged
                /\ (Queues(t) => i < t.count) => InPlace(staging'[s], records, i)
  <2>0. i \in Indices
    BY IndexFacts DEF Indices
  <2>1. CASE i \in Places(t)
    <3>1. i - t.at + 1 \in 1 .. Len(t.records) /\ t.at + (i - t.at + 1) = i + 1
      BY <1>4, <2>1 DEF Places
    <3>2. t.records[i - t.at + 1] = records[i + 1]
      BY <1>5, <3>1
    <3>3. i \in staging'[s].staged
      BY <1>3, <2>1
    <3>4. RecordOf(records[i + 1]).com = records[i + 1]
      BY DEF RecordOf
    <3>5. (Queues(t) => i < t.count) => staging'[s].slots[i].com = records[i + 1]
      BY <1>3, <2>0, <2>1, <3>2, <3>4
    <3> QED BY <3>3, <3>5 DEF InPlace
  <2>2. CASE i \notin Places(t) /\ ~ \E u \in txs \ {t} : Carries(u, i)
    <3>1. ~Carries(t, i)
      BY <2>2 DEF Carries, Places
    <3>2. InPlace(staging[s], records, i) /\ ~t.reset
      BY <1>1, <2>2, <3>1
    <3>3. Base(t) = staging[s]
      BY <3>2 DEF Base
    <3> QED BY <1>3, <2>0, <2>2, <3>2, <3>3 DEF InPlace
  <2> QED BY <2>1, <2>2
<1> QED BY <1>2, <1>6

\* The gateway goes on staging when one of its chunks lands.
LEMMA OwnChunkLands ==
  ASSUME AccountsInOrder, AtStage, NEW t \in Own, Land(t)
  PROVE  AtStage'
<1>1. /\ memory \in StageMemory /\ OwnBuffer(memory.s) /\ memory.batch \in 1 .. Batches(memory.records)
      /\ Underway(memory.plan \cup Own \cup {memory.seal}, memory.s, ThisBatch)
      /\ \A u \in memory.plan \cup Own : u \in StagingTxs /\ PlainChunk(u)
      /\ memory.plan \cap Own = {} /\ \A u, v \in memory.plan \cup Own : u.at = v.at => u = v
      /\ memory.seal.count = Len(ThisBatch) /\ memory.seal.claim = memory.last
      /\ memory.seal.reset => memory.plan = {} /\ Own = {}
      /\ \A u \in Own : u.reset \/ \A v \in memory.plan \cup Own : ~v.reset
  BY DEF AtStage
<1>2. memory.s \in Stagings /\ memory.records \in Seq(Commitments)
  BY <1>1 DEF StageMemory
<1>3. ThisBatch \in Seq(Commitments) /\ Len(ThisBatch) \in 1 .. BatchSize
  BY <1>1, <1>2, BatchFacts DEF ThisBatch
<1>4. t \in sent /\ t.type = "staging" /\ t.count = 0
  BY <1>1 DEF Own, StagingTxs, PlainChunk
<1>5. t.s = memory.s
  BY <1>1 DEF OwnBuffer, Own
<1>6. TxOK(t)
  BY <1>4 DEF AccountsInOrder, SentOK
<1>7. StagingDone(t)
  BY <1>4, LandedStaging
<1>8. ~Queues(t)
  BY <1>4 DEF Queues
<1>9. UNCHANGED <<operator, memory, used, drawn, faults>> /\ sent' = sent \ {t}
  BY <1>4, SentAfterLand DEF AccountsInOrder
<1>10. Own' = Own \ {t} /\ OwnBuffer(memory.s)'
  BY <1>1, <1>9, OwnAfterLand DEF OwnBuffer
<1> DEFINE txs == memory.plan \cup Own \cup {memory.seal}
<1>11. t # memory.seal /\ t \notin memory.plan /\ t \in txs
  BY <1>1, <1>3, <1>4
<1>12. txs \ {t} = memory.plan \cup (Own \ {t}) \cup {memory.seal}
  BY <1>11
<1>13. t.reset \/ \A u \in txs : ~u.reset
  BY <1>1
<1> HIDE DEF txs
<1>14. Underway(txs, memory.s, ThisBatch) /\ Len(ThisBatch) \in 0 .. BatchSize
  BY <1>1, <1>3 DEF txs
<1>15. PICK records : records = ThisBatch
  OBVIOUS
<1>16. /\ \A i \in 0 .. Len(records) - 1 :
              \/ \E u \in txs \ {t} : Carries(u, i)
              \/ InPlace(staging'[memory.s], records, i)
       /\ \A u \in txs \ {t} : ~u.reset
  <2>1. PICK s \in Stagings : s = memory.s
    BY <1>2
  <2>2. Underway(txs, s, records) /\ Len(records) \in 0 .. BatchSize /\ t.s = s
    BY <1>5, <1>14, <1>15, <2>1
  <2>3. /\ \A i \in 0 .. Len(records) - 1 :
              \/ \E u \in txs \ {t} : Carries(u, i)
              \/ /\ i \in staging'[s].staged
                 /\ (Queues(t) => i < t.count) => InPlace(staging'[s], records, i)
        /\ \A u \in txs \ {t} : ~u.reset
    BY <1>4, <1>6, <1>7, <1>11, <1>13, <2>2, ChunkLands
  <2> QED BY <1>8, <2>1, <2>3
<1>17. Account(staging'[memory.s]) /\ ~staging'[memory.s].sealed
  BY <1>5, <1>7, <1>8 DEF StagingDone
<1>18. \A u \in txs \ {t} : ChunkOf(u, memory.s, records)
  BY <1>14, <1>15 DEF Underway
<1>19. PICK left : left = txs \ {t}
  OBVIOUS
<1>20. Underway(left, memory.s, records)'
  BY <1>9, <1>16, <1>17, <1>18, <1>19 DEF Underway
<1>21. left = (memory.plan \cup Own \cup {memory.seal})' /\ records = ThisBatch'
  BY <1>9, <1>10, <1>12, <1>15, <1>19 DEF txs, ThisBatch
<1>22. Underway(memory.plan \cup Own \cup {memory.seal}, memory.s, ThisBatch)'
  BY <1>9, <1>20, <1>21 DEF Underway
<1>23. /\ \A u \in memory.plan \cup Own' : u \in StagingTxs /\ PlainChunk(u)
       /\ memory.plan \cap Own' = {} /\ \A u, v \in memory.plan \cup Own' : u.at = v.at => u = v
       /\ memory.seal.reset => memory.plan = {} /\ Own' = {}
       /\ \A u \in Own' : u.reset \/ \A v \in memory.plan \cup Own' : ~v.reset
  BY <1>1, <1>10
<1>24. memory.seal.count = Len(ThisBatch)'
  BY <1>1, <1>9 DEF ThisBatch
<1> QED BY <1>1, <1>9, <1>10, <1>22, <1>23, <1>24 DEF AtStage

\* The batch is sealed as planned when the seal lands.
LEMMA OwnSealLands ==
  ASSUME AccountsInOrder, AtAwait, NEW t \in Own, Land(t)
  PROVE  AtAwait'
<1>1. /\ memory \in AwaitMemory /\ OwnBuffer(memory.s) /\ memory.batch \in 1 .. Batches(memory.records)
      /\ memory.last # NoOffset
      /\ Own = {t} /\ t \in StagingTxs /\ t.count = Len(ThisBatch) /\ t.offset = memory.last
      /\ Underway({t}, memory.s, ThisBatch)
  BY DEF AtAwait, SealWaits
<1>2. memory.s \in Stagings /\ memory.records \in Seq(Commitments)
  BY <1>1 DEF AwaitMemory
<1>3. ThisBatch \in Seq(Commitments) /\ Len(ThisBatch) \in 1 .. BatchSize
      /\ DOMAIN ThisBatch = 1 .. Len(ThisBatch)
  BY <1>1, <1>2, BatchFacts DEF ThisBatch
<1>4. t \in sent /\ t.type = "staging"
  BY <1>1 DEF Own, StagingTxs
<1>5. t.s = memory.s
  BY <1>1 DEF OwnBuffer, Own
<1>6. TxOK(t)
  BY <1>4 DEF AccountsInOrder, SentOK
<1>7. StagingDone(t) /\ ResultDone(t)
  BY <1>4, LandedStaging
<1>8. Queues(t)
  BY <1>1, <1>3 DEF Queues
<1>9. UNCHANGED <<operator, memory, used, drawn, faults>> /\ sent' = sent \ {t}
  BY <1>4, SentAfterLand DEF AccountsInOrder
<1>10. Own' = {} /\ OwnBuffer(memory.s)'
  BY <1>1, <1>9, OwnAfterLand DEF OwnBuffer
<1>11. PICK records, s : records = ThisBatch /\ s = memory.s
  OBVIOUS
<1>12. t.reset \/ \A u \in {t} : ~u.reset
  OBVIOUS
<1>13. \A i \in 0 .. Len(records) - 1 : InPlace(staging'[s], records, i)
  <2>1. /\ Underway({t}, s, records) /\ Len(records) \in 0 .. BatchSize /\ t.s = s /\ s \in Stagings
        /\ t \in {t}
    BY <1>1, <1>2, <1>3, <1>5, <1>11
  <2>2. \A i \in 0 .. Len(records) - 1 :
              \/ \E u \in {t} \ {t} : Carries(u, i)
              \/ /\ i \in staging'[s].staged
                 /\ (Queues(t) => i < t.count) => InPlace(staging'[s], records, i)
    BY <1>4, <1>6, <1>7, <1>12, <2>1, ChunkLands
  <2>3. \A i \in 0 .. Len(records) - 1 : i < t.count
    BY <1>1, <1>3, <1>11
  <2> QED BY <2>2, <2>3
<1>14. \A n \in 1 .. Len(records) : staging'[s].slots[n - 1].com = records[n]
  <2> SUFFICES ASSUME NEW n \in 1 .. Len(records) PROVE staging'[s].slots[n - 1].com = records[n]
    OBVIOUS
  <2>1. n - 1 \in 0 .. Len(records) - 1 /\ (n - 1) + 1 = n
    BY <1>3, <1>11
  <2> QED BY <1>13, <2>1 DEF InPlace
<1>15. Account(staging'[s]) /\ staging'[s].sealed
  BY <1>5, <1>7, <1>8, <1>11 DEF StagingDone
<1>16. result'[s].offset = memory.last /\ result'[s].count = Len(records)
       /\ result'[s].applied = {}
  <2>1. result'[s] = QueuedResult(BatchKind, t.count, t.offset, instance + 1)
    BY <1>5, <1>7, <1>8, <1>11 DEF ResultDone
  <2>2. result'[s].offset = t.offset /\ result'[s].count = t.count /\ result'[s].applied = {}
    BY <2>1 DEF QueuedResult, ClearedResult
  <2> QED BY <1>1, <1>11, <2>2
<1>17. DOMAIN records = 1 .. Len(records)
  BY <1>3, <1>11
<1>18. SealedBatch(memory.s, ThisBatch, memory.last)'
  <2>1. records = ThisBatch' /\ s = memory.s'
    BY <1>9, <1>11 DEF ThisBatch
  <2>2. SealedBatch(s, records, memory.last)'
    BY <1>1, <1>9, <1>14, <1>15, <1>16, <1>17 DEF SealedBatch
  <2> QED BY <2>1, <2>2 DEF SealedBatch
<1>19. result'[memory.s'].applied = {}
  BY <1>9, <1>11, <1>16
<1> QED BY <1>1, <1>9, <1>10, <1>18, <1>19 DEF AtAwait

\* What SameVerdict leaves to apply.
LEMMA UnsettledAfter ==
  ASSUME NEW t, SettleDone(t)
  PROVE  /\ Account(result'[t.s]) /\ result'[t.s].instance = result[t.s].instance
         /\ result'[t.s].verified = result[t.s].verified
         /\ result'[t.s].offset = result[t.s].offset /\ result'[t.s].count = result[t.s].count
         /\ result'[t.s].bitmap = result[t.s].bitmap
         /\ Unsettled(result'[t.s]) = Unsettled(result[t.s]) \ Range(t.order)
BY DEF SettleDone, SameVerdict, Unsettled, Account

\* What is still to settle shrinks by what landed.
LEMMA OwnSettlementLands ==
  ASSUME AccountsInOrder, AtSettle, NEW t \in Own, Land(t)
  PROVE  AtSettle'
<1>1. /\ memory \in SettleMemory /\ OwnBuffer(memory.s) /\ memory.batch \in 1 .. Batches(memory.records)
      /\ SealedBatch(memory.s, ThisBatch, memory.last)
      /\ result[memory.s].verified /\ result[memory.s].bitmap = 0 .. Len(ThisBatch) - 1
      /\ Once(memory.todo) /\ Len(memory.todo) <= BatchSize
  BY DEF AtSettle
<1>2. PICK o \in Orders \cup {<<>>} :
         /\ SettleWaits(memory.s, o)
         /\ Once(o) /\ Range(o) \cap Range(memory.todo) = {}
         /\ Range(o) \cup Range(memory.todo) \subseteq result[memory.s].bitmap
         /\ faults = 0 => Unsettled(result[memory.s]) = Range(o) \cup Range(memory.todo)
  BY DEF AtSettle
<1>3. t = SettleTx(memory.s, o) /\ Own = {t}
  BY <1>2 DEF SettleWaits
<1>4. t \in sent /\ t.type = "settle" /\ t.s = memory.s /\ t.order = o
  BY <1>3 DEF SettleTx, Own
<1>5. SettleDone(t)
  BY <1>4, LandedSettle
<1>6. UNCHANGED <<operator, memory, used, drawn, faults>> /\ sent' = sent \ {t}
  BY <1>4, SentAfterLand DEF AccountsInOrder
<1>7. Own' = {} /\ OwnBuffer(memory.s)'
  BY <1>1, <1>3, <1>6, OwnAfterLand DEF OwnBuffer
<1>8. /\ result'[memory.s].verified /\ result'[memory.s].bitmap = 0 .. Len(ThisBatch) - 1
      /\ result'[memory.s].offset = result[memory.s].offset
      /\ result'[memory.s].count = result[memory.s].count
      /\ Range(memory.todo) \subseteq result'[memory.s].bitmap
      /\ faults = 0 => Unsettled(result'[memory.s]) = Range(memory.todo)
  <2>1. /\ result'[t.s].verified = result[t.s].verified
        /\ result'[t.s].offset = result[t.s].offset /\ result'[t.s].count = result[t.s].count
        /\ result'[t.s].bitmap = result[t.s].bitmap
        /\ Unsettled(result'[t.s]) = Unsettled(result[t.s]) \ Range(t.order)
    BY <1>5, UnsettledAfter
  <2>2. faults = 0 => Unsettled(result'[memory.s]) = Range(memory.todo)
    BY <1>2, <1>4, <2>1
  <2>3. Range(memory.todo) \subseteq result'[memory.s].bitmap
    BY <1>2, <1>4, <2>1
  <2> QED BY <1>1, <1>4, <2>1, <2>2, <2>3
<1>9. staging' = staging
  BY <1>5 DEF SettleDone
<1>10. SealedBatch(memory.s, ThisBatch, memory.last)'
  BY <1>1, <1>6, <1>8, <1>9 DEF SealedBatch, ThisBatch
<1>11. SettleWaits(memory.s, <<>>)'
  BY <1>7 DEF SettleWaits
<1>12. Once(<<>>)
  BY DEF Once
<1>13. /\ <<>> \in Orders \cup {<<>>} /\ Range(<<>>) \cap Range(memory.todo') = {}
       /\ Range(<<>>) \cup Range(memory.todo') \subseteq result'[memory.s'].bitmap
       /\ faults' = 0 => Unsettled(result'[memory.s']) = Range(<<>>) \cup Range(memory.todo')
  BY <1>6, <1>8, RangeOfNothing
<1>14. \E w \in Orders \cup {<<>>} :
         /\ SettleWaits(memory.s, w)'
         /\ Once(w) /\ Range(w) \cap Range(memory.todo') = {}
         /\ Range(w) \cup Range(memory.todo') \subseteq result'[memory.s'].bitmap
         /\ faults' = 0 => Unsettled(result'[memory.s']) = Range(w) \cup Range(memory.todo')
  BY <1>11, <1>12, <1>13
<1>15. result'[memory.s].bitmap = 0 .. Len(ThisBatch)' - 1
  BY <1>6, <1>8 DEF ThisBatch
<1> QED BY <1>1, <1>6, <1>7, <1>8, <1>10, <1>14, <1>15 DEF AtSettle, Unsettled

\* The buffer the gateway asked for is there.
LEMMA OwnOpenLands ==
  ASSUME AccountsInOrder, AtNext, NEW t \in Own, Land(t)
  PROVE  AtNext'
<1>1. /\ memory \in NextMemory /\ OwnBuffer(memory.s) /\ memory.batch \in 0 .. Batches(memory.records)
      /\ memory.batch = 0 /\ Own = {OpenTx(memory.s)}
  BY DEF AtNext
<1>2. t = OpenTx(memory.s) /\ t \in sent /\ t.type = "open" /\ t.s = memory.s
  BY <1>1 DEF Own, OpenTx
<1>3. OpenDone(t)
  BY <1>2, LandedOpen
<1>4. UNCHANGED <<operator, memory, used, drawn, faults>> /\ sent' = sent \ {t}
  BY <1>2, SentAfterLand DEF AccountsInOrder
<1>5. Own' = {} /\ OwnBuffer(memory.s)'
  BY <1>1, <1>2, <1>4, OwnAfterLand DEF OwnBuffer
<1>6. Account(staging'[memory.s]) /\ ~staging'[memory.s].sealed
  BY <1>2, <1>3 DEF OpenDone, EmptyBuffer, Account
<1>7. Over(result'[memory.s])
  BY <1>2, <1>3 DEF OpenDone, ClearedResult, Over
<1>8. HoldsOnly(memory.s, memory.records)'
  <2>1. result'[memory.s].bitmap = {}
    BY <1>2, <1>3 DEF OpenDone, ClearedResult
  <2> QED BY <1>4, <2>1 DEF HoldsOnly
<1> QED BY <1>1, <1>4, <1>5, <1>6, <1>7, <1>8 DEF AtNext, Over

\* The gateway's buffer is closed.
LEMMA OwnCloseLands ==
  ASSUME AccountsInOrder, AtClose, NEW t \in Own, Land(t)
  PROVE  AtClose'
<1>1. /\ memory \in CloseMemory
      /\ \A u \in Own : /\ u \in CloseTxs
                        /\ \A v \in sent : v.s = u.s => v = u
                        /\ Account(result[u.s]) => Over(result[u.s]) /\ PaidUp(u.s)
  BY DEF AtClose
<1>2. t \in sent
  BY DEF Own
<1>3. UNCHANGED <<operator, memory, used, drawn, faults>> /\ sent' = sent \ {t}
  BY <1>2, SentAfterLand DEF AccountsInOrder
<1>4. Own' = Own \ {t}
  BY <1>3, OwnAfterLand
<1>5. OthersSame(t.s)
  BY <1>2, LandEffect
<1>6. \A u \in Own' : staging'[u.s] = staging[u.s] /\ result'[u.s] = result[u.s]
  <2> SUFFICES ASSUME NEW u \in Own'
               PROVE  staging'[u.s] = staging[u.s] /\ result'[u.s] = result[u.s]
    OBVIOUS
  <2>1. u.s # t.s /\ u.s \in Stagings
    BY <1>1, <1>2, <1>4 DEF CloseTxs
  <2> QED BY <1>5, <2>1 DEF OthersSame
<1>8. Onward
  BY <1>2, LandOnward
<1>9. \A u \in Own' : PaidUp(u.s) => PaidUp(u.s)'
  BY <1>6, <1>8, PaidUpStays
<1>7. \A u \in Own' : /\ u \in CloseTxs
                      /\ \A v \in sent' : v.s = u.s => v = u
                      /\ Account(result'[u.s]) => Over(result'[u.s]) /\ PaidUp(u.s)'
  BY <1>1, <1>3, <1>4, <1>6, <1>9
<1> QED BY <1>1, <1>3, <1>7 DEF AtClose, Over

\* The clean-up goes on when a transaction of its own lands.
LEMMA LeftoversLand ==
  ASSUME AccountsInOrder, ProcessOK, operator = "leftovers", NEW t \in Own, Land(t)
  PROVE  LeftoversOK'
<1>1. t \in sent
  BY DEF Own
<1>2. UNCHANGED <<operator, memory, used, drawn, faults>> /\ sent' = sent \ {t}
  BY <1>1, SentAfterLand DEF AccountsInOrder
<1>3. Own' = Own \ {t}
  BY <1>2, OwnAfterLand
<1>4. /\ instance \in Nat /\ instance' \in Nat /\ instance <= instance'
      /\ \A s \in Stagings, seen \in 0 .. instance : Quiet(s, seen)
  BY <1>1, LandEffect
<1>5. memory.left \subseteq used /\ (AtVisit \/ AtLeftSettle)
  BY DEF ProcessOK, LeftoversOK
<1>6. CASE AtVisit
  <2>1. memory.s \in Stagings /\ memory.seen \in Nat /\ memory.seen <= instance
    BY <1>6, SeenInPast
  <2>2. Quiet(memory.s, memory.seen) /\ memory.seen <= instance'
    BY <1>4, <2>1
  <2>3. Remains({})'
    BY <1>2, <1>6, <2>1, <2>2, RemainsStays DEF AtVisit
  <2>4. AtVisit'
    BY <1>2, <1>3, <1>6, <2>2, <2>3 DEF AtVisit
  <2> QED BY <1>2, <1>5, <2>4 DEF LeftoversOK
<1>7. CASE AtLeftSettle
  <2>1. memory.s \in Stagings /\ memory.seen \in Nat /\ memory.seen <= instance
    BY <1>7, SeenInPast
  <2>2. PICK o \in Orders \cup {<<>>} :
          SettleWaits(memory.s, o) /\ Remains(Range(o) \cup Range(memory.todo))
    BY <1>7 DEF AtLeftSettle
  <2>3. t = SettleTx(memory.s, o) /\ Own = {t}
    BY <2>2 DEF SettleWaits
  <2>4. t.type = "settle" /\ t.s = memory.s /\ t.order = o
    BY <2>3 DEF SettleTx
  <2>5. SettleDone(t)
    BY <1>1, <2>4, LandedSettle
  <2>6. /\ result'[memory.s].instance = result[memory.s].instance
        /\ result'[memory.s].verified = result[memory.s].verified
        /\ Unsettled(result'[memory.s]) = Unsettled(result[memory.s]) \ Range(o)
    BY <2>4, <2>5, UnsettledAfter
  <2>7. Account(result[memory.s])
    BY <2>4, <2>5 DEF SettleDone
  <2>8. Remains(Range(<<>>) \cup Range(memory.todo))'
    BY <1>2, <2>2, <2>6, <2>7, RangeOfNothing DEF Remains, Unsettled
  <2>9. SettleWaits(memory.s, <<>>)'
    BY <1>3, <2>3 DEF SettleWaits
  <2>10. memory.seen <= instance'
    BY <1>4, <2>1
  <2>11. \E w \in Orders \cup {<<>>} : SettleWaits(memory.s, w)' /\ Remains(Range(w) \cup Range(memory.todo))'
    BY <2>8, <2>9
  <2>12. AtLeftSettle'
    BY <1>2, <1>7, <2>10, <2>11 DEF AtLeftSettle
  <2> QED BY <1>2, <1>5, <2>12 DEF LeftoversOK
<1> QED BY <1>5, <1>6, <1>7

\* Whatever lands, the process is where it may be.
LEMMA LandProcess ==
  ASSUME AccountsInOrder, ProcessOK, NEW t \in sent, Land(t)
  PROVE  ProcessOK'
<1>1. CASE ~t.awaited
  BY <1>1, ForeignLand
<1>2. CASE t.awaited
  <2>1. t \in Own
    BY <1>2 DEF Own
  <2>2. UNCHANGED <<operator, memory>>
    BY SentAfterLand DEF AccountsInOrder
  <2>3. CASE operator = "gateway"
    <3>1. AtStart \/ AtNext \/ AtStage \/ AtAwait \/ AtSettle \/ AtClose
      BY <2>3 DEF ProcessOK, GatewayOK
    <3>2. ~AtStart
      BY <2>1 DEF AtStart
    <3>3. AtNext' \/ AtStage' \/ AtAwait' \/ AtSettle' \/ AtClose'
      BY <2>1, <3>1, <3>2, OwnOpenLands, OwnChunkLands, OwnSealLands, OwnSettlementLands, OwnCloseLands
    <3> QED BY <2>2, <2>3, <3>3 DEF ProcessOK, GatewayOK, LeftoversOK, NobodyOK
  <2>4. CASE operator = "leftovers"
    <3>1. LeftoversOK'
      BY <2>1, <2>4, LeftoversLand
    <3> QED BY <2>2, <2>4, <3>1 DEF ProcessOK, GatewayOK, NobodyOK
  <2>5. CASE operator \notin {"gateway", "leftovers"}
    BY <2>1, <2>5 DEF ProcessOK, NobodyOK
  <2> QED BY <2>3, <2>4, <2>5
<1>3. t.awaited \in BOOLEAN
  BY TxParts DEF AccountsInOrder, SentOK
<1> QED BY <1>1, <1>2, <1>3

-----------------------------------------------------------------------------
(* What refuses a settlement of the gateway.                               *)

\* The balances of every commitment of the session exist.
LEMMA BalancesThere ==
  ASSUME Setting, NEW k \in Commitments
  PROVE  BalancesOpen(k)
<1>1. HeaderOf(k.channel) = HeadOf(k)
  BY RecordFacts
<1>2. Named(k) \cup {HeadOf(k).payee} \subseteq Participants \ Absent /\ Payers[k.channel] # NoOne
  BY RecordsAreSound DEF RecordSound
<1>3. k.channel \in Channels /\ k.channel[1] \in Buckets
  BY CommitmentFacts DEF Channels
<1>4. HeadOf(k).mint \in Mints
  <2>1. HeadOf(k) # Unopened /\ HeadOf(k) \in Header \cup {Unopened}
    BY <1>2, <1>3, FundsAreInOrder DEF HeadOf
  <2> QED BY <2>1 DEF Header
<1>5. opened = (Participants \ Absent) \X Mints
  BY DEF Setting
<1> QED BY <1>1, <1>2, <1>4, <1>5 DEF BalancesOpen, Gateway

\* Any choice of records that verified and are not applied can be settled in one
\* instruction, in any order.
LEMMA OrderSettles ==
  ASSUME ClearingInv, NEW s \in Stagings, Account(result[s]), NEW order \in Orders, Once(order),
         Range(order) \subseteq Unsettled(result[s]),
         \A i \in Range(order) : BalancesOpen(staging[s].slots[i].com)
  PROVE  SettlementAccepted(s, order)
<1>1. PICK n \in 1 .. BatchSize : order \in [1 .. n -> Indices]
  BY DEF Orders
<1>2. Len(order) = n /\ n \in Nat /\ n > 0 /\ DOMAIN order = 1 .. n
  BY <1>1, BatchesNotEmpty
<1>3. \A a \in 1 .. n : order[a] \in Range(order)
  BY <1>2 DEF Range
<1>4. ASSUME NEW a \in 1 .. n
      PROVE  /\ order[a] \in result[s].bitmap /\ order[a] \notin result[s].applied
             /\ BalancesOpen(staging[s].slots[order[a]].com)
  BY <1>3 DEF Unsettled
<1>5. ASSUME NEW a \in 1 .. n
      PROVE  LET k == staging[s].slots[order[a]].com
             IN  /\ result[s].verified /\ Account(staging[s]) /\ staging[s].sealed
                 /\ staging[s].kind = result[s].kind
                 /\ order[a] < result[s].count
                 /\ RecordFits(staging[s], k) /\ Ready(k) /\ BalancesOpen(k)
  BY <1>4, VerifiedIsReady
<1>6. MoneyInOrder /\ TypeOK
  BY DEF ClearingInv, MoneyInOrder
<1>7. PaidInTurn(MoneyAfter(s, order), s, order)
  BY <1>2, <1>5, <1>6, MoneyAfterIs
<1>8. PICK after : after = MoneyAfter(s, order)
  OBVIOUS
<1>9. ASSUME NEW a \in 1 .. n
      PROVE  /\ Settleable(result[s], order[a])
             /\ AccountsAccepted(s, staging[s].slots[order[a]].com)
             /\ AmountsAccepted(after[a - 1], staging[s].slots[order[a]].com)
  <2>1. PICK k : k = staging[s].slots[order[a]].com
    OBVIOUS
  <2>2. a - 1 \in 0 .. Len(order)
    BY <1>2
  <2>3. PaidOut(after[a - 1])
    BY <1>7, <1>8, <2>2 DEF PaidInTurn
  <2>4. AmountsAccepted(after[a - 1], k)
    BY <1>5, <1>6, <2>1, <2>3, PayKeeps
  <2>5. AccountsAccepted(s, k)
    BY <1>5, <2>1 DEF AccountsAccepted, RecordFits
  <2>6. Settleable(result[s], order[a])
    BY <1>4, <1>5 DEF Settleable
  <2> QED BY <2>1, <2>4, <2>5, <2>6
<1>10. \A a, b \in 1 .. n : a # b => order[a] # order[b]
  BY <1>2 DEF Once
<1>11. result[s].verified /\ Account(staging[s]) /\ staging[s].sealed
       /\ staging[s].kind = result[s].kind
  BY <1>2, <1>5
<1> QED BY ONLY <1>2, <1>8, <1>9, <1>10, <1>11 DEF SettlementAccepted

\* A gateway's settlement that is under way is of records that verified, and left alone of
\* none that is applied.
LEMMA OwnSettlementIs ==
  ASSUME AccountsInOrder, ProcessOK, operator = "gateway", NEW t \in sent, t.type = "settle", t.awaited
  PROVE  /\ t.s \in Stagings /\ Account(result[t.s])
         /\ t.order \in Orders /\ Once(t.order) /\ Range(t.order) \subseteq result[t.s].bitmap
         /\ faults = 0 => Range(t.order) \subseteq Unsettled(result[t.s])
<1>1. t \in Own
  BY DEF Own
<1>2. ~AtStart
  BY <1>1 DEF AtStart
<1>3. ~AtNext
  BY <1>1 DEF AtNext, OpenTx
<1>4. ~AtStage
  BY <1>1 DEF AtStage, StagingTxs
<1>5. ~AtAwait
  BY <1>1 DEF AtAwait, SealWaits, StagingTxs
<1>6. ~AtClose
  BY <1>1 DEF AtClose, CloseTxs
<1>7. AtSettle
  BY <1>2, <1>3, <1>4, <1>5, <1>6 DEF ProcessOK, GatewayOK
<1>8. PICK o \in Orders \cup {<<>>} :
         /\ SettleWaits(memory.s, o) /\ Once(o)
         /\ Range(o) \cup Range(memory.todo) \subseteq result[memory.s].bitmap
         /\ faults = 0 => Unsettled(result[memory.s]) = Range(o) \cup Range(memory.todo)
  BY <1>7 DEF AtSettle
<1>9. t = SettleTx(memory.s, o) /\ o # <<>>
  BY ONLY <1>1, <1>8 DEF SettleWaits
<1>10. t.s = memory.s /\ t.order = o /\ o \in Orders
  BY ONLY <1>9, o \in Orders \cup {<<>>} DEF SettleTx
<1>11. memory.s \in Stagings
  <2>1. PICK m \in SettleMemory : m = memory
    BY <1>7 DEF AtSettle
  <2> QED BY ONLY <2>1 DEF SettleMemory
<1>12. Account(result[memory.s])
  BY <1>7, <1>11 DEF AtSettle, SealedBatch, AccountsInOrder, ClearingInv, VInv, Paired
<1> QED BY <1>8, <1>10, <1>11, <1>12

\* Relayer.OnlyForestallingRefuses: of what can refuse a settlement of the gateway only one
\* thing is left, that a record of it is applied already.
LEMMA SettlementsAccepted ==
  ASSUME AccountsInOrder, ProcessOK
  PROVE  OnlyForestallingRefuses
<1> SUFFICES ASSUME operator = "gateway", NEW t \in sent, t.type = "settle", t.awaited
             PROVE  Accepted(t) \/ (faults > 0 /\ Range(t.order) \cap result[t.s].applied # {})
  BY DEF OnlyForestallingRefuses
<1>0. faults \in Nat /\ (Accepted(t) <=> SettlementAccepted(t.s, t.order))
  BY DEF AccountsInOrder, SentOK, Accepted
<1> SUFFICES ASSUME faults = 0 \/ Range(t.order) \cap result[t.s].applied = {}
             PROVE  SettlementAccepted(t.s, t.order)
  BY <1>0
<1>1. /\ t.s \in Stagings /\ Account(result[t.s])
      /\ t.order \in Orders /\ Once(t.order) /\ Range(t.order) \subseteq Unsettled(result[t.s])
  <2>1. /\ t.s \in Stagings /\ Account(result[t.s])
        /\ t.order \in Orders /\ Once(t.order) /\ Range(t.order) \subseteq result[t.s].bitmap
        /\ faults = 0 => Range(t.order) \subseteq Unsettled(result[t.s])
    BY OwnSettlementIs
  <2> QED BY <2>1 DEF Unsettled
<1>2. ClearingInv /\ Setting
  BY DEF AccountsInOrder
<1>3. ASSUME NEW i \in Range(t.order)
      PROVE  BalancesOpen(staging[t.s].slots[i].com)
  <2>1. i \in result[t.s].bitmap
    BY <1>1 DEF Unsettled
  <2>2. i \in Indices /\ Account(staging[t.s]) /\ staging[t.s].sealed /\ result[t.s].verified
        /\ staging[t.s].kind = result[t.s].kind
    BY <1>1, <1>2, <2>1, VerifiedIsReady
  <2>3. staging[t.s].slots[i] # Blank
    BY <1>1, <1>2, <2>1, <2>2, VerdictsMatch DEF ClearingInv, VerdictMatchesBatch, Verifies
  <2>4. staging[t.s].slots[i].com \in Commitments
    BY <1>1, <1>2, <2>2, <2>3 DEF ClearingInv, VInv, SignedInBuffer
  <2> QED BY <1>2, <2>4, BalancesThere
<1> QED BY <1>1, <1>2, <1>3, OrderSettles

-----------------------------------------------------------------------------
(* What is lost, and what dies.                                            *)

\* A transaction stays as it should be while buffers are opened and offsets drawn.
LEMMA TxStays ==
  ASSUME NEW t, TxOK(t), drawn \in Nat, drawn' \in Nat, used \subseteq used', drawn <= drawn'
  PROVE  TxOK(t)'
<1>1. t.s \in used'
  BY DEF TxOK
<1>2. t.offset \in 1 .. drawn => t.offset \in 1 .. drawn'
  OBVIOUS
<1> QED BY <1>1, <1>2 DEF TxOK

\* A step of a process leaves the accounts in order, when what it sends is.
LEMMA ProcessAccounts ==
  ASSUME AccountsInOrder, UNCHANGED vars, NEW new, sent' \subseteq sent \cup new,
         \A t \in new : TxOK(t)', used \subseteq used', used' \subseteq Stagings,
         drawn' \in 0 .. MaxInstances, drawn <= drawn', faults' \in Nat, faults' = 0 => faults = 0
  PROVE  AccountsInOrder'
<1>1. drawn \in Nat /\ drawn' \in Nat /\ SentOK
  <2>1. MaxInstances \in Nat
    BY BatchesNotEmpty
  <2> QED BY <2>1 DEF AccountsInOrder, SentOK
<1>2. \A t \in sent : TxOK(t)'
  <2> SUFFICES ASSUME NEW t \in sent
               PROVE  TxOK(t)'
    OBVIOUS
  <2>1. TxOK(t)
    BY <1>1 DEF SentOK
  <2> QED BY <1>1, <2>1, TxStays
<1>3. SentOK'
  BY <1>2 DEF SentOK
<1> QED BY <1>3, AccountsRest

\* The running process does not see a step that leaves it and its buffer alone.
LEMMA NothingSeen ==
  ASSUME AccountsInOrder, ProcessOK, UNCHANGED vars, UNCHANGED <<operator, memory, used>>,
         sent' \subseteq sent, Own' = Own, faults' = 0 => faults = 0
  PROVE  ProcessOK'
<1>1. staging' = staging /\ result' = result /\ instance' = instance /\ settled' = settled
  BY DEF vars, clearingVars, arciumVars, custodyVars
<1>2. OwnSame
  BY <1>1 DEF OwnSame
<1>3. SeenQuiet
  BY <1>1 DEF SeenQuiet, Quiet, Unsettled
<1>4. instance \in Nat
  BY DEF AccountsInOrder, ClearingInv, VInv, Types
<1>5. instance' \in Nat /\ instance <= instance'
  BY <1>1, <1>4
<1>6. Onward
  BY <1>1, GoesOnward
<1> QED BY <1>2, <1>3, <1>4, <1>5, <1>6, ProcessSame

\* A transaction that is refused or expires and nobody looks for.
LEMMA DropProcess ==
  ASSUME AccountsInOrder, ProcessOK, UNCHANGED vars, NEW t \in sent, Drop(t),
         faults' \in Nat, faults' = 0 => faults = 0,
         \/ ~t.awaited \/ Caught(t)
         \/ faults # 0 /\ operator = "gateway" /\ t.type = "settle"
  PROVE  AccountsInOrder' /\ ProcessOK'
<1>1. sent' = sent \ {t} /\ UNCHANGED <<operator, memory, used, drawn>>
  BY DEF Drop
<1>2. AccountsInOrder'
  <2>1. drawn' \in 0 .. MaxInstances /\ drawn <= drawn' /\ used' \subseteq Stagings
    BY <1>1 DEF AccountsInOrder, SentOK
  <2>2. PICK new : new = {}
    OBVIOUS
  <2>3. sent' \subseteq sent \cup new /\ \A u \in new : TxOK(u)'
    BY <1>1, <2>2
  <2>4. used \subseteq used'
    BY <1>1
  <2> QED BY <2>1, <2>3, <2>4, ProcessAccounts
<1>3. CASE ~t.awaited
  <2>1. Own' = Own
    BY <1>1, <1>3 DEF Own
  <2> QED BY <1>1, <1>2, <2>1, NothingSeen
<1>4. Own' = Own \ {t} /\ memory' = memory /\ operator' = operator
  BY <1>1 DEF Own
<1>5. result' = result /\ instance' = instance /\ staging' = staging
  BY DEF vars, clearingVars, arciumVars
<1>6. CASE t.awaited /\ Caught(t)
  <2>1. operator = "leftovers" /\ t.type = "close" /\ t \in Own
    BY <1>6 DEF Caught, Own
  <2>2. LeftoversOK
    BY DEF ProcessOK
  <2>3. AtVisit
    <3>1. CASE AtLeftSettle
      BY <2>1, <3>1 DEF AtLeftSettle, SettleWaits, SettleTx
    <3> QED BY <2>1, <2>2, <3>1 DEF LeftoversOK
  <2>4. AtVisit'
    BY <1>1, <1>4, <1>5, <2>3 DEF AtVisit, Remains, Unsettled
  <2>5. LeftoversOK'
    BY <1>1, <2>1, <2>2, <2>4 DEF LeftoversOK
  <2> QED BY <1>1, <1>2, <2>1, <2>5 DEF ProcessOK, GatewayOK, NobodyOK
<1>7. CASE t.awaited /\ faults # 0 /\ operator = "gateway" /\ t.type = "settle"
  <2>1. t \in Own
    BY <1>7 DEF Own
  <2>2. AtSettle
    <3>1. ~AtStart
      BY <2>1 DEF AtStart
    <3>2. ~AtNext
      BY <1>7, <2>1 DEF AtNext, OpenTx
    <3>3. ~AtStage
      BY <1>7, <2>1 DEF AtStage, StagingTxs
    <3>4. ~AtAwait
      BY <1>7, <2>1 DEF AtAwait, SealWaits, StagingTxs
    <3>5. ~AtClose
      BY <1>7, <2>1 DEF AtClose, CloseTxs
    <3> QED BY <1>7, <3>1, <3>2, <3>3, <3>4, <3>5 DEF ProcessOK, GatewayOK
  <2>3. PICK o \in Orders \cup {<<>>} :
          /\ SettleWaits(memory.s, o)
          /\ Range(o) \cup Range(memory.todo) \subseteq result[memory.s].bitmap
    BY <2>2 DEF AtSettle
  <2>4. Own' = {}
    BY <1>4, <2>1, <2>3 DEF SettleWaits
  <2>5. SettleWaits(memory.s, <<>>)'
    BY <2>4 DEF SettleWaits
  <2>6. Once(<<>>) /\ <<>> \in Orders \cup {<<>>}
    BY DEF Once
  <2>7. /\ Range(<<>>) \cap Range(memory.todo) = {}
        /\ Range(<<>>) \cup Range(memory.todo) \subseteq result[memory.s].bitmap
    BY <2>3, RangeOfNothing
  <2>8. faults' # 0
    BY <1>7
  <2>9. OwnBuffer(memory.s)'
    BY <1>1, <1>4, <2>1, <2>2 DEF AtSettle, OwnBuffer
  <2>10. SealedBatch(memory.s, ThisBatch, memory.last)'
    BY <1>4, <1>5, <2>2 DEF AtSettle, SealedBatch, ThisBatch
  <2>11. \E w \in Orders \cup {<<>>} :
           /\ SettleWaits(memory.s, w)'
           /\ Once(w) /\ Range(w) \cap Range(memory.todo) = {}
           /\ Range(w) \cup Range(memory.todo) \subseteq result[memory.s].bitmap
    BY <2>5, <2>6, <2>7
  <2>12. AtSettle'
    BY <1>4, <1>5, <2>2, <2>8, <2>9, <2>10, <2>11 DEF AtSettle, ThisBatch, Unsettled
  <2> QED BY <1>2, <1>4, <1>7, <2>12 DEF ProcessOK, GatewayOK, LeftoversOK, NobodyOK
<1> QED BY <1>3, <1>6, <1>7

\* A transaction that is refused or expires: its sender dies, or never looks.
LEMMA LoseProcess ==
  ASSUME AccountsInOrder, ProcessOK, UNCHANGED vars, NEW t \in sent, Lose(t),
         faults' \in Nat, faults' = 0 => faults = 0
  PROVE  AccountsInOrder' /\ ProcessOK'
<1>1. CASE t.awaited /\ ~Caught(t)
  <2>1. Die(sent \ {t}) /\ sent \ {t} \in SUBSET sent
    BY <1>1 DEF Lose
  <2> QED BY <2>1, DeathIsOrderly
<1>2. CASE ~(t.awaited /\ ~Caught(t))
  <2>1. Drop(t) /\ (~t.awaited \/ Caught(t))
    BY <1>2 DEF Lose
  <2> QED BY <2>1, DropProcess
<1> QED BY <1>1, <1>2

\* The steps of nobody who plans: what Arcium, the cluster and the faults do.
LEMMA OthersProcess ==
  ASSUME AccountsInOrder, ProcessOK,
         \/ \E t \in sent : Land(t) \/ Refuse(t) \/ Expire(t)
         \/ StrangerSettles \/ Crash \/ Compute \/ FailToCompute \/ Deliver \/ Done
  PROVE  AccountsInOrder' /\ ProcessOK'
<1>0. faults \in Nat
  BY DEF AccountsInOrder, SentOK
<1>1. ASSUME NEW t \in sent, Land(t)
      PROVE  AccountsInOrder' /\ ProcessOK'
  BY <1>1, LandKeepsAccounts, LandProcess
<1>2. ASSUME NEW t \in sent, Refuse(t)
      PROVE  AccountsInOrder' /\ ProcessOK'
  <2>1. UNCHANGED vars /\ faults' = faults /\ ~Accepted(t) /\ (Lose(t) \/ Unnoticed(t))
    BY <1>2 DEF Refuse
  <2>2. CASE Lose(t)
    BY <1>0, <2>1, <2>2, LoseProcess
  <2>3. CASE Unnoticed(t)
    <3>1. operator = "gateway" /\ t.type = "settle" /\ Drop(t)
      BY <2>3 DEF Unnoticed
    <3>2. t.awaited => faults # 0
      BY <2>1, <3>1, SettlementsAccepted DEF OnlyForestallingRefuses
    <3>3. t.awaited \in BOOLEAN
      BY TxParts DEF AccountsInOrder, SentOK
    <3> QED BY <1>0, <2>1, <3>1, <3>2, <3>3, DropProcess
  <2> QED BY <2>1, <2>2, <2>3
<1>3. ASSUME NEW t \in sent, Expire(t)
      PROVE  AccountsInOrder' /\ ProcessOK'
  <2>1. UNCHANGED vars /\ faults' = faults + 1 /\ Lose(t)
    BY <1>3 DEF Expire, Fault
  <2>2. faults' \in Nat /\ faults' # 0
    BY <1>0, <2>1
  <2> QED BY <2>1, <2>2, LoseProcess
<1>4. CASE Crash
  <2>1. UNCHANGED vars /\ faults' = faults + 1 /\ Die(sent)
    BY <1>4 DEF Crash, Fault
  <2>2. faults' \in Nat /\ faults' # 0
    BY <1>0, <2>1
  <2>3. sent \in SUBSET sent
    OBVIOUS
  <2> QED BY <2>1, <2>2, <2>3, DeathIsOrderly
<1>5. CASE Compute \/ FailToCompute
  <2>1. AccountsInOrder' /\ RunDone /\ UNCHANGED <<operator, memory, sent, used>>
    BY <1>5, RunKeepsAccounts
  <2>2. instance \in Nat
    BY DEF AccountsInOrder, ClearingInv, VInv, Types
  <2>3. faults' = faults \/ faults' = faults + 1
    BY <1>5 DEF Compute, FailToCompute, Fault, relayerVars
  <2>4. faults' = 0 => faults = 0
    BY <1>0, <2>3
  <2> QED BY <2>1, <2>2, <2>4, RunProcess
<1>6. CASE Deliver
  <2>1. PICK out \in outputs : Callback(out) /\ UNCHANGED relayerVars
    BY <1>6 DEF Deliver
  <2>2. AccountsInOrder' /\ DeliverDone(out)
    BY <2>1, DeliverKeepsAccounts
  <2>3. UNCHANGED <<operator, memory, sent, used>> /\ faults' = faults
    BY <2>1 DEF relayerVars
  <2> QED BY <2>1, <2>2, <2>3, DeliverProcess
<1>7. CASE Done
  <2>1. UNCHANGED vars /\ UNCHANGED <<operator, memory, sent, used, drawn, faults>>
    BY <1>7 DEF Done, rvars, relayerVars
  <2>2. Own' = Own
    BY <2>1 DEF Own
  <2>3. drawn' \in 0 .. MaxInstances /\ drawn <= drawn' /\ used' \subseteq Stagings
    BY <2>1 DEF AccountsInOrder, SentOK
  <2>4. PICK new : new = {}
    OBVIOUS
  <2>5. sent' \subseteq sent \cup new /\ \A u \in new : TxOK(u)'
    BY <2>1, <2>4
  <2>6. used \subseteq used' /\ faults' \in Nat /\ (faults' = 0 => faults = 0)
    BY <1>0, <2>1
  <2>7. AccountsInOrder'
    BY <2>1, <2>3, <2>5, <2>6, ProcessAccounts
  <2>8. ProcessOK'
    BY <2>1, <2>2, NothingSeen
  <2> QED BY <2>7, <2>8
<1>8. CASE StrangerSettles
  BY <1>8, StrangerKeepsAccounts, StrangerProcess
<1> QED BY <1>1, <1>2, <1>3, <1>4, <1>5, <1>6, <1>7, <1>8

-----------------------------------------------------------------------------
(* The gateway's steps.                                                    *)

\* The step of a process tells where it is.
WhereItIs ==
    /\ memory.step = "start" => operator = "gateway" /\ AtStart
    /\ memory.step = "next" => operator = "gateway" /\ AtNext
    /\ memory.step = "stage" => operator = "gateway" /\ AtStage
    /\ memory.step = "await" => operator = "gateway" /\ AtAwait
    /\ memory.step = "close" => operator = "gateway" /\ AtClose
    /\ memory.step = "settle" => \/ operator = "gateway" /\ AtSettle
                                 \/ operator = "leftovers" /\ AtLeftSettle
    /\ memory.step = "visit" => operator = "leftovers" /\ ((memory \in FirstVisit /\ Own = {}) \/ AtVisit)
\* The step a process remembers says where it is.
LEMMA StepIsPlace == ProcessOK => WhereItIs
<1> SUFFICES ASSUME ProcessOK PROVE WhereItIs
  OBVIOUS
<1>1. CASE operator = "gateway"
  <2>1. /\ AtStart => memory.step = "start"
        /\ AtNext => memory.step = "next"
        /\ AtStage => memory.step = "stage"
        /\ AtAwait => memory.step = "await"
        /\ AtSettle => memory.step = "settle"
        /\ AtClose => memory.step = "close"
    BY DEF AtStart, StartMemory, AtNext, NextMemory, AtStage, StageMemory, AtAwait, AwaitMemory,
           AtSettle, SettleMemory, AtClose, CloseMemory
  <2>2. AtStart \/ AtNext \/ AtStage \/ AtAwait \/ AtSettle \/ AtClose
    BY <1>1 DEF ProcessOK, GatewayOK
  <2> QED BY <1>1, <2>1, <2>2 DEF WhereItIs
<1>2. CASE operator = "leftovers"
  <2>1. /\ memory \in FirstVisit => memory.step = "visit"
        /\ AtVisit => memory.step = "visit"
        /\ AtLeftSettle => memory.step = "settle"
    BY DEF FirstVisit, AtVisit, AtLeftSettle
  <2>2. (memory \in FirstVisit /\ Own = {}) \/ AtVisit \/ AtLeftSettle
    BY <1>2 DEF ProcessOK, LeftoversOK
  <2> QED BY <1>2, <2>1, <2>2 DEF WhereItIs
<1>3. CASE operator \notin {"gateway", "leftovers"}
  <2>1. memory.step = "nothing"
    BY <1>3 DEF ProcessOK, NobodyOK, Nothing
  <2> QED BY <2>1 DEF WhereItIs
<1> QED BY <1>1, <1>2, <1>3

\* The gateway goes on.
LEMMA GatewayGoes ==
  ASSUME operator' = "gateway",
         AtStart' \/ AtNext' \/ AtStage' \/ AtAwait' \/ AtSettle' \/ AtClose'
  PROVE  ProcessOK'
BY DEF ProcessOK, GatewayOK, LeftoversOK, NobodyOK

\* What is confirmed waits for nothing.
LEMMA ConfirmedIs == Confirmed <=> Own = {}
BY DEF Confirmed, Own

\* There are so many batches.
LEMMA BatchesAre ==
  ASSUME NEW records \in Seq(Commitments)
  PROVE  Batches(records) \in Nat
<1>1. Len(records) \in Nat /\ BatchSize \in Nat \ {0}
  BY BatchesNotEmpty
<1>2. PICK n \in Nat : n = Len(records) + BatchSize - 1
  <2>1. Len(records) + BatchSize - 1 \in Nat
    BY <1>1
  <2> QED BY <2>1
<1>3. n \div BatchSize \in Nat
  BY <1>1, <1>2, Quotient
<1> QED BY <1>2, <1>3 DEF Batches

\* One more transaction for the buffer of a process that waited for none.
LEMMA OneMore ==
  ASSUME NEW s, OwnBuffer(s), Own = {}, NEW t, t.awaited, t.s = s, sent' = sent \cup {t},
         UNCHANGED used
  PROVE  Own' = {t} /\ OwnBuffer(s)' /\ \A u \in sent' : u.s = s => u = t
BY DEF Own, OwnBuffer

\* The buffer is opened.
LEMMA OpenSent ==
  ASSUME AccountsInOrder, ProcessOK, SendOpen
  PROVE  AccountsInOrder' /\ ProcessOK'
<1>1. operator = "gateway" /\ AtStart
  BY StepIsPlace DEF SendOpen, WhereItIs
<1>2. memory.records \in Seq(Commitments) /\ Own = {}
  BY <1>1 DEF AtStart, StartMemory
<1>3. PICK s \in Stagings \ used :
        /\ used' = used \cup {s}
        /\ sent' = sent \cup {OpenTx(s)}
        /\ memory' = [step |-> "next", records |-> memory.records, batch |-> 0,
                      last |-> NoOffset, s |-> s]
  BY DEF SendOpen
<1>4. UNCHANGED vars /\ UNCHANGED <<operator, drawn, faults>>
  BY DEF SendOpen
<1>5. /\ OpenTx(s) \in OpenTxs /\ OpenTx(s).s = s /\ OpenTx(s).awaited
      /\ OpenTx(s).type = "open"
  BY DEF OpenTx, OpenTxs
<1>6. TxOK(OpenTx(s))'
  <2>1. PICK t : t = OpenTx(s)
    OBVIOUS
  <2>2. TxOK(t)'
    BY <1>3, <1>5, <2>1 DEF TxOK
  <2> QED BY <2>1, <2>2
<1>7. PICK new : new = {OpenTx(s)}
  OBVIOUS
<1>8. AccountsInOrder'
  <2>1. sent' \subseteq sent \cup new /\ \A t \in new : TxOK(t)'
    BY <1>3, <1>6, <1>7
  <2>2. used \subseteq used' /\ used' \subseteq Stagings /\ drawn' \in 0 .. MaxInstances
        /\ drawn <= drawn' /\ faults' \in Nat /\ (faults' = 0 => faults = 0)
    BY <1>3, <1>4 DEF AccountsInOrder, SentOK
  <2> QED BY <1>4, <2>1, <2>2, ProcessAccounts
<1>9. AtNext'
  <2>1. memory' \in NextMemory
    BY ONLY <1>2, <1>3 DEF NextMemory, Offset, NoOffset
  <2>2. memory'.s = s /\ memory'.batch = 0 /\ memory'.records = memory.records
    BY <1>3
  <2>3. \A t \in sent : t.s \in used /\ ~t.awaited
    BY <1>2 DEF AccountsInOrder, SentOK, TxOK, Own
  <2>4. Own' = {OpenTx(s)} /\ OwnBuffer(s)'
    BY <1>3, <1>5, <2>3 DEF Own, OwnBuffer
  <2>5. staging' = staging
    BY <1>4 DEF vars, clearingVars
  <2>6. ~Account(staging'[s])
    BY <2>5 DEF AccountsInOrder, BuffersFull
  <2>7. 0 \in 0 .. Batches(memory.records)
    BY <1>2, BatchesAre
  <2> QED BY <2>1, <2>2, <2>4, <2>6, <2>7 DEF AtNext
<1> QED BY <1>1, <1>4, <1>8, <1>9, GatewayGoes

\* A step of the gateway that sends nothing.
LEMMA QuietAccounts ==
  ASSUME AccountsInOrder, UNCHANGED <<vars, sent, used, drawn, faults>>
  PROVE  AccountsInOrder' /\ Own' = Own /\ staging' = staging /\ result' = result
         /\ \A s : OwnBuffer(s) => OwnBuffer(s)'
<1>1. PICK new : new = {}
  OBVIOUS
<1>2. sent' \subseteq sent \cup new /\ \A t \in new : TxOK(t)'
  BY <1>1
<1>3. used \subseteq used' /\ used' \subseteq Stagings /\ drawn' \in 0 .. MaxInstances
      /\ drawn <= drawn' /\ faults' \in Nat /\ (faults' = 0 => faults = 0)
  BY DEF AccountsInOrder, SentOK
<1>4. AccountsInOrder'
  BY <1>2, <1>3, ProcessAccounts
<1>5. staging' = staging /\ result' = result
  BY DEF vars, clearingVars
<1> QED BY <1>4, <1>5 DEF Own, OwnBuffer

\* A step of a process that sends one transaction for the buffer.
LEMMA OneSent ==
  ASSUME AccountsInOrder, NEW t, TxOK(t), sent' = sent \cup {t}, UNCHANGED <<vars, used, drawn, faults>>
  PROVE  AccountsInOrder' /\ staging' = staging /\ result' = result
<1>1. PICK new : new = {t}
  OBVIOUS
<1>2. used \subseteq used' /\ used' \subseteq Stagings /\ drawn' \in 0 .. MaxInstances
      /\ drawn <= drawn' /\ faults' \in Nat /\ (faults' = 0 => faults = 0)
  BY DEF AccountsInOrder, SentOK
<1>3. drawn \in Nat /\ drawn' \in Nat
  BY BatchesNotEmpty DEF AccountsInOrder, SentOK
<1>4. TxOK(t)'
  BY <1>2, <1>3, TxStays
<1>5. sent' \subseteq sent \cup new /\ \A u \in new : TxOK(u)'
  BY <1>1, <1>4
<1>6. AccountsInOrder'
  BY <1>2, <1>5, ProcessAccounts
<1>7. staging' = staging /\ result' = result
  BY DEF vars, clearingVars
<1> QED BY <1>6, <1>7

\* What a sequence holds is of the set it is of.
LEMMA RangeWithin ==
  ASSUME NEW S, NEW seq \in Seq(S)
  PROVE  Range(seq) \subseteq S
<1>1. DOMAIN seq = 1 .. Len(seq) /\ \A n \in 1 .. Len(seq) : seq[n] \in S
  OBVIOUS
<1> QED BY <1>1 DEF Range

\* The last batch is settled and every record is paid, so the buffer is closed; else the
\* gateway ends.
LEMMA CloseSent ==
  ASSUME AccountsInOrder, ProcessOK, SendClose
  PROVE  AccountsInOrder' /\ ProcessOK'
<1>1. AtNext /\ operator = "gateway" /\ Own = {}
  BY StepIsPlace, ConfirmedIs DEF SendClose, WhereItIs
<1>2. /\ memory \in NextMemory /\ OwnBuffer(memory.s) /\ Over(result[memory.s])
      /\ HoldsOnly(memory.s, memory.records)
  BY <1>1 DEF AtNext, OpenTx
<1>11. CASE ~(\A k \in Range(memory.records) : ~Owed(k))
  <2>1. Die(sent) /\ UNCHANGED <<vars, faults>> /\ sent \in SUBSET sent
    BY <1>11 DEF SendClose
  <2>2. faults' \in Nat /\ (faults' = 0 => faults = 0)
    BY <2>1 DEF AccountsInOrder, SentOK
  <2> QED BY <2>1, <2>2, DeathIsOrderly
<1> SUFFICES ASSUME \A k \in Range(memory.records) : ~Owed(k)
             PROVE  AccountsInOrder' /\ ProcessOK'
  BY <1>11
<1>3. PICK t : t = CloseTx(memory.s, memory.last)
  OBVIOUS
<1>4. memory.s \in Stagings /\ memory.last \in Offset /\ memory.records \in Seq(Commitments)
  BY <1>2 DEF NextMemory
<1>5. t \in CloseTxs /\ t.s = memory.s /\ t.awaited /\ t.type = "close"
  BY <1>3, <1>4 DEF CloseTx, CloseTxs, Offset
<1>6. TxOK(t)
  BY <1>2, <1>5 DEF TxOK, OwnBuffer
<1>7. sent' = sent \cup {t} /\ memory' = [step |-> "close"] /\ UNCHANGED <<vars, operator, used, drawn, faults>>
  BY <1>3 DEF SendClose
<1>8. AccountsInOrder' /\ staging' = staging /\ result' = result
  BY <1>6, <1>7, OneSent
<1>9. Own' = {t} /\ \A u \in sent' : u.s = memory.s => u = t
  BY <1>1, <1>2, <1>5, <1>7, OneMore
<1>10. AtClose'
  <2>1. memory' \in CloseMemory
    BY <1>7 DEF CloseMemory
  <2>2. Range(memory.records) \subseteq Commitments
    BY <1>4, RangeWithin
  <2>3. PaidUp(memory.s)
    BY <1>2, <2>2 DEF HoldsOnly, PaidUp
  <2>4. settled' = settled
    BY <1>7 DEF vars, custodyVars
  <2>5. PICK s : s = memory.s
    OBVIOUS
  <2>6. PaidUp(s)'
    BY <1>8, <2>3, <2>4, <2>5 DEF PaidUp, Owed
  <2>7. \A u \in Own' : /\ u \in CloseTxs
                        /\ \A v \in sent' : v.s = u.s => v = u
                        /\ Over(result'[u.s]) /\ PaidUp(u.s)'
    BY <1>2, <1>5, <1>8, <1>9, <2>5, <2>6
  <2> QED BY <2>1, <2>7 DEF AtClose, Over
<1> QED BY <1>1, <1>7, <1>8, <1>10, GatewayGoes

\* All is done.
LEMMA DoneProcess ==
  ASSUME AccountsInOrder, ProcessOK, GatewayDone
  PROVE  AccountsInOrder' /\ ProcessOK'
<1>1. /\ operator' \in {"done", "idle"} /\ memory' = Nothing /\ UNCHANGED <<vars, sent, used, drawn, faults>>
      /\ Own = {}
  BY ConfirmedIs DEF GatewayDone
<1>2. AccountsInOrder' /\ Own' = {}
  BY <1>1, QuietAccounts
<1> QED BY <1>1, <1>2 DEF ProcessOK, GatewayOK, LeftoversOK, NobodyOK

\* A batch is of the records it is cut from.
LEMMA BatchWithin ==
  ASSUME NEW records \in Seq(Commitments), NEW b \in 1 .. Batches(records)
  PROVE  /\ Len(BatchOf(records, b)) \in Nat
         /\ DOMAIN BatchOf(records, b) = 1 .. Len(BatchOf(records, b))
         /\ Range(BatchOf(records, b)) \subseteq Range(records)
<1>1. PICK seq : seq = BatchOf(records, b)
  OBVIOUS
<1>2. /\ Len(seq) \in 1 .. BatchSize /\ DOMAIN seq = 1 .. Len(seq)
      /\ \A i \in 1 .. Len(seq) : /\ (b - 1) * BatchSize + i \in 1 .. Len(records)
                                  /\ seq[i] = records[(b - 1) * BatchSize + i]
  BY <1>1, BatchFacts
<1>3. DOMAIN records = 1 .. Len(records)
  OBVIOUS
<1>4. Range(seq) \subseteq Range(records)
  BY <1>2, <1>3 DEF Range
<1> QED BY <1>1, <1>2, <1>4

\* The batch is settled.
LEMMA BatchDone ==
  ASSUME AccountsInOrder, ProcessOK, BatchSettled
  PROVE  AccountsInOrder' /\ ProcessOK'
<1>1. AtSettle /\ operator = "gateway" /\ Own = {} /\ memory.todo = <<>>
  BY StepIsPlace, ConfirmedIs DEF BatchSettled, WhereItIs
<1>2. /\ memory' = [step |-> "next", records |-> memory.records, batch |-> memory.batch,
                    last |-> memory.last, s |-> memory.s]
      /\ UNCHANGED <<vars, sent, used, drawn, faults>> /\ operator' = operator
  BY DEF BatchSettled
<1>3. AccountsInOrder' /\ Own' = Own /\ staging' = staging /\ result' = result
      /\ OwnBuffer(memory.s)'
  BY <1>1, <1>2, QuietAccounts DEF AtSettle
<1>4. memory \in SettleMemory /\ memory.batch \in 1 .. Batches(memory.records)
      /\ SealedBatch(memory.s, ThisBatch, memory.last) /\ result[memory.s].verified
  BY <1>1 DEF AtSettle
<1>5. Over(result[memory.s])
  BY <1>4 DEF Over
<1>8. HoldsOnly(memory.s, memory.records)
  <2>1. memory.records \in Seq(Commitments)
    BY <1>4 DEF SettleMemory
  <2>2. /\ Len(ThisBatch) \in Nat /\ DOMAIN ThisBatch = 1 .. Len(ThisBatch)
        /\ Range(ThisBatch) \subseteq Range(memory.records)
    BY <1>4, <2>1, BatchWithin DEF ThisBatch
  <2>3. \A n \in DOMAIN ThisBatch : staging[memory.s].slots[n - 1].com = ThisBatch[n]
    BY <1>4 DEF SealedBatch
  <2>4. result[memory.s].bitmap = 0 .. Len(ThisBatch) - 1
    BY <1>1 DEF AtSettle
  <2>5. ASSUME NEW i \in 0 .. Len(ThisBatch) - 1
        PROVE  staging[memory.s].slots[i].com \in Range(memory.records)
    <3>1. i + 1 \in DOMAIN ThisBatch /\ (i + 1) - 1 = i
      BY <2>2
    <3>2. ThisBatch[i + 1] \in Range(ThisBatch)
      BY <3>1 DEF Range
    <3> QED BY <2>2, <2>3, <3>1, <3>2
  <2> QED BY <2>4, <2>5 DEF HoldsOnly
<1>6. memory' \in NextMemory
  BY ONLY <1>2, <1>4 DEF NextMemory, SettleMemory
<1>7. AtNext'
  <2>1. memory'.s = memory.s /\ memory'.batch = memory.batch /\ memory'.records = memory.records
    BY <1>2
  <2>2. memory.records \in Seq(Commitments)
    BY <1>4 DEF SettleMemory
  <2>3. memory.batch \in 0 .. Batches(memory.records) /\ memory.batch # 0
    BY <1>4, <2>2, BatchesAre
  <2>4. Account(staging[memory.s])
    BY <1>4 DEF SealedBatch
  <2>5. Own' = {} /\ Account(staging'[memory.s]) /\ Over(result'[memory.s]) /\ memory.batch # 0
    BY <1>1, <1>3, <1>5, <2>3, <2>4
  <2>6. memory'.batch \in 0 .. Batches(memory'.records)
    BY <2>1, <2>3
  <2>7. HoldsOnly(memory.s, memory.records)'
    BY <1>3, <1>8, <2>1 DEF HoldsOnly
  <2> QED BY <1>3, <1>6, <2>1, <2>5, <2>6, <2>7 DEF AtNext, Over
<1> QED BY <1>1, <1>2, <1>3, <1>7, GatewayGoes

-----------------------------------------------------------------------------
(* What the gateway stages, seals and reads.                               *)

\* The seal is sent, under an offset never drawn before.
LEMMA SealSent ==
  ASSUME AccountsInOrder, ProcessOK, SendSeal
  PROVE  AccountsInOrder' /\ ProcessOK'
<1>1. AtStage /\ operator = "gateway" /\ Own = {} /\ memory.plan = {} /\ drawn < MaxInstances
  BY StepIsPlace, ConfirmedIs DEF SendSeal, WhereItIs
<1>2. PICK t : t = [memory.seal EXCEPT !.offset = drawn']
  OBVIOUS
<1>3. /\ drawn' = drawn + 1 /\ sent' = sent \cup {t}
      /\ memory' = [step |-> "await", records |-> memory.records, batch |-> memory.batch,
                    last |-> drawn', s |-> memory.s]
      /\ UNCHANGED <<vars, used, faults>> /\ operator' = operator
  BY <1>2 DEF SendSeal
<1>4. drawn \in Nat /\ drawn' \in 1 .. MaxInstances /\ MaxInstances \in Nat
  BY <1>1, <1>3, BatchesNotEmpty DEF AccountsInOrder, SentOK
<1>5. drawn' \in Offsets /\ drawn' # NoOffset
  BY <1>4, OffsetsEnough DEF NoOffset
<1>6. /\ memory \in StageMemory /\ OwnBuffer(memory.s) /\ memory.batch \in 1 .. Batches(memory.records)
      /\ Underway({memory.seal}, memory.s, ThisBatch)
      /\ memory.seal.count = Len(ThisBatch)
  <2>1. memory.plan \cup Own \cup {memory.seal} = {memory.seal}
    BY <1>1
  <2> QED BY <1>1, <2>1 DEF AtStage
<1>7. memory.s \in Stagings /\ memory.records \in Seq(Commitments) /\ memory.seal \in StagingTxs
  BY <1>6 DEF StageMemory
<1>8. ThisBatch \in Seq(Commitments) /\ Len(ThisBatch) \in 1 .. BatchSize
  BY <1>6, <1>7, BatchFacts DEF ThisBatch
<1>9. PICK u \in StagingTxs : u = memory.seal
  BY <1>7
<1>10. /\ t \in StagingTxs /\ t.s = u.s /\ t.reset = u.reset /\ t.at = u.at
       /\ t.records = u.records /\ t.count = u.count /\ t.offset = drawn' /\ t.awaited = u.awaited
       /\ t.type = "staging"
  <2>1. PICK d \in Offsets : d = drawn'
    BY <1>5
  <2>2. t = [u EXCEPT !.offset = d]
    BY <1>2, <1>9, <2>1
  <2>3. /\ t \in StagingTxs /\ t.s = u.s /\ t.reset = u.reset /\ t.at = u.at
        /\ t.records = u.records /\ t.count = u.count /\ t.offset = d /\ t.awaited = u.awaited
        /\ t.type = "staging"
    BY ONLY <2>2, u \in StagingTxs, d \in Offsets DEF StagingTxs
  <2> QED BY <2>1, <2>3
<1>11. PICK records : records = ThisBatch
  OBVIOUS
<1>12. ChunkOf(u, memory.s, records) /\ Underway({u}, memory.s, records)
  BY <1>6, <1>9, <1>11 DEF Underway
<1>13. t.awaited /\ t.s = memory.s /\ t.at + Len(t.records) <= Len(records) /\ t.count = Len(records)
  BY <1>6, <1>9, <1>10, <1>11, <1>12 DEF ChunkOf
<1>14. TxOK(t)'
  <2>1. t.s \in used'
    BY <1>3, <1>6, <1>13 DEF OwnBuffer
  <2>2. t.at + Len(t.records) <= BatchSize /\ t.count > 0
    <3>1. t.at \in Nat /\ Len(t.records) \in Nat
      BY <1>10 DEF StagingTxs
    <3> QED BY <1>8, <1>11, <1>13, <3>1, BatchesNotEmpty
  <2>3. t.offset \in 1 .. drawn'
    BY <1>4, <1>10
  <2> QED BY <1>10, <2>1, <2>2, <2>3 DEF TxOK
<1>15. AccountsInOrder'
  <2>1. PICK new : new = {t}
    OBVIOUS
  <2>2. sent' \subseteq sent \cup new /\ \A x \in new : TxOK(x)'
    BY <1>3, <1>14, <2>1
  <2>3. used \subseteq used' /\ used' \subseteq Stagings /\ drawn' \in 0 .. MaxInstances
        /\ drawn <= drawn' /\ faults' \in Nat /\ (faults' = 0 => faults = 0)
    BY <1>3, <1>4 DEF AccountsInOrder, SentOK
  <2> QED BY <1>3, <2>2, <2>3, ProcessAccounts
<1>16. /\ memory'.s = memory.s /\ memory'.batch = memory.batch /\ memory'.records = memory.records
       /\ memory'.last = drawn'
  BY <1>3
<1>17. Own' = {t} /\ OwnBuffer(memory.s)'
  BY <1>1, <1>3, <1>6, <1>13, <1>16, OneMore DEF OwnBuffer
<1>18. ThisBatch' = records
  BY <1>11, <1>16 DEF ThisBatch
<1>19. Underway({t}, memory.s, records)'
  <2>1. staging' = staging
    BY <1>3 DEF vars, clearingVars
  <2>2. ChunkOf(t, memory.s, records)
    BY <1>10, <1>12 DEF ChunkOf
  <2>3. \A i : Carries(t, i) <=> Carries(u, i)
    BY <1>10 DEF Carries
  <2>4. /\ Account(staging[memory.s])
        /\ staging[memory.s].sealed => u.reset
    BY <1>12 DEF Underway
  <2>5. ASSUME NEW i \in 0 .. Len(records) - 1
        PROVE  Carries(u, i) \/ (InPlace(staging[memory.s], records, i) /\ ~u.reset)
    <3>1. \/ \E x \in {u} : Carries(x, i)
          \/ InPlace(staging[memory.s], records, i) /\ \A x \in {u} : ~x.reset
      BY <1>12 DEF Underway
    <3> QED BY <3>1
  <2>6. staging'[memory'.s] = staging[memory.s]
    BY <1>16, <2>1
  <2>7. ChunkOf(t, memory'.s, records)
    BY <1>16, <2>2
  <2>8. PICK txs : txs = {t}
    OBVIOUS
  <2>9. Underway(txs, memory.s, records)'
    BY <1>10, <2>3, <2>4, <2>5, <2>6, <2>7, <2>8 DEF Underway
  <2> QED BY <2>8, <2>9
<1>20. SealWaits'
  BY <1>10, <1>13, <1>16, <1>17, <1>18, <1>19 DEF SealWaits
<1>21. AtAwait'
  <2>1. memory' \in AwaitMemory
    <3>1. memory.batch \in Nat
      BY <1>6 DEF StageMemory
    <3>2. drawn' \in Offset
      BY <1>5 DEF Offset
    <3> QED BY ONLY <1>3, <1>7, <3>1, <3>2 DEF AwaitMemory
  <2> QED BY <1>5, <1>6, <1>16, <1>17, <1>20, <2>1 DEF AtAwait
<1> QED BY <1>1, <1>3, <1>15, <1>21, GatewayGoes

\* The chunks are sent: the first alone, if it is still to be sent, else all the rest.
LEMMA FirstFacts ==
  ASSUME NEW plan, \A t, u \in plan : t.at = u.at => t = u, \A t \in plan : t.reset => t.at = 0
  PROVE  /\ FirstToSend(plan) \subseteq plan
         /\ \A t \in FirstToSend(plan) : t.reset \/ \A u \in plan : ~u.reset
<1>1. CASE \E t \in plan : t.at = 0
  BY <1>1 DEF FirstToSend
<1>2. CASE ~ \E t \in plan : t.at = 0
  BY <1>2 DEF FirstToSend
<1> QED BY <1>1, <1>2

\* The chunks that may land in any order are sent together.
LEMMA ChunksSent ==
  ASSUME AccountsInOrder, ProcessOK, SendChunks
  PROVE  AccountsInOrder' /\ ProcessOK'
<1>1. AtStage /\ operator = "gateway" /\ Own = {} /\ memory.plan # {}
  BY StepIsPlace, ConfirmedIs DEF SendChunks, WhereItIs
<1>2. PICK plan, first : plan = memory.plan /\ first = FirstToSend(plan)
  OBVIOUS
<1>3. /\ sent' = sent \cup first /\ memory' = [memory EXCEPT !.plan = plan \ first]
      /\ UNCHANGED <<vars, used, drawn, faults>> /\ operator' = operator
  BY <1>2 DEF SendChunks
<1>4. /\ memory \in StageMemory /\ OwnBuffer(memory.s) /\ memory.batch \in 1 .. Batches(memory.records)
      /\ Underway(plan \cup {memory.seal}, memory.s, ThisBatch)
      /\ \A t \in plan : t \in StagingTxs /\ PlainChunk(t)
      /\ \A t, u \in plan : t.at = u.at => t = u
      /\ memory.seal.count = Len(ThisBatch) /\ memory.seal.claim = memory.last
      /\ ~memory.seal.reset
  <2>1. memory.plan \cup Own \cup {memory.seal} = plan \cup {memory.seal} /\ memory.plan \cup Own = plan
    BY <1>1, <1>2
  <2>2. memory.seal \in StagingTxs
    BY <1>1 DEF AtStage, StageMemory
  <2> QED BY <1>1, <2>1 DEF AtStage
<1>5. memory.s \in Stagings /\ memory.records \in Seq(Commitments)
  BY <1>4 DEF StageMemory
<1>6. Len(ThisBatch) \in 1 .. BatchSize
  BY <1>4, <1>5, BatchFacts DEF ThisBatch
<1>7. \A t \in plan : ChunkOf(t, memory.s, ThisBatch)
  BY <1>4 DEF Underway
<1>8. /\ first \subseteq plan /\ \A t \in first : t.reset \/ \A u \in plan : ~u.reset
  <2>1. \A t \in plan : t.reset => t.at = 0
    BY <1>7 DEF ChunkOf
  <2> QED BY <1>2, <1>4, <2>1, FirstFacts
<1>9. \A t \in plan : t.awaited /\ t.s = memory.s /\ t.type = "staging" /\ TxOK(t)
  <2> SUFFICES ASSUME NEW t \in plan
               PROVE  t.awaited /\ t.s = memory.s /\ t.type = "staging" /\ TxOK(t)
    OBVIOUS
  <2>1. t \in StagingTxs /\ PlainChunk(t) /\ ChunkOf(t, memory.s, ThisBatch)
    BY <1>4, <1>7
  <2>2. t.awaited /\ t.s = memory.s /\ t.type = "staging" /\ t.count = 0 /\ t.records # <<>>
    BY <2>1 DEF ChunkOf, StagingTxs, PlainChunk
  <2>3. t.at \in Nat /\ Len(t.records) \in Nat /\ t.at + Len(t.records) <= Len(ThisBatch)
    BY <2>1 DEF ChunkOf, StagingTxs
  <2>4. t.at + Len(t.records) <= BatchSize
    BY <1>6, <2>3, BatchesNotEmpty
  <2>5. t.s \in used
    BY <1>4, <2>2 DEF OwnBuffer
  <2> QED BY <2>1, <2>2, <2>4, <2>5 DEF TxOK
<1>10. AccountsInOrder'
  <2>1. \A t \in first : TxOK(t)'
    <3>1. drawn \in Nat /\ drawn' \in Nat /\ drawn <= drawn' /\ used \subseteq used'
      BY <1>3, BatchesNotEmpty DEF AccountsInOrder, SentOK
    <3> QED BY <1>8, <1>9, <3>1, TxStays
  <2>2. used \subseteq used' /\ used' \subseteq Stagings /\ drawn' \in 0 .. MaxInstances
        /\ drawn <= drawn' /\ faults' \in Nat /\ (faults' = 0 => faults = 0)
    BY <1>3 DEF AccountsInOrder, SentOK
  <2>3. sent' \subseteq sent \cup first
    BY <1>3
  <2> QED BY <1>3, <2>1, <2>2, <2>3, ProcessAccounts
<1>11. /\ memory' \in StageMemory /\ memory'.s = memory.s /\ memory'.batch = memory.batch
       /\ memory'.records = memory.records /\ memory'.last = memory.last
       /\ memory'.seal = memory.seal /\ memory'.plan = plan \ first
  <2>1. PICK n, m : m = memory /\ m \in StageMemory /\ n = [m EXCEPT !.plan = plan \ first]
    BY <1>4
  <2>2. plan \ first \in SUBSET StagingTxs
    BY <1>4
  <2>3. /\ n \in StageMemory /\ n.s = m.s /\ n.batch = m.batch
        /\ n.records = m.records /\ n.last = m.last
        /\ n.seal = m.seal /\ n.plan = plan \ first
    BY ONLY <2>1, <2>2 DEF StageMemory
  <2> QED BY <1>3, <2>1, <2>3
<1>12. Own' = first
  BY <1>1, <1>3, <1>8, <1>9 DEF Own
<1>13. OwnBuffer(memory.s)'
  BY <1>1, <1>3, <1>4, <1>8, <1>9, <1>11 DEF OwnBuffer, Own
<1>14. PICK records : records = ThisBatch
  OBVIOUS
<1>15. ThisBatch' = records
  BY <1>11, <1>14 DEF ThisBatch
<1>16. PICK txs : txs = plan \cup {memory.seal}
  OBVIOUS
<1>17. (memory.plan \cup Own \cup {memory.seal})' = txs /\ (memory.plan \cup Own)' = plan
  BY <1>8, <1>11, <1>12, <1>16
<1>18. Underway(txs, memory.s, records)'
  <2>1. staging' = staging
    BY <1>3 DEF vars, clearingVars
  <2>2. Underway(txs, memory.s, records)
    BY <1>4, <1>14, <1>16
  <2> QED BY <1>11, <2>1, <2>2 DEF Underway
<1>19. AtStage'
  <2>1. Underway(memory.plan \cup Own \cup {memory.seal}, memory.s, ThisBatch)'
    BY <1>15, <1>17, <1>18
  <2>2. memory'.plan \cap Own' = {}
    BY <1>11, <1>12
  <2>3. \A t \in Own' : t.reset \/ \A u \in plan : ~u.reset
    BY <1>8, <1>12
  <2> QED BY <1>4, <1>11, <1>13, <1>14, <1>15, <1>17, <2>1, <2>2, <2>3 DEF AtStage
<1> QED BY <1>1, <1>3, <1>10, <1>19, GatewayGoes

-----------------------------------------------------------------------------
(* What a loop keeps of a list.                                            *)

\* f[i] is what is kept of the first i entries.
Keeps(f, n, test, entry) ==
    /\ f = [i \in 0 .. n |-> f[i]] /\ f[0] = <<>>
    /\ \A i \in 1 .. n : f[i] = IF test[i] THEN Append(f[i - 1], entry[i]) ELSE f[i - 1]

\* The loop is defined.
LEMMA KeptExists ==
  ASSUME NEW S, NEW n \in Nat, NEW test \in [1 .. n -> BOOLEAN], NEW entry \in [1 .. n -> S]
  PROVE  \E f : Keeps(f, n, test, entry)
<1> DEFINE T == Seq(S)
           put(i, q) == IF test[i] THEN Append(q, entry[i]) ELSE q
           step == [i \in 1 .. n |-> [q \in T |-> put(i, q)]]
<1>1. <<>> \in T
  OBVIOUS
<1>2. \A i \in 1 .. n, q \in T : put(i, q) \in T
  OBVIOUS
<1>3. step \in [1 .. n -> [T -> T]]
  <2>1. \A i \in 1 .. n : [q \in T |-> put(i, q)] \in [T -> T]
    <3> HIDE DEF T, put
    <3> QED BY <1>2
  <2> QED BY <2>1
<1>4. PICK f : Unfolds(f, T, n, <<>>, step)
  <2> HIDE DEF T, step
  <2> QED BY <1>1, <1>3, Recursion
<1>5. f \in [0 .. n -> T] /\ f[0] = <<>> /\ \A i \in 1 .. n : f[i] = step[i][f[i - 1]]
  <2> HIDE DEF T, step
  <2> QED BY <1>4 DEF Unfolds
<1>6. \A i \in 1 .. n : f[i] = put(i, f[i - 1])
  <2> HIDE DEF T, put
  <2> SUFFICES ASSUME NEW i \in 1 .. n PROVE f[i] = put(i, f[i - 1])
    OBVIOUS
  <2>1. f[i - 1] \in T
    BY <1>5
  <2> QED BY <1>5, <2>1
<1> QED BY <1>5, <1>6 DEF Keeps

\* What is kept: some of the entries, in order; all of them, if each is.
LEMMA KeptIs ==
  ASSUME NEW S, NEW n \in Nat, NEW test \in [1 .. n -> BOOLEAN], NEW entry \in [1 .. n -> S],
         NEW f, Keeps(f, n, test, entry)
  PROVE  /\ f[n] \in Seq(S) /\ Len(f[n]) <= n
         /\ \A i \in 1 .. n : test[i] => entry[i] \in Range(f[n])
         /\ (\A i \in 1 .. n : test[i]) =>
               Len(f[n]) = n /\ \A i \in 1 .. n : f[n][i] = entry[i]
<1> DEFINE Good(m) ==
      /\ f[m] \in Seq(S) /\ Len(f[m]) <= m
      /\ \A i \in 1 .. m : test[i] => \E a \in 1 .. Len(f[m]) : f[m][a] = entry[i]
      /\ (\A i \in 1 .. n : test[i]) =>
            Len(f[m]) = m /\ \A i \in 1 .. m : f[m][i] = entry[i]
           A == {m \in 0 .. n : Good(m)}
<1> HIDE DEF Good
<1>1. 0 \in A
  <2>1. Good(0)
    BY DEF Good, Keeps
  <2> QED BY <2>1
<1>2. \A m \in 0 .. n - 1 : m \in A => m + 1 \in A
  <2> SUFFICES ASSUME NEW m \in 0 .. n - 1, Good(m)
               PROVE  Good(m + 1)
    OBVIOUS
  <2>1. m + 1 \in 1 .. n /\ (m + 1) - 1 = m /\ m \in Nat
    OBVIOUS
  <2>2. PICK q \in Seq(S) : q = f[m]
    BY DEF Good
  <2>3. PICK e \in S : e = entry[m + 1]
    BY <2>1
  <2>4. f[m + 1] = IF test[m + 1] THEN Append(q, e) ELSE q
    BY <2>1, <2>2, <2>3 DEF Keeps
  <2>5. /\ Len(q) \in Nat /\ Len(q) <= m
        /\ \A i \in 1 .. m : test[i] => \E a \in 1 .. Len(q) : q[a] = entry[i]
        /\ (\A i \in 1 .. n : test[i]) => Len(q) = m /\ \A i \in 1 .. m : q[i] = entry[i]
    BY <2>2 DEF Good
  <2>6. \A i \in 1 .. m + 1 : i \in 1 .. m \/ i = m + 1
    BY <2>1
  <2>7. CASE test[m + 1]
    <3>1. PICK w : w = Append(q, e)
      OBVIOUS
    <3>2. /\ w \in Seq(S) /\ Len(w) = Len(q) + 1 /\ w[Len(q) + 1] = e
          /\ \A a \in 1 .. Len(q) : w[a] = q[a]
      BY <3>1
    <3>3. f[m + 1] = w
      BY <2>4, <2>7, <3>1
    <3>4. Len(w) \in Nat /\ Len(w) <= m + 1 /\ Len(q) + 1 \in 1 .. Len(w)
          /\ \A a \in 1 .. Len(q) : a \in 1 .. Len(w)
      BY <2>5, <3>2
    <3>5. \A i \in 1 .. m + 1 : test[i] => \E a \in 1 .. Len(w) : w[a] = entry[i]
      BY <2>3, <2>5, <2>6, <3>2, <3>4
    <3>6. (\A i \in 1 .. n : test[i]) => Len(w) = m + 1 /\ \A i \in 1 .. m + 1 : w[i] = entry[i]
      BY <2>3, <2>5, <2>6, <3>2
    <3> QED BY <3>2, <3>3, <3>4, <3>5, <3>6 DEF Good
  <2>8. CASE ~test[m + 1]
    <3>1. f[m + 1] = q
      BY <2>4, <2>8
    <3>2. \A i \in 1 .. m + 1 : test[i] => \E a \in 1 .. Len(q) : q[a] = entry[i]
      BY <2>5, <2>6, <2>8
    <3>3. ~ \A i \in 1 .. n : test[i]
      BY <2>1, <2>8
    <3>4. Len(q) <= m + 1
      BY <2>1, <2>5
    <3> QED BY <3>1, <3>2, <3>3, <3>4 DEF Good
  <2>9. test[m + 1] \in BOOLEAN
    BY <2>1
  <2> QED BY <2>7, <2>8
<1>3. 0 .. n \subseteq A
  <2> HIDE DEF A
  <2> QED BY <1>1, <1>2, Induction
<1>4. Good(n)
  <2>1. n \in 0 .. n
    OBVIOUS
  <2> QED BY <1>3, <2>1
<1>5. \A a \in 1 .. Len(f[n]) : f[n][a] \in Range(f[n])
  BY <1>4 DEF Range, Good
<1> QED BY <1>4, <1>5 DEF Good

\* Of entries none of which is to be kept, none is.
LEMMA KeptNone ==
  ASSUME NEW n \in Nat, NEW test, NEW entry, NEW f, Keeps(f, n, test, entry),
         \A i \in 1 .. n : ~test[i]
  PROVE  f[n] = <<>>
<1> DEFINE A == {m \in 0 .. n : f[m] = <<>>}
<1>1. 0 \in A
  BY DEF Keeps
<1>2. \A m \in 0 .. n - 1 : m \in A => m + 1 \in A
  <2> SUFFICES ASSUME NEW m \in 0 .. n - 1, f[m] = <<>> PROVE m + 1 \in 0 .. n /\ f[m + 1] = <<>>
    OBVIOUS
  <2>1. m + 1 \in 1 .. n /\ m + 1 \in 0 .. n
    OBVIOUS
  <2>2. \A i \in 1 .. n : f[i] = f[i - 1]
    BY DEF Keeps
  <2>3. f[m + 1] = f[(m + 1) - 1] /\ (m + 1) - 1 = m
    BY <2>1, <2>2
  <2> QED BY <2>1, <2>3
<1>3. 0 .. n \subseteq A
  <2> HIDE DEF A
  <2> QED BY <1>1, <1>2, Induction
<1> QED BY <1>3

\* The indices in their order: all of them, each an index.
LEMMA InOrderIs ==
  ASSUME NEW indices, indices \subseteq Indices
  PROVE  InOrder(indices) \in Seq(Indices) /\ Len(InOrder(indices)) <= BatchSize
         /\ indices \subseteq Range(InOrder(indices))
<1> DEFINE taken[i \in 0 .. BatchSize] ==
             IF i = 0 THEN <<>>
             ELSE IF i - 1 \in indices THEN Append(taken[i - 1], i - 1) ELSE taken[i - 1]
           test == [i \in 1 .. BatchSize |-> i - 1 \in indices]
           entry == [i \in 1 .. BatchSize |-> i - 1]
<1>0. BatchSize \in Nat
  BY BatchesNotEmpty
<1>1. test \in [1 .. BatchSize -> BOOLEAN] /\ entry \in [1 .. BatchSize -> Indices]
  <2>1. \A i \in 1 .. BatchSize : i - 1 \in Indices
    BY <1>0 DEF Indices
  <2> QED BY <2>1
<1>2. PICK f : Keeps(f, BatchSize, test, entry)
  <2> HIDE DEF test, entry
  <2> QED BY <1>0, <1>1, KeptExists
<1>3. f = [i \in 0 .. BatchSize |->
             IF i = 0 THEN <<>>
             ELSE IF i - 1 \in indices THEN Append(f[i - 1], i - 1) ELSE f[i - 1]]
  <2>1. f = [i \in 0 .. BatchSize |-> f[i]] /\ f[0] = <<>>
        /\ \A i \in 1 .. BatchSize : f[i] = IF test[i] THEN Append(f[i - 1], entry[i]) ELSE f[i - 1]
    BY <1>2 DEF Keeps
  <2>2. \A i \in 1 .. BatchSize : f[i] = IF i - 1 \in indices THEN Append(f[i - 1], i - 1) ELSE f[i - 1]
    BY <2>1
  <2>3. \A i \in 0 .. BatchSize : i = 0 \/ i \in 1 .. BatchSize
    BY <1>0
  <2> QED BY <2>1, <2>2, <2>3
<1>4. taken = [i \in 0 .. BatchSize |->
                 IF i = 0 THEN <<>>
                 ELSE IF i - 1 \in indices THEN Append(taken[i - 1], i - 1) ELSE taken[i - 1]]
  BY <1>3, Zenon
<1>5. InOrder(indices) = taken[BatchSize]
  BY DEF InOrder
<1> HIDE DEF taken
<1>6. Keeps(taken, BatchSize, test, entry)
  <2>1. taken = [i \in 0 .. BatchSize |-> taken[i]]
    BY <1>4
  <2>2. taken[0] = <<>>
    BY <1>0, <1>4
  <2>3. ASSUME NEW i \in 1 .. BatchSize
        PROVE  taken[i] = IF test[i] THEN Append(taken[i - 1], entry[i]) ELSE taken[i - 1]
    <3>1. i \in 0 .. BatchSize /\ i # 0 /\ test[i] = (i - 1 \in indices) /\ entry[i] = i - 1
      BY <1>0
    <3> HIDE DEF test, entry
    <3> QED BY <1>4, <3>1
  <2> HIDE DEF test, entry
  <2> QED BY <2>1, <2>2, <2>3 DEF Keeps
<1>7. /\ taken[BatchSize] \in Seq(Indices) /\ Len(taken[BatchSize]) <= BatchSize
      /\ \A i \in 1 .. BatchSize : test[i] => entry[i] \in Range(taken[BatchSize])
  <2> HIDE DEF test, entry
  <2> QED BY <1>0, <1>1, <1>6, KeptIs
<1>8. ASSUME NEW j \in indices
      PROVE  j \in Range(taken[BatchSize])
  <2>1. j + 1 \in 1 .. BatchSize /\ (j + 1) - 1 = j
    BY <1>0 DEF Indices
  <2>2. test[j + 1] /\ entry[j + 1] = j
    BY <2>1
  <2> HIDE DEF test, entry
  <2> QED BY <1>7, <2>1, <2>2
<1> QED BY <1>5, <1>7, <1>8

\* What is owed: records, all the records while none is paid, and nothing when all are.
LEMMA OwingIs ==
  /\ Owing \in Seq(Commitments)
  /\ (\A n \in DOMAIN Records : Owed(Records[n])) => Owing = Records
  /\ (\A n \in DOMAIN Records : ~Owed(Records[n])) => Owing = <<>>
<1> DEFINE N == Len(Records)
           kept[n \in 0 .. N] ==
             IF n = 0 THEN <<>>
             ELSE IF Owed(Records[n]) THEN Append(kept[n - 1], Records[n]) ELSE kept[n - 1]
           test == [n \in 1 .. N |-> Owed(Records[n])]
           entry == [n \in 1 .. N |-> Records[n]]
<1>0. N \in Nat /\ Records \in Seq(Commitments) /\ DOMAIN Records = 1 .. N
  BY KindFacts
<1>1. test \in [1 .. N -> BOOLEAN] /\ entry \in [1 .. N -> Commitments]
  <2>1. \A n \in 1 .. N : Records[n] \in Commitments /\ Owed(Records[n]) \in BOOLEAN
    BY <1>0 DEF Owed
  <2> QED BY <2>1
<1>2. PICK f : Keeps(f, N, test, entry)
  <2> HIDE DEF test, entry, N
  <2> QED BY <1>0, <1>1, KeptExists
<1>3. f = [n \in 0 .. N |->
             IF n = 0 THEN <<>>
             ELSE IF Owed(Records[n]) THEN Append(f[n - 1], Records[n]) ELSE f[n - 1]]
  <2>1. f = [n \in 0 .. N |-> f[n]] /\ f[0] = <<>>
        /\ \A n \in 1 .. N : f[n] = IF test[n] THEN Append(f[n - 1], entry[n]) ELSE f[n - 1]
    BY <1>2 DEF Keeps
  <2>2. \A n \in 1 .. N : f[n] = IF Owed(Records[n]) THEN Append(f[n - 1], Records[n]) ELSE f[n - 1]
    BY <2>1
  <2>3. \A n \in 0 .. N : n = 0 \/ n \in 1 .. N
    BY <1>0
  <2> QED BY <2>1, <2>2, <2>3
<1>4. kept = [n \in 0 .. N |->
                IF n = 0 THEN <<>>
                ELSE IF Owed(Records[n]) THEN Append(kept[n - 1], Records[n]) ELSE kept[n - 1]]
  BY <1>3, Zenon
<1>5. Owing = kept[N]
  BY DEF Owing
<1> HIDE DEF kept
<1>6. Keeps(kept, N, test, entry)
  <2>1. kept = [n \in 0 .. N |-> kept[n]]
    BY <1>4
  <2>2. kept[0] = <<>>
    BY <1>0, <1>4
  <2>3. ASSUME NEW n \in 1 .. N
        PROVE  kept[n] = IF test[n] THEN Append(kept[n - 1], entry[n]) ELSE kept[n - 1]
    <3>1. n \in 0 .. N /\ n # 0 /\ test[n] = Owed(Records[n]) /\ entry[n] = Records[n]
      BY <1>0
    <3> HIDE DEF test, entry, N
    <3> QED BY <1>4, <3>1
  <2> HIDE DEF test, entry
  <2> QED BY <2>1, <2>2, <2>3 DEF Keeps
<1>7. /\ kept[N] \in Seq(Commitments)
      /\ (\A n \in 1 .. N : test[n]) => Len(kept[N]) = N /\ \A n \in 1 .. N : kept[N][n] = entry[n]
  <2> HIDE DEF test, entry, N
  <2> QED BY <1>0, <1>1, <1>6, KeptIs
<1>8. ASSUME \A n \in DOMAIN Records : Owed(Records[n])
      PROVE  kept[N] = Records
  <2>1. \A n \in 1 .. N : test[n] /\ entry[n] = Records[n]
    BY <1>0, <1>8
  <2>2. PICK q \in Seq(Commitments) : q = kept[N]
    BY <1>7
  <2>3. Len(q) = N /\ \A n \in 1 .. N : q[n] = Records[n]
    BY <1>7, <2>1, <2>2
  <2> QED BY <1>0, <2>2, <2>3
<1>9. ASSUME \A n \in DOMAIN Records : ~Owed(Records[n])
      PROVE  kept[N] = <<>>
  <2>1. \A n \in 1 .. N : ~test[n]
    BY <1>0, <1>9
  <2> HIDE DEF test, entry, N
  <2> QED BY <1>0, <1>6, <2>1, KeptNone
<1> QED BY <1>5, <1>7, <1>8, <1>9

\* Of some numbers up to n, one is the least, and one the greatest.
LEMMA LeastIs ==
  ASSUME NEW n \in Nat, NEW S, S \subseteq 0 .. n, S # {}
  PROVE  \E e \in S : \A o \in S : e <= o
<1> DEFINE A == {m \in 0 .. n : (\E x \in S : x <= m) => \E e \in S : \A o \in S : e <= o}
<1>0. S \subseteq Nat
  OBVIOUS
<1>1. 0 \in A
  BY <1>0
<1>2. \A m \in 0 .. n - 1 : m \in A => m + 1 \in A
  <2> SUFFICES ASSUME NEW m \in 0 .. n - 1, m \in A, NEW x \in S, x <= m + 1
               PROVE  \E e \in S : \A o \in S : e <= o
    OBVIOUS
  <2>1. CASE \E y \in S : y <= m
    BY <2>1
  <2>2. CASE ~ \E y \in S : y <= m
    <3>1. \A o \in S : x <= o
      BY <1>0, <2>2
    <3> QED BY <3>1
  <2> QED BY <2>1, <2>2
<1>3. 0 .. n \subseteq A
  <2> HIDE DEF A
  <2> QED BY <1>1, <1>2, Induction
<1>4. n \in A
  BY <1>3
<1> HIDE DEF A
<1>5. PICK x : x \in S
  OBVIOUS
<1>6. x \in 0 .. n /\ n \in 0 .. n
  BY <1>5
<1>7. \E y \in S : y <= n
  BY <1>5, <1>6
<1> QED BY <1>4, <1>7 DEF A

\* Every set of numbers that is bounded and not empty has a greatest one.
LEMMA GreatestIs ==
  ASSUME NEW n \in Nat, NEW S, S \subseteq 0 .. n, S # {}
  PROVE  \E e \in S : \A o \in S : o <= e
<1> DEFINE T == {n - x : x \in S}
<1>1. T \subseteq 0 .. n /\ T # {}
  <2>1. T \subseteq 0 .. n
    OBVIOUS
  <2>2. PICK x : x \in S
    OBVIOUS
  <2>3. n - x \in T
    BY <2>2
  <2> QED BY <2>1, <2>3
<1>2. PICK e \in T : \A o \in T : e <= o
  <2> HIDE DEF T
  <2> QED BY <1>1, LeastIs
<1>3. PICK x \in S : e = n - x
  BY <1>2
<1>4. \A o \in S : n - o \in T
  OBVIOUS
<1>5. \A o \in S : e <= n - o
  BY <1>2, <1>4
<1>6. \A o \in S : o \in 0 .. n
  OBVIOUS
<1>7. \A o \in S : o <= x
  BY <1>3, <1>5, <1>6
<1> QED BY <1>7

\* The session: a beginning of what is owed, all of it when all can be batched.
LEMMA SessionIs ==
  /\ Session \in Seq(Commitments)
  /\ FollowsOn(Owing) => Session = Owing
<1>1. PICK q \in Seq(Commitments) : q = Owing
  BY OwingIs
<1>2. PICK N \in Nat : N = Len(q)
  OBVIOUS
<1> DEFINE S == {n \in 0 .. N : FollowsOn(SubSeq(q, 1, n))}
           fits(n) == /\ FollowsOn(SubSeq(q, 1, n))
                      /\ \A m \in n + 1 .. N : ~FollowsOn(SubSeq(q, 1, m))
<1>3. Session = SubSeq(q, 1, CHOOSE n \in 0 .. N : fits(n))
  BY <1>1, <1>2 DEF Session
<1>4. FollowsOn(<<>>)
  <2>1. Batches(<<>>) = 0
    <3>1. Len(<<>>) = 0 /\ BatchSize \in Nat \ {0} /\ 0 + BatchSize - 1 = BatchSize - 1
      BY BatchesNotEmpty
    <3>2. (BatchSize - 1) \div BatchSize = 0
      BY <3>1
    <3> QED BY <3>1, <3>2 DEF Batches
  <2>2. 1 .. 0 = {}
    OBVIOUS
  <2> QED BY <2>1, <2>2 DEF FollowsOn
<1>5. SubSeq(q, 1, 0) = <<>>
  BY <1>1
<1>6. 0 \in S
  <2>1. PICK z : z = SubSeq(q, 1, 0)
    OBVIOUS
  <2>2. z = <<>>
    BY <1>5, <2>1
  <2>3. FollowsOn(z)
    BY <1>4, <2>2
  <2> QED BY <1>2, <2>1, <2>3
<1>7. PICK e \in S : \A o \in S : o <= e
  <2>1. S \subseteq 0 .. N /\ S # {}
    BY <1>6
  <2> HIDE DEF S
  <2> QED BY <1>2, <2>1, GreatestIs
<1>8. e \in 0 .. N /\ fits(e)
  <2>1. e \in 0 .. N /\ FollowsOn(SubSeq(q, 1, e))
    OBVIOUS
  <2>2. ASSUME NEW m \in e + 1 .. N, FollowsOn(SubSeq(q, 1, m))
        PROVE  FALSE
    <3>1. m \in 0 .. N /\ ~(m <= e)
      BY <1>2, <2>1
    <3>2. m \in S
      BY <2>2, <3>1
    <3> QED BY <1>7, <3>1, <3>2
  <2> QED BY <2>1, <2>2
<1> HIDE DEF fits, S
<1>9. PICK n \in 0 .. N : n = (CHOOSE x \in 0 .. N : fits(x)) /\ fits(n)
  BY <1>8
<1>10. Session = SubSeq(q, 1, n)
  BY <1>3, <1>9
<1>11. SubSeq(q, 1, n) \in Seq(Commitments)
  <2>1. q \in Seq(Commitments) /\ n \in 0 .. Len(q)
    BY <1>2
  <2>2. \A i \in 1 .. n : q[i] \in Commitments
    BY <2>1
  <2> QED BY <2>1, <2>2
<1>12. SubSeq(q, 1, N) = q
  BY <1>1, <1>2
<1>13. ASSUME FollowsOn(q)
       PROVE  n = N
  <2>1. ~(N \in n + 1 .. N)
    BY <1>9, <1>12, <1>13 DEF fits
  <2> QED BY <1>2, <2>1
<1> QED BY <1>1, <1>10, <1>11, <1>12, <1>13


-----------------------------------------------------------------------------
(* Verdicts read, settlements sent, and leftovers.                         *)

\* A list cut in two.
IsCut(S, seq, n, a, b) ==
    /\ a \in [1 .. n -> S] /\ b \in Seq(S) /\ Len(b) <= Len(seq)
    /\ Range(seq) = Range(a) \cup Range(b)
    /\ Once(seq) => Once(a) /\ Once(b) /\ Range(a) \cap Range(b) = {}
\* A sequence cut in two.
LEMMA CutInTwo ==
  ASSUME NEW S, NEW seq \in Seq(S), NEW n \in 1 .. Len(seq)
  PROVE  IsCut(S, seq, n, SubSeq(seq, 1, n), SubSeq(seq, n + 1, Len(seq)))
<1> PICK a, b : a = SubSeq(seq, 1, n) /\ b = SubSeq(seq, n + 1, Len(seq))
  OBVIOUS
<1> PICK l : l = Len(seq)
  OBVIOUS
<1>0. l \in Nat /\ n \in Nat /\ n >= 1 /\ n <= l /\ DOMAIN seq = 1 .. l
      /\ \A i \in 1 .. l : seq[i] \in S
  OBVIOUS
<1>00. PICK p \in Nat : p = l - n /\ l = n + p
  <2>1. l - n \in Nat /\ l = n + (l - n)
    BY <1>0
  <2> QED BY <2>1
<1>1. /\ a \in Seq(S) /\ Len(a) = n /\ \A i \in 1 .. n : a[i] = seq[i]
  <2>1. \A i \in 1 .. n : seq[i] \in S /\ 1 + i - 1 = i
    BY <1>0
  <2>2. /\ SubSeq(seq, 1, n) \in Seq(S) /\ Len(SubSeq(seq, 1, n)) = n - 1 + 1
        /\ \A i \in 1 .. n - 1 + 1 : SubSeq(seq, 1, n)[i] = seq[1 + i - 1]
    BY <1>0, <2>1, SubSeqProperties
  <2>3. n - 1 + 1 = n
    BY <1>0
  <2> QED BY <2>1, <2>2, <2>3
<1>2. /\ b \in Seq(S) /\ Len(b) = p /\ \A i \in 1 .. p : b[i] = seq[n + i]
  <2>1. \A i \in n + 1 .. l : seq[i] \in S
    BY <1>0
  <2>2. /\ SubSeq(seq, n + 1, l) \in Seq(S)
        /\ Len(SubSeq(seq, n + 1, l)) = IF n + 1 <= l THEN l - (n + 1) + 1 ELSE 0
        /\ \A i \in 1 .. l - (n + 1) + 1 : SubSeq(seq, n + 1, l)[i] = seq[n + 1 + i - 1]
    BY <1>0, <2>1, SubSeqProperties
  <2>3. l - (n + 1) + 1 = p /\ \A i \in 1 .. p : n + 1 + i - 1 = n + i
    BY <1>0, <1>00
  <2>4. (IF n + 1 <= l THEN l - (n + 1) + 1 ELSE 0) = p
    <3>1. CASE p = 0
      <4>1. ~(n + 1 <= l)
        BY <1>0, <1>00, <3>1
      <4> QED BY <3>1, <4>1
    <3>2. CASE p >= 1
      <4>1. n + 1 <= l
        BY <1>0, <1>00, <3>2
      <4> QED BY <2>3, <4>1
    <3> QED BY <1>00, <3>1, <3>2
  <2> QED BY <2>2, <2>3, <2>4
<1>3. DOMAIN a = 1 .. n /\ DOMAIN b = 1 .. p
  <2>1. DOMAIN a = 1 .. n
    BY <1>1
  <2>2. DOMAIN b = 1 .. p
    BY <1>2
  <2> QED BY <2>1, <2>2
<1>4. a \in [1 .. n -> S] /\ Len(b) <= l
  <2>1. a \in [1 .. n -> S]
    BY ONLY <1>1
  <2>2. Len(b) <= l
    BY <1>0, <1>00, <1>2
  <2> QED BY <2>1, <2>2
<1>5. Range(a) = {seq[i] : i \in 1 .. n}
  BY <1>1, <1>3 DEF Range
<1>6. Range(b) = {seq[n + i] : i \in 1 .. p}
  BY <1>2, <1>3 DEF Range
<1>7. Range(seq) = {seq[i] : i \in 1 .. l}
  BY <1>0 DEF Range
<1>8. \A i \in 1 .. l : i \in 1 .. n \/ (i - n \in 1 .. p /\ n + (i - n) = i)
  BY <1>0, <1>00
<1>9. /\ \A i \in 1 .. n : i \in 1 .. l
      /\ \A i \in 1 .. p : n + i \in 1 .. l /\ n + i \notin 1 .. n
      /\ \A i, j \in 1 .. p : n + i = n + j => i = j
  BY <1>0, <1>00
<1>10. Range(seq) = Range(a) \cup Range(b)
  <2>1. \A x \in Range(seq) : x \in Range(a) \cup Range(b)
    BY <1>5, <1>6, <1>7, <1>8
  <2>2. \A x \in Range(a) \cup Range(b) : x \in Range(seq)
    BY <1>5, <1>6, <1>7, <1>9
  <2> QED BY <2>1, <2>2
<1>11. ASSUME Once(seq)
       PROVE  Once(a) /\ Once(b) /\ Range(a) \cap Range(b) = {}
  <2>1. \A i, j \in 1 .. l : i # j => seq[i] # seq[j]
    BY <1>0, <1>11 DEF Once
  <2>2. Once(a)
    <3>1. \A i, j \in 1 .. n : i # j => a[i] # a[j]
      BY <1>1, <1>9, <2>1
    <3> QED BY <1>3, <3>1 DEF Once
  <2>3. Once(b)
    <3>1. \A i, j \in 1 .. p : i # j => b[i] # b[j]
      BY <1>2, <1>9, <2>1
    <3> QED BY <1>3, <3>1 DEF Once
  <2>4. \A i \in 1 .. n, j \in 1 .. p : seq[i] # seq[n + j]
    BY ONLY <1>9, <2>1
  <2> QED BY <1>5, <1>6, <2>2, <2>3, <2>4
<1> QED BY <1>2, <1>4, <1>10, <1>11 DEF IsCut

\* The first bits of a list are an order.
LEMMA OrderCut ==
  ASSUME NEW todo \in Seq(Indices), Len(todo) <= BatchSize, NEW n \in 1 .. Len(todo), NEW o,
         o \in [1 .. n -> Indices]
  PROVE  o \in Orders /\ o # <<>>
<1>1. n \in 1 .. BatchSize
  BY BatchesNotEmpty
<1>2. 1 \in DOMAIN o
  BY <1>1
<1> QED BY <1>1, <1>2 DEF Orders

\* The list of the bits of a batch.
LEMMA BitsListed ==
  ASSUME NEW count \in 1 .. BatchSize, NEW todo, todo = [n \in 1 .. count |-> n - 1]
  PROVE  /\ todo \in Seq(Indices) /\ Len(todo) <= BatchSize /\ Once(todo)
         /\ Range(todo) = 0 .. count - 1
<1>1. count \in Nat /\ \A n \in 1 .. count : n - 1 \in Indices
  BY BatchesNotEmpty DEF Indices
<1>2. DOMAIN todo = 1 .. count /\ Len(todo) = count
  BY <1>1
<1>3. todo \in Seq(Indices)
  BY <1>1, <1>2
<1>4. Once(todo)
  BY <1>2 DEF Once
<1>5. \A i \in 0 .. count - 1 : i + 1 \in 1 .. count /\ (i + 1) - 1 = i
  BY <1>1
<1>6. Range(todo) = 0 .. count - 1
  <2>1. Range(todo) = {n - 1 : n \in 1 .. count}
    BY <1>2 DEF Range
  <2>2. \A n \in 1 .. count : n - 1 \in 0 .. count - 1
    BY <1>1
  <2> QED BY <1>5, <2>1, <2>2
<1> QED BY <1>2, <1>3, <1>4, <1>6, BatchesNotEmpty

\* The verdict is read.
LEMMA VerdictRead ==
  ASSUME AccountsInOrder, ProcessOK, ReadVerdict
  PROVE  AccountsInOrder' /\ ProcessOK'
<1> DEFINE r == result[memory.s]
           count == Len(BatchOf(memory.records, memory.batch))
<1>1. AtAwait /\ operator = "gateway" /\ Own = {}
  BY StepIsPlace, ConfirmedIs DEF ReadVerdict, WhereItIs
<1>2. Account(r) /\ UNCHANGED <<vars, faults>>
  BY DEF ReadVerdict
<1>3. CASE ~(r.verified /\ r.bitmap = 0 .. count - 1)
  <2>1. Die(sent)
    BY <1>3 DEF ReadVerdict
  <2>2. sent \in SUBSET sent /\ faults' \in Nat /\ (faults' = 0 => faults = 0)
    BY <1>2 DEF AccountsInOrder, SentOK
  <2> QED BY <1>2, <2>1, <2>2, DeathIsOrderly
<1>4. CASE r.verified /\ r.bitmap = 0 .. count - 1
  <2>1. PICK todo : todo = [n \in 1 .. count |-> n - 1]
    OBVIOUS
  <2>2. /\ memory' = [step |-> "settle", records |-> memory.records,
                      batch |-> memory.batch, last |-> memory.last, s |-> memory.s, todo |-> todo]
        /\ UNCHANGED <<vars, sent, used, drawn, faults>> /\ operator' = operator
    BY <1>2, <1>4, <2>1 DEF ReadVerdict
  <2>3. AccountsInOrder' /\ Own' = Own /\ staging' = staging /\ result' = result
        /\ \A s : OwnBuffer(s) => OwnBuffer(s)'
    BY <2>2, QuietAccounts
  <2>4. /\ memory \in AwaitMemory /\ OwnBuffer(memory.s) /\ memory.batch \in 1 .. Batches(memory.records)
        /\ SealedBatch(memory.s, ThisBatch, memory.last) /\ (faults = 0 => r.applied = {})
    <3>1. ~SealWaits
      BY <1>1 DEF SealWaits
    <3> QED BY <1>1, <3>1 DEF AtAwait
  <2>5. memory.records \in Seq(Commitments) /\ memory.batch \in Nat /\ memory.s \in Stagings
        /\ memory.last \in Offset
    BY <2>4 DEF AwaitMemory
  <2>6. count \in 1 .. BatchSize
    BY <2>4, <2>5, BatchFacts
  <2>7. todo \in Seq(Indices) /\ Len(todo) <= BatchSize /\ Once(todo) /\ Range(todo) = 0 .. count - 1
    <3> HIDE DEF count
    <3> QED BY <2>1, <2>6, BitsListed
  <2>8. /\ memory' \in SettleMemory /\ memory'.records = memory.records /\ memory'.batch = memory.batch
        /\ memory'.last = memory.last /\ memory'.s = memory.s /\ memory'.todo = todo
    BY ONLY <2>2, <2>5, <2>7 DEF SettleMemory
  <2>9. ThisBatch' = ThisBatch /\ Len(ThisBatch) = count
    BY <2>8 DEF ThisBatch
  <2>10. OwnBuffer(memory.s)'
    BY <2>3, <2>4, <2>8 DEF OwnBuffer
  <2>11. SealedBatch(memory.s, ThisBatch, memory.last)'
    <3>1. PICK s, records, last : s = memory.s /\ records = ThisBatch /\ last = memory.last
      OBVIOUS
    <3>2. SealedBatch(s, records, last)
      BY <2>4, <3>1
    <3>3. SealedBatch(s, records, last)'
      BY <2>3, <3>2 DEF SealedBatch
    <3> QED BY <2>8, <2>9, <3>1, <3>3
  <2>12. r' = r
    BY <2>3, <2>8
  <2>13. faults = 0 => Unsettled(r) = 0 .. count - 1
    BY <1>4, <2>4 DEF Unsettled
  <2>14. Own' = {} /\ result'[memory'.s] = r
    BY <1>1, <2>3, <2>8
  <2>15. \E o \in Orders \cup {<<>>} :
           /\ SettleWaits(memory.s, o)'
           /\ Once(o) /\ Range(o) \cap Range(todo) = {}
           /\ Range(o) \cup Range(todo) \subseteq r.bitmap
           /\ faults = 0 => Unsettled(r) = Range(o) \cup Range(todo)
    <3>1. SettleWaits(memory.s, <<>>)' /\ Once(<<>>)
      BY <2>14 DEF SettleWaits, Once
    <3>2. Range(todo) = r.bitmap
      BY <1>4, <2>7
    <3> QED BY <2>7, <2>13, <3>1, <3>2, RangeOfNothing
  <2>16. AtSettle'
    <3> HIDE DEF count
    <3>1. /\ result'[memory'.s].verified /\ result'[memory'.s].bitmap = 0 .. Len(ThisBatch') - 1
          /\ result'[memory'.s].bitmap = r.bitmap /\ faults' = faults
          /\ Unsettled(result'[memory'.s]) = Unsettled(r)
      BY <1>2, <1>4, <2>9, <2>14
    <3>2. memory'.batch \in 1 .. Batches(memory'.records)
      BY <2>4, <2>8
    <3> HIDE DEF r
    <3> QED BY <2>7, <2>8, <2>10, <2>11, <2>15, <3>1, <3>2 DEF AtSettle, Unsettled
  <2> QED BY <1>1, <2>2, <2>3, <2>16, GatewayGoes
<1> QED BY <1>3, <1>4

\* A settlement is sent.
LEMMA SettlementSent ==
  ASSUME AccountsInOrder, ProcessOK, SendSettlement
  PROVE  AccountsInOrder' /\ ProcessOK'
<1>1. \/ operator = "gateway" /\ AtSettle
      \/ operator = "leftovers" /\ AtLeftSettle
  BY StepIsPlace DEF SendSettlement, WhereItIs
<1>2. Own = {}
  BY ConfirmedIs DEF SendSettlement
<1>3. PICK todo : todo = memory.todo
  OBVIOUS
<1>4. PICK n \in 1 .. Len(todo) :
        /\ sent' = sent \cup {SettleTx(memory.s, SubSeq(todo, 1, n))}
        /\ memory' = [memory EXCEPT !.todo = SubSeq(todo, n + 1, Len(todo))]
  BY <1>3 DEF SendSettlement
<1>5. PICK a, b : a = SubSeq(todo, 1, n) /\ b = SubSeq(todo, n + 1, Len(todo))
  OBVIOUS
<1>6. PICK t : t = SettleTx(memory.s, a)
  OBVIOUS
<1>7. /\ sent' = sent \cup {t} /\ memory' = [memory EXCEPT !.todo = b]
      /\ UNCHANGED <<vars, used, drawn, faults>> /\ operator' = operator
  BY <1>4, <1>5, <1>6 DEF SendSettlement
<1>8. memory.s \in Stagings /\ memory.s \in used /\ todo \in Seq(Indices) /\ Len(todo) <= BatchSize
  <2>1. CASE AtSettle
    BY <1>3, <2>1 DEF AtSettle, SettleMemory, OwnBuffer
  <2>2. CASE AtLeftSettle
    BY <1>3, <2>2 DEF AtLeftSettle, VisitMemory
  <2> QED BY <1>1, <2>1, <2>2
<1>9. /\ a \in [1 .. n -> Indices] /\ b \in Seq(Indices) /\ Len(b) <= Len(todo)
      /\ Range(todo) = Range(a) \cup Range(b)
      /\ Once(todo) => Once(a) /\ Once(b) /\ Range(a) \cap Range(b) = {}
  <2>1. todo \in Seq(Indices) /\ n \in 1 .. Len(todo)
    BY <1>4, <1>8
  <2>2. IsCut(Indices, todo, n, SubSeq(todo, 1, n), SubSeq(todo, n + 1, Len(todo)))
    BY <2>1, CutInTwo
  <2>3. IsCut(Indices, todo, n, a, b)
    BY <1>5, <2>2
  <2> QED BY <2>3 DEF IsCut
<1>10. a \in Orders /\ a # <<>> /\ Len(b) <= BatchSize
  <2>1. a \in Orders /\ a # <<>>
    BY <1>4, <1>8, <1>9, OrderCut
  <2>2. Len(b) \in Nat /\ Len(todo) \in Nat
    BY <1>8, <1>9
  <2> QED BY <1>8, <1>9, <2>1, <2>2, BatchesNotEmpty
<1>11. t \in SettleTxs /\ t.s = memory.s /\ t.awaited /\ t.type = "settle" /\ t = SettleTx(memory.s, a)
  BY <1>6, <1>8, <1>10 DEF SettleTx, SettleTxs
<1>12. TxOK(t)
  BY <1>8, <1>11 DEF TxOK
<1>13. AccountsInOrder' /\ staging' = staging /\ result' = result
  BY <1>7, <1>12, OneSent
<1>14. Own' = {t}
  BY <1>2, <1>7, <1>11 DEF Own
<1>15. CASE operator = "gateway" /\ AtSettle
  <2>1. /\ memory \in SettleMemory /\ OwnBuffer(memory.s) /\ memory.batch \in 1 .. Batches(memory.records)
        /\ SealedBatch(memory.s, ThisBatch, memory.last)
        /\ result[memory.s].verified /\ result[memory.s].bitmap = 0 .. Len(ThisBatch) - 1
        /\ Once(todo)
    BY <1>3, <1>15 DEF AtSettle
  <2>2. /\ Range(todo) \subseteq result[memory.s].bitmap
        /\ faults = 0 => Unsettled(result[memory.s]) = Range(todo)
    <3>1. PICK o \in Orders \cup {<<>>} :
             /\ SettleWaits(memory.s, o)
             /\ Range(o) \cup Range(todo) \subseteq result[memory.s].bitmap
             /\ faults = 0 => Unsettled(result[memory.s]) = Range(o) \cup Range(todo)
      BY <1>3, <1>15 DEF AtSettle
    <3>2. o = <<>>
      BY <1>2, <3>1 DEF SettleWaits
    <3> QED BY <3>1, <3>2, RangeOfNothing
  <2>3. /\ memory' \in SettleMemory /\ memory'.records = memory.records /\ memory'.batch = memory.batch
        /\ memory'.last = memory.last /\ memory'.s = memory.s /\ memory'.todo = b
    <3>1. PICK m \in SettleMemory : m = memory
      BY <2>1
    <3>2. memory' = [m EXCEPT !.todo = b]
      BY <1>7, <3>1
    <3>3. /\ memory' \in SettleMemory /\ memory'.records = m.records /\ memory'.batch = m.batch
          /\ memory'.last = m.last /\ memory'.s = m.s /\ memory'.todo = b
      BY ONLY <3>2, m \in SettleMemory, <1>9 DEF SettleMemory
    <3> QED BY <3>1, <3>3
  <2>4. ThisBatch' = ThisBatch
    BY <2>3 DEF ThisBatch
  <2>5. OwnBuffer(memory.s)'
    BY <1>2, <1>7, <1>11, <2>1, <2>3, OneMore DEF OwnBuffer
  <2>6. SealedBatch(memory.s, ThisBatch, memory.last)'
    <3>1. PICK s, records, last : s = memory.s /\ records = ThisBatch /\ last = memory.last
      OBVIOUS
    <3>2. SealedBatch(s, records, last)
      BY <2>1, <3>1
    <3>3. SealedBatch(s, records, last)'
      BY <1>13, <3>2 DEF SealedBatch
    <3> QED BY <2>3, <2>4, <3>1, <3>3
  <2>7. result'[memory'.s] = result[memory.s]
    BY <1>13, <2>3
  <2>8. SettleWaits(memory.s, a)'
    BY <1>10, <1>11, <1>14, <2>3 DEF SettleWaits
  <2>9. /\ Once(a) /\ Once(b) /\ Range(a) \cap Range(b) = {}
        /\ Range(a) \cup Range(b) \subseteq result[memory.s].bitmap
        /\ faults = 0 => Unsettled(result[memory.s]) = Range(a) \cup Range(b)
    BY <1>9, <2>1, <2>2
  <2>10. Unsettled(result[memory.s])' = Unsettled(result[memory.s])
    BY <2>7 DEF Unsettled
  <2>12. faults' = faults
    BY <1>7
  <2>11. AtSettle'
    BY <1>10, <2>1, <2>3, <2>4, <2>5, <2>6, <2>7, <2>8, <2>9, <2>10, <2>12 DEF AtSettle
  <2> QED BY <1>7, <1>13, <1>15, <2>11, GatewayGoes
<1>16. CASE operator = "leftovers" /\ AtLeftSettle
  <2>1. /\ memory \in VisitMemory /\ memory.step = "settle" /\ memory.seen <= instance
        /\ Remains(Range(todo))
    <3>1. PICK o \in Orders \cup {<<>>} :
             SettleWaits(memory.s, o) /\ Remains(Range(o) \cup Range(todo))
      BY <1>3, <1>16 DEF AtLeftSettle
    <3>2. o = <<>>
      BY <1>2, <3>1 DEF SettleWaits
    <3>3. Range(o) \cup Range(todo) = Range(todo)
      BY <3>2, RangeOfNothing
    <3> QED BY <1>16, <3>1, <3>3 DEF AtLeftSettle
  <2>2. /\ memory' \in VisitMemory /\ memory'.step = "settle" /\ memory'.seen = memory.seen
        /\ memory'.left = memory.left /\ memory'.s = memory.s /\ memory'.todo = b
    <3>1. PICK m \in VisitMemory : m = memory
      BY <2>1
    <3>2. memory' = [m EXCEPT !.todo = b]
      BY <1>7, <3>1
    <3>3. /\ memory' \in VisitMemory /\ memory'.step = m.step /\ memory'.seen = m.seen
          /\ memory'.left = m.left /\ memory'.s = m.s /\ memory'.todo = b
      BY ONLY <3>2, m \in VisitMemory, <1>9 DEF VisitMemory
    <3> QED BY <2>1, <3>1, <3>3
  <2>3. instance' = instance
    BY <1>7 DEF vars, clearingVars, arciumVars
  <2>4. Remains(Range(a) \cup Range(b))'
    <3>1. PICK w : w = Range(a) \cup Range(b)
      OBVIOUS
    <3>2. Remains(w)
      BY <1>9, <2>1, <3>1
    <3>3. Remains(w)'
      BY <1>13, <2>2, <3>2 DEF Remains, Unsettled
    <3> QED BY <3>1, <3>3
  <2>5. SettleWaits(memory.s, a)'
    BY <1>10, <1>11, <1>14, <2>2 DEF SettleWaits
  <2>6. memory'.s \in used' /\ memory'.seen <= instance' /\ Len(memory'.todo) <= BatchSize
    BY <1>7, <1>8, <1>10, <2>1, <2>2, <2>3
  <2>7. AtLeftSettle'
    BY <1>10, <2>2, <2>4, <2>5, <2>6 DEF AtLeftSettle
  <2>8. memory'.left \subseteq used'
    BY <1>7, <1>16, <2>2 DEF ProcessOK, LeftoversOK
  <2> QED BY <1>7, <1>13, <1>16, <2>7, <2>8 DEF ProcessOK, GatewayOK, LeftoversOK, NobodyOK
<1> QED BY <1>1, <1>15, <1>16

-----------------------------------------------------------------------------
(* settle-leftovers.                                                       *)

\* settle-leftovers goes on.
LEMMA LeftoversGo ==
  ASSUME operator' = "leftovers", memory'.left \subseteq used',
         (memory' \in FirstVisit /\ Own' = {}) \/ AtVisit' \/ AtLeftSettle'
  PROVE  ProcessOK'
BY DEF ProcessOK, GatewayOK, LeftoversOK, NobodyOK

\* The gateway starts, with what is owed.
LEMMA GatewayStarts ==
  ASSUME AccountsInOrder, ProcessOK, StartGateway
  PROVE  AccountsInOrder' /\ ProcessOK'
<1>1. /\ operator = "idle" /\ operator' = "gateway" /\ UNCHANGED <<vars, sent, used, drawn, faults>>
      /\ memory' = [step |-> "start", records |-> Session, batch |-> 0, last |-> NoOffset]
  BY DEF StartGateway
<1>2. AccountsInOrder' /\ Own' = Own
  BY <1>1, QuietAccounts
<1>3. Own = {}
  BY <1>1 DEF ProcessOK, NobodyOK
<1>4. memory' \in StartMemory
  BY ONLY <1>1, SessionIs DEF StartMemory
<1> QED BY <1>1, <1>2, <1>3, <1>4, GatewayGoes DEF AtStart

\* settle-leftovers starts: it lists buffers that were opened.
LEMMA LeftoversStart ==
  ASSUME AccountsInOrder, ProcessOK, StartLeftovers
  PROVE  AccountsInOrder' /\ ProcessOK'
<1>1. /\ operator = "crashed" /\ operator' = "leftovers" /\ UNCHANGED <<vars, sent, used, drawn, faults>>
      /\ memory' = [step |-> "visit", s |-> NoBuffer, seen |-> 0,
                    left |-> {s \in Stagings : Account(staging[s])},
                    sealed |-> {s \in Stagings : Account(staging[s]) /\ staging[s].sealed}]
  BY DEF StartLeftovers
<1>2. AccountsInOrder' /\ Own' = Own
  BY <1>1, QuietAccounts
<1>3. Own = {}
  BY <1>1 DEF ProcessOK, NobodyOK
<1>4. memory' \in FirstVisit
  BY ONLY <1>1 DEF FirstVisit
<1>5. memory'.left \subseteq used'
  <2>1. {s \in Stagings : Account(staging[s])} \subseteq used
    BY DEF AccountsInOrder, BuffersFull
  <2> QED BY <1>1, <2>1
<1> QED BY <1>1, <1>2, <1>3, <1>4, <1>5, LeftoversGo

\* A buffer is visited.
LEMMA BufferVisited ==
  ASSUME AccountsInOrder, ProcessOK, NEW s \in Stagings, VisitBuffer(s)
  PROVE  AccountsInOrder' /\ ProcessOK'
<1> DEFINE r == result[s]
           seen == s \in memory.sealed /\ r.verified
<1>1. operator = "leftovers" /\ (memory \in FirstVisit \/ AtVisit) /\ Own = {} /\ s \in memory.left
  BY StepIsPlace, ConfirmedIs DEF VisitBuffer, WhereItIs
<1>2. UNCHANGED <<vars, faults>>
  BY DEF VisitBuffer
<1>3. memory.left \in SUBSET Stagings /\ memory.sealed \in SUBSET Stagings /\ memory.left \subseteq used
  <2>1. memory.left \subseteq used
    BY <1>1 DEF ProcessOK, LeftoversOK
  <2> QED BY <1>1, <2>1 DEF FirstVisit, AtVisit, VisitMemory
<1>4. CASE ~Account(r)
  <2>1. Die(sent)
    BY <1>4 DEF VisitBuffer
  <2>2. sent \in SUBSET sent /\ faults' \in Nat /\ (faults' = 0 => faults = 0)
    BY <1>2 DEF AccountsInOrder, SentOK
  <2> QED BY <1>2, <2>1, <2>2, DeathIsOrderly
<1>5. CASE Account(r)
  <2>0. VInv /\ VerdictBits /\ ResultsMarked
    BY DEF AccountsInOrder, ClearingInv
  <2>1. /\ r.bitmap \subseteq Indices /\ r.instance \in Nat /\ r.verified \in BOOLEAN
        /\ r.verified => r.offset # 0
        /\ ~r.verified => r.bitmap = {}
        /\ r.instance = 0 <=> r.offset = 0
        /\ r.offset # 0 => r.instance <= instance
    <3>1. r \in ResultSet
      BY <1>5, <2>0, ClosedFacts DEF VInv, Types
    <3>2. r.verified => r.offset # 0
      BY <1>5, <2>0 DEF VInv, Verdicts
    <3>3. ~r.verified => r.bitmap = {}
      BY <1>5, <2>0 DEF VerdictBits
    <3>4. r.instance = 0 <=> r.offset = 0
      BY <1>5, <2>0 DEF ResultsMarked
    <3>5. r.offset # 0 => r.instance <= instance
      BY <1>5, <2>0 DEF VInv, BoundResults, Bound
    <3>6. r.bitmap \subseteq Indices /\ r.instance \in Nat /\ r.verified \in BOOLEAN
      BY <3>1 DEF ResultSet
    <3> QED BY <3>2, <3>3, <3>4, <3>5, <3>6
  <2>2. PICK todo, last : /\ todo = (IF seen THEN InOrder(Unsettled(r)) ELSE <<>>)
                          /\ last = (IF seen THEN r.instance ELSE 0)
    OBVIOUS
  <2>3. /\ memory' = [step |-> "settle", left |-> memory.left \ {s}, sealed |-> memory.sealed,
                      s |-> s, seen |-> last, todo |-> todo]
        /\ UNCHANGED <<vars, sent, used, drawn, faults>> /\ operator' = operator
    BY <1>2, <1>5, <2>2 DEF VisitBuffer
  <2>4. AccountsInOrder' /\ Own' = Own /\ staging' = staging /\ result' = result
    BY <2>3, QuietAccounts
  <2>5. instance' = instance /\ instance \in Nat
    <3>1. instance' = instance
      BY <2>3 DEF vars, clearingVars, arciumVars
    <3> QED BY <2>0, <3>1 DEF VInv, Types
  <2>6. Unsettled(r) \subseteq Indices
    BY <2>1 DEF Unsettled
  <2>7. /\ InOrder(Unsettled(r)) \in Seq(Indices) /\ Len(InOrder(Unsettled(r))) <= BatchSize
        /\ Unsettled(r) \subseteq Range(InOrder(Unsettled(r)))
    BY <2>6, InOrderIs
  <2>8. todo \in Seq(Indices) /\ Len(todo) <= BatchSize
    <3> HIDE DEF seen
    <3>1. CASE seen
      BY <2>2, <2>7, <3>1
    <3>2. CASE ~seen
      <4>1. Len(<<>>) <= BatchSize /\ <<>> \in Seq(Indices)
        BY BatchesNotEmpty
      <4> QED BY <2>2, <3>2, <4>1
    <3> QED BY <3>1, <3>2
  <2>9. last \in Nat /\ last <= instance
    BY <2>1, <2>2, <2>5
  <2>10. r.instance = last => (last # 0 => r.verified) /\ Unsettled(r) \subseteq Range(todo)
    <3>1. CASE seen
      BY <2>2, <2>7, <3>1
    <3>2. CASE ~seen
      BY <2>1, <2>2, <3>2 DEF Unsettled
    <3> QED BY <3>1, <3>2
  <2>11. /\ memory' \in VisitMemory /\ memory'.step = "settle" /\ memory'.seen = last
         /\ memory'.left = memory.left \ {s} /\ memory'.s = s /\ memory'.todo = todo
    <3>1. memory.left \ {s} \in SUBSET Stagings
      BY <1>3
    <3> HIDE DEF r, seen
    <3> QED BY ONLY <2>3, <2>8, <2>9, <1>3, <3>1, s \in Stagings DEF VisitMemory
  <2>12. Remains(Range(<<>>) \cup Range(todo))'
    <3>1. result'[memory'.s] = r
      BY <2>4, <2>11
    <3>2. Remains(Range(<<>>) \cup Range(todo))' <=>
             (Account(r) /\ r.instance = last => (last # 0 => r.verified)
                 /\ Unsettled(r) \subseteq Range(<<>>) \cup Range(todo))
      <4> HIDE DEF r
      <4> QED BY <2>11, <3>1 DEF Remains, Unsettled
    <3> HIDE DEF r
    <3> QED BY <2>10, <3>2
  <2>13. SettleWaits(memory.s, <<>>)'
    BY <1>1, <2>4 DEF SettleWaits
  <2>14. memory'.s \in used' /\ memory'.left \subseteq used'
    BY <1>1, <1>3, <2>3, <2>11
  <2>15. AtLeftSettle'
    BY <2>5, <2>8, <2>9, <2>11, <2>12, <2>13, <2>14 DEF AtLeftSettle
  <2> QED BY <1>1, <2>3, <2>4, <2>14, <2>15, LeftoversGo
<1> QED BY <1>4, <1>5

\* A buffer is closed, when all that was seen verified in it is applied.
LEMMA LeftoverClosed ==
  ASSUME AccountsInOrder, ProcessOK, CloseLeftover
  PROVE  AccountsInOrder' /\ ProcessOK'
<1>1. operator = "leftovers" /\ AtLeftSettle /\ Own = {} /\ memory.todo = <<>>
  <2>1. operator = "leftovers" /\ memory.step = "settle" /\ Confirmed /\ memory.todo = <<>>
    BY DEF CloseLeftover
  <2>2. AtLeftSettle
    BY <2>1, StepIsPlace DEF WhereItIs
  <2> QED BY <2>1, <2>2, ConfirmedIs
<1>2. PICK t : t = CloseTx(memory.s, NoOffset)
  OBVIOUS
<1>3. /\ sent' = sent \cup {t} /\ memory' = [memory EXCEPT !.step = "visit"]
      /\ UNCHANGED <<vars, used, drawn, faults>> /\ operator' = operator
  BY <1>2 DEF CloseLeftover
<1>4. memory \in VisitMemory /\ memory.s \in used /\ memory.s \in Stagings /\ memory.seen <= instance
  BY <1>1 DEF AtLeftSettle, VisitMemory
<1>5. t \in CloseTxs /\ t.s = memory.s /\ t.awaited /\ t.type = "close"
  BY <1>2, <1>4 DEF CloseTx, CloseTxs, NoOffset
<1>6. TxOK(t)
  BY <1>4, <1>5 DEF TxOK
<1>7. AccountsInOrder' /\ result' = result
  BY <1>3, <1>6, OneSent
<1>8. Own' = {t}
  BY <1>1, <1>3, <1>5 DEF Own
<1>9. /\ memory' \in VisitMemory /\ memory'.step = "visit" /\ memory'.seen = memory.seen
      /\ memory'.left = memory.left /\ memory'.s = memory.s
  <2>1. PICK m \in VisitMemory : m = memory
    BY <1>4
  <2>2. memory' = [m EXCEPT !.step = "visit"]
    BY <1>3, <2>1
  <2>3. /\ memory' \in VisitMemory /\ memory'.step = "visit" /\ memory'.seen = m.seen
        /\ memory'.left = m.left /\ memory'.s = m.s
    BY ONLY <2>2, m \in VisitMemory DEF VisitMemory
  <2> QED BY <2>1, <2>3
<1>10. Remains({})'
  <2>1. PICK o \in Orders \cup {<<>>} :
           SettleWaits(memory.s, o) /\ Remains(Range(o) \cup Range(memory.todo))
    BY <1>1 DEF AtLeftSettle
  <2>2. o = <<>>
    BY <1>1, <2>1 DEF SettleWaits
  <2>3. Range(o) \cup Range(memory.todo) = {}
    BY <1>1, <2>2, RangeOfNothing
  <2>4. Remains({})
    BY <2>1, <2>3
  <2> QED BY <1>7, <1>9, <2>4 DEF Remains, Unsettled
<1>11. instance' = instance
  BY <1>3 DEF vars, clearingVars, arciumVars
<1>12. AtVisit'
  <2>1. \A u \in Own' : u = CloseTx(memory'.s, NoOffset)
    BY <1>2, <1>8, <1>9
  <2> QED BY <1>3, <1>4, <1>9, <1>10, <1>11, <2>1 DEF AtVisit
<1>13. memory'.left \subseteq used'
  BY <1>1, <1>3, <1>9 DEF ProcessOK, LeftoversOK
<1> QED BY <1>1, <1>3, <1>7, <1>12, <1>13, LeftoversGo

\* All the buffers are visited.
LEMMA LeftoversEnd ==
  ASSUME AccountsInOrder, ProcessOK, LeftoversDone
  PROVE  AccountsInOrder' /\ ProcessOK'
<1>1. operator' = "idle" /\ memory' = Nothing /\ UNCHANGED <<vars, sent, used, drawn, faults>> /\ Own = {}
  BY ConfirmedIs DEF LeftoversDone
<1>2. AccountsInOrder' /\ Own' = {}
  BY <1>1, QuietAccounts
<1> QED BY <1>1, <1>2 DEF ProcessOK, GatewayOK, LeftoversOK, NobodyOK

-----------------------------------------------------------------------------
(* The plan of a batch.                                                    *)

\* A chunk goes from its start to the next start, or to the end.
End(records, starts, at) ==
    LET ends == {a \in starts : a > at} \cup {Len(records)}
    IN  CHOOSE e \in ends : \A other \in ends : e <= other
\* A chunk ends where the next one starts, or with the batch.
LEMMA EndIs ==
  ASSUME NEW records, Len(records) \in Nat \ {0}, NEW starts, starts \subseteq 0 .. Len(records) - 1,
         NEW at \in starts
  PROVE  /\ End(records, starts, at) \in at + 1 .. Len(records)
         /\ \A a \in starts : a > at => End(records, starts, at) <= a
         /\ End(records, starts, at) \in starts \cup {Len(records)}
<1> DEFINE ends == {a \in starts : a > at} \cup {Len(records)}
<1>1. ends \subseteq 0 .. Len(records) /\ ends # {}
  <2>1. \A a \in ends : a \in 0 .. Len(records)
    <3>1. \A a \in starts : a \in 0 .. Len(records)
      OBVIOUS
    <3>2. Len(records) \in 0 .. Len(records)
      OBVIOUS
    <3> QED BY <3>1, <3>2
  <2>2. Len(records) \in ends
    OBVIOUS
  <2> QED BY <2>1, <2>2
<1>2. \E e \in ends : \A other \in ends : e <= other
  <2> HIDE DEF ends
  <2> QED BY <1>1, LeastIs
<1>3. End(records, starts, at) = CHOOSE e \in ends : \A other \in ends : e <= other
  BY DEF End
<1>4. PICK end : end = End(records, starts, at)
  OBVIOUS
<1>5. end \in ends /\ \A other \in ends : end <= other
  <2> HIDE DEF ends
  <2> QED BY <1>2, <1>3, <1>4
<1>6. end \in at + 1 .. Len(records)
  BY <1>5
<1>7. \A a \in starts : a > at => end <= a
  BY <1>5
<1>8. end \in starts \cup {Len(records)}
  BY <1>5
<1> QED BY <1>4, <1>6, <1>7, <1>8

\* A chunk: its records, as they are in the batch.
IsChunk(t, s, records, fresh, starts, at) ==
    /\ t \in StagingTxs /\ ChunkOf(t, s, records) /\ PlainChunk(t)
    /\ t.at = at /\ (t.reset <=> at = 0 /\ ~fresh)
    /\ Len(t.records) = End(records, starts, at) - at
\* What a chunk carries.
LEMMA ChunkIs ==
  ASSUME NEW s \in Stagings, NEW records \in Seq(Commitments), Len(records) \in 1 .. BatchSize,
         NEW fresh \in BOOLEAN, NEW starts, starts \subseteq 0 .. Len(records) - 1, NEW at \in starts
  PROVE  IsChunk(ChunkTx(s, records, fresh, starts, at), s, records, fresh, starts, at)
<1> DEFINE end == End(records, starts, at)
<1>1. end \in at + 1 .. Len(records)
  <2>1. Len(records) \in Nat \ {0}
    BY BatchesNotEmpty
  <2> QED BY <2>1, EndIs
<1>2. PICK seq : seq = SubSeq(records, at + 1, end)
  OBVIOUS
<1>3. /\ at \in Nat /\ end \in Nat /\ at < end /\ end <= Len(records)
      /\ Len(records) \in Nat /\ Len(records) <= BatchSize /\ BatchSize \in Nat
  BY <1>1, BatchesNotEmpty
<1> HIDE DEF end
<1>4. /\ seq \in Seq(Commitments) /\ Len(seq) = end - at
      /\ \A n \in 1 .. end - at : seq[n] = records[at + n]
  <2>1. \A i \in at + 1 .. end : records[i] \in Commitments
    BY <1>3
  <2>2. /\ SubSeq(records, at + 1, end) \in Seq(Commitments)
        /\ Len(SubSeq(records, at + 1, end)) = IF at + 1 <= end THEN end - (at + 1) + 1 ELSE 0
        /\ \A i \in 1 .. end - (at + 1) + 1 : SubSeq(records, at + 1, end)[i] = records[at + 1 + i - 1]
    BY <1>3, <2>1, SubSeqProperties
  <2>3. at + 1 <= end /\ end - (at + 1) + 1 = end - at /\ \A i \in 1 .. end - at : at + 1 + i - 1 = at + i
    BY <1>3
  <2> QED BY <1>2, <2>2, <2>3
<1>5. PICK t : t = StagingTx(s, at = 0 /\ ~fresh, at, seq)
  OBVIOUS
<1>6. ChunkTx(s, records, fresh, starts, at) = t
  BY <1>2, <1>5 DEF ChunkTx, End, end
<1>7. /\ t.type = "staging" /\ t.s = s /\ t.reset = (at = 0 /\ ~fresh) /\ t.at = at
      /\ t.records = seq /\ t.count = 0 /\ t.offset = NoOffset /\ t.claim = NoOffset /\ t.awaited
  BY <1>5 DEF StagingTx
<1>8. t \in StagingTxs
  <2>1. at \in 0 .. BatchSize
    BY <1>3
  <2>2. 0 \in 0 .. BatchSize
    BY <1>3
  <2> QED BY ONLY <1>4, <1>5, <2>1, <2>2, s \in Stagings DEF StagingTx, StagingTxs, NoOffset
<1>9. t.records # <<>> /\ t.at + Len(t.records) <= Len(records)
  BY <1>3, <1>4, <1>7
<1>10. ChunkOf(t, s, records)
  BY <1>4, <1>7, <1>8, <1>9 DEF ChunkOf
<1>11. PlainChunk(t)
  BY <1>7, <1>9 DEF PlainChunk
<1> QED BY <1>4, <1>6, <1>7, <1>8, <1>10, <1>11 DEF IsChunk, end

\* Every record of the batch is in a chunk.
LEMMA ChunksCover ==
  ASSUME NEW records, Len(records) \in Nat \ {0}, NEW starts, starts \subseteq 0 .. Len(records) - 1,
         0 \in starts, NEW i \in 0 .. Len(records) - 1
  PROVE  \E at \in starts : i \in at .. End(records, starts, at) - 1
<1> DEFINE S == {a \in starts : a <= i}
<1>1. S \subseteq 0 .. i /\ S # {} /\ i \in Nat
  <2>1. i \in Nat /\ \A a \in starts : a \in Nat
    OBVIOUS
  <2>2. \A a \in S : a \in 0 .. i
    BY <2>1
  <2>3. 0 \in S
    BY <2>1
  <2> QED BY <2>1, <2>2, <2>3
<1>2. PICK at \in S : \A o \in S : o <= at
  <2> HIDE DEF S
  <2> QED BY <1>1, GreatestIs
<1>3. at \in starts /\ at <= i
  BY <1>2
<1>4. PICK end : end = End(records, starts, at)
  OBVIOUS
<1>5. end \in at + 1 .. Len(records) /\ end \in starts \cup {Len(records)}
  BY <1>3, <1>4, EndIs
<1>6. CASE end <= i
  <2>1. end # Len(records)
    BY <1>6
  <2>2. end \in S
    BY <1>5, <1>6, <2>1
  <2>3. end <= at
    BY <1>2, <2>2
  <2> QED BY <1>5, <2>3
<1>7. CASE i < end
  <2>1. at \in Nat /\ end \in Nat
    BY <1>3, <1>5
  <2>2. i \in at .. end - 1
    BY <1>3, <1>7, <2>1
  <2> QED BY <1>3, <1>4, <2>2
<1> QED BY <1>5, <1>6, <1>7

\* The transaction of the seal, once it also carries the seal.
LEMMA SealIs ==
  ASSUME NEW t \in StagingTxs, NEW count \in 0 .. BatchSize, NEW claim \in Offset, NEW n,
         n = [t EXCEPT !.count = count, !.claim = claim]
  PROVE  /\ n \in StagingTxs /\ n.s = t.s /\ n.reset = t.reset /\ n.at = t.at /\ n.records = t.records
         /\ n.count = count /\ n.claim = claim /\ n.awaited = t.awaited
BY ONLY t \in StagingTxs, count \in 0 .. BatchSize, claim \in Offset,
        n = [t EXCEPT !.count = count, !.claim = claim] DEF StagingTxs, Offset

-----------------------------------------------------------------------------
(* The batch is planned.                                                   *)

\* What is planned for a batch: chunks, one of which may go with the seal.
Planned(plan, seal, s, records, fresh, claim) ==
    \E starts, tail :
       /\ starts \subseteq 0 .. Len(records) - 1 /\ 0 \in starts
       /\ \/ \E last \in starts : /\ \A a \in starts : a <= last
                                  /\ tail = ChunkTx(s, records, fresh, starts, last)
          \/ tail = StagingTx(s, FALSE, 0, <<>>)
       /\ plan = {ChunkTx(s, records, fresh, starts, at) : at \in starts} \ {tail}
       /\ seal = [tail EXCEPT !.count = Len(records), !.claim = claim]

\* What PlanBatch plans is a plan for the next batch.
LEMMA PlanIs ==
  ASSUME PlanBatch, memory.records \in Seq(Commitments), memory.batch \in Nat,
         Len(BatchOf(memory.records, memory.batch + 1)) \in 1 .. BatchSize
  PROVE  \E plan, seal :
            /\ Planned(plan, seal, memory.s, BatchOf(memory.records, memory.batch + 1),
                       memory.batch + 1 = 1, memory.last)
            /\ memory' = [step |-> "stage", records |-> memory.records, batch |-> memory.batch + 1,
                          last |-> memory.last, s |-> memory.s, plan |-> plan, seal |-> seal]
<1> DEFINE b == memory.batch + 1
           records == BatchOf(memory.records, b)
<1>1. PICK plan \in Plans(Len(records)) :
        LET last == CHOOSE a \in plan.starts : \A other \in plan.starts : other <= a
            chunk(at) == ChunkTx(memory.s, records, b = 1, plan.starts, at)
            tail == IF plan.tail THEN chunk(last)
                                 ELSE StagingTx(memory.s, FALSE, 0, <<>>)
        IN  memory' = [step |-> "stage", records |-> memory.records, batch |-> b,
                       last |-> memory.last, s |-> memory.s,
                       plan |-> {chunk(at) : at \in plan.starts} \ {tail},
                       seal |-> [tail EXCEPT !.count = Len(records),
                                             !.claim = memory.last]]
  BY DEF PlanBatch
<1> PICK starts : starts = plan.starts
  OBVIOUS
<1> PICK n : n = Len(records)
  OBVIOUS
<1>2. n \in Nat /\ n >= 1
  BY BatchesNotEmpty
<1>3. \E cuts \in SUBSET (1 .. n - 1) : starts = {0} \cup cuts
  <2>1. plan.starts \in {{0} \cup cuts : cuts \in SUBSET (1 .. n - 1)}
    BY DEF Plans
  <2> QED BY <2>1
<1>4. starts \subseteq 0 .. n - 1 /\ 0 \in starts
  <2>1. PICK cuts \in SUBSET (1 .. n - 1) : starts = {0} \cup cuts
    BY <1>3
  <2>2. 0 \in 0 .. n - 1 /\ \A a \in 1 .. n - 1 : a \in 0 .. n - 1
    BY <1>2
  <2> QED BY <2>1, <2>2
<1>5. PICK last : last = CHOOSE a \in starts : \A other \in starts : other <= a
  OBVIOUS
<1>6. last \in starts /\ \A a \in starts : a <= last
  <2>1. n - 1 \in Nat
    BY <1>2
  <2>2. \E a \in starts : \A other \in starts : other <= a
    BY <1>4, <2>1, GreatestIs
  <2> QED BY <1>5, <2>2
<1> HIDE DEF records
<1>7. PICK tail : tail = IF plan.tail THEN ChunkTx(memory.s, records, b = 1, starts, last)
                                      ELSE StagingTx(memory.s, FALSE, 0, <<>>)
  OBVIOUS
<1>8. PICK txs, seal : /\ txs = {ChunkTx(memory.s, records, b = 1, starts, at) : at \in starts} \ {tail}
                       /\ seal = [tail EXCEPT !.count = Len(records), !.claim = memory.last]
  OBVIOUS
<1>9. memory' = [step |-> "stage", records |-> memory.records, batch |-> b,
                 last |-> memory.last, s |-> memory.s, plan |-> txs, seal |-> seal]
  BY <1>1, <1>5, <1>7, <1>8
<1>10. \/ \E l \in starts : /\ \A a \in starts : a <= l
                            /\ tail = ChunkTx(memory.s, records, b = 1, starts, l)
       \/ tail = StagingTx(memory.s, FALSE, 0, <<>>)
  <2>1. CASE plan.tail
    BY <1>6, <1>7, <2>1
  <2>2. CASE ~plan.tail
    BY <1>7, <2>2
  <2> QED BY <2>1, <2>2
<1>11. Planned(txs, seal, memory.s, records, b = 1, memory.last)
  <2>1. PICK fresh, s, claim : fresh = (b = 1) /\ s = memory.s /\ claim = memory.last
    OBVIOUS
  <2>2. n = Len(records)
    BY DEF records
  <2>3. starts \subseteq 0 .. Len(records) - 1 /\ 0 \in starts
    BY ONLY <1>4, <2>2
  <2>4. \/ \E l \in starts : (\A a \in starts : a <= l) /\ tail = ChunkTx(s, records, fresh, starts, l)
        \/ tail = StagingTx(s, FALSE, 0, <<>>)
    BY ONLY <1>10, <2>1
  <2>5. /\ txs = {ChunkTx(s, records, fresh, starts, at) : at \in starts} \ {tail}
        /\ seal = [tail EXCEPT !.count = Len(records), !.claim = claim]
    BY ONLY <1>8, <2>1
  <2>6. Planned(txs, seal, s, records, fresh, claim)
    BY ONLY <2>3, <2>4, <2>5, Zenon DEF Planned
  <2> QED BY ONLY <2>1, <2>6
<1> QED BY <1>9, <1>11 DEF records

\* The plan holds the batch, every record of it once, and resets the buffer first.
PlanGood(plan, seal, s, records, fresh, claim) ==
    /\ plan \subseteq StagingTxs /\ seal \in StagingTxs
    /\ \A t \in plan \cup {seal} : ChunkOf(t, s, records)
    /\ \A t, u \in plan \cup {seal} : t.reset /\ u.reset => t = u
    /\ ~fresh => \E t \in plan \cup {seal} : t.reset
    /\ \A i \in 0 .. Len(records) - 1 : \E t \in plan \cup {seal} : Carries(t, i)
    /\ \A t \in plan : PlainChunk(t)
    /\ \A t, u \in plan : t.at = u.at => t = u
    /\ seal.count = Len(records) /\ seal.claim = claim
    /\ seal.reset => plan = {}
\* Every plan carries every record of its batch, for its place, and resets first.
LEMMA PlannedGood ==
  ASSUME NEW s \in Stagings, NEW records \in Seq(Commitments), Len(records) \in 1 .. BatchSize,
         NEW fresh \in BOOLEAN, NEW claim \in Offset, NEW plan, NEW seal,
         Planned(plan, seal, s, records, fresh, claim)
  PROVE  PlanGood(plan, seal, s, records, fresh, claim)
<1>1. PICK starts, tail :
       /\ starts \subseteq 0 .. Len(records) - 1 /\ 0 \in starts
       /\ \/ \E last \in starts : /\ \A a \in starts : a <= last
                                  /\ tail = ChunkTx(s, records, fresh, starts, last)
          \/ tail = StagingTx(s, FALSE, 0, <<>>)
       /\ plan = {ChunkTx(s, records, fresh, starts, at) : at \in starts} \ {tail}
       /\ seal = [tail EXCEPT !.count = Len(records), !.claim = claim]
  BY DEF Planned
<1> PICK n : n = Len(records)
  OBVIOUS
<1>2. n \in Nat \ {0} /\ n \in 0 .. BatchSize
  BY BatchesNotEmpty
<1> DEFINE chunk(at) == ChunkTx(s, records, fresh, starts, at)
<1>3. \A at \in starts : IsChunk(chunk(at), s, records, fresh, starts, at)
  BY <1>1, ChunkIs
<1> HIDE DEF chunk
<1>4. plan = {chunk(at) : at \in starts} \ {tail}
  BY <1>1 DEF chunk
<1>5. \/ \E last \in starts : (\A a \in starts : a <= last) /\ tail = chunk(last)
      \/ tail = StagingTx(s, FALSE, 0, <<>>)
  BY <1>1 DEF chunk
<1>6. /\ tail \in StagingTxs /\ ChunkOf(tail, s, records)
      /\ tail.reset => (\E at \in starts : tail = chunk(at) /\ at = 0 /\ ~fresh)
  <2>1. CASE \E last \in starts : tail = chunk(last)
    BY <1>3, <2>1 DEF IsChunk
  <2>2. CASE tail = StagingTx(s, FALSE, 0, <<>>)
    <3>1. 0 \in 0 .. BatchSize /\ <<>> \in Seq(Commitments) /\ Len(<<>>) = 0
      BY BatchesNotEmpty
    <3>2. tail \in StagingTxs
      BY ONLY <2>2, <3>1, s \in Stagings DEF StagingTx, StagingTxs, NoOffset
    <3>3. /\ tail.s = s /\ tail.awaited /\ tail.at = 0 /\ tail.records = <<>> /\ ~tail.reset
      BY <2>2 DEF StagingTx
    <3>4. ChunkOf(tail, s, records)
      BY <1>2, <3>1, <3>2, <3>3 DEF ChunkOf
    <3> QED BY <3>2, <3>3, <3>4
  <2> QED BY <1>5, <2>1, <2>2
<1>7. /\ seal \in StagingTxs /\ seal.s = tail.s /\ seal.reset = tail.reset /\ seal.at = tail.at
      /\ seal.records = tail.records /\ seal.count = n /\ seal.claim = claim /\ seal.awaited = tail.awaited
  <2>1. seal = [tail EXCEPT !.count = n, !.claim = claim]
    BY <1>1
  <2>2. tail \in StagingTxs /\ n \in 0 .. BatchSize
    BY <1>2, <1>6
  <2>3. /\ seal \in StagingTxs /\ seal.s = tail.s /\ seal.reset = tail.reset /\ seal.at = tail.at
        /\ seal.records = tail.records /\ seal.count = n /\ seal.claim = claim
        /\ seal.awaited = tail.awaited
    BY ONLY claim \in Offset, <2>1, <2>2 DEF StagingTxs, Offset
  <2> QED BY <2>3
<1>8. ChunkOf(seal, s, records) /\ \A i : Carries(seal, i) <=> Carries(tail, i)
  BY <1>6, <1>7 DEF ChunkOf, Carries
<1>9. \A t \in plan : \E at \in starts : t = chunk(at) /\ IsChunk(t, s, records, fresh, starts, at)
  BY <1>3, <1>4
<1>10. plan \subseteq StagingTxs /\ \A t \in plan : PlainChunk(t) /\ ChunkOf(t, s, records)
  BY <1>9 DEF IsChunk
<1>11. \A t, u \in plan : t.at = u.at => t = u
  BY <1>9 DEF IsChunk
<1>12. \A t \in plan : t.reset => t = chunk(0) /\ ~fresh
  BY <1>9 DEF IsChunk
<1>13. seal.reset => tail = chunk(0)
  BY <1>6, <1>7
<1>14. chunk(0) = tail => chunk(0) \notin plan
  BY <1>4
<1>15. \A t, u \in plan \cup {seal} : t.reset /\ u.reset => t = u
  BY <1>12, <1>13, <1>14
<1>16. ~fresh => \E t \in plan \cup {seal} : t.reset
  <2> SUFFICES ASSUME ~fresh PROVE \E t \in plan \cup {seal} : t.reset
    OBVIOUS
  <2>1. chunk(0).reset
    BY <1>1, <1>3 DEF IsChunk
  <2>2. chunk(0) \in plan \/ chunk(0) = tail
    BY <1>1, <1>4
  <2> QED BY <1>7, <2>1, <2>2
<1>17. ASSUME NEW i \in 0 .. Len(records) - 1
       PROVE  \E t \in plan \cup {seal} : Carries(t, i)
  <2>1. PICK at \in starts : i \in at .. End(records, starts, at) - 1
    BY <1>1, <1>2, ChunksCover
  <2>2. chunk(at).at = at /\ Len(chunk(at).records) = End(records, starts, at) - at
    BY <1>3 DEF IsChunk
  <2>3. End(records, starts, at) \in at + 1 .. Len(records) /\ at \in Nat
    <3>1. at \in Nat
      BY <1>1
    <3> QED BY <1>1, <1>2, <3>1, EndIs
  <2>4. at + (End(records, starts, at) - at) - 1 = End(records, starts, at) - 1
    BY <1>2, <2>3
  <2>5. Carries(chunk(at), i)
    BY <2>1, <2>2, <2>4 DEF Carries
  <2>6. chunk(at) \in plan \/ chunk(at) = tail
    BY <1>4
  <2> QED BY <1>8, <2>5, <2>6
<1>18. ASSUME seal.reset
       PROVE  plan = {}
  <2>1. PICK at \in starts : tail = chunk(at) /\ at = 0
    BY <1>6, <1>7, <1>18
  <2>2. PICK last \in starts : (\A a \in starts : a <= last) /\ tail = chunk(last)
    <3>1. tail # StagingTx(s, FALSE, 0, <<>>)
      <4>1. StagingTx(s, FALSE, 0, <<>>).reset = FALSE
        BY DEF StagingTx
      <4>2. tail.reset
        BY <1>7, <1>18
      <4> QED BY <4>1, <4>2
    <3> QED BY <1>5, <3>1
  <2>3. last = 0
    <3>1. chunk(at).at = at /\ chunk(last).at = last
      BY <1>3 DEF IsChunk
    <3> QED BY <2>1, <2>2, <3>1
  <2>4. \A a \in starts : a = 0
    BY <1>1, <2>2, <2>3
  <2> QED BY <1>4, <2>1, <2>4
<1> QED BY <1>7, <1>8, <1>10, <1>11, <1>15, <1>16, <1>17, <1>18 DEF PlanGood

\* The batch is planned.
LEMMA BatchPlanned ==
  ASSUME AccountsInOrder, ProcessOK, PlanBatch
  PROVE  AccountsInOrder' /\ ProcessOK'
<1>1. AtNext /\ operator = "gateway" /\ Own = {} /\ memory.batch < Batches(memory.records)
      /\ UNCHANGED <<vars, sent, used, drawn, faults>> /\ operator' = operator
  BY StepIsPlace, ConfirmedIs DEF PlanBatch, WhereItIs
<1>2. /\ memory \in NextMemory /\ OwnBuffer(memory.s) /\ memory.batch \in 0 .. Batches(memory.records)
      /\ Account(staging[memory.s])
      /\ memory.batch = 0 => ~staging[memory.s].sealed
  BY <1>1 DEF AtNext
<1>3. memory.records \in Seq(Commitments) /\ memory.batch \in Nat /\ memory.s \in Stagings
      /\ memory.last \in Offset
  BY <1>2 DEF NextMemory
<1>4. PICK b : b = memory.batch + 1
  OBVIOUS
<1>5. b \in 1 .. Batches(memory.records) /\ b \in Nat
  <2>1. Batches(memory.records) \in Nat
    BY <1>3, BatchesAre
  <2> QED BY <1>1, <1>3, <1>4, <2>1
<1>6. PICK records : records = BatchOf(memory.records, b)
  OBVIOUS
<1>7. records \in Seq(Commitments) /\ Len(records) \in 1 .. BatchSize
  BY <1>3, <1>5, <1>6, BatchFacts
<1>8. PICK plan, seal :
        /\ Planned(plan, seal, memory.s, records, b = 1, memory.last)
        /\ memory' = [step |-> "stage", records |-> memory.records, batch |-> b,
                      last |-> memory.last, s |-> memory.s, plan |-> plan, seal |-> seal]
  BY <1>3, <1>4, <1>6, <1>7, PlanIs
<1>9. PlanGood(plan, seal, memory.s, records, b = 1, memory.last)
  BY <1>3, <1>7, <1>8, PlannedGood
<1>10. /\ plan \in SUBSET StagingTxs /\ seal \in StagingTxs
       /\ \A t \in plan \cup {seal} : ChunkOf(t, memory.s, records)
       /\ \A t, u \in plan \cup {seal} : t.reset /\ u.reset => t = u
       /\ b # 1 => \E t \in plan \cup {seal} : t.reset
       /\ \A i \in 0 .. Len(records) - 1 : \E t \in plan \cup {seal} : Carries(t, i)
       /\ \A t \in plan : PlainChunk(t)
       /\ \A t, u \in plan : t.at = u.at => t = u
       /\ seal.count = Len(records) /\ seal.claim = memory.last
       /\ seal.reset => plan = {}
  BY <1>9 DEF PlanGood
<1>11. AccountsInOrder' /\ Own' = {} /\ staging' = staging /\ OwnBuffer(memory.s)'
  <2>1. memory'.s = memory.s
    BY <1>8
  <2> QED BY <1>1, <1>2, <2>1, QuietAccounts DEF OwnBuffer
<1>12. /\ memory' \in StageMemory /\ memory'.s = memory.s /\ memory'.batch = b
       /\ memory'.records = memory.records /\ memory'.last = memory.last
       /\ memory'.plan = plan /\ memory'.seal = seal
  BY ONLY <1>3, <1>5, <1>8, <1>10 DEF StageMemory
<1>13. ThisBatch' = records
  BY <1>6, <1>12 DEF ThisBatch
<1>14. PICK txs : txs = plan \cup {seal}
  OBVIOUS
<1>15. (memory.plan \cup Own \cup {memory.seal})' = txs /\ (memory.plan \cup Own)' = plan
  BY <1>11, <1>12, <1>14
<1>16. Underway(txs, memory.s, records)'
  <2>1. staging[memory.s].sealed => \E t \in txs : t.reset
    <3>1. CASE b # 1
      BY <1>10, <1>14, <3>1
    <3>2. CASE b = 1
      <4>1. memory.batch = 0
        BY <1>3, <1>4, <3>2
      <4> QED BY <1>2, <4>1
    <3> QED BY <3>1, <3>2
  <2>2. staging'[memory'.s] = staging[memory.s]
    BY <1>11, <1>12
  <2>3. \A t \in txs : ChunkOf(t, memory'.s, records)
    BY <1>10, <1>12, <1>14
  <2>4. /\ \A t, u \in txs : t.reset /\ u.reset => t = u
        /\ \A i \in 0 .. Len(records) - 1 : \E t \in txs : Carries(t, i)
    BY <1>10, <1>14
  <2> QED BY <1>2, <2>1, <2>2, <2>3, <2>4 DEF Underway
<1>17. AtStage'
  <2>1. Underway(memory.plan \cup Own \cup {memory.seal}, memory.s, ThisBatch)'
    BY <1>13, <1>15, <1>16
  <2>2. \A t \in (memory.plan \cup Own)' : t \in StagingTxs /\ PlainChunk(t)
    BY <1>10, <1>15
  <2>3. \A t, u \in (memory.plan \cup Own)' : t.at = u.at => t = u
    BY <1>10, <1>15
  <2>4. memory'.batch \in 1 .. Batches(memory'.records)
    BY <1>5, <1>12
  <2>5. memory'.seal.count = Len(ThisBatch') /\ memory'.seal.claim = memory'.last
        /\ (memory'.seal.reset => memory'.plan = {} /\ Own' = {})
    BY <1>10, <1>11, <1>12, <1>13
  <2> QED BY <1>11, <1>12, <2>1, <2>2, <2>3, <2>4, <2>5 DEF AtStage
<1> QED BY <1>1, <1>11, <1>17, GatewayGoes

-----------------------------------------------------------------------------
(* Every step, and what it gives.                                          *)

\* The running process makes a step.
LEMMA ProcessSteps ==
  ASSUME AccountsInOrder, ProcessOK, Process
  PROVE  AccountsInOrder' /\ ProcessOK'
<1>1. CASE GatewayStep
  BY <1>1, GatewayStarts, OpenSent, BatchPlanned, ChunksSent, SealSent, VerdictRead, BatchDone,
     CloseSent, DoneProcess DEF GatewayStep
<1>2. CASE LeftoversStep
  BY <1>2, LeftoversStart, LeftoverClosed, LeftoversEnd, BufferVisited DEF LeftoversStep
<1>3. CASE SendSettlement
  BY <1>3, SettlementSent
<1> QED BY <1>1, <1>2, <1>3 DEF Process

\* Any step, the ones that change nothing included.
LEMMA RelayerSteps ==
  ASSUME AccountsInOrder, ProcessOK, [RNext]_rvars
  PROVE  AccountsInOrder' /\ ProcessOK'
<1>1. CASE Process
  BY <1>1, ProcessSteps
<1>2. CASE \/ \E t \in sent : Land(t) \/ Refuse(t) \/ Expire(t)
           \/ StrangerSettles \/ Crash \/ Compute \/ FailToCompute \/ Deliver \/ Done
  BY <1>2, OthersProcess
<1>3. CASE UNCHANGED rvars
  <2>1. UNCHANGED vars /\ UNCHANGED <<operator, memory, sent, used, drawn, faults>>
    BY <1>3 DEF rvars, relayerVars
  <2>2. AccountsInOrder' /\ Own' = Own
    BY <2>1, QuietAccounts
  <2>3. sent' \subseteq sent /\ UNCHANGED <<operator, memory, used>>
    BY <2>1
  <2>4. ProcessOK'
    BY <2>1, <2>2, <2>3, NothingSeen
  <2> QED BY <2>2, <2>4
<1> QED BY <1>1, <1>2, <1>3 DEF RNext

\* The accounts are in order and whatever process runs is where it thinks it is, always.
THEOREM RelayerInOrder == RSpec => [](AccountsInOrder /\ ProcessOK)
<1>1. RInit => AccountsInOrder /\ ProcessOK
  BY InitAccounts
<1>2. AccountsInOrder /\ ProcessOK /\ [RNext]_rvars => (AccountsInOrder /\ ProcessOK)'
  BY RelayerSteps
<1> QED BY <1>1, <1>2, PTL DEF RSpec

\* Relayer.BatchSealedAsPlanned: whatever chunks were cut and in whatever order they landed,
\* a sealed batch holds its records in their order.
LEMMA SealedIsPlanned ==
  ASSUME AccountsInOrder, ProcessOK
  PROVE  BatchSealedAsPlanned
<1> SUFFICES ASSUME operator = "gateway", memory.step = "await", Confirmed
             PROVE  LET records == BatchOf(memory.records, memory.batch)
                    IN  /\ staging[memory.s].sealed
                        /\ result[memory.s].offset = memory.last
                        /\ \A n \in DOMAIN records : staging[memory.s].slots[n - 1].com = records[n]
  BY DEF BatchSealedAsPlanned
<1>1. AtAwait
  BY StepIsPlace DEF WhereItIs
<1>2. Own = {}
  BY ConfirmedIs
<1>3. SealedBatch(memory.s, ThisBatch, memory.last)
  BY <1>1, <1>2 DEF AtAwait, SealWaits
<1> QED BY <1>3 DEF SealedBatch, ThisBatch

\* Relayer.BatchSealedAsPlanned, always: whatever chunks were cut and in whatever order
\* they landed, a batch sealed for the gateway is the one it planned.
THEOREM SealedBatchesAsPlanned == RSpec => []BatchSealedAsPlanned
<1>1. AccountsInOrder /\ ProcessOK => BatchSealedAsPlanned
  BY SealedIsPlanned
<1> QED BY <1>1, RelayerInOrder, PTL

\* Where a close of the process itself can be under way.
LEMMA OwnCloseIs ==
  ASSUME AccountsInOrder, ProcessOK, NEW t \in sent, t.type = "close", t.awaited
  PROVE  \/ operator = "gateway" /\ AtClose
         \/ operator = "leftovers" /\ AtVisit /\ t.s = memory.s
<1>1. t \in Own
  BY DEF Own
<1>2. operator \in {"gateway", "leftovers"}
  BY <1>1 DEF ProcessOK, NobodyOK
<1>3. CASE operator = "gateway"
  <2>1. ~AtStart
    BY <1>1 DEF AtStart
  <2>2. ~AtNext
    BY <1>1 DEF AtNext, OpenTx
  <2>3. ~AtStage
    BY <1>1 DEF AtStage, StagingTxs
  <2>4. ~AtAwait
    BY <1>1 DEF AtAwait, SealWaits, StagingTxs
  <2>5. ~AtSettle
    BY <1>1 DEF AtSettle, SettleWaits, SettleTx
  <2> QED BY <1>3, <2>1, <2>2, <2>3, <2>4, <2>5 DEF ProcessOK, GatewayOK
<1>4. CASE operator = "leftovers"
  <2>1. ~(memory \in FirstVisit /\ Own = {})
    BY <1>1
  <2>2. ~AtLeftSettle
    <3>1. SUFFICES ASSUME AtLeftSettle
                   PROVE  FALSE
      OBVIOUS
    <3>2. PICK o \in Orders \cup {<<>>} : SettleWaits(memory.s, o)
      BY <3>1 DEF AtLeftSettle
    <3> QED BY ONLY <1>1, <3>2, t.type = "close" DEF SettleWaits, SettleTx
  <2>3. AtVisit
    BY <1>4, <2>1, <2>2 DEF ProcessOK, LeftoversOK
  <2> QED BY <1>1, <1>4, <2>3 DEF AtVisit, CloseTx
<1> QED BY <1>2, <1>3, <1>4

\* Relayer.OwnCloseDropsNothingSeen: of what it closes, settle-leftovers has settled all that
\* it saw verified, and the gateway leaves nothing unpaid.
LEMMA CloseKeepsPayments ==
  ASSUME AccountsInOrder, ProcessOK
  PROVE  OwnCloseDropsNothingSeen
<1> SUFFICES ASSUME NEW t \in sent, t.type = "close", t.awaited, Account(result[t.s]),
                    operator = "leftovers" => result[t.s].instance = memory.seen
             PROVE  \A i \in result[t.s].bitmap \ result[t.s].applied :
                       operator = "gateway" /\ ~Owed(staging[t.s].slots[i].com)
  BY DEF OwnCloseDropsNothingSeen
<1>1. CASE operator = "gateway" /\ AtClose
  <2>1. t \in Own
    BY DEF Own
  <2>2. PaidUp(t.s)
    BY <1>1, <2>1 DEF AtClose
  <2> QED BY <1>1, <2>2 DEF PaidUp
<1>2. CASE operator = "leftovers" /\ AtVisit /\ t.s = memory.s
  <2>1. result[t.s].bitmap \ result[t.s].applied = {}
    BY <1>2 DEF AtVisit, Remains, Unsettled
  <2> QED BY <2>1
<1> QED BY <1>1, <1>2, OwnCloseIs

\* Relayer.OwnCloseDropsNothingSeen, always: whatever a close still awaited finds verified and
\* not applied is the gateway's, and is paid all the same; settle-leftovers has applied all
\* that it saw.
THEOREM OwnClosesDropNothing == RSpec => []OwnCloseDropsNothingSeen
<1>1. AccountsInOrder /\ ProcessOK => OwnCloseDropsNothingSeen
  BY CloseKeepsPayments
<1> QED BY <1>1, RelayerInOrder, PTL

\* Relayer.OnlyForestallingRefuses, always: whatever crashed processes and strangers settle,
\* reset or close before it, the gateway's settlement of its own buffer is refused only when
\* somebody settled one of its records first, and without a fault never.
THEOREM OnlyOthersForestall == RSpec => []OnlyForestallingRefuses
<1>1. AccountsInOrder /\ ProcessOK => OnlyForestallingRefuses
  BY SettlementsAccepted
<1> QED BY <1>1, RelayerInOrder, PTL

-----------------------------------------------------------------------------
(* The relayer implements the abstract payments, but for their liveness.   *)

\* The units due on a channel are those up to the last target signed.
LEMMA DueIs ==
  ASSUME NEW c \in Channels
  PROVE  /\ DueUnits[c] \in Nat
         /\ \A k \in Commitments : k.channel = c => k.target <= DueUnits[c]
<1>1. PICK targets : targets = {k.target : k \in {r \in Range(Records) : r.channel = c}} \cup {0}
  OBVIOUS
<1>2. Collateral[c] \in U64
  BY FundsAreInOrder
<1>3. Collateral[c] \in Nat
  BY <1>2, NumbersAreU64 DEF U64
<1>4. \A k \in Commitments : k.channel = c => k.target \in 0 .. Collateral[c] /\ k.target \in targets
  <2> SUFFICES ASSUME NEW k \in Commitments, k.channel = c
               PROVE  k.target \in 0 .. Collateral[c] /\ k.target \in targets
    OBVIOUS
  <2>1. k.target \in 1 .. Collateral[k.channel]
    BY RecordsAreSound DEF RecordSound
  <2>2. k \in Range(Records)
    BY KindFacts
  <2> QED BY <1>1, <1>3, <2>1, <2>2
<1>5. targets \subseteq 0 .. Collateral[c] /\ targets # {}
  <2>1. ASSUME NEW t \in targets, t # 0
        PROVE  t \in 0 .. Collateral[c]
    <3>1. PICK k \in Range(Records) : k.channel = c /\ t = k.target
      BY <1>1, <2>1
    <3> QED BY <3>1, <1>4, KindFacts
  <2> QED BY <1>1, <1>3, <2>1
<1>6. \E t \in targets : \A other \in targets : other <= t
  BY <1>3, <1>5, GreatestIs
<1>7. DueUnits[c] = CHOOSE t \in targets : \A other \in targets : other <= t
  BY <1>1 DEF DueUnits
<1>8. DueUnits[c] \in targets /\ \A other \in targets : other <= DueUnits[c]
  BY <1>6, <1>7
<1>9. DueUnits[c] \in 0 .. Collateral[c]
  BY <1>5, <1>8
<1>10. ASSUME NEW k \in Commitments, k.channel = c
       PROVE  k.target <= DueUnits[c]
  BY <1>4, <1>8, <1>10
<1> QED BY <1>3, <1>9, <1>10

\* A unit that some fully signed commitment gives away is due, and goes to the owner that
\* the commitments together give it to.
LEMMA UnitOwner ==
  ASSUME Setting, NEW c \in Channels, NEW u \in Nat, u >= 1, NEW p, SignedUnit(c, u, p)
  PROVE  u \in 1 .. DueUnits[c] /\ SignedOwner[c][u] = p
<1>1. PICK k \in Commitments : k.channel = c /\ Covers(k, u) /\ OwnerOf(k, u) = p
  BY DEF SignedUnit
<1>2. HeaderOf(k.channel) = HeadOf(k) /\ HeadOf(k).kind = BatchKind /\ HeadOf(k) = Layout[c[1]]
  BY <1>1, RecordFacts DEF HeadOf
<1>3. u \in 1 .. DueUnits[c]
  <2>1. k.target <= DueUnits[c] /\ DueUnits[c] \in Nat
    BY <1>1, DueIs
  <2>2. k.target \in Nat
    BY CommitmentFacts, NumbersAreU64 DEF U64
  <2> QED BY <1>1, <2>1, <2>2 DEF Covers
<1>4. \E r : Signing(c, u) = {r}
  <2>1. Cardinality(Signing(c, u)) = 1
    BY <1>3, UnitsSignedOnce
  <2>2. IsFiniteSet(Range(Records))
    <3>1. Records \in [1 .. Len(Records) -> Commitments] /\ Len(Records) \in Nat
      BY KindFacts
    <3>2. IsFiniteSet(1 .. Len(Records))
      BY <3>1, FS_Interval
    <3>3. Records \in Surjection(1 .. Len(Records), Range(Records))
      BY <3>1 DEF Range, Surjection
    <3> QED BY <3>2, <3>3, FS_Surjection
  <2>3. IsFiniteSet(Signing(c, u))
    <3>1. Signing(c, u) \subseteq Range(Records)
      BY DEF Signing
    <3> QED BY <2>2, <3>1, FS_Subset
  <2> QED BY <2>1, <2>3, FS_Singleton
<1>5. PICK r : Signing(c, u) = {r}
  BY <1>4
<1>6. (CHOOSE s \in Signing(c, u) : TRUE) = r
  BY <1>5
<1>7. SignedOwner[c][u] = OwnerAmong(r, u, Layout[c[1]].payee)
  BY <1>3, <1>6 DEF SignedOwner
<1>8. r \in Commitments
  BY <1>5, KindFacts DEF Signing
<1>9. CASE BatchKind = Routed
  <2>1. k \in Signing(c, u)
    <3>1. k.base < u /\ u <= k.target
      BY <1>1, <1>2, <1>9 DEF Covers
    <3> QED BY <1>1, <3>1, KindFacts DEF Signing
  <2>2. r = k
    BY <1>5, <2>1
  <2>3. OwnerOf(k, u) = OwnerAmong(k, u, Gateway(k))
    BY <1>2, <1>9, KindFacts DEF OwnerOf
  <2>4. Gateway(k) = Layout[c[1]].payee
    BY <1>2 DEF Gateway
  <2> QED BY <1>1, <1>3, <1>7, <2>2, <2>3, <2>4
<1>10. CASE BatchKind = Direct
  <2>1. OwnerOf(k, u) = Layout[c[1]].payee
    BY <1>2, <1>10 DEF OwnerOf, Gateway
  <2>2. r.allocations = <<>>
    BY <1>8, <1>10, RecordsAreSound DEF RecordSound
  <2>3. DOMAIN r.allocations = {}
    BY <2>2
  <2>4. OwnerAmong(r, u, Layout[c[1]].payee) = Layout[c[1]].payee
    BY <2>3 DEF OwnerAmong
  <2> QED BY <1>1, <1>3, <1>7, <2>1, <2>4
<1> QED BY <1>9, <1>10, KindFacts

\* The two modules count alike.
LEMMA SameCount ==
  ASSUME NEW S
  PROVE  P!Cardinality(S) = Cardinality(S)
BY DEF P!Cardinality, Cardinality

\* What a channel paid so far, to whom, is what the abstract payments say for its watermark.
PaidAsDue ==
    /\ \A c \in Channels : settled[c] \in 0 .. DueUnits[c]
    /\ settled = [c \in Channels |-> settled[c]]
    /\ paidFrom = [c \in Channels |-> [p \in Participants |-> P!OwnedUpto(c, settled[c], p)]]

\* Orderly accounts have paid like that.
LEMMA PaidIs == AccountsInOrder => PaidAsDue
<1> SUFFICES ASSUME AccountsInOrder PROVE PaidAsDue
  OBVIOUS
<1>1. Setting /\ TypeOK /\ PaidOwners /\ paidFrom \in [Channels -> [Participants -> U64]]
  BY DEF AccountsInOrder, ClearingInv, MoneyInOrder
<1>2. settled \in [Channels -> Nat]
  <2>1. settled \in [Channels -> U64]
    BY <1>1 DEF TypeOK
  <2> QED BY <2>1, NumbersAreU64 DEF U64
<1>3. ASSUME NEW c \in Channels
      PROVE  /\ settled[c] \in 0 .. DueUnits[c]
             /\ \A p \in Participants : paidFrom[c][p] = P!OwnedUpto(c, settled[c], p)
  <2>1. PICK n \in Nat : n = settled[c]
    BY <1>2
  <2>2. PICK owner \in [1 .. n -> Participants] :
           /\ \A u \in 1 .. n : SignedUnit(c, u, owner[u])
           /\ \A p \in Participants : paidFrom[c][p] = Cardinality({u \in 1 .. n : owner[u] = p})
    BY <1>1, <2>1 DEF PaidOwners, Owned
  <2>3. \A u \in 1 .. n : u \in 1 .. DueUnits[c] /\ SignedOwner[c][u] = owner[u]
    <3> SUFFICES ASSUME NEW u \in 1 .. n
                 PROVE  u \in 1 .. DueUnits[c] /\ SignedOwner[c][u] = owner[u]
      OBVIOUS
    <3>1. u \in Nat /\ u >= 1 /\ SignedUnit(c, u, owner[u])
      BY <2>2
    <3> QED BY <1>1, <3>1, UnitOwner
  <2>4. n \in 0 .. DueUnits[c]
    <3>1. DueUnits[c] \in Nat
      BY DueIs
    <3>2. n > 0 => n \in 1 .. DueUnits[c]
      BY <2>3
    <3> QED BY <3>1, <3>2
  <2>5. ASSUME NEW p \in Participants
        PROVE  paidFrom[c][p] = P!OwnedUpto(c, n, p)
    <3>1. {u \in 1 .. n : owner[u] = p} = {u \in 1 .. n : OwnerOfUnit(c, u) = p}
      BY <2>3 DEF OwnerOfUnit
    <3> QED BY <2>2, <3>1, SameCount DEF P!OwnedUpto
  <2> QED BY <2>1, <2>4, <2>5
<1>4. paidFrom = [c \in Channels |-> [p \in Participants |-> paidFrom[c][p]]]
  BY <1>1
<1> QED BY <1>2, <1>3, <1>4 DEF PaidAsDue

\* No step takes a watermark back.
LEMMA WatermarksGrow ==
  ASSUME AccountsInOrder, [RNext]_rvars
  PROVE  \A c \in Channels : settled'[c] >= settled[c]
<1>4. settled' = settled \/ SettleChannels
  <2>1. UNCHANGED custodyVars => settled' = settled
    BY DEF custodyVars
  <2>2. UNCHANGED vars => UNCHANGED custodyVars
    BY DEF vars
  <2>3. ASSUME NEW t \in sent, Land(t)
        PROVE  settled' = settled \/ SettleChannels
    <3>1. t.type \in {"open", "staging", "settle", "close"}
      BY <2>3 DEF Land
    <3> QED BY <2>1, <2>3, <3>1, LandedOpen, LandedStaging, LandedSettle, LandedClose
            DEF OpenDone, StagingDone, SettleDone, CloseDone
  <2>4. ASSUME NEW t \in sent, Refuse(t) \/ Expire(t)
        PROVE  UNCHANGED vars
    BY <2>4 DEF Refuse, Expire
  <2>5. Compute \/ FailToCompute => UNCHANGED custodyVars
    BY DEF Compute, FailToCompute, RunComputation
  <2>6. Deliver => UNCHANGED custodyVars
    BY DEF Deliver, Callback
  <2>7. Crash \/ Done \/ UNCHANGED rvars => UNCHANGED vars
    BY DEF Crash, Done, rvars
  <2>8. Process => UNCHANGED vars
    BY DEF Process, GatewayStep, LeftoversStep, StartGateway, SendOpen, PlanBatch, SendChunks,
           SendSeal, ReadVerdict, BatchSettled, SendClose, GatewayDone, SendSettlement,
           StartLeftovers, VisitBuffer, CloseLeftover, LeftoversDone
  <2>9. StrangerSettles => SettleChannels
    BY StrangerDone DEF SettleDone
  <2> QED BY <2>1, <2>2, <2>3, <2>4, <2>5, <2>6, <2>7, <2>8, <2>9 DEF RNext
<1> QED BY <1>4, SettledGrows

\* Every step of the relayer, of Arcium and of the network is a step of the abstract
\* payments, or none.
LEMMA StepPays ==
  ASSUME AccountsInOrder, AccountsInOrder', [RNext]_rvars
  PROVE  [P!Pay]_<<settled, paidFrom>>
<1>1. PaidAsDue /\ PaidAsDue'
  <2>1. AccountsInOrder' => PaidAsDue'
    BY PaidIs, PTL
  <2> QED BY <2>1, PaidIs
<1>2. /\ paidFrom = [c \in Channels |-> [p \in Participants |-> P!OwnedUpto(c, settled[c], p)]]
      /\ paidFrom' = [c \in Channels |-> [p \in Participants |-> P!OwnedUpto(c, settled'[c], p)]]
  BY <1>1 DEF PaidAsDue
<1>3. CASE settled' = settled
  BY <1>2, <1>3
<1>4. CASE settled' # settled
  <2>1. \A c \in Channels : settled'[c] \in P!Ahead(c)
    BY <1>1, WatermarksGrow DEF P!Ahead, DueOf, PaidAsDue
  <2>2. settled' \in [Channels -> UNION {P!Ahead(c) : c \in Channels}]
    BY <1>1, <2>1 DEF PaidAsDue
  <2> QED BY <1>2, <1>4, <2>1, <2>2 DEF P!Pay, P!Forward
<1> QED BY <1>3, <1>4

\* Relayer.ImplementsPayments, but for its <>: whatever crashes, expires, lands late or is
\* sent twice, the watermarks only move forward within what was signed, and every unit
\* passed is paid once, to the owner that the commitments gave it to.
THEOREM RelayerPaysOwners == RSpec => P!Init /\ [][P!Pay]_<<settled, paidFrom>>
<1>1. RInit => P!Init
  BY DEF RInit, Funded, FundedMoney, P!Init
<1>2. AccountsInOrder /\ AccountsInOrder' /\ [RNext]_rvars => [P!Pay]_<<settled, paidFrom>>
  BY StepPays
<1> QED BY <1>1, <1>2, RelayerInOrder, PTL DEF RSpec

-----------------------------------------------------------------------------
(* Without a fault, what is sent is accepted.                              *)

\* A record of the batch passes the checks of staging once the batches before its own are
\* settled, and before it is settled itself.
LEMMA RecordStageable ==
  ASSUME AccountsInOrder, NEW b \in 1 .. Batches(Records), Reached(b - 1, settled), Within(b - 1, settled),
         NEW k \in Range(BatchOf(Records, b)),
         NEW buffer, ~buffer.sealed, buffer.kind = BatchKind, buffer.route \in Routes
  PROVE  Accepts(buffer, k)
<1>1. Setting /\ TypeOK
  BY DEF AccountsInOrder, ClearingInv, MoneyInOrder
<1>2. BatchOf(Records, b) \in Seq(Commitments)
  BY BatchFacts, KindFacts
<1>3. k \in Commitments
  <2>1. PICK n \in DOMAIN BatchOf(Records, b) : k = BatchOf(Records, b)[n]
    BY DEF Range
  <2> QED BY <1>2, <2>1
<1>4. HeaderOf(k.channel) = HeadOf(k) /\ HeadOf(k).kind = BatchKind
  BY <1>1, <1>3, RecordFacts
<1>5. /\ k.channel \in Channels /\ k.channel[1] \in Buckets
      /\ k.base \in Nat /\ k.target \in Nat
  BY <1>3, CommitmentFacts, NumbersAreU64 DEF Channels, U64
<1>6. /\ Payers[k.channel] # NoOne /\ k.target >= 1
      /\ BatchKind = Routed => Validate(k) /\ HeadOf(k).payee \notin Named(k)
  <2>1. RecordSound(k) /\ Collateral[k.channel] \in U64
    BY <1>3, <1>5, RecordsAreSound, FundsAreInOrder
  <2>2. Collateral[k.channel] \in Nat
    BY <2>1, NumbersAreU64 DEF U64
  <2> QED BY <2>1, <2>2 DEF RecordSound
<1>7. HeaderOf(k.channel) # Unopened /\ Occupied(k.channel)
  <2>1. payer[k.channel] # NoOne
    BY <1>1, <1>6 DEF Setting
  <2> QED BY <1>1, <1>4, <1>5, <1>6, <2>1, FundsAreInOrder DEF Occupied, HeadOf
<1>8. settled[k.channel] \in Nat
  BY <1>1, <1>5, NumbersAreU64 DEF TypeOK, U64
<1>9. k.target > settled[k.channel]
  <2>1. CASE settled[k.channel] = 0
    BY <2>1, <1>5, <1>6
  <2>2. CASE settled[k.channel] > 0
    <3>1. PICK a \in 1 .. b - 1 : \E l \in InBatch(a, k.channel) : settled[k.channel] <= l.target
      BY <2>2, <1>5 DEF Within
    <3>2. PICK l \in InBatch(a, k.channel) : settled[k.channel] <= l.target
      BY <3>1
    <3>3. l.target < k.target
      BY BatchesFollowOn
    <3>4. l.target \in Nat
      <4>1. l \in Range(BatchOf(Records, a))
        BY DEF InBatch
      <4>2. a \in 1 .. Batches(Records)
        BY BatchesAre, KindFacts
      <4>3. l \in Commitments
        BY <4>1, <4>2, BatchFacts, KindFacts DEF Range
      <4> QED BY <4>3, CommitmentFacts, NumbersAreU64 DEF U64
    <3> QED BY <3>2, <3>3, <3>4, <1>5, <1>8
  <2> QED BY <2>1, <2>2, <1>8
<1>10. k.base <= settled[k.channel]
  <2>1. CASE k.base = 0
    BY <2>1, <1>8
  <2>2. CASE k.base # 0
    <3>1. PICK a \in 1 .. b - 1 : \E l \in InBatch(a, k.channel) : k.base <= l.target
      BY <2>2, BatchesFollowOn
    <3>2. PICK l \in InBatch(a, k.channel) : k.base <= l.target
      BY <3>1
    <3>3. l \in Range(BatchOf(Records, a)) /\ l.channel = k.channel
      BY DEF InBatch
    <3>4. settled[l.channel] >= l.target
      BY <3>3 DEF Reached
    <3>5. a \in 1 .. Batches(Records)
      BY BatchesAre, KindFacts
    <3>6. l \in Commitments
      BY <3>3, <3>5, BatchFacts, KindFacts DEF Range
    <3>7. l.target \in Nat
      BY <3>6, CommitmentFacts, NumbersAreU64 DEF U64
    <3> QED BY <3>2, <3>3, <3>4, <3>7, <1>5, <1>8
  <2> QED BY <2>1, <2>2
<1>11. CASE BatchKind = Direct
  BY <1>4, <1>7, <1>9, <1>11 DEF Accepts, StageableDirect
<1>12. CASE BatchKind = Routed
  <2>1. buffer.route \in {NoRoute, RouteOf(k)}
    <3>1. RouteOf(k) = <<HeadOf(k).payee, HeadOf(k).mint>>
      BY <1>4 DEF RouteOf, Gateway
    <3>2. \A l \in Commitments : HeadOf(l) = HeadOf(k)
      BY <1>3, <1>12, RecordsAreSound
    <3>3. \A l \in Commitments : <<HeadOf(l).payee, HeadOf(l).mint>> = RouteOf(k)
      BY <3>1, <3>2
    <3> QED BY <3>3 DEF Routes
  <2>2. \A a \in DOMAIN k.allocations : k.allocations[a].id # Gateway(k)
    BY <1>4, <1>6, <1>12 DEF Gateway, Named
  <2>3. StageableRoute(k)
    BY <1>4, <1>6, <1>9, <1>10, <1>12, <2>2 DEF StageableRoute, BaseReached
  <2> QED BY <1>7, <1>12, <2>1, <2>3 DEF Accepts
<1> QED BY <1>11, <1>12, KindFacts

\* The records of a chunk of the batch are all staged.
LEMMA ChunkStageable ==
  ASSUME AccountsInOrder, NEW b \in 1 .. Batches(Records), Reached(b - 1, settled), Within(b - 1, settled),
         NEW t, TxOK(t), t.type = "staging", NEW s, ChunkOf(t, s, BatchOf(Records, b)),
         Account(staging[t.s]), ~Base(t).sealed
  PROVE  BufferRun(t) /\ \A n \in DOMAIN t.records : Accepts(Buffers(t)[n - 1], t.records[n])
<1>1. /\ t \in StagingTxs /\ t.at + Len(t.records) <= BatchSize /\ t.at \in Nat
      /\ Len(t.records) \in Nat /\ DOMAIN t.records = 1 .. Len(t.records)
  BY StagingParts
<1>2. VInv /\ Setting
  BY DEF AccountsInOrder, ClearingInv
<1>3. BufferRun(t)
  BY <1>1, <1>2, BuffersAre
<1>4. BufferFull(Base(t)) /\ SignedBuffer(Base(t))
  BY <1>1, BaseInOrder
<1>5. ASSUME NEW n \in 1 .. Len(t.records)
      PROVE  Accepts(Buffers(t)[n - 1], t.records[n])
  <2>1. PICK buffer : buffer = Buffers(t)[n - 1]
    OBVIOUS
  <2>2. n - 1 \in 0 .. Len(t.records)
    BY <1>1
  <2>3. Written(t, n - 1, buffer)
    BY <1>3, <2>1, <2>2 DEF BufferRun
  <2>4. BufferFull(buffer)
    BY <1>2, <1>4, <2>2, <2>3, WrittenFull
  <2>5. ~buffer.sealed /\ buffer.kind = BatchKind /\ buffer.route \in Routes
    BY <2>3, <2>4 DEF Written, BufferFull
  <2>6. t.records[n] \in Range(BatchOf(Records, b))
    <3>1. /\ DOMAIN BatchOf(Records, b) = 1 .. Len(BatchOf(Records, b))
          /\ Len(BatchOf(Records, b)) \in Nat
      BY BatchFacts, KindFacts, IndexFacts
    <3>2. t.records[n] = BatchOf(Records, b)[t.at + n] /\ t.at + Len(t.records) <= Len(BatchOf(Records, b))
      BY DEF ChunkOf
    <3>3. t.at + n \in DOMAIN BatchOf(Records, b)
      BY <1>1, <3>1, <3>2
    <3> QED BY <3>2, <3>3 DEF Range
  <2> QED BY <2>1, <2>5, <2>6, RecordStageable
<1> QED BY <1>1, <1>3, <1>5

\* What AsPlanned says of the running gateway.
OnPlan ==
    /\ sent = Own
    /\ memory.step # "close" => memory.records = Records
    /\ OnStart /\ OnNext /\ OnStage /\ OnAwait /\ OnSettle /\ OnClose

\* Without a fault, something is under way only of a gateway on its plan.
LEMMA PlanIsOn ==
  ASSUME ProcessOK, AsPlanned, faults = 0, sent # {} \/ operator = "gateway"
  PROVE  operator = "gateway" /\ OnPlan
<1>1. operator \in {"idle", "gateway", "done"} /\ sent = Own
  BY DEF AsPlanned
<1>2. operator = "idle" => sent = {}
  BY DEF AsPlanned, OnIdle
<1>3. operator = "done" => sent = {}
  BY <1>1 DEF ProcessOK, NobodyOK
<1> QED BY <1>1, <1>2, <1>3 DEF AsPlanned, OnPlan

\* A chunk of the gateway is accepted.
LEMMA ChunkAccepted ==
  ASSUME AccountsInOrder, AtStage, OnPlan, NEW t \in Own
  PROVE  Accepted(t)
<1>1. PICK m \in StageMemory : m = memory
  BY DEF AtStage
<1>2. memory.step = "stage" /\ memory.batch \in Nat
  BY ONLY <1>1 DEF StageMemory
<1>3. memory.records = Records /\ Reached(memory.batch - 1, settled) /\ Within(memory.batch - 1, settled)
  BY <1>2 DEF OnPlan, OnStage
<1>4. PICK b \in 1 .. Batches(Records) : b = memory.batch /\ ThisBatch = BatchOf(Records, b)
  BY <1>3 DEF AtStage, ThisBatch
<1>5. PICK txs : txs = memory.plan \cup Own \cup {memory.seal}
  OBVIOUS
<1>6. t \in txs /\ Underway(txs, memory.s, ThisBatch) /\ t \in sent
  BY <1>5 DEF AtStage, Own
<1>7. TxOK(t) /\ t.type = "staging" /\ t \in StagingTxs /\ PlainChunk(t)
  BY <1>6 DEF AtStage, AccountsInOrder, SentOK, StagingTxs
<1>8. ChunkOf(t, memory.s, BatchOf(Records, b)) /\ Account(staging[t.s])
  BY <1>4, <1>6 DEF Underway, ChunkOf
<1>9. ~Base(t).sealed
  <2>1. CASE t.reset
    BY <2>1 DEF Base, EmptyBuffer
  <2>2. CASE ~t.reset
    <3>1. ~staging[memory.s].sealed
      <4>1. \A u \in memory.plan \cup Own : ~u.reset
        BY <2>2 DEF AtStage
      <4>2. ~memory.seal.reset
        BY DEF AtStage
      <4> QED BY <1>5, <1>6, <4>1, <4>2 DEF Underway
    <3> QED BY <2>2, <3>1, <1>8 DEF Base, ChunkOf
  <2> QED BY <2>1, <2>2
<1>10. \A n \in DOMAIN t.records : Accepts(Buffers(t)[n - 1], t.records[n])
  BY <1>3, <1>4, <1>7, <1>8, <1>9, ChunkStageable
<1>11. StagingAccepted(t)
  BY <1>7, <1>8, <1>10 DEF StagingAccepted, PlainChunk, Claimable
<1> QED BY <1>7, <1>11 DEF Accepted

\* The seal transaction of the gateway is accepted.
LEMMA SealAccepted ==
  ASSUME AccountsInOrder, AtAwait, OnPlan, NEW t \in Own
  PROVE  Accepted(t)
<1>1. PICK m \in AwaitMemory : m = memory
  BY DEF AtAwait
<1>2. memory.step = "await" /\ memory.s \in Stagings
  BY ONLY <1>1 DEF AwaitMemory
<1>3. /\ memory.records = Records /\ Reached(memory.batch - 1, settled) /\ Within(memory.batch - 1, settled)
      /\ memory.last = drawn
      /\ instance + 1 = drawn /\ ~Account(comp[drawn]) /\ Ran(t.claim)
  BY <1>2 DEF OnPlan, OnAwait
<1>4. PICK b \in 1 .. Batches(Records) : b = memory.batch /\ ThisBatch = BatchOf(Records, b)
  BY <1>3 DEF AtAwait, ThisBatch
<1>5. /\ t \in StagingTxs /\ t.count = Len(ThisBatch) /\ t.offset = memory.last
      /\ Underway({t}, memory.s, ThisBatch)
  BY DEF AtAwait, SealWaits
<1>6. Len(ThisBatch) \in 1 .. BatchSize /\ t.count \in 1 .. BatchSize
  BY <1>4, <1>5, BatchFacts, KindFacts
<1>7. TxOK(t) /\ t.type = "staging" /\ t \in sent
  BY <1>5 DEF AccountsInOrder, SentOK, StagingTxs, Own
<1>8. ChunkOf(t, memory.s, BatchOf(Records, b)) /\ Account(staging[t.s]) /\ t.s = memory.s
  BY <1>4, <1>5 DEF Underway, ChunkOf
<1>9. ~Base(t).sealed
  BY <1>5, <1>8 DEF Underway, Base, EmptyBuffer
<1>10. BufferRun(t) /\ \A n \in DOMAIN t.records : Accepts(Buffers(t)[n - 1], t.records[n])
  BY <1>3, <1>4, <1>7, <1>8, <1>9, ChunkStageable
<1>11. t.at \in Nat /\ Len(t.records) \in Nat /\ t.at + Len(t.records) <= BatchSize
       /\ t.records \in Seq(Commitments) /\ BatchSize \in Nat
       /\ \A n \in 1 .. Len(t.records) : t.records[n] \in Commitments
  BY <1>7, StagingParts, IndexFacts
<1>12. PICK n \in 0 .. Len(t.records) : n = Len(t.records)
  BY <1>11
<1>13. PICK buffer : buffer = Buffers(t)[n]
  OBVIOUS
<1>14. Written(t, n, buffer)
  BY <1>10, <1>12, <1>13 DEF BufferRun
<1>15. BufferFull(Base(t))
  BY <1>5, <1>8, BaseInOrder
<1>16. ~buffer.sealed /\ buffer.kind = BatchKind
  BY <1>9, <1>14, <1>15 DEF Written, BufferFull
<1>17. 0 .. t.count - 1 \subseteq buffer.staged
  <2> SUFFICES ASSUME NEW i \in 0 .. t.count - 1 PROVE i \in buffer.staged
    OBVIOUS
  <2>1. buffer.staged = Base(t).staged \cup (t.at .. t.at + n - 1)
    BY <1>14 DEF Written
  <2>2. i \in 0 .. Len(ThisBatch) - 1
    BY <1>5
  <2>3. \/ Carries(t, i)
        \/ i \in staging[memory.s].staged /\ ~t.reset
    BY <1>5, <2>2 DEF Underway, InPlace
  <2> QED BY <1>8, <1>12, <2>1, <2>3 DEF Carries, Base
<1>18. BatchKind = Routed => buffer.route # NoRoute
  <2> SUFFICES ASSUME BatchKind = Routed PROVE buffer.route # NoRoute
    OBVIOUS
  <2>1. \A k : RouteOf(k) # NoRoute
    BY DEF RouteOf, NoRoute
  <2>2. CASE n > 0
    <3>1. buffer.route = RouteOf(t.records[n])
      BY <1>14, <1>15, <2>2 DEF Written, BufferFull
    <3> QED BY <2>1, <3>1
  <2>3. CASE n = 0
    <3>1. buffer.route = Base(t).route
      BY <1>14, <2>3 DEF Written
    <3>2. 0 \in 0 .. Len(ThisBatch) - 1 /\ 0 \in Indices
      BY <1>6, IndexFacts
    <3>3. ~Carries(t, 0)
      BY <1>11, <1>12, <2>3 DEF Carries
    <3>4. InPlace(staging[memory.s], ThisBatch, 0) /\ ~t.reset
      BY <1>5, <3>2, <3>3 DEF Underway
    <3>5. BufferFull(staging[memory.s]) /\ 0 \in staging[memory.s].staged
      BY <1>2, <1>8, <3>4 DEF AccountsInOrder, BuffersFull, InPlace
    <3>6. staging[memory.s].slots[0] # Blank
      BY <3>5 DEF BufferFull
    <3>7. RecordFits(staging[memory.s], staging[memory.s].slots[0].com)
      BY <1>2, <1>8, <3>2, <3>6 DEF AccountsInOrder, ClearingInv, StagedRecords
    <3>8. staging[memory.s].kind = Routed
      BY <3>5 DEF BufferFull
    <3>9. staging[memory.s].route # NoRoute
      BY <2>1, <3>7, <3>8 DEF RecordFits
    <3> QED BY <3>1, <3>4, <3>9, <1>8 DEF Base
  <2> QED BY <2>2, <2>3, <1>11, <1>12
<1>19. Sealable(Buffers(t)[Len(t.records)], BatchKind, t.count)
  BY <1>6, <1>12, <1>13, <1>16, <1>17, <1>18 DEF Sealable
<1>20. ~Account(comp[t.offset]) /\ instance < MaxInstances
  <2>1. drawn \in 0 .. MaxInstances /\ MaxInstances \in Nat
    BY BatchesNotEmpty DEF AccountsInOrder, SentOK
  <2>2. instance \in Nat
    BY DEF AccountsInOrder, ClearingInv, VInv, Types
  <2> QED BY <1>3, <1>5, <2>1, <2>2
<1>21. Claimable(t.claim)
  BY <1>3 DEF Ran, Claimable
<1>22. StagingAccepted(t)
  BY <1>8, <1>10, <1>19, <1>20, <1>21 DEF StagingAccepted
<1> QED BY <1>7, <1>22 DEF Accepted

\* Without a fault nothing that is sent can be refused.
LEMMA SentIsAccepted ==
  ASSUME AccountsInOrder, ProcessOK, AsPlanned, faults = 0, NEW t \in sent
  PROVE  Accepted(t)
<1>1. operator = "gateway" /\ OnPlan /\ t \in Own
  <2>1. operator = "gateway" /\ OnPlan
    BY PlanIsOn
  <2> QED BY <2>1 DEF OnPlan
<1>2. ~AtStart
  BY <1>1 DEF AtStart
<1>3. CASE AtNext
  <2>1. t = OpenTx(memory.s) /\ ~Account(staging[memory.s])
    BY <1>1, <1>3 DEF AtNext
  <2> QED BY <2>1 DEF Accepted, OpenTx
<1>4. CASE AtStage
  BY <1>1, <1>4, ChunkAccepted
<1>5. CASE AtAwait
  BY <1>1, <1>5, SealAccepted
<1>6. CASE AtSettle
  <2>1. t.type = "settle" /\ t.awaited
    BY <1>1, <1>6 DEF AtSettle, SettleWaits, SettleTx
  <2> QED BY <1>1, <2>1, SettlementsAccepted DEF OnlyForestallingRefuses
<1>7. CASE AtClose
  <2>1. t.type = "close"
    BY <1>1, <1>7 DEF AtClose, CloseTxs
  <2>2. memory.step = "close"
    BY <1>7 DEF AtClose, CloseMemory
  <2>3. Account(staging[t.s]) /\ Ran(t.claim)
    BY <1>1, <2>2 DEF OnPlan, OnClose
  <2> QED BY <2>1, <2>3 DEF Accepted, Claimable, Ran
<1> QED BY <1>1, <1>2, <1>3, <1>4, <1>5, <1>6, <1>7 DEF ProcessOK, GatewayOK

-----------------------------------------------------------------------------
(* What a settlement brings the watermarks to.                             *)

\* The record settled pays its channel up to its target: the collateral suffices.
LEMMA PaySettles ==
  ASSUME AccountsInOrder, NEW x, Ready(x), NEW M, PaidOut(M)
  PROVE  /\ \A d \in Channels : M.settled[d] \in Nat /\ Pay(M, x).settled[d] \in Nat
         /\ \A d \in Channels \ {x.channel} : Pay(M, x).settled[d] = M.settled[d]
         /\ x.channel \in Channels /\ x.target \in Nat
         /\ Pay(M, x).settled[x.channel] =
              IF x.target > M.settled[x.channel] THEN x.target ELSE M.settled[x.channel]
<1>1. TypeOK /\ Setting /\ MoneyInOrder
  BY DEF AccountsInOrder, ClearingInv, MoneyInOrder
<1>2. PaidOut(Pay(M, x)) /\ GoodSplit(M, x) /\ M \in MoneySet /\ MovedMoney(M)
  BY <1>1, PayKeeps DEF PaidOut
<1>3. PayFacts(M, x)
  BY <1>1, <1>2, PayEffect
<1>4. PICK c, N, moved : c = x.channel /\ N = Pay(M, x) /\ moved = MovedBy(M, x)
  OBVIOUS
<1>5. /\ c \in Channels /\ N.settled[c] = M.settled[c] + moved
      /\ \A d \in Channels \ {c} : N.settled[d] = M.settled[d]
  BY <1>3, <1>4 DEF PayFacts
<1>6. N \in MoneySet
  BY <1>2, <1>4 DEF PaidOut
<1>7. /\ \A d \in Channels : M.settled[d] \in Nat /\ N.settled[d] \in Nat
      /\ \A d \in Channels : M.locked[d] \in Nat
  BY <1>2, <1>6, NumbersAreU64 DEF MoneySet, U64
<1>8. x \in Commitments /\ x.target \in Nat
  <2>1. x \in Commitments
    BY DEF Ready
  <2> QED BY <2>1, CommitmentFacts, NumbersAreU64 DEF U64
<1>9. x.target <= M.settled[c] + M.locked[c]
  <2>1. M.settled[c] + M.locked[c] = Collateral[c]
    BY <1>1, <1>2, <1>5 DEF MovedMoney, Setting
  <2>2. x.target \in 1 .. Collateral[x.channel]
    BY <1>8, RecordsAreSound DEF RecordSound
  <2> QED BY <1>4, <1>5, <1>7, <1>8, <2>1, <2>2
<1>10. moved = IF x.target > M.settled[c] THEN x.target - M.settled[c] ELSE 0
  BY <1>4, <1>5, <1>7, <1>8, <1>9 DEF MovedBy, Payable
<1> QED BY <1>4, <1>5, <1>7, <1>8, <1>10

\* A settlement brings the channels of its records to their targets, and no further.
Reaches(s, order, n, watermark) ==
    /\ \A c \in Channels : watermark[c] >= settled[c]
    /\ \A a \in 1 .. n : LET k == staging[s].slots[order[a]].com
                         IN  watermark[k.channel] >= k.target
    /\ \A c \in Channels : watermark[c] = settled[c] \/
          \E a \in 1 .. n : LET k == staging[s].slots[order[a]].com
                            IN  k.channel = c /\ watermark[c] <= k.target

\* So it is after every record of an instruction that is accepted.
LEMMA OrderReaches ==
  ASSUME AccountsInOrder, NEW s \in Stagings, NEW order \in Orders, SettlementAccepted(s, order)
  PROVE  Reaches(s, order, Len(order), MoneyAfter(s, order)[Len(order)].settled)
<1>1. /\ Len(order) \in Nat /\ DOMAIN order = 1 .. Len(order)
      /\ \A a \in 1 .. Len(order) : Ready(staging[s].slots[order[a]].com)
  BY OrderIsReady DEF AccountsInOrder
<1>2. MoneyInOrder /\ TypeOK
  BY DEF AccountsInOrder, ClearingInv, MoneyInOrder
<1>3. PaidInTurn(MoneyAfter(s, order), s, order)
  BY <1>1, <1>2, MoneyAfterIs
<1>4. PICK after, l : after = MoneyAfter(s, order) /\ l = Len(order) /\ l \in Nat
  BY <1>1
<1>5. /\ after[0] = Money
      /\ \A a \in 1 .. l : after[a] = Pay(after[a - 1], staging[s].slots[order[a]].com)
      /\ \A a \in 0 .. l : PaidOut(after[a])
  BY <1>3, <1>4 DEF PaidInTurn
<1>6. \A c \in Channels : settled[c] \in Nat
  BY <1>2, NumbersAreU64 DEF TypeOK, U64
<1> DEFINE A == {n \in 0 .. l : Reaches(s, order, n, after[n].settled)}
<1>7. 0 \in A
  <2>1. after[0].settled = settled
    BY <1>5 DEF Money
  <2>2. Reaches(s, order, 0, settled)
    BY ONLY <1>6 DEF Reaches
  <2> QED BY <1>4, <2>1, <2>2
<1>8. \A n \in 0 .. l - 1 : n \in A => n + 1 \in A
  <2> SUFFICES ASSUME NEW n \in 0 .. l - 1, Reaches(s, order, n, after[n].settled)
               PROVE  Reaches(s, order, n + 1, after[n + 1].settled)
    BY <1>4
  <2>1. n + 1 \in 1 .. l /\ (n + 1) - 1 = n /\ n \in 0 .. l /\ n \in Nat
    BY <1>4
  <2>2. PICK k, M, N : k = staging[s].slots[order[n + 1]].com /\ M = after[n] /\ N = after[n + 1]
    BY Zenon
  <2>9. Reaches(s, order, n, after[n].settled)
    OBVIOUS
  <2>3. N = Pay(M, k) /\ PaidOut(M) /\ Ready(k)
    BY <1>1, <1>4, <1>5, <2>1, <2>2
  <2>4. /\ \A d \in Channels : M.settled[d] \in Nat /\ N.settled[d] \in Nat
        /\ \A d \in Channels \ {k.channel} : N.settled[d] = M.settled[d]
        /\ k.channel \in Channels /\ k.target \in Nat
        /\ N.settled[k.channel] =
              IF k.target > M.settled[k.channel] THEN k.target ELSE M.settled[k.channel]
    BY <2>3, PaySettles
  <2>0. N.settled[k.channel] >= k.target
    BY <2>4
  <2>5. \A d \in Channels : N.settled[d] >= M.settled[d]
    BY <2>4
  <2>6. ASSUME NEW c \in Channels
        PROVE  N.settled[c] >= settled[c]
    <3>1. M.settled[c] >= settled[c]
      BY <2>2 DEF Reaches
    <3> QED BY <1>6, <2>4, <2>5, <3>1
  <2>7. ASSUME NEW a \in 1 .. n + 1
        PROVE  N.settled[staging[s].slots[order[a]].com.channel] >= staging[s].slots[order[a]].com.target
    <3>1. CASE a = n + 1
      BY ONLY <2>0, <2>2, <3>1, Zenon
    <3>2. CASE a # n + 1
      <4>1. a \in 1 .. n /\ a \in 1 .. Len(order)
        BY <1>4, <2>1, <3>2
      <4>2. PICK x : x = staging[s].slots[order[a]].com
        BY Zenon
      <4>3. M.settled[x.channel] >= x.target
        BY ONLY <2>2, <2>9, <4>1, <4>2 DEF Reaches
      <4>4. x \in Commitments
        BY <1>1, <4>1, <4>2 DEF Ready
      <4>5. x.channel \in Channels /\ x.target \in Nat
        BY <4>4, CommitmentFacts, NumbersAreU64 DEF U64
      <4> QED BY <2>4, <2>5, <4>2, <4>3, <4>5
    <3> QED BY ONLY <3>1, <3>2
  <2>8. ASSUME NEW c \in Channels, N.settled[c] # settled[c]
        PROVE  \E a \in 1 .. n + 1 : /\ staging[s].slots[order[a]].com.channel = c
                                     /\ N.settled[c] <= staging[s].slots[order[a]].com.target
    <3>1. CASE N.settled[c] = M.settled[c]
      <4>1. PICK a \in 1 .. n : /\ staging[s].slots[order[a]].com.channel = c
                                /\ M.settled[c] <= staging[s].slots[order[a]].com.target
        BY <2>2, <2>8, <3>1 DEF Reaches
      <4>2. a \in 1 .. n + 1
        BY ONLY <2>1
      <4> QED BY ONLY <3>1, <4>1, <4>2
    <3>2. CASE N.settled[c] # M.settled[c]
      <4>1. c = k.channel /\ N.settled[c] = k.target
        BY <2>4, <3>2
      <4>2. n + 1 \in 1 .. n + 1
        BY <2>1
      <4>3. staging[s].slots[order[n + 1]].com.channel = c
            /\ staging[s].slots[order[n + 1]].com.target = N.settled[c]
        BY ONLY <2>2, <4>1
      <4>4. N.settled[c] \in Nat
        BY <2>4
      <4> QED BY <4>2, <4>3, <4>4
    <3> QED BY <3>1, <3>2
  <2> QED BY ONLY <2>2, <2>6, <2>7, <2>8 DEF Reaches
<1>9. 0 .. l \subseteq A
  <2> HIDE DEF A
  <2> QED BY <1>4, <1>7, <1>8, Induction
<1>10. l \in 0 .. l
  BY <1>4
<1> QED BY <1>4, <1>9, <1>10

\* The watermarks after the settlement of t.
LEMMA LandReaches ==
  ASSUME AccountsInOrder, NEW t \in sent, Land(t), t.type = "settle"
  PROVE  Reaches(t.s, t.order, Len(t.order), settled')
<1>1. t.s \in Stagings /\ t.order \in Orders
  <2>1. TxOK(t)
    BY DEF AccountsInOrder, SentOK
  <2> QED BY <2>1, TxParts
<1>2. SettleGroups(t.s, t.order)
  BY DEF Land
<1>3. SettlementAccepted(t.s, t.order) /\ settled' = MoneyAfter(t.s, t.order)[Len(t.order)].settled
  BY <1>2 DEF SettleGroups
<1> QED BY <1>1, <1>3, OrderReaches

-----------------------------------------------------------------------------
(* Without a fault, the steps of Arcium leave the plan as it is.           *)

\* What the memory of the gateway holds.
LEMMA MemoryIs ==
  ASSUME ProcessOK, operator = "gateway"
  PROVE  /\ memory.step \in {"start", "next", "stage", "await", "settle", "close"}
         /\ memory.step \in {"next", "stage", "await", "settle"} =>
              memory.s \in Stagings /\ memory.last \in Offset /\ memory.batch \in Nat
         /\ memory.step = "await" => memory.last \in Offsets
         /\ memory.step \in {"await", "close"} => \A t \in Own : t.claim \in Offset
<1>1. CASE AtStart
  BY <1>1 DEF AtStart, StartMemory
<1>2. CASE AtNext
  BY <1>2 DEF AtNext, NextMemory
<1>3. CASE AtStage
  BY <1>3 DEF AtStage, StageMemory
<1>4. CASE AtAwait
  <2>1. PICK m \in AwaitMemory : m = memory
    BY <1>4 DEF AtAwait
  <2>2. memory.step = "await" /\ memory.s \in Stagings /\ memory.last \in Offset /\ memory.batch \in Nat
    BY ONLY <2>1 DEF AwaitMemory
  <2>3. memory.last \in Offsets
    BY <1>4, <2>2 DEF AtAwait, Offset
  <2>4. \A t \in Own : t.claim \in Offset
    BY <1>4 DEF AtAwait, SealWaits, StagingTxs, Offset
  <2> QED BY <2>2, <2>3, <2>4
<1>5. CASE AtSettle
  BY <1>5 DEF AtSettle, SettleMemory
<1>6. CASE AtClose
  <2>1. memory.step = "close"
    BY <1>6 DEF AtClose, CloseMemory
  <2>2. \A t \in Own : t.claim \in Offset
    BY <1>6 DEF AtClose, CloseTxs, Offset
  <2> QED BY <2>1, <2>2
<1> QED BY <1>1, <1>2, <1>3, <1>4, <1>5, <1>6 DEF ProcessOK, GatewayOK

\* What a step leaves when it touches no money, no buffer and no memory.
Undisturbed ==
    /\ UNCHANGED <<operator, memory, sent, drawn, faults, instance, settled, staging>>
    /\ \A o \in Offsets : /\ Account(comp'[o]) <=> Account(comp[o])
                          /\ comp[o].ran => comp'[o].ran
    /\ operator = "gateway" /\ memory.step = "settle" =>
         result'[memory.s].applied = result[memory.s].applied
    /\ operator = "gateway" /\ memory.step = "await" /\ Own = {} /\ result'[memory.s].verified =>
         result[memory.s].verified \/ comp'[memory.last].ran

\* The plan goes on after it.
LEMMA UndisturbedPlan ==
  ASSUME ProcessOK, AsPlanned, faults = 0, Undisturbed
  PROVE  AsPlanned'
<1>1. /\ UNCHANGED <<operator, memory, sent, drawn, faults, instance, settled, staging>>
      /\ Own' = Own
      /\ \A o \in Offsets : /\ Account(comp'[o]) <=> Account(comp[o])
                            /\ comp[o].ran => comp'[o].ran
  BY DEF Undisturbed, Own
<1>2. operator \in {"idle", "gateway", "done"} /\ sent = Own /\ OnIdle
  BY DEF AsPlanned
<1>3. OnIdle'
  BY <1>1, <1>2 DEF OnIdle
<1>4. \A o \in Offset : Ran(o) => Ran(o)'
  BY <1>1 DEF Ran, Offset
<1>5. ASSUME operator = "gateway"
      PROVE  OnPlan'
  <2>1. /\ memory.step \in {"next", "stage", "await", "settle"} =>
             memory.s \in Stagings /\ memory.last \in Offset /\ memory.batch \in Nat
        /\ memory.step = "await" => memory.last \in Offsets
        /\ memory.step \in {"await", "close"} => \A t \in Own : t.claim \in Offset
    BY <1>5, MemoryIs
  <2>2. OnPlan
    BY <1>5, PlanIsOn
  <2>3. ASSUME memory.step \in {"next", "stage", "settle"}, Ran(memory.last)
        PROVE  Ran(memory.last)'
    <3>1. PICK o \in Offset : o = memory.last
      BY <2>1, <2>3
    <3>2. Ran(o)'
      BY <1>4, <2>3, <3>1
    <3> QED BY <1>1, <3>1, <3>2 DEF Ran
  <2>4. OnStart' /\ OnNext' /\ OnStage'
    BY <1>1, <2>2, <2>3 DEF OnPlan, OnStart, OnNext, OnStage
  <2>5. OnSettle'
    <3> SUFFICES ASSUME memory.step = "settle" PROVE OnSettle'
      BY <1>1 DEF OnSettle
    <3>1. result'[memory.s].applied = result[memory.s].applied
      BY <1>5 DEF Undisturbed
    <3> QED BY <1>1, <2>2, <2>3, <3>1 DEF OnPlan, OnSettle, ThisBatch
  <2>6. OnAwait'
    <3> SUFFICES ASSUME memory.step = "await" PROVE OnAwait'
      BY <1>1 DEF OnAwait
    <3>1. /\ memory.last = drawn /\ Reached(memory.batch - 1, settled) /\ Within(memory.batch - 1, settled)
          /\ \A t \in Own : instance + 1 = drawn /\ ~Account(comp[drawn]) /\ Ran(t.claim) /\ t.claim # drawn
          /\ Own = {} => /\ instance = drawn /\ Account(comp[memory.last])
                         /\ result[memory.s].verified => comp[memory.last].ran
      BY <2>2 DEF OnPlan, OnAwait
    <3>2. /\ \A t \in Own : ~Account(comp'[drawn]) /\ Ran(t.claim)'
          /\ Own = {} => Account(comp'[memory.last])
      BY <1>1, <1>4, <2>1, <3>1
    <3>3. Own = {} /\ result'[memory.s].verified => comp'[memory.last].ran
      BY <1>1, <1>5, <2>1, <3>1 DEF Undisturbed
    <3> QED BY <1>1, <3>1, <3>2, <3>3 DEF OnAwait, Ran
  <2>7. OnClose'
    <3> SUFFICES ASSUME memory.step = "close"
                 PROVE  /\ \A k \in Commitments : ~Owed(k)'
                        /\ \A t \in Own : Own = {t} /\ Account(staging'[t.s]) /\ Ran(t.claim)'
      BY <1>1 DEF OnClose, Ran
    <3>1. \A k \in Commitments : ~Owed(k)
      BY <2>2 DEF OnPlan, OnClose
    <3>2. \A k \in Commitments : ~Owed(k)'
      BY <1>1, <3>1 DEF Owed
    <3>3. \A t \in Own : Own = {t} /\ Account(staging'[t.s]) /\ Ran(t.claim)'
      BY <1>1, <1>4, <2>1, <2>2 DEF OnPlan, OnClose
    <3> QED BY <3>2, <3>3
  <2> QED BY <1>1, <2>2, <2>4, <2>5, <2>6, <2>7 DEF OnPlan
<1> QED BY <1>1, <1>2, <1>3, <1>5 DEF AsPlanned, OnPlan

\* Arcium runs a computation, or its output is delivered.
LEMMA ArciumOnPlan ==
  ASSUME AccountsInOrder, ProcessOK, AsPlanned, faults = 0, Compute \/ Deliver
  PROVE  AsPlanned'
<1>1. CASE Compute
  <2>1. RunDone /\ UNCHANGED <<operator, memory, sent, used, drawn>>
    BY <1>1, RunKeepsAccounts
  <2>2. faults' = faults
    BY <1>1 DEF Compute, relayerVars
  <2>3. settled' = settled
    BY <2>1 DEF RunDone, custodyVars
  <2>4. Undisturbed
    BY <2>1, <2>2, <2>3 DEF RunDone, Undisturbed
  <2> QED BY <2>4, UndisturbedPlan
<1>2. CASE Deliver
  <2>1. PICK out \in outputs : Callback(out) /\ UNCHANGED relayerVars
    BY <1>2 DEF Deliver
  <2>2. AccountsInOrder' /\ DeliverDone(out)
    BY <2>1, DeliverKeepsAccounts
  <2>3. UNCHANGED <<operator, memory, sent, drawn, faults>>
    BY <2>1 DEF relayerVars
  <2>4. settled' = settled /\ comp' = comp /\ UNCHANGED <<instance, staging>>
    BY <2>2 DEF DeliverDone, custodyVars
  <2>5. PICK s : s = out.target
    OBVIOUS
  <2>6. /\ \A u \in Stagings \ {s} : result'[u] = result[u]
        /\ result'[s].applied = result[s].applied
        /\ result[s].offset = out.offset
        /\ result'[s].verified => result[s].verified \/ comp[out.offset].ran
    <3>1. /\ \A u \in Stagings \ {s} : result'[u] = result[u]
          /\ result'[s].applied = result[s].applied
          /\ result[s].offset = out.offset /\ out.offset \in Offsets
          /\ ~result[s].verified
          /\ IF out.failure THEN result'[s].verified = result[s].verified
             ELSE Account(comp[out.offset]) /\ comp[out.offset].instance = out.instance
      BY <2>2, <2>5 DEF DeliverDone
    <3>2. Account(comp[out.offset]) /\ comp[out.offset].instance = out.instance
            => comp[out.offset].ran
      BY DEF AccountsInOrder, OffsetsMarked
    <3> QED BY <3>1, <3>2
  <2>7. ASSUME operator = "gateway", memory.step = "await", Own = {}, result'[memory.s].verified
        PROVE  result[memory.s].verified \/ comp'[memory.last].ran
    <3>1. AtAwait /\ memory.s \in Stagings
      BY <2>7, MemoryIs, StepIsPlace DEF WhereItIs
    <3>2. result[memory.s].offset = memory.last
      BY <2>7, <3>1 DEF AtAwait, SealWaits, SealedBatch
    <3>3. CASE memory.s = s
      BY <2>4, <2>6, <2>7, <3>2, <3>3
    <3>4. CASE memory.s # s
      BY <2>6, <2>7, <3>1, <3>4
    <3> QED BY <3>3, <3>4
  <2>8. ASSUME operator = "gateway", memory.step = "settle"
        PROVE  result'[memory.s].applied = result[memory.s].applied
    <3>1. memory.s \in Stagings
      BY <2>8, MemoryIs
    <3> QED BY <2>6, <3>1
  <2>9. Undisturbed
    BY <2>3, <2>4, <2>7, <2>8 DEF Undisturbed
  <2> QED BY <2>9, UndisturbedPlan
<1> QED BY <1>1, <1>2

\* Nothing happens at all.
LEMMA QuietOnPlan ==
  ASSUME ProcessOK, AsPlanned, faults = 0, UNCHANGED rvars
  PROVE  AsPlanned'
<1>1. UNCHANGED <<operator, memory, sent, drawn, faults>> /\ UNCHANGED vars
  BY DEF rvars, relayerVars
<1>2. UNCHANGED <<instance, settled, staging, comp, result>>
  BY <1>1 DEF vars, clearingVars, arciumVars, custodyVars
<1>3. Undisturbed
  BY <1>1, <1>2 DEF Undisturbed
<1> QED BY <1>3, UndisturbedPlan

-----------------------------------------------------------------------------
(* Without a fault, every step of the gateway is on its plan.              *)

\* A gateway on its plan is what AsPlanned asks for.
LEMMA GoesOnPlan ==
  ASSUME operator' = "gateway", OnPlan'
  PROVE  AsPlanned'
BY DEF AsPlanned, OnPlan, OnIdle

\* Sending what the process waits for.
LEMMA SentIsOwn ==
  ASSUME sent = Own, NEW txs, \A t \in txs : t.awaited, sent' = sent \cup txs
  PROVE  sent' = Own' /\ Own' = Own \cup txs
BY DEF Own

\* The gateway starts: nothing is settled, and everything owed.
LEMMA StartOnPlan ==
  ASSUME AccountsInOrder, ProcessOK, AsPlanned, faults = 0, StartGateway
  PROVE  AsPlanned'
<1>1. /\ operator = "idle" /\ operator' = "gateway"
      /\ memory' = [step |-> "start", records |-> Session, batch |-> 0, last |-> NoOffset]
      /\ UNCHANGED <<vars, sent, used, drawn, faults>>
  BY DEF StartGateway
<1>2. OnIdle /\ sent = Own
  BY DEF AsPlanned
<1>3. sent = {} /\ drawn = 0 /\ instance = 0 /\ Reached(0, settled) /\ Within(0, settled)
  BY <1>1, <1>2 DEF OnIdle
<1>4. Owing = Records
  <2>1. ASSUME NEW n \in DOMAIN Records
        PROVE  Owed(Records[n])
    <3>1. PICK k \in Commitments : k = Records[n]
      BY KindFacts
    <3>2. k.channel \in Channels /\ k.target \in Nat
      BY CommitmentFacts, NumbersAreU64 DEF U64
    <3>3. k.target >= 1
      <4>1. RecordSound(k) /\ Collateral[k.channel] \in U64
        BY <3>2, RecordsAreSound, FundsAreInOrder
      <4>2. Collateral[k.channel] \in Nat
        BY <4>1, NumbersAreU64 DEF U64
      <4> QED BY <4>1, <4>2 DEF RecordSound
    <3>4. settled[k.channel] \in Nat
      BY <3>2, NumbersAreU64 DEF AccountsInOrder, ClearingInv, MoneyInOrder, TypeOK, U64
    <3>5. settled[k.channel] = 0
      BY <1>3, <3>2, <3>4 DEF Within
    <3> QED BY <3>1, <3>2, <3>3, <3>5 DEF Owed
  <2> QED BY <2>1, OwingIs
<1>9. FollowsOn(Records)
  <2> SUFFICES ASSUME NEW b \in 1 .. Batches(Records), NEW k \in Range(BatchOf(Records, b))
               PROVE  \/ k.base <= settled[k.channel]
                      \/ \E a \in 1 .. b - 1 : \E l \in Range(BatchOf(Records, a)) :
                           l.channel = k.channel /\ k.base <= l.target
    BY DEF FollowsOn
  <2>1. CASE k.base = 0
    <3>1. k \in Commitments
      BY BatchWithin, KindFacts
    <3>2. k.channel \in Channels
      BY <3>1, CommitmentFacts
    <3>3. settled[k.channel] \in Nat
      BY <3>2, NumbersAreU64 DEF AccountsInOrder, ClearingInv, MoneyInOrder, TypeOK, U64
    <3> QED BY <2>1, <3>3
  <2>2. CASE k.base # 0
    <3>1. PICK a \in 1 .. b - 1 : \E l \in InBatch(a, k.channel) : k.base <= l.target
      BY <2>2, BatchesFollowOn
    <3> QED BY <3>1 DEF InBatch
  <2> QED BY <2>1, <2>2
<1>5. memory'.step = "start" /\ memory'.records = Records
  BY <1>1, <1>4, <1>9, SessionIs
<1>6. instance' = instance /\ settled' = settled
  BY <1>1 DEF vars, clearingVars, arciumVars, custodyVars
<1>7. sent' = Own'
  BY <1>1, <1>3 DEF Own
<1>8. OnPlan'
  BY <1>1, <1>3, <1>5, <1>6, <1>7 DEF OnPlan, OnStart, OnNext, OnStage, OnAwait, OnSettle, OnClose
<1> QED BY <1>1, <1>8, GoesOnPlan

\* What a step of the gateway starts from, and leaves in the accounts.
LEMMA PlanStep ==
  ASSUME AccountsInOrder, ProcessOK, AsPlanned, faults = 0, operator = "gateway",
         UNCHANGED <<vars, operator>>
  PROVE  /\ OnPlan /\ operator' = "gateway" /\ sent = Own
         /\ UNCHANGED <<instance, settled, staging, result, comp>>
         /\ memory.step # "close" => memory.records = Records
<1>1. OnPlan
  BY PlanIsOn
<1>2. UNCHANGED <<instance, settled, staging, result, comp>>
  BY DEF vars, clearingVars, arciumVars, custodyVars
<1> QED BY <1>1, <1>2 DEF OnPlan

\* It opens its buffer.
LEMMA OpenOnPlan ==
  ASSUME AccountsInOrder, ProcessOK, AsPlanned, faults = 0, SendOpen
  PROVE  AsPlanned'
<1>1. PICK s \in Stagings :
         /\ sent' = sent \cup {OpenTx(s)}
         /\ memory' = [step |-> "next", records |-> memory.records, batch |-> 0,
                       last |-> NoOffset, s |-> s]
  BY DEF SendOpen
<1>2. memory.step = "start" /\ UNCHANGED <<vars, operator, drawn, faults>>
  BY DEF SendOpen
<1>3. operator = "gateway"
  BY <1>2, StepIsPlace DEF WhereItIs
<1>4. /\ OnPlan /\ operator' = "gateway" /\ sent = Own
      /\ UNCHANGED <<instance, settled, staging, result, comp>> /\ memory.records = Records
  BY <1>2, <1>3, PlanStep
<1>5. sent' = Own'
  <2>1. PICK txs : txs = {OpenTx(s)}
    OBVIOUS
  <2>2. \A t \in txs : t.awaited
    BY <2>1 DEF OpenTx
  <2> QED BY <1>1, <1>4, <2>1, <2>2, SentIsOwn
<1>6. drawn = 0 /\ instance = 0 /\ Reached(0, settled) /\ Within(0, settled)
  BY <1>2, <1>4 DEF OnPlan, OnStart
<1>7. memory'.step = "next" /\ memory'.records = Records /\ memory'.batch = 0 /\ memory'.last = NoOffset
  BY <1>1, <1>4
<1>8. OnPlan'
  BY <1>2, <1>4, <1>5, <1>6, <1>7 DEF OnPlan, OnStart, OnNext, OnStage, OnAwait, OnSettle, OnClose, Ran
<1> QED BY <1>4, <1>8, GoesOnPlan

\* It plans a batch.
LEMMA BatchOnPlan ==
  ASSUME AccountsInOrder, ProcessOK, AsPlanned, faults = 0, PlanBatch
  PROVE  AsPlanned'
<1>1. /\ memory.step = "next" /\ UNCHANGED <<vars, operator, sent, drawn, faults>>
      /\ memory'.step = "stage" /\ memory'.records = memory.records
      /\ memory'.batch = memory.batch + 1 /\ memory'.last = memory.last
  BY DEF PlanBatch
<1>2. operator = "gateway"
  BY <1>1, StepIsPlace DEF WhereItIs
<1>3. /\ OnPlan /\ operator' = "gateway" /\ sent = Own
      /\ UNCHANGED <<instance, settled, staging, result, comp>> /\ memory.records = Records
  BY <1>1, <1>2, PlanStep
<1>4. /\ instance = drawn /\ Ran(memory.last)
      /\ Reached(memory.batch, settled) /\ Within(memory.batch, settled)
  BY <1>1, <1>3 DEF OnPlan, OnNext
<1>5. memory'.batch - 1 = memory.batch
  <2>1. memory.batch \in Nat
    BY <1>1, <1>2, MemoryIs
  <2> QED BY <1>1, <2>1
<1>6. Ran(memory.last)'
  BY <1>1, <1>3, <1>4 DEF Ran
<1>7. sent' = Own'
  BY <1>1, <1>3 DEF Own
<1>8. OnPlan'
  BY <1>1, <1>3, <1>4, <1>5, <1>6, <1>7
     DEF OnPlan, OnStart, OnNext, OnStage, OnAwait, OnSettle, OnClose
<1> QED BY <1>3, <1>8, GoesOnPlan

\* It sends chunks.
LEMMA ChunksOnPlan ==
  ASSUME AccountsInOrder, ProcessOK, AsPlanned, faults = 0, SendChunks
  PROVE  AsPlanned'
<1>1. /\ memory.step = "stage" /\ UNCHANGED <<vars, operator, drawn, faults>>
      /\ sent' = sent \cup FirstToSend(memory.plan)
      /\ memory' = [memory EXCEPT !.plan = memory.plan \ FirstToSend(memory.plan)]
  BY DEF SendChunks
<1>2. operator = "gateway" /\ AtStage
  BY <1>1, StepIsPlace DEF WhereItIs
<1>3. /\ OnPlan /\ operator' = "gateway" /\ sent = Own
      /\ UNCHANGED <<instance, settled, staging, result, comp>> /\ memory.records = Records
  BY <1>1, <1>2, PlanStep
<1>4. memory'.step = "stage" /\ memory'.records = Records /\ memory'.batch = memory.batch
      /\ memory'.last = memory.last
  <2>1. PICK m, rest : m \in StageMemory /\ m = memory /\ memory' = [m EXCEPT !.plan = rest]
    BY <1>1, <1>2 DEF AtStage
  <2> QED BY ONLY <1>1, <1>3, <2>1 DEF StageMemory
<1>5. /\ instance = drawn /\ Ran(memory.last)
      /\ Reached(memory.batch - 1, settled) /\ Within(memory.batch - 1, settled)
  BY <1>1, <1>3 DEF OnPlan, OnStage
<1>6. sent' = Own'
  <2>1. PICK txs : txs = FirstToSend(memory.plan)
    OBVIOUS
  <2>2. txs \subseteq memory.plan
    BY <2>1 DEF FirstToSend
  <2>3. \A t \in txs : t.awaited
    BY <1>2, <2>2 DEF AtStage, Underway, ChunkOf
  <2> QED BY <1>1, <1>3, <2>1, <2>3, SentIsOwn
<1>7. Ran(memory.last)'
  BY <1>3, <1>4, <1>5 DEF Ran
<1>8. OnPlan'
  BY <1>1, <1>3, <1>4, <1>5, <1>6, <1>7
     DEF OnPlan, OnStart, OnNext, OnStage, OnAwait, OnSettle, OnClose
<1> QED BY <1>3, <1>8, GoesOnPlan

\* It sends the transaction that seals the batch.
LEMMA SealOnPlan ==
  ASSUME AccountsInOrder, ProcessOK, AsPlanned, faults = 0, SendSeal
  PROVE  AsPlanned'
<1>1. /\ memory.step = "stage" /\ UNCHANGED <<vars, operator, faults>>
      /\ drawn < MaxInstances /\ drawn' = drawn + 1
      /\ sent' = sent \cup {[memory.seal EXCEPT !.offset = drawn']}
      /\ memory'.step = "await" /\ memory'.records = memory.records
      /\ memory'.batch = memory.batch /\ memory'.last = drawn'
      /\ Confirmed
  BY DEF SendSeal
<1>2. operator = "gateway" /\ AtStage
  BY <1>1, StepIsPlace DEF WhereItIs
<1>3. /\ OnPlan /\ operator' = "gateway" /\ sent = Own
      /\ UNCHANGED <<instance, settled, staging, result, comp>> /\ memory.records = Records
  BY <1>1, <1>2, PlanStep
<1>4. /\ instance = drawn /\ Ran(memory.last)
      /\ Reached(memory.batch - 1, settled) /\ Within(memory.batch - 1, settled)
  BY <1>1, <1>3 DEF OnPlan, OnStage
<1>5. PICK m \in StageMemory : m = memory
  BY <1>2 DEF AtStage
<1>6. PICK plain, t : plain \in StagingTxs /\ plain = memory.seal /\ t = [plain EXCEPT !.offset = drawn']
  BY ONLY <1>5 DEF StageMemory
<1>7. t.claim = plain.claim /\ t.awaited = plain.awaited
  BY ONLY <1>6 DEF StagingTxs
<1>8. t.claim = memory.last /\ t.awaited
  BY <1>2, <1>6, <1>7 DEF AtStage, Underway, ChunkOf
<1>9. sent' = Own' /\ Own' = {t}
  <2>1. PICK txs : txs = {t}
    OBVIOUS
  <2>2. \A u \in txs : u.awaited
    BY <1>8, <2>1
  <2>3. sent' = sent \cup txs
    BY <1>1, <1>6, <2>1
  <2>4. Own = {}
    BY <1>1, ConfirmedIs
  <2> QED BY <1>3, <2>1, <2>2, <2>3, <2>4, SentIsOwn
<1>10. drawn \in 0 .. MaxInstances /\ MaxInstances \in Nat
  BY BatchesNotEmpty DEF AccountsInOrder, SentOK
<1>11. \A o \in Offsets : Account(comp[o]) => o <= drawn
  BY DEF AccountsInOrder, OffsetsMarked
<1>12. drawn' \in Offsets /\ drawn' \in Nat /\ drawn' > drawn
  BY <1>1, <1>10, OffsetsEnough
<1>13. ~Account(comp[drawn'])
  BY <1>10, <1>11, <1>12
<1>14. memory.last \in Offset
  BY <1>1, <1>2, MemoryIs
<1>15. t.claim # drawn'
  BY <1>4, <1>8, <1>10, <1>11, <1>12, <1>14, IndexFacts DEF Ran, Offset, NoOffset
<1>16. \A u \in Own' : instance' + 1 = drawn' /\ ~Account(comp'[drawn']) /\ Ran(u.claim)' /\ u.claim # drawn'
  BY <1>1, <1>3, <1>4, <1>8, <1>9, <1>13, <1>15 DEF Ran
<1>17. Own' # {}
  BY <1>9
<1>18. OnPlan'
  BY <1>1, <1>3, <1>4, <1>9, <1>16, <1>17
     DEF OnPlan, OnStart, OnNext, OnStage, OnAwait, OnSettle, OnClose
<1> QED BY <1>3, <1>18, GoesOnPlan

\* Every record of a sealed batch of the gateway verifies.
LEMMA VerdictIsFull ==
  ASSUME AccountsInOrder, NEW s \in Stagings, Account(result[s]), result[s].verified
  PROVE  result[s].bitmap = 0 .. result[s].count - 1
<1>1. VerdictMatchesBatch
  BY VerdictsMatch DEF AccountsInOrder, ClearingInv
<1>2. PICK r, b : r = result[s] /\ b = staging[s]
  OBVIOUS
<1>3. /\ b.sealed /\ b.kind = r.kind /\ 0 .. r.count - 1 \subseteq b.staged
      /\ r.bitmap = {i \in 0 .. r.count - 1 : Verifies(b.slots[i], r.kind)}
  BY <1>1, <1>2 DEF VerdictMatchesBatch
<1>4. Account(b)
  BY <1>2 DEF AccountsInOrder, ClearingInv, VInv, Paired
<1>5. BufferFull(b)
  BY <1>2, <1>4 DEF AccountsInOrder, BuffersFull
<1>6. r.count \in 0 .. BatchSize
  <2>1. r \in ResultSet
    BY <1>2, ClosedFacts DEF AccountsInOrder, ClearingInv, VInv, Types
  <2> QED BY <2>1 DEF ResultSet
<1>7. ASSUME NEW i \in 0 .. r.count - 1
      PROVE  Verifies(b.slots[i], r.kind)
  <2>1. i \in Indices
    BY <1>6, IndexFacts DEF Indices
  <2>2. b.slots[i] # Blank
    BY <1>3, <1>5 DEF BufferFull
  <2> QED BY <1>3, <1>5, <2>1, <2>2 DEF BufferFull, Verifies
<1> QED BY <1>2, <1>3, <1>7

\* It reads the verdict: every record verified.
LEMMA VerdictOnPlan ==
  ASSUME AccountsInOrder, ProcessOK, AsPlanned, faults = 0, ReadVerdict
  PROVE  AsPlanned'
<1>1. /\ memory.step = "await" /\ Confirmed /\ UNCHANGED <<vars, faults>>
      /\ Account(result[memory.s]) /\ (result[memory.s].verified \/ result[memory.s].failed)
  BY DEF ReadVerdict
<1>2. operator = "gateway" /\ AtAwait /\ Own = {}
  BY <1>1, StepIsPlace, ConfirmedIs DEF WhereItIs
<1>3. memory.s \in Stagings /\ memory.batch \in Nat
  BY <1>1, <1>2, MemoryIs
<1>4. result[memory.s].verified
  BY <1>1, <1>3 DEF AccountsInOrder, ResultsMarked
<1>5. SealedBatch(memory.s, ThisBatch, memory.last) /\ result[memory.s].applied = {}
  BY <1>2 DEF AtAwait, SealWaits
<1>6. result[memory.s].bitmap = 0 .. Len(BatchOf(memory.records, memory.batch)) - 1
  BY <1>1, <1>3, <1>4, <1>5, VerdictIsFull DEF SealedBatch, ThisBatch
<1>7. /\ memory'.step = "settle" /\ memory'.records = memory.records /\ memory'.batch = memory.batch
      /\ memory'.last = memory.last /\ memory'.s = memory.s
      /\ UNCHANGED <<operator, sent, used, drawn>>
  BY <1>4, <1>6 DEF ReadVerdict
<1>8. /\ OnPlan /\ operator' = "gateway" /\ sent = Own
      /\ UNCHANGED <<instance, settled, staging, result, comp>> /\ memory.records = Records
  BY <1>1, <1>2, <1>7, PlanStep
<1>9. /\ memory.last = drawn /\ Reached(memory.batch - 1, settled) /\ Within(memory.batch - 1, settled)
      /\ instance = drawn /\ Account(comp[memory.last]) /\ comp[memory.last].ran
  BY <1>1, <1>2, <1>4, <1>8 DEF OnPlan, OnAwait
<1>10. Within(memory.batch, settled)
  BY <1>3, <1>9 DEF Within
<1>11. Ran(memory.last)'
  BY <1>7, <1>8, <1>9 DEF Ran
<1>12. result'[memory'.s].applied = {}
  BY <1>5, <1>7, <1>8
<1>13. sent' = Own'
  BY <1>7, <1>8 DEF Own
<1>14. OnPlan'
  BY <1>7, <1>8, <1>9, <1>10, <1>11, <1>12, <1>13
     DEF OnPlan, OnStart, OnNext, OnStage, OnAwait, OnSettle, OnClose
<1> QED BY <1>8, <1>14, GoesOnPlan

\* It sends a settlement.
LEMMA SettlementOnPlan ==
  ASSUME AccountsInOrder, ProcessOK, AsPlanned, faults = 0, SendSettlement
  PROVE  AsPlanned'
<1>1. PICK t, rest : /\ sent' = sent \cup {t} /\ t.awaited
                     /\ memory' = [memory EXCEPT !.todo = rest]
  <2>1. PICK n \in 1 .. Len(memory.todo) :
           /\ sent' = sent \cup {SettleTx(memory.s, SubSeq(memory.todo, 1, n))}
           /\ memory' = [memory EXCEPT !.todo = SubSeq(@, n + 1, Len(@))]
    BY DEF SendSettlement
  <2>2. PICK t : t = SettleTx(memory.s, SubSeq(memory.todo, 1, n))
    OBVIOUS
  <2>3. t.awaited
    BY <2>2 DEF SettleTx
  <2>4. PICK rest : rest = SubSeq(memory.todo, n + 1, Len(memory.todo))
    OBVIOUS
  <2>5. memory' = [memory EXCEPT !.todo = rest]
    BY <2>1, <2>4
  <2> QED BY <2>1, <2>2, <2>3, <2>5
<1>2. memory.step = "settle" /\ UNCHANGED <<vars, operator, used, drawn, faults>>
  BY DEF SendSettlement
<1>3. operator = "gateway" /\ AtSettle
  <2>1. operator \in {"idle", "gateway", "done"}
    BY DEF AsPlanned
  <2> QED BY <1>2, <2>1, StepIsPlace DEF WhereItIs
<1>4. /\ OnPlan /\ operator' = "gateway" /\ sent = Own
      /\ UNCHANGED <<instance, settled, staging, result, comp>> /\ memory.records = Records
  BY <1>2, <1>3, PlanStep
<1>5. /\ memory'.step = "settle" /\ memory'.records = Records /\ memory'.batch = memory.batch
      /\ memory'.last = memory.last /\ memory'.s = memory.s
  <2>1. PICK m \in SettleMemory : m = memory
    BY <1>3 DEF AtSettle
  <2>2. memory' = [m EXCEPT !.todo = rest]
    BY <1>1, <2>1
  <2> QED BY ONLY <1>2, <1>4, <2>1, <2>2 DEF SettleMemory
<1>6. OnSettle
  BY <1>4 DEF OnPlan
<1>7. OnSettle'
  BY <1>2, <1>4, <1>5, <1>6 DEF OnSettle, ThisBatch, Ran
<1>8. sent' = Own'
  <2>1. PICK txs : txs = {t}
    OBVIOUS
  <2>2. \A u \in txs : u.awaited
    BY <1>1, <2>1
  <2> QED BY <1>1, <1>4, <2>1, <2>2, SentIsOwn
<1>9. OnPlan'
  BY <1>4, <1>5, <1>7, <1>8 DEF OnPlan, OnStart, OnNext, OnStage, OnAwait, OnClose
<1> QED BY <1>4, <1>9, GoesOnPlan

\* The batch is settled: every record of it has reached its target.
LEMMA SettledOnPlan ==
  ASSUME AccountsInOrder, ProcessOK, AsPlanned, faults = 0, BatchSettled
  PROVE  AsPlanned'
<1>1. /\ memory.step = "settle" /\ UNCHANGED <<vars, operator, sent, used, drawn, faults>>
      /\ operator = "gateway" /\ Confirmed /\ memory.todo = <<>>
      /\ memory'.step = "next" /\ memory'.records = memory.records /\ memory'.batch = memory.batch
      /\ memory'.last = memory.last /\ memory'.s = memory.s
  BY DEF BatchSettled
<1>2. AtSettle /\ Own = {}
  BY <1>1, StepIsPlace, ConfirmedIs DEF WhereItIs
<1>3. /\ OnPlan /\ operator' = "gateway" /\ sent = Own
      /\ UNCHANGED <<instance, settled, staging, result, comp>> /\ memory.records = Records
  BY <1>1, PlanStep
<1>4. /\ instance = drawn /\ Ran(memory.last)
      /\ Reached(memory.batch - 1, settled) /\ Within(memory.batch, settled)
      /\ \A i \in result[memory.s].applied :
            LET k == ThisBatch[i + 1] IN settled[k.channel] >= k.target
  BY <1>1, <1>3 DEF OnPlan, OnSettle
<1>5. 0 .. Len(ThisBatch) - 1 \subseteq result[memory.s].applied
  <2>1. PICK o \in Orders \cup {<<>>} :
           /\ SettleWaits(memory.s, o)
           /\ faults = 0 => Unsettled(result[memory.s]) = Range(o) \cup Range(memory.todo)
    BY <1>2 DEF AtSettle
  <2>2. o = <<>>
    BY <1>2, <2>1 DEF SettleWaits
  <2>3. Unsettled(result[memory.s]) = {}
    BY <1>1, <2>1, <2>2, RangeOfNothing
  <2> QED BY <1>2, <2>3 DEF AtSettle, Unsettled
<1>6. memory.batch \in 1 .. Batches(Records) /\ memory.batch \in Nat
  BY <1>1, <1>2, <1>3, MemoryIs DEF AtSettle
<1>7. \A k \in Range(BatchOf(Records, memory.batch)) : settled[k.channel] >= k.target
  <2> SUFFICES ASSUME NEW k \in Range(BatchOf(Records, memory.batch))
               PROVE  settled[k.channel] >= k.target
    OBVIOUS
  <2>1. PICK b, records :
           b \in 1 .. Batches(Records) /\ b = memory.batch /\ records = BatchOf(Records, b) /\ records = ThisBatch
    BY <1>3, <1>6 DEF ThisBatch
  <2>2. DOMAIN records = 1 .. Len(records) /\ Len(records) \in Nat
    BY <2>1, BatchFacts, KindFacts, IndexFacts
  <2>3. PICK n \in 1 .. Len(records) : k = records[n]
    BY <2>1, <2>2 DEF Range
  <2>4. n - 1 \in 0 .. Len(records) - 1 /\ (n - 1) + 1 = n
    BY <2>2
  <2>5. PICK i : i = n - 1
    OBVIOUS
  <2>6. i \in result[memory.s].applied /\ ThisBatch[i + 1] = k
    BY <1>5, <2>1, <2>3, <2>4, <2>5
  <2> QED BY <1>4, <2>6
<1>8. Reached(memory.batch, settled)
  <2> SUFFICES ASSUME NEW b \in 1 .. memory.batch, NEW k \in Range(BatchOf(Records, b))
               PROVE  settled[k.channel] >= k.target
    BY DEF Reached
  <2>1. CASE b = memory.batch
    BY <1>7, <2>1
  <2>2. CASE b # memory.batch
    <3>1. b \in 1 .. memory.batch - 1
      BY <1>6, <2>2
    <3> QED BY <1>4, <3>1 DEF Reached
  <2> QED BY <2>1, <2>2
<1>9. Ran(memory.last)'
  BY <1>1, <1>3, <1>4 DEF Ran
<1>10. sent' = Own'
  BY <1>1, <1>3 DEF Own
<1>11. OnPlan'
  BY <1>1, <1>3, <1>4, <1>8, <1>9, <1>10
     DEF OnPlan, OnStart, OnNext, OnStage, OnAwait, OnSettle, OnClose
<1> QED BY <1>3, <1>11, GoesOnPlan

\* The batches hold all records: with all of them settled, nothing is owed.
LEMMA AllReached ==
  ASSUME AccountsInOrder, Reached(Batches(Records), settled), NEW k \in Commitments
  PROVE  ~Owed(k)
<1>1. PICK L \in Nat : L = Len(Records) /\ DOMAIN Records = 1 .. L
  BY KindFacts
<1>2. PICK B \in Nat \ {0} : B = BatchSize
  BY BatchesNotEmpty
<1>3. PICK n \in 1 .. L : k = Records[n]
  BY <1>1, KindFacts DEF Range
<1>4. PICK v, w \in Nat : v = n - 1 /\ w = L + B - 1 /\ v + B <= w
  BY <1>2, <1>3
<1>5. PICK q \in Nat, r \in 0 .. B - 1 : v = q * B + r
  BY <1>4, Quotient
<1>6. PICK p \in Nat, x \in 0 .. B - 1 : w = p * B + x /\ p = Batches(Records)
  <2>1. w \div B = Batches(Records)
    BY <1>1, <1>2, <1>4 DEF Batches
  <2> QED BY <1>4, <2>1, Quotient
<1>7. PICK e \in Nat : e = q * B
  OBVIOUS
<1>8. (q + 1) * B = e + B
  BY <1>7
<1>9. q + 1 \in 1 .. p
  <2>0. SUFFICES ASSUME q >= p PROVE FALSE
    OBVIOUS
  <2>1. PICK d \in Nat : q = p + d
    BY <2>0
  <2>2. q * B = p * B + d * B
    BY <2>1
  <2>3. PICK y, z \in Nat : y = p * B /\ z = d * B
    OBVIOUS
  <2>4. e = y + z
    BY <1>7, <2>2, <2>3
  <2> QED BY <1>4, <1>5, <1>6, <1>7, <2>3, <2>4
<1>10. PICK b \in 1 .. Batches(Records) : b = q + 1
  BY <1>6, <1>9
<1>11. b * B = e + B /\ (b - 1) * B = e
  BY <1>7, <1>8, <1>10
<1>12. PICK records : records = BatchOf(Records, b)
  OBVIOUS
<1>13. /\ DOMAIN records = 1 .. Len(records)
       /\ Len(records) = Smaller(e + B, L) - e
       /\ \A i \in 1 .. Len(records) : records[i] = Records[e + i]
  BY <1>1, <1>2, <1>11, <1>12, BatchFacts, KindFacts
<1>14. r + 1 \in DOMAIN records /\ e + (r + 1) = n
  <2>1. v = e + r /\ e + (r + 1) = n /\ r \in 0 .. B - 1
    BY <1>4, <1>5, <1>7
  <2>2. r + 1 <= B /\ r + 1 <= L - e /\ r + 1 \in Nat
    BY <2>1
  <2>3. Smaller(e + B, L) - e = B \/ Smaller(e + B, L) - e = L - e
    BY DEF Smaller
  <2>4. r + 1 <= Len(records)
    BY <1>13, <2>2, <2>3
  <2>5. Len(records) \in Nat
    BY <1>13, <2>2, <2>3
  <2>6. r + 1 \in 1 .. Len(records)
    BY ONLY <2>2, <2>4, <2>5
  <2> QED BY <1>13, <2>1, <2>6
<1>15. k = records[r + 1]
  BY <1>3, <1>13, <1>14
<1>16. k \in Range(BatchOf(Records, b))
  BY <1>12, <1>14, <1>15 DEF Range
<1>17. settled[k.channel] >= k.target
  BY <1>10, <1>16 DEF Reached
<1>18. k.channel \in Channels /\ k.target \in Nat
  BY CommitmentFacts, NumbersAreU64 DEF U64
<1>19. settled[k.channel] \in Nat
  BY <1>18, NumbersAreU64 DEF AccountsInOrder, ClearingInv, MoneyInOrder, TypeOK, U64
<1> QED BY <1>17, <1>18, <1>19 DEF Owed

\* It closes its buffer.
LEMMA CloseOnPlan ==
  ASSUME AccountsInOrder, ProcessOK, AsPlanned, faults = 0, SendClose
  PROVE  AsPlanned'
<1>11. memory.step = "next" /\ operator = "gateway" /\ Confirmed
       /\ memory.batch = Batches(memory.records)
  BY DEF SendClose
<1>12. OnPlan
  BY <1>11, PlanIsOn
<1>13. memory.records = Records /\ Reached(Batches(Records), settled)
  BY <1>11, <1>12 DEF OnPlan, OnNext
<1>14. \A k \in Commitments : ~Owed(k)
  BY <1>13, AllReached
<1>15. \A k \in Range(memory.records) : ~Owed(k)
  BY <1>13, <1>14, KindFacts
<1>1. /\ memory.step = "next" /\ UNCHANGED <<vars, operator, used, drawn, faults>>
      /\ operator = "gateway" /\ Confirmed
      /\ memory.batch = Batches(memory.records)
      /\ sent' = sent \cup {CloseTx(memory.s, memory.last)}
      /\ memory' = [step |-> "close"]
  BY <1>15 DEF SendClose
<1>2. AtNext /\ Own = {}
  BY <1>1, StepIsPlace, ConfirmedIs DEF WhereItIs
<1>3. /\ OnPlan /\ operator' = "gateway" /\ sent = Own
      /\ UNCHANGED <<instance, settled, staging, result, comp>>
  BY <1>1, PlanStep
<1>4. Account(staging[memory.s]) /\ Ran(memory.last)
  BY <1>1, <1>2, <1>3 DEF OnPlan, OnNext, AtNext
<1>5. PICK t : t = CloseTx(memory.s, memory.last)
  OBVIOUS
<1>6. t.s = memory.s /\ t.claim = memory.last /\ t.awaited
  BY <1>5 DEF CloseTx
<1>7. sent' = Own' /\ Own' = {t}
  <2>1. PICK txs : txs = {t}
    OBVIOUS
  <2>2. \A u \in txs : u.awaited
    BY <1>6, <2>1
  <2> QED BY <1>1, <1>2, <1>3, <1>5, <2>1, <2>2, SentIsOwn
<1>8. memory'.step = "close"
  BY <1>1
<1>16. \A k \in Commitments : ~Owed(k)'
  BY <1>3, <1>14 DEF Owed
<1>9. OnClose'
  BY <1>3, <1>4, <1>6, <1>7, <1>16 DEF OnClose, Ran
<1>10. OnPlan'
  BY <1>7, <1>8, <1>9 DEF OnPlan, OnStart, OnNext, OnStage, OnAwait, OnSettle
<1> QED BY <1>3, <1>10, GoesOnPlan

\* It is done.
LEMMA DoneOnPlan ==
  ASSUME AccountsInOrder, ProcessOK, AsPlanned, faults = 0, GatewayDone
  PROVE  AsPlanned'
<1>4. operator = "gateway" /\ memory.step = "close"
  BY DEF GatewayDone
<1>5. OnPlan
  BY <1>4, PlanIsOn
<1>6. \A k \in Commitments : ~Owed(k)
  BY <1>4, <1>5 DEF OnPlan, OnClose
<1>7. \A n \in DOMAIN Records : ~Owed(Records[n])
  BY <1>6, KindFacts DEF Range
<1>8. Owing = <<>>
  BY <1>7, OwingIs
<1>1. /\ operator = "gateway" /\ operator' = "done"
      /\ UNCHANGED <<vars, sent, used, drawn, faults>>
  BY <1>8 DEF GatewayDone
<1>2. sent = Own
  BY DEF AsPlanned
<1>3. sent' = Own'
  BY <1>1, <1>2 DEF Own
<1> QED BY <1>1, <1>3 DEF AsPlanned, OnIdle

\* So does every step of a process: without a fault it is the gateway's.
LEMMA ProcessOnPlan ==
  ASSUME AccountsInOrder, ProcessOK, AsPlanned, faults = 0, Process
  PROVE  AsPlanned'
<1>1. operator \in {"idle", "gateway", "done"}
  BY DEF AsPlanned
<1>2. ~LeftoversStep
  <2>1. ~StartLeftovers /\ ~CloseLeftover /\ ~LeftoversDone
    BY <1>1 DEF StartLeftovers, CloseLeftover, LeftoversDone
  <2>2. memory.step # "visit"
    BY <1>1, StepIsPlace DEF WhereItIs
  <2> QED BY <2>1, <2>2 DEF LeftoversStep, VisitBuffer
<1> QED BY <1>2, StartOnPlan, OpenOnPlan, BatchOnPlan, ChunksOnPlan, SealOnPlan, VerdictOnPlan,
           SettlementOnPlan, SettledOnPlan, CloseOnPlan, DoneOnPlan DEF Process, GatewayStep

-----------------------------------------------------------------------------
(* Without a fault, what lands is on the plan.                             *)

\* The batches settled stay settled.
LEMMA ReachedStays ==
  ASSUME AccountsInOrder, AccountsInOrder', \A c \in Channels : settled'[c] >= settled[c],
         NEW d \in Nat, d <= Batches(Records), Reached(d, settled)
  PROVE  Reached(d, settled')
<1> SUFFICES ASSUME NEW b \in 1 .. d, NEW k \in Range(BatchOf(Records, b))
             PROVE  settled'[k.channel] >= k.target
  BY DEF Reached
<1>1. b \in 1 .. Batches(Records)
  BY BatchesAre, KindFacts
<1>2. k \in Commitments
  BY <1>1, BatchFacts, KindFacts DEF Range
<1>3. k.channel \in Channels /\ k.target \in Nat
  BY <1>2, CommitmentFacts, NumbersAreU64 DEF U64
<1>4. settled[k.channel] \in Nat /\ settled'[k.channel] \in Nat
  BY <1>3, NumbersAreU64 DEF AccountsInOrder, ClearingInv, MoneyInOrder, TypeOK, U64
<1>5. settled[k.channel] >= k.target /\ settled'[k.channel] >= settled[k.channel]
  BY <1>3 DEF Reached
<1> QED BY <1>3, <1>4, <1>5

\* The buffer is opened.
LEMMA OpenLandsOnPlan ==
  ASSUME AccountsInOrder, ProcessOK, OnPlan, operator = "gateway", AtNext,
         NEW t \in Own, Land(t), sent' = Own', UNCHANGED <<operator, memory, used, drawn, faults>>
  PROVE  OnPlan'
<1>1. memory.step = "next"
  BY DEF AtNext, NextMemory
<1>2. t.type = "open" /\ t \in sent
  BY DEF AtNext, OpenTx, Own
<1>3. OpenDone(t)
  BY <1>2, LandedOpen
<1>4. UNCHANGED <<settled, instance, comp>>
  BY <1>3 DEF OpenDone, custodyVars, arciumVars
<1>5. OnNext'
  BY <1>1, <1>4 DEF OnPlan, OnNext, Ran
<1> QED BY <1>1, <1>5 DEF OnPlan, OnStart, OnStage, OnAwait, OnSettle, OnClose

\* A chunk is staged.
LEMMA ChunkLandsOnPlan ==
  ASSUME AccountsInOrder, ProcessOK, OnPlan, operator = "gateway", AtStage,
         NEW t \in Own, Land(t), sent' = Own', UNCHANGED <<operator, memory, used, drawn, faults>>
  PROVE  OnPlan'
<1>1. memory.step = "stage"
  BY DEF AtStage, StageMemory
<1>2. memory.last \in Offset
  BY <1>1, MemoryIs
<1>3. t.type = "staging" /\ t \in sent /\ t.count = 0 /\ t.claim = NoOffset
  BY DEF AtStage, StagingTxs, PlainChunk, Own
<1>4. StagingDone(t) /\ ResultDone(t) /\ ~Queues(t)
  BY <1>3, LandedStaging DEF Queues
<1>5. UNCHANGED <<settled, instance>>
  BY <1>4 DEF StagingDone, ResultDone, custodyVars
<1>6. \A o \in Offsets : comp'[o] = comp[o]
  BY <1>3, <1>4, IndexFacts, BatchesNotEmpty DEF ResultDone, NoOffset
<1>7. OnStage'
  BY <1>1, <1>2, <1>5, <1>6 DEF OnPlan, OnStage, Ran, Offset
<1> QED BY <1>1, <1>7 DEF OnPlan, OnStart, OnNext, OnAwait, OnSettle, OnClose

\* The batch is sealed.
LEMMA SealLandsOnPlan ==
  ASSUME AccountsInOrder, ProcessOK, OnPlan, operator = "gateway", AtAwait,
         NEW t \in Own, Land(t), sent' = Own', Own' = Own \ {t},
         UNCHANGED <<operator, memory, used, drawn, faults>>
  PROVE  OnPlan'
<1>1. PICK m \in AwaitMemory : m = memory
  BY DEF AtAwait
<1>2. memory.step = "await" /\ memory.s \in Stagings
  BY ONLY <1>1 DEF AwaitMemory
<1>3. /\ memory.last = drawn /\ Reached(memory.batch - 1, settled) /\ Within(memory.batch - 1, settled)
      /\ instance + 1 = drawn
  BY <1>2 DEF OnPlan, OnAwait
<1>4. /\ Own = {t} /\ t \in StagingTxs /\ t.count = Len(ThisBatch) /\ t.offset = memory.last
      /\ t.s = memory.s
  BY DEF AtAwait, SealWaits, Underway, ChunkOf
<1>5. t.count > 0
  <2>1. memory.records \in Seq(Commitments) /\ memory.batch \in 1 .. Batches(memory.records)
    <3>1. memory.records \in Seq(Commitments)
      BY ONLY <1>1 DEF AwaitMemory
    <3> QED BY <3>1 DEF AtAwait
  <2>2. Len(ThisBatch) \in 1 .. BatchSize
    BY <2>1, BatchFacts DEF ThisBatch
  <2> QED BY <1>4, <2>2, IndexFacts
<1>6. t.type = "staging" /\ t \in sent
  BY <1>4 DEF StagingTxs, Own
<1>7. StagingDone(t) /\ ResultDone(t) /\ Queues(t)
  BY <1>5, <1>6, LandedStaging DEF Queues
<1>8. /\ settled' = settled /\ instance' = instance + 1
      /\ result'[t.s] = QueuedResult(BatchKind, t.count, t.offset, instance + 1)
      /\ comp'[t.offset] = QueuedComputation(t.s, BatchKind, instance + 1)
  BY <1>7 DEF StagingDone, ResultDone, custodyVars
<1>9. Account(comp'[memory.last]) /\ ~result'[memory.s].verified
  BY <1>4, <1>8 DEF QueuedComputation, QueuedResult, ClearedResult, Account
<1>10. Own' = {}
  BY <1>4
<1>11. OnAwait'
  BY <1>2, <1>3, <1>8, <1>9, <1>10 DEF OnAwait
<1> QED BY <1>2, <1>11 DEF OnPlan, OnStart, OnNext, OnStage, OnSettle, OnClose

\* Records are settled, and their channels reach their targets.
LEMMA SettleLandsOnPlan ==
  ASSUME AccountsInOrder, AccountsInOrder', ProcessOK, OnPlan, operator = "gateway", AtSettle,
         NEW t \in Own, Land(t), sent' = Own', UNCHANGED <<operator, memory, used, drawn, faults>>
  PROVE  OnPlan'
<1>1. PICK m \in SettleMemory : m = memory
  BY DEF AtSettle
<1>2. memory.step = "settle" /\ memory.s \in Stagings
  BY ONLY <1>1 DEF SettleMemory
<1>3. /\ memory.records = Records
      /\ instance = drawn /\ Ran(memory.last)
      /\ Reached(memory.batch - 1, settled) /\ Within(memory.batch, settled)
      /\ \A i \in result[memory.s].applied :
            LET k == ThisBatch[i + 1] IN settled[k.channel] >= k.target
  BY <1>2 DEF OnPlan, OnSettle
<1>4. PICK b, records : b = memory.batch /\ records = ThisBatch
  OBVIOUS
<1>5. b \in 1 .. Batches(Records) /\ records = BatchOf(Records, b)
  BY <1>3, <1>4 DEF AtSettle, ThisBatch
<1>6. /\ records \in Seq(Commitments) /\ Len(records) \in Nat
      /\ DOMAIN records = 1 .. Len(records)
  BY <1>5, BatchFacts, KindFacts, IndexFacts
<1>7. t.type = "settle" /\ t \in sent /\ t.s = memory.s
  BY DEF AtSettle, SettleWaits, SettleTx, Own
<1>8. SettleDone(t) /\ Reaches(t.s, t.order, Len(t.order), settled')
  BY <1>7, LandedSettle, LandReaches
<1>9. t.order \in Orders
  <2>1. TxOK(t)
    BY <1>7 DEF AccountsInOrder, SentOK
  <2> QED BY <1>7, <2>1, TxParts
<1>10. Len(t.order) \in Nat /\ DOMAIN t.order = 1 .. Len(t.order)
  <2>1. SettlementAccepted(t.s, t.order)
    BY <1>8 DEF SettleDone
  <2> QED BY <1>2, <1>7, <1>9, <2>1, OrderIsReady DEF AccountsInOrder
<1>11. /\ UNCHANGED <<comp, instance>>
       /\ result'[memory.s].applied = result[memory.s].applied \cup Range(t.order)
       /\ Range(t.order) \subseteq result[memory.s].bitmap
       /\ result[memory.s].bitmap = 0 .. Len(records) - 1
  BY <1>4, <1>7, <1>8 DEF SettleDone, arciumVars, Unsettled, AtSettle
<1>12. \A i \in 0 .. Len(records) - 1 :
          /\ staging[memory.s].slots[i].com = records[i + 1] /\ records[i + 1] \in Commitments
          /\ records[i + 1] \in Range(BatchOf(Records, b))
  <2> SUFFICES ASSUME NEW i \in 0 .. Len(records) - 1
               PROVE  /\ staging[memory.s].slots[i].com = records[i + 1]
                      /\ records[i + 1] \in Commitments
                      /\ records[i + 1] \in Range(BatchOf(Records, b))
    OBVIOUS
  <2>1. PICK n \in 1 .. Len(records) : n = i + 1 /\ n - 1 = i
    BY <1>6
  <2>2. staging[memory.s].slots[n - 1].com = records[n]
    BY <1>4, <1>6 DEF AtSettle, SealedBatch
  <2> QED BY <1>5, <1>6, <2>1, <2>2 DEF Range
<1>13. \A a \in 1 .. Len(t.order) : /\ t.order[a] \in Range(t.order)
                                    /\ t.order[a] \in 0 .. Len(records) - 1
  BY <1>10, <1>11 DEF Range
<1>14. \A c \in Channels : /\ settled[c] \in Nat /\ settled'[c] \in Nat
                           /\ settled'[c] >= settled[c]
  <2>1. TypeOK /\ TypeOK'
    BY DEF AccountsInOrder, ClearingInv, MoneyInOrder
  <2>2. \A c \in Channels : settled[c] \in Nat /\ settled'[c] \in Nat
    BY <2>1, NumbersAreU64 DEF TypeOK, U64
  <2> QED BY <1>8, <2>2 DEF Reaches
<1>15. Reached(b - 1, settled')
  <2>1. b - 1 \in Nat /\ b - 1 <= Batches(Records)
    BY <1>5, BatchesAre, KindFacts
  <2> QED BY <1>3, <1>4, <1>14, <2>1, ReachedStays
<1>16. Within(b, settled')
  <2> SUFFICES ASSUME NEW c \in Channels, settled'[c] > 0
               PROVE  \E a \in 1 .. b : \E k \in InBatch(a, c) : settled'[c] <= k.target
    BY DEF Within
  <2>0. c \in Channels
    OBVIOUS
  <2>1. CASE settled'[c] = settled[c]
    BY <1>3, <1>4, <2>1 DEF Within
  <2>2. CASE settled'[c] # settled[c]
    <3>1. PICK a \in 1 .. Len(t.order) :
             /\ staging[t.s].slots[t.order[a]].com.channel = c
             /\ settled'[c] <= staging[t.s].slots[t.order[a]].com.target
      BY ONLY <1>8, <2>0, <2>2 DEF Reaches
    <3>2. PICK i \in 0 .. Len(records) - 1 : i = t.order[a]
      BY <1>13
    <3>3. PICK k : k = records[i + 1]
      OBVIOUS
    <3>4. staging[t.s].slots[t.order[a]].com = k /\ k \in Range(BatchOf(Records, b))
      BY <1>7, <1>12, <3>2, <3>3
    <3>5. k \in InBatch(b, c) /\ settled'[c] <= k.target
      BY <3>1, <3>4 DEF InBatch
    <3>6. b \in 1 .. b
      BY <1>5
    <3> QED BY ONLY <3>5, <3>6
  <2> QED BY <2>1, <2>2
<1>17. ASSUME NEW i \in result'[memory.s].applied
       PROVE  settled'[records[i + 1].channel] >= records[i + 1].target
  <2>1. CASE i \in Range(t.order)
    <3>1. PICK a \in 1 .. Len(t.order) : i = t.order[a]
      BY <1>10, <2>1 DEF Range
    <3>0. a \in 1 .. Len(t.order)
      OBVIOUS
    <3>2. PICK k : k = staging[t.s].slots[t.order[a]].com
      BY Zenon
    <3>3. settled'[k.channel] >= k.target
      BY ONLY <1>8, <3>0, <3>2 DEF Reaches
    <3>4. k = records[i + 1]
      BY <1>7, <1>12, <1>13, <3>1, <3>2
    <3> QED BY <3>3, <3>4
  <2>2. CASE i \in result[memory.s].applied
    <3>1. i \in 0 .. Len(records) - 1
      <4>1. Account(result[memory.s])
        BY <1>7, <1>8 DEF SettleDone
      <4> QED BY <1>2, <1>11, <2>2, <4>1 DEF AccountsInOrder, ClearingInv, VerdictBits
    <3>2. PICK k \in Commitments : k = records[i + 1]
      BY <1>12, <3>1
    <3>3. k.channel \in Channels /\ k.target \in Nat
      BY CommitmentFacts, NumbersAreU64 DEF U64
    <3>4. settled[k.channel] >= k.target
      BY <1>3, <1>4, <2>2, <3>2
    <3> QED BY <1>14, <3>2, <3>3, <3>4
  <2> QED BY <1>11, <2>1, <2>2
<1>18. ThisBatch' = records
  BY <1>4 DEF ThisBatch
<1>19. OnSettle'
  BY <1>2, <1>3, <1>4, <1>11, <1>15, <1>16, <1>17, <1>18 DEF OnSettle, Ran
<1> QED BY <1>2, <1>3, <1>19 DEF OnPlan, OnStart, OnNext, OnStage, OnAwait, OnClose

\* The buffer is closed, and nothing is left to land.
LEMMA CloseLandsOnPlan ==
  ASSUME AccountsInOrder, AtClose, OnPlan, operator = "gateway",
         NEW t \in Own, Land(t), sent' = Own', Own' = Own \ {t},
         UNCHANGED <<operator, memory, used, drawn, faults>>
  PROVE  OnPlan'
<1>1. memory.step = "close" /\ memory' = memory
  BY DEF AtClose, CloseMemory
<1>2. Own = {t} /\ \A k \in Commitments : ~Owed(k)
  BY <1>1 DEF OnPlan, OnClose
<1>3. Own' = {}
  BY <1>2
<1>5. settled' = settled
  <2>1. t.type = "close"
    BY DEF AtClose, CloseTxs
  <2> QED BY <2>1 DEF Land, LandClose, custodyVars
<1>6. \A k \in Commitments : ~Owed(k)'
  BY <1>2, <1>5 DEF Owed
<1>4. OnClose'
  BY <1>3, <1>6 DEF OnClose
<1> QED BY <1>1, <1>4 DEF OnPlan, OnStart, OnNext, OnStage, OnAwait, OnSettle

\* Whatever lands.
LEMMA LandOnPlan ==
  ASSUME AccountsInOrder, ProcessOK, AsPlanned, faults = 0, NEW t \in sent, Land(t)
  PROVE  AsPlanned'
<1>1. operator = "gateway" /\ OnPlan
  BY PlanIsOn
<1>2. t \in Own
  BY <1>1 DEF OnPlan
<1>3. sent' = sent \ {t} /\ UNCHANGED <<operator, memory, used, drawn, faults>>
  BY SentAfterLand DEF AccountsInOrder
<1>4. Own' = Own \ {t} /\ sent = Own
  <2>1. UNCHANGED used
    BY <1>3
  <2> QED BY <1>1, <1>3, <2>1, OwnAfterLand DEF OnPlan
<1>5. sent' = Own'
  BY <1>3, <1>4
<1>6. AccountsInOrder'
  BY LandKeepsAccounts
<1>7. AtNext \/ AtStage \/ AtAwait \/ AtSettle \/ AtClose
  BY <1>1, <1>2 DEF ProcessOK, GatewayOK, AtStart
<1>8. OnPlan'
  <2>1. CASE AtNext
    BY <1>1, <1>2, <1>3, <1>5, <2>1, OpenLandsOnPlan
  <2>2. CASE AtStage
    BY <1>1, <1>2, <1>3, <1>5, <2>2, ChunkLandsOnPlan
  <2>3. CASE AtAwait
    BY <1>1, <1>2, <1>3, <1>4, <1>5, <2>3, SealLandsOnPlan
  <2>4. CASE AtSettle
    BY <1>1, <1>2, <1>3, <1>5, <1>6, <2>4, SettleLandsOnPlan
  <2>5. CASE AtClose
    BY <1>1, <1>2, <1>3, <1>4, <1>5, <2>5, CloseLandsOnPlan
  <2> QED BY <1>7, <2>1, <2>2, <2>3, <2>4, <2>5
<1>9. operator' = "gateway"
  BY <1>1, <1>3
<1> QED BY <1>8, <1>9, GoesOnPlan

-----------------------------------------------------------------------------
(* The plan is kept.                                                       *)

\* A fault is counted, and the count does not return to nothing.
LEMMA FaultCounted ==
  ASSUME faults \in Nat, Fault
  PROVE  faults' # 0
BY DEF Fault

\* Without a fault, every step keeps to the plan.
LEMMA PlanSteps ==
  ASSUME AccountsInOrder, ProcessOK, AsPlanned, [RNext]_rvars
  PROVE  AsPlanned'
<1>1. faults \in Nat
  BY DEF AccountsInOrder, SentOK
<1>2. ASSUME Fault
      PROVE  AsPlanned'
  BY <1>1, <1>2, FaultCounted DEF AsPlanned
<1>3. CASE (\E t \in sent : Expire(t)) \/ StrangerSettles \/ Crash \/ FailToCompute
  BY <1>2, <1>3 DEF Expire, StrangerSettles, Crash, FailToCompute
<1>4. SUFFICES ASSUME faults' = 0,
                      \/ Process \/ (\E t \in sent : Land(t) \/ Refuse(t))
                      \/ Compute \/ Deliver \/ UNCHANGED rvars
               PROVE  AsPlanned'
  <2>1. faults' # 0 => AsPlanned'
    BY DEF AsPlanned
  <2> QED BY <1>3, <1>4, <2>1 DEF RNext, Done
<1>5. CASE Process
  <2>1. faults' = faults
    BY <1>5 DEF Process, GatewayStep, LeftoversStep, StartGateway, SendOpen, PlanBatch,
       SendChunks, SendSeal, ReadVerdict, BatchSettled, SendClose, GatewayDone, StartLeftovers,
       CloseLeftover, LeftoversDone, VisitBuffer, SendSettlement
  <2> QED BY <1>4, <1>5, <2>1, ProcessOnPlan
<1>6. ASSUME NEW t \in sent, Land(t)
      PROVE  AsPlanned'
  <2>1. faults' = faults
    BY <1>6, SentAfterLand DEF AccountsInOrder
  <2> QED BY <1>4, <1>6, <2>1, LandOnPlan
<1>7. ASSUME NEW t \in sent, Refuse(t)
      PROVE  AsPlanned'
  <2>1. faults' = faults /\ ~Accepted(t)
    BY <1>7 DEF Refuse
  <2> QED BY <1>4, <2>1, SentIsAccepted
<1>8. CASE Compute \/ Deliver
  <2>1. faults' = faults
    BY <1>8 DEF Compute, Deliver, relayerVars
  <2> QED BY <1>4, <1>8, <2>1, ArciumOnPlan
<1>9. CASE UNCHANGED rvars
  <2>1. faults' = faults
    BY <1>9 DEF rvars, relayerVars
  <2> QED BY <1>4, <1>9, <2>1, QuietOnPlan
<1> QED BY <1>4, <1>5, <1>6, <1>7, <1>8, <1>9

\* Nothing has been sent, drawn or settled at first.
LEMMA PlanStarts ==
  ASSUME RInit
  PROVE  AsPlanned
<1>1. operator = "idle" /\ sent = {} /\ drawn = 0
  BY DEF RInit
<1>2. instance = 0 /\ settled = [c \in Channels |-> 0]
  BY DEF RInit, Funded, FundedMoney, NothingStaged
<1>3. Own = {}
  BY <1>1 DEF Own
<1>4. Reached(0, settled)
  BY DEF Reached
<1>5. Within(0, settled)
  BY <1>2 DEF Within
<1> QED BY <1>1, <1>2, <1>3, <1>4, <1>5 DEF AsPlanned, OnIdle

\* As long as nothing failed, the gateway is where its plan says: every batch before the
\* one under way is settled up to its targets and nothing beyond this one is, the offsets
\* it drew are the computations queued, and what it claims the rent of has run.
THEOREM RelayerOnPlan == RSpec => []RelayerInv
<1>1. RInit => RelayerInv
  BY InitAccounts, PlanStarts DEF RelayerInv
<1>2. RelayerInv /\ [RNext]_rvars => RelayerInv'
  <2>1. ASSUME RelayerInv, [RNext]_rvars
        PROVE  AccountsInOrder' /\ ProcessOK' /\ AsPlanned'
    BY <2>1, RelayerSteps, PlanSteps DEF RelayerInv
  <2> QED BY <2>1 DEF RelayerInv
<1> QED BY <1>1, <1>2, PTL DEF RSpec

\* Relayer.OnlyFaultsCrash: nothing the gateway sends is refused and no process dies, unless
\* a transaction expired, a process was killed, a computation failed or a stranger settled.
THEOREM OnlyFaultsEndProcesses == RSpec => []OnlyFaultsCrash
<1>1. RelayerInv => OnlyFaultsCrash
  <2> SUFFICES ASSUME RelayerInv, operator = "crashed"
               PROVE  faults > 0
    BY DEF OnlyFaultsCrash
  <2>1. faults \in Nat /\ faults # 0
    BY DEF RelayerInv, AccountsInOrder, SentOK, AsPlanned
  <2> QED BY <2>1
<1> QED BY <1>1, RelayerOnPlan, PTL
=============================================================================
