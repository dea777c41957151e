-------------------------------- MODULE Transit --------------------------------
(***************************************************************************)
(* Bytes between the parties: a canonical message on its way to whoever    *)
(* decodes it, or the data of a stage_records instruction on its way to    *)
(* the program, altered byte by byte, cut or lengthened.                   *)
(***************************************************************************)
EXTENDS Commitment

CONSTANTS
    Messages,    \* messages sent in canonical form
    Deliveries,  \* sequences of records sent to stage_records
    MaxEdits     \* bound on the alterations

\* encodeCommitment encodes no route that validateRoute refuses.
ASSUME SentMessages ==
    Messages \subseteq {m \in MessageType : m.kind = RouteKind => Validate(m)}
\* Batches are of one kind, and what was signed names at least one provider.
ASSUME SentDeliveries ==
    \A records \in Deliveries :
       /\ records \in Seq(RecordType) /\ records # <<>>
       /\ \A n \in DOMAIN records :
            /\ records[n].com.kind = records[1].com.kind
            /\ records[n].com.kind = RouteKind => records[n].com.allocations # <<>>

VARIABLES
    form,   \* "canonical", "unilateral" or "route"
    sent,   \* what was encoded
    bytes,  \* what arrives
    edits   \* number of alterations

transitVars == <<form, sent, bytes, edits>>

SendMessage ==
    /\ form = "canonical"
    /\ sent \in Messages
    /\ bytes = Encode(Domain, sent)
SendRecords ==
    /\ form \in {"unilateral", "route"}
    /\ sent \in Deliveries
    /\ (form = "unilateral") = (sent[1].com.kind = Unilateral)
    /\ bytes = FlattenSeq([r \in DOMAIN sent |-> RecordBytes(sent[r])])
TInit == edits = 0 /\ (SendMessage \/ SendRecords)

Edit(altered) ==
    /\ edits < MaxEdits
    /\ edits' = edits + 1
    /\ bytes' = altered
    /\ UNCHANGED <<form, sent>>

Alter == \E at \in DOMAIN bytes, byte \in 0 .. Base - 1 :
            bytes[at] # byte /\ Edit([bytes EXCEPT ![at] = byte])
Cut == bytes # <<>> /\ Edit(Front(bytes))
Lengthen == \E byte \in 0 .. Base - 1 : Edit(Append(bytes, byte))

TNext == Alter \/ Cut \/ Lengthen
TSpec == TInit /\ [][TNext]_transitVars

-----------------------------------------------------------------------------

\* commitment.rs:31-34: one commitment has one encoding.  Whatever arrives, bytes that
\* decode are the canonical encoding of what they decode to, and the bytes that were
\* sent decode to the message; so no two messages, of either kind, share their bytes,
\* and what a signer reads is what a signature over these bytes vouches for.
OneEncodingPerMessage ==
    form = "canonical" =>
       /\ \A m \in Decode(bytes) :
            m.kind \in {Unilateral, RouteKind}
              /\ Encode(SubSeq(bytes, 1, DomainBytes), m) = bytes
       /\ edits = 0 => Decode(bytes) = {sent}

\* The program's decoder, which sums amounts in 64 bits and takes the count as a byte,
\* and the client's, which does neither, accept the same bytes as the same message.
ClientAgrees == form = "canonical" => Decode(bytes) = ClientDecode(bytes)

\* The data of stage_records reads back as the records it was made of and nothing else:
\* a record never borrows bytes of its neighbour, whatever the counts say.
RecordsReadBack ==
    form # "canonical" =>
       LET read == IF form = "route" THEN RouteRecords(bytes) ELSE UnilateralRecords(bytes)
       IN  /\ \A records \in read :
                FlattenSeq([r \in DOMAIN records |-> RecordBytes(records[r])]) = bytes
           /\ edits = 0 => read = {sent}
=============================================================================
