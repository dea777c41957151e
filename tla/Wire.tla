--------------------------------- MODULE Wire ---------------------------------
(***************************************************************************)
(* From the client's bytes to the buffer: the data of a stage_records      *)
(* instruction, altered on its way as Transit alters it, is read by the    *)
(* program, checked, and laid out as StagingLayout lays it out, beside     *)
(* records that came unaltered.                                            *)
(***************************************************************************)
EXTENDS Transit, StagingLayout

CONSTANT MaxStagedEdits   \* bound on the alterations of data that is staged

wireVars == <<transitVars, layoutVars>>

KindOf(f) == IF f = "route" THEN RouteKind ELSE Unilateral

WInit == TInit /\ LInit /\ kind = KindOf(form)

\* Data is altered before the program reads it.
AlterArriving == mask = {} /\ TNext /\ UNCHANGED layoutVars

\* What the program reads in the data that arrives.
Arriving == IF kind = RouteKind THEN RouteRecords(bytes) ELSE UnilateralRecords(bytes)

\* The channel must be one of the bucket passed for it, and a route be well formed.
Stageable(r) ==
    /\ r.com.channel \in DOMAIN RegisteredKey
    /\ r.com.kind = RouteKind => Validate(r.com)

StageArriving ==
    /\ kind = KindOf(form)
    /\ edits <= MaxStagedEdits
    /\ \E records \in Arriving : \E n \in DOMAIN records, i \in 0 .. BatchSize(kind) - 1 :
         Stageable(records[n]) /\ StageRecord(i, records[n])
    /\ UNCHANGED transitVars

\* The other steps of the buffer; records of the same batch that came unaltered.
StageOther ==
    /\ edits = 0
    /\ \E i \in 0 .. BatchSize(kind) - 1, r \in Records : StageRecord(i, r)
    /\ UNCHANGED transitVars
ResetOrSeal ==
    /\ edits <= MaxStagedEdits
    /\ \/ \E k \in Kinds : ResetStaging(k)
       \/ \E n \in 0 .. BatchSize(kind) : SealAndQueue(n)
    /\ UNCHANGED transitVars

WNext ==
    \/ AlterArriving
    \/ form # "canonical" /\ (StageArriving \/ StageOther \/ ResetOrSeal)

WSpec == WInit /\ [][WNext]_wireVars
=============================================================================
