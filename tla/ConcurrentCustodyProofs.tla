----------------------- MODULE ConcurrentCustodyProofs -----------------------
(***************************************************************************)
(* What stays true of the furnace and of the records however many requests *)
(* are in flight: theorems about ConcurrentCustody and FurnaceRaces for    *)
(* any number of sessions, samples, trays, refills and rows.               *)
(***************************************************************************)
EXTENDS FurnaceRaces, SampleCustodyProofs

\* The names of crucible rows: a slot and which of its fillings.
RowNames == Batch \X Position \X Nat

\* What a request has decided fits the tables it will be written to.
Fits(r) ==
    /\ r.op = "charge" => r.slot \in Slot /\ r.row \in Crucible
    /\ r.op \in {"uncharge", "parting", "weighing"} => r.row \in RowNames
    /\ r.op = "weighing" => r.bead \in Bead
    /\ r.op = "batch" =>
          /\ r.batch \in Batch
          /\ r.rows # {} => BulkCrucibleStatus(r.to) \in CrucibleStatuses
    /\ r.op = "result" =>
          /\ r.sample \in Sample
          /\ r.supersedes \in Nat
          /\ r.bead \in Bead \cup {Nothing}
          /\ r.crucible # Nothing => r.crucible \in RowNames

\* A result in flight names a crucible that was filled and, if it is still
\* there, holds the result's sample.
Provenance(r) ==
    r.op = "result" /\ r.crucible # Nothing =>
        /\ r.crucible[3] <= fills[r.crucible[1]][r.crucible[2]]
        /\ Present(r.crucible) => RowAt(r.crucible).holds = r.sample

FurnaceTypes ==
    /\ tray \in [Batch -> [Position -> Crucible \cup {Empty}]]
    /\ fills \in [Batch -> [Position -> Nat]]
    /\ results \in Seq(Result)

InFlight ==
    /\ inflight = [x \in Session |-> inflight[x]]
    /\ \A x \in Session : Fits(inflight[x]) /\ Provenance(inflight[x])

CustodyHeld == FurnaceTypes /\ InFlight /\ NamedCrucibleSurvives

(***************************************************************************)
(* What a commit may do to one slot: leave it empty or empty it, if no     *)
(* result refers to it; keep its crucible for the same contents; or fill   *)
(* it when it is empty, which makes a new row.                             *)
(***************************************************************************)
Vacant(b, p) ==
    /\ tray'[b][p] = Empty
    /\ fills'[b][p] = fills[b][p]
    /\ tray[b][p] # Empty => \A i \in DOMAIN results : results[i].crucible # <<b, p>>

Kept(b, p) ==
    /\ tray[b][p] # Empty
    /\ tray'[b][p] # Empty
    /\ tray'[b][p].holds = tray[b][p].holds
    /\ tray'[b][p].duplicate = tray[b][p].duplicate
    /\ fills'[b][p] = fills[b][p]

Filled(b, p) ==
    /\ tray[b][p] = Empty
    /\ tray'[b][p] # Empty
    /\ fills'[b][p] = fills[b][p] + 1

FurnaceStep ==
    /\ tray' \in [Batch -> [Position -> Crucible \cup {Empty}]]
    /\ fills' \in [Batch -> [Position -> Nat]]
    /\ \A b \in Batch, p \in Position : Vacant(b, p) \/ Kept(b, p) \/ Filled(b, p)

-----------------------------------------------------------------------------
\* A crucible row is never mistaken for an empty slot.
LEMMA CrucibleIsNotEmpty ==
    /\ \A c \in Crucible : c # Empty
    /\ Empty.holds \notin Sample
BY CustodyAssumption DEF Crucible, Empty, CrucibleStatuses

\* Who writes no crucible does no harm to the tray.
LEMMA UntouchedFurnace ==
    ASSUME FurnaceTypes, UNCHANGED <<tray, fills>>
    PROVE  FurnaceStep
BY DEF FurnaceTypes, FurnaceStep, Vacant, Kept

\* Rewriting the row of an occupied slot for the same contents.
LEMMA RewriteKeeps ==
    ASSUME FurnaceTypes, NEW b \in Batch, NEW p \in Position, NEW c \in Crucible,
           tray[b][p] # Empty, SetCrucible(b, p, c), UNCHANGED fills,
           c.holds = tray[b][p].holds, c.duplicate = tray[b][p].duplicate
    PROVE  FurnaceStep
<1>1. tray' \in [Batch -> [Position -> Crucible \cup {Empty}]]
  BY SetCrucibleType DEF FurnaceTypes
<1>2. ASSUME NEW a \in Batch, NEW q \in Position PROVE Vacant(a, q) \/ Kept(a, q)
  <2>1. tray'[a][q] = (IF a = b /\ q = p THEN c ELSE tray[a][q])
    BY DEF SetCrucible, FurnaceTypes
  <2> QED BY <2>1, CrucibleIsNotEmpty DEF Vacant, Kept
<1> QED BY <1>1, <1>2 DEF FurnaceStep, FurnaceTypes

LEMMA CommitChargeFills ==
    ASSUME FurnaceTypes, InFlight, NEW x \in Session, CommitCharge(x)
    PROVE  FurnaceStep
<1> DEFINE r == inflight[x]
           b == r.slot[1]
           p == r.slot[2]
<1>1. b \in Batch /\ p \in Position /\ r.row \in Crucible
  BY DEF CommitCharge, Deciding, InFlight, Fits, Slot
<1>2. /\ SetCrucible(b, p, r.row) /\ CrucibleIndexes(b, p, r.row)
      /\ fills' = [fills EXCEPT ![b][p] = @ + 1]
  BY DEF CommitCharge
<1> HIDE DEF r, b, p
<1>3. tray' \in [Batch -> [Position -> Crucible \cup {Empty}]]
  BY <1>1, <1>2, SetCrucibleType DEF FurnaceTypes
<1>4. fills' \in [Batch -> [Position -> Nat]]
  BY <1>1, <1>2 DEF FurnaceTypes
<1>5. ASSUME NEW a \in Batch, NEW q \in Position PROVE Vacant(a, q) \/ Kept(a, q) \/ Filled(a, q)
  <2>1. /\ tray'[a][q] = (IF a = b /\ q = p THEN r.row ELSE tray[a][q])
        /\ fills'[a][q] = (IF a = b /\ q = p THEN fills[a][q] + 1 ELSE fills[a][q])
    BY <1>1, <1>2 DEF SetCrucible, FurnaceTypes
  <2>2. tray[b][p] = Empty
    BY <1>2 DEF CrucibleIndexes
  <2> QED BY <1>1, <2>1, <2>2, CrucibleIsNotEmpty DEF Vacant, Kept, Filled
<1> QED BY <1>1, <1>2, <1>3, <1>4, <1>5 DEF FurnaceStep

LEMMA CommitUnchargeVacates ==
    ASSUME FurnaceTypes, InFlight, NEW x \in Session, CommitUncharge(x)
    PROVE  FurnaceStep
<1> DEFINE r == inflight[x].row
<1>1. r[1] \in Batch /\ r[2] \in Position
  BY DEF CommitUncharge, Deciding, InFlight, Fits, RowNames
<1>2. CASE Present(r)
  <2>1. SetCrucible(r[1], r[2], Empty) /\ Unreferenced(r) /\ UNCHANGED fills
    BY <1>2 DEF CommitUncharge
  <2> HIDE DEF r
  <2>2. tray' \in [Batch -> [Position -> Crucible \cup {Empty}]]
    BY <1>1, <2>1, SetCrucibleType DEF FurnaceTypes
  <2>3. ASSUME NEW a \in Batch, NEW q \in Position PROVE Vacant(a, q) \/ Kept(a, q)
    <3>1. tray'[a][q] = (IF a = r[1] /\ q = r[2] THEN Empty ELSE tray[a][q])
      BY <1>1, <2>1 DEF SetCrucible, FurnaceTypes
    <3> QED BY <2>1, <3>1 DEF Vacant, Kept, Unreferenced
  <2> QED BY <2>1, <2>2, <2>3 DEF FurnaceStep, FurnaceTypes
<1>3. CASE ~Present(r)
  BY <1>3, UntouchedFurnace DEF CommitUncharge
<1> QED BY <1>2, <1>3

LEMMA CommitBatchKeeps ==
    ASSUME FurnaceTypes, InFlight, NEW x \in Session, CommitBatch(x)
    PROVE  FurnaceStep
<1> DEFINE r == inflight[x]
           b == r.batch
           W(p) == IF RowId(b, p) \in r.rows
                     THEN [tray[b][p] EXCEPT !.status = BulkCrucibleStatus(r.to)]
                     ELSE tray[b][p]
<1>1. /\ b \in Batch
      /\ r.rows # {} => BulkCrucibleStatus(r.to) \in CrucibleStatuses
  BY DEF CommitBatch, Deciding, InFlight, Fits
<1>2. /\ \A row \in r.rows : Present(row)
      /\ tray' = [tray EXCEPT ![b] = [p \in Position |-> W(p)]]
      /\ UNCHANGED fills
  BY DEF CommitBatch
<1> HIDE DEF r, b
<1>3. ASSUME NEW p \in Position
      PROVE  /\ W(p) \in Crucible \cup {Empty}
             /\ W(p) = Empty <=> tray[b][p] = Empty
             /\ W(p).holds = tray[b][p].holds
             /\ W(p).duplicate = tray[b][p].duplicate
  <2>1. CASE RowId(b, p) \in r.rows
    <3>1. Present(RowId(b, p))
      BY <1>2, <2>1
    <3>2. tray[b][p] \in Crucible
      BY <1>1, <3>1 DEF Present, RowAt, RowId, FurnaceTypes
    <3>3. BulkCrucibleStatus(r.to) \in CrucibleStatuses
      BY <1>1, <2>1
    <3>4. [tray[b][p] EXCEPT !.status = BulkCrucibleStatus(r.to)] \in Crucible
      BY <3>2, <3>3 DEF Crucible
    <3> QED BY <2>1, <3>2, <3>4, CrucibleIsNotEmpty DEF Crucible
  <2>2. CASE RowId(b, p) \notin r.rows
    BY <1>1, <2>2 DEF FurnaceTypes
  <2> QED BY <2>1, <2>2
<1> HIDE DEF W
<1>4. tray' \in [Batch -> [Position -> Crucible \cup {Empty}]]
  BY <1>1, <1>2, <1>3 DEF FurnaceTypes
<1>5. ASSUME NEW a \in Batch, NEW q \in Position PROVE Vacant(a, q) \/ Kept(a, q)
  <2>1. tray'[a][q] = (IF a = b THEN W(q) ELSE tray[a][q])
    BY <1>1, <1>2 DEF FurnaceTypes
  <2> QED BY <1>2, <1>3, <2>1 DEF Vacant, Kept
<1> QED BY <1>2, <1>4, <1>5 DEF FurnaceStep, FurnaceTypes

LEMMA CommitBenchKeeps ==
    ASSUME FurnaceTypes, InFlight, NEW x \in Session, CommitBench(x)
    PROVE  FurnaceStep
<1> DEFINE r == inflight[x].row
           c == IF inflight[x].op = "parting" THEN [RowAt(r) EXCEPT !.status = "parted"]
                  ELSE [RowAt(r) EXCEPT !.status = "weighed", !.bead = inflight[x].bead]
<1>1. /\ r[1] \in Batch /\ r[2] \in Position
      /\ inflight[x].op # "parting" => inflight[x].bead \in Bead
  BY DEF CommitBench, InFlight, Fits, RowNames
<1>2. Present(r) /\ SetCrucible(r[1], r[2], c) /\ UNCHANGED fills
  BY DEF CommitBench
<1>3. tray[r[1]][r[2]] # Empty /\ RowAt(r) \in Crucible /\ RowAt(r) = tray[r[1]][r[2]]
  BY <1>1, <1>2 DEF Present, RowAt, FurnaceTypes
<1>4. c \in Crucible /\ c.holds = RowAt(r).holds /\ c.duplicate = RowAt(r).duplicate
  BY <1>1, <1>3 DEF Crucible, CrucibleStatuses
<1> HIDE DEF r, c
<1> QED BY <1>1, <1>2, <1>3, <1>4, RewriteKeeps

\* Every write of every handler does to a slot one of the three things.
LEMMA CommitSteps ==
    ASSUME FurnaceTypes, InFlight, NEW x \in Session, Commit(x)
    PROVE  FurnaceStep
<1>1. CASE CommitStatus(x) \/ CommitImport(x) \/ CommitReading(x) \/ CommitCertificate(x)
  BY <1>1, UntouchedFurnace
     DEF CommitStatus, CommitImport, CommitReading, CommitCertificate, bench
<1>2. CASE CommitResult(x)
  BY <1>2, UntouchedFurnace DEF CommitResult, WriteResult
<1> QED
  BY <1>1, <1>2, CommitChargeFills, CommitUnchargeVacates, CommitBatchKeeps, CommitBenchKeeps
     DEF Commit

-----------------------------------------------------------------------------
(***************************************************************************)
(* Decisions: what a handler reads before it writes makes its request fit. *)
(***************************************************************************)
LEMMA BeginKeeps ==
    ASSUME InFlight, NEW x \in Session, NEW request, Begin(x, request),
           Fits(request), Provenance(request)
    PROVE  InFlight'
<1>1. /\ inflight' = [inflight EXCEPT ![x] = request]
      /\ UNCHANGED <<tray, fills>>
  BY DEF Begin, vars
<1>2. inflight' = [y \in Session |-> IF y = x THEN request ELSE inflight[y]]
  BY <1>1 DEF InFlight
<1>3. ASSUME NEW y \in Session PROVE Fits(inflight[y])' /\ Provenance(inflight[y])'
  <2>1. inflight'[y] = request \/ inflight'[y] = inflight[y]
    BY <1>2
  <2>2. PICK r : r = inflight'[y]
    OBVIOUS
  <2>3. Fits(r) /\ Provenance(r)
    BY <2>1, <2>2 DEF InFlight
  <2>4. Provenance(inflight[y])'
    BY <1>1, <2>2, <2>3 DEF Provenance, Present, RowAt
  <2> QED BY <2>2, <2>3, <2>4 DEF Fits
<1> QED BY <1>2, <1>3 DEF InFlight

LEMMA BenchDecisionsFit ==
    ASSUME FurnaceTypes, InFlight, NEW x \in Session, NEW role \in Staff, BeginBenchWork(x, role)
    PROVE  InFlight'
<1>1. ASSUME NEW s \in Sample, NEW target, NEW reason, BeginStatus(x, s, target, role, reason)
      PROVE  InFlight'
  <2> DEFINE r == [op |-> "status", moves |-> {s}, to |-> target]
  <2>1. Fits(r) /\ Provenance(r)
    BY DEF Fits, Provenance
  <2> QED BY <1>1, <2>1, BeginKeeps DEF BeginStatus
<1>2. ASSUME NEW b \in Batch, NEW p \in Position, NEW c \in Crucible, NEW S,
             Begin(x, [op |-> "charge", slot |-> <<b, p>>, row |-> c, moves |-> S])
      PROVE  InFlight'
  <2> DEFINE r == [op |-> "charge", slot |-> <<b, p>>, row |-> c, moves |-> S]
  <2>1. Fits(r) /\ Provenance(r)
    BY DEF Fits, Provenance, Slot
  <2> QED BY <1>2, <2>1, BeginKeeps
<1>3. \A h \in Sample \cup Material, dup \in BOOLEAN : Charged(h, dup) \in Crucible
  BY DEF Charged, Crucible, CrucibleStatuses
<1>4. \A b \in Batch, p \in Position : RowId(b, p) \in RowNames
  BY DEF RowId, RowNames, FurnaceTypes
<1>5. ASSUME NEW b \in Batch, NEW p \in Position, BeginUncharge(x, b, p, role)
      PROVE  InFlight'
  <2> DEFINE r == [op |-> "uncharge", row |-> RowId(b, p), moves |-> Reverted(tray[b][p])]
  <2>1. Fits(r) /\ Provenance(r)
    BY <1>4 DEF Fits, Provenance
  <2> HIDE DEF r
  <2>2. Begin(x, r)
    BY <1>5 DEF BeginUncharge, r
  <2>3. PICK d : d = r
    OBVIOUS
  <2> QED BY <2>1, <2>2, <2>3, BeginKeeps
<1>6. ASSUME NEW b \in Batch, NEW target \in BatchStatuses, BeginBatch(x, b, target, role)
      PROVE  InFlight'
  <2>1. PICK d : d = [op |-> "batch", batch |-> b, to |-> target, rows |-> Rewritten(b, target)]
    OBVIOUS
  <2>2. Rewritten(b, target) # {} => BulkCrucibleStatus(target) \in CrucibleStatuses
    BY DEF Rewritten, BulkCrucibleStatus, CrucibleStatuses
  <2>3. Fits(d) /\ Provenance(d)
    BY <2>1, <2>2 DEF Fits, Provenance
  <2> QED BY <1>6, <2>1, <2>3, BeginKeeps DEF BeginBatch
<1>7. ASSUME NEW b \in Batch, NEW p \in Position, BeginParting(x, b, p, role)
      PROVE  InFlight'
  <2>1. PICK d : d = [op |-> "parting", row |-> RowId(b, p)]
    OBVIOUS
  <2>2. Fits(d) /\ Provenance(d)
    BY <1>4, <2>1 DEF Fits, Provenance
  <2> QED BY <1>7, <2>1, <2>2, BeginKeeps DEF BeginParting
<1>8. ASSUME NEW b \in Batch, NEW p \in Position, NEW w \in Bead, BeginWeighing(x, b, p, w, role)
      PROVE  InFlight'
  <2>1. PICK d : d = [op |-> "weighing", row |-> RowId(b, p), bead |-> w]
    OBVIOUS
  <2>2. Fits(d) /\ Provenance(d)
    BY <1>4, <2>1 DEF Fits, Provenance
  <2> QED BY <1>8, <2>1, <2>2, BeginKeeps DEF BeginWeighing
<1>9. ASSUME NEW b \in Batch, NEW p \in Position,
             \/ \E s \in Sample : BeginCharge(x, b, p, s, role) \/ BeginDuplicate(x, b, p, s, role)
             \/ \E m \in Material : BeginMaterial(x, b, p, m, role)
      PROVE  InFlight'
  BY <1>2, <1>3, <1>9 DEF BeginCharge, BeginDuplicate, BeginMaterial
<1> QED BY <1>1, <1>5, <1>6, <1>7, <1>8, <1>9 DEF BeginBenchWork

LEMMA RecordDecisionsFit ==
    ASSUME FurnaceTypes, InFlight, NEW x \in Session, NEW role \in Staff, BeginRecords(x, role)
    PROVE  InFlight'
<1>1. ASSUME NEW s \in Sample, NEW prev \in 0..Len(results), NEW c \in Slot \cup {Nothing},
             NEW bead \in {Nothing} \cup {ResolvedBead(c, w) : w \in Bead}, NEW reason,
             BeginResult(x, s, prev, c, bead, role, reason)
      PROVE  InFlight'
  <2>1. PICK d : d = [op |-> "result", sample |-> s, supersedes |-> prev, bead |-> bead,
                      crucible |-> IF c = Nothing THEN Nothing ELSE RowId(c[1], c[2])]
    OBVIOUS
  <2>2. ASSUME c # Nothing
        PROVE  /\ c[1] \in Batch /\ c[2] \in Position
               /\ Row(c) = tray[c[1]][c[2]]
               /\ Row(c).holds = s
    BY <1>1, <2>2 DEF BeginResult, CheckProvenance, Slot, Row
  <2>3. bead \in Bead \cup {Nothing}
    <3>1. ASSUME c # Nothing, Row(c).status = "weighed" PROVE Row(c).bead \in Bead \cup {Nothing}
      <4>1. Row(c) \in Crucible \cup {Empty}
        BY <2>2, <3>1 DEF FurnaceTypes
      <4> QED BY <4>1 DEF Crucible, Empty
    <3> QED BY <3>1 DEF ResolvedBead
  <2>4. Fits(d)
    <3>1. c # Nothing => RowId(c[1], c[2]) \in RowNames
      BY <2>2 DEF RowId, RowNames, FurnaceTypes
    <3>2. prev \in Nat
      BY DEF FurnaceTypes
    <3> QED BY <2>1, <2>3, <3>1, <3>2 DEF Fits
  <2>5. Provenance(d)
    <3> SUFFICES ASSUME d.crucible # Nothing
                 PROVE  /\ d.crucible[3] <= fills[d.crucible[1]][d.crucible[2]]
                        /\ Present(d.crucible) => RowAt(d.crucible).holds = d.sample
      BY DEF Provenance
    <3>1. c # Nothing /\ d.crucible = <<c[1], c[2], fills[c[1]][c[2]]>> /\ d.sample = s
      BY <2>1 DEF RowId
    <3>2. fills[c[1]][c[2]] \in Nat
      BY <2>2, <3>1 DEF FurnaceTypes
    <3> QED BY <2>2, <3>1, <3>2 DEF RowAt
  <2> QED BY <1>1, <2>1, <2>4, <2>5, BeginKeeps DEF BeginResult
<1>2. ASSUME NEW s \in Sample, NEW d \in Digest, NEW run \in Runs, BeginImport(x, s, run, d, role)
      PROVE  InFlight'
  <2>1. PICK r : r = [op |-> "import", sample |-> s, run |-> run, digest |-> d,
                      moves |-> IF status[s] = "assayed" THEN {} ELSE {s}]
    OBVIOUS
  <2>2. Fits(r) /\ Provenance(r)
    BY <2>1 DEF Fits, Provenance
  <2> QED BY <1>2, <2>1, <2>2, BeginKeeps DEF BeginImport
<1>3. ASSUME NEW s \in Sample, NEW d \in Digest, NEW e \in Element, BeginReading(x, s, e, d, role)
      PROVE  InFlight'
  <2>1. PICK r, i : /\ r = [op |-> "reading", row |-> [sample |-> s, element |-> e,
                                                      digest |-> d, supersedes |-> i]]
                    /\ Begin(x, r)
    BY <1>3 DEF BeginReading
  <2>2. Fits(r) /\ Provenance(r)
    BY <2>1 DEF Fits, Provenance
  <2> QED BY <2>1, <2>2, BeginKeeps
<1>4. ASSUME NEW S \in SUBSET Sample, NEW client, NEW prev \in 0..Len(certificates), NEW reason,
             BeginCertificate(x, S, client, prev, role, reason)
      PROVE  InFlight'
  <2>1. PICK r : r = [op |-> "certificate", supersedes |-> prev, covers |-> S,
                      frozen |-> [s \in Sample |-> IF s \in S THEN CurrentResult(s) ELSE 0],
                      moves |-> {s \in S : status[s] = "assayed"}]
    OBVIOUS
  <2>2. Fits(r) /\ Provenance(r)
    BY <2>1 DEF Fits, Provenance
  <2> QED BY <1>4, <2>1, <2>2, BeginKeeps DEF BeginCertificate
<1> QED BY <1>1, <1>2, <1>3, <1>4 DEF BeginRecords

-----------------------------------------------------------------------------
(***************************************************************************)
(* Each part of the invariant through a write.                             *)
(***************************************************************************)
\* A decision taken before a write of another request still fits after it: a
\* row that is still present is the row it was.
LEMMA ProvenanceStays ==
    ASSUME FurnaceTypes, FurnaceStep, NEW r, Fits(r), Provenance(r)
    PROVE  Provenance(r)'
<1> SUFFICES ASSUME r.op = "result", r.crucible # Nothing
             PROVE  /\ r.crucible[3] <= fills'[r.crucible[1]][r.crucible[2]]
                    /\ Present(r.crucible)' => tray'[r.crucible[1]][r.crucible[2]].holds = r.sample
  BY DEF Provenance, RowAt
<1>1. PICK b \in Batch, p \in Position, n \in Nat : r.crucible = <<b, p, n>>
  BY DEF Fits, RowNames
<1>2. /\ n <= fills[b][p]
      /\ tray[b][p] # Empty /\ fills[b][p] = n => tray[b][p].holds = r.sample
  BY <1>1 DEF Provenance, Present, RowAt
<1>3. fills[b][p] \in Nat
  BY DEF FurnaceTypes
<1>4. n <= fills'[b][p]
  BY <1>2, <1>3 DEF FurnaceStep, Vacant, Kept, Filled
<1>5. tray'[b][p] # Empty /\ fills'[b][p] = n => tray'[b][p].holds = r.sample
  BY <1>2, <1>3 DEF FurnaceStep, Vacant, Kept, Filled
<1> QED BY <1>1, <1>4, <1>5 DEF Present, RowAt

LEMMA InFlightStays ==
    ASSUME FurnaceTypes, FurnaceStep, InFlight, NEW x \in Session, Finish(x)
    PROVE  InFlight'
<1>1. inflight' = [y \in Session |-> IF y = x THEN Idle ELSE inflight[y]]
  BY DEF InFlight, Finish
<1>2. ASSUME NEW y \in Session PROVE Fits(inflight[y])' /\ Provenance(inflight[y])'
  <2>1. CASE y = x
    <3>1. inflight'[y].op = "idle"
      BY <1>1, <2>1 DEF Idle
    <3> QED BY <3>1 DEF Fits, Provenance
  <2>2. CASE y # x
    <3>1. PICK r : r = inflight[y]
      OBVIOUS
    <3>2. inflight'[y] = r
      BY <1>1, <2>2, <3>1
    <3>3. Fits(r) /\ Provenance(r)
      BY <3>1 DEF InFlight
    <3>4. Provenance(r)'
      BY <3>3, ProvenanceStays
    <3>5. Provenance(inflight[y])'
      BY <3>2, <3>4 DEF Provenance, Present, RowAt
    <3> QED BY <3>2, <3>3, <3>5 DEF Fits
  <2> QED BY <2>1, <2>2
<1> QED BY <1>1, <1>2 DEF InFlight

\* Every commit ends its request.
LEMMA CommitFinishes == ASSUME NEW x \in Session, Commit(x) PROVE Finish(x)
BY DEF Commit, CommitStatus, CommitCharge, CommitUncharge, CommitBatch, CommitBench,
       CommitResult, CommitImport, CommitReading, CommitCertificate

\* A slot a result names is never vacated, so what it holds stays.
LEMMA NamedSlotStays ==
    ASSUME FurnaceTypes, FurnaceStep, NamedCrucibleSurvives,
           NEW i \in DOMAIN results, results[i].crucible # Nothing
    PROVE  tray'[results[i].crucible[1]][results[i].crucible[2]].holds = results[i].sample
<1>1. results[i].sample \in Sample /\ results[i].crucible \in Slot
  <2>1. results[i] \in Result
    BY DEF FurnaceTypes
  <2> QED BY <2>1 DEF Result
<1>2. PICK b \in Batch, p \in Position : results[i].crucible = <<b, p>>
  BY <1>1 DEF Slot
<1>3. tray[b][p].holds = results[i].sample
  BY <1>2 DEF NamedCrucibleSurvives, Row
<1>4. tray[b][p] # Empty
  BY <1>1, <1>3, CrucibleIsNotEmpty
<1>5. Kept(b, p)
  BY <1>2, <1>4 DEF FurnaceStep, Vacant, Filled
<1> QED BY <1>2, <1>3, <1>5 DEF Kept

LEMMA CommitKeepsNamed ==
    ASSUME FurnaceTypes, InFlight, NamedCrucibleSurvives, NEW x \in Session, Commit(x)
    PROVE  NamedCrucibleSurvives' /\ results' \in Seq(Result)
<1>1. FurnaceStep
  BY CommitSteps
<1>2. CASE CommitResult(x)
  <2> DEFINE r == inflight[x]
             c == IF r.crucible = Nothing THEN Nothing ELSE <<r.crucible[1], r.crucible[2]>>
             row == [sample |-> r.sample, supersedes |-> r.supersedes, crucible |-> c,
                     bead |-> r.bead]
  <2>1. /\ r.sample \in Sample /\ r.supersedes \in Nat /\ r.bead \in Bead \cup {Nothing}
        /\ r.crucible # Nothing => r.crucible \in RowNames
        /\ r.crucible # Nothing /\ Present(r.crucible) => RowAt(r.crucible).holds = r.sample
    BY <1>2 DEF CommitResult, Deciding, InFlight, Fits, Provenance
  <2>2. /\ r.crucible # Nothing => Present(r.crucible)
        /\ results' = Append(results, row)
        /\ UNCHANGED tray
    BY <1>2 DEF CommitResult, WriteResult
  <2>3. c # Nothing => c \in Slot /\ tray[c[1]][c[2]].holds = r.sample
    BY <2>1, <2>2 DEF RowNames, Slot, RowAt
  <2>4. row \in Result
    BY <2>1, <2>3 DEF Result
  <2>5. row.crucible = c /\ row.sample = r.sample
    OBVIOUS
  <2> HIDE DEF r, c, row
  <2>6. results' \in Seq(Result)
    BY <2>2, <2>4 DEF FurnaceTypes
  <2>7. ASSUME NEW i \in DOMAIN results', results'[i].crucible # Nothing
        PROVE  tray'[results'[i].crucible[1]][results'[i].crucible[2]].holds = results'[i].sample
    <3>1. CASE i \in DOMAIN results
      <4>1. results'[i] = results[i]
        BY <2>2, <3>1 DEF FurnaceTypes
      <4> QED BY <1>1, <2>7, <3>1, <4>1, NamedSlotStays
    <3>2. CASE i \notin DOMAIN results
      <4>1. results'[i] = row
        BY <2>2, <2>7, <3>2 DEF FurnaceTypes
      <4> QED BY <2>2, <2>3, <2>5, <2>7, <4>1
    <3> QED BY <3>1, <3>2
  <2> QED BY <2>6, <2>7 DEF NamedCrucibleSurvives, Row
<1>3. CASE ~CommitResult(x)
  <2>1. results' = results
    BY <1>3 DEF Commit, CommitStatus, CommitCharge, CommitUncharge, CommitBatch, CommitBench,
                CommitImport, CommitReading, CommitCertificate, records, bench
  <2> QED BY <1>1, <2>1, NamedSlotStays DEF NamedCrucibleSurvives, Row, FurnaceTypes
<1> QED BY <1>2, <1>3

-----------------------------------------------------------------------------
\* What the custody rests on, at every moment: the types of the furnace and
\* the results, decisions that fit them, and the property.
LEMMA CustodyHolds == ConcurrentSpec => []CustodyHeld
<1>1. ConcurrentInit => CustodyHeld
  <2> SUFFICES ASSUME ConcurrentInit PROVE CustodyHeld
    OBVIOUS
  <2>1. FurnaceTypes /\ NamedCrucibleSurvives
    BY DEF ConcurrentInit, Init, FurnaceTypes, NamedCrucibleSurvives
  <2>2. InFlight
    BY DEF ConcurrentInit, InFlight, Idle, Fits, Provenance
  <2> QED BY <2>1, <2>2 DEF CustodyHeld
<1>2. CustodyHeld /\ [ConcurrentNext]_cvars => CustodyHeld'
  <2> SUFFICES ASSUME CustodyHeld, [ConcurrentNext]_cvars PROVE CustodyHeld'
    OBVIOUS
  <2>1. FurnaceTypes /\ InFlight /\ NamedCrucibleSurvives
    BY DEF CustodyHeld
  <2>2. ASSUME UNCHANGED <<tray, fills, results>>, InFlight' PROVE CustodyHeld'
    BY <2>1, <2>2 DEF CustodyHeld, FurnaceTypes, NamedCrucibleSurvives, Row
  <2>3. ASSUME NEW x \in Session, NEW role \in Staff, BeginBenchWork(x, role) \/ BeginRecords(x, role)
        PROVE  CustodyHeld'
    <3>1. UNCHANGED <<tray, fills, results>>
      BY <2>3 DEF BeginBenchWork, BeginRecords, BeginStatus, BeginCharge, BeginDuplicate,
                  BeginMaterial, BeginUncharge, BeginBatch, BeginParting, BeginWeighing,
                  BeginResult, BeginImport, BeginReading, BeginCertificate, Begin, vars
    <3> QED BY <2>1, <2>2, <2>3, <3>1, BenchDecisionsFit, RecordDecisionsFit
  <2>4. ASSUME UNCHANGED <<tray, fills, results, inflight>> PROVE CustodyHeld'
    BY <2>1, <2>2, <2>4 DEF InFlight, Fits, Provenance, Present, RowAt
  <2>5. ASSUME NEW x \in Session, AtOnce(x) PROVE CustodyHeld'
    BY <2>4, <2>5 DEF AtOnce, OpenBatch, RetireMaterial, records
  <2>6. ASSUME NEW x \in Session, Abort(x) PROVE CustodyHeld'
    BY <2>1, <2>2, <2>6, UntouchedFurnace, InFlightStays DEF Abort, vars
  <2>7. ASSUME NEW x \in Session, Commit(x) PROVE CustodyHeld'
    <3>1. FurnaceStep /\ InFlight'
      BY <2>1, <2>7, CommitSteps, CommitFinishes, InFlightStays
    <3>2. NamedCrucibleSurvives' /\ results' \in Seq(Result)
      BY <2>1, <2>7, CommitKeepsNamed
    <3> QED BY <3>1, <3>2 DEF CustodyHeld, FurnaceTypes, FurnaceStep
  <2>8. CASE UNCHANGED cvars
    BY <2>4, <2>8 DEF cvars, vars
  <2> QED BY <2>3, <2>5, <2>6, <2>7, <2>8 DEF ConcurrentNext
<1> QED BY <1>1, <1>2, PTL DEF ConcurrentSpec

\* NamedCrucibleSurvives: the foreign key keeps the row of a committed
\* result, and a result whose row went before its commit is rolled back: a
\* refill of the slot is another row.
THEOREM NamedCrucibleSurvivesHolds == ConcurrentSpec => []NamedCrucibleSurvives
BY CustodyHolds, PTL DEF CustodyHeld

-----------------------------------------------------------------------------
(***************************************************************************)
(* What is left of the chains when handlers race.  Two corrections of one  *)
(* result may both be written (CorrectedOnce is violated), and two         *)
(* amendments of one certificate too; but a row names an earlier row that  *)
(* its handler had seen, rows are never removed, and for readings the      *)
(* schema has a unique index.  Tables are parameters below, so that a      *)
(* statement about a table is one about any later table as well.           *)
(***************************************************************************)
NamesEarlier(rows) ==
    \A i \in DOMAIN rows : LET prev == rows[i].supersedes IN
        prev # 0 => prev < i /\ rows[prev].sample = rows[i].sample

\* A correction is of the same sample, element and digest, and it is the only
\* one of the reading it corrects.
Corrects(value, values) ==
    /\ value.supersedes \in DOMAIN values
    /\ values[value.supersedes].sample = value.sample
    /\ values[value.supersedes].element = value.element
    /\ values[value.supersedes].digest = value.digest

ReadingChains(values) ==
    \A i, j \in DOMAIN values :
        values[i].supersedes # 0 =>
            /\ values[i].supersedes < i
            /\ Corrects(values[i], values)
            /\ values[j].supersedes = values[i].supersedes => i = j

SameClient(cert, other) ==
    \A s \in CoveredBy(cert), r \in CoveredBy(other) : ClientOf[s] = ClientOf[r]

AmendsEarlier(certs) ==
    \A i \in DOMAIN certs : LET prev == certs[i].supersedes IN
        prev # 0 => prev < i /\ SameClient(certs[i], certs[prev])

\* The grade a certificate freezes is on record and of the sample it covers.
FrozenRows(cert, rows) ==
    \A s \in Sample : cert.frozen[s] # 0 =>
        cert.frozen[s] \in DOMAIN rows /\ rows[cert.frozen[s]].sample = s

FreezesRecords(certs, rows, values) ==
    \A c \in DOMAIN certs : FrozenRows(certs[c], rows) /\ certs[c].elements \subseteq DOMAIN values

\* What a request has decided about records names rows that exist.
Grounded(r, rows, values, certs) ==
    /\ r.op = "result" /\ r.supersedes # 0 =>
          r.supersedes \in DOMAIN rows /\ rows[r.supersedes].sample = r.sample
    /\ r.op = "import" => r.sample \in Sample /\ r.run \in Runs /\ r.digest \in Digest
    /\ r.op = "reading" => r.row \in Reading /\ Corrects(r.row, values)
    /\ r.op = "certificate" =>
          /\ r.frozen \in [Sample -> Nat] /\ r.supersedes \in Nat /\ r.covers \subseteq Sample
          /\ FrozenRows(r, rows)
          /\ r.supersedes # 0 =>
                r.supersedes \in DOMAIN certs /\ SameClient(r, certs[r.supersedes])

RecordTypes ==
    /\ results \in Seq(Result)
    /\ readings \in Seq(Reading)
    /\ certificates \in Seq(Certificate)

RecordsHeld ==
    /\ RecordTypes
    /\ NamesEarlier(results)
    /\ ReadingChains(readings)
    /\ AmendsEarlier(certificates)
    /\ FreezesRecords(certificates, results, readings)
    /\ \A x \in Session : Grounded(inflight[x], results, readings, certificates)

-----------------------------------------------------------------------------
\* A table that grew by one row, and how a row found in it is one or the other.
LEMMA AppendGrows ==
    ASSUME NEW T, NEW rows \in Seq(T), NEW row \in T
    PROVE  /\ Append(rows, row) \in Seq(T)
           /\ Keeps(rows, Append(rows, row))
           /\ DOMAIN rows = 1..Len(rows) /\ Len(rows) \in Nat
           /\ DOMAIN Append(rows, row) = 1..(Len(rows) + 1)
           /\ Append(rows, row)[Len(rows) + 1] = row
BY DEF Keeps

LEMMA KeepsItself == \A rows : Keeps(rows, rows)
BY DEF Keeps

\* Rows are never removed, so what named a row names it still.
LEMMA GroundedStays ==
    ASSUME NEW r, NEW rows, NEW values, NEW certs, NEW rows2, NEW values2, NEW certs2,
           Grounded(r, rows, values, certs),
           Keeps(rows, rows2), Keeps(values, values2), Keeps(certs, certs2)
    PROVE  Grounded(r, rows2, values2, certs2)
<1>1. r.op = "result" /\ r.supersedes # 0 =>
          r.supersedes \in DOMAIN rows2 /\ rows2[r.supersedes].sample = r.sample
  BY DEF Grounded, Keeps
<1>2. r.op = "reading" => r.row \in Reading /\ Corrects(r.row, values2)
  BY DEF Grounded, Keeps, Corrects
<1>3. r.op = "certificate" => FrozenRows(r, rows2)
  BY DEF Grounded, Keeps, FrozenRows
<1>4. r.op = "certificate" /\ r.supersedes # 0 =>
          r.supersedes \in DOMAIN certs2 /\ SameClient(r, certs2[r.supersedes])
  BY DEF Grounded, Keeps
<1> QED BY <1>1, <1>2, <1>3, <1>4 DEF Grounded

LEMMA FreezesStays ==
    ASSUME NEW certs, NEW rows, NEW values, NEW rows2, NEW values2,
           FreezesRecords(certs, rows, values), Keeps(rows, rows2), Keeps(values, values2)
    PROVE  FreezesRecords(certs, rows2, values2)
BY DEF FreezesRecords, FrozenRows, Keeps

\* A new result names nothing or an earlier one of its sample.
LEMMA NamesEarlierGrows ==
    ASSUME NEW rows \in Seq(Result), NamesEarlier(rows), NEW row \in Result,
           row.supersedes # 0 =>
              row.supersedes \in DOMAIN rows /\ rows[row.supersedes].sample = row.sample
    PROVE  NamesEarlier(Append(rows, row))
<1> DEFINE n == Len(rows)
           later == Append(rows, row)
<1>1. /\ n \in Nat /\ DOMAIN rows = 1..n /\ DOMAIN later = 1..(n + 1)
      /\ later[n + 1] = row /\ \A i \in 1..n : later[i] = rows[i]
  OBVIOUS
<1>2. \A i \in 1..n : rows[i].supersedes \in Nat
  <2>1. \A i \in 1..n : rows[i] \in Result
    BY <1>1
  <2> QED BY <2>1 DEF Result
<1> HIDE DEF n, later
<1>3. ASSUME NEW i \in 1..(n + 1), later[i].supersedes # 0
      PROVE  /\ later[i].supersedes < i
             /\ later[later[i].supersedes].sample = later[i].sample
  <2>1. CASE i = n + 1
    BY <1>1, <1>3, <2>1
  <2>2. CASE i \in 1..n
    <3>1. /\ rows[i].supersedes < i
          /\ rows[rows[i].supersedes].sample = rows[i].sample
      BY <1>1, <1>3, <2>2 DEF NamesEarlier
    <3>2. rows[i].supersedes \in 1..n
      BY <1>1, <1>2, <1>3, <2>2, <3>1
    <3> QED BY <1>1, <2>2, <3>1, <3>2
  <2> QED BY <1>1, <2>1, <2>2
<1>4. NamesEarlier(later)
  BY <1>1, <1>3 DEF NamesEarlier
<1> QED BY <1>4 DEF later

\* A reading that corrects one nobody has corrected yet: the unique index.
LEMMA ReadingChainsGrow ==
    ASSUME NEW values \in Seq(Reading), ReadingChains(values), NEW value \in Reading,
           Corrects(value, values), ~Superseded(values, value.supersedes)
    PROVE  ReadingChains(Append(values, value))
<1> DEFINE n == Len(values)
           later == Append(values, value)
           prev == value.supersedes
<1>1. /\ n \in Nat /\ DOMAIN values = 1..n /\ DOMAIN later = 1..(n + 1)
      /\ later[n + 1] = value /\ \A i \in 1..n : later[i] = values[i]
  OBVIOUS
<1>2. prev \in 1..n /\ \A i \in 1..n : values[i].supersedes # prev
  BY <1>1 DEF Corrects, Superseded
<1> HIDE DEF n, later
<1>3. ASSUME NEW i \in 1..(n + 1), later[i].supersedes # 0
      PROVE  later[i].supersedes < i /\ Corrects(later[i], later)
  <2>1. CASE i = n + 1
    <3>1. later[prev] = values[prev]
      BY <1>1, <1>2
    <3> QED BY <1>1, <1>2, <2>1, <3>1 DEF Corrects
  <2>2. CASE i \in 1..n
    <3>1. values[i].supersedes < i /\ Corrects(values[i], values)
      BY <1>1, <1>3, <2>2 DEF ReadingChains
    <3> QED BY <1>1, <2>2, <3>1 DEF Corrects
  <2> QED BY <1>1, <2>1, <2>2
<1>4. ASSUME NEW i \in 1..(n + 1), NEW j \in 1..(n + 1), later[i].supersedes # 0,
             later[j].supersedes = later[i].supersedes
      PROVE  i = j
  <2>1. CASE i \in 1..n /\ j \in 1..n
    BY <1>1, <1>4, <2>1 DEF ReadingChains
  <2>2. CASE i = n + 1 /\ j \in 1..n
    BY <1>1, <1>2, <1>4, <2>2
  <2>3. CASE j = n + 1 /\ i \in 1..n
    BY <1>1, <1>2, <1>4, <2>3
  <2> QED BY <1>1, <2>1, <2>2, <2>3
<1>5. ReadingChains(later)
  BY <1>1, <1>3, <1>4 DEF ReadingChains
<1> QED BY <1>5 DEF later

\* An import corrects nothing: its rows come after the others.
LEMMA ImportKeepsChains ==
    ASSUME NEW values \in Seq(Reading), ReadingChains(values), NEW more \in Seq(Reading),
           \A i \in DOMAIN more : more[i].supersedes = 0
    PROVE  /\ ReadingChains(values \o more)
           /\ Keeps(values, values \o more)
           /\ values \o more \in Seq(Reading)
<1> DEFINE n == Len(values)
           m == Len(more)
           later == values \o more
<1>1. /\ n \in Nat /\ m \in Nat /\ DOMAIN values = 1..n /\ DOMAIN more = 1..m
      /\ later \in Seq(Reading) /\ DOMAIN later = 1..(n + m)
  <2>1. later \in Seq(Reading) /\ Len(later) = n + m
    OBVIOUS
  <2> QED BY <2>1
<1>2. \A i \in 1..n : later[i] = values[i]
  OBVIOUS
<1>3. ASSUME NEW i \in 1..(n + m), i \notin 1..n PROVE later[i].supersedes = 0
  <2>1. i - n \in 1..m
    BY <1>1, <1>3
  <2>2. later[i] = more[i - n]
    BY <1>1, <1>3
  <2> QED BY <1>1, <2>1, <2>2
<1> HIDE DEF n, m, later
<1>4. ASSUME NEW i \in 1..(n + m), NEW j \in 1..(n + m), later[i].supersedes # 0
      PROVE  /\ later[i].supersedes < i
             /\ Corrects(later[i], later)
             /\ later[j].supersedes = later[i].supersedes => i = j
  <2>1. i \in 1..n
    BY <1>3, <1>4
  <2>2. values[i].supersedes < i /\ Corrects(values[i], values)
    BY <1>1, <1>2, <1>4, <2>1 DEF ReadingChains
  <2>3. Corrects(later[i], later)
    BY <1>1, <1>2, <2>1, <2>2 DEF Corrects
  <2>4. ASSUME later[j].supersedes = later[i].supersedes PROVE i = j
    <3>1. j \in 1..n
      BY <1>3, <1>4, <2>4
    <3> QED BY <1>1, <1>2, <1>4, <2>1, <2>4, <3>1 DEF ReadingChains
  <2> QED BY <1>2, <2>1, <2>2, <2>3, <2>4
<1>5. ReadingChains(later) /\ Keeps(values, later)
  BY <1>1, <1>2, <1>4 DEF ReadingChains, Keeps
<1> QED BY <1>1, <1>5 DEF later

LEMMA AmendsEarlierGrows ==
    ASSUME NEW certs \in Seq(Certificate), AmendsEarlier(certs), NEW cert \in Certificate,
           cert.supersedes # 0 =>
              cert.supersedes \in DOMAIN certs /\ SameClient(cert, certs[cert.supersedes])
    PROVE  AmendsEarlier(Append(certs, cert))
<1> DEFINE n == Len(certs)
           later == Append(certs, cert)
<1>1. /\ n \in Nat /\ DOMAIN certs = 1..n /\ DOMAIN later = 1..(n + 1)
      /\ later[n + 1] = cert /\ \A i \in 1..n : later[i] = certs[i]
  OBVIOUS
<1>2. \A i \in 1..n : certs[i].supersedes \in Nat
  <2>1. \A i \in 1..n : certs[i] \in Certificate
    BY <1>1
  <2> QED BY <2>1 DEF Certificate
<1> HIDE DEF n, later
<1>3. ASSUME NEW i \in 1..(n + 1), later[i].supersedes # 0
      PROVE  later[i].supersedes < i /\ SameClient(later[i], later[later[i].supersedes])
  <2>1. CASE i = n + 1
    <3>1. cert.supersedes \in 1..n /\ SameClient(cert, certs[cert.supersedes])
      BY <1>1, <1>3, <2>1
    <3> QED BY <1>1, <2>1, <3>1
  <2>2. CASE i \in 1..n
    <3>1. certs[i].supersedes < i /\ SameClient(certs[i], certs[certs[i].supersedes])
      BY <1>1, <1>3, <2>2 DEF AmendsEarlier
    <3>2. certs[i].supersedes \in 1..n
      BY <1>1, <1>2, <1>3, <2>2, <3>1
    <3> QED BY <1>1, <2>2, <3>1, <3>2
  <2> QED BY <1>1, <2>1, <2>2
<1>4. AmendsEarlier(later)
  BY <1>1, <1>3 DEF AmendsEarlier
<1> QED BY <1>4 DEF later

-----------------------------------------------------------------------------
\* A decision is taken on rows that are there.
LEMMA BeginGrounds ==
    ASSUME InFlight, RecordsHeld, NEW x \in Session, NEW request, Begin(x, request),
           Grounded(request, results, readings, certificates)
    PROVE  RecordsHeld'
<1>1. /\ inflight' = [inflight EXCEPT ![x] = request]
      /\ results' = results /\ readings' = readings /\ certificates' = certificates
  BY DEF Begin, vars
<1>2. \A y \in Session : inflight'[y] = request \/ inflight'[y] = inflight[y]
  BY <1>1 DEF InFlight
<1>3. \A y \in Session : Grounded(inflight'[y], results, readings, certificates)
  BY <1>2 DEF RecordsHeld
<1> QED BY <1>1, <1>3 DEF RecordsHeld, RecordTypes

LEMMA BenchDecisionsGrounded ==
    ASSUME InFlight, RecordsHeld, NEW x \in Session, NEW role \in Staff, BeginBenchWork(x, role)
    PROVE  RecordsHeld'
<1>1. \E r : Begin(x, r) /\ r.op \in {"status", "charge", "uncharge", "batch", "parting", "weighing"}
  <2>1. ASSUME NEW s \in Sample, NEW target, NEW reason, BeginStatus(x, s, target, role, reason)
        PROVE  \E r : Begin(x, r) /\ r.op = "status"
    BY <2>1 DEF BeginStatus
  <2>2. ASSUME NEW b \in Batch, NEW p \in Position,
               \/ \E s \in Sample : BeginCharge(x, b, p, s, role) \/ BeginDuplicate(x, b, p, s, role)
               \/ \E m \in Material : BeginMaterial(x, b, p, m, role)
        PROVE  \E r : Begin(x, r) /\ r.op = "charge"
    <3>1. ASSUME NEW c, NEW S,
                 Begin(x, [op |-> "charge", slot |-> <<b, p>>, row |-> c, moves |-> S])
          PROVE  \E r : Begin(x, r) /\ r.op = "charge"
      BY <3>1
    <3> QED BY <2>2, <3>1 DEF BeginCharge, BeginDuplicate, BeginMaterial
  <2>3. ASSUME NEW b \in Batch, NEW p \in Position, BeginUncharge(x, b, p, role)
        PROVE  \E r : Begin(x, r) /\ r.op = "uncharge"
    BY <2>3 DEF BeginUncharge
  <2>4. ASSUME NEW b \in Batch, NEW p \in Position, BeginParting(x, b, p, role)
        PROVE  \E r : Begin(x, r) /\ r.op = "parting"
    BY <2>4 DEF BeginParting
  <2>5. ASSUME NEW b \in Batch, NEW p \in Position, NEW w \in Bead, BeginWeighing(x, b, p, w, role)
        PROVE  \E r : Begin(x, r) /\ r.op = "weighing"
    BY <2>5 DEF BeginWeighing
  <2>6. ASSUME NEW b \in Batch, NEW target \in BatchStatuses, BeginBatch(x, b, target, role)
        PROVE  \E r : Begin(x, r) /\ r.op = "batch"
    BY <2>6 DEF BeginBatch
  <2> QED BY <2>1, <2>2, <2>3, <2>4, <2>5, <2>6 DEF BeginBenchWork
<1>2. PICK r : Begin(x, r) /\ r.op \in {"status", "charge", "uncharge", "batch", "parting", "weighing"}
  BY <1>1
<1>3. Grounded(r, results, readings, certificates)
  BY <1>2 DEF Grounded
<1> QED BY <1>2, <1>3, BeginGrounds

LEMMA RecordDecisionsGrounded ==
    ASSUME InFlight, RecordsHeld, NEW x \in Session, NEW role \in Staff, BeginRecords(x, role)
    PROVE  RecordsHeld'
<1> USE DEF RecordsHeld, RecordTypes
<1>1. ASSUME NEW s \in Sample, NEW prev \in 0..Len(results), NEW c, NEW bead, NEW reason,
             BeginResult(x, s, prev, c, bead, role, reason)
      PROVE  RecordsHeld'
  <2>1. PICK r : r = [op |-> "result", sample |-> s, supersedes |-> prev, bead |-> bead,
                      crucible |-> IF c = Nothing THEN Nothing ELSE RowId(c[1], c[2])]
    OBVIOUS
  <2>2. prev # 0 => prev \in Heads(results, s)
    BY <1>1, CurrentResultIsAHead DEF BeginResult, CheckSupersession
  <2>3. Grounded(r, results, readings, certificates)
    BY <2>1, <2>2 DEF Grounded, Heads
  <2>4. Begin(x, r)
    BY <1>1, <2>1 DEF BeginResult
  <2> QED BY <2>3, <2>4, BeginGrounds
<1>2. ASSUME NEW s \in Sample, NEW d \in Digest, NEW run \in Runs, BeginImport(x, s, run, d, role)
      PROVE  RecordsHeld'
  <2>1. PICK r : r = [op |-> "import", sample |-> s, run |-> run, digest |-> d,
                      moves |-> IF status[s] = "assayed" THEN {} ELSE {s}]
    OBVIOUS
  <2>2. Grounded(r, results, readings, certificates)
    BY <2>1 DEF Grounded
  <2>3. Begin(x, r)
    BY <1>2, <2>1 DEF BeginImport
  <2> QED BY <2>2, <2>3, BeginGrounds
<1>3. ASSUME NEW s \in Sample, NEW d \in Digest, NEW e \in Element, BeginReading(x, s, e, d, role)
      PROVE  RecordsHeld'
  <2>1. PICK i \in CurrentOf(s, e, d) :
           Begin(x, [op |-> "reading", row |-> [sample |-> s, element |-> e,
                                                digest |-> d, supersedes |-> i]])
    BY <1>3 DEF BeginReading
  <2>2. PICK r : r = [op |-> "reading", row |-> [sample |-> s, element |-> e,
                                                digest |-> d, supersedes |-> i]]
    OBVIOUS
  <2>3. /\ i \in DOMAIN readings /\ i \in Nat
        /\ readings[i].sample = s /\ readings[i].element = e /\ readings[i].digest = d
    BY DEF CurrentOf, CurrentReadings, Heads
  <2>4. Grounded(r, results, readings, certificates)
    BY <2>2, <2>3 DEF Grounded, Corrects, Reading
  <2> QED BY <2>1, <2>2, <2>4, BeginGrounds
<1>4. ASSUME NEW S \in SUBSET Sample, NEW client, NEW prev \in 0..Len(certificates), NEW reason,
             BeginCertificate(x, S, client, prev, role, reason)
      PROVE  RecordsHeld'
  <2>1. PICK r : r = [op |-> "certificate", supersedes |-> prev, covers |-> S,
                      frozen |-> [s \in Sample |-> IF s \in S THEN CurrentResult(s) ELSE 0],
                      moves |-> {s \in S : status[s] = "assayed"}]
    OBVIOUS
  <2>2. /\ r.op = "certificate" /\ r.supersedes = prev /\ r.covers = S
        /\ r.frozen = [s \in Sample |-> IF s \in S THEN CurrentResult(s) ELSE 0]
    BY <2>1
  <2>3. r.frozen \in [Sample -> Nat] /\ FrozenRows(r, results)
    BY <2>2, CurrentResultIsAHead DEF FrozenRows, Heads
  <2>4. prev # 0 => prev \in DOMAIN certificates /\ SameClient(r, certificates[prev])
    <3> SUFFICES ASSUME prev # 0
                 PROVE  prev \in DOMAIN certificates /\ SameClient(r, certificates[prev])
      OBVIOUS
    <3>1. /\ prev \in DOMAIN certificates
          /\ \A s \in CoveredBy(certificates[prev]) : ClientOf[s] = client
          /\ \A s \in S : ClientOf[s] = client
      BY <1>4 DEF BeginCertificate, ResolveSupersession, ResolveSamples, Covers, CoveredBy
    <3>2. CoveredBy(r) \subseteq S
      BY <2>2 DEF CoveredBy
    <3> QED BY <3>1, <3>2 DEF SameClient
  <2>5. Grounded(r, results, readings, certificates)
    BY <2>2, <2>3, <2>4 DEF Grounded
  <2>6. Begin(x, r)
    BY <1>4, <2>1 DEF BeginCertificate
  <2> QED BY <2>5, <2>6, BeginGrounds
<1> QED BY <1>1, <1>2, <1>3, <1>4 DEF BeginRecords

-----------------------------------------------------------------------------
(***************************************************************************)
(* Writes.  Three tables and one of them grows at a time.                  *)
(***************************************************************************)
LEMMA OthersStayGrounded ==
    ASSUME InFlight, RecordsHeld, NEW x \in Session, Finish(x),
           Keeps(results, results'), Keeps(readings, readings'),
           Keeps(certificates, certificates')
    PROVE  \A y \in Session : Grounded(inflight'[y], results', readings', certificates')
<1> SUFFICES ASSUME NEW y \in Session
             PROVE  Grounded(inflight'[y], results', readings', certificates')
  OBVIOUS
<1>1. CASE y = x
  <2>1. inflight'[y].op = "idle"
    BY <1>1 DEF InFlight, Finish, Idle
  <2> QED BY <2>1 DEF Grounded
<1>2. CASE y # x
  <2>1. PICK r : r = inflight[y]
    OBVIOUS
  <2>2. inflight'[y] = r
    BY <1>2, <2>1 DEF InFlight, Finish
  <2>3. Grounded(r, results, readings, certificates)
    BY <2>1 DEF RecordsHeld
  <2> QED BY <2>2, <2>3, GroundedStays
<1> QED BY <1>1, <1>2

LEMMA WorkLeavesRecords ==
    ASSUME InFlight, RecordsHeld, NEW x \in Session, Finish(x), UNCHANGED records
    PROVE  RecordsHeld'
<1>1. results' = results /\ readings' = readings /\ certificates' = certificates
  BY DEF records
<1>2. \A y \in Session : Grounded(inflight'[y], results', readings', certificates')
  BY <1>1, KeepsItself, OthersStayGrounded
<1> QED BY <1>1, <1>2 DEF RecordsHeld, RecordTypes

LEMMA CommitResultRecords ==
    ASSUME CustodyHeld, CustodyHeld', RecordsHeld, NEW x \in Session, CommitResult(x)
    PROVE  RecordsHeld'
<1> DEFINE r == inflight[x]
           row == [sample |-> r.sample, supersedes |-> r.supersedes,
                   crucible |-> IF r.crucible = Nothing THEN Nothing
                                ELSE <<r.crucible[1], r.crucible[2]>>,
                   bead |-> r.bead]
<1>1. /\ results' = Append(results, row) /\ Finish(x)
      /\ readings' = readings /\ certificates' = certificates
  BY DEF CommitResult, WriteResult
<1>2. results \in Seq(Result) /\ results' \in Seq(Result)
  BY DEF CustodyHeld, FurnaceTypes
<1>3. row.supersedes # 0 =>
        row.supersedes \in DOMAIN results /\ results[row.supersedes].sample = row.sample
  BY DEF RecordsHeld, Grounded, CommitResult, Deciding
<1> HIDE DEF row
<1>4. row \in Result
  <2>1. /\ Len(results) \in Nat /\ results'[Len(results) + 1] = row
        /\ Len(results) + 1 \in DOMAIN results'
    BY <1>1, <1>2
  <2> QED BY <1>2, <2>1
<1>5. NamesEarlier(results') /\ Keeps(results, results')
  BY <1>1, <1>2, <1>3, <1>4, NamesEarlierGrows, AppendGrows DEF RecordsHeld
<1>6. FreezesRecords(certificates, results', readings)
  BY <1>5, KeepsItself, FreezesStays DEF RecordsHeld
<1>7. \A y \in Session : Grounded(inflight'[y], results', readings', certificates')
  BY <1>1, <1>5, KeepsItself, OthersStayGrounded DEF CustodyHeld
<1> QED BY <1>1, <1>2, <1>5, <1>6, <1>7 DEF RecordsHeld, RecordTypes

\* The rows of an import.
LEMMA ImportedReadings ==
    ASSUME RecordsHeld, NEW x \in Session, CommitImport(x)
    PROVE  \E more \in Seq(Reading) :
              /\ readings' = readings \o more
              /\ \A i \in DOMAIN more : more[i].supersedes = 0
<1> DEFINE r == inflight[x]
           more == [i \in DOMAIN r.run |->
                     [sample |-> r.sample, element |-> r.run[i], digest |-> r.digest,
                      supersedes |-> 0]]
<1>1. readings' = readings \o more
  BY DEF CommitImport
<1>2. r.sample \in Sample /\ r.run \in Runs /\ r.digest \in Digest
  BY DEF RecordsHeld, Grounded, CommitImport, Deciding
<1>3. PICK n \in 1..Cardinality(Element) : r.run \in [1..n -> Element]
  BY <1>2 DEF Runs
<1>4. more \in [1..n -> Reading] /\ \A i \in DOMAIN more : more[i].supersedes = 0
  BY <1>2, <1>3 DEF Reading
<1> HIDE DEF more
<1>5. more \in Seq(Reading)
  <2>1. n \in Nat
    OBVIOUS
  <2> QED BY <1>4, <2>1
<1> QED BY <1>1, <1>4, <1>5

LEMMA CommitImportRecords ==
    ASSUME InFlight, RecordsHeld, NEW x \in Session, CommitImport(x)
    PROVE  RecordsHeld'
<1>1. Finish(x) /\ results' = results /\ certificates' = certificates
  BY DEF CommitImport
<1>2. /\ readings' \in Seq(Reading) /\ ReadingChains(readings') /\ Keeps(readings, readings')
  BY ImportedReadings, ImportKeepsChains DEF RecordsHeld, RecordTypes
<1>3. FreezesRecords(certificates, results, readings')
  BY <1>2, KeepsItself, FreezesStays DEF RecordsHeld
<1>4. \A y \in Session : Grounded(inflight'[y], results', readings', certificates')
  BY <1>1, <1>2, KeepsItself, OthersStayGrounded
<1> QED BY <1>1, <1>2, <1>3, <1>4 DEF RecordsHeld, RecordTypes

LEMMA CommitReadingRecords ==
    ASSUME InFlight, RecordsHeld, NEW x \in Session, CommitReading(x)
    PROVE  RecordsHeld'
<1> DEFINE row == inflight[x].row
<1>1. /\ readings' = Append(readings, row) /\ Finish(x)
      /\ ~Superseded(readings, row.supersedes)
      /\ results' = results /\ certificates' = certificates
  BY DEF CommitReading, OneSuccessorIndex
<1>2. row \in Reading /\ Corrects(row, readings)
  BY DEF RecordsHeld, Grounded, CommitReading, Deciding
<1>3. readings \in Seq(Reading)
  BY DEF RecordsHeld, RecordTypes
<1> HIDE DEF row
<1>4. readings' \in Seq(Reading) /\ ReadingChains(readings') /\ Keeps(readings, readings')
  BY <1>1, <1>2, <1>3, ReadingChainsGrow, AppendGrows DEF RecordsHeld
<1>5. FreezesRecords(certificates, results, readings')
  BY <1>4, KeepsItself, FreezesStays DEF RecordsHeld
<1>6. \A y \in Session : Grounded(inflight'[y], results', readings', certificates')
  BY <1>1, <1>4, KeepsItself, OthersStayGrounded
<1> QED BY <1>1, <1>4, <1>5, <1>6 DEF RecordsHeld, RecordTypes

LEMMA CommitCertificateRecords ==
    ASSUME InFlight, RecordsHeld, NEW x \in Session, CommitCertificate(x)
    PROVE  RecordsHeld'
<1> DEFINE r == inflight[x]
           cert == [frozen |-> r.frozen, supersedes |-> r.supersedes,
                    elements |-> UNION {CurrentReadings(s) : s \in r.covers}]
<1>1. /\ certificates' = Append(certificates, cert) /\ Finish(x)
      /\ results' = results /\ readings' = readings
  BY DEF CommitCertificate
<1>2. Grounded(r, results, readings, certificates) /\ r.op = "certificate"
  BY DEF RecordsHeld, CommitCertificate, Deciding
<1>3. cert.frozen = r.frozen /\ cert.supersedes = r.supersedes
  OBVIOUS
<1>4. cert.elements \subseteq DOMAIN readings
  BY DEF CurrentReadings, Heads
<1>5. cert \in Certificate
  <2>1. DOMAIN readings \subseteq Nat
    BY DEF RecordsHeld, RecordTypes
  <2>2. cert.elements \in SUBSET Nat /\ r.frozen \in [Sample -> Nat] /\ r.supersedes \in Nat
    BY <1>2, <1>4, <2>1 DEF Grounded
  <2> QED BY <2>2 DEF Certificate
<1> HIDE DEF r, cert
<1>6. FrozenRows(cert, results)
  BY <1>2, <1>3 DEF Grounded, FrozenRows
<1>7. cert.supersedes # 0 =>
        cert.supersedes \in DOMAIN certificates
          /\ SameClient(cert, certificates[cert.supersedes])
  BY <1>2, <1>3 DEF Grounded, SameClient, CoveredBy
<1>8. certificates \in Seq(Certificate)
  BY DEF RecordsHeld, RecordTypes
<1>9. /\ certificates' \in Seq(Certificate) /\ AmendsEarlier(certificates')
      /\ Keeps(certificates, certificates')
  BY <1>1, <1>5, <1>7, <1>8, AmendsEarlierGrows, AppendGrows DEF RecordsHeld
<1>10. FreezesRecords(certificates', results, readings)
  <2>1. \A c \in DOMAIN certificates' :
           \/ certificates'[c] = cert
           \/ c \in DOMAIN certificates /\ certificates'[c] = certificates[c]
    BY <1>1, <1>8
  <2> QED BY <1>4, <1>6, <2>1 DEF RecordsHeld, FreezesRecords
<1>11. \A y \in Session : Grounded(inflight'[y], results', readings', certificates')
  BY <1>1, <1>9, KeepsItself, OthersStayGrounded
<1> QED BY <1>1, <1>9, <1>10, <1>11 DEF RecordsHeld, RecordTypes

LEMMA RecordsHold == ConcurrentSpec => []RecordsHeld
<1>1. ConcurrentInit => RecordsHeld
  BY DEF ConcurrentInit, Init, Idle, RecordsHeld, RecordTypes, NamesEarlier, ReadingChains,
         AmendsEarlier, FreezesRecords, Grounded
<1>2. CustodyHeld /\ CustodyHeld' /\ RecordsHeld /\ [ConcurrentNext]_cvars => RecordsHeld'
  <2> SUFFICES ASSUME CustodyHeld, CustodyHeld', RecordsHeld, [ConcurrentNext]_cvars
               PROVE  RecordsHeld'
    OBVIOUS
  <2>1. InFlight
    BY DEF CustodyHeld
  <2>2. ASSUME NEW x \in Session, Commit(x) PROVE RecordsHeld'
    <3>1. CASE CommitStatus(x) \/ CommitCharge(x) \/ CommitUncharge(x) \/ CommitBatch(x)
                 \/ CommitBench(x)
      BY <2>1, <3>1, WorkLeavesRecords
         DEF CommitStatus, CommitCharge, CommitUncharge, CommitBatch, CommitBench
    <3> QED BY <2>1, <2>2, <3>1, CommitResultRecords, CommitImportRecords, CommitReadingRecords,
               CommitCertificateRecords DEF Commit
  <2>3. ASSUME NEW x \in Session, Abort(x) PROVE RecordsHeld'
    BY <2>1, <2>3, WorkLeavesRecords DEF Abort, vars, records
  <2>4. ASSUME UNCHANGED <<results, readings, certificates, inflight>> PROVE RecordsHeld'
    BY <2>4 DEF RecordsHeld, RecordTypes
  <2>5. ASSUME NEW x \in Session, AtOnce(x) PROVE RecordsHeld'
    BY <2>4, <2>5 DEF AtOnce, OpenBatch, RetireMaterial, records
  <2>6. CASE UNCHANGED cvars
    BY <2>4, <2>6 DEF cvars, vars
  <2> QED BY <2>1, <2>2, <2>3, <2>5, <2>6, BenchDecisionsGrounded, RecordDecisionsGrounded
             DEF ConcurrentNext
<1> QED BY <1>1, <1>2, CustodyHolds, PTL DEF ConcurrentSpec

\* Two corrections of one reading both pass the service's check
\* (multi_element/service.py:220); the partial unique index lets one in, so
\* the readings of an analyte form chains however many requests race.
THEOREM ReadingsDoNotBranch == ConcurrentSpec => []ReadingChains(readings)
BY RecordsHold, PTL DEF RecordsHeld

\* What a certificate or a correction says of other rows is true however
\* requests race: a corrected result and an amended certificate are earlier
\* ones, of the same sample and the same client, and every frozen grade and
\* reading is on record.  Only "at most one correction" is lost.
THEOREM RecordsNameWhatExists ==
    ConcurrentSpec => [](/\ NamesEarlier(results)
                         /\ AmendsEarlier(certificates)
                         /\ FreezesRecords(certificates, results, readings))
<1>1. RecordsHeld => /\ NamesEarlier(results)
                     /\ AmendsEarlier(certificates)
                     /\ FreezesRecords(certificates, results, readings)
  BY DEF RecordsHeld
<1> QED BY <1>1, RecordsHold, PTL

-----------------------------------------------------------------------------
(***************************************************************************)
(* Append-only tables, and what a forked chain costs.                      *)
(***************************************************************************)
RecordsAppended ==
    Keeps(results, results') /\ Keeps(readings, readings') /\ Keeps(certificates, certificates')

\* Each write adds rows at the end of one table.
LEMMA CommitAppends ==
    ASSUME RecordsHeld, RecordsHeld', NEW x \in Session, Commit(x)
    PROVE  RecordsAppended
<1>1. /\ results \in Seq(Result) /\ results' \in Seq(Result)
      /\ readings \in Seq(Reading) /\ readings' \in Seq(Reading)
      /\ certificates \in Seq(Certificate) /\ certificates' \in Seq(Certificate)
  BY DEF RecordsHeld, RecordTypes
<1>2. CASE CommitStatus(x) \/ CommitCharge(x) \/ CommitUncharge(x) \/ CommitBatch(x) \/ CommitBench(x)
  BY <1>2, KeepsItself
     DEF CommitStatus, CommitCharge, CommitUncharge, CommitBatch, CommitBench, records,
         RecordsAppended
<1>3. CASE CommitResult(x)
  <2>1. PICK row : results' = Append(results, row) /\ UNCHANGED <<readings, certificates>>
    BY <1>3 DEF CommitResult, WriteResult
  <2>2. Keeps(results, results')
    BY <1>1, <2>1 DEF Keeps
  <2> QED BY <2>1, <2>2, KeepsItself DEF RecordsAppended
<1>4. CASE CommitImport(x)
  <2>1. UNCHANGED <<results, certificates>>
    BY <1>4 DEF CommitImport
  <2>2. Keeps(readings, readings')
    BY <1>4, ImportedReadings, ImportKeepsChains DEF RecordsHeld, RecordTypes
  <2> QED BY <2>1, <2>2, KeepsItself DEF RecordsAppended
<1>5. CASE CommitReading(x)
  <2>1. PICK row : readings' = Append(readings, row) /\ UNCHANGED <<results, certificates>>
    BY <1>5 DEF CommitReading
  <2>2. Keeps(readings, readings')
    BY <1>1, <2>1 DEF Keeps
  <2> QED BY <2>1, <2>2, KeepsItself DEF RecordsAppended
<1>6. CASE CommitCertificate(x)
  <2>1. PICK row : certificates' = Append(certificates, row) /\ UNCHANGED <<results, readings>>
    BY <1>6 DEF CommitCertificate
  <2>2. Keeps(certificates, certificates')
    BY <1>1, <2>1 DEF Keeps
  <2> QED BY <2>1, <2>2, KeepsItself DEF RecordsAppended
<1> QED BY <1>2, <1>3, <1>4, <1>5, <1>6 DEF Commit

\* Results, readings and certificates are append-only whatever the
\* interleaving: no request, and no rollback, changes or removes a row.
THEOREM TablesOnlyGrow ==
    ConcurrentSpec => [][/\ Keeps(results, results')
                         /\ Keeps(readings, readings')
                         /\ Keeps(certificates, certificates')]_cvars
<1>1. RecordsHeld /\ RecordsHeld' /\ [ConcurrentNext]_cvars => [RecordsAppended]_cvars
  <2> SUFFICES ASSUME RecordsHeld, RecordsHeld', ConcurrentNext PROVE RecordsAppended
    OBVIOUS
  <2>1. ASSUME UNCHANGED <<results, readings, certificates>> PROVE RecordsAppended
    BY <2>1, KeepsItself DEF RecordsAppended
  <2>2. PICK x \in Session :
           \/ \E role \in Staff : BeginBenchWork(x, role) \/ BeginRecords(x, role)
           \/ AtOnce(x) \/ Commit(x) \/ Abort(x)
    BY DEF ConcurrentNext
  <2>3. ASSUME NEW r, Begin(x, r) PROVE RecordsAppended
    BY <2>1, <2>3 DEF Begin, vars, records
  <2>4. ASSUME NEW role \in Staff, BeginBenchWork(x, role) PROVE RecordsAppended
    BY <2>3, <2>4
       DEF BeginBenchWork, BeginStatus, BeginCharge, BeginDuplicate, BeginMaterial, BeginUncharge,
           BeginParting, BeginWeighing, BeginBatch
  <2>5. ASSUME NEW role \in Staff, BeginRecords(x, role) PROVE RecordsAppended
    BY <2>3, <2>5 DEF BeginRecords, BeginResult, BeginImport, BeginReading, BeginCertificate
  <2>6. ASSUME AtOnce(x) \/ Abort(x) PROVE RecordsAppended
    BY <2>1, <2>6 DEF AtOnce, OpenBatch, RetireMaterial, Abort, vars, records
  <2> QED BY <2>2, <2>4, <2>5, <2>6, CommitAppends
<1> QED BY <1>1, RecordsHold, PTL DEF ConcurrentSpec, RecordsAppended

\* Two results of one sample correct the same result, or are both a first one.
Forked(s) ==
    \E i, j \in DOMAIN results :
        /\ i # j /\ results[i].sample = s /\ results[j].sample = s
        /\ results[i].supersedes = results[j].supersedes

\* Some value of the certificate is no longer the laboratory's current one.
Outdated(c) ==
    \/ \E s \in Covers(c) : certificates[c].frozen[s] # CurrentResult(s)
    \/ \E i \in certificates[c].elements : i \notin CurrentReadings(readings[i].sample)

\* With two heads there are fewer rows to be corrected than rows that correct
\* one, or none: two of them agree.
LEMMA TwoHeadsFork ==
    ASSUME results \in Seq(Result), NamesEarlier(results), NEW s \in Sample,
           NEW i \in Heads(results, s), NEW j \in Heads(results, s), i # j
    PROVE  Forked(s)
<1> DEFINE S == {k \in DOMAIN results : results[k].sample = s}
           Both == (S \ {i}) \ {j}
           T == Both \cup {0}
           f == [k \in S |-> results[k].supersedes]
<1>1. /\ DOMAIN results = 1..Len(results) /\ Len(results) \in Nat
      /\ \A k \in DOMAIN results : results[k].supersedes \in Nat
  <2>1. \A k \in DOMAIN results : results[k] \in Result
    OBVIOUS
  <2> QED BY <2>1 DEF Result
<1>2. IsFiniteSet(S)
  <2>1. IsFiniteSet(1..Len(results)) /\ S \in SUBSET (1..Len(results))
    BY <1>1, FS_Interval
  <2> HIDE DEF S
  <2> QED BY <2>1, FS_Subset
<1>3. i \in S /\ j \in S /\ 0 \notin Both
  BY <1>1 DEF Heads
<1>4. f \in [S -> T]
  <2>1. ASSUME NEW k \in S PROVE results[k].supersedes \in T
    <3>1. results[k].supersedes # i /\ results[k].supersedes # j
      BY DEF Heads, Superseded
    <3>2. CASE results[k].supersedes = 0
      BY <3>2
    <3>3. CASE results[k].supersedes # 0
      <4>1. results[k].supersedes < k /\ results[results[k].supersedes].sample = s
        BY <3>3 DEF NamesEarlier
      <4>2. results[k].supersedes \in 1..Len(results)
        BY <1>1, <3>3, <4>1
      <4> QED BY <1>1, <3>1, <4>1, <4>2
    <3> QED BY <3>2, <3>3
  <2> QED BY <2>1
<1> HIDE DEF S
<1>5. IsFiniteSet(T) /\ Cardinality(T) < Cardinality(S)
  <2>1. IsFiniteSet(S \ {i}) /\ Cardinality(S \ {i}) = Cardinality(S) - 1
    BY <1>2, <1>3, FS_RemoveElement
  <2>2. IsFiniteSet(Both) /\ Cardinality(Both) = Cardinality(S) - 1 - 1
    BY <1>3, <2>1, FS_RemoveElement
  <2>3. IsFiniteSet(T) /\ Cardinality(T) = Cardinality(Both) + 1
    BY <1>3, <2>2, FS_AddElement
  <2>4. Cardinality(S) \in Nat
    BY <1>2, FS_CardinalityType
  <2> QED BY <2>2, <2>3, <2>4
<1> HIDE DEF T, f
<1>6. PICK k, l \in S : k # l /\ f[k] = f[l]
  BY <1>2, <1>4, <1>5, FS_PigeonHole
<1>7. results[k].supersedes = results[l].supersedes
  BY <1>6 DEF f
<1> QED BY <1>6, <1>7 DEF Forked, S

\* A certificate flagged stale is outdated, however requests race; one that is
\* outdated and not flagged reports a sample whose results fork, as two
\* corrections decided together make it (CorrectedOnce is violated), and two
\* first results in the same way.  Nothing else hides a correction
\* from the clients who were sent the old value (certificates/service.py).
THEOREM StaleMissesOnlyForks ==
    ConcurrentSpec => [](\A c \in DOMAIN certificates :
        /\ Stale(c) => Outdated(c)
        /\ Outdated(c) => Stale(c) \/ \E s \in Covers(c) : Forked(s))
<1>1. RecordsHeld => (\A c \in DOMAIN certificates :
        /\ Stale(c) => Outdated(c)
        /\ Outdated(c) => Stale(c) \/ \E s \in Covers(c) : Forked(s))
  <2> SUFFICES ASSUME RecordsHeld, NEW c \in DOMAIN certificates
               PROVE  /\ Stale(c) => Outdated(c)
                      /\ Outdated(c) => Stale(c) \/ \E s \in Covers(c) : Forked(s)
    OBVIOUS
  <2>1. results \in Seq(Result) /\ NamesEarlier(results)
    BY DEF RecordsHeld, RecordTypes
  <2>2. \A i \in certificates[c].elements :
           Superseded(readings, i) <=> i \notin CurrentReadings(readings[i].sample)
    BY DEF RecordsHeld, FreezesRecords, CurrentReadings, Heads
  <2>3. ASSUME NEW s \in Covers(c)
        PROVE  LET i == certificates[c].frozen[s] IN
               /\ Superseded(results, i) => i # CurrentResult(s)
               /\ i # CurrentResult(s) => Superseded(results, i) \/ Forked(s)
    <3> DEFINE i == certificates[c].frozen[s]
    <3>1. s \in Sample /\ i # 0 /\ i \in DOMAIN results /\ results[i].sample = s
      BY DEF Covers, RecordsHeld, FreezesRecords, FrozenRows
    <3>2. ~Superseded(results, i) <=> i \in Heads(results, s)
      BY <3>1 DEF Heads
    <3> HIDE DEF i
    <3>3. /\ CurrentResult(s) = 0 <=> Heads(results, s) = {}
          /\ CurrentResult(s) # 0 => CurrentResult(s) \in Heads(results, s)
      BY <2>1, <3>1, CurrentResultIsAHead
    <3>4. i # CurrentResult(s) /\ i \in Heads(results, s) => Forked(s)
      BY <2>1, <3>1, <3>3, TwoHeadsFork
    <3>5. Superseded(results, i) => i # CurrentResult(s)
      BY <3>1, <3>2, <3>3
    <3> QED BY <3>2, <3>4, <3>5 DEF i
  <2> QED BY <2>2, <2>3 DEF Stale, Outdated
<1> QED BY <1>1, RecordsHold, PTL

-----------------------------------------------------------------------------
(***************************************************************************)
(* The types of all tables under concurrency: what a request in flight is  *)
(* about to write is a status, too.                                        *)
(***************************************************************************)
Aims(r) ==
    /\ r.op = "status" => r.to \in SampleStatuses
    /\ r.op = "batch" => r.to \in BatchStatuses

StatusTypes ==
    /\ status \in [Sample -> SampleStatuses]
    /\ batch \in [Batch -> BatchStatuses \cup {"unopened"}]
    /\ retired \subseteq Material
    /\ \A x \in Session : Aims(inflight[x])

LEMMA BeginAims ==
    ASSUME InFlight, StatusTypes, NEW x \in Session, NEW role \in Staff,
           BeginBenchWork(x, role) \/ BeginRecords(x, role)
    PROVE  StatusTypes'
<1>1. ASSUME NEW r, Begin(x, r), Aims(r) PROVE StatusTypes'
  <2>1. UNCHANGED <<status, batch, retired>> /\ inflight' = [inflight EXCEPT ![x] = r]
    BY <1>1 DEF Begin, vars
  <2>2. \A y \in Session : inflight'[y] = r \/ inflight'[y] = inflight[y]
    BY <2>1 DEF InFlight
  <2>3. \A y \in Session : Aims(inflight'[y])
    BY <1>1, <2>2 DEF StatusTypes
  <2> QED BY <2>1, <2>3 DEF StatusTypes
<1>2. ASSUME NEW s \in Sample, NEW target \in StatusUpdateTargets, NEW reason,
             BeginStatus(x, s, target, role, reason)
      PROVE  StatusTypes'
  <2>1. PICK r : r = [op |-> "status", moves |-> {s}, to |-> target]
    OBVIOUS
  <2>2. Aims(r)
    BY <2>1 DEF Aims, StatusUpdateTargets, SampleStatuses
  <2> QED BY <1>1, <1>2, <2>1, <2>2 DEF BeginStatus
<1>3. ASSUME NEW b \in Batch, NEW target \in BatchStatuses, BeginBatch(x, b, target, role)
      PROVE  StatusTypes'
  <2>1. PICK r : r = [op |-> "batch", batch |-> b, to |-> target, rows |-> Rewritten(b, target)]
    OBVIOUS
  <2>2. Aims(r)
    BY <2>1 DEF Aims
  <2> QED BY <1>1, <1>3, <2>1, <2>2 DEF BeginBatch
<1>4. ASSUME NEW r, Begin(x, r), r.op \notin {"status", "batch"} PROVE StatusTypes'
  BY <1>1, <1>4 DEF Aims
<1>5. ASSUME NEW b \in Batch, NEW p \in Position,
             \/ \E s \in Sample : BeginCharge(x, b, p, s, role) \/ BeginDuplicate(x, b, p, s, role)
             \/ \E m \in Material : BeginMaterial(x, b, p, m, role)
      PROVE  StatusTypes'
  <2>1. ASSUME NEW c, NEW S,
               Begin(x, [op |-> "charge", slot |-> <<b, p>>, row |-> c, moves |-> S])
        PROVE  StatusTypes'
    BY <1>4, <2>1
  <2> QED BY <1>5, <2>1 DEF BeginCharge, BeginDuplicate, BeginMaterial
<1>6. ASSUME NEW b \in Batch, NEW p \in Position,
             BeginUncharge(x, b, p, role) \/ BeginParting(x, b, p, role)
               \/ \E w \in Bead : BeginWeighing(x, b, p, w, role)
      PROVE  StatusTypes'
  BY <1>4, <1>6 DEF BeginUncharge, BeginParting, BeginWeighing
<1>7. ASSUME BeginRecords(x, role) PROVE StatusTypes'
  <2>1. ASSUME NEW s, NEW prev, NEW c, NEW bead, NEW reason,
               BeginResult(x, s, prev, c, bead, role, reason)
        PROVE  StatusTypes'
    BY <1>4, <2>1 DEF BeginResult
  <2>2. ASSUME NEW s, NEW d, NEW run, BeginImport(x, s, run, d, role) PROVE StatusTypes'
    BY <1>4, <2>2 DEF BeginImport
  <2>3. ASSUME NEW s, NEW d, NEW e, BeginReading(x, s, e, d, role) PROVE StatusTypes'
    BY <1>4, <2>3 DEF BeginReading
  <2>4. ASSUME NEW S, NEW client, NEW prev, NEW reason,
               BeginCertificate(x, S, client, prev, role, reason)
        PROVE  StatusTypes'
    BY <1>4, <2>4 DEF BeginCertificate
  <2> QED BY <1>7, <2>1, <2>2, <2>3, <2>4 DEF BeginRecords
<1> QED BY <1>2, <1>3, <1>5, <1>6, <1>7 DEF BeginBenchWork

LEMMA CommitAims ==
    ASSUME InFlight, StatusTypes, NEW x \in Session, Commit(x)
    PROVE  StatusTypes'
<1>1. \A y \in Session : Aims(inflight'[y])
  <2>1. \A y \in Session : inflight'[y] = Idle \/ inflight'[y] = inflight[y]
    BY CommitFinishes DEF Finish, InFlight
  <2>2. Aims(Idle)
    BY DEF Aims, Idle
  <2> QED BY <2>1, <2>2 DEF StatusTypes
<1>2. status' \in [Sample -> SampleStatuses]
  <2>1. ASSUME NEW S, NEW to \in SampleStatuses, SetStatus(S, to)
        PROVE  status' \in [Sample -> SampleStatuses]
    BY <2>1, SetStatusType DEF StatusTypes
  <2>2. {"in_assay", "ready_for_assay", "assayed", "reported"} \subseteq SampleStatuses
    BY DEF SampleStatuses
  <2>3. CASE CommitStatus(x)
    <3>1. inflight[x].to \in SampleStatuses
      BY <2>3 DEF CommitStatus, Deciding, StatusTypes, Aims
    <3> QED BY <2>1, <2>3, <3>1 DEF CommitStatus
  <2>4. CASE CommitCharge(x)
    BY <2>1, <2>2, <2>4 DEF CommitCharge
  <2>5. CASE CommitUncharge(x)
    BY <2>1, <2>2, <2>5 DEF CommitUncharge
  <2>6. CASE CommitResult(x)
    BY <2>1, <2>2, <2>6 DEF CommitResult, WriteResult
  <2>7. CASE CommitImport(x)
    BY <2>1, <2>2, <2>7 DEF CommitImport
  <2>8. CASE CommitCertificate(x)
    BY <2>1, <2>2, <2>8 DEF CommitCertificate
  <2>9. CASE CommitBatch(x) \/ CommitBench(x) \/ CommitReading(x)
    BY <2>9 DEF CommitBatch, CommitBench, CommitReading, StatusTypes, bench
  <2> QED BY <2>3, <2>4, <2>5, <2>6, <2>7, <2>8, <2>9 DEF Commit
<1>3. batch' \in [Batch -> BatchStatuses \cup {"unopened"}]
  <2>1. CASE CommitBatch(x)
    <3>1. inflight[x].to \in BatchStatuses
      BY <2>1 DEF CommitBatch, Deciding, StatusTypes, Aims
    <3>2. batch' = [batch EXCEPT ![inflight[x].batch] = inflight[x].to]
      BY <2>1 DEF CommitBatch
    <3> QED BY <3>1, <3>2 DEF StatusTypes
  <2>2. CASE ~CommitBatch(x)
    BY <2>2 DEF Commit, CommitStatus, CommitCharge, CommitUncharge, CommitBench, CommitResult,
                WriteResult, CommitImport, CommitReading, CommitCertificate, StatusTypes, bench
  <2> QED BY <2>1, <2>2
<1>4. retired' = retired
  BY DEF Commit, CommitStatus, CommitCharge, CommitUncharge, CommitBatch, CommitBench,
         CommitResult, WriteResult, CommitImport, CommitReading, CommitCertificate, bench
<1> QED BY <1>1, <1>2, <1>3, <1>4 DEF StatusTypes

\* Every table keeps its type however many requests are in flight.
THEOREM TypesHoldConcurrently == ConcurrentSpec => []TypeOK
<1>1. ConcurrentInit => StatusTypes
  BY DEF ConcurrentInit, Init, Idle, StatusTypes, Aims, SampleStatuses
<1>2. CustodyHeld /\ StatusTypes /\ [ConcurrentNext]_cvars => StatusTypes'
  <2> SUFFICES ASSUME CustodyHeld, StatusTypes, [ConcurrentNext]_cvars PROVE StatusTypes'
    OBVIOUS
  <2>1. InFlight
    BY DEF CustodyHeld
  <2>2. ASSUME NEW x \in Session, Abort(x) PROVE StatusTypes'
    <3>1. \A y \in Session : inflight'[y] = Idle \/ inflight'[y] = inflight[y]
      BY <2>1, <2>2 DEF Abort, Finish, InFlight
    <3>2. Aims(Idle) /\ UNCHANGED <<status, batch, retired>>
      BY <2>2 DEF Aims, Idle, Abort, vars
    <3> QED BY <3>1, <3>2 DEF StatusTypes
  <2>3. ASSUME NEW x \in Session, AtOnce(x) PROVE StatusTypes'
    <3>1. inflight' = inflight
      BY <2>3 DEF AtOnce
    <3>2. /\ status' \in [Sample -> SampleStatuses]
          /\ batch' \in [Batch -> BatchStatuses \cup {"unopened"}]
          /\ retired' \subseteq Material
      BY <2>3 DEF AtOnce, OpenBatch, RetireMaterial, StatusTypes, BatchStatuses
    <3> QED BY <3>1, <3>2 DEF StatusTypes
  <2>4. CASE UNCHANGED cvars
    BY <2>4 DEF cvars, vars, StatusTypes
  <2> QED BY <2>1, <2>2, <2>3, <2>4, BeginAims, CommitAims DEF ConcurrentNext
<1>3. CustodyHeld /\ RecordsHeld /\ StatusTypes => TypeOK
  BY DEF CustodyHeld, FurnaceTypes, RecordsHeld, RecordTypes, StatusTypes, TypeOK
<1> QED BY <1>1, <1>2, <1>3, CustodyHolds, RecordsHold, PTL DEF ConcurrentSpec

-----------------------------------------------------------------------------
(***************************************************************************)
(* FurnaceRaces.  While no advance has raced for a tray, what a request    *)
(* has read of its batch still holds when it writes: charges and uncharges *)
(* do not outlast the stage they were decided in, and an advance rewrites  *)
(* every crucible there is.                                                *)
(***************************************************************************)
Sound(r, b) ==
    /\ r.op = "charge" /\ r.slot[1] = b => batch[b] = "charging" /\ r.row.status = "charged"
    /\ r.op = "uncharge" /\ r.row[1] = b => batch[b] = "charging"
    /\ r.op = "batch" /\ r.batch = b =>
          /\ <<batch[b], r.to>> \in BatchTransitions
          /\ r.rows = Rewritten(b, r.to)
          /\ r.to = "in_fusion" => \E p \in Position : tray[b][p] # Empty
    /\ r.op \in {"parting", "weighing"} /\ r.row[1] = b => batch[b] \in {"cupelled", "completed"}

Settled ==
    /\ \A b \in Batch : Racing(b) => b \in raced
    /\ \A b \in Batch \ raced : InStep(b) /\ \A x \in Session : Sound(inflight[x], b)

\* What a step does to an unraced tray and to its batch.
Orderly(b) ==
    /\ InStep(b)'
    /\ batch'[b] # batch[b] =>
          <<batch[b], batch'[b]>> \in BatchTransitions \cup {<<"unopened", "pending">>}
    /\ Fired(b) => \A p \in Position :
          /\ tray'[b][p].holds = tray[b][p].holds
          /\ tray'[b][p].duplicate = tray[b][p].duplicate

\* Who leaves a batch and its tray alone leaves every decision about it sound.
LEMMA QuietTray ==
    ASSUME NEW b \in Batch, InStep(b), batch'[b] = batch[b], tray'[b] = tray[b],
           fills'[b] = fills[b]
    PROVE  Orderly(b) /\ \A r : Sound(r, b) => Sound(r, b)'
<1>1. Orderly(b)
  BY DEF Orderly, InStep, Fired
<1>2. ASSUME NEW target PROVE Rewritten(b, target)' = Rewritten(b, target)
  <2>1. RowsOf(b)' = RowsOf(b)
    BY DEF RowsOf, RowId
  <2>2. \A r \in RowsOf(b) : RowAt(r)' = RowAt(r)
    BY DEF RowsOf, RowId, RowAt
  <2> QED BY <2>1, <2>2 DEF Rewritten
<1>3. ASSUME NEW r, Sound(r, b) PROVE Sound(r, b)'
  BY <1>2, <1>3 DEF Sound
<1> QED BY <1>1, <1>3

\* A request that is not an advance rests on the stage of the batch alone.
LEMMA SameStageStaysSound ==
    ASSUME NEW b \in Batch, NEW r, Sound(r, b), batch'[b] = batch[b],
           ~(r.op = "batch" /\ r.batch = b)
    PROVE  Sound(r, b)'
BY DEF Sound

\* An idle session has decided nothing.
LEMMA IdleIsSound == \A b \in Batch : Sound(Idle, b) /\ Sound(Idle, b)'
BY DEF Sound, Idle

-----------------------------------------------------------------------------
\* A handler that reads an orderly tray decides soundly.
LEMMA DecisionsAreSound ==
    ASSUME TypeOK, NEW x \in Session, NEW role \in Staff,
           BeginBenchWork(x, role) \/ BeginRecords(x, role)
    PROVE  \E r : Begin(x, r) /\ \A b \in Batch : InStep(b) => Sound(r, b)
<1>1. CASE BeginRecords(x, role)
  <2>1. \A s, prev, bead, c :
           LET r == [op |-> "result", sample |-> s, supersedes |-> prev, bead |-> bead, crucible |-> c]
           IN  \A b \in Batch : Sound(r, b)
    BY DEF Sound
  <2>2. \A s, run, d, S :
           LET r == [op |-> "import", sample |-> s, run |-> run, digest |-> d, moves |-> S]
           IN  \A b \in Batch : Sound(r, b)
    BY DEF Sound
  <2>3. \A row : LET r == [op |-> "reading", row |-> row]
                 IN  \A b \in Batch : Sound(r, b)
    BY DEF Sound
  <2>4. \A prev, S, f, T :
           LET r == [op |-> "certificate", supersedes |-> prev, covers |-> S, frozen |-> f,
                     moves |-> T]
           IN  \A b \in Batch : Sound(r, b)
    BY DEF Sound
  <2>5. ASSUME NEW s \in Sample, NEW prev, NEW c, NEW bead, NEW reason,
               BeginResult(x, s, prev, c, bead, role, reason)
        PROVE  \E r : Begin(x, r) /\ \A b \in Batch : Sound(r, b)
    BY <2>1, <2>5, Zenon DEF BeginResult
  <2>6. ASSUME NEW s \in Sample, NEW d \in Digest, NEW run, BeginImport(x, s, run, d, role)
        PROVE  \E r : Begin(x, r) /\ \A b \in Batch : Sound(r, b)
    BY <2>2, <2>6, Zenon DEF BeginImport
  <2>7. ASSUME NEW s \in Sample, NEW d \in Digest, NEW e \in Element,
               BeginReading(x, s, e, d, role)
        PROVE  \E r : Begin(x, r) /\ \A b \in Batch : Sound(r, b)
    BY <2>3, <2>7, Zenon DEF BeginReading
  <2>8. ASSUME NEW S, NEW client, NEW prev, NEW reason,
               BeginCertificate(x, S, client, prev, role, reason)
        PROVE  \E r : Begin(x, r) /\ \A b \in Batch : Sound(r, b)
    BY <2>4, <2>8, Zenon DEF BeginCertificate
  <2>9. \E r : Begin(x, r) /\ \A b \in Batch : Sound(r, b)
    BY <1>1, <2>5, <2>6, <2>7, <2>8 DEF BeginRecords
  <2> QED BY <2>9
<1>2. ASSUME NEW s \in Sample, NEW target, NEW reason, BeginStatus(x, s, target, role, reason)
      PROVE  \E r : Begin(x, r) /\ \A b \in Batch : InStep(b) => Sound(r, b)
  <2>1. \E r : Begin(x, r) /\ r.op = "status"
    BY <1>2 DEF BeginStatus
  <2> QED BY <2>1 DEF Sound
<1>3. ASSUME NEW a \in Batch, NEW p \in Position,
             \/ \E s \in Sample : BeginCharge(x, a, p, s, role) \/ BeginDuplicate(x, a, p, s, role)
             \/ \E m \in Material : BeginMaterial(x, a, p, m, role)
      PROVE  \E r : Begin(x, r) /\ \A b \in Batch : InStep(b) => Sound(r, b)
  <2>1. batch[a] = "charging"
    BY <1>3 DEF BeginCharge, BeginDuplicate, BeginMaterial, OpenForCharging
  <2>2. \A h, dup, S :
           LET r == [op |-> "charge", slot |-> <<a, p>>, row |-> Charged(h, dup), moves |-> S]
           IN  \A b \in Batch : Sound(r, b)
    BY <2>1 DEF Sound, Charged
  <2>3. \E h, dup, S :
           Begin(x, [op |-> "charge", slot |-> <<a, p>>, row |-> Charged(h, dup), moves |-> S])
    BY <1>3, Zenon DEF BeginCharge, BeginDuplicate, BeginMaterial
  <2> QED BY <2>2, <2>3
<1>4. ASSUME NEW a \in Batch, NEW p \in Position, BeginUncharge(x, a, p, role)
      PROVE  \E r : Begin(x, r) /\ \A b \in Batch : InStep(b) => Sound(r, b)
  <2>1. \E r : Begin(x, r) /\ batch[a] = "charging" /\ r.op = "uncharge" /\ r.row[1] = a
    BY <1>4 DEF BeginUncharge, RowId
  <2> QED BY <2>1 DEF Sound
<1>5. ASSUME NEW a \in Batch, NEW target \in BatchStatuses, BeginBatch(x, a, target, role)
      PROVE  \E r : Begin(x, r) /\ \A b \in Batch : InStep(b) => Sound(r, b)
  <2>1. PICK r : r = [op |-> "batch", batch |-> a, to |-> target, rows |-> Rewritten(a, target)]
    OBVIOUS
  <2>2. Begin(x, r)
    BY <1>5, <2>1 DEF BeginBatch
  <2>3. target = "in_fusion" => \E p \in Position : tray[a][p] # Empty
    BY <1>5 DEF BeginBatch, RowsOf
  <2>4. ASSUME NEW b \in Batch PROVE Sound(r, b)
    BY <1>5, <2>1, <2>3 DEF Sound, BeginBatch, CheckBatchTransition
  <2> QED BY <2>2, <2>4
<1>6. ASSUME NEW a \in Batch, NEW p \in Position,
             \/ BeginParting(x, a, p, role)
             \/ \E w \in Bead : BeginWeighing(x, a, p, w, role)
      PROVE  \E r : Begin(x, r) /\ \A b \in Batch : InStep(b) => Sound(r, b)
  <2>1. PICK r : /\ Begin(x, r)
                 /\ r.op \in {"parting", "weighing"} /\ r.row[1] = a
                 /\ tray[a][p].status \in {"cupelled", "parted"}
    BY <1>6 DEF BeginParting, BeginWeighing, RowId, CheckCrucibleTransition, CrucibleTransitions
  <2>2. InStep(a) => batch[a] \in {"cupelled", "completed"}
    <3>1. tray[a][p] # Empty
      BY <2>1 DEF Empty
    <3>2. batch[a] \in BatchStatuses \cup {"unopened"}
      BY DEF TypeOK
    <3> QED BY <2>1, <3>1, <3>2 DEF InStep, StagesOf, BatchStatuses
  <2> QED BY <2>1, <2>2 DEF Sound
<1> QED BY <1>1, <1>2, <1>3, <1>4, <1>5, <1>6 DEF BeginBenchWork

-----------------------------------------------------------------------------
(***************************************************************************)
(* The writes.  A charge or an uncharge finds its tray still charging.     *)
(***************************************************************************)
LEMMA ChargingIsOrderly ==
    ASSUME FurnaceTypes, InFlight, NEW b \in Batch, InStep(b), NEW x \in Session,
           Sound(inflight[x], b), CommitCharge(x) \/ CommitUncharge(x),
           ReadsBatch(inflight[x], b)
    PROVE  Orderly(b) /\ batch'[b] = batch[b]
<1>1. batch[b] = "charging" /\ batch' = batch
  BY DEF CommitCharge, CommitUncharge, Deciding, ReadsBatch, Sound
<1>2. ASSUME NEW p \in Position, tray'[b][p] # Empty PROVE tray'[b][p].status = "charged"
  <2>1. tray[b][p] # Empty => tray[b][p].status = "charged"
    BY <1>1 DEF InStep, StagesOf
  <2>2. CASE CommitCharge(x)
    <3> DEFINE r == inflight[x]
    <3>1. r.slot \in Slot /\ r.slot[1] = b /\ r.row.status = "charged"
      BY <2>2 DEF CommitCharge, Deciding, InFlight, Fits, ReadsBatch, Sound
    <3>2. SetCrucible(r.slot[1], r.slot[2], r.row)
      BY <2>2 DEF CommitCharge
    <3> HIDE DEF r
    <3>3. tray'[b][p] = tray[b][p] \/ tray'[b][p] = r.row
      BY <3>1, <3>2 DEF SetCrucible, FurnaceTypes, Slot
    <3> QED BY <1>2, <2>1, <3>1, <3>3
  <2>3. CASE CommitUncharge(x)
    <3> DEFINE r == inflight[x].row
    <3>1. r[1] \in Batch /\ r[2] \in Position
      BY <2>3 DEF CommitUncharge, Deciding, InFlight, Fits, RowNames
    <3>2. tray' = tray \/ SetCrucible(r[1], r[2], Empty)
      BY <2>3 DEF CommitUncharge
    <3> HIDE DEF r
    <3>3. CASE tray' = tray
      BY <1>2, <2>1, <3>3
    <3>4. CASE SetCrucible(r[1], r[2], Empty)
      <4>1. tray'[b][p] = IF b = r[1] /\ p = r[2] THEN Empty ELSE tray[b][p]
        BY <3>1, <3>4 DEF SetCrucible, FurnaceTypes
      <4> QED BY <1>2, <2>1, <4>1
    <3> QED BY <3>2, <3>3, <3>4
  <2> QED BY <2>2, <2>3
<1> QED BY <1>1, <1>2 DEF Orderly, InStep, Fired, StagesOf

\* An advance that read the tray as it is moves it as a whole.
LEMMA AdvanceIsOrderly ==
    ASSUME FurnaceTypes, NEW b \in Batch, batch \in [Batch -> BatchStatuses \cup {"unopened"}],
           InStep(b), NEW x \in Session, Sound(inflight[x], b), CommitBatch(x),
           ReadsBatch(inflight[x], b)
    PROVE  Orderly(b) /\ batch'[b] = inflight[x].to
<1> DEFINE r == inflight[x]
           to == r.to
           W(p) == IF RowId(b, p) \in Rewritten(b, to)
                     THEN [tray[b][p] EXCEPT !.status = BulkCrucibleStatus(to)]
                     ELSE tray[b][p]
<1>1. /\ r.batch = b /\ <<batch[b], to>> \in BatchTransitions /\ r.rows = Rewritten(b, to)
      /\ to = "in_fusion" => \E p \in Position : tray[b][p] # Empty
  BY DEF CommitBatch, Deciding, ReadsBatch, Sound
<1>2. batch'[b] = to /\ \A p \in Position : tray'[b][p] = W(p)
  BY <1>1 DEF CommitBatch, FurnaceTypes
<1> HIDE DEF r, to
<1>3. ASSUME NEW p \in Position
      PROVE  /\ tray'[b][p] = Empty <=> tray[b][p] = Empty
             /\ tray'[b][p].holds = tray[b][p].holds
             /\ tray'[b][p].duplicate = tray[b][p].duplicate
             /\ tray[b][p] # Empty => tray'[b][p].status =
                   IF BulkCrucibleStatus(to) = "none" THEN tray[b][p].status
                                                     ELSE BulkCrucibleStatus(to)
  <2>1. CASE tray[b][p] = Empty
    <3>1. RowId(b, p) \notin RowsOf(b)
      BY <2>1 DEF RowsOf, RowId
    <3> QED BY <1>2, <2>1, <3>1 DEF Rewritten
  <2>2. CASE tray[b][p] # Empty
    <3>1. tray[b][p] \in Crucible
      BY <2>2 DEF FurnaceTypes
    <3>2. RowId(b, p) \in RowsOf(b) /\ RowAt(RowId(b, p)) = tray[b][p]
      BY <2>2 DEF RowsOf, RowId, RowAt
    <3>3. RowId(b, p) \in Rewritten(b, to)
            <=> /\ BulkCrucibleStatus(to) # "none"
                /\ tray[b][p].status # BulkCrucibleStatus(to)
      BY <3>2 DEF Rewritten
    <3>4. BulkCrucibleStatus(to) # "none" => BulkCrucibleStatus(to) \in CrucibleStatuses
      BY DEF BulkCrucibleStatus, CrucibleStatuses
    <3>5. CASE RowId(b, p) \in Rewritten(b, to)
      <4>1. tray'[b][p] = [tray[b][p] EXCEPT !.status = BulkCrucibleStatus(to)]
        BY <1>2, <3>5
      <4>2. tray'[b][p] \in Crucible
        BY <3>1, <3>3, <3>4, <3>5, <4>1 DEF Crucible
      <4> QED BY <2>2, <3>1, <3>3, <3>5, <4>1, <4>2, CrucibleIsNotEmpty DEF Crucible
    <3>6. CASE RowId(b, p) \notin Rewritten(b, to)
      BY <1>2, <2>2, <3>3, <3>6
    <3> QED BY <3>5, <3>6
  <2> QED BY <2>1, <2>2
<1> HIDE DEF W
<1>4. InStep(b)'
  <2>1. ASSUME NEW p \in Position, tray'[b][p] # Empty
        PROVE  tray'[b][p].status \in StagesOf(to)
    <3>1. tray[b][p].status \in StagesOf(batch[b])
      BY <1>3, <2>1 DEF InStep
    <3> QED BY <1>1, <1>3, <2>1, <3>1
         DEF BatchTransitions, StagesOf, BulkCrucibleStatus, BeadBearing
  <2>2. to \notin {"unopened", "pending", "charging"} => \E p \in Position : tray[b][p] # Empty
    BY <1>1 DEF InStep, Fired, BatchTransitions
  <2> QED BY <1>2, <1>3, <2>1, <2>2 DEF InStep, Fired
<1> QED BY <1>1, <1>2, <1>3, <1>4 DEF Orderly, to, r

\* Parting and weighing find the tray out of the furnace.
LEMMA BenchWorkIsOrderly ==
    ASSUME FurnaceTypes, InFlight, NEW b \in Batch, InStep(b), NEW x \in Session,
           Sound(inflight[x], b), CommitBench(x), inflight[x].row[1] = b
    PROVE  Orderly(b) /\ batch'[b] = batch[b] /\ batch[b] \in {"cupelled", "completed"}
<1> DEFINE r == inflight[x].row
           c == IF inflight[x].op = "parting" THEN [RowAt(r) EXCEPT !.status = "parted"]
                  ELSE [RowAt(r) EXCEPT !.status = "weighed", !.bead = inflight[x].bead]
<1>1. /\ r[1] = b /\ r[2] \in Position
      /\ inflight[x].op # "parting" => inflight[x].bead \in Bead
      /\ batch[b] \in {"cupelled", "completed"}
  BY DEF CommitBench, InFlight, Fits, RowNames, Sound
<1>2. Present(r) /\ SetCrucible(b, r[2], c) /\ batch' = batch
  BY DEF CommitBench
<1>3. tray[b][r[2]] # Empty /\ RowAt(r) \in Crucible /\ RowAt(r) = tray[b][r[2]]
  BY <1>1, <1>2 DEF Present, RowAt, FurnaceTypes
<1>4. /\ c \in Crucible /\ c.holds = RowAt(r).holds /\ c.duplicate = RowAt(r).duplicate
      /\ c.status \in BeadBearing
  BY <1>1, <1>3 DEF Crucible, CrucibleStatuses, BeadBearing
<1> HIDE DEF r, c
<1>5. \A p \in Position : tray'[b][p] = IF p = r[2] THEN c ELSE tray[b][p]
  BY <1>1, <1>2 DEF SetCrucible, FurnaceTypes
<1>6. StagesOf(batch[b]) = BeadBearing
  BY <1>1 DEF StagesOf
<1>7. \E p \in Position : tray'[b][p] # Empty
  BY <1>1, <1>4, <1>5, CrucibleIsNotEmpty
<1>8. InStep(b)'
  BY <1>2, <1>4, <1>5, <1>6, <1>7 DEF InStep
<1> QED BY <1>1, <1>2, <1>3, <1>4, <1>5, <1>8 DEF Orderly

\* Every commit is orderly, and what the others have decided stays sound
\* unless one of them was racing it.
LEMMA CommitIsOrderly ==
    ASSUME FurnaceTypes, InFlight, batch \in [Batch -> BatchStatuses \cup {"unopened"}],
           NEW b \in Batch, InStep(b), \A y \in Session : Sound(inflight[y], b), ~Racing(b),
           NEW x \in Session, Commit(x)
    PROVE  /\ Orderly(b)
           /\ \A y \in Session \ {x} : Sound(inflight[y], b)'
<1>1. ASSUME batch'[b] = batch[b], tray'[b] = tray[b], fills'[b] = fills[b]
      PROVE  Orderly(b) /\ \A r : Sound(r, b) => Sound(r, b)'
  BY <1>1, QuietTray
<1>2. ASSUME NEW y \in Session \ {x} PROVE \E r : r = inflight[y] /\ r = inflight'[y]
  <2>1. inflight' = [inflight EXCEPT ![x] = Idle]
    BY CommitFinishes DEF Finish
  <2>2. inflight'[y] = inflight[y]
    BY <2>1 DEF InFlight
  <2> QED BY <2>2
<1>3. SUFFICES /\ Orderly(b)
               /\ \A y \in Session \ {x} : \A r : r = inflight[y] => Sound(r, b)'
  <2>1. ASSUME NEW y \in Session \ {x}, NEW r, r = inflight'[y], Sound(r, b)'
        PROVE  Sound(inflight[y], b)'
    BY <2>1 DEF Sound, Rewritten, RowsOf, RowId, RowAt
  <2> QED BY <1>2, <1>3, <2>1
<1>4. CASE ReadsBatch(inflight[x], b) /\ (CommitCharge(x) \/ CommitUncharge(x))
  <2>1. Orderly(b) /\ batch'[b] = batch[b]
    BY <1>4, ChargingIsOrderly
  <2>2. ASSUME NEW y \in Session \ {x}, NEW r, r = inflight[y] PROVE Sound(r, b)'
    <3>1. ~(r.op = "batch" /\ r.batch = b)
      BY <1>4, <2>2 DEF Racing
    <3> QED BY <2>1, <2>2, <3>1, SameStageStaysSound
  <2> QED BY <2>1, <2>2
<1>5. CASE ReadsBatch(inflight[x], b) /\ CommitBatch(x)
  <2>1. Orderly(b) /\ batch'[b] = inflight[x].to
    BY <1>5, AdvanceIsOrderly
  <2>2. /\ inflight[x].op = "batch" /\ inflight[x].batch = b
        /\ <<batch[b], inflight[x].to>> \in BatchTransitions
    BY <1>5 DEF CommitBatch, Deciding, ReadsBatch, Sound
  <2>3. ASSUME NEW y \in Session \ {x}, NEW r, r = inflight[y] PROVE Sound(r, b)'
    <3>1. ~ReadsBatch(r, b)
      BY <2>2, <2>3 DEF Racing
    <3>2. r.op \in {"parting", "weighing"} /\ r.row[1] = b => batch'[b] = "completed"
      BY <2>1, <2>2, <2>3 DEF Sound, BatchTransitions
    <3> QED BY <3>1, <3>2 DEF Sound, ReadsBatch
  <2> QED BY <2>1, <2>3
<1>6. CASE CommitBench(x) /\ inflight[x].row[1] = b
  <2>1. Orderly(b) /\ batch'[b] = batch[b] /\ batch[b] \in {"cupelled", "completed"}
    BY <1>6, BenchWorkIsOrderly
  <2>2. ASSUME NEW y \in Session \ {x}, NEW r, r = inflight[y] PROVE Sound(r, b)'
    <3>1. CASE ~(r.op = "batch" /\ r.batch = b)
      BY <2>1, <2>2, <3>1, SameStageStaysSound
    <3>2. CASE r.op = "batch" /\ r.batch = b
      <4>1. /\ <<batch[b], r.to>> \in BatchTransitions
            /\ r.rows = Rewritten(b, r.to)
        BY <2>2, <3>2 DEF Sound
      <4>2. r.to = "completed"
        BY <2>1, <4>1 DEF BatchTransitions
      <4>3. r.rows = {} /\ Rewritten(b, r.to)' = {}
        BY <4>1, <4>2 DEF Rewritten, BulkCrucibleStatus
      <4> QED BY <2>1, <3>2, <4>1, <4>2, <4>3 DEF Sound
    <3> QED BY <3>1, <3>2
  <2> QED BY <2>1, <2>2
<1>7. CASE /\ ~(ReadsBatch(inflight[x], b) /\ (CommitCharge(x) \/ CommitUncharge(x)))
           /\ ~(ReadsBatch(inflight[x], b) /\ CommitBatch(x))
           /\ ~(CommitBench(x) /\ inflight[x].row[1] = b)
  <2>1. CASE CommitStatus(x) \/ CommitResult(x) \/ CommitImport(x) \/ CommitReading(x)
             \/ CommitCertificate(x)
    BY <1>1, <2>1 DEF CommitStatus, CommitResult, WriteResult, CommitImport, CommitReading,
                      CommitCertificate, bench
  <2>2. CASE CommitCharge(x)
    <3>1. /\ inflight[x].slot \in Slot /\ inflight[x].slot[1] # b
      BY <1>7, <2>2 DEF CommitCharge, Deciding, InFlight, Fits, ReadsBatch
    <3>2. batch' = batch /\ tray'[b] = tray[b] /\ fills'[b] = fills[b]
      BY <2>2, <3>1 DEF CommitCharge, SetCrucible, FurnaceTypes, Slot
    <3> QED BY <1>1, <3>2
  <2>3. CASE CommitUncharge(x)
    <3>1. inflight[x].row[1] # b
      BY <1>7, <2>3 DEF CommitUncharge, Deciding, ReadsBatch
    <3>2. batch' = batch /\ tray'[b] = tray[b] /\ fills' = fills
      BY <2>3, <3>1 DEF CommitUncharge, SetCrucible, FurnaceTypes
    <3> QED BY <1>1, <3>2
  <2>4. CASE CommitBatch(x)
    <3>1. inflight[x].batch # b
      BY <1>7, <2>4 DEF CommitBatch, Deciding, ReadsBatch
    <3>2. batch'[b] = batch[b] /\ tray'[b] = tray[b] /\ fills' = fills
      BY <2>4, <3>1 DEF CommitBatch, FurnaceTypes
    <3> QED BY <1>1, <3>2
  <2>5. CASE CommitBench(x)
    <3>1. inflight[x].row[1] # b
      BY <1>7, <2>5
    <3>2. batch' = batch /\ tray'[b] = tray[b] /\ fills' = fills
      BY <2>5, <3>1 DEF CommitBench, SetCrucible, FurnaceTypes
    <3> QED BY <1>1, <3>2
  <2> QED BY <2>1, <2>2, <2>3, <2>4, <2>5 DEF Commit
<1> QED BY <1>4, <1>5, <1>6, <1>7

-----------------------------------------------------------------------------
\* UnracedTrayIsSettled: a tray goes out of step with its batch, or changes
\* after it was fired, only if an advance and another advance, a charge or an
\* uncharge of that batch were in flight together.
THEOREM UnracedTrayIsSettledHolds == RacesSpec => UnracedTrayIsSettled
<1>1. RacesInit => ConcurrentInit /\ Settled
  <2> SUFFICES ASSUME RacesInit PROVE Settled
    BY DEF RacesInit
  <2>1. \A x \in Session : inflight[x] = Idle
    BY DEF RacesInit, ConcurrentInit
  <2>2. \A b \in Batch : ~Racing(b)
    BY <2>1 DEF Racing, Idle
  <2>3. \A b \in Batch : InStep(b)
    BY DEF RacesInit, ConcurrentInit, Init, InStep, Fired
  <2> QED BY <2>1, <2>2, <2>3, IdleIsSound DEF Settled
<1>2. [RacesNext]_<<cvars, raced>> => [ConcurrentNext]_cvars
  BY DEF RacesNext
<1>3. ASSUME CustodyHeld, TypeOK, Settled, RacesNext
      PROVE  Settled' /\ \A b \in Batch \ raced' : Orderly(b)
  <2>1. FurnaceTypes /\ InFlight /\ batch \in [Batch -> BatchStatuses \cup {"unopened"}]
    BY <1>3 DEF CustodyHeld, TypeOK
  <2>2. \A b \in Batch : Racing(b)' => b \in raced'
    BY <1>3 DEF RacesNext
  <2>3. SUFFICES ASSUME NEW b \in Batch \ raced'
                 PROVE  Orderly(b) /\ \A y \in Session : Sound(inflight[y], b)'
    BY <2>2, <2>3 DEF Settled, Orderly
  <2>4. /\ b \in Batch /\ ~Racing(b) /\ InStep(b)
        /\ \A y \in Session : Sound(inflight[y], b)
    BY <1>3, <2>3 DEF RacesNext, Settled
  <2>5. ASSUME NEW x \in Session, NEW r, inflight' = [inflight EXCEPT ![x] = r],
               Sound(r, b)', \A y \in Session \ {x} : Sound(inflight[y], b)'
        PROVE  \A y \in Session : Sound(inflight[y], b)'
    <3>1. inflight'[x] = r
      BY <2>1, <2>5 DEF InFlight
    <3>2. Sound(inflight[x], b)'
      BY <2>5, <3>1 DEF Sound, Rewritten, RowsOf, RowId, RowAt
    <3> QED BY <2>5, <3>2
  <2>6. ASSUME batch'[b] = batch[b], tray'[b] = tray[b], fills'[b] = fills[b],
               NEW x \in Session, NEW r, inflight' = [inflight EXCEPT ![x] = r], Sound(r, b)
        PROVE  Orderly(b) /\ \A y \in Session : Sound(inflight[y], b)'
    <3>1. Orderly(b) /\ \A q : Sound(q, b) => Sound(q, b)'
      BY <2>4, <2>6, QuietTray
    <3>2. ASSUME NEW y \in Session PROVE Sound(inflight[y], b)'
      <4>1. \E q : q = inflight'[y] /\ Sound(q, b)
        BY <2>1, <2>4, <2>6 DEF InFlight
      <4>2. PICK q : q = inflight'[y] /\ Sound(q, b)'
        BY <3>1, <4>1
      <4> QED BY <4>2 DEF Sound, Rewritten, RowsOf, RowId, RowAt
    <3> QED BY <3>1, <3>2
  <2>7. ASSUME NEW x \in Session, NEW role \in Staff, BeginBenchWork(x, role) \/ BeginRecords(x, role)
        PROVE  Orderly(b) /\ \A y \in Session : Sound(inflight[y], b)'
    <3>1. PICK r : Begin(x, r) /\ Sound(r, b)
      BY <1>3, <2>4, <2>7, DecisionsAreSound
    <3>2. UNCHANGED <<batch, tray, fills>> /\ inflight' = [inflight EXCEPT ![x] = r]
      BY <3>1 DEF Begin, vars
    <3> QED BY <2>6, <3>1, <3>2
  <2>8. ASSUME NEW x \in Session, Commit(x)
        PROVE  Orderly(b) /\ \A y \in Session : Sound(inflight[y], b)'
    <3>1. Orderly(b) /\ \A y \in Session \ {x} : Sound(inflight[y], b)'
      BY <2>1, <2>4, <2>8, CommitIsOrderly
    <3>2. inflight' = [inflight EXCEPT ![x] = Idle]
      BY <2>8, CommitFinishes DEF Finish
    <3>3. PICK r : r = Idle /\ Sound(r, b)'
      BY <2>4, IdleIsSound
    <3> QED BY <2>5, <3>1, <3>2, <3>3
  <2>9. ASSUME NEW x \in Session, Abort(x)
        PROVE  Orderly(b) /\ \A y \in Session : Sound(inflight[y], b)'
    <3>1. UNCHANGED <<batch, tray, fills>> /\ inflight' = [inflight EXCEPT ![x] = Idle]
      BY <2>9 DEF Abort, Finish, vars
    <3> QED BY <2>4, <2>6, <3>1, IdleIsSound
  <2>10. ASSUME NEW x \in Session, AtOnce(x)
         PROVE  Orderly(b) /\ \A y \in Session : Sound(inflight[y], b)'
    <3>1. UNCHANGED <<tray, fills, inflight>>
      BY <2>10 DEF AtOnce, OpenBatch, RetireMaterial, records
    <3>2. CASE batch'[b] = batch[b]
      <4>1. inflight' = [inflight EXCEPT ![x] = inflight[x]]
        BY <2>1, <3>1 DEF InFlight
      <4>2. PICK r : r = inflight[x]
        OBVIOUS
      <4> QED BY <2>4, <2>6, <3>1, <3>2, <4>1, <4>2
    <3>3. CASE batch'[b] # batch[b]
      <4>1. batch[b] = "unopened" /\ batch'[b] = "pending"
        BY <2>1, <2>10, <3>3 DEF AtOnce, OpenBatch, RetireMaterial
      <4>2. Orderly(b)
        BY <2>4, <3>1, <4>1 DEF Orderly, InStep, Fired, StagesOf
      <4>3. ASSUME NEW y \in Session PROVE Sound(inflight[y], b)'
        <5>1. /\ ~ReadsBatch(inflight[y], b)
              /\ ~(inflight[y].op \in {"parting", "weighing"} /\ inflight[y].row[1] = b)
          BY <2>4, <4>1 DEF Sound, ReadsBatch, BatchTransitions
        <5> QED BY <3>1, <5>1 DEF Sound, ReadsBatch
      <4> QED BY <4>2, <4>3
    <3> QED BY <3>2, <3>3
  <2> QED BY <1>3, <2>7, <2>8, <2>9, <2>10 DEF RacesNext, ConcurrentNext
<1>4. Settled /\ UNCHANGED <<cvars, raced>> => Settled'
  <2> SUFFICES ASSUME Settled, UNCHANGED <<cvars, raced>> PROVE Settled'
    OBVIOUS
  <2> QED BY DEF Settled, cvars, vars, Racing, ReadsBatch, InStep, Fired, Sound, Rewritten,
                 RowsOf, RowId, RowAt
<1>5. CustodyHeld /\ TypeOK /\ Settled /\ [RacesNext]_<<cvars, raced>> => Settled'
  BY <1>3, <1>4
<1>6. CustodyHeld /\ TypeOK /\ Settled /\ [RacesNext]_<<cvars, raced>>
        => [\A b \in Batch \ raced' : Orderly(b)]_<<cvars, raced>>
  BY <1>3
<1>7. ConcurrentInit /\ [][ConcurrentNext]_cvars => []CustodyHeld /\ []TypeOK
  BY CustodyHolds, TypesHoldConcurrently, PTL DEF ConcurrentSpec
<1>8. RacesInit /\ [][RacesNext]_<<cvars, raced>>
        => [][\A b \in Batch \ raced' : Orderly(b)]_<<cvars, raced>>
  BY <1>1, <1>2, <1>5, <1>6, <1>7, PTL
<1> QED BY <1>8 DEF RacesSpec, UnracedTrayIsSettled, Orderly

-----------------------------------------------------------------------------
(***************************************************************************)
(* One session: what a request in flight has decided is still legal, since *)
(* nobody else writes.  Legal repeats the checks of the first halves about *)
(* the tables of the moment.                                               *)
(***************************************************************************)
LegalMove(r) == r.op = "status" =>
    \E role \in Staff, s \in Sample, target \in StatusUpdateTargets, reason \in BOOLEAN :
        /\ CheckTransition(status[s], target, SampleType[s], role, reason)
        /\ r.moves = {s} /\ r.to = target

LegalCharge(r) == r.op = "charge" =>
    \E role \in Staff, b \in Batch, p \in Position :
        /\ OpenForCharging(b, p)
        /\ r.slot = <<b, p>>
        /\ \/ \E s \in Sample :
                 /\ CheckTransition(status[s], "in_assay", SampleType[s], role, FALSE)
                 /\ r.row = Charged(s, FALSE) /\ r.moves = {s}
           \/ \E s \in Sample :
                 /\ role \in BenchRoles /\ status[s] = "in_assay"
                 /\ r.row = Charged(s, TRUE) /\ r.moves = {}
           \/ \E m \in Material :
                 /\ role \in BenchRoles /\ m \notin retired
                 /\ r.row = Charged(m, FALSE) /\ r.moves = {}

LegalUncharge(r) == r.op = "uncharge" =>
    \E role \in Staff, b \in Batch, p \in Position :
        /\ role \in BenchRoles
        /\ batch[b] = "charging"
        /\ tray[b][p].status = "charged"
        /\ r.row = RowId(b, p) /\ r.moves = Reverted(tray[b][p])

LegalAdvance(r) == r.op = "batch" =>
    \E role \in Staff, b \in Batch, target \in BatchStatuses :
        /\ CheckBatchTransition(batch[b], target, role)
        /\ target = "in_fusion" => RowsOf(b) # {}
        /\ r.batch = b /\ r.to = target /\ r.rows = Rewritten(b, target)

LegalBench(r) == r.op \in {"parting", "weighing"} =>
    \E role \in Staff, b \in Batch, p \in Position :
        /\ role \in BenchRoles
        /\ CheckCrucibleTransition(tray[b][p].status, IF r.op = "parting" THEN "parted" ELSE "weighed")
        /\ r.row = RowId(b, p)
        /\ r.op = "weighing" => r.bead \in Bead

LegalResult(r) == r.op = "result" =>
    \E role \in Staff, s \in Sample, prev \in 0..Len(results), c \in Slot \cup {Nothing},
       reason \in BOOLEAN :
        /\ Admit(s, prev, role)
        /\ CheckProvenance(s, c)
        /\ CheckSupersession(s, prev, reason)
        /\ r.sample = s /\ r.supersedes = prev
        /\ r.bead = Nothing \/ \E w \in Bead : r.bead = ResolvedBead(c, w)
        /\ r.crucible = (IF c = Nothing THEN Nothing ELSE RowId(c[1], c[2]))

LegalImport(r) == r.op = "import" =>
    \E role \in Staff, s \in Sample, d \in Digest, run \in Runs :
        /\ MayImport(s, role)
        /\ r.sample = s /\ r.run = run /\ r.digest = d
        /\ r.moves = IF status[s] = "assayed" THEN {} ELSE {s}

LegalReading(r) == r.op = "reading" =>
    \E role \in Staff, s \in Sample, d \in Digest, e \in Element :
        /\ role \in MayEnterResults
        /\ \E i \in CurrentOf(s, e, d) :
              r.row = [sample |-> s, element |-> e, digest |-> d, supersedes |-> i]

LegalCertificate(r) == r.op = "certificate" =>
    \E role \in Staff, S \in SUBSET Sample, client \in {ClientOf[s] : s \in Sample},
       prev \in 0..Len(certificates), reason \in BOOLEAN :
        /\ role \in MaySignCertificate
        /\ ResolveSamples(S, client)
        /\ ResolveSupersession(prev, client, reason)
        /\ r.supersedes = prev /\ r.covers = S
        /\ r.frozen = [s \in Sample |-> IF s \in S THEN CurrentResult(s) ELSE 0]
        /\ r.moves = {s \in S : status[s] = "assayed"}

Legal(r) ==
    /\ LegalMove(r) /\ LegalCharge(r) /\ LegalUncharge(r) /\ LegalAdvance(r) /\ LegalBench(r)
    /\ LegalResult(r) /\ LegalImport(r) /\ LegalReading(r) /\ LegalCertificate(r)

Newest(H) == IF H = {} THEN 0 ELSE CHOOSE i \in H : \A j \in H : j <= i

\* What was legal stays so while the tables stand still.
LEMMA CurrentStays ==
    ASSUME UNCHANGED results
    PROVE  \A s : CurrentResult(s)' = CurrentResult(s)
<1>1. \A s : CurrentResult(s) = Newest(Heads(results, s))
  BY DEF CurrentResult, Newest
<1>2. \A s : CurrentResult(s)' = Newest(Heads(results', s))
  BY DEF CurrentResult, Newest
<1> QED BY <1>1, <1>2

LEMMA LegalStays ==
    ASSUME UNCHANGED <<vars, fills>>, NEW r, Legal(r)
    PROVE  Legal(r)'
<1> USE DEF vars
<1>1. LegalMove(r)'
  BY DEF Legal, LegalMove
<1>2. LegalCharge(r)'
  BY DEF Legal, LegalCharge, OpenForCharging
<1>3. LegalUncharge(r)'
  BY DEF Legal, LegalUncharge, RowId, Reverted
<1>4. LegalAdvance(r)'
  <2>1. \A b : RowsOf(b)' = RowsOf(b)
    BY DEF RowsOf, RowId
  <2>2. \A q : RowAt(q)' = RowAt(q)
    BY DEF RowAt
  <2>3. \A b, target : Rewritten(b, target)' = Rewritten(b, target)
    BY <2>1, <2>2 DEF Rewritten
  <2> QED BY <2>1, <2>3 DEF Legal, LegalAdvance
<1>5. LegalBench(r)'
  BY DEF Legal, LegalBench, RowId
<1>6. LegalResult(r)'
  <2>1. \A s, prev, role : Admit(s, prev, role)' <=> Admit(s, prev, role)
    BY CurrentStays DEF Admit
  <2>2. \A s, c : CheckProvenance(s, c)' <=> CheckProvenance(s, c)
    BY DEF CheckProvenance, Row
  <2>3. \A s, prev, reason :
           CheckSupersession(s, prev, reason)' <=> CheckSupersession(s, prev, reason)
    BY CurrentStays DEF CheckSupersession
  <2>4. \A c, w : ResolvedBead(c, w)' = ResolvedBead(c, w)
    BY DEF ResolvedBead, Row
  <2>5. \A b, p : RowId(b, p)' = RowId(b, p)
    BY DEF RowId
  <2> QED BY <2>1, <2>2, <2>3, <2>4, <2>5 DEF Legal, LegalResult
<1>7. LegalImport(r)'
  BY DEF Legal, LegalImport, MayImport
<1>8. LegalReading(r)'
  BY DEF Legal, LegalReading, CurrentOf, CurrentReadings, Heads, Superseded
<1>9. LegalCertificate(r)'
  <2>1. \A S, client : ResolveSamples(S, client)' <=> ResolveSamples(S, client)
    BY CurrentStays DEF ResolveSamples
  <2>2. \A prev, client, reason :
           ResolveSupersession(prev, client, reason)' <=> ResolveSupersession(prev, client, reason)
    BY DEF ResolveSupersession, Superseded, Covers
  <2>3. \A S : [s \in Sample |-> IF s \in S THEN CurrentResult(s) ELSE 0]'
                  = [s \in Sample |-> IF s \in S THEN CurrentResult(s) ELSE 0]
    BY CurrentStays
  <2>4. \A S : {s \in S : status[s] = "assayed"}' = {s \in S : status[s] = "assayed"}
    OBVIOUS
  <2> SUFFICES ASSUME r.op = "certificate" PROVE LegalCertificate(r)'
    BY DEF LegalCertificate
  <2>5. PICK role \in Staff, S \in SUBSET Sample, client \in {ClientOf[s] : s \in Sample},
             prev \in 0..Len(certificates), reason \in BOOLEAN :
                /\ role \in MaySignCertificate
                /\ ResolveSamples(S, client)
                /\ ResolveSupersession(prev, client, reason)
                /\ r.supersedes = prev /\ r.covers = S
                /\ r.frozen = [s \in Sample |-> IF s \in S THEN CurrentResult(s) ELSE 0]
                /\ r.moves = {s \in S : status[s] = "assayed"}
    BY DEF Legal, LegalCertificate
  <2>6. /\ ResolveSamples(S, client)' /\ ResolveSupersession(prev, client, reason)'
        /\ r.frozen = [s \in Sample |-> IF s \in S THEN CurrentResult(s) ELSE 0]'
        /\ r.moves = {s \in S : status[s] = "assayed"}'
        /\ prev \in 0..Len(certificates')
    BY <2>1, <2>2, <2>3, <2>4, <2>5
  <2> QED BY <2>5, <2>6 DEF LegalCertificate
<1> QED BY <1>1, <1>2, <1>3, <1>4, <1>5, <1>6, <1>7, <1>8, <1>9 DEF Legal

\* Reading the request from its session or holding it is the same.
LEMMA LegalNext ==
    ASSUME NEW y \in Session, NEW r, Legal(r)', inflight'[y] = r
    PROVE  Legal(inflight[y])'
<1>1. LegalMove(inflight[y])' /\ LegalUncharge(inflight[y])'
  BY DEF Legal, LegalMove, LegalUncharge
<1>2. LegalCharge(inflight[y])'
  BY Zenon DEF Legal, LegalCharge
<1>3. LegalAdvance(inflight[y])' /\ LegalBench(inflight[y])' /\ LegalImport(inflight[y])'
  BY DEF Legal, LegalAdvance, LegalBench, LegalImport
<1>4. LegalResult(inflight[y])'
  BY DEF Legal, LegalResult
<1>5. LegalReading(inflight[y])'
  BY DEF Legal, LegalReading
<1>6. LegalCertificate(inflight[y])'
  <2>1. LegalCertificate(r)'
    BY DEF Legal
  <2>2. LegalCertificate(inflight[y])' <=> LegalCertificate(r)'
    BY DEF LegalCertificate
  <2> QED BY <2>1, <2>2
<1> QED BY <1>1, <1>2, <1>3, <1>4, <1>5, <1>6 DEF Legal

\* Who has decided nothing has decided nothing illegal.
LEMMA IdleIsLegal == \A r : r.op = "idle" => Legal(r)
BY DEF Legal, LegalMove, LegalCharge, LegalUncharge, LegalAdvance, LegalBench, LegalResult,
       LegalImport, LegalReading, LegalCertificate

LEMMA IdleIsLegalNext ==
    ASSUME NEW y \in Session, inflight'[y].op = "idle"
    PROVE  Legal(inflight[y])'
BY DEF Legal, LegalMove, LegalCharge, LegalUncharge, LegalAdvance, LegalBench, LegalResult,
       LegalImport, LegalReading, LegalCertificate

-----------------------------------------------------------------------------
\* A handler's own checks make its request legal.
LEMMA BenchBeginsLegal ==
    ASSUME NEW x \in Session, NEW role \in Staff, BeginBenchWork(x, role)
    PROVE  \E r : Begin(x, r) /\ Legal(r)
<1> USE DEF Legal, LegalMove, LegalCharge, LegalUncharge, LegalAdvance, LegalBench, LegalResult,
            LegalImport, LegalReading, LegalCertificate
<1>1. ASSUME NEW s \in Sample, NEW target \in StatusUpdateTargets, NEW reason \in BOOLEAN,
             BeginStatus(x, s, target, role, reason)
      PROVE  \E r : Begin(x, r) /\ Legal(r)
  <2>1. PICK r : r = [op |-> "status", moves |-> {s}, to |-> target]
    OBVIOUS
  <2>2. Legal(r)
    BY <1>1, <2>1 DEF BeginStatus
  <2> HIDE DEF Legal
  <2> QED BY <1>1, <2>1, <2>2 DEF BeginStatus
<1>2. ASSUME NEW b \in Batch, NEW p \in Position, NEW s \in Sample, BeginCharge(x, b, p, s, role)
      PROVE  \E r : Begin(x, r) /\ Legal(r)
  <2>1. PICK r : r = [op |-> "charge", slot |-> <<b, p>>, row |-> Charged(s, FALSE), moves |-> {s}]
    OBVIOUS
  <2>2. Legal(r)
    BY <1>2, <2>1 DEF BeginCharge
  <2> HIDE DEF Legal
  <2> QED BY <1>2, <2>1, <2>2 DEF BeginCharge
<1>3. ASSUME NEW b \in Batch, NEW p \in Position, NEW s \in Sample, BeginDuplicate(x, b, p, s, role)
      PROVE  \E r : Begin(x, r) /\ Legal(r)
  <2>1. PICK r : r = [op |-> "charge", slot |-> <<b, p>>, row |-> Charged(s, TRUE), moves |-> {}]
    OBVIOUS
  <2>2. Legal(r)
    BY <1>3, <2>1 DEF BeginDuplicate
  <2> HIDE DEF Legal
  <2> QED BY <1>3, <2>1, <2>2 DEF BeginDuplicate
<1>4. ASSUME NEW b \in Batch, NEW p \in Position, NEW m \in Material, BeginMaterial(x, b, p, m, role)
      PROVE  \E r : Begin(x, r) /\ Legal(r)
  <2>1. PICK r : r = [op |-> "charge", slot |-> <<b, p>>, row |-> Charged(m, FALSE), moves |-> {}]
    OBVIOUS
  <2>2. Legal(r)
    BY <1>4, <2>1 DEF BeginMaterial
  <2> HIDE DEF Legal
  <2> QED BY <1>4, <2>1, <2>2 DEF BeginMaterial
<1>5. ASSUME NEW b \in Batch, NEW p \in Position, BeginUncharge(x, b, p, role)
      PROVE  \E r : Begin(x, r) /\ Legal(r)
  <2>1. PICK r : r = [op |-> "uncharge", row |-> RowId(b, p), moves |-> Reverted(tray[b][p])]
    OBVIOUS
  <2>2. Legal(r)
    BY <1>5, <2>1 DEF BeginUncharge
  <2> HIDE DEF Legal
  <2> QED BY <1>5, <2>1, <2>2 DEF BeginUncharge
<1>6. ASSUME NEW b \in Batch, NEW target \in BatchStatuses, BeginBatch(x, b, target, role)
      PROVE  \E r : Begin(x, r) /\ Legal(r)
  <2>1. PICK r : r = [op |-> "batch", batch |-> b, to |-> target, rows |-> Rewritten(b, target)]
    OBVIOUS
  <2>2. Legal(r)
    BY <1>6, <2>1 DEF BeginBatch
  <2> HIDE DEF Legal
  <2> QED BY <1>6, <2>1, <2>2 DEF BeginBatch
<1>7. ASSUME NEW b \in Batch, NEW p \in Position, BeginParting(x, b, p, role)
      PROVE  \E r : Begin(x, r) /\ Legal(r)
  <2>1. PICK r : r = [op |-> "parting", row |-> RowId(b, p)]
    OBVIOUS
  <2>2. Legal(r)
    BY <1>7, <2>1 DEF BeginParting
  <2> HIDE DEF Legal
  <2> QED BY <1>7, <2>1, <2>2 DEF BeginParting
<1>8. ASSUME NEW b \in Batch, NEW p \in Position, NEW w \in Bead, BeginWeighing(x, b, p, w, role)
      PROVE  \E r : Begin(x, r) /\ Legal(r)
  <2>1. PICK r : r = [op |-> "weighing", row |-> RowId(b, p), bead |-> w]
    OBVIOUS
  <2>2. Legal(r)
    BY <1>8, <2>1 DEF BeginWeighing
  <2> HIDE DEF Legal
  <2> QED BY <1>8, <2>1, <2>2 DEF BeginWeighing
<1> HIDE DEF Legal
<1> QED BY <1>1, <1>2, <1>3, <1>4, <1>5, <1>6, <1>7, <1>8 DEF BeginBenchWork

LEMMA RecordBeginsLegal ==
    ASSUME NEW x \in Session, NEW role \in Staff, BeginRecords(x, role)
    PROVE  \E r : Begin(x, r) /\ Legal(r)
<1> USE DEF Legal, LegalMove, LegalCharge, LegalUncharge, LegalAdvance, LegalBench, LegalResult,
            LegalImport, LegalReading, LegalCertificate
<1>1. ASSUME NEW s \in Sample, NEW prev \in 0..Len(results), NEW c \in Slot \cup {Nothing},
             NEW bead \in {Nothing} \cup {ResolvedBead(c, w) : w \in Bead}, NEW reason \in BOOLEAN,
             BeginResult(x, s, prev, c, bead, role, reason)
      PROVE  \E r : Begin(x, r) /\ Legal(r)
  <2>1. PICK r : r = [op |-> "result", sample |-> s, supersedes |-> prev, bead |-> bead,
                      crucible |-> IF c = Nothing THEN Nothing ELSE RowId(c[1], c[2])]
    OBVIOUS
  <2>2. Legal(r)
    BY <1>1, <2>1 DEF BeginResult
  <2> HIDE DEF Legal
  <2> QED BY <1>1, <2>1, <2>2 DEF BeginResult
<1>2. ASSUME NEW s \in Sample, NEW d \in Digest, NEW run \in Runs, BeginImport(x, s, run, d, role)
      PROVE  \E r : Begin(x, r) /\ Legal(r)
  <2>1. PICK r : r = [op |-> "import", sample |-> s, run |-> run, digest |-> d,
                      moves |-> IF status[s] = "assayed" THEN {} ELSE {s}]
    OBVIOUS
  <2>2. Legal(r)
    BY <1>2, <2>1 DEF BeginImport
  <2> HIDE DEF Legal
  <2> QED BY <1>2, <2>1, <2>2 DEF BeginImport
<1>3. ASSUME NEW s \in Sample, NEW d \in Digest, NEW e \in Element, BeginReading(x, s, e, d, role)
      PROVE  \E r : Begin(x, r) /\ Legal(r)
  <2>1. PICK i \in CurrentOf(s, e, d) :
           Begin(x, [op |-> "reading", row |-> [sample |-> s, element |-> e,
                                                digest |-> d, supersedes |-> i]])
    BY <1>3 DEF BeginReading
  <2>2. PICK r : r = [op |-> "reading", row |-> [sample |-> s, element |-> e,
                                                digest |-> d, supersedes |-> i]]
    OBVIOUS
  <2>3. Legal(r)
    BY <1>3, <2>1, <2>2 DEF BeginReading
  <2> HIDE DEF Legal
  <2> QED BY <2>1, <2>2, <2>3
<1>4. ASSUME NEW S \in SUBSET Sample, NEW client \in {ClientOf[s] : s \in Sample},
             NEW prev \in 0..Len(certificates), NEW reason \in BOOLEAN,
             BeginCertificate(x, S, client, prev, role, reason)
      PROVE  \E r : Begin(x, r) /\ Legal(r)
  <2>1. PICK r : r = [op |-> "certificate", supersedes |-> prev, covers |-> S,
                      frozen |-> [s \in Sample |-> IF s \in S THEN CurrentResult(s) ELSE 0],
                      moves |-> {s \in S : status[s] = "assayed"}]
    OBVIOUS
  <2>2. Legal(r)
    BY <1>4, <2>1 DEF BeginCertificate
  <2> HIDE DEF Legal
  <2> QED BY <1>4, <2>1, <2>2 DEF BeginCertificate
<1> HIDE DEF Legal
<1> QED BY <1>1, <1>2, <1>3, <1>4 DEF BeginRecords

-----------------------------------------------------------------------------
(***************************************************************************)
(* The write of a legal request is the step of its handler.                *)
(***************************************************************************)
LEMMA MoveIsOneStep ==
    ASSUME NEW x \in Session, Legal(inflight[x]), CommitStatus(x)
    PROVE  Next
<1>1. PICK role \in Staff, s \in Sample, target \in StatusUpdateTargets, reason \in BOOLEAN :
         /\ CheckTransition(status[s], target, SampleType[s], role, reason)
         /\ inflight[x].moves = {s} /\ inflight[x].to = target
  BY DEF CommitStatus, Deciding, Legal, LegalMove
<1>2. AdvanceSample(s, target, role, reason)
  BY <1>1 DEF CommitStatus, AdvanceSample
<1> QED BY <1>2 DEF Next, SampleStep

LEMMA ChargeIsOneStep ==
    ASSUME TypeOK, NEW x \in Session, Legal(inflight[x]), CommitCharge(x)
    PROVE  Next
<1> DEFINE r == inflight[x]
<1>1. PICK role \in Staff, b \in Batch, p \in Position :
         /\ OpenForCharging(b, p)
         /\ r.slot = <<b, p>>
         /\ \/ \E s \in Sample :
                  /\ CheckTransition(status[s], "in_assay", SampleType[s], role, FALSE)
                  /\ r.row = Charged(s, FALSE) /\ r.moves = {s}
            \/ \E s \in Sample :
                  /\ role \in BenchRoles /\ status[s] = "in_assay"
                  /\ r.row = Charged(s, TRUE) /\ r.moves = {}
            \/ \E m \in Material :
                  /\ role \in BenchRoles /\ m \notin retired
                  /\ r.row = Charged(m, FALSE) /\ r.moves = {}
  BY DEF CommitCharge, Deciding, Legal, LegalCharge
<1>2. /\ CrucibleIndexes(b, p, r.row) /\ SetCrucible(b, p, r.row)
      /\ SetStatus(r.moves, "in_assay")
      /\ UNCHANGED <<batch, retired, records>>
  BY <1>1 DEF CommitCharge
<1>3. r.moves = {} => status' = status
  BY <1>2 DEF SetStatus, TypeOK
<1> HIDE DEF r
<1>4. ASSUME NEW s \in Sample, r.row = Charged(s, FALSE), r.moves = {s},
             CheckTransition(status[s], "in_assay", SampleType[s], role, FALSE)
      PROVE  ChargeSample(b, p, s, role)
  <2>1. ~PrimaryIn(b, s)
    BY <1>2, <1>4 DEF CrucibleIndexes, Charged
  <2> QED BY <1>1, <1>2, <1>4, <2>1 DEF ChargeSample
<1>5. ASSUME NEW s \in Sample, r.row = Charged(s, TRUE), r.moves = {}, role \in BenchRoles,
             status[s] = "in_assay"
      PROVE  ChargeDuplicate(b, p, s, role)
  BY <1>1, <1>2, <1>3, <1>5 DEF ChargeDuplicate
<1>6. ASSUME NEW m \in Material, r.row = Charged(m, FALSE), r.moves = {}, role \in BenchRoles,
             m \notin retired
      PROVE  ChargeMaterial(b, p, m, role)
  BY <1>1, <1>2, <1>3, <1>6 DEF ChargeMaterial
<1>7. ChargeStep(role)
  BY <1>1, <1>4, <1>5, <1>6 DEF ChargeStep
<1> QED BY <1>7 DEF Next

LEMMA UnchargeIsOneStep ==
    ASSUME TypeOK, NEW x \in Session, Legal(inflight[x]), CommitUncharge(x)
    PROVE  Next
<1> DEFINE r == inflight[x]
<1>1. PICK role \in Staff, b \in Batch, p \in Position :
         /\ role \in BenchRoles
         /\ batch[b] = "charging"
         /\ tray[b][p].status = "charged"
         /\ r.row = RowId(b, p) /\ r.moves = Reverted(tray[b][p])
  BY DEF CommitUncharge, Deciding, Legal, LegalUncharge
<1>2. r.row[1] = b /\ r.row[2] = p /\ Present(r.row)
  BY <1>1 DEF RowId, Present, RowAt, Empty
<1>3. /\ SetCrucible(b, p, Empty) /\ SetStatus(Reverted(tray[b][p]), "ready_for_assay")
      /\ UNCHANGED <<batch, retired, records>>
  BY <1>1, <1>2 DEF CommitUncharge
<1>4. Uncharge(b, p, role)
  BY <1>1, <1>3 DEF Uncharge
<1> QED BY <1>4 DEF Next, ChargeStep

LEMMA AdvanceIsOneStep ==
    ASSUME TypeOK, NEW x \in Session, Legal(inflight[x]), CommitBatch(x)
    PROVE  Next
<1> DEFINE r == inflight[x]
<1>1. PICK role \in Staff, b \in Batch, target \in BatchStatuses :
         /\ CheckBatchTransition(batch[b], target, role)
         /\ target = "in_fusion" => RowsOf(b) # {}
         /\ r.batch = b /\ r.to = target /\ r.rows = Rewritten(b, target)
  BY DEF CommitBatch, Deciding, Legal, LegalAdvance
<1>2. /\ batch' = [batch EXCEPT ![b] = target]
      /\ tray' = [tray EXCEPT ![b] = [p \in Position |->
                     IF RowId(b, p) \in Rewritten(b, target)
                       THEN [tray[b][p] EXCEPT !.status = BulkCrucibleStatus(target)]
                       ELSE tray[b][p]]]
      /\ UNCHANGED <<status, retired, records>>
  BY <1>1 DEF CommitBatch
<1>3. \A p \in Position : RowId(b, p) \in RowsOf(b) <=> tray[b][p] # Empty
  BY DEF RowsOf, RowId
<1>4. ASSUME NEW p \in Position
      PROVE  (IF RowId(b, p) \in Rewritten(b, target)
                THEN [tray[b][p] EXCEPT !.status = BulkCrucibleStatus(target)]
                ELSE tray[b][p])
             = (IF BulkCrucibleStatus(target) = "none" \/ tray[b][p] = Empty
                  THEN tray[b][p]
                  ELSE [tray[b][p] EXCEPT !.status = BulkCrucibleStatus(target)])
  <2>1. CASE BulkCrucibleStatus(target) = "none" \/ tray[b][p] = Empty
    BY <1>3, <2>1 DEF Rewritten
  <2>2. CASE ~(BulkCrucibleStatus(target) = "none" \/ tray[b][p] = Empty)
    <3>1. tray[b][p] \in Crucible
      BY <2>2 DEF TypeOK
    <3>2. RowId(b, p) \in Rewritten(b, target) <=> tray[b][p].status # BulkCrucibleStatus(target)
      BY <1>3, <2>2 DEF Rewritten, RowAt, RowId
    <3>3. tray[b][p].status = BulkCrucibleStatus(target)
            => [tray[b][p] EXCEPT !.status = BulkCrucibleStatus(target)] = tray[b][p]
      BY <3>1 DEF Crucible
    <3> QED BY <2>2, <3>2, <3>3
  <2> QED BY <2>1, <2>2
<1>5. tray' = [tray EXCEPT ![b] = AfterBulk(b, target)]
  BY <1>2, <1>4 DEF AfterBulk
<1>6. target = "in_fusion" => \E p \in Position : tray[b][p] # Empty
  BY <1>1 DEF RowsOf
<1>7. AdvanceBatch(b, target, role)
  BY <1>1, <1>2, <1>5, <1>6 DEF AdvanceBatch
<1> QED BY <1>7 DEF Next, BatchStep

LEMMA BenchWorkIsOneStep ==
    ASSUME NEW x \in Session, Legal(inflight[x]), CommitBench(x)
    PROVE  Next
<1> DEFINE r == inflight[x]
<1>1. PICK role \in Staff, b \in Batch, p \in Position :
         /\ role \in BenchRoles
         /\ CheckCrucibleTransition(tray[b][p].status, IF r.op = "parting" THEN "parted" ELSE "weighed")
         /\ r.row = RowId(b, p)
         /\ r.op = "weighing" => r.bead \in Bead
  BY DEF CommitBench, Legal, LegalBench
<1>2. r.row[1] = b /\ r.row[2] = p /\ RowAt(r.row) = tray[b][p]
  BY <1>1 DEF RowId, RowAt
<1>3. CASE r.op = "parting"
  <2>1. RecordParting(b, p, role)
    BY <1>1, <1>2, <1>3 DEF CommitBench, RecordParting
  <2> QED BY <2>1 DEF Next, BatchStep
<1>4. CASE r.op = "weighing"
  <2>1. r.op # "parting"
    BY <1>4
  <2>2. RecordWeighing(b, p, r.bead, role)
    BY <1>1, <1>2, <1>4, <2>1 DEF CommitBench, RecordWeighing
  <2>3. BatchStep(role)
    BY <1>1, <1>4, <2>2 DEF BatchStep
  <2> QED BY <2>3 DEF Next
<1> QED BY <1>3, <1>4 DEF CommitBench

LEMMA ResultIsOneStep ==
    ASSUME FurnaceTypes, NEW x \in Session, Legal(inflight[x]), CommitResult(x)
    PROVE  Next
<1> DEFINE r == inflight[x]
<1>1. PICK role \in Staff, s \in Sample, prev \in 0..Len(results), c \in Slot \cup {Nothing},
           reason \in BOOLEAN :
         /\ Admit(s, prev, role)
         /\ CheckProvenance(s, c)
         /\ CheckSupersession(s, prev, reason)
         /\ r.sample = s /\ r.supersedes = prev
         /\ r.bead = Nothing \/ \E w \in Bead : r.bead = ResolvedBead(c, w)
         /\ r.crucible = (IF c = Nothing THEN Nothing ELSE RowId(c[1], c[2]))
  BY DEF CommitResult, Deciding, Legal, LegalResult
<1>2. (IF r.crucible = Nothing THEN Nothing ELSE <<r.crucible[1], r.crucible[2]>>) = c
  <2>1. CASE c = Nothing
    BY <1>1, <2>1
  <2>2. CASE c # Nothing
    <3>1. PICK b \in Batch, p \in Position : c = <<b, p>>
      BY <2>2 DEF Slot
    <3>2. r.crucible = <<b, p, fills[b][p]>> /\ r.crucible \in RowNames
      BY <1>1, <2>2, <3>1 DEF RowId, RowNames, FurnaceTypes
    <3>3. r.crucible # Nothing
      BY <3>2, SessionAssumption DEF RowNames
    <3> QED BY <3>1, <3>2, <3>3
  <2> QED BY <2>1, <2>2
<1>3. WriteResult(s, prev, c, r.bead) /\ Len(results) < MaxResults
  BY <1>1, <1>2 DEF CommitResult
<1>4. CASE r.bead = Nothing
  <2>1. EnterSolutionFinish(s, prev, c, role, reason)
    BY <1>1, <1>3, <1>4 DEF EnterSolutionFinish
  <2> QED BY <2>1 DEF Next, ResultStep
<1>5. ASSUME NEW w \in Bead, r.bead = ResolvedBead(c, w) PROVE Next
  <2>1. EnterGravimetric(s, prev, c, w, role, reason)
    BY <1>1, <1>3, <1>5 DEF EnterGravimetric
  <2> QED BY <2>1 DEF Next, ResultStep
<1> QED BY <1>1, <1>4, <1>5

LEMMA ImportIsOneStep ==
    ASSUME TypeOK, NEW x \in Session, Legal(inflight[x]), CommitImport(x)
    PROVE  Next
<1> DEFINE r == inflight[x]
<1>1. PICK role \in Staff, s \in Sample, d \in Digest, run \in Runs :
         /\ MayImport(s, role)
         /\ r.sample = s /\ r.run = run /\ r.digest = d
         /\ r.moves = IF status[s] = "assayed" THEN {} ELSE {s}
  BY DEF CommitImport, Deciding, Legal, LegalImport
<1>2. SetStatus({s}, "assayed")
  BY <1>1 DEF CommitImport, SetStatus
<1>3. ImportReadings(s, run, d, role)
  BY <1>1, <1>2 DEF CommitImport, ImportReadings
<1> QED BY <1>3 DEF Next, ReadingStep

LEMMA ReadingIsOneStep ==
    ASSUME NEW x \in Session, Legal(inflight[x]), CommitReading(x)
    PROVE  Next
<1>1. PICK role \in Staff, s \in Sample, d \in Digest, e \in Element :
         /\ role \in MayEnterResults
         /\ \E i \in CurrentOf(s, e, d) :
               inflight[x].row = [sample |-> s, element |-> e, digest |-> d, supersedes |-> i]
  BY DEF CommitReading, Deciding, Legal, LegalReading
<1>2. SupersedeReading(s, e, d, role)
  BY <1>1 DEF CommitReading, SupersedeReading
<1> QED BY <1>2 DEF Next, ReadingStep

LEMMA CertificateIsOneStep ==
    ASSUME NEW x \in Session, Legal(inflight[x]), CommitCertificate(x)
    PROVE  Next
<1>1. PICK role \in Staff, S \in SUBSET Sample, client \in {ClientOf[s] : s \in Sample},
           prev \in 0..Len(certificates), reason \in BOOLEAN :
         /\ role \in MaySignCertificate
         /\ ResolveSamples(S, client)
         /\ ResolveSupersession(prev, client, reason)
         /\ inflight[x].supersedes = prev /\ inflight[x].covers = S
         /\ inflight[x].frozen = [s \in Sample |-> IF s \in S THEN CurrentResult(s) ELSE 0]
         /\ inflight[x].moves = {s \in S : status[s] = "assayed"}
  BY DEF CommitCertificate, Deciding, Legal, LegalCertificate
<1>2. IssueCertificate(S, client, prev, role, reason)
  BY <1>1 DEF CommitCertificate, IssueCertificate
<1> QED BY <1>2 DEF Next, CertificateStep

\* OneAtATime: with a single session the tables stand still between the
\* halves of a handler, and the two together are the atomic handler.
THEOREM OneAtATimeHolds ==
    ASSUME \A x, y \in Session : x = y
    PROVE  ConcurrentSpec => OneAtATime
<1> DEFINE Agreed == TypeOK /\ \A x \in Session : Legal(inflight[x])
<1>1. ConcurrentInit => Init /\ Agreed
  <2>1. Init => TypeOK
    BY DEF Init, TypeOK, SampleStatuses
  <2>2. ConcurrentInit => \A x \in Session : Legal(inflight[x])
    <3>1. ConcurrentInit => \A x \in Session : inflight[x].op = "idle"
      BY DEF ConcurrentInit, Idle
    <3> QED BY <3>1, IdleIsLegal
  <2> QED BY <2>1, <2>2 DEF ConcurrentInit
<1>2. CustodyHeld /\ Agreed /\ [ConcurrentNext]_cvars => [Next]_vars /\ Agreed'
  <2> SUFFICES ASSUME CustodyHeld, Agreed, [ConcurrentNext]_cvars
               PROVE  [Next]_vars /\ \A x \in Session : Legal(inflight[x])'
    <3>1. TypeOK /\ [Next]_vars => TypeOK'
      BY NextKeepsTypes
    <3> QED BY <3>1
  <2>1. ASSUME NEW x \in Session, NEW r, Begin(x, r), Legal(r)
        PROVE  [Next]_vars /\ \A y \in Session : Legal(inflight[y])'
    <3>1. UNCHANGED <<vars, fills>> /\ inflight'[x] = r
      BY <2>1 DEF Begin, CustodyHeld, InFlight
    <3>2. Legal(r)'
      BY <2>1, <3>1, LegalStays
    <3>3. ASSUME NEW y \in Session PROVE Legal(inflight[y])'
      <4>1. inflight'[y] = r
        BY <3>1
      <4> QED BY <3>2, <4>1, LegalNext
    <3> QED BY <3>1, <3>3
  <2>2. ASSUME NEW x \in Session, Finish(x)
        PROVE  \A y \in Session : Legal(inflight[y])'
    <3>1. \A y \in Session : inflight'[y].op = "idle"
      BY <2>2 DEF Finish, Idle, CustodyHeld, InFlight
    <3> QED BY <3>1, IdleIsLegalNext
  <2>3. ASSUME NEW x \in Session, Commit(x)
        PROVE  [Next]_vars /\ \A y \in Session : Legal(inflight[y])'
    <3>1. Next
      BY <2>3, MoveIsOneStep, ChargeIsOneStep, UnchargeIsOneStep, AdvanceIsOneStep,
         BenchWorkIsOneStep, ResultIsOneStep, ImportIsOneStep, ReadingIsOneStep,
         CertificateIsOneStep DEF Commit, CustodyHeld
    <3> QED BY <2>2, <2>3, <3>1, CommitFinishes
  <2>4. ASSUME NEW x \in Session, AtOnce(x)
        PROVE  [Next]_vars /\ \A y \in Session : Legal(inflight[y])'
    <3>1. Next
      BY <2>4 DEF AtOnce, Next, BatchStep
    <3>2. \A y \in Session : inflight'[y].op = "idle"
      BY <2>4 DEF AtOnce, Idle
    <3> QED BY <3>1, <3>2, IdleIsLegalNext
  <2>5. ASSUME NEW x \in Session, Abort(x)
        PROVE  [Next]_vars /\ \A y \in Session : Legal(inflight[y])'
    BY <2>2, <2>5 DEF Abort
  <2>6. CASE UNCHANGED cvars
    <3>1. UNCHANGED <<vars, fills>> /\ inflight' = inflight
      BY <2>6 DEF cvars
    <3>2. ASSUME NEW y \in Session PROVE Legal(inflight[y])'
      <4>1. PICK r : r = inflight[y]
        OBVIOUS
      <4>2. Legal(r)' /\ inflight'[y] = r
        BY <3>1, <4>1, LegalStays
      <4> QED BY <4>2, LegalNext
    <3> QED BY <3>1, <3>2
  <2> QED
    BY <2>1, <2>3, <2>4, <2>5, <2>6, BenchBeginsLegal, RecordBeginsLegal DEF ConcurrentNext
<1> QED BY <1>1, <1>2, CustodyHolds, PTL DEF ConcurrentSpec, OneAtATime, Spec
=============================================================================
