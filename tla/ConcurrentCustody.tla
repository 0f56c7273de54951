-------------------------- MODULE ConcurrentCustody --------------------------
(***************************************************************************)
(* SampleCustody with several requests in flight.  Handlers run on a       *)
(* thread pool, one database transaction each, at READ COMMITTED, with no  *)
(* row locks and no version columns: a request reads and decides (Begin),  *)
(* and what it decided is written later over whatever is there by then     *)
(* (Commit).  Between the two, others commit.  What the database itself    *)
(* refuses at the write -- a unique index, a foreign key, an UPDATE that   *)
(* finds no row -- rolls the request back.                                 *)
(*                                                                         *)
(* All reads of a handler are one step here, and all its writes another.   *)
(***************************************************************************)
EXTENDS SampleCustody

CONSTANTS
    Session,    \* worker threads, each with a database session
    MaxFills    \* bound on how often one tray slot is filled

ASSUME SessionAssumption ==
    /\ Session # {}
    /\ MaxFills \in Nat
    /\ Nothing \notin Batch \X Position \X Nat

VARIABLES
    inflight,   \* what each session has decided and not yet written
    fills       \* rows ever inserted in each slot: the identity of a crucible

Idle == [op |-> "idle"]

cvars == <<vars, inflight, fills>>

\* A crucible row, told apart from an earlier one in the same slot.
RowId(b, p) == <<b, p, fills[b][p]>>

RowAt(r) == tray[r[1]][r[2]]

Present(r) == RowAt(r) # Empty /\ fills[r[1]][r[2]] = r[3]

RowsOf(b) == {RowId(b, p) : p \in {q \in Position : tray[b][q] # Empty}}

ConcurrentInit ==
    /\ Init
    /\ inflight = [x \in Session |-> Idle]
    /\ fills = [b \in Batch |-> [p \in Position |-> 0]]

-----------------------------------------------------------------------------
(***************************************************************************)
(* The first half of each handler: read, check, decide.                    *)
(***************************************************************************)
Begin(x, request) ==
    /\ inflight[x] = Idle
    /\ inflight' = [inflight EXCEPT ![x] = request]
    /\ UNCHANGED <<vars, fills>>

BeginStatus(x, s, target, role, reason) ==
    /\ CheckTransition(status[s], target, SampleType[s], role, reason)
    /\ Begin(x, [op |-> "status", moves |-> {s}, to |-> target])

BeginCharge(x, b, p, s, role) ==
    /\ CheckTransition(status[s], "in_assay", SampleType[s], role, FALSE)
    /\ OpenForCharging(b, p)
    /\ Begin(x, [op |-> "charge", slot |-> <<b, p>>, row |-> Charged(s, FALSE), moves |-> {s}])

BeginDuplicate(x, b, p, s, role) ==
    /\ role \in BenchRoles
    /\ status[s] = "in_assay"
    /\ OpenForCharging(b, p)
    /\ Begin(x, [op |-> "charge", slot |-> <<b, p>>, row |-> Charged(s, TRUE), moves |-> {}])

BeginMaterial(x, b, p, m, role) ==
    /\ role \in BenchRoles
    /\ m \notin retired
    /\ OpenForCharging(b, p)
    /\ Begin(x, [op |-> "charge", slot |-> <<b, p>>, row |-> Charged(m, FALSE), moves |-> {}])

BeginUncharge(x, b, p, role) ==
    /\ role \in BenchRoles
    /\ batch[b] = "charging"
    /\ tray[b][p].status = "charged"
    /\ Begin(x, [op |-> "uncharge", row |-> RowId(b, p), moves |-> Reverted(tray[b][p])])

\* Mutant: the batch moves on without its crucibles.
RewrittenNever(b, target) == {}

\* A stage of the furnace rewrites the crucibles it read, if they change.
Rewritten(b, target) ==
    IF BulkCrucibleStatus(target) = "none" THEN {}
    ELSE {r \in RowsOf(b) : RowAt(r).status # BulkCrucibleStatus(target)}

BeginBatch(x, b, target, role) ==
    /\ CheckBatchTransition(batch[b], target, role)
    /\ target = "in_fusion" => RowsOf(b) # {}
    /\ Begin(x, [op |-> "batch", batch |-> b, to |-> target, rows |-> Rewritten(b, target)])

BeginParting(x, b, p, role) ==
    /\ role \in BenchRoles
    /\ CheckCrucibleTransition(tray[b][p].status, "parted")
    /\ Begin(x, [op |-> "parting", row |-> RowId(b, p)])

BeginWeighing(x, b, p, weight, role) ==
    /\ role \in BenchRoles
    /\ CheckCrucibleTransition(tray[b][p].status, "weighed")
    /\ Begin(x, [op |-> "weighing", row |-> RowId(b, p), bead |-> weight])

BeginResult(x, s, prev, c, bead, role, reason) ==
    /\ Admit(s, prev, role)
    /\ CheckProvenance(s, c)
    /\ CheckSupersession(s, prev, reason)
    /\ Begin(x, [op |-> "result", sample |-> s, supersedes |-> prev, bead |-> bead,
                 crucible |-> IF c = Nothing THEN Nothing ELSE RowId(c[1], c[2])])

BeginImport(x, s, run, d, role) ==
    /\ MayImport(s, role)
    /\ Begin(x, [op |-> "import", sample |-> s, run |-> run, digest |-> d,
                 moves |-> IF status[s] = "assayed" THEN {} ELSE {s}])

BeginReading(x, s, e, d, role) ==
    /\ role \in MayEnterResults
    /\ \E i \in CurrentOf(s, e, d) :
          Begin(x, [op |-> "reading", row |-> [sample |-> s, element |-> e,
                                               digest |-> d, supersedes |-> i]])

BeginCertificate(x, S, client, prev, role, reason) ==
    /\ role \in MaySignCertificate
    /\ ResolveSamples(S, client)
    /\ ResolveSupersession(prev, client, reason)
    /\ Begin(x, [op |-> "certificate", supersedes |-> prev, covers |-> S,
                 frozen |-> [s \in Sample |-> IF s \in S THEN CurrentResult(s) ELSE 0],
                 moves |-> {s \in S : status[s] = "assayed"}])

-----------------------------------------------------------------------------
(***************************************************************************)
(* The second half: write, under the constraints of the tables.            *)
(***************************************************************************)
Finish(x) == inflight' = [inflight EXCEPT ![x] = Idle]

Deciding(x, op) == inflight[x].op = op

CommitStatus(x) ==
    /\ Deciding(x, "status")
    /\ SetStatus(inflight[x].moves, inflight[x].to)
    /\ Finish(x)
    /\ UNCHANGED <<batch, tray, retired, records, fills>>

\* The two unique indexes of the crucible table.
CrucibleIndexes(b, p, row) ==
    /\ tray[b][p] = Empty
    /\ row.holds \in Sample /\ ~row.duplicate => ~PrimaryIn(b, row.holds)

CommitCharge(x) ==
    /\ Deciding(x, "charge")
    /\ LET r == inflight[x]  b == r.slot[1]  p == r.slot[2] IN
         /\ fills[b][p] < MaxFills
         /\ CrucibleIndexes(b, p, r.row)
         /\ SetCrucible(b, p, r.row)
         /\ fills' = [fills EXCEPT ![b][p] = @ + 1]
         /\ SetStatus(r.moves, "in_assay")
    /\ Finish(x)
    /\ UNCHANGED <<batch, retired, records>>

\* Mutant: a crucible row may go whatever refers to it.
UnreferencedAlways(r) == TRUE

\* fire_assay_result.crucible_id refers to no such row.
Unreferenced(r) == \A i \in DOMAIN results : results[i].crucible # <<r[1], r[2]>>

\* A row already gone is deleted without complaint; the status still moves.
CommitUncharge(x) ==
    /\ Deciding(x, "uncharge")
    /\ LET r == inflight[x] IN
         /\ IF Present(r.row)
              THEN Unreferenced(r.row) /\ SetCrucible(r.row[1], r.row[2], Empty)
              ELSE UNCHANGED tray
         /\ SetStatus(r.moves, "ready_for_assay")
    /\ Finish(x)
    /\ UNCHANGED <<batch, retired, records, fills>>

\* Every UPDATE must find its row, or the transaction is rolled back.
CommitBatch(x) ==
    /\ Deciding(x, "batch")
    /\ LET r == inflight[x]  b == r.batch IN
         /\ \A row \in r.rows : Present(row)
         /\ batch' = [batch EXCEPT ![b] = r.to]
         /\ tray' = [tray EXCEPT ![b] = [p \in Position |->
                        IF RowId(b, p) \in r.rows
                          THEN [tray[b][p] EXCEPT !.status = BulkCrucibleStatus(r.to)]
                          ELSE tray[b][p]]]
    /\ Finish(x)
    /\ UNCHANGED <<status, retired, records, fills>>

CommitBench(x) ==
    /\ LET r == inflight[x] IN
         /\ r.op \in {"parting", "weighing"}
         /\ Present(r.row)
         /\ SetCrucible(r.row[1], r.row[2],
              IF r.op = "parting" THEN [RowAt(r.row) EXCEPT !.status = "parted"]
                ELSE [RowAt(r.row) EXCEPT !.status = "weighed", !.bead = r.bead])
    /\ Finish(x)
    /\ UNCHANGED <<status, batch, retired, records, fills>>

CommitResult(x) ==
    /\ Deciding(x, "result")
    /\ Len(results) < MaxResults
    /\ LET r == inflight[x] IN
         /\ r.crucible # Nothing => Present(r.crucible)
         /\ WriteResult(r.sample, r.supersedes,
              IF r.crucible = Nothing THEN Nothing ELSE <<r.crucible[1], r.crucible[2]>>, r.bead)
    /\ Finish(x)
    /\ UNCHANGED fills

CommitImport(x) ==
    /\ Deciding(x, "import")
    /\ LET r == inflight[x] IN
         /\ Len(readings) + Len(r.run) <= MaxReadings
         /\ SetStatus(r.moves, "assayed")
         /\ readings' = readings \o [i \in DOMAIN r.run |->
               [sample |-> r.sample, element |-> r.run[i], digest |-> r.digest, supersedes |-> 0]]
    /\ Finish(x)
    /\ UNCHANGED <<batch, tray, retired, results, certificates, fills>>

\* uq_mer_one_successor_per_row.
OneSuccessorIndex(i) == ~Superseded(readings, i)

CommitReading(x) ==
    /\ Deciding(x, "reading")
    /\ Len(readings) < MaxReadings
    /\ OneSuccessorIndex(inflight[x].row.supersedes)
    /\ readings' = Append(readings, inflight[x].row)
    /\ Finish(x)
    /\ UNCHANGED <<bench, results, certificates, fills>>

\* The readings to freeze are read again as the certificate is written.
CommitCertificate(x) ==
    /\ Deciding(x, "certificate")
    /\ Len(certificates) < MaxCertificates
    /\ LET r == inflight[x] IN
         /\ SetStatus(r.moves, "reported")
         /\ certificates' = Append(certificates,
               [frozen |-> r.frozen, supersedes |-> r.supersedes,
                elements |-> UNION {CurrentReadings(s) : s \in r.covers}])
    /\ Finish(x)
    /\ UNCHANGED <<batch, tray, retired, results, readings, fills>>

\* A refusal by the database, a deadlock victim, a lost connection.
Abort(x) ==
    /\ inflight[x] # Idle
    /\ Finish(x)
    /\ UNCHANGED <<vars, fills>>

-----------------------------------------------------------------------------
BeginBenchWork(x, role) ==
    \/ \E s \in Sample, target \in StatusUpdateTargets, reason \in BOOLEAN :
          BeginStatus(x, s, target, role, reason)
    \/ \E b \in Batch, p \in Position :
          \/ \E s \in Sample : BeginCharge(x, b, p, s, role) \/ BeginDuplicate(x, b, p, s, role)
          \/ \E m \in Material : BeginMaterial(x, b, p, m, role)
          \/ BeginUncharge(x, b, p, role)
          \/ BeginParting(x, b, p, role)
          \/ \E w \in Bead : BeginWeighing(x, b, p, w, role)
    \/ \E b \in Batch, target \in BatchStatuses : BeginBatch(x, b, target, role)

BeginRecords(x, role) ==
    \/ \E s \in Sample, prev \in 0..Len(results), c \in Slot \cup {Nothing}, reason \in BOOLEAN :
          \E bead \in {Nothing} \cup {ResolvedBead(c, w) : w \in Bead} :
             BeginResult(x, s, prev, c, bead, role, reason)
    \/ \E s \in Sample, d \in Digest :
          \/ \E run \in Runs : BeginImport(x, s, run, d, role)
          \/ \E e \in Element : BeginReading(x, s, e, d, role)
    \/ \E S \in SUBSET Sample, client \in {ClientOf[s] : s \in Sample},
          prev \in 0..Len(certificates), reason \in BOOLEAN :
             BeginCertificate(x, S, client, prev, role, reason)

\* Two requests whose write does not depend on a read.
AtOnce(x) ==
    /\ inflight[x] = Idle
    /\ \/ \E b \in Batch, role \in Staff : OpenBatch(b, role)
       \/ \E m \in Material : RetireMaterial(m)
    /\ UNCHANGED <<inflight, fills>>

Commit(x) ==
    \/ CommitStatus(x) \/ CommitCharge(x) \/ CommitUncharge(x) \/ CommitBatch(x)
    \/ CommitBench(x) \/ CommitResult(x) \/ CommitImport(x) \/ CommitReading(x)
    \/ CommitCertificate(x)

ConcurrentNext ==
    \E x \in Session :
       \/ \E role \in Staff : BeginBenchWork(x, role) \/ BeginRecords(x, role)
       \/ AtOnce(x)
       \/ Commit(x)
       \/ Abort(x)

ConcurrentSpec == ConcurrentInit /\ [][ConcurrentNext]_cvars

-----------------------------------------------------------------------------
(***************************************************************************)
(* What survives concurrency, because the schema says it and not only the  *)
(* service.                                                                *)
(***************************************************************************)
\* The crucible a result names stays in its tray and holds the result's
\* sample, even when an uncharge was decided before the result was written.
NamedCrucibleSurvives ==
    \A i \in DOMAIN results : LET c == results[i].crucible IN
        c # Nothing => Row(c).holds = results[i].sample

\* With one session the split handlers are the atomic ones: every commit is
\* a step of SampleCustody that was legal when it was decided.
OneAtATime == Spec

-----------------------------------------------------------------------------
(***************************************************************************)
(* What the documentation says and concurrent requests break.              *)
(***************************************************************************)
\* db/models.py:461 "the service layer refuses to supersede a row that has
\* already been superseded, so a chain cannot branch": two corrections of one
\* result decided together are both written.
CorrectedOnce ==
    \A i, j \in DOMAIN results :
        results[i].supersedes = results[j].supersedes /\ results[i].supersedes # 0 => i = j
=============================================================================
