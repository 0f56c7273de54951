---------------------------- MODULE SampleCustody ----------------------------
(***************************************************************************)
(* The bench record of the laboratory: where each sample is, what sits in  *)
(* each furnace tray, which results and readings exist and which           *)
(* certificates freeze them.  One action per service method; a request     *)
(* runs alone here, from its first read to its commit.  ConcurrentCustody  *)
(* splits the same handlers at the point where the database does.          *)
(*                                                                         *)
(* A handler is written as a guard (what it checks, named after the check) *)
(* and a write (what it changes, given what it read).                      *)
(***************************************************************************)
EXTENDS Naturals, Sequences, FiniteSets, Lifecycle

CONSTANTS
    Sample,            \* registered samples
    SampleType,        \* what each one arrived as
    ClientOf,          \* whose submission it came with
    Batch,             \* furnace batches that may be opened
    Position,          \* slots of a furnace tray
    Material,          \* stock QC materials
    Bead,              \* gold bead weights that can be read off a balance
    Element, Digest,   \* analytes and digests of the ICP suite
    Nothing,           \* the null of every reference below
    Staff,             \* roles of the people at work
    MaxResults, MaxReadings, MaxCertificates   \* bounds for model checking

ASSUME CustodyAssumption ==
    /\ SampleType \in [Sample -> SampleTypes]
    /\ Nothing \notin Sample \cup Material \cup Bead \cup (Batch \X Position)
    /\ Sample \cap Material = {}
    /\ Staff \subseteq Roles
    /\ {MaxResults, MaxReadings, MaxCertificates} \subseteq Nat

VARIABLES
    status,        \* sample.status
    batch,         \* batch.status, "unopened" when there is no row
    tray,          \* the crucible row at each position of each batch
    retired,       \* QC materials whose is_active is false
    results,       \* fire_assay_result, append-only, in id order
    readings,      \* multi_element_result, append-only, in id order
    certificates   \* certificate with its certificate_result rows, in id order

bench   == <<status, batch, tray, retired>>
records == <<results, readings, certificates>>
vars    == <<status, batch, tray, retired, results, readings, certificates>>

Slot == Batch \X Position

Crucible == [holds: Sample \cup Material, duplicate: BOOLEAN,
             status: CrucibleStatuses, bead: Bead \cup {Nothing}]

\* No row at this position.
Empty == [holds |-> Nothing, duplicate |-> FALSE, status |-> "none", bead |-> Nothing]

Result  == [sample: Sample, supersedes: Nat, crucible: Slot \cup {Nothing},
            bead: Bead \cup {Nothing}]
Reading == [sample: Sample, element: Element, digest: Digest, supersedes: Nat]

\* certificate_result: the result frozen for each covered sample, 0 for the others.
Certificate == [frozen: [Sample -> Nat], elements: SUBSET Nat, supersedes: Nat]

TypeOK ==
    /\ status \in [Sample -> SampleStatuses]
    /\ batch \in [Batch -> BatchStatuses \cup {"unopened"}]
    /\ tray \in [Batch -> [Position -> Crucible \cup {Empty}]]
    /\ retired \subseteq Material
    /\ results \in Seq(Result)
    /\ readings \in Seq(Reading)
    /\ certificates \in Seq(Certificate)

Init ==
    /\ status = [s \in Sample |-> "received"]
    /\ batch = [b \in Batch |-> "unopened"]
    /\ tray = [b \in Batch |-> [p \in Position |-> Empty]]
    /\ retired = {}
    /\ results = <<>>
    /\ readings = <<>>
    /\ certificates = <<>>

-----------------------------------------------------------------------------
(***************************************************************************)
(* Supersession chains.  Ids are positions in the table, 0 is NULL.  A row *)
(* is current when no other row's supersedes_id names it.                  *)
(***************************************************************************)
Superseded(rows, id) == \E j \in DOMAIN rows : rows[j].supersedes = id

Heads(rows, s) == {i \in DOMAIN rows : rows[i].sample = s /\ ~Superseded(rows, i)}

\* The newest head, or 0.
CurrentResult(s) ==
    IF Heads(results, s) = {} THEN 0
    ELSE CHOOSE i \in Heads(results, s) : \A j \in Heads(results, s) : j <= i

CurrentReadings(s) == Heads(readings, s)

CurrentOf(s, e, d) ==
    {i \in CurrentReadings(s) : readings[i].element = e /\ readings[i].digest = d}

SetStatus(S, to) == status' = [s \in Sample |-> IF s \in S THEN to ELSE status[s]]

SetCrucible(b, p, c) == tray' = [tray EXCEPT ![b][p] = c]

-----------------------------------------------------------------------------
(***************************************************************************)
(* Bare status moves: preparation, the pulp shortcut, return for re-assay  *)
(* and rejection.                                                          *)
(***************************************************************************)
AdvanceSample(s, target, role, reason) ==
    /\ target \in StatusUpdateTargets
    /\ CheckTransition(status[s], target, SampleType[s], role, reason)
    /\ SetStatus({s}, target)
    /\ UNCHANGED <<batch, tray, retired, records>>

(***************************************************************************)
(* Furnace batching.                                                       *)
(***************************************************************************)
OpenBatch(b, role) ==
    /\ role \in BenchRoles
    /\ batch[b] = "unopened"
    /\ batch' = [batch EXCEPT ![b] = "pending"]
    /\ UNCHANGED <<status, tray, retired, records>>

\* Mutant: only the slot is looked at, not the batch.
SlotFree(b, p) == tray[b][p] = Empty

OpenForCharging(b, p) == batch[b] = "charging" /\ tray[b][p] = Empty

Charged(h, dup) == [holds |-> h, duplicate |-> dup, status |-> "charged", bead |-> Nothing]

\* The partial unique index on (batch_id, sample_id) WHERE insertion_type IS NULL.
PrimaryIn(b, s) == \E p \in Position : tray[b][p].holds = s /\ ~tray[b][p].duplicate

ChargeSample(b, p, s, role) ==
    /\ CheckTransition(status[s], "in_assay", SampleType[s], role, FALSE)
    /\ OpenForCharging(b, p)
    /\ ~PrimaryIn(b, s)
    /\ SetCrucible(b, p, Charged(s, FALSE))
    /\ SetStatus({s}, "in_assay")
    /\ UNCHANGED <<batch, retired, records>>

ChargeDuplicate(b, p, s, role) ==
    /\ role \in BenchRoles
    /\ status[s] = "in_assay"
    /\ OpenForCharging(b, p)
    /\ SetCrucible(b, p, Charged(s, TRUE))
    /\ UNCHANGED <<status, batch, retired, records>>

ChargeMaterial(b, p, m, role) ==
    /\ role \in BenchRoles
    /\ m \notin retired
    /\ OpenForCharging(b, p)
    /\ SetCrucible(b, p, Charged(m, FALSE))
    /\ UNCHANGED <<status, batch, retired, records>>

\* Mutant: the crucible goes, the sample's status stays.
RevertedForgotten(c) == {}

\* Only the primary charge of a sample still in assay gives the status back.
Reverted(c) ==
    IF c.holds \in Sample /\ ~c.duplicate
      THEN {s \in {c.holds} : status[s] = "in_assay"}
      ELSE {}

Uncharge(b, p, role) ==
    /\ role \in BenchRoles
    /\ batch[b] = "charging"
    /\ tray[b][p].status = "charged"
    /\ SetStatus(Reverted(tray[b][p]), "ready_for_assay")
    /\ SetCrucible(b, p, Empty)
    /\ UNCHANGED <<batch, retired, records>>

\* Mutant: the furnace stages skip the duplicates.
AfterBulkPrimaries(b, target) ==
    [p \in Position |->
        IF BulkCrucibleStatus(target) = "none" \/ tray[b][p] = Empty \/ tray[b][p].duplicate
          THEN tray[b][p]
          ELSE [tray[b][p] EXCEPT !.status = BulkCrucibleStatus(target)]]

\* Every crucible of the tray, whatever its own status.
AfterBulk(b, target) ==
    [p \in Position |->
        IF BulkCrucibleStatus(target) = "none" \/ tray[b][p] = Empty
          THEN tray[b][p]
          ELSE [tray[b][p] EXCEPT !.status = BulkCrucibleStatus(target)]]

AdvanceBatch(b, target, role) ==
    /\ CheckBatchTransition(batch[b], target, role)
    /\ target = "in_fusion" => \E p \in Position : tray[b][p] # Empty
    /\ batch' = [batch EXCEPT ![b] = target]
    /\ tray' = [tray EXCEPT ![b] = AfterBulk(b, target)]
    /\ UNCHANGED <<status, retired, records>>

RecordParting(b, p, role) ==
    /\ role \in BenchRoles
    /\ CheckCrucibleTransition(tray[b][p].status, "parted")
    /\ SetCrucible(b, p, [tray[b][p] EXCEPT !.status = "parted"])
    /\ UNCHANGED <<status, batch, retired, records>>

RecordWeighing(b, p, weight, role) ==
    /\ role \in BenchRoles
    /\ CheckCrucibleTransition(tray[b][p].status, "weighed")
    /\ SetCrucible(b, p, [tray[b][p] EXCEPT !.status = "weighed", !.bead = weight])
    /\ UNCHANGED <<status, batch, retired, records>>

RetireMaterial(m) ==
    /\ retired' = retired \cup {m}
    /\ UNCHANGED <<status, batch, tray, records>>

-----------------------------------------------------------------------------
(***************************************************************************)
(* Fire assay results.  Two finishes, one chain.                           *)
(***************************************************************************)
\* Mutant: the role is enough.
AdmitByRole(s, prev, role) == role \in MayEnterResults

\* The lifecycle is consulted only when nothing is being superseded and
\* nothing could be.
Admit(s, prev, role) ==
    /\ role \in MayEnterResults
    /\ prev = 0 /\ CurrentResult(s) = 0
         => CheckTransition(status[s], "assayed", SampleType[s], role, FALSE)

\* Mutant: any earlier result of the sample may be corrected.
CheckSupersessionOfAny(s, prev, reason) ==
    IF prev = 0 THEN CurrentResult(s) = 0
                ELSE prev \in DOMAIN results /\ results[prev].sample = s /\ reason

CheckSupersession(s, prev, reason) ==
    IF prev = 0 THEN CurrentResult(s) = 0
                ELSE CurrentResult(s) = prev /\ reason

\* The crucible a result names must hold this sample and have made a bead.
Row(c) == tray[c[1]][c[2]]

\* Mutant: no look at the crucible's stage.
CheckHolder(s, c) == c # Nothing => Row(c).holds = s

CheckProvenance(s, c) ==
    c # Nothing => Row(c).holds = s /\ Row(c).status \in BeadBearing

\* A weighed crucible supplies the bead; any other entry types one.
ResolvedBead(c, typed) ==
    IF c # Nothing /\ Row(c).status = "weighed" THEN Row(c).bead ELSE typed

\* Mutant: a correction moves the sample too.
WriteResultAlways(s, prev, c, bead) ==
    /\ results' = Append(results, [sample |-> s, supersedes |-> prev,
                                   crucible |-> c, bead |-> bead])
    /\ SetStatus({s}, "assayed")
    /\ UNCHANGED <<batch, tray, retired, readings, certificates>>

WriteResult(s, prev, c, bead) ==
    /\ results' = Append(results, [sample |-> s, supersedes |-> prev,
                                   crucible |-> c, bead |-> bead])
    /\ SetStatus(IF prev = 0 THEN {s} ELSE {}, "assayed")
    /\ UNCHANGED <<batch, tray, retired, readings, certificates>>

EnterGravimetric(s, prev, c, typed, role, reason) ==
    /\ Len(results) < MaxResults
    /\ Admit(s, prev, role)
    /\ CheckProvenance(s, c)
    /\ CheckSupersession(s, prev, reason)
    /\ WriteResult(s, prev, c, ResolvedBead(c, typed))

\* An AAS or ICP-MS reading: the bead left the crucible for a flask.
EnterSolutionFinish(s, prev, c, role, reason) ==
    /\ Len(results) < MaxResults
    /\ Admit(s, prev, role)
    /\ CheckProvenance(s, c)
    /\ CheckSupersession(s, prev, reason)
    /\ WriteResult(s, prev, c, Nothing)

(***************************************************************************)
(* Multi-element readings.  A run lists distinct elements of one digest.   *)
(***************************************************************************)
Runs == UNION {{r \in [1..n -> Element] : \A i, j \in 1..n : r[i] = r[j] => i = j}
                : n \in 1..Cardinality(Element)}

MayImport(s, role) ==
    /\ role \in MayEnterResults
    /\ status[s] # "assayed" => CheckTransition(status[s], "assayed", SampleType[s], role, FALSE)

ImportReadings(s, run, d, role) ==
    /\ Len(readings) + Len(run) <= MaxReadings
    /\ MayImport(s, role)
    /\ SetStatus({s}, "assayed")
    /\ readings' = readings \o [i \in DOMAIN run |->
                       [sample |-> s, element |-> run[i], digest |-> d, supersedes |-> 0]]
    /\ UNCHANGED <<batch, tray, retired, results, certificates>>

\* Which head is corrected is whichever row the query returns first.
SupersedeReading(s, e, d, role) ==
    /\ Len(readings) < MaxReadings
    /\ role \in MayEnterResults
    /\ \E i \in CurrentOf(s, e, d) :
          readings' = Append(readings,
                        [sample |-> s, element |-> e, digest |-> d, supersedes |-> i])
    /\ UNCHANGED <<bench, results, certificates>>

(***************************************************************************)
(* Certificates of analysis.                                               *)
(***************************************************************************)
Covers(c) == {s \in Sample : certificates[c].frozen[s] # 0}

\* _resolve_samples: one client's samples, each with a result.
ResolveSamples(S, client) ==
    /\ S # {}
    /\ \A s \in S : ClientOf[s] = client /\ CurrentResult(s) # 0

\* Mutant: a certificate already replaced may be replaced again.
ResolveSupersessionOfAny(prev, client, reason) ==
    prev # 0 => /\ prev \in DOMAIN certificates
                /\ \A s \in Covers(prev) : ClientOf[s] = client
                /\ reason

\* _resolve_supersession: a certificate of the same client that nothing replaced.
ResolveSupersession(prev, client, reason) ==
    prev # 0 => /\ prev \in DOMAIN certificates
                /\ ~Superseded(certificates, prev)
                /\ \A s \in Covers(prev) : ClientOf[s] = client
                /\ reason

IssueCertificate(S, client, prev, role, reason) ==
    /\ Len(certificates) < MaxCertificates
    /\ role \in MaySignCertificate
    /\ ResolveSamples(S, client)
    /\ ResolveSupersession(prev, client, reason)
    /\ SetStatus({s \in S : status[s] = "assayed"}, "reported")
    /\ certificates' = Append(certificates,
          [frozen |-> [s \in Sample |-> IF s \in S THEN CurrentResult(s) ELSE 0],
           elements |-> UNION {CurrentReadings(s) : s \in S}, supersedes |-> prev])
    /\ UNCHANGED <<batch, tray, retired, results, readings>>

\* Mutant: the multi-element half of the check is missing.
StaleByGold(c) == \E s \in Covers(c) : Superseded(results, certificates[c].frozen[s])

\* is_certificate_stale: some frozen row has a successor.
Stale(c) ==
    \/ \E s \in Covers(c) : Superseded(results, certificates[c].frozen[s])
    \/ \E i \in certificates[c].elements : Superseded(readings, i)

-----------------------------------------------------------------------------
SampleStep(role) ==
    \E s \in Sample, reason \in BOOLEAN, target \in StatusUpdateTargets :
        AdvanceSample(s, target, role, reason)

ChargeStep(role) ==
    \E b \in Batch, p \in Position :
        \/ \E s \in Sample : ChargeSample(b, p, s, role)
        \/ \E s \in Sample : ChargeDuplicate(b, p, s, role)
        \/ \E m \in Material : ChargeMaterial(b, p, m, role)
        \/ Uncharge(b, p, role)

BatchStep(role) ==
    \E b \in Batch :
        \/ OpenBatch(b, role)
        \/ \E target \in BatchStatuses : AdvanceBatch(b, target, role)
        \/ \E p \in Position : RecordParting(b, p, role)
        \/ \E p \in Position, w \in Bead : RecordWeighing(b, p, w, role)

ResultStep(role) ==
    \E s \in Sample, prev \in 0..Len(results), c \in Slot \cup {Nothing}, reason \in BOOLEAN :
        \/ \E w \in Bead : EnterGravimetric(s, prev, c, w, role, reason)
        \/ EnterSolutionFinish(s, prev, c, role, reason)

ReadingStep(role) ==
    \E s \in Sample, d \in Digest :
        \/ \E run \in Runs : ImportReadings(s, run, d, role)
        \/ \E e \in Element : SupersedeReading(s, e, d, role)

CertificateStep(role) ==
    \E S \in SUBSET Sample, client \in {ClientOf[s] : s \in Sample},
       prev \in 0..Len(certificates), reason \in BOOLEAN :
        IssueCertificate(S, client, prev, role, reason)

Next ==
    \/ \E role \in Staff :
          \/ SampleStep(role)
          \/ ChargeStep(role)
          \/ BatchStep(role)
          \/ ResultStep(role)
          \/ ReadingStep(role)
          \/ CertificateStep(role)
    \/ \E m \in Material : RetireMaterial(m)

Spec == Init /\ [][Next]_vars
-----------------------------------------------------------------------------
(***************************************************************************)
(* Safety.                                                                 *)
(***************************************************************************)
Measured(s) == \/ \E i \in DOMAIN results : results[i].sample = s
               \/ \E i \in DOMAIN readings : readings[i].sample = s

Certified(s) == \E c \in DOMAIN certificates : s \in Covers(c)

InSomeTray(s) == \E b \in Batch : PrimaryIn(b, s)

\* in_assay, assayed and reported are each true only because of the record
\* that produced them: a primary crucible, a result or reading, a certificate
\* (sample_lifecycle/service.py's reason for refusing bare moves to them).
StatusHasItsRecord ==
    \A s \in Sample :
        /\ status[s] = "in_assay" => InSomeTray(s)
        /\ status[s] = "assayed"  => Measured(s)
        /\ status[s] = "reported" => Certified(s)

\* Material still at reception or in preparation has left no trace at the
\* furnace, on the instruments or on a certificate.
UntouchedBeforeReady ==
    \A s \in Sample : status[s] \in {"received", "in_prep"} =>
        /\ \A b \in Batch, p \in Position : tray[b][p].holds # s
        /\ ~Measured(s)
        /\ ~Certified(s)

\* The stages a crucible can be at while its batch is at a given one: fusion
\* and cupellation move the whole tray, parting and weighing one crucible.
StagesOf(batchStatus) ==
    CASE batchStatus \in {"unopened", "pending"}         -> {}
      [] batchStatus \in {"charging", "in_fusion"}       -> {"charged"}
      [] batchStatus \in {"fused", "in_cupellation"}     -> {"fused"}
      [] batchStatus \in {"cupelled", "completed"}       -> BeadBearing

\* The tray keeps step with its batch, a fired batch is never empty, and a
\* bead weight is on record exactly for the weighed crucibles.
TrayFollowsBatch ==
    \A b \in Batch :
        /\ \A p \in Position : tray[b][p] # Empty =>
              /\ tray[b][p].status \in StagesOf(batch[b])
              /\ (tray[b][p].bead # Nothing) <=> (tray[b][p].status = "weighed")
        /\ batch[b] \notin {"unopened", "pending", "charging"} =>
              \E p \in Position : tray[b][p] # Empty

\* "a chain cannot branch": a sample's results form one chain.  Each
\* correction names an earlier row of the same sample, no row has two
\* successors, and so there is exactly one current result.
ResultsFormOneChain ==
    /\ \A i \in DOMAIN results : LET prev == results[i].supersedes IN
          prev # 0 => prev < i /\ results[prev].sample = results[i].sample
    /\ \A i, j \in DOMAIN results :
          results[i].supersedes = results[j].supersedes /\ results[i].supersedes # 0 => i = j
    /\ \A s \in Sample : Cardinality(Heads(results, s)) <= 1

\* The same for certificates, which have no "one current" rule: a correction
\* replaces an earlier certificate of the same client that nothing else
\* replaced.
CertificatesDoNotBranch ==
    \A i, j \in DOMAIN certificates : LET prev == certificates[i].supersedes IN
        prev # 0 =>
            /\ prev < i
            /\ certificates[j].supersedes = prev => i = j
            /\ \A s \in Covers(i), r \in Covers(prev) :
                  ClientOf[s] = ClientOf[r]

\* A certificate is flagged stale exactly when some value it reports is no
\* longer the laboratory's current one.
StaleIffNotCurrent ==
    \A c \in DOMAIN certificates :
        Stale(c) <=>
            \/ \E s \in Covers(c) : certificates[c].frozen[s] # CurrentResult(s)
            \/ \E i \in certificates[c].elements : i \notin CurrentReadings(readings[i].sample)

\* A result naming a crucible names one that held this sample and made a
\* bead, and that stays so: the slot is never emptied, refilled or rewound.
NamedCrucibleMadeTheBead ==
    \A i \in DOMAIN results : LET c == results[i].crucible IN
        c # Nothing => Row(c).holds = results[i].sample /\ Row(c).status \in BeadBearing

\* Reported and rejected are terminal: "Correcting it is a new, amended
\* certificate, not a status change".
TerminalStatuses ==
    [][\A s \in Sample : status[s] \in {"reported", "rejected"} => status'[s] = status[s]]_vars

\* Once a batch is in the furnace nothing is added to, removed from or
\* exchanged in its tray, and no crucible goes back a stage.
Rank == [st \in CrucibleStatuses |->
            CASE st = "charged" -> 0 [] st = "fused" -> 1 [] st = "cupelled" -> 2
              [] st = "parted" -> 3 [] st = "weighed" -> 4]

FiredTrayIsFrozen ==
    [][\A b \in Batch, p \in Position :
         batch[b] \notin {"unopened", "pending", "charging"} =>
            /\ tray'[b][p].holds = tray[b][p].holds
            /\ tray'[b][p].duplicate = tray[b][p].duplicate
            /\ tray[b][p] # Empty => Rank[tray'[b][p].status] >= Rank[tray[b][p].status]
            /\ tray[b][p].bead # Nothing => tray'[b][p].bead = tray[b][p].bead]_vars

\* The tables and chains implement the register: one current grade per
\* sample, replaced only by corrections, copied unchanged to certificates.
Register == INSTANCE AssayRegister WITH
    stage     <- status,
    current   <- [s \in Sample |-> CurrentResult(s)],
    grades    <- Len(results),
    published <- UNION {{<<s, certificates[c].frozen[s]>> : s \in Covers(c)}
                          : c \in DOMAIN certificates}

ImplementsRegister == Register!Spec

==============================================================================
