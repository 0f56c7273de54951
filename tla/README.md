# Verification of msa-lims

TLA+ models of the mineral-assay LIMS in this repository, TLC runs on small
laboratories, and TLAPS proofs for laboratories of any size. Paths below are
relative to `src/src/msa_lims/` unless they start with `docs/` or `tests/`.

Run `tlc -config <Run>.cfg <Module>.tla` for a run of the table below and
`tlapm <Module>.tla` for a proof module.

## 1. The system

A FastAPI application over one Postgres database. A request is handled by a
synchronous function on a thread pool, with one SQLAlchemy session and one
transaction (`web/deps.py:43-57`); the isolation level is Postgres's default,
READ COMMITTED. Nothing takes a row lock or carries a version column. Every
write goes through `record_audit_event`, which takes one advisory lock that is
held to the end of the transaction -- but after the handler has read and checked.

| part | state it keeps | operations | correct when |
|---|---|---|---|
| sample lifecycle (`domain/lifecycle.py`, `sample_lifecycle/`) | `sample.status` | one status request; the record-making handlers below also write it | only legal moves; a status is backed by the record it stands for; reported and rejected are final |
| furnace (`batches/`, `domain/batch_lifecycle.py`) | `batch.status`, `crucible` rows (slot, contents, status, bead) | open, charge (sample, duplicate, material), uncharge, advance, part, weigh | tray in step with batch; a fired tray is frozen; one primary per sample and tray |
| fire assay results (`fire_assay_results/`) | append-only rows chained by `supersedes_id` | enter a gravimetric or solution result, correct one | one unbranched chain a sample; a named crucible made the bead |
| multi-element results (`multi_element/`) | the same, per element and digest | import a run, supersede a reading | chains do not branch; a certificate's readings are current or flagged |
| certificates (`certificates/`) | append-only rows, frozen result and reading ids | issue, amend, staleness, PDF | amended once, by the same client; stale flag exact |
| reference materials (`qc_materials/`) | register, `is_active` | register, edit, retire | a retired lot is not charged |
| audit trail (`db/audit.py`, `domain/audit_chain.py`) | hash-chained `audit_event` | record, verify | linear, growing at the end, verifiable; an edit is found |
| anchors (`anchoring/`) | `audit_anchor` | create, fetch proof | the anchored hash is in the trail and is the row it names |
| document numbers (`db/numbering.py`) | unique number columns | count, add one, insert, retry | no request alone fails; no gaps |
| intake (`submissions/`, `drill_holes/`, `domain/sample_id.py`) | submissions, samples, intervals, holes | register a hole, receive | labels unique, intervals of a hole disjoint |
| grade arithmetic (`domain/assay.py`, `units.py`, `values.py`, `qc.py`, `flux.py`) | none; the numbers of a tray, a result and a dossier | convert, grade, censor, score, scale | what is reported is what was there; a non-detect is never a number |
| sign-in (`auth/oidc.py`, `web/deps.py`) | cached key sets, `lab_user` rows | check a token, refresh keys, provision a user | a withdrawn key stops, a rotation locks nobody out, a person is one row |
| preparation (`prep_records/`) | prep records, chained | record, correct | unbranched |
| QC dossiers and Sentinel (`qc_dossiers/`, `sentinel/`, `storage/`) | submissions to an outside service, blobs | build, seal, submit, fetch verdict | a seal can be fetched and recomputed; what was submitted is recorded, and is what was sealed |
| recipes, instruments (`flux_recipes/`, `instruments/`) | registers others compute with | register, edit, retire | an edit does not change what was computed before |
| clients, projects, provenance, frontend | registers, views | create, list | -- |

The parts meet in the tables. Charging and results move the sample; the batch
moves its crucibles; a result reads and names a crucible, a certificate freezes
results and readings, a correction makes it stale. All of them extend the audit
trail. There are no callbacks, queues or background jobs; concurrency is
between requests, and the outside world (calendars, Sentinel) is called inside
a request.

Hard behaviour: a decision made on a read that is old at the write; orders of
legal calls that nobody tried together (re-assay, uncharge, certificate and
correction); the trail's single lock, beside the row locks; the retry of document numbers; a crash
between an outside call and its record; keys cached by threads that outlive the
cache; limits, units and zeros in the arithmetic. `PROJECT.json` lists each at its line.

## 2. Modules

| module | models | state -> code |
|---|---|---|
| `Lifecycle` | enums and the three transition tables, without state | `Transitions` = `TRANSITIONS`; `CheckTransition` = `check_transition`; `BulkCrucibleStatus` = `bulk_crucible_status` |
| `AssayRegister` | abstract: a stage and at most one current grade a sample, replaced only by corrections; publications copy current grades | no tables: what the bench record promises |
| `SampleCustody` | every bench handler as one atomic step | `status`, `batch`, `tray`, `retired` = the mutable columns; `results`, `readings`, `certificates` = the append-only tables, in row order, `supersedes` = `supersedes_id` with 0 for none |
| `ConcurrentCustody` | the same handlers in two halves, several sessions | `inflight` = what a session has decided and not written; `fills` = the identity of a crucible row in its slot |
| `FurnaceRaces` (extends `ConcurrentCustody`) | the same steps, with a memory of the trays raced for | `raced` is history: batches about which an advance was in flight beside another advance, a charge or an uncharge |
| `AuditChain` | trail, lock, verification, anchors | `ledger`/`pending` = committed rows and rows of open transactions, `lock` = `pg_advisory_xact_lock(1)`, `nextId` = the sequence |
| `Numbering` | `insert_with_unique_number` and its callers | `taken` = committed numbers of one prefix, `phase`, `attempt`, `number` = a request in the helper |
| `Intake` (extends `Numbering`) | registration of holes; every check and the writes of a submission; `find_overlaps` | `holes`, `received` = committed rows, `offered` = bags a session has checked and not committed; `checked` and the `saw` of a row are history: which labels the check saw |
| `SentinelExchange` | dossier, blob store, pointer, submission to QC Sentinel | `weighed`, `certified`, `completed` = what a dossier is computed from; `blobs`, `pointer` = `stored_blob`, `batch.qc_dossier_sha256`; `submissions` = `sentinel_submission`; `request` = what a session does; `sends` (what left the laboratory, how often Sentinel took it in), `lost` and `raced` are history |
| `RowLocks` (extends `AuditChain`) | the row lock of each sample beside the advisory lock: office requests update samples before they ask for the trail, bench requests after | `side` = which of the two orders a request has, `need` = the samples of its UPDATE, `holder` = who has a row locked; a circle is found and one request aborted, as Postgres does |
| `Grades` | the pure functions of `domain/` on exact fractions | one operator a function; `MeasuredValue` = the dataclass, `Nothing` = `None` or a raised error |
| `BenchFigures` (extends `Grades`) | one tray with its numbers: charges and flux, beads, a result by balance or solution, the dossier, edits of the registers | `tray`, `result` = the columns of `crucible` and `fire_assay_result`; `gold` = what a portion really holds, which nobody in the code sees; `recipe`, `instrument`, `certified` = the registers today |
| `SignIn` | the token check, the key cache shared by threads, provisioning | `clients` = the `PyJWKClient` objects, `published`/`withdrawn`/`directory` = the provider, `request` = a thread between token and commit, `users` = `lab_user`; `act` is history |
| `MC*` | constants, symmetry and hashes for TLC | |
| `Extrema` | lemmas: sets of row numbers have a greatest element, sets of natural numbers a least one | |
| `SampleCustodyProofs`, `ConcurrentCustodyProofs`, `AuditTrailProofs` (of `AuditChain` and `RowLocks`), `IntakeProofs` (of `Numbering` and `Intake`), `BenchFiguresProofs` (of `Grades` and `BenchFigures`), `SentinelProofs`, `SignInProofs` | theorems | |

`ConcurrentCustody` extends `SampleCustody` (its guards are the same operators,
its commits the same writes); `SampleCustody` refines `AssayRegister`. `Intake`
composes its checks with the steps of `Numbering`: a submission is checked, takes
a number and is inserted in one transaction. `RowLocks` composes row locks with
the steps of `AuditChain`, and `BenchFigures` puts the operators of `Grades` where
the handlers call them.

What is abstracted: weights and grades (a bead is one of a few values, or none;
a gold value is the identity of its row), reasons (a Boolean: non-blank or not),
furnace coordinates (a finite set), the calculation of flux and of grades (that is
`BenchFigures`, where in turn roles and corrections are left out), the PDF. A decimal
of 34 digits is an exact fraction. Python's sort, in `find_overlaps`, is modelled by what
it promises: some permutation under which no interval comes before an earlier one. The
rows of a query and the new labels are handed to it in any order (`Lists`). A reason, a role, a sample type and the client of a sample stay because
guards read them. Crucible statuses `empty` and `rejected` are in the enum, and
no handler writes them.

Each handler's refusals are guards. `Staff` is the set of roles that act in a
run. A request with a role the handler refuses changes nothing, so it is not a
step.

### Concurrency

All reads of a handler are one step and all its writes another. That is coarser
than the statements but loses no stale write: between the two every other
request may commit. What the database refuses at the write -- the two unique
indexes of `crucible`, the foreign key from a result, the unique index on
`multi_element_result.supersedes_id`, an UPDATE of a row that is gone -- is a
guard of the commit; `Abort` is the rollback. One thing is read again at the
write, as in the code: the readings a certificate freezes
(`certificates/service.py:414`).

`SentinelExchange` and `Intake` interleave requests in the same way. A hash is the
evidence it stands for, so equal blobs are the same value. An insert of a blob
waits for an open transaction that inserted the same one, and is refused when
that commits. QC Sentinel answers, fails, breaks off or is silent as it likes,
and may have taken the import in behind any answer but a refusal or a connection
that never was.

`RowLocks` has the rows of samples and the advisory lock. Waits for a row of `lab_user`
or for the insert of an equal unique key are outside its graph.

`OneSession` checks the split against the original: with one session every
commit of `ConcurrentCustody` is a step of `SampleCustody`.

The repository states a single-writer assumption for the audit chain and
numbering (`db/audit.py:14-20`, stale for the chain: the code takes a lock) and
for blobs (`storage/blob.py`). Results, statuses and batches have no such note,
and `docs/AUDIT_AND_BREAKTHROUGHS.md:514` says concurrency is untested. The
concurrent disagreements below are therefore stated as disagreements between
comment and code.

## 3. Runs

| run | checks | bounds, and why they are enough |
|---|---|---|
| `Furnace` | `StatusHasItsRecord`, `TrayFollowsBatch`, `NamedCrucibleMadeTheBead`, `FiredTrayIsFrozen` | one sample, two batches of two positions, two results, supervisor and client: two trays are needed for a sample to be in another one, two positions for a duplicate beside its original, two results for a correction |
| `Chains` | `TypeOK`, `ResultsFormOneChain`, `CertificatesDoNotBranch`, `StaleIffNotCurrent`, `UntouchedBeforeReady`, `TerminalStatuses`, `ImplementsRegister` | two samples of two clients, up to three results, two readings and three certificates, five rows in all: a branch needs three rows of a kind, a wrong sample or client two, a stale certificate a row, its correction and itself. `ColdAndSmall` stops there and at an unfired furnace, whose stages these questions do not read |
| `Races` (module `MCFurnaceRaces`) | `NamedCrucibleSurvives`, `UnracedTrayIsSettled` | two sessions, one sample, one tray of two positions, one result: an uncharge races result entry, the furnace closes while a crucible is charged or taken out, two advances of one batch race. All three happen: asked of every tray and not only of those nobody raced for, `UnracedTrayIsSettled` is violated at once. A slot is filled once here; that a refilled slot is not mistaken for the row it was is in the proof, for any number of refills |
| `OneSession` | `OneAtATime` | one session, all kinds of records, two charges: one slot filled again, or, while there are no records, a second slot, which a duplicate needs (`TwoCharges`) |
| `AuditTrail` (module `MCRowLocks`) | `OneWriter`, `ChainVerifies`, `EditIsFound`, `AnchorIsInTheTrail`, `DeadlockTakesBothSides`, `GrowsAtTheEnd`, `EveryRequestEnds` | three sessions (one holds the lock, two wait), three events, one of them after a rollback, one edited row, one anchor; a hash that never collides; two samples and reports on one or both of them, enough for a circle of two and of three. `SamplesApart` lets samples be updated only while there are at most two events, no edit and no anchor: it cuts requests, events and edits, which nothing forces, so the liveness check stays sound |
| `Numbers` (module `MCIntake`) | `NumbersHaveNoGap`, `OnlyARaceFails`, `OverlapNeedsARace`, `FindsEveryOverlap` | two requests, three numbers, up to two bags a submission, two projects: two requests for a race, a third number for the gap a retry leaves; three intervals of which one holds the second and runs into the third, while those touch |
| `Sentinel` | `SealIsStored`, `SealedGradesStand`, `EveryAttemptIsRecorded`, `RowsMatchImports` | two requests, one batch with one QC crucible, two bead values (one cannot be graded), two certified values, one submission: two requests seal the same bytes, different bytes, or weigh against sealing; a submission is retried once whatever the rest does |
| `Dossiers` (module `MCBenchFigures`) | `GradeTellsTheTruth`, `MoreGoldNeverReadsLower`, `RowGivesItsGradeAgain`, `FluxFollowsPortion`, `FinishesAgree`, `DossierAgreesWithResult`, `FlagsFollowTheGold` | a tray of two slots with every pair of kinds, beads of nothing, of exactly the limit and above it, two portions, two recipes, two certified values, a blank threshold that one bead meets exactly. `EditsThatTell` edits a register only when somebody reads it next |
| `SignIn` | `WithdrawnKeyStops`, `RotationLocksNobodyOut`, `OneRowAPerson`, `FirstSightFailsForAReason` | two threads, two tokens, two keys, three key-set clients, a cache of one tick and tokens of two: a thread can keep a client past its life while the other replaces it; two people and two addresses to swap. `KeysOrPeople` lets the provider change keys or people in one behaviour, not both |

Every bound is a constant (`MaxResults`, `MaxReadings`, `MaxCertificates`,
`MaxFills`, `MaxEvents`, `MaxAnchors`, `MaxNumber`, `MaxItems`, `MaxSends`, `MaxTime`,
`MaxTokens`, `MaxClients`, `MaxRotations`, `MaxMoves`) or a named constraint of an MC module; each constant guards only the step
that adds a row, so a bound stops growth and nothing else. `CHECK_DEADLOCK` is
off because the system stops at the bounds and when all samples are final.

The cfgs name one type invariant, that of the bench record. Those of the other modules
hold on the same instances and can be added to a cfg; all are proved (`TypeCorrect`,
`TypesHoldConcurrently`, `TrailTypes`, `LockTypes`, `NumbersAreTyped`, `IntakeIsTyped`,
`FiguresTypes`, `ExchangeTypes`, `SignInTypes`).

Symmetry is used on samples, slots, batches, projects, certified values and
sessions in the runs without liveness; no definition orders them or names one.

Fairness (`AuditTrail`, `LockFairSpec`). Postgres queues waiters for an advisory
lock, and for a row, in order of arrival, so a waiting request that finds the lock
free again and again is granted it: strong fairness of `TakeLock`. A request in a
circle is aborted after `deadlock_timeout`; each member looks for itself, and one is
enough. A request that is
verifying or writing ends, by commit, or by the rollback `get_db` does when
the handler raises, the connection drops or a calendar does not answer (five
seconds each, `anchoring/__init__.py:152`): weak fairness of the step that ends
it. Nothing is assumed of requests beginning.

### Disagreements between the code and its documentation

Each of these runs ends in a violation of what the quoted text says.

| run | text | what the code does |
|---|---|---|
| `ForkedChain` | `db/models.py:461` "a chain cannot branch" | two corrections of one result find it current (`fire_assay_results/service.py:531`) and both insert; no index forbids it (readings have one) |
| `UnreadableDossier` | `qc_dossiers/service.py:249` an original "that cannot be graded yet, is a flag" | line 270 appends the flag to `advisories`, the list of the last stock crucible: without stock material in the batch the name is unbound and the dossier of a completed batch raises; with some the flag is lost |
| `NumberCollision` | `certificates/service.py:497` the retry makes a collision "a recompute instead of a 500" | `db/numbering.py:60` asks for `pgcode`, which psycopg 3 does not set (it has `sqlstate`), so the retry never runs |

Mending `NumberCollision` alone is not enough: with the retry running,
`NumbersHaveNoGap` fails (it is the mutant of that run). The retry counts again
and also adds the attempt, so every collision skips a number, and afterwards
the count is below the highest number and every later request collides first.

Also met while modelling, each reached by the same modules, without a run:
- after a return for re-assay a correction is accepted while the sample is not
  assayed, and never makes it so (`fire_assay_results/service.py:45` "the sample was
  already ``ASSAYED``"; the status is written only without a predecessor, line 323);
- a submission asks only that a seal exists and builds the dossier again; a bead
  weighed in between is sent and was never sealed (`web/routes/sentinel.py:145` "Build
  the export from the sealed dossier", `db/models.py:843`);
- issuing a certificate or importing readings can deadlock with a status change, a
  charge or a result of the same sample; the server aborts one, and nothing retries it
  (`DeadlockTakesBothSides` says which requests it takes);
- a retired flux recipe "is not a legal choice for a new charge"
  (`flux_recipes/service.py:102`), but charging does not ask whether it is retired;
- a scaling can be re-derived from a stored crucible "years later" (`domain/flux.py`),
  unless the recipe was edited: an edit overwrites the amounts, and the event keeps
  only the name;
- the solution limit of an instrument is a bare number and is read in the unit of the
  request (`fire_assay_results/service.py`, `create_solution_finish`);
- a bead whose dore is all gold reports a detected 0 g/t of silver
  (`silver_by_difference`), which `MeasuredValue` exists to avoid for gold;
- deactivating a client "prevents new submissions" (`clients/service.py:143`), but
  `SubmissionService.create` does not read the flag;
- an address that was given to somebody else makes the newcomer's first write fail on
  the unique index of `lab_user.email` (`FirstSightFailsForAReason` states when);
  `lab_user.client_id`, by which clients are scoped, is never written;
- a sample back for re-assay, which has a result, can be rejected
  (`domain/lifecycle.py:122` "before a result exists") and certified
  (`batches/service.py:16` "requires `ASSAYED`");
- a second import of an element leaves two current readings
  (`db/models.py:979` "One row per element per sample per digest method");
- a duplicate may be charged without an original in its tray, or be left there
  (`db/models.py:923`);
- a bead typed with a result and the one weighed later may differ
  (`db/models.py:876`);
- uncharging moves a sample by a step the table does not have
  (`domain/lifecycle.py:71` "The complete set of legal moves",
  `batches/service.py:418`);
- concurrently: two first results of one sample are both written, as two corrections are
  (`ForkedChain`), and so are two amendments of one certificate
  (`certificates/service.py:473`); a rejection is overwritten by a result (`domain/enums.py:34`
  "Rejected is terminal"), a batch is rewound by a slow advance
  (`domain/batch_lifecycle.py:7` "no way back"), a certificate on a forked chain
  is not flagged (`certificates/service.py:154`);
- a tray is changed after its batch went in, by a charge or uncharge decided
  before (`domain/enums.py:62` "nothing about it can be edited"); that a race is the only
  way for a tray to change or a batch to be rewound is `UnracedTrayIsSettled`;
- an anchor's hash and event id are read by two statements before the lock and
  can be of two rows (`anchoring/__init__.py:93`, `db/models.py:439`, `:441`);
- the client catches `ConnectError` and `TimeoutException` only, so a connection
  that breaks while the answer is read ends the request, and an import that
  Sentinel may have taken in is not recorded (`sentinel/client.py:7` "Every public
  function catches transport errors", `:10` "Every attempt [...] is recorded");
- rows of the exported CSV have no sample id and no batch number:
  `_qc_rows_from_dossier` reads keys the payload nests elsewhere, and exports no
  duplicates (`docs/ARCHITECTURE.md:62`);
- the verdict column is returned and never written; `get_run_evaluations` has no
  caller (`web/routes/sentinel.py:219` "Queries Sentinel");
- two dossier reads at once can set the pointer back to the older evidence, and
  one of two first reads can fail on the blob's key (`storage/blob.py:27` accepts
  the latter);
- overlapping intervals get in through two submissions at once, or, with no race,
  through two projects that both register the hole
  (`drill_holes/service.py:84` asks per project);
- `create_anchor` ignores the verdict of the verification
  (`anchoring/__init__.py:69`).

## 4. Proofs

All hold for every value of the constants that the assumptions allow; TLC checks the
same formulas on the runs above. The assumptions say what the constants are, never what
the system does:

| assumption | says |
|---|---|
| `CustodyAssumption`, `SessionAssumption` | kinds of the parameters; the null is not the name of a crucible row |
| `ChainAssumption`, `RowLocksAssumption` | edited content is told apart from the application's; samples are numbered, reports are sets of them |
| `NumberingAssumption`, `IntakeAssumption` | attempts and bound are positive; depths are numbers, an interval starts above its end (`DepthInterval` refuses others), no stated depth is no number |
| `NothingAssumption`, `RowAssumption` | `None` is no value and no row |
| `FiguresAssumption` | gold and silver are fractions, not negative; weights, limits, volume, thresholds, recipe portions and uncertainties are positive fractions (the schemas and `__post_init__` refuse others) |
| `ExchangeAssumption`, `SignInAssumption` | the null is no answer; nobody is no time and no row |

`SampleCustodyProofs`
- `TypeCorrect`: `Spec => []TypeOK`; lemmas per group of handlers, one step per
  handler.
- `TerminalStatusesHold`: every status write has asked the table or is from a
  named status; the table has no move out of the two.
- `TrayFollowsBatchHolds`: inductive as it stands with `TypeOK`, because only
  the charging and batch handlers write a tray and each asks the batch's status.
- `FiredTrayStaysFrozen`: from the two invariants.
- `NamedCrucibleHolds`: a result names only a crucible that bears a bead, which
  no open tray has (`TrayFollowsBatch`), so its slot is frozen from then on.
- `ResultsFormOneChainHolds`: the strengthening `OneChain` replaces "at most
  one head" by "any two heads are equal" (no cardinality), next to links going
  backwards and no fork. `Extrema` gives that the newest head exists.
- `CertificatesDoNotBranchHolds`: with `Linked`, the same for certificates, where a
  link stays within one client; the tables only append (`ResultsKept`,
  `ReadingsKept`, `CertificatesKept`), so what a certificate covers does not change.
- `StaleIffNotCurrentHolds`: with `FrozenExist` -- what was frozen is on record,
  under the sample it was frozen for -- and `OneChain`: a row without a successor is
  then the current one (`SupersededOrCurrent`).
- `StatusHasItsRecordHolds`, `UntouchedBeforeReadyHolds`: proved together as
  `StatusesAccountedFor`. Each of the two needs the other: a sample may be rewound
  only while nothing depends on it. What a handler has to show of a sample it moved
  is one formula, `Owed`, shown once a handler.
- `RegisterIsImplemented`: `Spec => ImplementsRegister`. Entering a result is the
  `Measure` or the `Correct` of the register because the new row is then the one head
  of its sample and no other sample's head changes (`EntryIsCurrent`); the status
  moves are `Proceed`, certificates are `Publish`, the furnace is a stutter.

`ConcurrentCustodyProofs`
- `NamedCrucibleSurvivesHolds`: the invariant `CustodyHeld`
  adds what a request in flight has decided: it fits the tables (`Fits`), and a result
  on its way names a crucible that was filled by then and, if that row is still there,
  holds its sample (`Provenance`). Every write leaves a slot vacant, keeps its contents
  or fills it as a new row (`FurnaceStep`), so a row still present is the row that was
  read; the foreign key keeps the rows of committed results.
- `UnracedTrayIsSettledHolds`: the invariant `Settled` says of a tray no advance has
  raced for that what is in flight about it is still true of it (`Sound`): a charge or an
  uncharge finds it charging, an advance finds the stage and exactly the crucibles it
  read, a parting or a weighing finds it out of the furnace. It is kept because whoever
  could falsify it would be in a race (`CommitIsOrderly`), and it makes every write
  orderly. The theorem bounds what the missing lock costs: the code has the race.
- `OneAtATimeHolds`: with one session `ConcurrentSpec => Spec`. `Legal` says that what
  was decided could be decided again; the tables stand still between the halves
  (`LegalStays`), and each write of a legal request is the step of its handler.
- `ReadingsDoNotBranch`, `RecordsNameWhatExists`: what is left of the chains when handlers
  race. Two corrections of one result both commit (`ForkedChain`); two of one reading do
  not, and everything else a record says of other rows stays true: what it corrects or
  amends is an earlier row of the same sample and client, what it froze is on record. The
  invariant `RecordsHeld` adds `Grounded`: what a request has decided names rows that
  exist. It stays true while the request waits because no table loses a row; the unique
  index on `multi_element_result.supersedes_id` does the rest: without it TLC finds the
  readings branching.
- `TablesOnlyGrow`: results, readings and certificates are append-only in every
  interleaving. `StaleMissesOnlyForks`: a stale flag is never wrong, and one is missing only
  on a sample whose results fork (two correct the same result, or are both first), so
  `ForkedChain` is the one way in which `StaleIffNotCurrent` fails under races. With two
  heads there are fewer rows to correct than rows that correct (`TwoHeadsFork`, by the
  pigeonhole principle). Checked by TLC on the instance of `ForkedChain` with certificates,
  where the unqualified statement fails.
- `TypesHoldConcurrently`: from the two invariants, with `StatusTypes` for the columns
  neither of them mentions.

`AuditTrailProofs`
- `OneWriterHolds`: the invariant is `Locked`: who writes has the lock, who has
  uncommitted rows writes, and they are newer than all committed ones.
- `GrowsAtTheEndHolds`: from `Locked`.
- `ChainVerifiesHolds`: with `Chained` -- every committed row, and every row a session
  sees, is linked to the newest before it (`Linked`) and stamped with the hash of what
  the application wrote (`Stamped`); an edit changes content only, never a link or a
  hash. Any hash will do. `Locked` makes the committed rows what the lock holder saw.
- `EditIsFoundHolds`: from `Chained`, for every hash that tells an edit from what the
  application wrote in its place (the theorem's hypothesis; no more is needed of it).
- `AnchorIsInTheTrailHolds`: with `Drafted` -- what a session has read for its
  anchor is already in the trail -- next to `Locked`; the trail only grows
  (`GrowsStep`), so what was read stays true while the session waits for the lock.
- `TrailTypes`, `LockTypes`: almost all of the type follows from the three invariants
  (`TypesFollow`); only the bounds of the counters are left to show (`Bounded`).
- `RowLocksKeepTheTrail`: `LockSpec => Spec`; each step with row locks is a step of
  the trail or leaves it alone, so the theorems above hold with deadlocks too.
- `DeadlockTakesBothSidesHolds`: the invariant is `RowsHeld` -- the office has only
  rows with smaller keys than those it still needs, the bench has its row under the
  audit lock. In a circle, take the greatest row waited for: who has it waits for no
  row, so it is of the office and waits for the audit lock, whose holder waits for a
  row (`CircleTakesBothSides`, with `MaximumExists`). It follows that either side
  taking its locks in the order of the other would end deadlocks.

`SentinelProofs`
- `ExchangeTypes`: `Spec => []TypeOK`, with `Posted` (an answer is to a send).
- `SealIsStoredHolds`: the strengthening `Sealed` says that a request that found its
  blob can count on it, because nothing removes one.
- `SealedGradesStandHolds`: the strengthening `Weighed` says the same of dossiers on
  their way as of stored ones, and that two weighings of one crucible, or one begun
  before another was written, are on record as a race.
- `RowsMatchImportsHolds`: with `Imports` -- a send is in the hands of at most one
  session, and no attempt of it is taken in twice.
- `EveryAttemptIsRecordedHolds`: with `Recorded` -- every send is in the hands of a
  session, on record, or gone in a way the client does not catch.

`SignInProofs`
- `SignInTypes`: every step keeps the state well-typed.
- `WithdrawnKeyStopsHolds`, `RotationLocksNobodyOutHolds`: the invariant `Keys` -- a
  client knows no key that was withdrawn before it was made (`Fresh`), and a request
  looks only into one that is not older than the cache may be (`InTime`) -- next to
  `Patient`, how many fetches have failed for a request by each phase.
- `OneRowAPersonHolds`, `FirstSightFailsForAReasonHolds`: the invariant `People` -- the
  rows of the table and the one row being written are pairwise unlike -- and
  `RoleOfIsGreatest`, that the role of a token is the greatest its groups give.

`IntakeProofs`
- `NumbersAreTyped`, `NoGapInNumbers`, `OnlyRacesFail`: the invariant `NumberingInv` -- the
  committed numbers are 1 to n, and what a request counted is 1 to m, a part of them, so
  its number m + 1 is either the next or taken. It needs that no attempt is ever a second
  one (`attempt[x] = 0`): with the retry running the number is m + 2 and the theorem is
  false, as section 3 says.
- `IntakeNumbers`: `IntakeSpec => Spec` of `Numbering`, so the two above hold of
  submissions (`NumbersOfIntake`, `FailuresOfIntake`).
- `SortingExists`: the permutation that puts each item at the number of items before it,
  ties broken by position. The model's sort is therefore never an empty choice, and that
  the result is sorted needs no induction over the list.
- `PairsOfList`: `find_overlaps` on any list. Of two overlapping intervals the later one
  starts before the earlier one ends; so does everything sorted between them, and the
  inner loop does not stop before it. `EveryOverlapIsFound` is this lemma with `ListsExist`
  and the fact that the received rows are finitely many.
- `OverlapsNeedRaces`: the invariant `IntakeInv` -- an offer overlaps neither itself nor
  any row its check saw (`OfferIsChecked`), and two rows that do overlap are of two
  submissions that did not see each other (`Apart`). The first becomes the second at the
  commit, whatever others have committed since the check.

`BenchFiguresProofs`
- `GcdIsGcd`, `RatioIsLowest`: Euclid's algorithm, written as a recursive function, by its
  least counterexample (`LeastExists`) instead of induction; the fractions are in lowest
  terms, so two that are equal as numbers are equal as values. The field and order laws
  of fractions follow from cross-multiplication.
- `ConversionIsExact`, `ForecastInverts`: the pure functions, for all fractions.
- `FiguresTypes` and the seven properties of the run: the invariant `FiguresInv` is
  the types, `BeadsAreTheGold`, `FluxIsScaled`, `OnePrimary` and `ResultIsOfThePrimary`. The
  last is needed because a result is compared with the tray long after it was written, and
  needs `OnePrimary`: with two primaries the tray would not say which it came from. Reports
  of any finish are one case each of `Reports` (a limit not below the truth, or the truth
  above the limit), for the balance through `BeadGrade` and for a solution through
  the flask; units only scale both sides.

Only model-checked: `EveryRequestEnds`, liveness, which rests on fairness and on which
steps are enabled. Every safety invariant, action property and refinement that a passing
run checks is a theorem.

## 5. Plan

Done: every module of section 2, and a proof of every safety property. What is left, in
this order:
1. Proofs about races: what is left of the sample statuses when handlers race, and that amendments err only where two amend one certificate at once.
2. The provenance dossier as a query over the tables of `SampleCustody`: it leaves
   out the readings, their events and those of crucibles taken out, and its queries
   see different moments.
3. Preparation records, clients and projects.

## 6. Not modelled

Clients and projects (registers whose flags no handler reads), preparation records
(nothing else reads them; their chain is a listed hazard), provenance and dashboards
(queries that change nothing), label parsing, display formats and rounding, the
signature and claims a JWT library checks, the development header that stands in for
a token, PDFs, the frontend, HTTP schemas, migrations (their constraints are modelled
where a write meets them).
