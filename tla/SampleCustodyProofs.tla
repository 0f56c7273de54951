------------------------- MODULE SampleCustodyProofs --------------------------
(***************************************************************************)
(* Theorems about SampleCustody that hold for every laboratory: any        *)
(* samples, batches, positions, roles and bounds.                          *)
(***************************************************************************)
EXTENDS SampleCustody, Extrema, FiniteSetTheorems

(***************************************************************************)
(* "The newest head" names a row whenever there is a head.                 *)
(***************************************************************************)
LEMMA CurrentResultIsAHead ==
    ASSUME results \in Seq(Result), NEW s \in Sample
    PROVE  /\ CurrentResult(s) \in Nat
           /\ CurrentResult(s) = 0 <=> Heads(results, s) = {}
           /\ CurrentResult(s) # 0 => CurrentResult(s) \in Heads(results, s)
<1> DEFINE H == Heads(results, s)
<1>1. H \subseteq 1..Len(results) /\ Len(results) \in Nat
  BY DEF Heads
<1>2. CASE H = {}
  BY <1>2 DEF CurrentResult
<1>3. CASE H # {}
  <2>1. \E m \in H : \A j \in H : j <= m
    <3> HIDE DEF H
    <3> QED BY <1>1, <1>3, MaximumExists
  <2>2. CurrentResult(s) \in H
    BY <1>3, <2>1 DEF CurrentResult
  <2> QED BY <1>1, <1>3, <2>2
<1> QED BY <1>2, <1>3

-----------------------------------------------------------------------------
(***************************************************************************)
(* Typing of the writes the handlers share.                                *)
(***************************************************************************)
LEMMA SetStatusType ==
    ASSUME status \in [Sample -> SampleStatuses],
           NEW S, NEW to \in SampleStatuses, SetStatus(S, to)
    PROVE  status' \in [Sample -> SampleStatuses]
BY DEF SetStatus

\* Writing one crucible row leaves a well-typed tray.
LEMMA SetCrucibleType ==
    ASSUME tray \in [Batch -> [Position -> Crucible \cup {Empty}]],
           NEW b \in Batch, NEW p \in Position, NEW c \in Crucible \cup {Empty},
           SetCrucible(b, p, c)
    PROVE  tray' \in [Batch -> [Position -> Crucible \cup {Empty}]]
BY DEF SetCrucible

\* The bulk crucible update of a batch transition yields a well-typed tray.
LEMMA AfterBulkType ==
    ASSUME tray \in [Batch -> [Position -> Crucible \cup {Empty}]],
           NEW b \in Batch, NEW target
    PROVE  AfterBulk(b, target) \in [Position -> Crucible \cup {Empty}]
<1> SUFFICES ASSUME NEW p \in Position
             PROVE  AfterBulk(b, target)[p] \in Crucible \cup {Empty}
  BY DEF AfterBulk
<1>1. tray[b][p] \in Crucible \cup {Empty}
  OBVIOUS
<1>2. BulkCrucibleStatus(target) # "none" => BulkCrucibleStatus(target) \in CrucibleStatuses
  BY DEF BulkCrucibleStatus, CrucibleStatuses
<1> QED BY <1>1, <1>2 DEF AfterBulk, Crucible

\* A row that is somewhere in the furnace is a real one.
LEMMA OccupiedIsCrucible ==
    ASSUME tray \in [Batch -> [Position -> Crucible \cup {Empty}]],
           NEW b \in Batch, NEW p \in Position, tray[b][p].status # "none"
    PROVE  tray[b][p] \in Crucible
BY DEF Empty

\* Storing a result row and its status change keeps every variable typed.
LEMMA WriteResultType ==
    ASSUME TypeOK, NEW s \in Sample, NEW prev \in Nat, NEW c \in Slot \cup {Nothing},
           NEW bead \in Bead \cup {Nothing}, WriteResult(s, prev, c, bead)
    PROVE  TypeOK'
<1>1. status' \in [Sample -> SampleStatuses]
  BY SetStatusType DEF WriteResult, TypeOK, SampleStatuses
<1>2. results' \in Seq(Result)
  <2>1. [sample |-> s, supersedes |-> prev, crucible |-> c, bead |-> bead] \in Result
    BY DEF Result
  <2> QED BY <2>1 DEF WriteResult, TypeOK
<1> QED BY <1>1, <1>2 DEF WriteResult, TypeOK

-----------------------------------------------------------------------------
(***************************************************************************)
(* Every step keeps every table well-typed: statuses are the closed        *)
(* vocabularies, a tray slot holds one crucible row or none, and every     *)
(* reference is to something of the right kind.                            *)
(***************************************************************************)
LEMMA BenchStepType ==
    ASSUME TypeOK, NEW role \in Staff, SampleStep(role) \/ ChargeStep(role) \/ BatchStep(role)
    PROVE  TypeOK'
<1> USE DEF bench, records
<1>1. ASSUME NEW s \in Sample, NEW target \in StatusUpdateTargets, NEW reason \in BOOLEAN,
             AdvanceSample(s, target, role, reason)
      PROVE  TypeOK'
  <2>1. target \in SampleStatuses
    BY <1>1 DEF StatusUpdateTargets, SampleStatuses
  <2> QED BY <1>1, <2>1, SetStatusType DEF AdvanceSample, TypeOK
<1>2. ASSUME NEW b \in Batch, NEW p \in Position, NEW s \in Sample,
             ChargeSample(b, p, s, role)
      PROVE  TypeOK'
  <2>1. Charged(s, FALSE) \in Crucible
    BY DEF Charged, Crucible, CrucibleStatuses
  <2>2. status' \in [Sample -> SampleStatuses]
    BY <1>2, SetStatusType DEF ChargeSample, TypeOK, SampleStatuses
  <2> QED BY <1>2, <2>1, <2>2, SetCrucibleType DEF ChargeSample, TypeOK
<1>3. ASSUME NEW b \in Batch, NEW p \in Position, NEW s \in Sample,
             ChargeDuplicate(b, p, s, role)
      PROVE  TypeOK'
  <2>1. Charged(s, TRUE) \in Crucible
    BY DEF Charged, Crucible, CrucibleStatuses
  <2> QED BY <1>3, <2>1, SetCrucibleType DEF ChargeDuplicate, TypeOK
<1>4. ASSUME NEW b \in Batch, NEW p \in Position, NEW m \in Material,
             ChargeMaterial(b, p, m, role)
      PROVE  TypeOK'
  <2>1. Charged(m, FALSE) \in Crucible
    BY DEF Charged, Crucible, CrucibleStatuses
  <2> QED BY <1>4, <2>1, SetCrucibleType DEF ChargeMaterial, TypeOK
<1>5. ASSUME NEW b \in Batch, NEW p \in Position, Uncharge(b, p, role)
      PROVE  TypeOK'
  <2>1. status' \in [Sample -> SampleStatuses]
    BY <1>5, SetStatusType DEF Uncharge, TypeOK, SampleStatuses
  <2> QED BY <1>5, <2>1, SetCrucibleType DEF Uncharge, TypeOK
<1>6. ASSUME NEW b \in Batch, OpenBatch(b, role)
      PROVE  TypeOK'
  BY <1>6 DEF OpenBatch, TypeOK, BatchStatuses
<1>7. ASSUME NEW b \in Batch, NEW target \in BatchStatuses, AdvanceBatch(b, target, role)
      PROVE  TypeOK'
  BY <1>7, AfterBulkType DEF AdvanceBatch, TypeOK
<1>8. ASSUME NEW b \in Batch, NEW p \in Position, RecordParting(b, p, role)
      PROVE  TypeOK'
  <2>1. tray[b][p] \in Crucible
    BY <1>8, OccupiedIsCrucible
       DEF RecordParting, CheckCrucibleTransition, CrucibleTransitions, TypeOK
  <2>2. [tray[b][p] EXCEPT !.status = "parted"] \in Crucible
    BY <2>1 DEF Crucible, CrucibleStatuses
  <2> QED BY <1>8, <2>2, SetCrucibleType DEF RecordParting, TypeOK
<1>9. ASSUME NEW b \in Batch, NEW p \in Position, NEW w \in Bead, RecordWeighing(b, p, w, role)
      PROVE  TypeOK'
  <2>1. tray[b][p] \in Crucible
    BY <1>9, OccupiedIsCrucible
       DEF RecordWeighing, CheckCrucibleTransition, CrucibleTransitions, TypeOK
  <2>2. [tray[b][p] EXCEPT !.status = "weighed", !.bead = w] \in Crucible
    BY <2>1 DEF Crucible, CrucibleStatuses
  <2> QED BY <1>9, <2>2, SetCrucibleType DEF RecordWeighing, TypeOK
<1> QED
  BY <1>1, <1>2, <1>3, <1>4, <1>5, <1>6, <1>7, <1>8, <1>9 DEF SampleStep, ChargeStep, BatchStep

\* The handlers of the office: results, readings and certificates.
LEMMA RecordStepType ==
    ASSUME TypeOK, NEW role \in Staff,
           ResultStep(role) \/ ReadingStep(role) \/ CertificateStep(role)
    PROVE  TypeOK'
<1> USE DEF bench, records
<1>1. ASSUME NEW s \in Sample, NEW prev \in 0..Len(results), NEW c \in Slot \cup {Nothing},
             NEW w \in Bead, NEW reason \in BOOLEAN,
             EnterGravimetric(s, prev, c, w, role, reason)
      PROVE  TypeOK'
  <2>1. ResolvedBead(c, w) \in Bead \cup {Nothing}
    <3>1. CASE c # Nothing /\ Row(c).status = "weighed"
      <4>1. PICK b \in Batch, p \in Position : c = <<b, p>>
        BY <3>1 DEF Slot
      <4>2. Row(c) \in Crucible
        BY <3>1, <4>1, OccupiedIsCrucible DEF Row, TypeOK
      <4> QED BY <3>1, <4>2 DEF ResolvedBead, Crucible
    <3>2. CASE ~(c # Nothing /\ Row(c).status = "weighed")
      BY <3>2 DEF ResolvedBead
    <3> QED BY <3>1, <3>2
  <2>2. prev \in Nat
    BY DEF TypeOK
  <2> QED BY <1>1, <2>1, <2>2, WriteResultType DEF EnterGravimetric
<1>2. ASSUME NEW s \in Sample, NEW prev \in 0..Len(results), NEW c \in Slot \cup {Nothing},
             NEW reason \in BOOLEAN, EnterSolutionFinish(s, prev, c, role, reason)
      PROVE  TypeOK'
  <2>1. prev \in Nat
    BY DEF TypeOK
  <2> QED BY <1>2, <2>1, WriteResultType DEF EnterSolutionFinish
<1>3. ASSUME NEW s \in Sample, NEW run \in Runs, NEW d \in Digest, ImportReadings(s, run, d, role)
      PROVE  TypeOK'
  <2>1. PICK n \in 1..Cardinality(Element) : run \in [1..n -> Element]
    BY DEF Runs
  <2>2. n \in Nat
    OBVIOUS
  <2> DEFINE rows == [i \in DOMAIN run |->
                       [sample |-> s, element |-> run[i], digest |-> d, supersedes |-> 0]]
  <2>3. rows \in [1..n -> Reading]
    BY <2>1 DEF Reading
  <2>4. rows \in Seq(Reading)
    <3> HIDE DEF rows
    <3> QED BY <2>2, <2>3
  <2>5. readings' \in Seq(Reading)
    <3>1. readings' = readings \o rows
      BY <1>3 DEF ImportReadings
    <3> HIDE DEF rows
    <3> QED BY <2>4, <3>1 DEF TypeOK
  <2>6. status' \in [Sample -> SampleStatuses]
    BY <1>3, SetStatusType DEF ImportReadings, TypeOK, SampleStatuses
  <2> QED BY <1>3, <2>5, <2>6 DEF ImportReadings, TypeOK
<1>4. ASSUME NEW s \in Sample, NEW e \in Element, NEW d \in Digest,
             SupersedeReading(s, e, d, role)
      PROVE  TypeOK'
  <2>1. PICK i \in CurrentOf(s, e, d) :
           readings' = Append(readings,
                        [sample |-> s, element |-> e, digest |-> d, supersedes |-> i])
    BY <1>4 DEF SupersedeReading
  <2>2. [sample |-> s, element |-> e, digest |-> d, supersedes |-> i] \in Reading
    BY <2>1 DEF CurrentOf, CurrentReadings, Heads, Reading, TypeOK
  <2>3. readings' \in Seq(Reading)
    BY <2>1, <2>2 DEF TypeOK
  <2> QED BY <1>4, <2>3 DEF SupersedeReading, TypeOK
<1>5. ASSUME NEW S \in SUBSET Sample, NEW client, NEW prev \in 0..Len(certificates),
             NEW reason \in BOOLEAN, IssueCertificate(S, client, prev, role, reason)
      PROVE  TypeOK'
  <2> DEFINE frozen   == [s \in Sample |-> IF s \in S THEN CurrentResult(s) ELSE 0]
             elements == UNION {CurrentReadings(s) : s \in S}
             cert     == [frozen |-> frozen, elements |-> elements, supersedes |-> prev]
  <2>1. frozen \in [Sample -> Nat]
    BY CurrentResultIsAHead DEF TypeOK
  <2>2. elements \in SUBSET Nat
    BY DEF CurrentReadings, Heads, TypeOK
  <2>3. prev \in Nat
    BY DEF TypeOK
  <2>4. cert \in Certificate
    <3> HIDE DEF frozen, elements
    <3> QED BY <2>1, <2>2, <2>3 DEF Certificate
  <2>5. certificates' \in Seq(Certificate)
    <3>1. certificates' = Append(certificates, cert)
      BY <1>5 DEF IssueCertificate
    <3> HIDE DEF cert
    <3> QED BY <2>4, <3>1 DEF TypeOK
  <2>6. status' \in [Sample -> SampleStatuses]
    BY <1>5, SetStatusType DEF IssueCertificate, TypeOK, SampleStatuses
  <2> QED BY <1>5, <2>5, <2>6 DEF IssueCertificate, TypeOK
<1> QED
  BY <1>1, <1>2, <1>3, <1>4, <1>5 DEF ResultStep, ReadingStep, CertificateStep

\* The two groups and the retirement of a lot together.
LEMMA NextKeepsTypes == TypeOK /\ [Next]_vars => TypeOK'
<1> SUFFICES ASSUME TypeOK, [Next]_vars PROVE TypeOK'
  OBVIOUS
<1>1. ASSUME NEW m \in Material, RetireMaterial(m) PROVE TypeOK'
  BY <1>1 DEF RetireMaterial, TypeOK, records
<1>2. CASE UNCHANGED vars
  BY <1>2 DEF vars, TypeOK
<1> QED BY <1>1, <1>2, BenchStepType, RecordStepType DEF Next

\* Every variable keeps its type under every handler (TypeOK).
THEOREM TypeCorrect == Spec => []TypeOK
<1>1. Init => TypeOK
  BY DEF Init, TypeOK, SampleStatuses
<1> QED BY <1>1, NextKeepsTypes, PTL DEF Spec

-----------------------------------------------------------------------------
(***************************************************************************)
(* Reported and rejected are terminal: no handler moves a sample out of    *)
(* them (TerminalStatuses).  Each handler that writes a status has asked   *)
(* the lifecycle table, or writes only from a status it names.             *)
(***************************************************************************)
LEMMA NoMoveOutOfTerminal ==
    ASSUME NEW source \in {"reported", "rejected"}, NEW target, NEW type, NEW role, NEW reason
    PROVE  ~CheckTransition(source, target, type, role, reason)
BY DEF CheckTransition, CheckRejection, RejectableFrom, Transitions, Move

\* TerminalStatuses: once reported or rejected a sample stays so, whichever
\* of the handlers that write a status runs.
THEOREM TerminalStatusesHold == Spec => TerminalStatuses
<1> DEFINE Stays == \A s \in Sample : status[s] \in {"reported", "rejected"} => status'[s] = status[s]
<1>1. TypeOK /\ [Next]_vars => [Stays]_vars
  <2> SUFFICES ASSUME TypeOK, Next, NEW s \in Sample, status[s] \in {"reported", "rejected"}
               PROVE  status'[s] = status[s]
    BY DEF Stays
  <2>1. ASSUME NEW role \in Staff, SampleStep(role) PROVE status'[s] = status[s]
    <3>1. PICK r \in Sample, reason \in BOOLEAN, target \in StatusUpdateTargets :
             AdvanceSample(r, target, role, reason)
      BY <2>1 DEF SampleStep
    <3>2. r # s
      BY <3>1, NoMoveOutOfTerminal DEF AdvanceSample
    <3> QED BY <3>1, <3>2 DEF AdvanceSample, SetStatus
  <2>2. ASSUME NEW role \in Staff, ChargeStep(role) PROVE status'[s] = status[s]
    <3>1. ASSUME NEW b \in Batch, NEW p \in Position, NEW r \in Sample,
                 ChargeSample(b, p, r, role)
          PROVE  status'[s] = status[s]
      <4>1. r # s
        BY <3>1, NoMoveOutOfTerminal DEF ChargeSample
      <4> QED BY <3>1, <4>1 DEF ChargeSample, SetStatus
    <3>2. ASSUME NEW b \in Batch, NEW p \in Position, Uncharge(b, p, role)
          PROVE  status'[s] = status[s]
      BY <3>2 DEF Uncharge, SetStatus, Reverted
    <3> QED BY <2>2, <3>1, <3>2 DEF ChargeStep, ChargeDuplicate, ChargeMaterial
  <2>3. ASSUME NEW role \in Staff, BatchStep(role) PROVE status'[s] = status[s]
    BY <2>3 DEF BatchStep, OpenBatch, AdvanceBatch, RecordParting, RecordWeighing
  <2>4. ASSUME NEW role \in Staff, ResultStep(role) PROVE status'[s] = status[s]
    <3>1. PICK r \in Sample, prev \in 0..Len(results), reason \in BOOLEAN :
             /\ Admit(r, prev, role)
             /\ CheckSupersession(r, prev, reason)
             /\ \E c, bead : WriteResult(r, prev, c, bead)
      BY <2>4 DEF ResultStep, EnterGravimetric, EnterSolutionFinish
    <3>2. prev = 0 => r # s
      BY <3>1, NoMoveOutOfTerminal DEF Admit, CheckSupersession
    <3> QED BY <3>1, <3>2 DEF WriteResult, SetStatus
  <2>5. ASSUME NEW role \in Staff, ReadingStep(role) PROVE status'[s] = status[s]
    <3>1. ASSUME NEW r \in Sample, NEW d \in Digest, NEW run \in Runs,
                 ImportReadings(r, run, d, role)
          PROVE  status'[s] = status[s]
      <4>1. r # s
        BY <3>1, NoMoveOutOfTerminal DEF ImportReadings, MayImport
      <4> QED BY <3>1, <4>1 DEF ImportReadings, SetStatus
    <3> QED BY <2>5, <3>1 DEF ReadingStep, SupersedeReading, bench
  <2>6. ASSUME NEW role \in Staff, CertificateStep(role) PROVE status'[s] = status[s]
    BY <2>6 DEF CertificateStep, IssueCertificate, SetStatus
  <2>7. ASSUME NEW m \in Material, RetireMaterial(m) PROVE status'[s] = status[s]
    BY <2>7 DEF RetireMaterial
  <2> QED BY <2>1, <2>2, <2>3, <2>4, <2>5, <2>6, <2>7 DEF Next
<1> QED BY <1>1, TypeCorrect, PTL DEF Spec, TerminalStatuses

-----------------------------------------------------------------------------
(***************************************************************************)
(* The furnace.  Only the charging and batch handlers write a tray, and    *)
(* what they may write is decided by the batch's status, which is why      *)
(* TrayFollowsBatch is inductive.                                          *)
(***************************************************************************)
LEMMA OthersLeaveTheFurnace ==
    ASSUME NEW role, SampleStep(role) \/ ResultStep(role) \/ ReadingStep(role) \/ CertificateStep(role)
    PROVE  UNCHANGED <<batch, tray>>
BY DEF SampleStep, ResultStep, ReadingStep, CertificateStep, AdvanceSample, EnterGravimetric,
       EnterSolutionFinish, WriteResult, ImportReadings, SupersedeReading, IssueCertificate, bench

\* What may be in the slot <<b, p>>, and that the fired batch b is not empty.
SlotFollows(b, p) ==
    tray[b][p] # Empty =>
        /\ tray[b][p].status \in StagesOf(batch[b])
        /\ (tray[b][p].bead # Nothing) <=> (tray[b][p].status = "weighed")

Occupied(b) ==
    batch[b] \notin {"unopened", "pending", "charging"} => \E p \in Position : tray[b][p] # Empty

\* A charging batch may gain or lose one charged, bead-less row.
LEMMA ChargingKeepsTray ==
    ASSUME TypeOK, TrayFollowsBatch, NEW b \in Batch, NEW p \in Position, batch[b] = "charging",
           NEW c \in {Empty} \cup {Charged(h, dup) : h \in Sample \cup Material, dup \in BOOLEAN},
           SetCrucible(b, p, c), UNCHANGED batch
    PROVE  TrayFollowsBatch'
<1> USE DEF TypeOK, SetCrucible
<1>1. ASSUME NEW a \in Batch, NEW q \in Position PROVE SlotFollows(a, q)'
  <2>1. CASE a = b /\ q = p
    <3>1. tray'[a][q] = c
      BY <2>1
    <3>2. c # Empty => c.status = "charged" /\ c.bead = Nothing
      BY DEF Charged
    <3> QED BY <2>1, <3>1, <3>2 DEF SlotFollows, StagesOf
  <2>2. CASE ~(a = b /\ q = p)
    BY <2>2 DEF SlotFollows, TrayFollowsBatch
  <2> QED BY <2>1, <2>2
<1>2. ASSUME NEW a \in Batch PROVE Occupied(a)'
  BY DEF Occupied, TrayFollowsBatch
<1> QED BY <1>1, <1>2 DEF TrayFollowsBatch, Occupied, SlotFollows

\* Opening, advancing, parting and weighing keep the tray and its batch in step.
LEMMA BatchStepFollows ==
    ASSUME TypeOK, TrayFollowsBatch, NEW role \in Staff, BatchStep(role)
    PROVE  TrayFollowsBatch'
<1> USE DEF TypeOK, SetCrucible
<1>1. ASSUME NEW b \in Batch, OpenBatch(b, role)
      PROVE  TrayFollowsBatch'
  <2>1. \A p \in Position : tray[b][p] = Empty
    BY <1>1 DEF OpenBatch, TrayFollowsBatch, StagesOf
  <2>2. ASSUME NEW a \in Batch, NEW q \in Position PROVE SlotFollows(a, q)'
    BY <1>1, <2>1 DEF OpenBatch, SlotFollows, TrayFollowsBatch
  <2>3. ASSUME NEW a \in Batch PROVE Occupied(a)'
    BY <1>1 DEF OpenBatch, Occupied, TrayFollowsBatch
  <2> QED BY <2>2, <2>3 DEF TrayFollowsBatch, Occupied, SlotFollows
<1>2. ASSUME NEW b \in Batch, NEW target \in BatchStatuses, AdvanceBatch(b, target, role)
      PROVE  TrayFollowsBatch'
  <2>1. /\ <<batch[b], target>> \in BatchTransitions
        /\ batch' = [batch EXCEPT ![b] = target]
        /\ tray' = [tray EXCEPT ![b] = AfterBulk(b, target)]
        /\ target = "in_fusion" => \E p \in Position : tray[b][p] # Empty
    BY <1>2 DEF AdvanceBatch, CheckBatchTransition
  <2>2. batch'[b] = target /\ \A a \in Batch \ {b} : batch'[a] = batch[a] /\ tray'[a] = tray[a]
    BY <2>1
  <2>3. ASSUME NEW p \in Position
        PROVE  /\ tray'[b][p] = AfterBulk(b, target)[p]
               /\ tray[b][p] = Empty <=> tray'[b][p] = Empty
    <3>1. tray'[b] = AfterBulk(b, target)
      BY <2>1
    <3>2. tray[b][p] # Empty => tray[b][p] \in Crucible
      OBVIOUS
    <3>3. BulkCrucibleStatus(target) # Empty.status
             => \A c \in Crucible : [c EXCEPT !.status = BulkCrucibleStatus(target)] # Empty
      BY DEF Crucible, Empty
    <3> QED BY <3>1, <3>2, <3>3 DEF AfterBulk, Empty
  <2>4. ASSUME NEW p \in Position PROVE SlotFollows(b, p)'
    <3> SUFFICES ASSUME tray'[b][p] # Empty
                 PROVE  /\ tray'[b][p].status \in StagesOf(target)
                        /\ (tray'[b][p].bead # Nothing) <=> (tray'[b][p].status = "weighed")
      BY <2>2 DEF SlotFollows
    <3>1. /\ tray[b][p] \in Crucible
          /\ tray[b][p].status \in StagesOf(batch[b])
          /\ (tray[b][p].bead # Nothing) <=> (tray[b][p].status = "weighed")
      BY <2>3 DEF TrayFollowsBatch
    <3>2. CASE target \in {"fused", "cupelled"}
      <4>1. tray'[b][p] = [tray[b][p] EXCEPT !.status = target]
        BY <2>3, <3>2 DEF AfterBulk, BulkCrucibleStatus
      <4>2. tray[b][p].status \in {"charged", "fused"}
        BY <2>1, <3>1, <3>2 DEF BatchTransitions, StagesOf
      <4> QED BY <3>1, <3>2, <4>1, <4>2 DEF Crucible, StagesOf, BeadBearing
    <3>3. CASE target \notin {"fused", "cupelled"}
      <4>1. tray'[b][p] = tray[b][p]
        BY <2>3, <3>3 DEF AfterBulk, BulkCrucibleStatus
      <4>2. StagesOf(batch[b]) \subseteq StagesOf(target)
        BY <2>1, <3>3 DEF BatchTransitions, StagesOf
      <4> QED BY <3>1, <4>1, <4>2
    <3> QED BY <3>2, <3>3
  <2>5. Occupied(b)'
    BY <2>1, <2>2, <2>3 DEF Occupied, TrayFollowsBatch, BatchTransitions
  <2>6. ASSUME NEW a \in Batch \ {b} PROVE Occupied(a)' /\ \A p \in Position : SlotFollows(a, p)'
    BY <2>2 DEF Occupied, SlotFollows, TrayFollowsBatch
  <2> QED BY <2>4, <2>5, <2>6 DEF TrayFollowsBatch, Occupied, SlotFollows
<1>3. ASSUME NEW b \in Batch, NEW p \in Position, NEW c \in Crucible,
             SetCrucible(b, p, c), UNCHANGED batch, tray[b][p] # Empty,
             tray[b][p].status \in BeadBearing, c.status \in BeadBearing,
             (c.bead # Nothing) <=> (c.status = "weighed")
      PROVE  TrayFollowsBatch'
  <2>1. BeadBearing = StagesOf(batch[b])
    BY <1>3 DEF TrayFollowsBatch, StagesOf, BeadBearing, BatchStatuses
  <2>2. tray'[b][p] = c /\ \A a \in Batch, q \in Position : ~(a = b /\ q = p) => tray'[a][q] = tray[a][q]
    BY <1>3
  <2>3. c # Empty
    BY DEF Crucible, CrucibleStatuses, Empty
  <2>4. ASSUME NEW a \in Batch, NEW q \in Position PROVE SlotFollows(a, q)'
    BY <1>3, <2>1, <2>2 DEF SlotFollows, TrayFollowsBatch
  <2>5. ASSUME NEW a \in Batch PROVE Occupied(a)'
    BY <1>3, <2>2, <2>3 DEF Occupied, TrayFollowsBatch
  <2> QED BY <2>4, <2>5 DEF TrayFollowsBatch, Occupied, SlotFollows
<1>4. ASSUME NEW b \in Batch, NEW p \in Position, RecordParting(b, p, role)
      PROVE  TrayFollowsBatch'
  <2>1. tray[b][p].status = "cupelled" /\ tray[b][p] # Empty /\ tray[b][p] \in Crucible
    BY <1>4 DEF RecordParting, CheckCrucibleTransition, CrucibleTransitions, Empty
  <2>2. [tray[b][p] EXCEPT !.status = "parted"] \in Crucible
    BY <2>1 DEF Crucible, CrucibleStatuses
  <2>3. tray[b][p].bead = Nothing
    BY <2>1 DEF TrayFollowsBatch
  <2> QED BY <1>3, <1>4, <2>1, <2>2, <2>3 DEF RecordParting, BeadBearing, Crucible
<1>5. ASSUME NEW b \in Batch, NEW p \in Position, NEW w \in Bead, RecordWeighing(b, p, w, role)
      PROVE  TrayFollowsBatch'
  <2>1. tray[b][p].status = "parted" /\ tray[b][p] # Empty /\ tray[b][p] \in Crucible
    BY <1>5 DEF RecordWeighing, CheckCrucibleTransition, CrucibleTransitions, Empty
  <2>2. [tray[b][p] EXCEPT !.status = "weighed", !.bead = w] \in Crucible
    BY <2>1 DEF Crucible, CrucibleStatuses
  <2>3. w # Nothing
    BY CustodyAssumption
  <2> QED BY <1>3, <1>5, <2>1, <2>2, <2>3 DEF RecordWeighing, BeadBearing, Crucible
<1> QED BY <1>1, <1>2, <1>4, <1>5 DEF BatchStep

\* Charging and uncharging keep the tray and its batch in step.
LEMMA ChargeStepFollows ==
    ASSUME TypeOK, TrayFollowsBatch, NEW role \in Staff, ChargeStep(role)
    PROVE  TrayFollowsBatch'
<1> DEFINE Rows == {Empty} \cup {Charged(h, dup) : h \in Sample \cup Material, dup \in BOOLEAN}
           Written(b, p) == /\ batch[b] = "charging" /\ UNCHANGED batch
                            /\ \E c \in Rows : SetCrucible(b, p, c)
<1>1. /\ Empty \in Rows
      /\ \A h \in Sample \cup Material, dup \in BOOLEAN : Charged(h, dup) \in Rows
  OBVIOUS
<1> HIDE DEF Rows
<1>2. ASSUME NEW b \in Batch, NEW p \in Position, NEW s \in Sample,
             ChargeSample(b, p, s, role) \/ ChargeDuplicate(b, p, s, role)
      PROVE  Written(b, p)
  BY <1>1, <1>2 DEF ChargeSample, ChargeDuplicate, OpenForCharging
<1>3. ASSUME NEW b \in Batch, NEW p \in Position, NEW m \in Material, ChargeMaterial(b, p, m, role)
      PROVE  Written(b, p)
  BY <1>1, <1>3 DEF ChargeMaterial, OpenForCharging
<1>4. ASSUME NEW b \in Batch, NEW p \in Position, Uncharge(b, p, role)
      PROVE  Written(b, p)
  BY <1>1, <1>4 DEF Uncharge
<1>5. PICK b \in Batch, p \in Position : Written(b, p)
  BY <1>2, <1>3, <1>4 DEF ChargeStep
<1> QED BY <1>5, ChargingKeepsTray DEF Rows

\* TrayFollowsBatch: the stage of every crucible is one the status of its
\* batch allows, and a fired batch is not empty: advance_batch moves the
\* rows and the batch together.
THEOREM TrayFollowsBatchHolds == Spec => []TrayFollowsBatch
<1>1. Init => TrayFollowsBatch
  BY DEF Init, TrayFollowsBatch
<1>2. TypeOK /\ TrayFollowsBatch /\ [Next]_vars => TrayFollowsBatch'
  <2> SUFFICES ASSUME TypeOK, TrayFollowsBatch, [Next]_vars PROVE TrayFollowsBatch'
    OBVIOUS
  <2>1. ASSUME UNCHANGED <<batch, tray>> PROVE TrayFollowsBatch'
    BY <2>1 DEF TrayFollowsBatch
  <2>2. ASSUME NEW m \in Material, RetireMaterial(m) PROVE UNCHANGED <<batch, tray>>
    BY <2>2 DEF RetireMaterial
  <2>3. CASE UNCHANGED vars
    BY <2>1, <2>3 DEF vars
  <2> QED
    BY <2>1, <2>2, <2>3, OthersLeaveTheFurnace, BatchStepFollows, ChargeStepFollows DEF Next
<1> QED BY <1>1, <1>2, TypeCorrect, PTL DEF Spec

(***************************************************************************)
(* A slot of a batch that left charging keeps its contents and never goes  *)
(* back a stage.                                                           *)
(***************************************************************************)
SlotFrozen(b, p) ==
    /\ tray'[b][p].holds = tray[b][p].holds
    /\ tray'[b][p].duplicate = tray[b][p].duplicate
    /\ tray[b][p] # Empty => Rank[tray'[b][p].status] >= Rank[tray[b][p].status]
    /\ tray[b][p].bead # Nothing => tray'[b][p].bead = tray[b][p].bead

\* The order of the crucible stages, stage by stage.
LEMMA RankValues ==
    /\ Rank["charged"] = 0 /\ Rank["fused"] = 1 /\ Rank["cupelled"] = 2
    /\ Rank["parted"] = 3 /\ Rank["weighed"] = 4
BY DEF Rank, CrucibleStatuses

\* A row nobody writes has not changed.
LEMMA SameSlotIsFrozen ==
    ASSUME TypeOK, NEW b \in Batch, NEW p \in Position, tray'[b][p] = tray[b][p]
    PROVE  SlotFrozen(b, p)
<1>1. tray[b][p] # Empty => tray[b][p].status \in CrucibleStatuses
  <2>1. tray[b][p] \in Crucible \cup {Empty}
    BY DEF TypeOK
  <2> QED BY <2>1 DEF Crucible
<1>2. \A c \in CrucibleStatuses : Rank[c] >= Rank[c]
  BY RankValues DEF CrucibleStatuses
<1> QED BY <1>1, <1>2 DEF SlotFrozen

\* No step changes what a fired slot holds or takes it back a stage.
LEMMA FiredSlotIsFrozen ==
    ASSUME TypeOK, TrayFollowsBatch, [Next]_vars, NEW b \in Batch, NEW p \in Position,
           batch[b] \notin {"unopened", "pending", "charging"}
    PROVE  SlotFrozen(b, p)
<1> USE DEF TypeOK
<1>1. ASSUME UNCHANGED tray PROVE SlotFrozen(b, p)
  BY <1>1, SameSlotIsFrozen
<1>2. ASSUME NEW role \in Staff, ChargeStep(role) PROVE SlotFrozen(b, p)
  <2>1. \E a \in Batch, q \in Position : batch[a] = "charging" /\ \E c : SetCrucible(a, q, c)
    BY <1>2 DEF ChargeStep, ChargeSample, ChargeDuplicate, ChargeMaterial, Uncharge, OpenForCharging
  <2>2. tray'[b] = tray[b]
    BY <2>1 DEF SetCrucible
  <2> QED BY <2>2, SameSlotIsFrozen
<1>3. ASSUME NEW role \in Staff, BatchStep(role) PROVE SlotFrozen(b, p)
  <2>1. ASSUME NEW a \in Batch, NEW target \in BatchStatuses, AdvanceBatch(a, target, role)
        PROVE  SlotFrozen(b, p)
    <3>1. tray' = [tray EXCEPT ![a] = AfterBulk(a, target)] /\ <<batch[a], target>> \in BatchTransitions
      BY <2>1 DEF AdvanceBatch, CheckBatchTransition
    <3>2. CASE a = b /\ target \in {"fused", "cupelled"} /\ tray[b][p] # Empty
      <4>1. tray'[b][p] = [tray[b][p] EXCEPT !.status = target]
        BY <3>1, <3>2 DEF AfterBulk, BulkCrucibleStatus
      <4>2. tray[b][p] \in Crucible
        BY <3>2
      <4>3. tray[b][p].status = (IF target = "fused" THEN "charged" ELSE "fused")
        BY <3>1, <3>2 DEF BatchTransitions, TrayFollowsBatch, StagesOf
      <4> QED BY <3>2, <4>1, <4>2, <4>3, RankValues DEF SlotFrozen, Crucible
    <3>3. CASE ~(a = b /\ target \in {"fused", "cupelled"} /\ tray[b][p] # Empty)
      <4>1. tray'[b][p] = tray[b][p]
        BY <3>1, <3>3 DEF AfterBulk, BulkCrucibleStatus
      <4> QED BY <4>1, SameSlotIsFrozen
    <3> QED BY <3>2, <3>3
  <2>2. ASSUME NEW a \in Batch, NEW q \in Position, RecordParting(a, q, role)
        PROVE  SlotFrozen(b, p)
    <3>1. tray[a][q].status = "cupelled" /\ tray[a][q] \in Crucible
      BY <2>2 DEF RecordParting, CheckCrucibleTransition, CrucibleTransitions, Empty
    <3>2. CASE a = b /\ q = p
      <4>1. tray'[b][p] = [tray[b][p] EXCEPT !.status = "parted"]
        BY <2>2, <3>2 DEF RecordParting, SetCrucible
      <4> QED BY <3>1, <3>2, <4>1, RankValues DEF SlotFrozen, Crucible
    <3>3. CASE ~(a = b /\ q = p)
      BY <2>2, <3>3, SameSlotIsFrozen DEF RecordParting, SetCrucible
    <3> QED BY <3>2, <3>3
  <2>3. ASSUME NEW a \in Batch, NEW q \in Position, NEW w \in Bead, RecordWeighing(a, q, w, role)
        PROVE  SlotFrozen(b, p)
    <3>1. tray[a][q].status = "parted" /\ tray[a][q] # Empty /\ tray[a][q] \in Crucible
      BY <2>3 DEF RecordWeighing, CheckCrucibleTransition, CrucibleTransitions, Empty
    <3>2. CASE a = b /\ q = p
      <4>1. tray'[b][p] = [tray[b][p] EXCEPT !.status = "weighed", !.bead = w]
        BY <2>3, <3>2 DEF RecordWeighing, SetCrucible
      <4>2. tray[b][p].bead = Nothing
        BY <3>1, <3>2 DEF TrayFollowsBatch
      <4> QED BY <3>1, <3>2, <4>1, <4>2, RankValues DEF SlotFrozen, Crucible
    <3>3. CASE ~(a = b /\ q = p)
      BY <2>3, <3>3, SameSlotIsFrozen DEF RecordWeighing, SetCrucible
    <3> QED BY <3>2, <3>3
  <2> QED BY <1>1, <1>3, <2>1, <2>2, <2>3 DEF BatchStep, OpenBatch
<1>4. ASSUME NEW m \in Material, RetireMaterial(m) PROVE UNCHANGED tray
  BY <1>4 DEF RetireMaterial
<1>5. CASE UNCHANGED vars
  BY <1>1, <1>5 DEF vars
<1> QED BY <1>1, <1>2, <1>3, <1>4, <1>5, OthersLeaveTheFurnace DEF Next

(***************************************************************************)
(* The closed tray: nothing enters, leaves or goes back once the batch has *)
(* left charging (FiredTrayIsFrozen).                                      *)
(***************************************************************************)
THEOREM FiredTrayStaysFrozen == Spec => FiredTrayIsFrozen
<1> DEFINE Frozen == \A b \in Batch, p \in Position :
                        batch[b] \notin {"unopened", "pending", "charging"} => SlotFrozen(b, p)
<1>1. TypeOK /\ TrayFollowsBatch /\ [Next]_vars => [Frozen]_vars
  BY FiredSlotIsFrozen
<1>2. [Frozen]_vars => [\A b \in Batch, p \in Position :
         batch[b] \notin {"unopened", "pending", "charging"} =>
            /\ tray'[b][p].holds = tray[b][p].holds
            /\ tray'[b][p].duplicate = tray[b][p].duplicate
            /\ tray[b][p] # Empty => Rank[tray'[b][p].status] >= Rank[tray[b][p].status]
            /\ tray[b][p].bead # Nothing => tray'[b][p].bead = tray[b][p].bead]_vars
  BY DEF SlotFrozen
<1> QED BY <1>1, <1>2, TypeCorrect, TrayFollowsBatchHolds, PTL DEF Spec, FiredTrayIsFrozen

(***************************************************************************)
(* What a result says of its crucible stays true (NamedCrucibleMadeTheBead):*)
(* it was checked on entry, and the slot is frozen ever after.             *)
(***************************************************************************)
Entered(role, s, prev, c, reason) ==
    /\ Admit(s, prev, role)
    /\ CheckProvenance(s, c)
    /\ CheckSupersession(s, prev, reason)
    /\ \E bead : WriteResult(s, prev, c, bead)

\* A result row is only ever added, and by a request that passed every check.
LEMMA ResultsOnlyGrow ==
    ASSUME [Next]_vars
    PROVE  \/ UNCHANGED results
           \/ \E role \in Staff, s \in Sample, prev \in 0..Len(results), c \in Slot \cup {Nothing},
                 reason \in BOOLEAN : Entered(role, s, prev, c, reason)
<1>1. ASSUME NEW role \in Staff, ~ResultStep(role),
             SampleStep(role) \/ ChargeStep(role) \/ BatchStep(role) \/ ReadingStep(role)
               \/ CertificateStep(role)
      PROVE  UNCHANGED results
  BY <1>1 DEF SampleStep, ChargeStep, BatchStep, ReadingStep, CertificateStep, AdvanceSample,
     ChargeSample, ChargeDuplicate, ChargeMaterial, Uncharge, OpenBatch, AdvanceBatch,
     RecordParting, RecordWeighing, ImportReadings, SupersedeReading, IssueCertificate, records
<1>2. ASSUME NEW m \in Material, RetireMaterial(m) PROVE UNCHANGED results
  BY <1>2 DEF RetireMaterial, records
<1>3. ASSUME NEW role \in Staff, ResultStep(role)
      PROVE  \E s \in Sample, prev \in 0..Len(results), c \in Slot \cup {Nothing},
                 reason \in BOOLEAN : Entered(role, s, prev, c, reason)
  BY <1>3 DEF ResultStep, EnterGravimetric, EnterSolutionFinish, Entered
<1> QED BY <1>1, <1>2, <1>3 DEF Next, vars

BeadFrom(c, s, t) == t[c[1]][c[2]].holds = s /\ t[c[1]][c[2]].status \in BeadBearing

\* NamedCrucibleMadeTheBead: the crucible a result names holds its sample and
\* has made a bead, long after create_result looked.
THEOREM NamedCrucibleHolds == Spec => []NamedCrucibleMadeTheBead
<1>1. Init => NamedCrucibleMadeTheBead
  BY DEF Init, NamedCrucibleMadeTheBead
<1>2. TypeOK /\ TypeOK' /\ TrayFollowsBatch /\ NamedCrucibleMadeTheBead /\ [Next]_vars
        => NamedCrucibleMadeTheBead'
  <2> SUFFICES ASSUME TypeOK, TypeOK', TrayFollowsBatch, NamedCrucibleMadeTheBead, [Next]_vars
               PROVE  NamedCrucibleMadeTheBead'
    OBVIOUS
  <2> USE DEF TypeOK
  <2>1. ASSUME NEW c \in Slot, NEW s \in Sample, BeadFrom(c, s, tray)
        PROVE  BeadFrom(c, s, tray')
    <3>1. PICK b \in Batch, p \in Position : c = <<b, p>>
      BY DEF Slot
    <3>2. tray[b][p].holds = s /\ tray[b][p].status \in BeadBearing /\ tray[b][p] # Empty
      BY <2>1, <3>1 DEF BeadFrom, Empty, BeadBearing
    <3>3. batch[b] \notin {"unopened", "pending", "charging"}
      BY <3>2 DEF TrayFollowsBatch, StagesOf, BeadBearing
    <3>4. SlotFrozen(b, p)
      BY <3>3, FiredSlotIsFrozen
    <3>5. tray'[b][p] \in Crucible
      <4>1. tray'[b][p].holds # Nothing
        BY <3>2, <3>4, CustodyAssumption DEF SlotFrozen
      <4> QED BY <4>1 DEF Empty
    <3>6. tray'[b][p].status \in BeadBearing
      BY <3>2, <3>4, <3>5, RankValues DEF SlotFrozen, BeadBearing, Crucible, CrucibleStatuses
    <3> QED BY <3>1, <3>2, <3>4, <3>6 DEF SlotFrozen, BeadFrom
  <2>2. ASSUME NEW i \in DOMAIN results, results[i].crucible # Nothing
        PROVE  BeadFrom(results[i].crucible, results[i].sample, tray')
    <3>1. results[i].crucible \in Slot /\ results[i].sample \in Sample
      <4>1. results[i] \in Result
        BY <2>2
      <4> QED BY <2>2, <4>1 DEF Result
    <3>2. BeadFrom(results[i].crucible, results[i].sample, tray)
      BY <2>2 DEF NamedCrucibleMadeTheBead, BeadFrom, Row
    <3> QED BY <2>1, <3>1, <3>2
  <2>3. CASE UNCHANGED results
    BY <2>2, <2>3 DEF NamedCrucibleMadeTheBead, BeadFrom, Row
  <2>4. ASSUME NEW s \in Sample, NEW prev \in 0..Len(results), NEW c \in Slot \cup {Nothing}, NEW bead,
               CheckProvenance(s, c), WriteResult(s, prev, c, bead)
        PROVE  NamedCrucibleMadeTheBead'
    <3> DEFINE row == [sample |-> s, supersedes |-> prev, crucible |-> c, bead |-> bead]
    <3>1. results' = Append(results, row)
      BY <2>4 DEF WriteResult
    <3>2. c # Nothing => BeadFrom(c, s, tray')
      BY <2>1, <2>4 DEF CheckProvenance, BeadFrom, Row
    <3>3. ASSUME NEW i \in DOMAIN results', results'[i].crucible # Nothing
          PROVE  BeadFrom(results'[i].crucible, results'[i].sample, tray')
      <4>1. CASE i = Len(results) + 1
        <5>1. results'[i] = row
          BY <3>1, <4>1
        <5> QED BY <3>2, <3>3, <5>1
      <4>2. CASE i # Len(results) + 1
        <5>1. i \in DOMAIN results /\ results'[i] = results[i]
          <6> HIDE DEF row
          <6> QED BY <3>1, <3>3, <4>2
        <5> QED BY <2>2, <3>3, <5>1
      <4> QED BY <4>1, <4>2
    <3> QED BY <3>3 DEF NamedCrucibleMadeTheBead, BeadFrom, Row
  <2> QED BY <2>3, <2>4, ResultsOnlyGrow DEF Entered
<1> QED BY <1>1, <1>2, TypeCorrect, TrayFollowsBatchHolds, PTL DEF Spec

-----------------------------------------------------------------------------
(***************************************************************************)
(* The records of the bench: chains of results and of certificates never   *)
(* branch, a certificate knows when it is stale, every status is accounted *)
(* for, and the whole implements the register.                             *)
(***************************************************************************)
(***************************************************************************)
(* "At most one head" as it is kept by the handlers: any two heads are the *)
(* same row.  A correction is only taken when it names the current result, *)
(* and there is only one head for it to be.                                *)
(***************************************************************************)
LinksBackwards ==
    \A i \in DOMAIN results :
        results[i].supersedes # 0 =>
            /\ results[i].supersedes < i
            /\ results[results[i].supersedes].sample = results[i].sample

NoFork ==
    \A i, j \in DOMAIN results :
        results[i].supersedes = results[j].supersedes /\ results[i].supersedes # 0 => i = j

OneHead == \A s \in Sample : \A i, j \in Heads(results, s) : i = j

OneChain == LinksBackwards /\ NoFork /\ OneHead

\* A result entry that passed its checks extends the one chain of its sample.
LEMMA EntryKeepsOneChain ==
    ASSUME TypeOK, OneChain, NEW role, NEW s \in Sample, NEW prev \in 0..Len(results),
           NEW c, NEW reason, Entered(role, s, prev, c, reason)
    PROVE  OneChain'
<1> USE DEF TypeOK
<1> DEFINE n == Len(results)
<1>1. PICK row : /\ results' = Append(results, row)
                 /\ row.sample = s
                 /\ row.supersedes = prev
  BY DEF Entered, WriteResult
<1>2. /\ n \in Nat
      /\ DOMAIN results = 1..n
      /\ DOMAIN results' = 1..(n + 1)
      /\ results'[n + 1] = row
      /\ \A i \in 1..n : results'[i] = results[i]
  BY <1>1
<1>3. \A i \in 1..n : results[i] \in Result /\ results[i].supersedes \in Nat
  <2>1. \A i \in 1..n : results[i] \in Result
    BY <1>2
  <2> QED BY <2>1 DEF Result
<1>4. /\ prev = 0 => Heads(results, s) = {}
      /\ prev # 0 => prev \in Heads(results, s)
  BY CurrentResultIsAHead DEF Entered, CheckSupersession
<1>5. prev # 0 => /\ prev \in 1..n
                  /\ results[prev].sample = s
                  /\ \A j \in 1..n : results[j].supersedes # prev
  BY <1>2, <1>4 DEF Heads, Superseded
<1> HIDE DEF n
<1>6. LinksBackwards'
  <2> SUFFICES ASSUME NEW i \in 1..(n + 1), results'[i].supersedes # 0
               PROVE  /\ results'[i].supersedes < i
                      /\ results'[results'[i].supersedes].sample = results'[i].sample
    BY <1>2 DEF LinksBackwards
  <2>1. CASE i = n + 1
    BY <1>1, <1>2, <1>5, <2>1
  <2>2. CASE i \in 1..n
    <3>1. /\ results[i].supersedes < i
          /\ results[results[i].supersedes].sample = results[i].sample
      BY <1>2, <2>2 DEF OneChain, LinksBackwards
    <3>2. results[i].supersedes \in 1..n
      BY <1>2, <1>3, <2>2, <3>1
    <3> QED BY <1>2, <2>2, <3>1, <3>2
  <2> QED BY <1>2, <2>1, <2>2
<1>7. NoFork'
  <2> SUFFICES ASSUME NEW i \in 1..(n + 1), NEW j \in 1..(n + 1),
                      results'[i].supersedes = results'[j].supersedes, results'[i].supersedes # 0
               PROVE  i = j
    BY <1>2 DEF NoFork
  <2>1. CASE i \in 1..n /\ j \in 1..n
    BY <1>2, <2>1 DEF OneChain, NoFork
  <2>2. CASE i = n + 1 /\ j \in 1..n
    BY <1>1, <1>2, <1>5, <2>2
  <2>3. CASE j = n + 1 /\ i \in 1..n
    BY <1>1, <1>2, <1>5, <2>3
  <2> QED BY <1>2, <2>1, <2>2, <2>3
<1>8. OneHead'
  <2>1. ASSUME NEW r \in Sample, NEW i \in Heads(results, r)'
        PROVE  /\ i = n + 1 => r = s
               /\ i # n + 1 => i \in Heads(results, r) /\ r # s
    <3>1. i \in 1..(n + 1) /\ results'[i].sample = r
          /\ \A j \in 1..(n + 1) : results'[j].supersedes # i
      BY <1>2, <2>1 DEF Heads, Superseded
    <3>2. CASE i = n + 1
      BY <1>1, <1>2, <3>1, <3>2
    <3>3. CASE i # n + 1
      <4>1. i \in 1..n
        BY <1>2, <3>1, <3>3
      <4>2. i \in Heads(results, r)
        BY <1>2, <3>1, <4>1 DEF Heads, Superseded
      <4>3. i # prev
        BY <1>1, <1>2, <3>1
      <4> QED BY <1>4, <3>3, <4>2, <4>3 DEF OneChain, OneHead
    <3> QED BY <3>2, <3>3
  <2> QED BY <2>1 DEF OneChain, OneHead
<1> QED BY <1>6, <1>7, <1>8 DEF OneChain

\* OneChain is kept by every step.
THEOREM OneChainHolds == Spec => []OneChain
<1>1. Init => OneChain
  BY DEF Init, OneChain, LinksBackwards, NoFork, OneHead, Heads
<1>2. TypeOK /\ OneChain /\ [Next]_vars => OneChain'
  <2> SUFFICES ASSUME TypeOK, OneChain, [Next]_vars PROVE OneChain'
    OBVIOUS
  <2>1. CASE UNCHANGED results
    BY <2>1 DEF OneChain, LinksBackwards, NoFork, OneHead, Heads, Superseded
  <2> QED BY <2>1, ResultsOnlyGrow, EntryKeepsOneChain
<1> QED BY <1>1, <1>2, TypeCorrect, PTL DEF Spec

(***************************************************************************)
(* A sample's results form one chain (ResultsFormOneChain).                *)
(***************************************************************************)
THEOREM ResultsFormOneChainHolds == Spec => []ResultsFormOneChain
<1>1. TypeOK /\ OneChain => ResultsFormOneChain
  <2> SUFFICES ASSUME TypeOK, OneChain, NEW s \in Sample PROVE Cardinality(Heads(results, s)) <= 1
    BY DEF OneChain, LinksBackwards, NoFork, ResultsFormOneChain
  <2>1. CASE Heads(results, s) = {}
    BY <2>1, FS_EmptySet
  <2>2. CASE Heads(results, s) # {}
    <3>1. PICK i \in Heads(results, s) : Heads(results, s) = {i}
      BY <2>2 DEF OneChain, OneHead
    <3>2. Cardinality({i}) = 1
      BY FS_Singleton
    <3>3. Cardinality(Heads(results, s)) = 1
      BY <3>1, <3>2
    <3> QED BY <3>3
  <2> QED BY <2>1, <2>2
<1> QED BY <1>1, OneChainHolds, TypeCorrect, PTL

-----------------------------------------------------------------------------
(***************************************************************************)
(* What the handlers leave alone.  Results, readings and certificates are  *)
(* only ever added, and the furnace handlers never change what a slot      *)
(* holds except by charging and taking out.                                *)
(***************************************************************************)
Keeps(rows, later) ==
    /\ DOMAIN rows \subseteq DOMAIN later
    /\ \A i \in DOMAIN rows : later[i] = rows[i]

LEMMA ResultsKept == ASSUME TypeOK, [Next]_vars PROVE Keeps(results, results')
<1>1. ASSUME NEW row, results' = Append(results, row) PROVE Keeps(results, results')
  BY <1>1 DEF TypeOK, Keeps
<1>2. CASE UNCHANGED results
  BY <1>2 DEF Keeps
<1>3. CASE \E role \in Staff, s \in Sample, prev \in 0..Len(results), c \in Slot \cup {Nothing},
              reason \in BOOLEAN : Entered(role, s, prev, c, reason)
  BY <1>1, <1>3 DEF Entered, WriteResult
<1> QED BY <1>2, <1>3, ResultsOnlyGrow

\* The rows an import of n elements adds come after all the others.
LEMMA ImportAppends ==
    ASSUME TypeOK, NEW s \in Sample, NEW run \in Runs, NEW d \in Digest, NEW role,
           ImportReadings(s, run, d, role)
    PROVE  /\ Keeps(readings, readings')
           /\ \A i \in DOMAIN readings' \ DOMAIN readings :
                 readings'[i].sample = s /\ readings'[i].supersedes = 0
           /\ Len(readings) + 1 \in DOMAIN readings'
<1>1. PICK n \in 1..Cardinality(Element) : run \in [1..n -> Element]
  BY DEF Runs
<1>2. n \in Nat /\ 1 <= n
  OBVIOUS
<1> DEFINE rows == [i \in DOMAIN run |->
                     [sample |-> s, element |-> run[i], digest |-> d, supersedes |-> 0]]
<1>3. rows \in [1..n -> Reading]
  BY <1>1 DEF Reading
<1>4. \A i \in 1..n : rows[i].sample = s /\ rows[i].supersedes = 0
  BY <1>1
<1>5. readings' = readings \o rows
  BY DEF ImportReadings
<1>6. readings \in Seq(Reading)
  BY DEF TypeOK
<1> HIDE DEF rows
<1>7. rows \in Seq(Reading) /\ Len(rows) = n
  BY <1>2, <1>3
<1>8. /\ DOMAIN readings = 1..Len(readings)
      /\ DOMAIN readings' = 1..(Len(readings) + n)
      /\ Len(readings) \in Nat
  <2>1. Len(readings') = Len(readings) + n /\ readings' \in Seq(Reading)
    BY <1>5, <1>6, <1>7
  <2> QED BY <1>6, <2>1
<1>9. /\ \A i \in 1..Len(readings) : readings'[i] = readings[i]
      /\ \A i \in (Len(readings) + 1)..(Len(readings) + n) :
            readings'[i] = rows[i - Len(readings)]
  BY <1>2, <1>5, <1>6, <1>7, <1>8
<1>10. \A i \in DOMAIN readings' \ DOMAIN readings :
          readings'[i].sample = s /\ readings'[i].supersedes = 0
  <2> SUFFICES ASSUME NEW i \in (Len(readings) + 1)..(Len(readings) + n)
               PROVE  readings'[i].sample = s /\ readings'[i].supersedes = 0
    BY <1>2, <1>8
  <2>1. i - Len(readings) \in 1..n
    BY <1>2, <1>8
  <2> QED BY <1>4, <1>9, <2>1
<1> QED BY <1>2, <1>8, <1>9, <1>10 DEF Keeps

LEMMA SupersedeAppends ==
    ASSUME TypeOK, NEW s \in Sample, NEW e \in Element, NEW d \in Digest, NEW role,
           SupersedeReading(s, e, d, role)
    PROVE  /\ Keeps(readings, readings')
           /\ \E i \in DOMAIN readings : readings[i].sample = s
           /\ \A i \in DOMAIN readings' \ DOMAIN readings : readings'[i].sample = s
<1>1. PICK i \in CurrentOf(s, e, d) :
         readings' = Append(readings, [sample |-> s, element |-> e, digest |-> d, supersedes |-> i])
  BY DEF SupersedeReading
<1>2. i \in DOMAIN readings /\ readings[i].sample = s
  BY DEF CurrentOf, CurrentReadings, Heads
<1>3. PICK row : readings' = Append(readings, row) /\ row.sample = s
  BY <1>1
<1> QED BY <1>2, <1>3 DEF TypeOK, Keeps

LEMMA ReadingsKept == ASSUME TypeOK, [Next]_vars PROVE Keeps(readings, readings')
<1>1. CASE UNCHANGED readings
  BY <1>1 DEF Keeps
<1>2. ASSUME NEW role \in Staff, ReadingStep(role) PROVE Keeps(readings, readings')
  BY <1>2, ImportAppends, SupersedeAppends DEF ReadingStep
<1>3. ASSUME NEW role \in Staff, SampleStep(role) \/ ChargeStep(role) \/ BatchStep(role)
                                   \/ ResultStep(role) \/ CertificateStep(role)
      PROVE  UNCHANGED readings
  BY <1>3 DEF SampleStep, ChargeStep, BatchStep, ResultStep, CertificateStep, AdvanceSample,
     ChargeSample, ChargeDuplicate, ChargeMaterial, Uncharge, OpenBatch, AdvanceBatch,
     RecordParting, RecordWeighing, EnterGravimetric, EnterSolutionFinish, WriteResult,
     IssueCertificate, records
<1>4. ASSUME NEW m \in Material, RetireMaterial(m) PROVE UNCHANGED readings
  BY <1>4 DEF RetireMaterial, records
<1> QED BY <1>1, <1>2, <1>3, <1>4 DEF Next, vars

-----------------------------------------------------------------------------
(***************************************************************************)
(* Certificates: only issued, never changed.                               *)
(***************************************************************************)
LEMMA CertificatesOnlyGrow ==
    ASSUME [Next]_vars
    PROVE  \/ UNCHANGED certificates
           \/ \E role \in Staff, S \in SUBSET Sample, client \in {ClientOf[s] : s \in Sample},
                 prev \in 0..Len(certificates), reason \in BOOLEAN :
                 IssueCertificate(S, client, prev, role, reason)
<1>1. ASSUME NEW role \in Staff, SampleStep(role) \/ ChargeStep(role) \/ BatchStep(role)
                                   \/ ResultStep(role) \/ ReadingStep(role)
      PROVE  UNCHANGED certificates
  BY <1>1 DEF SampleStep, ChargeStep, BatchStep, ResultStep, ReadingStep, AdvanceSample,
     ChargeSample, ChargeDuplicate, ChargeMaterial, Uncharge, OpenBatch, AdvanceBatch,
     RecordParting, RecordWeighing, EnterGravimetric, EnterSolutionFinish, WriteResult,
     ImportReadings, SupersedeReading, records
<1>2. ASSUME NEW m \in Material, RetireMaterial(m) PROVE UNCHANGED certificates
  BY <1>2 DEF RetireMaterial, records
<1> QED BY <1>1, <1>2 DEF Next, vars, CertificateStep

\* What the new certificate says, and that the older ones stay.
LEMMA NewCertificate ==
    ASSUME TypeOK, NEW S \in SUBSET Sample, NEW client, NEW prev, NEW role, NEW reason,
           IssueCertificate(S, client, prev, role, reason)
    PROVE  /\ Len(certificates) \in Nat
           /\ DOMAIN certificates = 1..Len(certificates)
           /\ DOMAIN certificates' = 1..(Len(certificates) + 1)
           /\ Keeps(certificates, certificates')
           /\ certificates'[Len(certificates) + 1].supersedes = prev
           /\ certificates'[Len(certificates) + 1].elements = UNION {CurrentReadings(s) : s \in S}
           /\ \A s \in Sample : certificates'[Len(certificates) + 1].frozen[s]
                                  = IF s \in S THEN CurrentResult(s) ELSE 0
<1>1. PICK row : /\ certificates' = Append(certificates, row)
                 /\ row.supersedes = prev
                 /\ row.elements = UNION {CurrentReadings(s) : s \in S}
                 /\ \A s \in Sample : row.frozen[s] = IF s \in S THEN CurrentResult(s) ELSE 0
  BY DEF IssueCertificate
<1>2. certificates \in Seq(Certificate)
  BY DEF TypeOK
<1>3. certificates'[Len(certificates) + 1] = row
  BY <1>1, <1>2
<1>4. /\ Len(certificates) \in Nat
      /\ DOMAIN certificates = 1..Len(certificates)
      /\ DOMAIN certificates' = 1..(Len(certificates) + 1)
      /\ Keeps(certificates, certificates')
  BY <1>1, <1>2 DEF Keeps
<1> QED BY <1>1, <1>3, <1>4

LEMMA CertificatesKept == ASSUME TypeOK, [Next]_vars PROVE Keeps(certificates, certificates')
<1>1. CASE UNCHANGED certificates
  BY <1>1 DEF Keeps
<1> QED BY <1>1, CertificatesOnlyGrow, NewCertificate

\* CertificatesDoNotBranch of any table of certificates.
CoveredBy(cert) == {s \in Sample : cert.frozen[s] # 0}

Linked(certs) ==
    \A i, j \in DOMAIN certs :
        certs[i].supersedes # 0 =>
            /\ certs[i].supersedes < i
            /\ certs[j].supersedes = certs[i].supersedes => i = j
            /\ \A s \in CoveredBy(certs[i]), r \in CoveredBy(certs[certs[i].supersedes]) :
                  ClientOf[s] = ClientOf[r]

\* A certificate that names nothing, or one of its client not yet replaced.
LEMMA LinkedGrows ==
    ASSUME NEW certs \in Seq(Certificate), Linked(certs), NEW cert, NEW client,
           \A s \in CoveredBy(cert) : ClientOf[s] = client,
           cert.supersedes # 0 =>
              /\ cert.supersedes \in DOMAIN certs
              /\ \A c \in DOMAIN certs : certs[c].supersedes # cert.supersedes
              /\ \A r \in CoveredBy(certs[cert.supersedes]) : ClientOf[r] = client
    PROVE  Linked(Append(certs, cert))
<1> DEFINE n == Len(certs)
           later == Append(certs, cert)
<1>1. /\ n \in Nat
      /\ DOMAIN certs = 1..n
      /\ DOMAIN later = 1..(n + 1)
      /\ later[n + 1] = cert
      /\ \A c \in 1..n : later[c] = certs[c]
  OBVIOUS
<1>2. \A c \in 1..n : certs[c].supersedes \in Nat
  <2>1. \A c \in 1..n : certs[c] \in Certificate
    BY <1>1
  <2> QED BY <2>1 DEF Certificate
<1> HIDE DEF n, later
<1>3. ASSUME NEW i \in 1..(n + 1), NEW j \in 1..(n + 1), later[i].supersedes # 0
      PROVE  /\ later[i].supersedes < i
             /\ later[j].supersedes = later[i].supersedes => i = j
             /\ \A s \in CoveredBy(later[i]), r \in CoveredBy(later[later[i].supersedes]) :
                   ClientOf[s] = ClientOf[r]
  <2>1. CASE i = n + 1
    <3>1. later[i] = cert
      BY <1>1, <2>1
    <3>2. later[i].supersedes \in 1..n
      BY <1>1, <1>3, <3>1
    <3> QED BY <1>1, <1>3, <2>1, <3>1, <3>2
  <2>2. CASE i \in 1..n
    <3>1. /\ certs[i].supersedes < i
          /\ \A c \in 1..n : certs[c].supersedes = certs[i].supersedes => i = c
          /\ \A s \in CoveredBy(certs[i]), r \in CoveredBy(certs[certs[i].supersedes]) :
                ClientOf[s] = ClientOf[r]
      BY <1>1, <1>3, <2>2 DEF Linked
    <3>2. later[i] = certs[i] /\ certs[i].supersedes \in 1..n
      BY <1>1, <1>2, <1>3, <2>2, <3>1
    <3>3. later[j].supersedes = later[i].supersedes => i = j
      BY <1>1, <1>3, <2>2, <3>1, <3>2
    <3> QED BY <1>1, <3>1, <3>2, <3>3
  <2> QED BY <1>1, <2>1, <2>2
<1>4. Linked(later)
  BY <1>1, <1>3 DEF Linked
<1> QED BY <1>4 DEF later

\* CertificatesDoNotBranch: a certificate replaces an earlier one of its client
\* that nothing else replaces.
THEOREM CertificatesDoNotBranchHolds == Spec => []CertificatesDoNotBranch
<1>1. Init => Linked(certificates)
  BY DEF Init, Linked
<1>2. TypeOK /\ Linked(certificates) /\ [Next]_vars => Linked(certificates)'
  <2> SUFFICES ASSUME TypeOK, Linked(certificates), [Next]_vars
               PROVE  Linked(certificates')
    BY DEF Linked, CoveredBy
  <2>1. CASE UNCHANGED certificates
    BY <2>1
  <2>2. ASSUME NEW role, NEW S \in SUBSET Sample, NEW client, NEW prev \in 0..Len(certificates),
               NEW reason, IssueCertificate(S, client, prev, role, reason)
        PROVE  Linked(certificates')
    <3>1. PICK cert : /\ certificates' = Append(certificates, cert)
                      /\ cert.supersedes = prev
                      /\ \A s \in Sample : cert.frozen[s] = IF s \in S THEN CurrentResult(s) ELSE 0
      BY <2>2 DEF IssueCertificate
    <3>2. \A s \in CoveredBy(cert) : ClientOf[s] = client
      BY <2>2, <3>1 DEF CoveredBy, IssueCertificate, ResolveSamples
    <3>3. prev # 0 =>
              /\ prev \in DOMAIN certificates
              /\ \A c \in DOMAIN certificates : certificates[c].supersedes # prev
              /\ \A r \in CoveredBy(certificates[prev]) : ClientOf[r] = client
      BY <2>2 DEF IssueCertificate, ResolveSupersession, Superseded, Covers, CoveredBy
    <3>4. certificates \in Seq(Certificate)
      BY DEF TypeOK
    <3> QED BY <3>1, <3>2, <3>3, <3>4, LinkedGrows
  <2> QED BY <2>1, <2>2, CertificatesOnlyGrow
<1>3. Linked(certificates) => CertificatesDoNotBranch
  BY DEF Linked, CertificatesDoNotBranch, Covers, CoveredBy
<1> QED BY <1>1, <1>2, <1>3, TypeCorrect, PTL DEF Spec

-----------------------------------------------------------------------------
(***************************************************************************)
(* Staleness.  What a certificate froze was current and is still on record,*)
(* so "has a successor" and "is not the current one" are the same thing.   *)
(***************************************************************************)
FrozenIn(cert, rows, values) ==
    /\ \A s \in Sample : cert.frozen[s] # 0 =>
          /\ cert.frozen[s] \in DOMAIN rows
          /\ rows[cert.frozen[s]].sample = s
    /\ cert.elements \subseteq DOMAIN values

FrozenExist == \A c \in DOMAIN certificates : FrozenIn(certificates[c], results, readings)

\* Rows that stay are still there to be named.
LEMMA FrozenStays ==
    ASSUME NEW cert, NEW rows, NEW values, NEW rowsLater, NEW valuesLater,
           FrozenIn(cert, rows, values), Keeps(rows, rowsLater), Keeps(values, valuesLater)
    PROVE  FrozenIn(cert, rowsLater, valuesLater)
BY DEF FrozenIn, Keeps

LEMMA FrozenExistStep == ASSUME TypeOK, FrozenExist, [Next]_vars PROVE FrozenExist'
<1>1. Keeps(results, results') /\ Keeps(readings, readings')
  BY ResultsKept, ReadingsKept
<1>2. \A c \in DOMAIN certificates : FrozenIn(certificates[c], results', readings')
  BY <1>1, FrozenStays DEF FrozenExist
<1>3. CASE UNCHANGED certificates
  BY <1>2, <1>3 DEF FrozenExist
<1>4. ASSUME NEW role, NEW S \in SUBSET Sample, NEW client, NEW prev \in 0..Len(certificates),
             NEW reason, IssueCertificate(S, client, prev, role, reason)
      PROVE  FrozenExist'
  <2>1. PICK cert : /\ certificates' = Append(certificates, cert)
                    /\ cert.elements = UNION {CurrentReadings(s) : s \in S}
                    /\ \A s \in Sample : cert.frozen[s] = IF s \in S THEN CurrentResult(s) ELSE 0
    BY <1>4 DEF IssueCertificate
  <2>2. FrozenIn(cert, results, readings)
    <3>1. ASSUME NEW s \in Sample, CurrentResult(s) # 0
          PROVE  CurrentResult(s) \in DOMAIN results /\ results[CurrentResult(s)].sample = s
      BY <3>1, CurrentResultIsAHead DEF Heads, TypeOK
    <3>2. cert.elements \subseteq DOMAIN readings
      BY <2>1 DEF CurrentReadings, Heads
    <3> QED BY <2>1, <3>1, <3>2 DEF FrozenIn
  <2>3. FrozenIn(cert, results', readings')
    BY <1>1, <2>2, FrozenStays
  <2>4. \A c \in DOMAIN certificates' :
           \/ certificates'[c] = cert
           \/ c \in DOMAIN certificates /\ certificates'[c] = certificates[c]
    <3>1. certificates \in Seq(Certificate)
      BY DEF TypeOK
    <3> QED BY <2>1, <3>1
  <2> QED BY <1>2, <2>3, <2>4 DEF FrozenExist
<1> QED BY <1>3, <1>4, CertificatesOnlyGrow

\* A result of s is superseded exactly when it is not the current one.
LEMMA SupersededOrCurrent ==
    ASSUME TypeOK, OneChain, NEW s \in Sample, NEW i \in DOMAIN results, results[i].sample = s
    PROVE  Superseded(results, i) <=> i # CurrentResult(s)
<1>1. i # 0
  BY DEF TypeOK
<1>2. ~Superseded(results, i) <=> i \in Heads(results, s)
  BY DEF Heads
<1>3. i \in Heads(results, s) => i = CurrentResult(s)
  BY CurrentResultIsAHead DEF TypeOK, OneChain, OneHead
<1>4. i = CurrentResult(s) => i \in Heads(results, s)
  BY <1>1, CurrentResultIsAHead DEF TypeOK
<1> QED BY <1>2, <1>3, <1>4

\* StaleIffNotCurrent: a certificate is stale exactly when some value on it is
\* no longer the current one.
THEOREM StaleIffNotCurrentHolds == Spec => []StaleIffNotCurrent
<1>1. Init => FrozenExist
  BY DEF Init, FrozenExist
<1>2. TypeOK /\ OneChain /\ FrozenExist => StaleIffNotCurrent
  <2> SUFFICES ASSUME TypeOK, OneChain, FrozenExist, NEW c \in DOMAIN certificates
               PROVE  Stale(c) <=>
                         \/ \E s \in Covers(c) : certificates[c].frozen[s] # CurrentResult(s)
                         \/ \E i \in certificates[c].elements :
                               i \notin CurrentReadings(readings[i].sample)
    BY DEF StaleIffNotCurrent
  <2>1. ASSUME NEW s \in Covers(c)
        PROVE  Superseded(results, certificates[c].frozen[s])
                  <=> certificates[c].frozen[s] # CurrentResult(s)
    BY SupersededOrCurrent DEF Covers, FrozenExist, FrozenIn
  <2>2. ASSUME NEW i \in certificates[c].elements
        PROVE  Superseded(readings, i) <=> i \notin CurrentReadings(readings[i].sample)
    BY DEF FrozenExist, FrozenIn, CurrentReadings, Heads
  <2> QED BY <2>1, <2>2 DEF Stale
<1>3. TypeOK /\ FrozenExist /\ [Next]_vars => FrozenExist'
  BY FrozenExistStep
<1> QED BY <1>1, <1>2, <1>3, OneChainHolds, TypeCorrect, PTL DEF Spec

-----------------------------------------------------------------------------
(***************************************************************************)
(* Statuses and the records behind them.                                   *)
(***************************************************************************)
HasRecord(s) ==
    /\ status[s] = "in_assay" => InSomeTray(s)
    /\ status[s] = "assayed"  => Measured(s)
    /\ status[s] = "reported" => Certified(s)

Untouched(s) ==
    status[s] \in {"received", "in_prep"} =>
        /\ \A b \in Batch, p \in Position : tray[b][p].holds # s
        /\ ~Measured(s)
        /\ ~Certified(s)

\* A measurement or a certificate stays on record.
LEMMA RecordsStay ==
    ASSUME TypeOK, [Next]_vars, NEW s \in Sample
    PROVE  /\ Measured(s) => Measured(s)'
           /\ Certified(s) => Certified(s)'
<1>1. Keeps(results, results') /\ Keeps(readings, readings') /\ Keeps(certificates, certificates')
  BY ResultsKept, ReadingsKept, CertificatesKept
<1> QED BY <1>1 DEF Keeps, Measured, Certified, Covers

\* Firing, parting and weighing move no sample between slots.
LEMMA BatchStepKeepsHoldings ==
    ASSUME TypeOK, NEW role, BatchStep(role)
    PROVE  /\ \A b \in Batch, p \in Position :
                 /\ tray'[b][p].holds = tray[b][p].holds
                 /\ tray'[b][p].duplicate = tray[b][p].duplicate
           /\ UNCHANGED <<status, results, readings, certificates>>
<1> USE DEF TypeOK, records
<1>1. ASSUME NEW b \in Batch, NEW p \in Position, NEW to
      PROVE  /\ [tray[b][p] EXCEPT !.status = to].holds = tray[b][p].holds
             /\ [tray[b][p] EXCEPT !.status = to].duplicate = tray[b][p].duplicate
             /\ \A w : /\ [tray[b][p] EXCEPT !.status = to, !.bead = w].holds = tray[b][p].holds
                       /\ [tray[b][p] EXCEPT !.status = to, !.bead = w].duplicate
                             = tray[b][p].duplicate
  BY DEF Crucible, Empty
<1>2. ASSUME NEW b \in Batch, NEW target, AdvanceBatch(b, target, role)
      PROVE  \A a \in Batch, p \in Position :
                 /\ tray'[a][p].holds = tray[a][p].holds
                 /\ tray'[a][p].duplicate = tray[a][p].duplicate
  BY <1>1, <1>2 DEF AdvanceBatch, AfterBulk
<1>3. ASSUME NEW b \in Batch, NEW q \in Position, NEW c, SetCrucible(b, q, c),
             c.holds = tray[b][q].holds, c.duplicate = tray[b][q].duplicate
      PROVE  \A a \in Batch, p \in Position :
                 /\ tray'[a][p].holds = tray[a][p].holds
                 /\ tray'[a][p].duplicate = tray[a][p].duplicate
  BY <1>3 DEF SetCrucible
<1>4. ASSUME NEW b \in Batch, NEW q \in Position, RecordParting(b, q, role)
      PROVE  \A a \in Batch, p \in Position :
                 /\ tray'[a][p].holds = tray[a][p].holds
                 /\ tray'[a][p].duplicate = tray[a][p].duplicate
  <2> DEFINE c == [tray[b][q] EXCEPT !.status = "parted"]
  <2>1. SetCrucible(b, q, c)
    BY <1>4 DEF RecordParting
  <2>2. c.holds = tray[b][q].holds /\ c.duplicate = tray[b][q].duplicate
    BY <1>1
  <2> HIDE DEF c
  <2> QED BY <1>3, <2>1, <2>2
<1>5. ASSUME NEW b \in Batch, NEW q \in Position, NEW w \in Bead, RecordWeighing(b, q, w, role)
      PROVE  \A a \in Batch, p \in Position :
                 /\ tray'[a][p].holds = tray[a][p].holds
                 /\ tray'[a][p].duplicate = tray[a][p].duplicate
  <2> DEFINE c == [tray[b][q] EXCEPT !.status = "weighed", !.bead = w]
  <2>1. SetCrucible(b, q, c)
    BY <1>5 DEF RecordWeighing
  <2>2. c.holds = tray[b][q].holds /\ c.duplicate = tray[b][q].duplicate
    BY <1>1
  <2> HIDE DEF c
  <2> QED BY <1>3, <2>1, <2>2
<1> QED BY <1>2, <1>4, <1>5
        DEF BatchStep, OpenBatch, AdvanceBatch, RecordParting, RecordWeighing

\* The primary crucible of a sample stays where it is unless that very slot
\* is written.
LEMMA PrimaryStays ==
    ASSUME TypeOK, NEW s \in Sample, NEW b \in Batch, NEW p \in Position, NEW c,
           SetCrucible(b, p, c), InSomeTray(s),
           tray[b][p].holds = s => tray[b][p].duplicate
    PROVE  InSomeTray(s)'
<1>1. PICK a \in Batch, q \in Position : tray[a][q].holds = s /\ ~tray[a][q].duplicate
  BY DEF InSomeTray, PrimaryIn
<1>2. tray'[a][q] = tray[a][q]
  BY <1>1 DEF SetCrucible, TypeOK
<1> QED BY <1>1, <1>2 DEF InSomeTray, PrimaryIn

\* What the lifecycle table says of where a move comes from and leads.
LEMMA MovesKnown ==
    ASSUME NEW source, NEW type, NEW role, NEW reason
    PROVE  /\ CheckTransition(source, "in_assay", type, role, reason) => source = "ready_for_assay"
           /\ CheckTransition(source, "assayed", type, role, reason) => source = "in_assay"
           /\ CheckTransition(source, "in_prep", type, role, reason) => source = "received"
BY DEF CheckTransition, Transitions, Move

\* A result is a measurement, and so is a reading.
LEMMA CurrentIsMeasured ==
    ASSUME TypeOK, NEW s \in Sample, CurrentResult(s) # 0 PROVE Measured(s)
BY CurrentResultIsAHead DEF Heads, Measured, TypeOK

\* What a step owes the two invariants, for one sample.
Owed(s) ==
    /\ status'[s] = "in_assay" => InSomeTray(s)'
    /\ status'[s] = "assayed"  => status[s] = "assayed" \/ Measured(s)'
    /\ status'[s] = "reported" => status[s] = "reported" \/ Certified(s)'
    /\ status'[s] \in {"received", "in_prep"} =>
          /\ status[s] \in {"received", "in_prep"}
          /\ \A b \in Batch, p \in Position : tray'[b][p].holds = s => tray[b][p].holds = s
          /\ Measured(s)' => Measured(s)
          /\ Certified(s)' => Certified(s)

LEMMA OwedSuffices ==
    ASSUME TypeOK, [Next]_vars, NEW s \in Sample, HasRecord(s), Untouched(s), Owed(s)
    PROVE  HasRecord(s)' /\ Untouched(s)'
<1>1. (Measured(s) => Measured(s)') /\ (Certified(s) => Certified(s)')
  BY RecordsStay
<1>2. HasRecord(s)'
  BY <1>1 DEF Owed, HasRecord
<1>3. Untouched(s)'
  BY DEF Owed, Untouched
<1> QED BY <1>2, <1>3

LEMMA SameRecords ==
    ASSUME NEW s \in Sample
    PROVE  /\ UNCHANGED <<results, readings>> => (Measured(s)' <=> Measured(s))
           /\ UNCHANGED certificates => (Certified(s)' <=> Certified(s))
           /\ UNCHANGED tray => (InSomeTray(s)' <=> InSomeTray(s))
BY DEF Measured, Certified, Covers, InSomeTray, PrimaryIn

LEMMA SampleStepOwes ==
    ASSUME TypeOK, NEW s \in Sample, HasRecord(s), NEW role, SampleStep(role)
    PROVE  Owed(s)
<1>1. PICK r \in Sample, target \in StatusUpdateTargets, reason \in BOOLEAN :
         AdvanceSample(r, target, role, reason)
  BY DEF SampleStep
<1>2. UNCHANGED <<tray, results, readings, certificates>>
  BY <1>1 DEF AdvanceSample, records
<1>3. CASE r # s
  <2>1. status'[s] = status[s]
    BY <1>1, <1>3 DEF AdvanceSample, SetStatus
  <2> QED BY <1>2, <2>1, SameRecords DEF Owed, HasRecord
<1>4. CASE r = s
  <2>1. status'[s] = target /\ (target = "in_prep" => status[s] = "received")
    BY <1>1, <1>4, MovesKnown DEF AdvanceSample, SetStatus
  <2> QED BY <1>2, <2>1, SameRecords DEF Owed, StatusUpdateTargets
<1> QED BY <1>3, <1>4

LEMMA ChargeStepOwes ==
    ASSUME TypeOK, NEW s \in Sample, HasRecord(s), NEW role, ChargeStep(role)
    PROVE  Owed(s)
<1>1. UNCHANGED <<results, readings, certificates>>
  BY DEF ChargeStep, ChargeSample, ChargeDuplicate, ChargeMaterial, Uncharge, records
<1>2. (Measured(s)' <=> Measured(s)) /\ (Certified(s)' <=> Certified(s))
  BY <1>1, SameRecords
<1>3. ASSUME NEW b \in Batch, NEW p \in Position, NEW c,
             SetCrucible(b, p, c), c.holds # s
      PROVE  \A a \in Batch, q \in Position : tray'[a][q].holds = s => tray[a][q].holds = s
  BY <1>3 DEF SetCrucible, TypeOK
<1>4. Empty.holds # s
  BY CustodyAssumption DEF Empty
<1>5. \A h : Charged(h, FALSE).holds = h /\ Charged(h, TRUE).holds = h
  BY DEF Charged
<1>6. ASSUME NEW b \in Batch, NEW p \in Position, NEW c,
             OpenForCharging(b, p), SetCrucible(b, p, c), InSomeTray(s)
      PROVE  InSomeTray(s)'
  BY <1>4, <1>6, PrimaryStays DEF OpenForCharging
<1>7. ASSUME NEW b \in Batch, NEW p \in Position, NEW r \in Sample, ChargeSample(b, p, r, role)
      PROVE  Owed(s)
  <2>1. CASE r = s
    <3>1. status'[s] = "in_assay"
      BY <1>7, <2>1 DEF ChargeSample, SetStatus
    <3>2. tray'[b][p] = Charged(s, FALSE)
      BY <1>7, <2>1 DEF ChargeSample, SetCrucible, TypeOK
    <3>3. tray'[b][p].holds = s /\ ~tray'[b][p].duplicate
      BY <3>2 DEF Charged
    <3>4. InSomeTray(s)'
      BY <3>3 DEF InSomeTray, PrimaryIn
    <3> QED BY <3>1, <3>4 DEF Owed
  <2>2. CASE r # s
    <3>1. status'[s] = status[s]
      BY <1>7, <2>2 DEF ChargeSample, SetStatus
    <3>2. SetCrucible(b, p, Charged(r, FALSE)) /\ OpenForCharging(b, p)
      BY <1>7 DEF ChargeSample
    <3> QED BY <1>2, <1>3, <1>5, <1>6, <2>2, <3>1, <3>2 DEF Owed, HasRecord
  <2> QED BY <2>1, <2>2
<1>8. ASSUME NEW b \in Batch, NEW p \in Position, NEW r \in Sample, ChargeDuplicate(b, p, r, role)
      PROVE  Owed(s)
  <2>1. /\ SetCrucible(b, p, Charged(r, TRUE)) /\ OpenForCharging(b, p)
        /\ status' = status /\ status[r] = "in_assay"
    BY <1>8 DEF ChargeDuplicate
  <2>2. CASE r = s
    BY <1>6, <2>1, <2>2 DEF Owed, HasRecord
  <2>3. CASE r # s
    BY <1>2, <1>3, <1>5, <1>6, <2>1, <2>3 DEF Owed, HasRecord
  <2> QED BY <2>2, <2>3
<1>9. ASSUME NEW b \in Batch, NEW p \in Position, NEW m \in Material, ChargeMaterial(b, p, m, role)
      PROVE  Owed(s)
  <2>1. /\ SetCrucible(b, p, Charged(m, FALSE)) /\ OpenForCharging(b, p)
        /\ status' = status
    BY <1>9 DEF ChargeMaterial
  <2>2. m # s
    BY CustodyAssumption
  <2> QED BY <1>2, <1>3, <1>5, <1>6, <2>1, <2>2 DEF Owed, HasRecord
<1>10. ASSUME NEW b \in Batch, NEW p \in Position, Uncharge(b, p, role)
       PROVE  Owed(s)
  <2>1. SetCrucible(b, p, Empty) /\ SetStatus(Reverted(tray[b][p]), "ready_for_assay")
    BY <1>10 DEF Uncharge
  <2>2. CASE tray[b][p].holds = s /\ ~tray[b][p].duplicate /\ status[s] = "in_assay"
    <3>1. s \in Reverted(tray[b][p])
      BY <2>2 DEF Reverted
    <3>2. status'[s] = "ready_for_assay"
      BY <2>1, <3>1 DEF SetStatus
    <3> QED BY <3>2 DEF Owed
  <2>3. CASE ~(tray[b][p].holds = s /\ ~tray[b][p].duplicate /\ status[s] = "in_assay")
    <3>1. s \notin Reverted(tray[b][p])
      BY <2>3 DEF Reverted
    <3>2. status'[s] = status[s]
      BY <2>1, <3>1 DEF SetStatus
    <3>3. status[s] = "in_assay" => InSomeTray(s)'
      BY <2>1, <2>3, PrimaryStays DEF HasRecord
    <3> QED BY <1>2, <1>3, <1>4, <2>1, <3>2, <3>3 DEF Owed
  <2> QED BY <2>2, <2>3
<1> QED BY <1>7, <1>8, <1>9, <1>10 DEF ChargeStep

LEMMA BatchStepOwes ==
    ASSUME TypeOK, NEW s \in Sample, HasRecord(s), NEW role, BatchStep(role)
    PROVE  Owed(s)
<1>1. /\ \A b \in Batch, p \in Position :
            /\ tray'[b][p].holds = tray[b][p].holds
            /\ tray'[b][p].duplicate = tray[b][p].duplicate
      /\ UNCHANGED <<status, results, readings, certificates>>
  BY BatchStepKeepsHoldings
<1>2. InSomeTray(s) => InSomeTray(s)'
  BY <1>1 DEF InSomeTray, PrimaryIn
<1> QED BY <1>1, <1>2, SameRecords DEF Owed, HasRecord

LEMMA ResultStepOwes ==
    ASSUME TypeOK, NEW s \in Sample, HasRecord(s), Untouched(s), NEW role, ResultStep(role)
    PROVE  Owed(s)
<1>1. PICK r \in Sample, prev \in 0..Len(results), c \in Slot \cup {Nothing}, reason \in BOOLEAN :
         Entered(role, r, prev, c, reason)
  BY DEF ResultStep, EnterGravimetric, EnterSolutionFinish, Entered
<1>2. PICK row : results' = Append(results, row) /\ row.sample = r
  BY <1>1 DEF Entered, WriteResult
<1>3. /\ UNCHANGED <<tray, readings, certificates>>
      /\ SetStatus(IF prev = 0 THEN {r} ELSE {}, "assayed")
  BY <1>1 DEF Entered, WriteResult
<1>4. InSomeTray(s)' <=> InSomeTray(s)
  BY <1>3, SameRecords
<1>5. Certified(s)' <=> Certified(s)
  BY <1>3, SameRecords
<1>6. /\ DOMAIN results' = 1..(Len(results) + 1)
      /\ results'[Len(results) + 1] = row
      /\ \A i \in 1..Len(results) : results'[i] = results[i]
      /\ DOMAIN results = 1..Len(results)
      /\ Len(results) \in Nat
  BY <1>2 DEF TypeOK
<1>7. CASE r # s
  <2>1. status'[s] = status[s]
    BY <1>3, <1>7 DEF SetStatus
  <2>2. Measured(s)' => Measured(s)
    BY <1>2, <1>3, <1>6, <1>7 DEF Measured
  <2> QED BY <1>3, <1>4, <1>5, <2>1, <2>2 DEF Owed, HasRecord
<1>8. CASE r = s /\ prev = 0
  <2>1. status'[s] = "assayed"
    BY <1>3, <1>8 DEF SetStatus
  <2>2. Measured(s)'
    BY <1>2, <1>6, <1>8 DEF Measured
  <2> QED BY <2>1, <2>2 DEF Owed
<1>9. CASE r = s /\ prev # 0
  <2>1. status'[s] = status[s]
    BY <1>3, <1>9 DEF SetStatus
  <2>2. Measured(s)
    BY <1>1, <1>9, CurrentIsMeasured DEF Entered, CheckSupersession
  <2>3. status[s] \notin {"received", "in_prep"}
    BY <2>2 DEF Untouched
  <2> QED BY <1>4, <1>5, <2>1, <2>3 DEF Owed, HasRecord
<1> QED BY <1>7, <1>8, <1>9

LEMMA ReadingStepOwes ==
    ASSUME TypeOK, NEW s \in Sample, HasRecord(s), Untouched(s), NEW role, ReadingStep(role)
    PROVE  Owed(s)
<1>1. UNCHANGED <<tray, results, certificates>>
  BY DEF ReadingStep, ImportReadings, SupersedeReading, bench
<1>2. (InSomeTray(s)' <=> InSomeTray(s)) /\ (Certified(s)' <=> Certified(s))
  BY <1>1, SameRecords
<1>3. ASSUME NEW r \in Sample, r # s,
             \A i \in DOMAIN readings' \ DOMAIN readings : readings'[i].sample = r,
             Keeps(readings, readings')
      PROVE  Measured(s)' => Measured(s)
  BY <1>1, <1>3 DEF Measured, Keeps
<1>4. ASSUME NEW r \in Sample, NEW run \in Runs, NEW d \in Digest, ImportReadings(r, run, d, role)
      PROVE  Owed(s)
  <2>1. /\ Keeps(readings, readings')
        /\ \A i \in DOMAIN readings' \ DOMAIN readings : readings'[i].sample = r
        /\ Len(readings) + 1 \in DOMAIN readings'
    BY <1>4, ImportAppends
  <2>2. CASE r = s
    <3>1. status'[s] = "assayed"
      BY <1>4, <2>2 DEF ImportReadings, SetStatus
    <3>2. Len(readings) + 1 \in DOMAIN readings' \ DOMAIN readings
      BY <2>1 DEF TypeOK
    <3>3. Measured(s)'
      BY <2>1, <2>2, <3>2 DEF Measured
    <3> QED BY <3>1, <3>3 DEF Owed
  <2>3. CASE r # s
    <3>1. status'[s] = status[s]
      BY <1>4, <2>3 DEF ImportReadings, SetStatus
    <3> QED BY <1>1, <1>2, <1>3, <2>1, <2>3, <3>1 DEF Owed, HasRecord
  <2> QED BY <2>2, <2>3
<1>5. ASSUME NEW r \in Sample, NEW e \in Element, NEW d \in Digest, SupersedeReading(r, e, d, role)
      PROVE  Owed(s)
  <2>1. UNCHANGED status
    BY <1>5 DEF SupersedeReading, bench
  <2>2. /\ Keeps(readings, readings')
        /\ \E i \in DOMAIN readings : readings[i].sample = r
        /\ \A i \in DOMAIN readings' \ DOMAIN readings : readings'[i].sample = r
    BY <1>5, SupersedeAppends
  <2>3. CASE r = s
    <3>1. status[s] \notin {"received", "in_prep"}
      BY <2>2, <2>3 DEF Untouched, Measured
    <3> QED BY <1>2, <2>1, <3>1 DEF Owed, HasRecord
  <2>4. CASE r # s
    BY <1>1, <1>2, <1>3, <2>1, <2>2, <2>4 DEF Owed, HasRecord
  <2> QED BY <2>3, <2>4
<1> QED BY <1>4, <1>5 DEF ReadingStep

LEMMA CertificateStepOwes ==
    ASSUME TypeOK, NEW s \in Sample, HasRecord(s), Untouched(s), NEW role, CertificateStep(role)
    PROVE  Owed(s)
<1>1. PICK S \in SUBSET Sample, client \in {ClientOf[r] : r \in Sample},
           prev \in 0..Len(certificates), reason \in BOOLEAN :
         IssueCertificate(S, client, prev, role, reason)
  BY DEF CertificateStep
<1>2. UNCHANGED <<tray, results, readings>>
  BY <1>1 DEF IssueCertificate
<1>3. (InSomeTray(s)' <=> InSomeTray(s)) /\ (Measured(s)' <=> Measured(s))
  BY <1>2, SameRecords
<1>4. PICK n \in Nat : /\ DOMAIN certificates = 1..n
                       /\ DOMAIN certificates' = 1..(n + 1)
                       /\ \A c \in 1..n : certificates'[c] = certificates[c]
                       /\ certificates'[n + 1].frozen[s] = IF s \in S THEN CurrentResult(s) ELSE 0
  <2>1. Len(certificates) \in Nat
    BY <1>1, NewCertificate
  <2>2. /\ DOMAIN certificates = 1..Len(certificates)
        /\ DOMAIN certificates' = 1..(Len(certificates) + 1)
        /\ \A c \in 1..Len(certificates) : certificates'[c] = certificates[c]
        /\ certificates'[Len(certificates) + 1].frozen[s] = IF s \in S THEN CurrentResult(s) ELSE 0
    BY <1>1, NewCertificate DEF Keeps
  <2> QED BY <2>1, <2>2
<1>5. status'[s] = IF s \in S /\ status[s] = "assayed" THEN "reported" ELSE status[s]
  BY <1>1 DEF IssueCertificate, SetStatus
<1>6. CASE s \in S
  <2>1. CurrentResult(s) # 0
    BY <1>1, <1>6 DEF IssueCertificate, ResolveSamples
  <2>2. Certified(s)'
    BY <1>4, <1>6, <2>1 DEF Certified, Covers
  <2>3. Measured(s)
    BY <2>1, CurrentIsMeasured
  <2>4. status[s] \notin {"received", "in_prep"}
    BY <2>3 DEF Untouched
  <2> QED BY <1>3, <1>5, <2>2, <2>4 DEF Owed, HasRecord
<1>7. CASE s \notin S
  <2>1. Certified(s)' => Certified(s)
    BY <1>4, <1>7 DEF Certified, Covers
  <2> QED BY <1>2, <1>3, <1>5, <1>7, <2>1 DEF Owed, HasRecord
<1> QED BY <1>6, <1>7

LEMMA StatusStep ==
    ASSUME TypeOK, [Next]_vars, NEW s \in Sample, HasRecord(s), Untouched(s)
    PROVE  HasRecord(s)' /\ Untouched(s)'
<1> SUFFICES Owed(s)
  BY OwedSuffices
<1>1. ASSUME NEW role \in Staff, \/ SampleStep(role) \/ ChargeStep(role) \/ BatchStep(role)
                                 \/ ResultStep(role) \/ ReadingStep(role) \/ CertificateStep(role)
      PROVE  Owed(s)
  <2>1. SampleStep(role) \/ ChargeStep(role) \/ BatchStep(role) => Owed(s)
    BY SampleStepOwes, ChargeStepOwes, BatchStepOwes
  <2>2. ResultStep(role) \/ ReadingStep(role) \/ CertificateStep(role) => Owed(s)
    BY ResultStepOwes, ReadingStepOwes, CertificateStepOwes
  <2> QED BY <1>1, <2>1, <2>2
<1>2. CASE UNCHANGED <<status, tray, results, readings, certificates>>
  BY <1>2, SameRecords DEF Owed, HasRecord
<1>3. ASSUME NEW m \in Material, RetireMaterial(m)
      PROVE  UNCHANGED <<status, tray, results, readings, certificates>>
  BY <1>3 DEF RetireMaterial, records
<1>4. CASE UNCHANGED vars
  BY <1>2, <1>4 DEF vars
<1>5. CASE Next
  BY <1>1, <1>2, <1>3, <1>5 DEF Next
<1> QED BY <1>4, <1>5

StatusesAccountedFor == \A s \in Sample : HasRecord(s) /\ Untouched(s)

\* Every status is accounted for by the records, and no record comes before
\* its status.
LEMMA StatusesAccountedForHold == Spec => []StatusesAccountedFor
<1>1. Init => StatusesAccountedFor
  BY CustodyAssumption
     DEF Init, StatusesAccountedFor, HasRecord, Untouched, Measured, Certified, Empty
<1>2. TypeOK /\ StatusesAccountedFor /\ [Next]_vars => StatusesAccountedFor'
  BY StatusStep DEF StatusesAccountedFor
<1> QED BY <1>1, <1>2, TypeCorrect, PTL DEF Spec

\* StatusHasItsRecord: in assay, assayed and reported are each backed by a
\* crucible, a measurement or a certificate.
THEOREM StatusHasItsRecordHolds == Spec => []StatusHasItsRecord
<1>1. StatusesAccountedFor => StatusHasItsRecord
  BY DEF StatusesAccountedFor, HasRecord, StatusHasItsRecord
<1> QED BY <1>1, StatusesAccountedForHold, PTL

\* UntouchedBeforeReady: before it is ready a sample has left no trace at the
\* furnace, on the instruments or on a certificate.
THEOREM UntouchedBeforeReadyHolds == Spec => []UntouchedBeforeReady
<1>1. StatusesAccountedFor => UntouchedBeforeReady
  BY DEF StatusesAccountedFor, Untouched, UntouchedBeforeReady
<1> QED BY <1>1, StatusesAccountedForHold, PTL

-----------------------------------------------------------------------------
(***************************************************************************)
(* The bench record implements the register: what a step does to tables    *)
(* and chains is, for the register, one of its steps or nothing.           *)
(***************************************************************************)
NewestOf(H) == IF H = {} THEN 0 ELSE CHOOSE i \in H : \A j \in H : j <= i

Grades == [s \in Sample |-> CurrentResult(s)]

PairsOf(cert) == {<<s, cert.frozen[s]>> : s \in CoveredBy(cert)}

Published(certs) == UNION {PairsOf(certs[c]) : c \in DOMAIN certs}

\* The mapped variables of the register, and when none of them moves.
SameRegister == UNCHANGED <<status, results, certificates>>

LEMMA MappedPublished ==
    /\ UNION {{<<s, certificates[c].frozen[s]>> : s \in Covers(c)} : c \in DOMAIN certificates}
         = Published(certificates)
    /\ (UNION {{<<s, certificates[c].frozen[s]>> : s \in Covers(c)} : c \in DOMAIN certificates})'
         = Published(certificates')
BY DEF Published, PairsOf, Covers, CoveredBy

\* A result that passed its checks becomes the one head of its sample and
\* leaves every other sample's chain alone.
LEMMA EntryIsCurrent ==
    ASSUME TypeOK, OneChain, NEW role, NEW s \in Sample, NEW prev \in 0..Len(results),
           NEW c, NEW reason, Entered(role, s, prev, c, reason)
    PROVE  /\ Len(results') = Len(results) + 1
           /\ Grades' = [Grades EXCEPT ![s] = Len(results) + 1]
<1>1. PICK row : results' = Append(results, row) /\ row.sample = s /\ row.supersedes = prev
  BY DEF Entered, WriteResult
<1>2. PICK n \in Nat : /\ n = Len(results)
                       /\ DOMAIN results = 1..n
                       /\ DOMAIN results' = 1..(n + 1)
                       /\ results'[n + 1] = row
                       /\ \A i \in 1..n : results'[i] = results[i]
                       /\ Len(results') = n + 1
  <2>1. /\ Len(results) \in Nat
        /\ DOMAIN results = 1..Len(results)
        /\ DOMAIN results' = 1..(Len(results) + 1)
        /\ results'[Len(results) + 1] = row
        /\ \A i \in 1..Len(results) : results'[i] = results[i]
        /\ Len(results') = Len(results) + 1
    BY <1>1 DEF TypeOK
  <2> QED BY <2>1
<1>3. /\ prev = 0 => Heads(results, s) = {}
      /\ prev # 0 => prev \in Heads(results, s) /\ \A i \in Heads(results, s) : i = prev
  BY CurrentResultIsAHead DEF Entered, CheckSupersession, OneChain, OneHead, TypeOK
<1>4. \A i \in 1..n : results[i].supersedes # n + 1
  <2> SUFFICES ASSUME NEW i \in 1..n, results[i].supersedes = n + 1 PROVE FALSE
    OBVIOUS
  <2>1. results[i].supersedes < i
    BY <1>2 DEF OneChain, LinksBackwards
  <2> QED BY <2>1
<1>5. Heads(results', s) = {n + 1}
  <2>1. n + 1 \in Heads(results', s)
    BY <1>1, <1>2, <1>4 DEF Heads, Superseded
  <2>2. ASSUME NEW i \in Heads(results', s), i # n + 1 PROVE FALSE
    <3>1. i \in 1..n /\ results[i].sample = s /\ ~Superseded(results', i)
      BY <1>2, <2>2 DEF Heads
    <3>2. i \in Heads(results, s)
      BY <1>2, <3>1 DEF Heads, Superseded
    <3>3. i = prev
      BY <1>3, <3>2
    <3> QED BY <1>1, <1>2, <3>1, <3>3 DEF Superseded
  <2> QED BY <2>1, <2>2
<1>6. ASSUME NEW r \in Sample, r # s PROVE Heads(results', r) = Heads(results, r)
  <2>1. ASSUME NEW i \in Heads(results', r) PROVE i \in Heads(results, r)
    BY <1>1, <1>2, <1>6, <2>1 DEF Heads, Superseded
  <2>2. ASSUME NEW i \in Heads(results, r) PROVE i \in Heads(results', r)
    <3>1. i \in 1..n /\ results[i].sample = r /\ ~Superseded(results, i)
      BY <1>2, <2>2 DEF Heads
    <3>2. i # prev
      <4>1. CASE prev = 0
        BY <3>1, <4>1
      <4>2. CASE prev # 0
        BY <1>3, <1>6, <3>1, <4>2 DEF Heads
      <4> QED BY <4>1, <4>2
    <3> QED BY <1>1, <1>2, <3>1, <3>2 DEF Heads, Superseded
  <2> QED BY <2>1, <2>2
<1>7. \A r \in Sample : CurrentResult(r) = NewestOf(Heads(results, r))
  BY DEF CurrentResult, NewestOf
<1>8. Grades' = [r \in Sample |-> NewestOf(Heads(results', r))]
  BY DEF Grades, CurrentResult, NewestOf
<1>9. NewestOf({n + 1}) = n + 1
  <2>1. \E i \in {n + 1} : \A j \in {n + 1} : j <= i
    OBVIOUS
  <2> QED BY <2>1 DEF NewestOf
<1>10. Grades = [r \in Sample |-> NewestOf(Heads(results, r))]
  BY <1>7 DEF Grades
<1>11. Grades' = [Grades EXCEPT ![s] = n + 1]
  BY <1>5, <1>6, <1>8, <1>9, <1>10
<1> QED BY <1>2, <1>11

-----------------------------------------------------------------------------
(***************************************************************************)
(* The steps.                                                              *)
(***************************************************************************)
\* What the register sees of a step that leaves the mapped tables alone.
LEMMA RegisterStutters ==
    /\ UNCHANGED results => Grades' = Grades /\ Len(results') = Len(results)
    /\ SameRegister => UNCHANGED Register!vars
<1>1. UNCHANGED results => Grades' = Grades /\ Len(results') = Len(results)
  BY DEF Grades, CurrentResult
<1>2. UNCHANGED certificates => Published(certificates') = Published(certificates)
  OBVIOUS
<1> QED BY <1>1, <1>2, MappedPublished DEF SameRegister, Register!vars, Grades

\* A legal move, or the one back out of an open tray.
LEMMA RegisterProceeds ==
    ASSUME NEW s \in Sample, NEW to \in SampleStatuses,
           to # "reported",
           \/ to \in LegalTargets(status[s], SampleType[s])
           \/ status[s] = "in_assay" /\ to = "ready_for_assay",
           status' = [status EXCEPT ![s] = to], UNCHANGED <<results, certificates>>
    PROVE  Register!Next
<1>1. Register!LegalTargets(status[s], SampleType[s]) = LegalTargets(status[s], SampleType[s])
  BY DEF Register!LegalTargets, LegalTargets, Register!Transitions, Transitions, Register!Move,
     Move, Register!AppliesTo, AppliesTo, Register!RejectableFrom, RejectableFrom,
     Register!BenchRoles, BenchRoles, Register!Roles, Roles, Register!MayReject, MayReject,
     Register!MaySignCertificate, MaySignCertificate
<1>2. to \in Register!SampleStatuses
  BY DEF Register!SampleStatuses, SampleStatuses
<1>3. Published(certificates') = Published(certificates) /\ Grades' = Grades
      /\ Len(results') = Len(results)
  BY RegisterStutters
<1>4. Register!Proceed(s, to)
  BY <1>1, <1>3, MappedPublished DEF Register!Proceed, Register!BackFromTheTray, Grades
<1> QED BY <1>2, <1>4 DEF Register!Next

\* The first grade of a sample.
LEMMA RegisterMeasures ==
    ASSUME NEW s \in Sample, status[s] = "in_assay", Grades[s] = 0,
           Len(results') = Len(results) + 1,
           Grades' = [Grades EXCEPT ![s] = Len(results) + 1],
           status' = [status EXCEPT ![s] = "assayed"], UNCHANGED certificates
    PROVE  Register!Next
<1>1. Published(certificates') = Published(certificates)
  OBVIOUS
<1>2. Register!Measure(s)
  BY <1>1, MappedPublished DEF Register!Measure, Register!NewGrade, Grades
<1> QED BY <1>2 DEF Register!Next

\* A later grade of a sample.
LEMMA RegisterCorrects ==
    ASSUME NEW s \in Sample, Grades[s] # 0, Len(results') = Len(results) + 1,
           Grades' = [Grades EXCEPT ![s] = Len(results) + 1],
           UNCHANGED <<status, certificates>>
    PROVE  Register!Next
<1>1. Published(certificates') = Published(certificates)
  OBVIOUS
<1>2. Register!Correct(s)
  BY <1>1, MappedPublished DEF Register!Correct, Register!NewGrade, Grades
<1> QED BY <1>2 DEF Register!Next

\* A certificate, which copies current grades.
LEMMA RegisterPublishes ==
    ASSUME NEW S \in SUBSET Sample, \A s \in S : Grades[s] # 0,
           Published(certificates') = Published(certificates) \cup {<<s, Grades[s]>> : s \in S},
           status' = [s \in Sample |->
                        IF s \in S /\ status[s] = "assayed" THEN "reported" ELSE status[s]],
           UNCHANGED results
    PROVE  Register!Next
<1>1. Grades' = Grades /\ Len(results') = Len(results)
  BY RegisterStutters
<1>2. Register!Publish(S)
  BY <1>1, MappedPublished DEF Register!Publish, Grades
<1> QED BY <1>2 DEF Register!Next

\* Writing one status, or the one it has.
LEMMA OneStatus ==
    ASSUME TypeOK, NEW s \in Sample, NEW to, SetStatus({s}, to)
    PROVE  status' = [status EXCEPT ![s] = to]
BY DEF SetStatus, TypeOK

LEMMA NoStatus == ASSUME TypeOK, NEW to, SetStatus({}, to) PROVE status' = status
BY DEF SetStatus, TypeOK

\* A transition the lifecycle allows is one of the register's.
LEMMA CheckedIsLegal ==
    ASSUME NEW source, NEW target, NEW type, NEW role, NEW reason,
           CheckTransition(source, target, type, role, reason)
    PROVE  target \in LegalTargets(source, type)
<1>1. CASE target = "rejected"
  BY <1>1 DEF CheckTransition, CheckRejection, LegalTargets
<1>2. CASE target # "rejected"
  <2>1. PICK m \in Transitions : m.source = source /\ m.target = target /\ AppliesTo(m, type)
    BY <1>2 DEF CheckTransition
  <2>2. m \in {t \in Transitions : t.source = source /\ AppliesTo(t, type)}
    BY <2>1
  <2> HIDE DEF Transitions
  <2> QED BY <2>1, <2>2 DEF LegalTargets
<1> QED BY <1>1, <1>2

LEMMA BenchStepMaps ==
    ASSUME TypeOK, NEW role, SampleStep(role) \/ ChargeStep(role) \/ BatchStep(role)
    PROVE  [Register!Next]_(Register!vars)
<1> USE DEF records
<1>1. ASSUME NEW s \in Sample, NEW target \in StatusUpdateTargets, NEW reason,
             AdvanceSample(s, target, role, reason)
      PROVE  Register!Next
  <2>1. target \in SampleStatuses /\ target # "reported"
    BY DEF StatusUpdateTargets, SampleStatuses
  <2>2. target \in LegalTargets(status[s], SampleType[s])
    BY <1>1, CheckedIsLegal DEF AdvanceSample
  <2>3. status' = [status EXCEPT ![s] = target] /\ UNCHANGED <<results, certificates>>
    BY <1>1, OneStatus DEF AdvanceSample
  <2> QED BY <2>1, <2>2, <2>3, RegisterProceeds
<1>2. ASSUME NEW b \in Batch, NEW p \in Position, NEW s \in Sample, ChargeSample(b, p, s, role)
      PROVE  Register!Next
  <2>1. "in_assay" \in LegalTargets(status[s], SampleType[s])
    BY <1>2, CheckedIsLegal DEF ChargeSample
  <2>2. status' = [status EXCEPT ![s] = "in_assay"] /\ UNCHANGED <<results, certificates>>
    BY <1>2, OneStatus DEF ChargeSample
  <2> QED BY <2>1, <2>2, RegisterProceeds DEF SampleStatuses
<1>3. ASSUME NEW b \in Batch, NEW p \in Position, Uncharge(b, p, role)
      PROVE  [Register!Next]_(Register!vars)
  <2>1. /\ SetStatus(Reverted(tray[b][p]), "ready_for_assay")
        /\ UNCHANGED <<results, certificates>>
    BY <1>3 DEF Uncharge
  <2>2. CASE Reverted(tray[b][p]) = {}
    BY <2>1, <2>2, NoStatus, RegisterStutters DEF SameRegister
  <2>3. CASE Reverted(tray[b][p]) # {}
    <3>1. PICK s \in Sample : status[s] = "in_assay" /\ Reverted(tray[b][p]) = {s}
      BY <2>3 DEF Reverted
    <3>2. status' = [status EXCEPT ![s] = "ready_for_assay"]
      BY <2>1, <3>1, OneStatus
    <3> QED BY <2>1, <3>1, <3>2, RegisterProceeds DEF SampleStatuses
  <2> QED BY <2>2, <2>3
<1>4. ASSUME SameRegister PROVE [Register!Next]_(Register!vars)
  BY <1>4, RegisterStutters
<1>5. SampleStep(role) => [Register!Next]_(Register!vars)
  BY <1>1 DEF SampleStep
<1>6. ChargeStep(role) => [Register!Next]_(Register!vars)
  BY <1>2, <1>3, <1>4 DEF ChargeStep, ChargeDuplicate, ChargeMaterial, SameRegister
<1>7. BatchStep(role) => [Register!Next]_(Register!vars)
  BY <1>4 DEF BatchStep, OpenBatch, AdvanceBatch, RecordParting, RecordWeighing, SameRegister
<1> QED BY <1>5, <1>6, <1>7

LEMMA ResultStepMaps ==
    ASSUME TypeOK, OneChain, NEW role, ResultStep(role)
    PROVE  Register!Next
<1>1. PICK s \in Sample, prev \in 0..Len(results), c \in Slot \cup {Nothing}, reason \in BOOLEAN :
         Entered(role, s, prev, c, reason)
  BY DEF ResultStep, EnterGravimetric, EnterSolutionFinish, Entered
<1>2. /\ Len(results') = Len(results) + 1
      /\ Grades' = [Grades EXCEPT ![s] = Len(results) + 1]
  BY <1>1, EntryIsCurrent
<1>3. UNCHANGED certificates /\ SetStatus(IF prev = 0 THEN {s} ELSE {}, "assayed")
  BY <1>1 DEF Entered, WriteResult
<1>4. Grades[s] = CurrentResult(s)
  BY DEF Grades
<1>5. CASE prev = 0
  <2>1. CurrentResult(s) = 0
    BY <1>1, <1>5 DEF Entered, CheckSupersession
  <2>2. status[s] = "in_assay"
    BY <1>1, <1>5, <2>1, MovesKnown DEF Entered, Admit
  <2>3. status' = [status EXCEPT ![s] = "assayed"]
    BY <1>3, <1>5, OneStatus
  <2> QED BY <1>2, <1>3, <1>4, <2>1, <2>2, <2>3, RegisterMeasures
<1>6. CASE prev # 0
  <2>1. CurrentResult(s) # 0
    BY <1>1, <1>6 DEF Entered, CheckSupersession
  <2>2. status' = status
    BY <1>3, <1>6, NoStatus
  <2> QED BY <1>2, <1>3, <1>4, <2>1, <2>2, RegisterCorrects
<1> QED BY <1>5, <1>6

LEMMA ReadingStepMaps ==
    ASSUME TypeOK, NEW role, ReadingStep(role)
    PROVE  [Register!Next]_(Register!vars)
<1>1. ASSUME NEW s \in Sample, NEW run \in Runs, NEW d \in Digest, ImportReadings(s, run, d, role)
      PROVE  [Register!Next]_(Register!vars)
  <2>1. status' = [status EXCEPT ![s] = "assayed"] /\ UNCHANGED <<results, certificates>>
    BY <1>1, OneStatus DEF ImportReadings
  <2>2. CASE status[s] = "assayed"
    <3>1. status' = status
      BY <2>1, <2>2 DEF TypeOK
    <3> QED BY <2>1, <3>1, RegisterStutters DEF SameRegister
  <2>3. CASE status[s] # "assayed"
    <3>1. "assayed" \in LegalTargets(status[s], SampleType[s])
      BY <1>1, <2>3, CheckedIsLegal DEF ImportReadings, MayImport
    <3> QED BY <2>1, <3>1, RegisterProceeds DEF SampleStatuses
  <2> QED BY <2>2, <2>3
<1>2. ASSUME NEW s \in Sample, NEW e \in Element, NEW d \in Digest, SupersedeReading(s, e, d, role)
      PROVE  SameRegister
  BY <1>2 DEF SupersedeReading, bench, SameRegister
<1> QED BY <1>1, <1>2, RegisterStutters DEF ReadingStep

LEMMA CertificateStepMaps ==
    ASSUME TypeOK, NEW role, CertificateStep(role)
    PROVE  Register!Next
<1>1. PICK S \in SUBSET Sample, client \in {ClientOf[r] : r \in Sample},
           prev \in 0..Len(certificates), reason \in BOOLEAN :
         IssueCertificate(S, client, prev, role, reason)
  BY DEF CertificateStep
<1>2. PICK cert : /\ certificates' = Append(certificates, cert)
                  /\ \A s \in Sample : cert.frozen[s] = IF s \in S THEN CurrentResult(s) ELSE 0
  BY <1>1 DEF IssueCertificate
<1>3. \A s \in S : Grades[s] # 0 /\ Grades[s] = CurrentResult(s)
  BY <1>1 DEF IssueCertificate, ResolveSamples, Grades
<1>4. PairsOf(cert) = {<<s, Grades[s]>> : s \in S}
  <2>1. CoveredBy(cert) = S
    BY <1>2, <1>3 DEF CoveredBy
  <2>2. \A s \in S : cert.frozen[s] = Grades[s]
    BY <1>2, <1>3
  <2> QED BY <2>1, <2>2 DEF PairsOf
<1>5. Published(certificates') = Published(certificates) \cup PairsOf(cert)
  <2>1. /\ DOMAIN certificates' = DOMAIN certificates \cup {Len(certificates) + 1}
        /\ certificates'[Len(certificates) + 1] = cert
        /\ \A c \in DOMAIN certificates : certificates'[c] = certificates[c]
    BY <1>2 DEF TypeOK
  <2> QED BY <2>1 DEF Published
<1>6. status' = [s \in Sample |->
                    IF s \in S /\ status[s] = "assayed" THEN "reported" ELSE status[s]]
  BY <1>1 DEF IssueCertificate, SetStatus
<1>7. UNCHANGED results
  BY <1>1 DEF IssueCertificate
<1> QED BY <1>3, <1>4, <1>5, <1>6, <1>7, RegisterPublishes

\* ImplementsRegister: the tables with their supersession chains implement one
\* current grade per sample, replaced only by corrections and copied unchanged
\* to certificates.
THEOREM RegisterIsImplemented == Spec => ImplementsRegister
<1>1. Init => Register!Init
  <2> SUFFICES ASSUME Init PROVE Register!Init
    OBVIOUS
  <2>1. \A s \in Sample : CurrentResult(s) = 0
    BY DEF Init, CurrentResult, Heads
  <2> QED BY <2>1 DEF Init, Register!Init
<1>2. TypeOK /\ OneChain /\ [Next]_vars => [Register!Next]_(Register!vars)
  <2> SUFFICES ASSUME TypeOK, OneChain, [Next]_vars PROVE [Register!Next]_(Register!vars)
    OBVIOUS
  <2>1. CASE UNCHANGED vars
    BY <2>1, RegisterStutters DEF vars, SameRegister
  <2>2. ASSUME NEW m \in Material, RetireMaterial(m) PROVE SameRegister
    BY <2>2 DEF RetireMaterial, records, SameRegister
  <2>3. CASE Next
    BY <2>2, <2>3, RegisterStutters, BenchStepMaps, ResultStepMaps, ReadingStepMaps,
       CertificateStepMaps DEF Next
  <2> QED BY <2>1, <2>3
<1> QED BY <1>1, <1>2, OneChainHolds, TypeCorrect, PTL DEF Spec, ImplementsRegister, Register!Spec
=============================================================================
