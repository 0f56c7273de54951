--------------------------- MODULE SentinelExchange ---------------------------
(***************************************************************************)
(* The sealed QC dossier of a furnace batch and its submission to QC       *)
(* Sentinel.                                                               *)
(*                                                                         *)
(* A dossier is computed from the rows of the moment, stored under the     *)
(* hash of its bytes, and pointed at by the batch; the hash of a dossier   *)
(* stands for its bytes, so a blob is the evidence it holds.  A submission *)
(* sends a CSV inside the request and records the attempt afterwards.      *)
(* Several requests run at once, each in one transaction; the audit events *)
(* they write are in AuditChain.                                           *)
(***************************************************************************)
EXTENDS Naturals, Sequences, FiniteSets

CONSTANTS
    Session,        \* requests
    Batch,          \* furnace batches with an instrument
    Slots,          \* QC crucibles of a batch, in tray order 1 .. Slots
    Bead,           \* weights a QC bead may have
    Gradable,       \* those a grade can be stated for (not a zero bead)
    Certified,      \* values the certificate of the material may state
    Nothing,
    MaxSends        \* bound on submissions

\* What comes of one POST.
Answers == {"accepted", "refused", "server_error", "no_connection", "timeout", "broken"}

ASSUME ExchangeAssumption ==
    /\ Slots \in Nat /\ MaxSends \in Nat
    /\ Gradable \subseteq Bead /\ Nothing \notin Bead \cup Answers
    /\ Certified # {}

VARIABLES
    completed,      \* batches whose furnace run is over
    weighed,        \* bead on record of each QC crucible, or Nothing
    raced,          \* crucibles two weighings of which overlapped
    certified,      \* what qc_material states today
    blobs,          \* committed stored_blob rows
    pointer,        \* batch.qc_dossier_sha256, or Nothing
    submissions,    \* committed sentinel_submission rows
    sends,          \* what was posted to Sentinel, and how often it was taken in
    lost,           \* sends whose request died before it recorded them
    request         \* what each session is doing

facts  == <<completed, weighed, raced, certified>>
seals  == <<blobs, pointer>>
posts  == <<submissions, sends, lost>>
vars   == <<facts, seals, posts, request>>

Crucibles == 1 .. Slots
Evidence  == [batch : Batch, weighed : [Crucibles -> Bead \cup {Nothing}], certified : Certified]

Idle == [phase |-> "idle"]

Requests ==
    {Idle}
    \cup [phase : {"weighing"}, batch : Batch, crucible : Crucibles, bead : Bead]
    \cup [phase : {"built", "stored"}, evidence : Evidence, new : BOOLEAN,
          pointed : Evidence \cup {Nothing}]
    \cup [phase : {"sending"}, send : 1 .. MaxSends, attempt : 0 .. 1]
    \cup [phase : {"answered"}, send : 1 .. MaxSends, status : Answers \cup {Nothing}]

Init ==
    /\ completed = {}
    /\ weighed = [b \in Batch |-> [c \in Crucibles |-> Nothing]]
    /\ raced = {}
    /\ certified \in Certified
    /\ blobs = {}
    /\ pointer = [b \in Batch |-> Nothing]
    /\ submissions = <<>>
    /\ sends = <<>>
    /\ lost = {}
    /\ request = [x \in Session |-> Idle]

-----------------------------------------------------------------------------
(***************************************************************************)
(* The facts: the furnace finishes, beads are weighed, a material is       *)
(* edited.                                                                 *)
(***************************************************************************)
Complete(b) ==
    /\ completed' = completed \cup {b}
    /\ UNCHANGED <<weighed, raced, certified, seals, posts, request>>

\* Mutant: a second weighing replaces the first.
WeighableAgain(b, c) == TRUE

\* parted -> weighed is the only move into weighed, and there is none out.
Weighable(b, c) == weighed[b][c] = Nothing

Weighing(b, c) ==
    {y \in Session : request[y].phase = "weighing" /\ request[y].batch = b /\ request[y].crucible = c}

\* The status is read; the balance reading is written after it.
BeginWeighing(x, b, c, w) ==
    /\ request[x] = Idle
    /\ Weighable(b, c)
    /\ raced' = IF Weighing(b, c) = {} THEN raced ELSE raced \cup {<<b, c>>}
    /\ request' = [request EXCEPT ![x] =
                      [phase |-> "weighing", batch |-> b, crucible |-> c, bead |-> w]]
    /\ UNCHANGED <<completed, weighed, certified, seals, posts>>

CommitWeighing(x) ==
    /\ request[x].phase = "weighing"
    /\ weighed' = [weighed EXCEPT ![request[x].batch][request[x].crucible] = request[x].bead]
    /\ request' = [request EXCEPT ![x] = Idle]
    /\ UNCHANGED <<completed, raced, certified, seals, posts>>

EditMaterial(v) ==
    /\ certified' = v
    /\ UNCHANGED <<completed, weighed, raced, seals, posts, request>>

-----------------------------------------------------------------------------
(***************************************************************************)
(* GET qc-dossier: build, store, point, commit.                            *)
(***************************************************************************)
BuildDossier(b) == [batch |-> b, weighed |-> weighed[b], certified |-> certified]

\* Mutant: one blob a batch is enough.
BlobOfBatchExists(e) == \E d \in blobs : d.batch = e.batch

\* ensure_blob: same bytes, same address.
BlobExists(e) == e \in blobs

\* All reads of the request, taken as one moment.  The batch row is read once:
\* persist_dossier gets the instance the session already holds.
ReadDossier(x, b) ==
    /\ request[x] = Idle
    /\ b \in completed
    /\ LET e == BuildDossier(b) IN
         request' = [request EXCEPT ![x] =
             [phase |-> "built", evidence |-> e, new |-> ~BlobExists(e), pointed |-> pointer[b]]]
    /\ UNCHANGED <<facts, seals, posts>>

Inserting(x, e) ==
    request[x].phase = "stored" /\ request[x].new /\ request[x].evidence = e

\* The primary key makes an insert wait for whoever is inserting the same bytes.
Store(x) ==
    /\ request[x].phase = "built"
    /\ request[x].new => /\ request[x].evidence \notin blobs
                         /\ \A y \in Session : ~Inserting(y, request[x].evidence)
    /\ request' = [request EXCEPT ![x].phase = "stored"]
    /\ UNCHANGED <<facts, seals, posts>>

\* ... and refuses it if they committed: an IntegrityError nobody catches.
BlobConflict(x) ==
    /\ request[x].phase = "built"
    /\ request[x].new /\ request[x].evidence \in blobs
    /\ request' = [request EXCEPT ![x] = Idle]
    /\ UNCHANGED <<facts, seals, posts>>

CommitDossier(x) ==
    /\ request[x].phase = "stored"
    /\ LET e == request[x].evidence IN
         /\ blobs' = IF request[x].new THEN blobs \cup {e} ELSE blobs
         /\ pointer' = IF request[x].pointed = e THEN pointer
                                                 ELSE [pointer EXCEPT ![e.batch] = e]
    /\ request' = [request EXCEPT ![x] = Idle]
    /\ UNCHANGED <<facts, posts>>

-----------------------------------------------------------------------------
(***************************************************************************)
(* POST submit-to-sentinel: build again, send, record.                     *)
(***************************************************************************)
\* _qc_rows_from_dossier looks for a name and a batch number where the payload
\* has neither, so a row of the CSV is its grade alone.
Export(e) ==
    LET graded == SelectSeq([c \in Crucibles |-> c], LAMBDA c : e.weighed[c] \in Gradable)
    IN  [i \in DOMAIN graded |-> e.weighed[graded[i]]]

Submit(x, b) ==
    /\ request[x] = Idle
    /\ Len(sends) < MaxSends
    /\ pointer[b] # Nothing
    /\ b \in completed
    /\ LET csv == Export(BuildDossier(b)) IN
         sends' = Append(sends, [payload |-> csv, taken |-> 0])
    /\ request' = [request EXCEPT ![x] =
                      [phase |-> "sending", send |-> Len(sends) + 1, attempt |-> 0]]
    /\ UNCHANGED <<facts, seals, submissions, lost>>

\* What Sentinel may have done behind an answer: a time-out, an error or a
\* broken connection says nothing about it.
TakenIn(answer) ==
    CASE answer = "accepted"                    -> {TRUE}
      [] answer \in {"refused", "no_connection"} -> {FALSE}
      [] OTHER                                  -> {TRUE, FALSE}

Transient == {"server_error", "no_connection", "timeout"}

\* Mutant: a third attempt, and a fourth.
TryAgainAlways(answer, attempt) == answer \in Transient

TryAgain(answer, attempt) == attempt = 0 /\ answer \in Transient

\* http_status: absent when there was no response.
StatusOf(answer) == IF answer \in {"no_connection", "timeout"} THEN Nothing ELSE answer

\* One POST and its answer.  Only ConnectError and TimeoutException are caught;
\* a connection that breaks in between raises out of the handler.
Post(x, answer, taken) ==
    /\ request[x].phase = "sending"
    /\ taken \in TakenIn(answer)
    /\ LET i == request[x].send IN
         /\ sends' = IF taken THEN [sends EXCEPT ![i].taken = @ + 1] ELSE sends
         /\ CASE answer = "broken" ->
                   /\ lost' = lost \cup {i}
                   /\ request' = [request EXCEPT ![x] = Idle]
              [] answer # "broken" /\ TryAgain(answer, request[x].attempt) ->
                   /\ request' = [request EXCEPT ![x].attempt = 1]
                   /\ UNCHANGED lost
              [] OTHER ->
                   /\ request' = [request EXCEPT ![x] =
                          [phase |-> "answered", send |-> i, status |-> StatusOf(answer)]]
                   /\ UNCHANGED lost
    /\ UNCHANGED <<facts, seals, submissions>>

\* Mutant: only an answered attempt is worth a row.
RowsAnswered(i, status) ==
    IF status = Nothing THEN <<>> ELSE <<[send |-> i, status |-> status]>>

RowsOf(i, status) == <<[send |-> i, status |-> status]>>

RecordAttempt(x) ==
    /\ request[x].phase = "answered"
    /\ submissions' = submissions \o RowsOf(request[x].send, request[x].status)
    /\ request' = [request EXCEPT ![x] = Idle]
    /\ UNCHANGED <<facts, seals, sends, lost>>

\* The process dies, the client goes away or the commit is refused.
Die(x) ==
    /\ request[x] # Idle
    /\ lost' = IF request[x].phase \in {"sending", "answered"} THEN lost \cup {request[x].send}
                                                               ELSE lost
    /\ request' = [request EXCEPT ![x] = Idle]
    /\ UNCHANGED <<facts, seals, submissions, sends>>

Next ==
    \/ \E b \in Batch : Complete(b)
    \/ \E x \in Session, b \in Batch, c \in Crucibles, w \in Bead : BeginWeighing(x, b, c, w)
    \/ \E v \in Certified : EditMaterial(v)
    \/ \E x \in Session, b \in Batch : ReadDossier(x, b) \/ Submit(x, b)
    \/ \E x \in Session :
          \/ CommitWeighing(x)
          \/ Store(x) \/ BlobConflict(x) \/ CommitDossier(x)
          \/ \E answer \in Answers, taken \in BOOLEAN : Post(x, answer, taken)
          \/ RecordAttempt(x) \/ Die(x)

Spec == Init /\ [][Next]_vars

-----------------------------------------------------------------------------
(***************************************************************************)
(* Properties.                                                             *)
(***************************************************************************)
\* What a state is made of; what was posted is the CSV of some dossier.
TypeOK ==
    /\ completed \subseteq Batch
    /\ weighed \in [Batch -> [Crucibles -> Bead \cup {Nothing}]]
    /\ raced \subseteq Batch \X Crucibles
    /\ certified \in Certified
    /\ blobs \subseteq Evidence
    /\ pointer \in [Batch -> Evidence \cup {Nothing}]
    /\ submissions \in Seq([send : 1 .. MaxSends, status : Answers \cup {Nothing}])
    /\ sends \in Seq([payload : {Export(e) : e \in Evidence}, taken : Nat])
    /\ Len(sends) <= MaxSends
    /\ lost \subseteq 1 .. Len(sends)
    /\ request \in [Session -> Requests]

\* A batch points at bytes that are in the store and are about this batch,
\* whatever requests raced: the seal can always be fetched and recomputed.
SealIsStored == \A b \in Batch : pointer[b] # Nothing => pointer[b] \in blobs /\ pointer[b].batch = b

\* A sealed measurement stands: a stored dossier is contradicted by a later
\* weighing of its crucible only if two weighings of it overlapped.
SealedGradesStand ==
    \A e \in blobs, c \in Crucibles :
        e.weighed[c] \notin {Nothing, weighed[e.batch][c]} => <<e.batch, c>> \in raced

\* Who has answer i to give: sessions still busy with send i.
Busy(i) == {x \in Session : request[x].phase \in {"sending", "answered"} /\ request[x].send = i}

\* sentinel/client.py:10: every attempt -- successful or not -- is recorded,
\* once.  What escapes is a request that died, or a connection that broke
\* in a way the client does not catch.
EveryAttemptIsRecorded ==
    \A i \in DOMAIN sends :
        Cardinality({n \in DOMAIN submissions : submissions[n].send = i})
          + Cardinality(Busy(i)) + (IF i \in lost THEN 1 ELSE 0) = 1

\* One submission is at most two imports on the other side, and at least one
\* when its row says accepted, whatever was answered or lost before.
RowsMatchImports ==
    /\ \A i \in DOMAIN sends : sends[i].taken <= 2
    /\ \A n \in DOMAIN submissions :
          submissions[n].status = "accepted" => sends[submissions[n].send].taken > 0
=============================================================================
