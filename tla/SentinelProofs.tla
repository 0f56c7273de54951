---------------------------- MODULE SentinelProofs ----------------------------
(***************************************************************************)
(* Sealed dossiers, for any number of requests, batches, crucibles and     *)
(* submissions: the types, that a seal can be fetched, and that it is      *)
(* contradicted only by weighings that overlapped.                         *)
(***************************************************************************)
EXTENDS SentinelExchange, FiniteSetTheorems, TLAPS

\* What a request may be, by what it does.
Weighs  == [phase : {"weighing"}, batch : Batch, crucible : Crucibles, bead : Bead]
Seals   == [phase : {"built", "stored"}, evidence : Evidence, new : BOOLEAN,
            pointed : Evidence \cup {Nothing}]
Sends   == [phase : {"sending"}, send : 1 .. MaxSends, attempt : 0 .. 1]
Answered == [phase : {"answered"}, send : 1 .. MaxSends, status : Answers \cup {Nothing}]

\* A submission is posted before it is answered.
Sent == 1 .. Len(sends)

Posted ==
    \A x \in Session : request[x].phase \in {"sending", "answered"}
        => request[x].send \in Sent

RequestsKnown == request \in [Session -> Requests] /\ Posted

Types == TypeOK /\ Posted

\* The phase of a request tells its kind.
LEMMA KindOfRequest ==
    ASSUME NEW r \in Requests
    PROVE  /\ r.phase = "weighing" => r \in Weighs
           /\ r.phase \in {"built", "stored"} => r \in Seals
           /\ r.phase = "sending" => r \in Sends
           /\ r.phase = "answered" => r \in Answered
           /\ r.phase \in {"idle", "weighing", "built", "stored", "sending", "answered"}
BY DEF Requests, Weighs, Seals, Sends, Answered, Idle

\* Nothing is sealed or sent at first.
LEMMA TypesInit == Init => Types
<1> SUFFICES ASSUME Init PROVE Types
  OBVIOUS
<1>1. Idle \in Requests /\ Idle.phase = "idle"
  BY DEF Requests, Idle
<1>2. request \in [Session -> Requests] /\ Posted
  BY <1>1 DEF Init, Posted
<1>3. weighed \in [Batch -> [Crucibles -> Bead \cup {Nothing}]] /\ pointer \in [Batch -> Evidence \cup {Nothing}]
  BY DEF Init
<1>4. submissions \in Seq([send : 1 .. MaxSends, status : Answers \cup {Nothing}])
      /\ sends \in Seq([payload : Seq(Bead), taken : Nat]) /\ Len(sends) = 0 /\ lost = {}
  BY DEF Init
<1> QED BY <1>2, <1>3, <1>4, ExchangeAssumption DEF Init, Types, TypeOK

\* Only the request of x changes, to another kind of request.
LEMMA OneRequestChanges ==
    ASSUME Types, NEW x \in Session, NEW r \in Requests, request' = [request EXCEPT ![x] = r],
           r.phase \in {"sending", "answered"} => r.send \in Sent',
           Sent \subseteq Sent'
    PROVE  RequestsKnown'
<1>1. request' \in [Session -> Requests]
  BY DEF Types, TypeOK
<1>2. ASSUME NEW y \in Session, request'[y].phase \in {"sending", "answered"}
      PROVE  request'[y].send \in Sent'
  <2>1. CASE y = x
    BY <1>2, <2>1 DEF Types, TypeOK
  <2>2. CASE y # x
    <3>1. request'[y] = request[y]
      BY <2>2 DEF Types, TypeOK
    <3> QED BY <1>2, <3>1 DEF Types, Posted
  <2> QED BY <2>1, <2>2
<1> QED BY <1>1, <1>2 DEF RequestsKnown, Posted

\* What a post leaves its request with.
LEMMA PostAnswers ==
    ASSUME Types, NEW x \in Session, NEW answer \in Answers, NEW taken \in BOOLEAN, Post(x, answer, taken)
    PROVE  \E r \in Requests : /\ request' = [request EXCEPT ![x] = r]
                               /\ r.phase \in {"idle", "sending", "answered"}
                               /\ r.phase # "idle" => r.send = request[x].send
<1>1. request[x] \in Sends
  BY KindOfRequest DEF Post, Types, TypeOK
<1>2. CASE answer = "broken"
  <2>1. Idle \in Requests /\ Idle.phase = "idle"
    BY DEF Requests, Idle
  <2> QED BY <1>2, <2>1 DEF Post
<1>3. CASE answer # "broken" /\ TryAgain(answer, request[x].attempt)
  <2> DEFINE r == [request[x] EXCEPT !.attempt = 1]
  <2>1. request' = [request EXCEPT ![x] = r]
    BY <1>3 DEF Post
  <2>2. r \in Requests /\ r.phase = "sending" /\ r.send = request[x].send
    BY <1>1 DEF Sends, Requests
  <2> QED BY <2>1, <2>2
<1>4. CASE answer # "broken" /\ ~TryAgain(answer, request[x].attempt)
  <2> DEFINE r == [phase |-> "answered", send |-> request[x].send, status |-> StatusOf(answer)]
  <2>1. request' = [request EXCEPT ![x] = r]
    BY <1>4 DEF Post
  <2>2. StatusOf(answer) \in Answers \cup {Nothing} /\ request[x].send \in 1 .. MaxSends
    BY <1>1 DEF StatusOf, Sends
  <2>3. r \in Requests /\ r.phase = "answered" /\ r.send = request[x].send
    BY <2>2 DEF Requests
  <2> QED BY <2>1, <2>3
<1> QED BY <1>2, <1>3, <1>4

\* Every step keeps the types.
LEMMA TypesStep == Types /\ [Next]_vars => Types'
<1> SUFFICES ASSUME Types, [Next]_vars PROVE Types'
  OBVIOUS
<1> USE ExchangeAssumption DEF facts, seals, posts, vars
<1>s. Len(sends) \in Nat /\ \A x \in Session : request[x] \in Requests
  BY DEF RequestsKnown, Types, TypeOK
<1>n. sends' = sends => Sent \subseteq Sent'
  BY DEF Sent
<1>i. Idle \in Requests /\ Idle.phase = "idle"
  BY DEF Requests, Idle
<1>1. ASSUME NEW b \in Batch, Complete(b) PROVE Types'
  BY <1>1 DEF Complete, Types, TypeOK, Posted, Sent
<1>2. ASSUME NEW x \in Session, NEW b \in Batch, NEW c \in Crucibles, NEW w \in Bead, BeginWeighing(x, b, c, w)
      PROVE  Types'
  <2> DEFINE r == [phase |-> "weighing", batch |-> b, crucible |-> c, bead |-> w]
  <2>1. r \in Requests /\ r.phase = "weighing"
    BY DEF Requests
  <2>2. request' = [request EXCEPT ![x] = r] /\ sends' = sends
    BY <1>2 DEF BeginWeighing
  <2> HIDE DEF r
  <2>3. RequestsKnown'
    BY <1>s, <2>1, <2>2, <1>n, OneRequestChanges
  <2> QED BY <1>2, <2>3 DEF BeginWeighing, RequestsKnown, Types, TypeOK
<1>3. ASSUME NEW v \in Certified, EditMaterial(v) PROVE Types'
  BY <1>3 DEF EditMaterial, Types, TypeOK, Posted, Sent
<1>4. ASSUME NEW x \in Session, NEW b \in Batch, ReadDossier(x, b) PROVE Types'
  <2> DEFINE e == BuildDossier(b)
             r == [phase |-> "built", evidence |-> e, new |-> ~BlobExists(e), pointed |-> pointer[b]]
  <2>1. e \in Evidence
    BY DEF BuildDossier, Evidence, Types, TypeOK
  <2>2. (~BlobExists(e)) \in BOOLEAN /\ pointer[b] \in Evidence \cup {Nothing}
    <3> HIDE DEF e
    <3> QED BY DEF Types, TypeOK, BlobExists
  <2>3. r \in Requests /\ r.phase = "built"
    <3> HIDE DEF e
    <3> QED BY <2>1, <2>2 DEF Requests
  <2>4. request' = [request EXCEPT ![x] = r] /\ sends' = sends
    BY <1>4 DEF ReadDossier
  <2> HIDE DEF r, e
  <2>5. RequestsKnown'
    BY <1>s, <2>3, <2>4, <1>n, OneRequestChanges
  <2> QED BY <1>4, <2>5 DEF ReadDossier, RequestsKnown, Types, TypeOK
<1>5. ASSUME NEW x \in Session, NEW b \in Batch, Submit(x, b) PROVE Types'
  <2> DEFINE r == [phase |-> "sending", send |-> Len(sends) + 1, attempt |-> 0]
             csv == Export(BuildDossier(b))
  <2>1. r \in Requests /\ r.phase = "sending" /\ r.send = Len(sends) + 1
    BY <1>5, <1>s DEF Requests, Submit
  <2> DEFINE Payloads == {Export(e) : e \in Evidence}
  <2>2. csv \in Payloads
    <3>1. BuildDossier(b) \in Evidence
      BY DEF BuildDossier, Evidence, Types, TypeOK
    <3> QED BY <3>1
  <2>3. request' = [request EXCEPT ![x] = r] /\ sends' = Append(sends, [payload |-> csv, taken |-> 0])
    BY <1>5 DEF Submit
  <2>4. sends' \in Seq([payload : Payloads, taken : Nat]) /\ Len(sends') = Len(sends) + 1
    <3>1. sends \in Seq([payload : Payloads, taken : Nat])
      BY DEF Types, TypeOK
    <3> HIDE DEF csv, Payloads
    <3> QED BY <2>2, <2>3, <3>1
  <2>5. Sent \subseteq Sent' /\ Len(sends) + 1 \in Sent'
    <3> HIDE DEF csv, r, Payloads
    <3> QED BY <1>s, <2>4 DEF Sent
  <2> HIDE DEF csv, r, Payloads
  <2>6. RequestsKnown'
    BY <1>s, <2>1, <2>3, <2>5, OneRequestChanges
  <2> QED BY <1>5, <1>s, <2>4, <2>6 DEF Submit, RequestsKnown, Types, TypeOK, Payloads
<1>6. ASSUME NEW x \in Session, CommitWeighing(x) PROVE Types'
  <2>1. request[x] \in Weighs
    BY <1>6, <1>s, KindOfRequest DEF CommitWeighing
  <2>2. weighed' \in [Batch -> [Crucibles -> Bead \cup {Nothing}]]
    BY <1>6, <2>1 DEF CommitWeighing, Weighs, Types, TypeOK
  <2>3. RequestsKnown'
    BY <1>6, <1>s, <1>i, <1>n, OneRequestChanges DEF CommitWeighing
  <2> QED BY <1>6, <2>2, <2>3 DEF CommitWeighing, RequestsKnown, Types, TypeOK
<1>7. ASSUME NEW x \in Session, Store(x) PROVE Types'
  <2>1. request[x] \in Seals
    BY <1>7, <1>s, KindOfRequest DEF Store
  <2> DEFINE r == [request[x] EXCEPT !.phase = "stored"]
  <2>2. r \in Requests /\ r.phase = "stored"
    BY <2>1 DEF Requests, Seals
  <2>3. request' = [request EXCEPT ![x] = r] /\ sends' = sends
    BY <1>7 DEF Store
  <2> HIDE DEF r
  <2>4. RequestsKnown'
    BY <1>s, <2>2, <2>3, <1>n, OneRequestChanges
  <2> QED BY <1>7, <2>4 DEF Store, RequestsKnown, Types, TypeOK
<1>8. ASSUME NEW x \in Session, BlobConflict(x) PROVE Types'
  <2>1. RequestsKnown'
    BY <1>8, <1>s, <1>i, <1>n, OneRequestChanges DEF BlobConflict
  <2> QED BY <1>8, <2>1 DEF BlobConflict, RequestsKnown, Types, TypeOK
<1>9. ASSUME NEW x \in Session, CommitDossier(x) PROVE Types'
  <2>1. request[x] \in Seals
    BY <1>9, <1>s, KindOfRequest DEF CommitDossier
  <2>2. request[x].evidence \in Evidence
    BY <2>1 DEF Seals
  <2>3. blobs' \subseteq Evidence /\ pointer' \in [Batch -> Evidence \cup {Nothing}]
    BY <1>9, <2>2 DEF CommitDossier, Types, TypeOK
  <2>4. RequestsKnown'
    BY <1>9, <1>s, <1>i, <1>n, OneRequestChanges DEF CommitDossier
  <2> QED BY <1>9, <2>3, <2>4 DEF CommitDossier, RequestsKnown, Types, TypeOK
<1>10. ASSUME NEW x \in Session, NEW answer \in Answers, NEW taken \in BOOLEAN, Post(x, answer, taken)
       PROVE  Types'
  <2> DEFINE i == request[x].send
  <2>1. request[x] \in Sends /\ i \in 1 .. Len(sends)
    BY <1>10, <1>s, KindOfRequest DEF Post, Types, Posted, Sent
  <2> DEFINE Payloads == {Export(e) : e \in Evidence}
             Rows == [payload : Payloads, taken : Nat]
  <2>2. sends' \in Seq(Rows) /\ Len(sends') = Len(sends)
    <3>1. sends \in Seq(Rows)
      BY DEF Types, TypeOK
    <3>2. CASE sends' = sends
      BY <3>1, <3>2
    <3>3. CASE sends' = [sends EXCEPT ![i].taken = @ + 1]
      <4>1. sends[i] \in Rows
        <5> HIDE DEF Payloads, Rows, i
        <5> QED BY <2>1, <3>1
      <4>2. [sends[i] EXCEPT !.taken = @ + 1] \in Rows
        <5> HIDE DEF Payloads, i
        <5> QED BY <4>1
      <4>3. sends' = [sends EXCEPT ![i] = [sends[i] EXCEPT !.taken = @ + 1]]
        BY <3>3
      <4> HIDE DEF Rows
      <4> QED BY <2>1, <3>1, <4>2, <4>3
    <3> QED BY <1>10, <3>2, <3>3 DEF Post
  <2>3. PICK r \in Requests : /\ request' = [request EXCEPT ![x] = r]
                              /\ r.phase \in {"idle", "sending", "answered"}
                              /\ r.phase # "idle" => r.send = i
    BY <1>10, PostAnswers
  <2>4. RequestsKnown'
    BY <1>s, <2>1, <2>2, <2>3, OneRequestChanges DEF Sent
  <2>5. lost' \subseteq 1 .. Len(sends')
    BY <1>10, <2>1, <2>2 DEF Post, Types, TypeOK
  <2> QED BY <1>10, <2>2, <2>4, <2>5 DEF Post, RequestsKnown, Types, TypeOK
<1>11. ASSUME NEW x \in Session, RecordAttempt(x) PROVE Types'
  <2>1. request[x] \in Answered
    BY <1>11, <1>s, KindOfRequest DEF RecordAttempt
  <2> DEFINE row == [send |-> request[x].send, status |-> request[x].status]
             Rows == [send : 1 .. MaxSends, status : Answers \cup {Nothing}]
  <2>2. row \in Rows
    BY <2>1 DEF Answered
  <2>3. submissions' = submissions \o <<row>>
    BY <1>11 DEF RecordAttempt, RowsOf
  <2>4. submissions' \in Seq(Rows)
    <3>1. submissions \in Seq(Rows)
      BY DEF Types, TypeOK
    <3> HIDE DEF Rows, row
    <3> QED BY <2>2, <2>3, <3>1
  <2>5. RequestsKnown'
    BY <1>11, <1>s, <1>i, <1>n, OneRequestChanges DEF RecordAttempt
  <2> QED BY <1>11, <2>4, <2>5 DEF RecordAttempt, RequestsKnown, Types, TypeOK
<1>12. ASSUME NEW x \in Session, Die(x) PROVE Types'
  <2>1. lost' \subseteq 1 .. Len(sends)
    BY <1>12, <1>s DEF Die, Types, TypeOK, Posted, Sent
  <2>2. RequestsKnown'
    BY <1>12, <1>s, <1>i, <1>n, OneRequestChanges DEF Die
  <2> QED BY <1>12, <2>1, <2>2 DEF Die, RequestsKnown, Types, TypeOK
<1>13. CASE UNCHANGED vars
  BY <1>13 DEF Types, TypeOK, Posted, Sent
<1> QED BY <1>1, <1>2, <1>3, <1>4, <1>5, <1>6, <1>7, <1>8, <1>9, <1>10, <1>11, <1>12, <1>13 DEF Next

(***************************************************************************)
(* Every state of the exchange is of its type; a submission is posted      *)
(* before it is answered.                                                  *)
(***************************************************************************)
THEOREM ExchangeTypes == Spec => []TypeOK
BY TypesInit, TypesStep, PTL DEF Spec, Types

-----------------------------------------------------------------------------
(***************************************************************************)
(* Seals.  A request that found the blob can count on it, because nothing  *)
(* removes a blob; so whoever moves a pointer has the blob or brings it.   *)
(***************************************************************************)
Sealed ==
    /\ SealIsStored
    /\ \A x \in Session : (request[x].phase \in {"built", "stored"} /\ ~request[x].new)
                             => request[x].evidence \in blobs

\* Another request of x, or none, that need not find a blob.
LEMMA SealedKeeps ==
    ASSUME Types, Sealed, NEW x \in Session, NEW r, request' = [request EXCEPT ![x] = r],
           r.phase \in {"built", "stored"} /\ ~r.new => r.evidence \in blobs,
           blobs \subseteq blobs',
           SealIsStored'
    PROVE  Sealed'
<1> SUFFICES ASSUME NEW y \in Session, request'[y].phase \in {"built", "stored"}, ~request'[y].new
             PROVE  request'[y].evidence \in blobs'
  BY DEF Sealed
<1>1. CASE y = x
  BY <1>1 DEF Types, TypeOK
<1>2. CASE y # x
  <2>1. request'[y] = request[y]
    BY <1>2 DEF Types, TypeOK
  <2> QED BY <2>1 DEF Sealed
<1> QED BY <1>1, <1>2

\* Every step keeps the seals.
LEMMA SealedStep == Types /\ Sealed /\ [Next]_vars => Sealed'
<1> SUFFICES ASSUME Types, Sealed, [Next]_vars PROVE Sealed'
  OBVIOUS
<1> USE DEF facts, seals, posts, vars
<1>i. Idle.phase = "idle"
  BY DEF Idle
<1>1. ASSUME UNCHANGED <<request, seals>> PROVE Sealed'
  BY <1>1 DEF Sealed, SealIsStored
<1>2. ASSUME UNCHANGED seals, NEW x \in Session, NEW r, request' = [request EXCEPT ![x] = r],
             r.phase \notin {"built", "stored"}
      PROVE  Sealed'
  BY <1>2, SealedKeeps DEF Sealed, SealIsStored
<1>3. ASSUME NEW b \in Batch, Complete(b) PROVE Sealed'
  BY <1>1, <1>3 DEF Complete
<1>4. ASSUME NEW x \in Session, NEW b \in Batch, NEW c \in Crucibles, NEW w \in Bead, BeginWeighing(x, b, c, w)
      PROVE  Sealed'
  <2>1. [phase |-> "weighing", batch |-> b, crucible |-> c, bead |-> w].phase \notin {"built", "stored"}
    OBVIOUS
  <2> QED BY <1>2, <1>4, <2>1 DEF BeginWeighing
<1>5. ASSUME NEW v \in Certified, EditMaterial(v) PROVE Sealed'
  BY <1>1, <1>5 DEF EditMaterial
<1>6. ASSUME NEW x \in Session, NEW b \in Batch, ReadDossier(x, b) PROVE Sealed'
  <2> DEFINE e == BuildDossier(b)
             r == [phase |-> "built", evidence |-> e, new |-> ~BlobExists(e), pointed |-> pointer[b]]
  <2>1. request' = [request EXCEPT ![x] = r] /\ blobs' = blobs /\ pointer' = pointer
    BY <1>6 DEF ReadDossier
  <2>2. ~r.new => r.evidence \in blobs
    BY DEF BlobExists
  <2> HIDE DEF r
  <2> QED BY <2>1, <2>2, SealedKeeps DEF Sealed, SealIsStored
<1>7. ASSUME NEW x \in Session, NEW b \in Batch, Submit(x, b) PROVE Sealed'
  <2>1. [phase |-> "sending", send |-> Len(sends) + 1, attempt |-> 0].phase \notin {"built", "stored"}
    OBVIOUS
  <2> QED BY <1>2, <1>7, <2>1 DEF Submit
<1>8. ASSUME NEW x \in Session, CommitWeighing(x) \/ BlobConflict(x) \/ RecordAttempt(x) \/ Die(x)
      PROVE  Sealed'
  BY <1>2, <1>8, <1>i DEF CommitWeighing, BlobConflict, RecordAttempt, Die
<1>9. ASSUME NEW x \in Session, Store(x) PROVE Sealed'
  <2>1. request[x] \in Seals
    BY <1>9, KindOfRequest DEF Store, Types, TypeOK
  <2> DEFINE r == [request[x] EXCEPT !.phase = "stored"]
  <2>2. request' = [request EXCEPT ![x] = r] /\ blobs' = blobs /\ pointer' = pointer
    BY <1>9 DEF Store
  <2>3. r.new = request[x].new /\ r.evidence = request[x].evidence
    BY <2>1 DEF Seals
  <2>4. ~r.new => r.evidence \in blobs
    BY <1>9, <2>3 DEF Store, Sealed
  <2> HIDE DEF r
  <2> QED BY <2>2, <2>4, SealedKeeps DEF Sealed, SealIsStored
<1>10. ASSUME NEW x \in Session, CommitDossier(x) PROVE Sealed'
  <2> DEFINE e == request[x].evidence
  <2>1. request[x] \in Seals
    BY <1>10, KindOfRequest DEF CommitDossier, Types, TypeOK
  <2>2. e \in blobs' /\ e.batch \in Batch /\ blobs \subseteq blobs'
    BY <1>10, <2>1 DEF CommitDossier, Seals, Evidence, Sealed
  <2>3. pointer' = pointer \/ pointer' = [pointer EXCEPT ![e.batch] = e]
    BY <1>10 DEF CommitDossier
  <2>4. SealIsStored'
    <3> SUFFICES ASSUME NEW b \in Batch, pointer'[b] # Nothing
                 PROVE  pointer'[b] \in blobs' /\ pointer'[b].batch = b
      BY DEF SealIsStored
    <3>1. pointer'[b] = pointer[b] \/ (b = e.batch /\ pointer'[b] = e)
      BY <2>2, <2>3 DEF Types, TypeOK
    <3> QED BY <2>2, <3>1 DEF Sealed, SealIsStored
  <2> QED BY <1>10, <1>i, <2>2, <2>4, SealedKeeps DEF CommitDossier
<1>11. ASSUME NEW x \in Session, NEW answer \in Answers, NEW taken \in BOOLEAN, Post(x, answer, taken)
       PROVE  Sealed'
  <2>1. PICK r : request' = [request EXCEPT ![x] = r] /\ r.phase \in {"idle", "sending", "answered"}
    BY <1>11, PostAnswers
  <2> QED BY <1>2, <1>11, <2>1 DEF Post
<1>12. CASE UNCHANGED vars
  BY <1>1, <1>12
<1> QED BY <1>3, <1>4, <1>5, <1>6, <1>7, <1>8, <1>9, <1>10, <1>11, <1>12 DEF Next

(***************************************************************************)
(* A batch points at bytes that are in the store and about the batch, with *)
(* any number of dossier reads, refused inserts and crashes.               *)
(***************************************************************************)
THEOREM SealIsStoredHolds == Spec => []SealIsStored
<1>1. Init => Sealed
  BY DEF Init, Sealed, SealIsStored, Idle
<1>2. Sealed => SealIsStored
  BY DEF Sealed
<1> QED BY <1>1, <1>2, TypesInit, TypesStep, SealedStep, PTL DEF Spec

-----------------------------------------------------------------------------
(***************************************************************************)
(* Weighings.  Two requests that weigh one crucible, or one that goes on   *)
(* after another has weighed it, have raced; what a dossier -- stored, or  *)
(* on its way -- says of a crucible was on record, and differs from the    *)
(* record only if the crucible was raced for.                              *)
(***************************************************************************)
WeighsOn(x, b, c) == request[x].phase = "weighing" /\ request[x].batch = b /\ request[x].crucible = c

Stands(e) ==
    \A c \in Crucibles : e.weighed[c] # Nothing =>
        /\ weighed[e.batch][c] # Nothing
        /\ e.weighed[c] # weighed[e.batch][c] => <<e.batch, c>> \in raced

Weighed ==
    /\ \A b \in Batch, c \in Crucibles, x \in Session : WeighsOn(x, b, c) =>
          /\ weighed[b][c] # Nothing => <<b, c>> \in raced
          /\ \A y \in Session \ {x} : WeighsOn(y, b, c) => <<b, c>> \in raced
    /\ \A e \in blobs : Stands(e)
    /\ \A x \in Session : request[x].phase \in {"built", "stored"} => Stands(request[x].evidence)

\* One request changes, and what it now knows stands.
LEMMA WeighedKeeps ==
    ASSUME Types, Weighed, NEW x \in Session, NEW r, request' = [request EXCEPT ![x] = r],
           r.phase # "weighing",
           r.phase \in {"built", "stored"} => Stands(r.evidence),
           weighed' = weighed, raced' = raced,
           \A e \in blobs' : e \in blobs \/ Stands(e)
    PROVE  Weighed'
<1>1. request'[x] = r /\ \A y \in Session \ {x} : request'[y] = request[y]
  BY DEF Types, TypeOK
<1>2. ASSUME NEW b \in Batch, NEW c \in Crucibles, NEW y \in Session, WeighsOn(y, b, c)'
      PROVE  /\ weighed'[b][c] # Nothing => <<b, c>> \in raced'
             /\ \A z \in Session \ {y} : WeighsOn(z, b, c)' => <<b, c>> \in raced'
  <2>1. y # x /\ WeighsOn(y, b, c)
    BY <1>1, <1>2 DEF WeighsOn
  <2>2. \A z \in Session : WeighsOn(z, b, c)' => WeighsOn(z, b, c)
    BY <1>1 DEF WeighsOn
  <2> QED BY <2>1, <2>2 DEF Weighed
<1>3. ASSUME NEW e \in blobs' PROVE Stands(e)'
  <2>1. Stands(e)
    BY <1>3 DEF Weighed
  <2> QED BY <2>1 DEF Stands
<1>4. ASSUME NEW y \in Session, request'[y].phase \in {"built", "stored"}
      PROVE  Stands(request[y].evidence)'
  <2>1. PICK e : e = request'[y].evidence
    OBVIOUS
  <2>2. Stands(e)
    BY <1>1, <1>4, <2>1 DEF Weighed
  <2> QED BY <2>1, <2>2 DEF Stands
<1> QED BY <1>2, <1>3, <1>4 DEF Weighed

\* A weighing begins: on record as a race if another one goes on.
LEMMA BeginWeighingKeeps ==
    ASSUME Types, Weighed, NEW x \in Session, NEW b \in Batch, NEW c \in Crucibles, NEW w \in Bead,
           BeginWeighing(x, b, c, w)
    PROVE  Weighed'
<1>1. /\ request[x] = Idle /\ weighed[b][c] = Nothing
      /\ weighed' = weighed /\ blobs' = blobs /\ raced \subseteq raced'
      /\ Weighing(b, c) # {} => <<b, c>> \in raced'
  BY DEF BeginWeighing, Weighable, facts, seals
<1>2. /\ request'[x] = [phase |-> "weighing", batch |-> b, crucible |-> c, bead |-> w]
      /\ \A y \in Session \ {x} : request'[y] = request[y]
  BY DEF BeginWeighing, Types, TypeOK
<1>3. ASSUME NEW d \in Batch, NEW k \in Crucibles, NEW y \in Session, WeighsOn(y, d, k)'
      PROVE  /\ weighed'[d][k] # Nothing => <<d, k>> \in raced'
             /\ \A z \in Session \ {y} : WeighsOn(z, d, k)' => <<d, k>> \in raced'
  <2>1. WeighsOn(x, d, k)' => d = b /\ k = c
    BY <1>2 DEF WeighsOn
  <2>2. \A z \in Session \ {x} : WeighsOn(z, d, k)' => WeighsOn(z, d, k)
    BY <1>2 DEF WeighsOn
  <2>3. \A z \in Session \ {x} : (WeighsOn(x, d, k)' /\ WeighsOn(z, d, k)') => <<d, k>> \in raced'
    BY <1>1, <2>1, <2>2 DEF WeighsOn, Weighing
  <2>4. CASE y = x
    BY <1>1, <1>3, <2>1, <2>3, <2>4
  <2>5. CASE y # x
    <3>1. /\ weighed[d][k] # Nothing => <<d, k>> \in raced
          /\ \A z \in Session \ {y} : WeighsOn(z, d, k) => <<d, k>> \in raced
      BY <1>3, <2>2, <2>5 DEF Weighed
    <3> QED BY <1>1, <1>3, <2>2, <2>3, <2>5, <3>1
  <2> QED BY <2>4, <2>5
<1>4. ASSUME NEW e, Stands(e) PROVE Stands(e)'
  BY <1>1, <1>4 DEF Stands
<1>5. ASSUME NEW y \in Session, request'[y].phase \in {"built", "stored"}
      PROVE  Stands(request[y].evidence)'
  <2>1. y # x
    BY <1>2, <1>5
  <2>2. request'[y] = request[y]
    BY <1>2, <2>1
  <2>3. PICK e : e = request[y].evidence
    OBVIOUS
  <2>4. Stands(e)
    BY <1>5, <2>2, <2>3 DEF Weighed
  <2> QED BY <1>1, <2>2, <2>3, <2>4 DEF Stands
<1> QED BY <1>1, <1>3, <1>4, <1>5 DEF Weighed

\* A weighing is written: over another one only if they raced.
LEMMA CommitWeighingKeeps ==
    ASSUME Types, Weighed, NEW x \in Session, CommitWeighing(x)
    PROVE  Weighed'
<1> DEFINE b == request[x].batch
           c == request[x].crucible
<1>1. request[x] \in Weighs
  BY KindOfRequest DEF CommitWeighing, Types, TypeOK
<1>2. b \in Batch /\ c \in Crucibles /\ request[x].bead \in Bead /\ request[x].bead # Nothing
  BY <1>1, ExchangeAssumption DEF Weighs
<1>3. WeighsOn(x, b, c)
  BY DEF CommitWeighing, WeighsOn
<1>4. /\ weighed' = [weighed EXCEPT ![b][c] = request[x].bead]
      /\ raced' = raced /\ blobs' = blobs
  BY DEF CommitWeighing, seals
<1>5. request'[x] = Idle /\ \A y \in Session \ {x} : request'[y] = request[y]
  BY DEF CommitWeighing, Types, TypeOK
<1>6. weighed[b][c] # Nothing => <<b, c>> \in raced
  BY <1>2, <1>3 DEF Weighed
<1>7. ASSUME NEW d \in Batch, NEW k \in Crucibles
      PROVE  weighed'[d][k] = IF d = b /\ k = c THEN request[x].bead ELSE weighed[d][k]
  <2> HIDE DEF b, c
  <2> QED BY <1>2, <1>4 DEF Types, TypeOK
<1>8. ASSUME NEW d \in Batch, NEW k \in Crucibles, NEW y \in Session, WeighsOn(y, d, k)'
      PROVE  /\ weighed'[d][k] # Nothing => <<d, k>> \in raced'
             /\ \A z \in Session \ {y} : WeighsOn(z, d, k)' => <<d, k>> \in raced'
  <2>1. \A z \in Session : WeighsOn(z, d, k)' => z # x /\ WeighsOn(z, d, k)
    BY <1>5 DEF WeighsOn, Idle
  <2>2. /\ weighed[d][k] # Nothing => <<d, k>> \in raced
        /\ \A z \in Session \ {y} : WeighsOn(z, d, k) => <<d, k>> \in raced
    BY <1>8, <2>1 DEF Weighed
  <2>3. d = b /\ k = c => <<d, k>> \in raced
    BY <1>3, <1>8, <2>1, <2>2
  <2> QED BY <1>4, <1>7, <2>1, <2>2, <2>3
<1>9. ASSUME NEW e, e.batch \in Batch, Stands(e) PROVE Stands(e)'
  <2> SUFFICES ASSUME NEW k \in Crucibles, e.weighed[k] # Nothing
               PROVE  /\ weighed'[e.batch][k] # Nothing
                      /\ e.weighed[k] # weighed'[e.batch][k] => <<e.batch, k>> \in raced'
    BY DEF Stands
  <2>1. /\ weighed[e.batch][k] # Nothing
        /\ e.weighed[k] # weighed[e.batch][k] => <<e.batch, k>> \in raced
    BY <1>9 DEF Stands
  <2>2. weighed'[e.batch][k] = IF e.batch = b /\ k = c THEN request[x].bead ELSE weighed[e.batch][k]
    BY <1>7, <1>9
  <2> QED BY <1>2, <1>4, <1>6, <2>1, <2>2
<1>10. ASSUME NEW e \in blobs' PROVE Stands(e)'
  <2>1. Stands(e) /\ e.batch \in Batch
    BY <1>4, <1>10 DEF Weighed, Types, TypeOK, Evidence
  <2> QED BY <1>9, <2>1
<1>11. ASSUME NEW y \in Session, request'[y].phase \in {"built", "stored"}
       PROVE  Stands(request[y].evidence)'
  <2>1. request'[y] = request[y] /\ request[y] \in Seals
    BY <1>5, <1>11, KindOfRequest DEF Idle, Types, TypeOK
  <2>2. PICK e : e = request[y].evidence
    OBVIOUS
  <2>3. Stands(e) /\ e.batch \in Batch
    BY <1>11, <2>1, <2>2 DEF Weighed, Seals, Evidence
  <2>4. Stands(e)'
    BY <1>9, <2>3
  <2> QED BY <2>1, <2>2, <2>4 DEF Stands
<1> QED BY <1>8, <1>10, <1>11 DEF Weighed

\* Every step keeps what is said of weighings.
LEMMA WeighedStep == Types /\ Weighed /\ [Next]_vars => Weighed'
<1> SUFFICES ASSUME Types, Weighed, [Next]_vars PROVE Weighed'
  OBVIOUS
<1> USE DEF facts, seals, posts, vars
<1>i. Idle.phase = "idle"
  BY DEF Idle
<1>1. ASSUME UNCHANGED <<request, weighed, raced, blobs>> PROVE Weighed'
  BY <1>1 DEF Weighed, WeighsOn, Stands
<1>2. ASSUME UNCHANGED <<weighed, raced, blobs>>, NEW x \in Session, NEW r, request' = [request EXCEPT ![x] = r],
             r.phase \notin {"weighing", "built", "stored"}
      PROVE  Weighed'
  BY <1>2, WeighedKeeps
<1>3. ASSUME NEW b \in Batch, Complete(b) PROVE Weighed'
  BY <1>1, <1>3 DEF Complete
<1>4. ASSUME NEW x \in Session, NEW b \in Batch, NEW c \in Crucibles, NEW w \in Bead, BeginWeighing(x, b, c, w)
      PROVE  Weighed'
  BY <1>4, BeginWeighingKeeps
<1>5. ASSUME NEW v \in Certified, EditMaterial(v) PROVE Weighed'
  BY <1>1, <1>5 DEF EditMaterial
<1>6. ASSUME NEW x \in Session, NEW b \in Batch, ReadDossier(x, b) PROVE Weighed'
  <2> DEFINE e == BuildDossier(b)
             r == [phase |-> "built", evidence |-> e, new |-> ~BlobExists(e), pointed |-> pointer[b]]
  <2>1. request' = [request EXCEPT ![x] = r] /\ UNCHANGED <<weighed, raced, blobs>>
    BY <1>6 DEF ReadDossier
  <2>2. Stands(e)
    BY DEF Stands, BuildDossier
  <2>3. r.phase = "built" /\ r.evidence = e
    OBVIOUS
  <2> HIDE DEF r, e
  <2> QED BY <2>1, <2>2, <2>3, WeighedKeeps
<1>7. ASSUME NEW x \in Session, NEW b \in Batch, Submit(x, b) PROVE Weighed'
  <2>1. [phase |-> "sending", send |-> Len(sends) + 1, attempt |-> 0].phase \notin {"weighing", "built", "stored"}
    OBVIOUS
  <2> QED BY <1>2, <1>7, <2>1 DEF Submit
<1>8. ASSUME NEW x \in Session, BlobConflict(x) \/ RecordAttempt(x) \/ Die(x) PROVE Weighed'
  BY <1>2, <1>8, <1>i DEF BlobConflict, RecordAttempt, Die
<1>9. ASSUME NEW x \in Session, Store(x) PROVE Weighed'
  <2>1. request[x] \in Seals
    BY <1>9, KindOfRequest DEF Store, Types, TypeOK
  <2> DEFINE r == [request[x] EXCEPT !.phase = "stored"]
  <2>2. request' = [request EXCEPT ![x] = r] /\ UNCHANGED <<weighed, raced, blobs>>
    BY <1>9 DEF Store
  <2>3. r.phase = "stored" /\ r.evidence = request[x].evidence
    BY <2>1 DEF Seals
  <2>4. PICK e : e = request[x].evidence
    OBVIOUS
  <2>5. Stands(e)
    BY <1>9, <2>4 DEF Store, Weighed
  <2> HIDE DEF r
  <2> QED BY <2>2, <2>3, <2>4, <2>5, WeighedKeeps
<1>10. ASSUME NEW x \in Session, CommitDossier(x) PROVE Weighed'
  <2>1. \A e \in blobs' : e \in blobs \/ Stands(e)
    BY <1>10 DEF CommitDossier, Weighed
  <2> QED BY <1>10, <1>i, <2>1, WeighedKeeps DEF CommitDossier
<1>11. ASSUME NEW x \in Session, CommitWeighing(x) PROVE Weighed'
  BY <1>11, CommitWeighingKeeps
<1>12. ASSUME NEW x \in Session, NEW answer \in Answers, NEW taken \in BOOLEAN, Post(x, answer, taken)
       PROVE  Weighed'
  <2>1. PICK r : request' = [request EXCEPT ![x] = r] /\ r.phase \in {"idle", "sending", "answered"}
    BY <1>12, PostAnswers
  <2> QED BY <1>2, <1>12, <2>1 DEF Post
<1>13. CASE UNCHANGED vars
  BY <1>1, <1>13
<1> QED BY <1>3, <1>4, <1>5, <1>6, <1>7, <1>8, <1>9, <1>10, <1>11, <1>12, <1>13 DEF Next

(***************************************************************************)
(* A sealed measurement stands: no stored dossier is contradicted by the   *)
(* crucible it tells of unless two requests weighed it at once.            *)
(***************************************************************************)
THEOREM SealedGradesStandHolds == Spec => []SealedGradesStand
<1>1. Init => Weighed
  BY DEF Init, Weighed, WeighsOn, Idle
<1>2. Weighed => SealedGradesStand
  BY DEF Weighed, Stands, SealedGradesStand
<1> QED BY <1>1, <1>2, TypesInit, TypesStep, WeighedStep, PTL DEF Spec

-----------------------------------------------------------------------------
(***************************************************************************)
(* Submissions.  A send belongs to one request at a time, and no attempt   *)
(* of it is taken in twice.                                                *)
(***************************************************************************)
IsBusy(x)   == request[x].phase \in {"sending", "answered"}
Taken(i)    == sends[i].taken
SendOf(x)   == request[x].send

OneOwner == \A x, y \in Session : IsBusy(x) /\ IsBusy(y) /\ SendOf(x) = SendOf(y) => x = y

Imports ==
    /\ OneOwner
    /\ \A i \in Sent : Taken(i) \in 0 .. 2
    /\ \A x \in Session : request[x].phase = "sending" => Taken(SendOf(x)) <= request[x].attempt
    /\ \A x \in Session : request[x].phase = "answered" /\ request[x].status = "accepted"
                             => Taken(SendOf(x)) > 0
    /\ \A n \in DOMAIN submissions :
          /\ submissions[n].send \in Sent
          /\ submissions[n].status = "accepted" => Taken(submissions[n].send) > 0

\* Nothing is imported, or more than before: rows and answers stay true.
LEMMA ImportsKeep ==
    ASSUME Types, Imports, NEW x \in Session, NEW r, request' = [request EXCEPT ![x] = r],
           r.phase \notin {"sending", "answered"},
           sends' = sends, submissions' = submissions
    PROVE  Imports'
<1>1. request'[x] = r /\ \A y \in Session \ {x} : request'[y] = request[y]
  BY DEF Types, TypeOK
<1>2. OneOwner'
  BY <1>1 DEF Imports, OneOwner, IsBusy, SendOf
<1>3. Sent' = Sent /\ \A i : Taken(i)' = Taken(i)
  BY DEF Sent, Taken
<1> QED BY <1>1, <1>2, <1>3 DEF Imports, SendOf, Taken

\* A new submission has been taken in by nobody and is nobody else's.
LEMMA SubmitImports ==
    ASSUME Types, Imports, NEW x \in Session, NEW b \in Batch, Submit(x, b)
    PROVE  Imports'
<1> DEFINE csv == Export(BuildDossier(b))
<1>n. PICK n : n = Len(sends) + 1
  OBVIOUS
<1>1. /\ request' = [request EXCEPT ![x] = [phase |-> "sending", send |-> n, attempt |-> 0]]
      /\ sends' = Append(sends, [payload |-> csv, taken |-> 0])
      /\ submissions' = submissions
  BY <1>n DEF Submit
<1> HIDE DEF csv
<1>2. Len(sends) \in Nat /\ Len(sends') = n /\ n = Len(sends) + 1
  BY <1>n, <1>1 DEF Types, TypeOK
<1>3. Sent' = Sent \cup {n} /\ n \notin Sent
  BY <1>2 DEF Sent
<1>4. Taken(n)' = 0 /\ \A i \in Sent : Taken(i)' = Taken(i)
  <2>1. sends'[n] = [payload |-> csv, taken |-> 0]
    BY <1>1, <1>2 DEF Types, TypeOK
  <2>2. \A i \in 1 .. Len(sends) : sends'[i] = sends[i]
    BY <1>1 DEF Types, TypeOK
  <2> QED BY <2>1, <2>2 DEF Taken, Sent
<1>5. /\ request'[x] = [phase |-> "sending", send |-> n, attempt |-> 0]
      /\ \A y \in Session \ {x} : request'[y] = request[y]
  BY <1>1 DEF Types, TypeOK
<1>6. \A y \in Session \ {x} : IsBusy(y)' => IsBusy(y) /\ SendOf(y)' = SendOf(y) /\ SendOf(y) \in Sent
  BY <1>5 DEF IsBusy, SendOf, Types, Posted
<1>7. OneOwner'
  <2>1. SendOf(x)' = n
    BY <1>5 DEF SendOf
  <2> QED BY <1>3, <1>6, <2>1 DEF Imports, OneOwner
<1>8. \A i \in Sent' : Taken(i)' \in 0 .. 2
  BY <1>3, <1>4 DEF Imports
<1>9. \A y \in Session : request'[y].phase = "sending" => Taken(SendOf(y))' <= request'[y].attempt
  BY <1>4, <1>5, <1>6 DEF Imports, IsBusy, SendOf, Taken
<1>10. \A y \in Session : request'[y].phase = "answered" /\ request'[y].status = "accepted"
                             => Taken(SendOf(y))' > 0
  BY <1>4, <1>5, <1>6 DEF Imports, IsBusy, SendOf, Taken
<1>11. \A k \in DOMAIN submissions' :
          /\ submissions'[k].send \in Sent'
          /\ submissions'[k].status = "accepted" => Taken(submissions[k].send)' > 0
  BY <1>1, <1>3, <1>4 DEF Imports, Taken
<1> QED BY <1>7, <1>8, <1>9, <1>10, <1>11 DEF Imports

\* One attempt: it may be taken in, and only the second one is the last.
LEMMA PostImports ==
    ASSUME Types, Imports, NEW x \in Session, NEW answer \in Answers, NEW taken \in BOOLEAN,
           Post(x, answer, taken)
    PROVE  Imports'
<1>r. request[x] \in Sends /\ IsBusy(x)
  BY KindOfRequest DEF Post, Types, TypeOK, IsBusy
<1>i. PICK i : i = SendOf(x) /\ i \in Sent /\ request[x].send = i
  BY <1>r DEF Types, Posted, IsBusy, SendOf
<1>a. request[x].attempt \in 0 .. 1 /\ Taken(i) \in 0 .. 2 /\ Taken(i) <= request[x].attempt
  BY <1>r, <1>i DEF Imports, Sends, Post
<1>1. /\ submissions' = submissions
      /\ taken => sends' = [sends EXCEPT ![i].taken = @ + 1]
      /\ ~taken => sends' = sends
      /\ taken \in TakenIn(answer)
  BY <1>i DEF Post
<1>2. /\ Sent' = Sent
      /\ \A j \in Sent : Taken(j)' = IF taken /\ j = i THEN Taken(j) + 1 ELSE Taken(j)
  <2>1. CASE taken
    <3> DEFINE Payloads == {Export(e) : e \in Evidence}
    <3>1. sends \in Seq([payload : Payloads, taken : Nat])
      BY DEF Types, TypeOK
    <3>2. i \in 1 .. Len(sends)
      BY <1>i DEF Sent
    <3> HIDE DEF Payloads
    <3>3. sends' = [sends EXCEPT ![i] = [sends[i] EXCEPT !.taken = sends[i].taken + 1]]
      BY <1>1, <2>1
    <3>4. \A j \in 1 .. Len(sends) : sends[j] \in [payload : Payloads, taken : Nat]
      <4> DEFINE Rows == [payload : Payloads, taken : Nat]
      <4> HIDE DEF Rows
      <4> SUFFICES sends \in Seq(Rows) => \A j \in 1 .. Len(sends) : sends[j] \in Rows
        BY <3>1 DEF Rows
      <4> QED OBVIOUS
    <3>5. [sends[i] EXCEPT !.taken = sends[i].taken + 1].taken = sends[i].taken + 1
      BY <3>2, <3>4
    <3>6. Len(sends') = Len(sends) /\ \A j \in 1 .. Len(sends) :
              sends'[j].taken = IF j = i THEN sends[j].taken + 1 ELSE sends[j].taken
      BY <3>1, <3>2, <3>3, <3>5
    <3> QED BY <2>1, <3>6 DEF Sent, Taken
  <2>2. CASE ~taken
    BY <1>1, <2>2 DEF Sent, Taken
  <2> QED BY <2>1, <2>2
<1>3. PICK r : /\ request' = [request EXCEPT ![x] = r]
               /\ \/ r.phase = "idle"
                  \/ r.phase = "sending" /\ r.send = i /\ r.attempt = 1 /\ request[x].attempt = 0
                  \/ r.phase = "answered" /\ r.send = i /\ (r.status = "accepted" => answer = "accepted")
  <2>1. CASE answer = "broken"
    <3>1. Idle.phase = "idle"
      BY DEF Idle
    <3> QED BY <2>1, <3>1 DEF Post
  <2>2. CASE answer # "broken" /\ TryAgain(answer, request[x].attempt)
    <3>1. request' = [request EXCEPT ![x] = [request[x] EXCEPT !.attempt = 1]]
      BY <2>2 DEF Post
    <3>2. PICK r : r = [request[x] EXCEPT !.attempt = 1]
      OBVIOUS
    <3>3. r.phase = "sending" /\ r.send = i /\ r.attempt = 1 /\ request[x].attempt = 0
      BY <1>r, <1>i, <2>2, <3>2 DEF Sends, TryAgain
    <3> QED BY <3>1, <3>2, <3>3
  <2>3. CASE answer # "broken" /\ ~TryAgain(answer, request[x].attempt)
    <3>1. request' = [request EXCEPT ![x] = [phase |-> "answered", send |-> i, status |-> StatusOf(answer)]]
      BY <1>i, <2>3 DEF Post
    <3>2. StatusOf(answer) = "accepted" => answer = "accepted"
      BY ExchangeAssumption DEF StatusOf, Answers
    <3>3. PICK r : r = [phase |-> "answered", send |-> i, status |-> StatusOf(answer)]
      OBVIOUS
    <3>4. r.phase = "answered" /\ r.send = i /\ r.status = StatusOf(answer)
      BY <3>3
    <3>5. request' = [request EXCEPT ![x] = r]
      BY <3>1, <3>3
    <3> QED BY <3>2, <3>4, <3>5
  <2> QED BY <2>1, <2>2, <2>3
<1>4. request'[x] = r /\ \A y \in Session \ {x} : request'[y] = request[y]
  BY <1>3 DEF Types, TypeOK
<1>5. \A y \in Session \ {x} : IsBusy(y) => SendOf(y) \in Sent /\ SendOf(y) # i
  BY <1>r, <1>i DEF Imports, OneOwner, Types, Posted, IsBusy, SendOf
<1>6. \A y \in Session \ {x} : IsBusy(y)' = IsBusy(y) /\ SendOf(y)' = SendOf(y)
  BY <1>4 DEF IsBusy, SendOf
<1>7. IsBusy(x)' => SendOf(x)' = i
  BY <1>3, <1>4 DEF IsBusy, SendOf
<1>8. OneOwner'
  BY <1>5, <1>6, <1>7 DEF Imports, OneOwner
<1>9. \A j \in Sent : Taken(j) \in 0 .. 2 /\ Taken(j)' \in 0 .. 2
  BY <1>a, <1>2 DEF Imports
<1>10. \A y \in Session : request'[y].phase = "sending" => Taken(SendOf(y))' <= request'[y].attempt
  <2> SUFFICES ASSUME NEW y \in Session, request'[y].phase = "sending"
               PROVE  sends'[request'[y].send].taken <= request'[y].attempt
    BY DEF Taken, SendOf
  <2>1. CASE y = x
    <3>1. request'[y].send = i /\ request'[y].attempt = 1 /\ Taken(i) <= 0
      BY <1>a, <1>3, <1>4, <2>1
    <3>2. Taken(i)' <= 1
      BY <1>i, <1>a, <1>2, <3>1
    <3> QED BY <3>1, <3>2 DEF Taken
  <2>2. CASE y # x
    <3>1. request'[y] = request[y] /\ request[y].send \in Sent /\ request[y].send # i
      BY <1>4, <1>5, <2>2 DEF IsBusy, SendOf
    <3>2. Taken(request[y].send)' = Taken(request[y].send)
      BY <1>2, <3>1
    <3>3. Taken(request[y].send) <= request[y].attempt
      BY <3>1 DEF Imports, SendOf
    <3> QED BY <3>1, <3>2, <3>3 DEF Taken
  <2> QED BY <2>1, <2>2
<1>11. \A y \in Session : request'[y].phase = "answered" /\ request'[y].status = "accepted"
                             => Taken(SendOf(y))' > 0
  <2> SUFFICES ASSUME NEW y \in Session, request'[y].phase = "answered", request'[y].status = "accepted"
               PROVE  sends'[request'[y].send].taken > 0
    BY DEF Taken, SendOf
  <2>1. CASE y = x
    <3>1. request'[y].send = i /\ answer = "accepted"
      BY <1>3, <1>4, <2>1
    <3>2. taken
      BY <1>1, <3>1 DEF TakenIn
    <3>3. Taken(i)' > 0
      BY <1>i, <1>a, <1>2, <3>2
    <3> QED BY <3>1, <3>3 DEF Taken
  <2>2. CASE y # x
    <3>1. request'[y] = request[y] /\ request[y].send \in Sent /\ request[y].send # i
      BY <1>4, <1>5, <2>2 DEF IsBusy, SendOf
    <3>2. Taken(request[y].send)' = Taken(request[y].send)
      BY <1>2, <3>1
    <3>3. Taken(request[y].send) > 0
      BY <3>1 DEF Imports, SendOf
    <3> QED BY <3>1, <3>2, <3>3 DEF Taken
  <2> QED BY <2>1, <2>2
<1>12. ASSUME NEW k \in DOMAIN submissions'
       PROVE  /\ submissions'[k].send \in Sent'
              /\ submissions'[k].status = "accepted" => sends'[submissions'[k].send].taken > 0
  <2>1. /\ submissions'[k] = submissions[k] /\ submissions[k].send \in Sent
        /\ submissions[k].status = "accepted" => Taken(submissions[k].send) > 0
    BY <1>1 DEF Imports
  <2>2. Taken(submissions[k].send) \in 0 .. 2
    BY <1>9, <2>1
  <2>3. PICK j : j = submissions[k].send
    OBVIOUS
  <2>4. Taken(j)' >= Taken(j) /\ Taken(j)' \in Nat
    BY <1>2, <1>9, <2>1, <2>2, <2>3
  <2> QED BY <1>2, <2>1, <2>2, <2>3, <2>4 DEF Taken
<1> QED BY <1>2, <1>8, <1>9, <1>10, <1>11, <1>12 DEF Imports, Taken

\* Every step keeps what is said of imports.
LEMMA ImportsStep == Types /\ Imports /\ [Next]_vars => Imports'
<1> SUFFICES ASSUME Types, Imports, [Next]_vars PROVE Imports'
  OBVIOUS
<1> USE DEF facts, seals, posts, vars
<1>i. Idle.phase = "idle"
  BY DEF Idle
<1>1. ASSUME UNCHANGED <<request, sends, submissions>> PROVE Imports'
  BY <1>1 DEF Imports, OneOwner, IsBusy, SendOf, Taken, Sent
<1>2. ASSUME NEW b \in Batch, Complete(b) PROVE Imports'
  BY <1>1, <1>2 DEF Complete
<1>3. ASSUME NEW x \in Session, NEW b \in Batch, NEW c \in Crucibles, NEW w \in Bead, BeginWeighing(x, b, c, w)
      PROVE  Imports'
  <2>1. [phase |-> "weighing", batch |-> b, crucible |-> c, bead |-> w].phase \notin {"sending", "answered"}
    OBVIOUS
  <2> QED BY <1>3, <2>1, ImportsKeep DEF BeginWeighing
<1>4. ASSUME NEW v \in Certified, EditMaterial(v) PROVE Imports'
  BY <1>1, <1>4 DEF EditMaterial
<1>5. ASSUME NEW x \in Session, NEW b \in Batch, ReadDossier(x, b) PROVE Imports'
  <2> DEFINE e == BuildDossier(b)
             r == [phase |-> "built", evidence |-> e, new |-> ~BlobExists(e), pointed |-> pointer[b]]
  <2>1. r.phase \notin {"sending", "answered"}
    OBVIOUS
  <2>2. request' = [request EXCEPT ![x] = r] /\ sends' = sends /\ submissions' = submissions
    BY <1>5 DEF ReadDossier
  <2> HIDE DEF r
  <2> QED BY <2>1, <2>2, ImportsKeep
<1>6. ASSUME NEW x \in Session, NEW b \in Batch, Submit(x, b) PROVE Imports'
  BY <1>6, SubmitImports
<1>7. ASSUME NEW x \in Session, CommitWeighing(x) \/ BlobConflict(x) \/ CommitDossier(x) \/ Die(x)
      PROVE  Imports'
  BY <1>7, <1>i, ImportsKeep DEF CommitWeighing, BlobConflict, CommitDossier, Die
<1>8. ASSUME NEW x \in Session, Store(x) PROVE Imports'
  <2>1. request[x] \in Seals
    BY <1>8, KindOfRequest DEF Store, Types, TypeOK
  <2>2. [request[x] EXCEPT !.phase = "stored"].phase \notin {"sending", "answered"}
    BY <2>1 DEF Seals
  <2> QED BY <1>8, <2>2, ImportsKeep DEF Store
<1>9. ASSUME NEW x \in Session, NEW answer \in Answers, NEW taken \in BOOLEAN, Post(x, answer, taken)
      PROVE  Imports'
  BY <1>9, PostImports
<1>10. ASSUME NEW x \in Session, RecordAttempt(x) PROVE Imports'
  <2>1. request[x] \in Answered /\ IsBusy(x) /\ SendOf(x) \in Sent
    BY <1>10, KindOfRequest DEF RecordAttempt, Types, TypeOK, Posted, IsBusy, SendOf
  <2>2. PICK row : row.send = request[x].send /\ row.status = request[x].status
                   /\ submissions' = submissions \o <<row>>
    BY <1>10 DEF RecordAttempt, RowsOf
  <2>3. request' = [request EXCEPT ![x] = Idle] /\ sends' = sends
    BY <1>10 DEF RecordAttempt
  <2>4. row.send \in Sent /\ (row.status = "accepted" => Taken(row.send) > 0)
    BY <1>10, <2>1, <2>2 DEF Imports, RecordAttempt, SendOf
  <2>5. \A k \in DOMAIN submissions' : submissions'[k] = row \/ (k \in DOMAIN submissions /\ submissions'[k] = submissions[k])
    BY <2>2 DEF Types, TypeOK
  <2>6. request'[x].phase = "idle" /\ \A y \in Session \ {x} : request'[y] = request[y]
    BY <1>i, <2>3 DEF Types, TypeOK
  <2>7. Sent' = Sent /\ \A i : Taken(i)' = Taken(i)
    BY <2>3 DEF Sent, Taken
  <2>8. OneOwner'
    BY <2>6 DEF Imports, OneOwner, IsBusy, SendOf
  <2>9. ASSUME NEW k \in DOMAIN submissions'
        PROVE  /\ submissions'[k].send \in Sent'
               /\ submissions'[k].status = "accepted" => sends'[submissions'[k].send].taken > 0
    BY <2>3, <2>4, <2>5, <2>7 DEF Imports, Taken
  <2>10. /\ \A i \in Sent' : Taken(i)' \in 0 .. 2
         /\ \A y \in Session : request'[y].phase = "sending" => sends'[request'[y].send].taken <= request'[y].attempt
         /\ \A y \in Session : request'[y].phase = "answered" /\ request'[y].status = "accepted"
                                  => sends'[request'[y].send].taken > 0
    BY <2>3, <2>6, <2>7 DEF Imports, Taken, SendOf
  <2> QED BY <2>8, <2>9, <2>10 DEF Imports, Taken, SendOf
<1>11. CASE UNCHANGED vars
  BY <1>1, <1>11
<1> QED BY <1>2, <1>3, <1>4, <1>5, <1>6, <1>7, <1>8, <1>9, <1>10, <1>11 DEF Next

(***************************************************************************)
(* One submission is at most two imports, and at least one when its row    *)
(* says accepted, with any number of requests, lost answers and crashes.   *)
(***************************************************************************)
THEOREM RowsMatchImportsHolds == Spec => []RowsMatchImports
<1>1. Init => Imports
  BY DEF Init, Imports, OneOwner, IsBusy, SendOf, Taken, Sent, Idle
<1>2. Types /\ Imports => RowsMatchImports
  <2> SUFFICES ASSUME Types, Imports PROVE RowsMatchImports
    OBVIOUS
  <2>1. Sent = DOMAIN sends
    BY DEF Sent, Types, TypeOK
  <2> QED BY <2>1 DEF Imports, RowsMatchImports, Taken
<1> QED BY <1>1, <1>2, TypesInit, TypesStep, ImportsStep, PTL DEF Spec

-----------------------------------------------------------------------------
(***************************************************************************)
(* Records.  Every send is in the hands of one request, or has one row, or *)
(* is lost with the request that made it.                                  *)
(***************************************************************************)
RowsFor(i) == {n \in DOMAIN submissions : submissions[n].send = i}

InHand(i)   == RowsFor(i) = {} /\ (\E x \in Session : Busy(i) = {x}) /\ i \notin lost
OnRecord(i) == (\E n : RowsFor(i) = {n}) /\ Busy(i) = {} /\ i \notin lost
Gone(i)     == RowsFor(i) = {} /\ Busy(i) = {} /\ i \in lost

Recorded == \A i \in Sent : InHand(i) \/ OnRecord(i) \/ Gone(i)

\* What a send was, it is, if nothing of it changed.
LEMMA RecordKeeps ==
    ASSUME NEW i, RowsFor(i)' = RowsFor(i), Busy(i)' = Busy(i), (i \in lost') <=> (i \in lost),
           InHand(i) \/ OnRecord(i) \/ Gone(i)
    PROVE  (InHand(i) \/ OnRecord(i) \/ Gone(i))'
BY DEF InHand, OnRecord, Gone

\* A request with nothing in hand goes on with nothing in hand.
LEMMA RecordedKeeps ==
    ASSUME Types, Recorded, NEW x \in Session, NEW r, request' = [request EXCEPT ![x] = r],
           ~IsBusy(x), r.phase \notin {"sending", "answered"},
           sends' = sends, submissions' = submissions, lost' = lost
    PROVE  Recorded'
<1>1. request'[x] = r /\ \A y \in Session \ {x} : request'[y] = request[y]
  BY DEF Types, TypeOK
<1>2. Sent' = Sent
  BY DEF Sent
<1>3. ASSUME NEW i \in Sent PROVE (InHand(i) \/ OnRecord(i) \/ Gone(i))'
  <2>1. Busy(i)' = Busy(i)
    BY <1>1 DEF Busy, IsBusy
  <2>2. RowsFor(i)' = RowsFor(i)
    BY DEF RowsFor
  <2> QED BY <2>1, <2>2, RecordKeeps DEF Recorded
<1> QED BY <1>2, <1>3 DEF Recorded

\* The request of x lets its send go, into a row or into nothing.
LEMMA SendEnds ==
    ASSUME Types, Imports, Recorded, NEW x \in Session, NEW r, request' = [request EXCEPT ![x] = r],
           IsBusy(x), r.phase \notin {"sending", "answered"},
           Sent' = Sent,
           \A j \in Sent \ {SendOf(x)} : RowsFor(j)' = RowsFor(j) /\ ((j \in lost') <=> (j \in lost)),
           NEW i, i = SendOf(x),
           \/ RowsFor(i)' = RowsFor(i) /\ i \in lost'
           \/ (\E n : RowsFor(i)' = RowsFor(i) \cup {n}) /\ i \notin lost'
    PROVE  Recorded'
<1>1. request'[x] = r /\ \A y \in Session \ {x} : request'[y] = request[y]
  BY DEF Types, TypeOK
<1>2. i \in Sent /\ Busy(i) = {x}
  BY DEF Types, Posted, Imports, OneOwner, Busy, IsBusy, SendOf
<1>3. RowsFor(i) = {} /\ i \notin lost
  BY <1>2 DEF Recorded, InHand, OnRecord, Gone
<1>4. Busy(i)' = {}
  <2>1. Busy(i)' \subseteq Busy(i) \ {x}
    BY <1>1 DEF Busy
  <2> QED BY <1>2, <2>1
<1>5. (InHand(i) \/ OnRecord(i) \/ Gone(i))'
  BY <1>3, <1>4 DEF OnRecord, Gone
<1>6. ASSUME NEW j \in Sent \ {i} PROVE (InHand(j) \/ OnRecord(j) \/ Gone(j))'
  <2>1. Busy(j)' = Busy(j)
    BY <1>1 DEF Busy, IsBusy, SendOf
  <2> QED BY <2>1, RecordKeeps DEF Recorded
<1> QED BY <1>5, <1>6 DEF Recorded

\* A new submission is in the hands of the request that made it.
LEMMA SubmitRecorded ==
    ASSUME Types, Imports, Recorded, NEW x \in Session, NEW b \in Batch, Submit(x, b)
    PROVE  Recorded'
<1> DEFINE csv == Export(BuildDossier(b))
<1>n. PICK n : n = Len(sends) + 1
  OBVIOUS
<1>1. /\ request[x] = Idle
      /\ request' = [request EXCEPT ![x] = [phase |-> "sending", send |-> n, attempt |-> 0]]
      /\ sends' = Append(sends, [payload |-> csv, taken |-> 0])
      /\ submissions' = submissions /\ lost' = lost
  BY <1>n DEF Submit
<1> HIDE DEF csv
<1>2. Len(sends) \in Nat /\ Len(sends') = n
  BY <1>n, <1>1 DEF Types, TypeOK
<1>3. Sent' = Sent \cup {n} /\ n \notin Sent /\ n \notin lost
  BY <1>n, <1>2 DEF Sent, Types, TypeOK
<1>4. /\ request'[x] = [phase |-> "sending", send |-> n, attempt |-> 0]
      /\ \A y \in Session \ {x} : request'[y] = request[y]
  BY <1>1 DEF Types, TypeOK
<1>5. ~IsBusy(x)
  BY <1>1 DEF IsBusy, Idle
<1>6. \A i : RowsFor(i)' = RowsFor(i)
  BY <1>1 DEF RowsFor
<1>7. ASSUME NEW i \in Sent PROVE (InHand(i) \/ OnRecord(i) \/ Gone(i))'
  <2>1. Busy(i)' = Busy(i)
    BY <1>3, <1>4, <1>5 DEF Busy, IsBusy
  <2> QED BY <1>1, <1>6, <2>1, RecordKeeps DEF Recorded
<1>8. InHand(n)'
  <2>1. RowsFor(n) = {}
    BY <1>3 DEF Imports, RowsFor
  <2>2. Busy(n)' = {x}
    BY <1>3, <1>4 DEF Busy, IsBusy, Types, Posted
  <2> QED BY <1>1, <1>3, <1>6, <2>1, <2>2 DEF InHand
<1> QED BY <1>3, <1>7, <1>8 DEF Recorded

\* One attempt: tried again or answered by the same request, or lost with it.
LEMMA PostRecorded ==
    ASSUME Types, Imports, Recorded, NEW x \in Session, NEW answer \in Answers, NEW taken \in BOOLEAN,
           Post(x, answer, taken)
    PROVE  Recorded'
<1>1. request[x] \in Sends /\ IsBusy(x) /\ SendOf(x) = request[x].send
  BY KindOfRequest DEF Post, Types, TypeOK, IsBusy, SendOf
<1>2. Sent' = Sent
  <2> DEFINE Rows == [payload : {Export(e) : e \in Evidence}, taken : Nat]
  <2>1. sends \in Seq(Rows)
    BY DEF Types, TypeOK
  <2> HIDE DEF Rows
  <2>2. Len(sends') = Len(sends)
    BY <2>1 DEF Post
  <2> QED BY <2>2 DEF Sent
<1>3. submissions' = submissions
  BY DEF Post
<1>4. \A j : RowsFor(j)' = RowsFor(j)
  BY <1>3 DEF RowsFor
<1>5. PICK i : i = SendOf(x)
  OBVIOUS
<1>6. CASE answer = "broken"
  <2>1. Idle.phase = "idle"
    BY DEF Idle
  <2>2. request' = [request EXCEPT ![x] = Idle] /\ lost' = lost \cup {i}
    BY <1>1, <1>5, <1>6 DEF Post
  <2>3. i \in lost' /\ \A j \in Sent \ {SendOf(x)} : (j \in lost') <=> (j \in lost)
    BY <1>5, <2>2
  <2> QED BY <1>1, <1>2, <1>4, <1>5, <2>1, <2>2, <2>3, SendEnds
<1>7. CASE answer # "broken"
  <2>1. lost' = lost
    BY <1>7 DEF Post
  <2>2. request'[x].phase \in {"sending", "answered"} /\ request'[x].send = request[x].send
    <3>1. CASE TryAgain(answer, request[x].attempt)
      <4>1. request'[x] = [request[x] EXCEPT !.attempt = 1]
        BY <1>7, <3>1 DEF Post, Types, TypeOK
      <4> QED BY <1>1, <4>1 DEF Sends
    <3>2. CASE ~TryAgain(answer, request[x].attempt)
      <4>1. request'[x] = [phase |-> "answered", send |-> request[x].send, status |-> StatusOf(answer)]
        BY <1>7, <3>2 DEF Post, Types, TypeOK
      <4> QED BY <4>1
    <3> QED BY <3>1, <3>2
  <2>3. \A y \in Session \ {x} : request'[y] = request[y]
    BY <1>7 DEF Post, Types, TypeOK
  <2>4. ASSUME NEW j PROVE Busy(j)' = Busy(j)
    BY <1>1, <2>2, <2>3 DEF Busy, IsBusy
  <2> QED BY <1>2, <1>4, <2>1, <2>4, RecordKeeps DEF Recorded
<1> QED BY <1>6, <1>7

\* An answer becomes a row.
LEMMA AttemptRecorded ==
    ASSUME Types, Imports, Recorded, NEW x \in Session, RecordAttempt(x)
    PROVE  Recorded'
<1>1. request[x] \in Answered /\ IsBusy(x) /\ SendOf(x) = request[x].send
  BY KindOfRequest DEF RecordAttempt, Types, TypeOK, IsBusy, SendOf
<1>2. PICK i : i = SendOf(x)
  OBVIOUS
<1>3. PICK row : row.send = i /\ submissions' = submissions \o <<row>>
  BY <1>1, <1>2 DEF RecordAttempt, RowsOf
<1>4. request' = [request EXCEPT ![x] = Idle] /\ sends' = sends /\ lost' = lost /\ Idle.phase = "idle"
  BY DEF RecordAttempt, Idle
<1>5. Sent' = Sent
  BY <1>4 DEF Sent
<1>6. PICK k : k = Len(submissions) + 1
  OBVIOUS
<1>7. /\ DOMAIN submissions' = DOMAIN submissions \cup {k} /\ k \notin DOMAIN submissions
      /\ submissions'[k] = row
      /\ \A n \in DOMAIN submissions : submissions'[n] = submissions[n]
  BY <1>3, <1>6 DEF Types, TypeOK
<1>8. RowsFor(i)' = RowsFor(i) \cup {k} /\ \A j \in Sent \ {i} : RowsFor(j)' = RowsFor(j)
  BY <1>3, <1>7 DEF RowsFor
<1>9. i \notin lost
  BY <1>1, <1>2 DEF Recorded, InHand, OnRecord, Gone, Types, Posted, Busy, IsBusy, SendOf
<1> QED BY <1>1, <1>2, <1>4, <1>5, <1>8, <1>9, SendEnds

\* A request that dies takes what it sent with it.
LEMMA DieRecorded ==
    ASSUME Types, Imports, Recorded, NEW x \in Session, Die(x)
    PROVE  Recorded'
<1>1. request' = [request EXCEPT ![x] = Idle] /\ sends' = sends /\ submissions' = submissions
      /\ Idle.phase = "idle"
  BY DEF Die, Idle
<1>2. CASE ~IsBusy(x)
  <2>1. lost' = lost
    BY <1>2 DEF Die, IsBusy
  <2> QED BY <1>1, <1>2, <2>1, RecordedKeeps
<1>3. CASE IsBusy(x)
  <2>1. PICK i : i = SendOf(x)
    OBVIOUS
  <2>2. lost' = lost \cup {i}
    BY <1>3, <2>1 DEF Die, IsBusy, SendOf
  <2>3. Sent' = Sent /\ \A j : RowsFor(j)' = RowsFor(j)
    BY <1>1 DEF Sent, RowsFor
  <2>4. i \in lost' /\ \A j \in Sent \ {SendOf(x)} : (j \in lost') <=> (j \in lost)
    BY <2>1, <2>2
  <2> QED BY <1>1, <1>3, <2>1, <2>3, <2>4, SendEnds
<1> QED BY <1>2, <1>3

\* Every step keeps the record of what was sent.
LEMMA RecordedStep == Types /\ Imports /\ Recorded /\ [Next]_vars => Recorded'
<1> SUFFICES ASSUME Types, Imports, Recorded, [Next]_vars PROVE Recorded'
  OBVIOUS
<1> USE DEF facts, seals, posts, vars
<1>1. ASSUME UNCHANGED <<request, sends, submissions, lost>> PROVE Recorded'
  BY <1>1 DEF Recorded, InHand, OnRecord, Gone, RowsFor, Busy, Sent
<1>2. ASSUME NEW b \in Batch, Complete(b) PROVE Recorded'
  BY <1>1, <1>2 DEF Complete
<1>3. ASSUME NEW x \in Session, NEW b \in Batch, NEW c \in Crucibles, NEW w \in Bead, BeginWeighing(x, b, c, w)
      PROVE  Recorded'
  <2>1. [phase |-> "weighing", batch |-> b, crucible |-> c, bead |-> w].phase \notin {"sending", "answered"}
        /\ ~IsBusy(x)
    BY <1>3 DEF BeginWeighing, IsBusy, Idle
  <2> QED BY <1>3, <2>1, RecordedKeeps DEF BeginWeighing
<1>4. ASSUME NEW v \in Certified, EditMaterial(v) PROVE Recorded'
  BY <1>1, <1>4 DEF EditMaterial
<1>5. ASSUME NEW x \in Session, NEW b \in Batch, ReadDossier(x, b) PROVE Recorded'
  <2> DEFINE e == BuildDossier(b)
             r == [phase |-> "built", evidence |-> e, new |-> ~BlobExists(e), pointed |-> pointer[b]]
  <2>1. r.phase \notin {"sending", "answered"} /\ ~IsBusy(x)
    BY <1>5 DEF ReadDossier, IsBusy, Idle
  <2>2. request' = [request EXCEPT ![x] = r] /\ sends' = sends /\ submissions' = submissions /\ lost' = lost
    BY <1>5 DEF ReadDossier
  <2> HIDE DEF r
  <2> QED BY <2>1, <2>2, RecordedKeeps
<1>6. ASSUME NEW x \in Session, NEW b \in Batch, Submit(x, b) PROVE Recorded'
  BY <1>6, SubmitRecorded
<1>7. ASSUME NEW x \in Session, CommitWeighing(x) \/ BlobConflict(x) \/ CommitDossier(x)
      PROVE  Recorded'
  <2>1. ~IsBusy(x) /\ Idle.phase = "idle"
    BY <1>7 DEF CommitWeighing, BlobConflict, CommitDossier, IsBusy, Idle
  <2> QED BY <1>7, <2>1, RecordedKeeps DEF CommitWeighing, BlobConflict, CommitDossier
<1>8. ASSUME NEW x \in Session, Store(x) PROVE Recorded'
  <2>1. request[x] \in Seals /\ ~IsBusy(x)
    BY <1>8, KindOfRequest DEF Store, Types, TypeOK, IsBusy
  <2>2. [request[x] EXCEPT !.phase = "stored"].phase \notin {"sending", "answered"}
    BY <2>1 DEF Seals
  <2> QED BY <1>8, <2>1, <2>2, RecordedKeeps DEF Store
<1>9. ASSUME NEW x \in Session, NEW answer \in Answers, NEW taken \in BOOLEAN, Post(x, answer, taken)
      PROVE  Recorded'
  BY <1>9, PostRecorded
<1>10. ASSUME NEW x \in Session, RecordAttempt(x) PROVE Recorded'
  BY <1>10, AttemptRecorded
<1>11. ASSUME NEW x \in Session, Die(x) PROVE Recorded'
  BY <1>11, DieRecorded
<1>12. CASE UNCHANGED vars
  BY <1>1, <1>12
<1> QED BY <1>2, <1>3, <1>4, <1>5, <1>6, <1>7, <1>8, <1>9, <1>10, <1>11, <1>12 DEF Next

(***************************************************************************)
(* Every submission ends in exactly one of three ways: its request still   *)
(* has it, there is one row of it, or it is lost with its request.         *)
(***************************************************************************)
THEOREM EveryAttemptIsRecordedHolds == Spec => []EveryAttemptIsRecorded
<1>1. Init => Imports /\ Recorded
  BY DEF Init, Imports, OneOwner, IsBusy, SendOf, Taken, Recorded, Sent, Idle
<1>2. Types /\ Recorded => EveryAttemptIsRecorded
  <2> SUFFICES ASSUME Types, Recorded, NEW i \in DOMAIN sends
               PROVE  Cardinality(RowsFor(i)) + Cardinality(Busy(i)) + (IF i \in lost THEN 1 ELSE 0) = 1
    BY DEF EveryAttemptIsRecorded, RowsFor
  <2>1. i \in Sent
    BY DEF Sent, Types, TypeOK
  <2>2. InHand(i) \/ OnRecord(i) \/ Gone(i)
    BY <2>1 DEF Recorded
  <2>3. Cardinality({}) = 0 /\ \A y : Cardinality({y}) = 1
    BY FS_EmptySet, FS_Singleton
  <2>4. CASE InHand(i)
    BY <2>3, <2>4 DEF InHand
  <2>5. CASE OnRecord(i)
    <3>1. Cardinality(RowsFor(i)) = 1 /\ Cardinality(Busy(i)) = 0
      <4>1. PICK n : RowsFor(i) = {n}
        BY <2>5 DEF OnRecord
      <4> QED BY <2>3, <2>5, <4>1 DEF OnRecord
    <3> QED BY <2>5, <3>1 DEF OnRecord
  <2>6. CASE Gone(i)
    BY <2>3, <2>6 DEF Gone
  <2> QED BY <2>2, <2>4, <2>5, <2>6
<1> QED BY <1>1, <1>2, TypesInit, TypesStep, ImportsStep, RecordedStep, PTL DEF Spec
=============================================================================
