------------------------------ MODULE AuditChain ------------------------------
(***************************************************************************)
(* The audit trail: one hash-chained table that every write of the         *)
(* laboratory extends (db/audit.py), the walk that verifies it, and the    *)
(* anchors that fix its head in the outside world (anchoring/).            *)
(*                                                                         *)
(* A transaction asks for the advisory lock, then links each event to the  *)
(* newest row it can see, and holds the lock until it ends.  Rows written  *)
(* by others are seen once committed; ids come from a sequence that a      *)
(* rollback does not turn back.                                            *)
(***************************************************************************)
EXTENDS Naturals, FiniteSets

CONSTANTS
    Session,      \* worker threads with a database session
    Content,      \* what an event says, as canonical JSON
    Edited,       \* what a row may say after an edit from outside
    Null,         \* no predecessor
    Hash(_, _),   \* sha256 over the previous hash and the content
    MaxEvents, MaxAnchors   \* bounds for model checking

ASSUME ChainAssumption ==
    /\ Content \cap Edited = {}
    /\ Null \notin Session
    /\ {MaxEvents, MaxAnchors} \subseteq Nat

VARIABLES
    ledger,    \* committed rows of audit_event, by id
    pending,   \* rows written by each open transaction, by id
    lock,      \* session holding pg_advisory_xact_lock(1), or Null
    nextId,    \* the id sequence
    phase,     \* how far each session's request is
    draft,     \* the anchor a session is making, or Null
    anchors    \* committed rows of audit_anchor

vars == <<ledger, pending, lock, nextId, phase, draft, anchors>>

NoRows == [i \in {} |-> Null]

\* audit_event: prev_entry_hash, the canonical content, entry_hash.
Event(prev, c) == [prev |-> prev, content |-> c, hash |-> Hash(prev, c)]

Phases == {"idle", "verified", "waiting", "writing"}

Init ==
    /\ ledger = NoRows
    /\ pending = [x \in Session |-> NoRows]
    /\ lock = Null
    /\ nextId = 1
    /\ phase = [x \in Session |-> "idle"]
    /\ draft = [x \in Session |-> Null]
    /\ anchors = {}

-----------------------------------------------------------------------------
\* The rows in rows and then those in more.
With(rows, more) ==
    [i \in DOMAIN rows \cup DOMAIN more |-> IF i \in DOMAIN more THEN more[i] ELSE rows[i]]

\* Mutants: uncommitted rows of others are seen too; own rows are not seen
\* before they are committed (no autoflush ahead of the query).
DirtyVisibleTo(x) ==
    [i \in DOMAIN ledger \cup UNION {DOMAIN pending[y] : y \in Session} |->
        IF i \in DOMAIN ledger THEN ledger[i]
        ELSE (CHOOSE r \in {pending[y] : y \in Session} : i \in DOMAIN r)[i]]

CommittedTo(x) == ledger

VisibleTo(x) == With(ledger, pending[x])

Newest(ids) == CHOOSE i \in ids : \A j \in ids : j <= i

\* order_by(id desc).limit(1): the entry_hash of the newest row of these.
HeadHash(rows, ids) == IF ids = {} THEN Null ELSE rows[Newest(ids)].hash

Before(rows, i) == {j \in DOMAIN rows : j < i}

\* Mutant: the walk follows the links and recomputes nothing.
LinkVerifies(rows, i) == rows[i].prev = HeadHash(rows, Before(rows, i))

\* The two checks verify_chain makes of each row.
Verifies(rows, i) ==
    /\ rows[i].prev = HeadHash(rows, Before(rows, i))
    /\ rows[i].hash = Hash(rows[i].prev, rows[i].content)

Valid(rows) == \A i \in DOMAIN rows : Verifies(rows, i)

\* The rows the walk accepts before it stops at the first that fails.
Verified(rows) == {i \in DOMAIN rows : \A j \in Before(rows, i) \cup {i} : Verifies(rows, j)}

-----------------------------------------------------------------------------
Begin(x) ==
    /\ phase[x] = "idle"
    /\ phase' = [phase EXCEPT ![x] = "waiting"]
    /\ UNCHANGED <<ledger, pending, lock, nextId, draft, anchors>>

\* create_anchor walks the chain and keeps the head it reached, valid or not,
VerifyForAnchor(x) ==
    /\ phase[x] = "idle"
    /\ Verified(VisibleTo(x)) # {}
    /\ phase' = [phase EXCEPT ![x] = "verified"]
    /\ draft' = [draft EXCEPT ![x] =
          [hash |-> HeadHash(VisibleTo(x), Verified(VisibleTo(x))), event |-> 0]]
    /\ UNCHANGED <<ledger, pending, lock, nextId, anchors>>

\* and then asks again for the newest event, to name it.
ReadHeadForAnchor(x) ==
    /\ phase[x] = "verified"
    /\ DOMAIN VisibleTo(x) # {}
    /\ phase' = [phase EXCEPT ![x] = "waiting"]
    /\ draft' = [draft EXCEPT ![x].event = Newest(DOMAIN VisibleTo(x))]
    /\ UNCHANGED <<ledger, pending, lock, nextId, anchors>>

\* Mutant: the lock is not waited for.
LockUnheeded(x) == TRUE

LockFree(x) == lock = Null

Grant(x) ==
    /\ phase[x] = "waiting"
    /\ LockFree(x)
    /\ lock' = x
    /\ phase' = [phase EXCEPT ![x] = "writing"]
    /\ UNCHANGED <<ledger, pending, nextId, draft, anchors>>

\* record_audit_event: any number of times in one transaction.
Record(x, c) ==
    /\ phase[x] = "writing"
    /\ nextId <= MaxEvents
    /\ pending' = [pending EXCEPT ![x] = With(pending[x],
          [i \in {nextId} |-> Event(HeadHash(VisibleTo(x), DOMAIN VisibleTo(x)), c)])]
    /\ nextId' = nextId + 1
    /\ UNCHANGED <<ledger, lock, phase, draft, anchors>>

\* Mutant: a session-level lock, that the end of a transaction does not free.
EndLocked(x) ==
    /\ pending' = [pending EXCEPT ![x] = NoRows]
    /\ lock' = lock
    /\ phase' = [phase EXCEPT ![x] = "idle"]
    /\ draft' = [draft EXCEPT ![x] = Null]

\* The transaction is over: what it held is given back.
End(x) ==
    /\ pending' = [pending EXCEPT ![x] = NoRows]
    /\ lock' = IF lock = x THEN Null ELSE lock
    /\ phase' = [phase EXCEPT ![x] = "idle"]
    /\ draft' = [draft EXCEPT ![x] = Null]

Commit(x) ==
    /\ phase[x] = "writing"
    /\ DOMAIN pending[x] # {}
    /\ draft[x] # Null => Cardinality(anchors) < MaxAnchors
    /\ ledger' = With(ledger, pending[x])
    /\ anchors' = IF draft[x] = Null THEN anchors ELSE anchors \cup {draft[x]}
    /\ End(x)
    /\ UNCHANGED nextId

\* A refusal, a calendar that does not answer, a dropped connection.
Rollback(x) ==
    /\ phase[x] # "idle"
    /\ End(x)
    /\ UNCHANGED <<ledger, nextId, anchors>>

\* A row changed by other hands, past the grants: its content, not its hash.
Edit(i, c) ==
    /\ ledger' = [ledger EXCEPT ![i].content = c]
    /\ UNCHANGED <<pending, lock, nextId, phase, draft, anchors>>

Next ==
    \/ \E x \in Session :
          \/ Begin(x) \/ VerifyForAnchor(x) \/ ReadHeadForAnchor(x) \/ Grant(x)
          \/ \E c \in Content : Record(x, c)
          \/ Commit(x) \/ Rollback(x)
    \/ \E i \in DOMAIN ledger, c \in Edited : Edit(i, c)

\* Postgres queues for the lock in order of arrival; a request that holds it
\* ends, by commit or, whatever happens to it, by rollback.
Fairness == \A x \in Session :
    /\ SF_vars(Grant(x))
    /\ WF_vars(phase[x] \in {"verified", "writing"} /\ (ReadHeadForAnchor(x) \/ Commit(x) \/ Rollback(x)))

Spec == Init /\ [][Next]_vars
FairSpec == Spec /\ Fairness
-----------------------------------------------------------------------------
\* Type invariant.  Every id in use was drawn from the sequence, an anchor is
\* made by a request under way.
TypeOK ==
    /\ nextId \in 1 .. MaxEvents + 1
    /\ \A rows \in {ledger} \cup {pending[x] : x \in Session} :
          /\ DOMAIN rows \subseteq 1 .. nextId - 1
          /\ \A i \in DOMAIN rows : rows[i].content \in Content \cup Edited
    /\ lock \in Session \cup {Null}
    /\ phase \in [Session -> Phases]
    /\ \A x \in Session : draft[x] # Null => phase[x] # "idle" /\ draft[x].event < nextId
    /\ \A a \in anchors : a.event \in 1 .. nextId - 1

\* No two open transactions have written: the one that has holds the lock,
\* and its rows come after every committed one.
OneWriter ==
    \A x \in Session : DOMAIN pending[x] # {} =>
        /\ lock = x
        /\ \A i \in DOMAIN pending[x], j \in DOMAIN ledger : j < i

\* With no edit from outside the chain verifies from the first row to the
\* last: it has not branched, whatever transactions overlapped or rolled back.
ChainVerifies == (\A i \in DOMAIN ledger : ledger[i].content \in Content) => Valid(ledger)

\* "Flip one bit anywhere in the history" (domain/audit_chain.py:11): the walk
\* stops at the first edited row, and accepts every row before it.
EditIsFound ==
    \A i \in DOMAIN ledger : ledger[i].content \in Edited
        => /\ i \notin Verified(ledger)
           /\ \A j \in Before(ledger, i) :
                 (\A k \in Before(ledger, j) \cup {j} : ledger[k].content \in Content)
                    => j \in Verified(ledger)

\* The trail only grows, and only at its end: no commit slips a row in
\* before one that others have already seen.
GrowsAtTheEnd ==
    [][/\ DOMAIN ledger \subseteq DOMAIN ledger'
       /\ \A i \in DOMAIN ledger' \ DOMAIN ledger, j \in DOMAIN ledger : j < i
       /\ \A i \in DOMAIN ledger : ledger'[i].hash = ledger[i].hash]_vars

\* What is anchored was the hash of a committed row no newer than the event
\* the anchor names.
AnchorIsInTheTrail ==
    \A a \in anchors : /\ a.event \in DOMAIN ledger
                       /\ \E i \in DOMAIN ledger : i <= a.event /\ ledger[i].hash = a.hash

\* Every request that waits for the lock ends.
EveryRequestEnds == \A x \in Session : phase[x] = "waiting" ~> phase[x] = "idle"
=============================================================================
