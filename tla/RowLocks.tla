------------------------------- MODULE RowLocks -------------------------------
(***************************************************************************)
(* The two kinds of lock a request takes: the advisory lock of the audit   *)
(* trail, and the row lock of every sample whose status it updates.        *)
(*                                                                         *)
(* The office -- issuing a certificate, importing readings -- flushes its  *)
(* updates before it writes its first event.  The bench -- status changes, *)
(* charging, taking out, fire assay results -- changes the status last, or *)
(* has it flushed by the query for the newest event, under the audit lock. *)
(* So each side may hold what the other wants, until the server aborts     *)
(* one of them.  Samples are numbered by their primary keys.               *)
(***************************************************************************)
EXTENDS AuditChain

CONSTANTS
    Samples,      \* how many there are
    Reports       \* sets of samples a certificate or an import may move on

Sample == 1 .. Samples

ASSUME RowLocksAssumption == Samples \in Nat /\ Reports \subseteq SUBSET Sample

VARIABLES
    side,     \* who makes the request of each session: office, bench, other
    need,     \* samples it has yet to update
    holder    \* session whose transaction has updated the sample, or Null

rows == <<side, need, holder>>
lockVars == <<vars, rows>>

Sides == {"office", "bench", "other"}

\* Type invariant.  Who has a sample is at work.
LockTypeOK ==
    /\ TypeOK
    /\ side \in [Session -> Sides]
    /\ need \in [Session -> SUBSET Sample]
    /\ holder \in [Sample -> Session \cup {Null}]
    /\ \A s \in Sample : holder[s] # Null => phase[holder[s]] # "idle"

LockInit ==
    /\ Init
    /\ side = [x \in Session |-> "other"]
    /\ need = [x \in Session |-> {}]
    /\ holder = [s \in Sample |-> Null]

-----------------------------------------------------------------------------
\* Samples that stay where they are -- a certificate of reported ones, a second
\* import -- are not updated.
BeginOffice(x, S) ==
    /\ Begin(x)
    /\ side' = [side EXCEPT ![x] = "office"]
    /\ need' = [need EXCEPT ![x] = S]
    /\ UNCHANGED holder

BeginBench(x, s) ==
    /\ Begin(x)
    /\ side' = [side EXCEPT ![x] = "bench"]
    /\ need' = [need EXCEPT ![x] = {s}]
    /\ UNCHANGED holder

\* Mutant: the rows are updated in whatever order the request lists them.
AnyOrder(S) == S

\* A flush updates the rows of a table in the order of their keys.
InKeyOrder(S) == {s \in S : \A t \in S : s <= t}

\* Where a request is to update its samples.
Updating(x) ==
    \/ side[x] = "office" /\ phase[x] = "waiting"
    \/ side[x] = "bench" /\ phase[x] = "writing"

UpdateSample(x, s) ==
    /\ Updating(x)
    /\ s \in InKeyOrder(need[x])
    /\ holder[s] = Null
    /\ holder' = [holder EXCEPT ![s] = x]
    /\ need' = [need EXCEPT ![x] = @ \ {s}]
    /\ UNCHANGED <<vars, side>>

GrantLock(x) ==
    /\ side[x] = "office" => need[x] = {}
    /\ Grant(x)
    /\ UNCHANGED rows

Release(x) ==
    /\ side' = [side EXCEPT ![x] = "other"]
    /\ need' = [need EXCEPT ![x] = {}]
    /\ holder' = [s \in Sample |-> IF holder[s] = x THEN Null ELSE holder[s]]

CommitRows(x) == need[x] = {} /\ Commit(x) /\ Release(x)

RollbackRows(x) == Rollback(x) /\ Release(x)

\* What no sample is concerned in: batches, registers, intake, and anchors.
OtherStep ==
    /\ \/ \E x \in Session :
             Begin(x) \/ VerifyForAnchor(x) \/ ReadHeadForAnchor(x) \/ (\E c \in Content : Record(x, c))
       \/ \E i \in DOMAIN ledger, c \in Edited : Edit(i, c)
    /\ UNCHANGED rows

-----------------------------------------------------------------------------
\* The session that x cannot go on without.
WaitsFor(x) ==
    IF Updating(x) /\ need[x] # {} THEN {holder[s] : s \in InKeyOrder(need[x])} \ {Null}
    ELSE IF phase[x] = "waiting" THEN {lock} \ {Null}
    ELSE {}

Deadlocked(C) == C # {} /\ \A x \in C : WaitsFor(x) \cap C # {}

\* A session that has waited for deadlock_timeout finds the circle it is in,
\* and is aborted.
DetectDeadlock(x) ==
    /\ WaitsFor(x) # {} /\ \E C \in SUBSET Session : x \in C /\ Deadlocked(C)
    /\ RollbackRows(x)

LockNext ==
    \/ \E x \in Session :
          \/ \E S \in Reports : BeginOffice(x, S)
          \/ \E s \in Sample : BeginBench(x, s) \/ UpdateSample(x, s)
          \/ GrantLock(x) \/ CommitRows(x) \/ RollbackRows(x)
    \/ OtherStep

TakeLock(x) == GrantLock(x) \/ \E s \in Sample : UpdateSample(x, s)

\* A request that waits for nothing goes on, one that waits in a circle is aborted.
GoOn(x) ==
    \/ /\ phase[x] \in {"verified", "writing"} /\ need[x] = {}
       /\ (ReadHeadForAnchor(x) /\ UNCHANGED rows) \/ CommitRows(x) \/ RollbackRows(x)
    \/ DetectDeadlock(x)

\* As in AuditChain; a row lock is queued for like the advisory lock.
LockFairness == \A x \in Session : SF_lockVars(TakeLock(x)) /\ WF_lockVars(GoOn(x))

LockSpec == LockInit /\ [][LockNext]_lockVars
LockFairSpec == LockSpec /\ LockFairness

-----------------------------------------------------------------------------
\* Requests deadlock only across the two sides: in every circle the audit lock is
\* with one of the bench that waits for a sample, and one of the office has
\* updated its samples and waits for the lock (certificates/service.py:325,
\* multi_element/service.py:140).
DeadlockTakesBothSides ==
    \A C \in SUBSET Session : Deadlocked(C) =>
        \E x, y \in C : /\ side[x] = "office" /\ need[x] = {} /\ \E s \in Sample : holder[s] = x
                        /\ side[y] = "bench" /\ need[y] # {} /\ lock = y
=============================================================================
