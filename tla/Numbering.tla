------------------------------ MODULE Numbering ------------------------------
(***************************************************************************)
(* Document numbers (SUB-2026-0001, COA-2026-0001, BATCH-2026-0001): count *)
(* the rows, add one, insert, and let the UNIQUE index refuse the second   *)
(* of two writers (db/numbering.py).  One prefix is modelled: a number is  *)
(* its last four digits, and the counters of other years are apart.        *)
(***************************************************************************)
EXTENDS Naturals, FiniteSets

CONSTANTS
    Session,        \* requests that number a document, each in a transaction
    MaxAttempts,    \* _MAX_ATTEMPTS
    MaxNumber       \* bound for model checking

ASSUME NumberingAssumption == {MaxAttempts, MaxNumber} \subseteq Nat \ {0}

VARIABLES
    taken,      \* numbers of committed rows
    phase,      \* where each request is
    attempt,    \* of the loop in insert_with_unique_number
    number,     \* allocated and perhaps inserted
    counted     \* taken when the number was allocated: what the count saw

vars == <<taken, phase, attempt, number, counted>>

Phases == {"idle", "allocated", "inserted", "failed"}

TypeOK ==
    /\ taken \subseteq 1 .. MaxNumber
    /\ phase \in [Session -> Phases]
    /\ attempt \in [Session -> 0 .. MaxAttempts - 1]
    /\ \A x \in Session : phase[x] # "idle" => number[x] \in 1 .. MaxNumber
    /\ \A x \in Session : counted[x] \subseteq taken

Init ==
    /\ taken = {}
    /\ phase = [x \in Session |-> "idle"]
    /\ attempt = [x \in Session |-> 0]
    /\ number = [x \in Session |-> 0]
    /\ counted = [x \in Session |-> {}]

\* Mutants: the count is not stepped past; the count is taken under another
\* year's prefix and finds nothing.
CandidateFromZero(n, i) == n + i
CandidateUncounted(n, i) == 1 + i

\* _allocate_number: the count, and a step for every attempt that failed.
Candidate(n, i) == n + 1 + i

\* Mutant: the retry the helper describes, with its offset.
IsUniqueViolationBySqlstate == TRUE

\* The helper compares exc.orig.pgcode with 23505.  psycopg 3 gives the code
\* as sqlstate and has no pgcode: the comparison is with None.
IsUniqueViolation == FALSE

Allocate(x) ==
    /\ phase[x] = "idle"
    /\ Candidate(Cardinality(taken), attempt[x]) <= MaxNumber
    /\ number' = [number EXCEPT ![x] = Candidate(Cardinality(taken), attempt[x])]
    /\ counted' = [counted EXCEPT ![x] = taken]
    /\ phase' = [phase EXCEPT ![x] = "allocated"]
    /\ UNCHANGED <<taken, attempt>>

\* The index makes an insert wait for the transaction that has the number.
HeldByNobody(x) ==
    \A y \in Session \ {x} : ~ (phase[y] = "inserted" /\ number[y] = number[x])

Insert(x) ==
    /\ phase[x] = "allocated"
    /\ HeldByNobody(x)
    /\ number[x] \notin taken
    /\ phase' = [phase EXCEPT ![x] = "inserted"]
    /\ UNCHANGED <<taken, attempt, number, counted>>

\* The savepoint is rolled back and the next number tried, if the error is
\* recognised and attempts are left.
Collide(x) ==
    /\ phase[x] = "allocated"
    /\ number[x] \in taken
    /\ IF IsUniqueViolation /\ attempt[x] + 1 < MaxAttempts
         THEN /\ attempt' = [attempt EXCEPT ![x] = @ + 1]
              /\ phase' = [phase EXCEPT ![x] = "idle"]
         ELSE /\ phase' = [phase EXCEPT ![x] = "failed"]
              /\ UNCHANGED attempt
    /\ UNCHANGED <<taken, number, counted>>

\* The request is over, and the session numbers another document.
End(x) ==
    /\ phase' = [phase EXCEPT ![x] = "idle"]
    /\ attempt' = [attempt EXCEPT ![x] = 0]
    /\ UNCHANGED <<number, counted>>

Commit(x) ==
    /\ phase[x] = "inserted"
    /\ taken' = taken \cup {number[x]}
    /\ End(x)

\* A later step of the request is refused, or the error reached the client.
Rollback(x) ==
    /\ phase[x] \in {"allocated", "inserted", "failed"}
    /\ UNCHANGED taken
    /\ End(x)

Next == \E x \in Session :
    Allocate(x) \/ Insert(x) \/ Collide(x) \/ Commit(x) \/ Rollback(x)

Spec == Init /\ [][Next]_vars
-----------------------------------------------------------------------------
\* The numbers of a year have no gap, whoever raced and whatever rolled back:
\* counting rows is a way to number them only while this holds.
NumbersHaveNoGap == taken = 1 .. Cardinality(taken)

\* A request fails on its number only if somebody committed that number after
\* it counted; the numbering never fails a request that ran alone.
OnlyARaceFails ==
    \A x \in Session : phase[x] = "failed" => number[x] \in taken \ counted[x]

(***************************************************************************)
(* What the documentation says and the code does not keep.                 *)
(***************************************************************************)
\* certificates/service.py:498: "the savepoint retry [...] are what make a
\* concurrent collision a recompute instead of a 500".
CollisionIsRecomputed == \A x \in Session : phase[x] # "failed"
=============================================================================
