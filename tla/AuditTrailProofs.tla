--------------------------- MODULE AuditTrailProofs ---------------------------
(***************************************************************************)
(* Theorems about the audit trail, and about the row locks beside it, for  *)
(* any number of sessions, samples and reports, any content and any hash   *)
(* function.                                                               *)
(***************************************************************************)
EXTENDS RowLocks, Extrema

(***************************************************************************)
(* The newest of some rows is one of them.                                 *)
(***************************************************************************)
LEMMA NewestIsNewest ==
    ASSUME NEW n \in Nat, NEW ids \in SUBSET (1 .. n), ids # {}
    PROVE  Newest(ids) \in ids /\ \A j \in ids : j <= Newest(ids)
<1>1. \E i \in ids : \A j \in ids : j <= i
  BY MaximumExists
<1> QED BY <1>1 DEF Newest

\* The head of a set of rows depends on the hashes of those rows only.
SameHashes(book, more, ids) == \A i \in ids : book[i].hash = more[i].hash

Numbered(ids) == \E n \in Nat : ids \subseteq 1 .. n

LEMMA SameHead ==
    ASSUME NEW book, NEW more, NEW ids, Numbered(ids), SameHashes(book, more, ids)
    PROVE  HeadHash(book, ids) = HeadHash(more, ids)
<1>1. CASE ids = {}
  BY <1>1 DEF HeadHash
<1>2. CASE ids # {}
  <2>1. book[Newest(ids)].hash = more[Newest(ids)].hash
    BY <1>2, NewestIsNewest DEF Numbered, SameHashes
  <2> QED BY <1>2, <2>1 DEF HeadHash
<1> QED BY <1>1, <1>2

(***************************************************************************)
(* A row as the application left it, its content perhaps edited since; and *)
(* rows of which each is linked to the newest before it.  An edit changes  *)
(* neither the links nor the hashes.                                       *)
(***************************************************************************)
Stamped(row) ==
    /\ row = [prev |-> row.prev, content |-> row.content, hash |-> row.hash]
    /\ \E c \in Content : /\ row.hash = Hash(row.prev, c)
                          /\ row.content \in {c} \cup Edited

Linked(book) ==
    \A i \in DOMAIN book : /\ book[i].prev = HeadHash(book, Before(book, i))
                           /\ Stamped(book[i])

\* Rows with the same links and hashes are linked alike.
LEMMA SameLinks ==
    ASSUME NEW n \in Nat, NEW book, NEW more, DOMAIN book \subseteq 1 .. n, Linked(book),
           DOMAIN more = DOMAIN book,
           \A i \in DOMAIN book : /\ more[i].prev = book[i].prev
                                  /\ more[i].hash = book[i].hash
                                  /\ Stamped(more[i])
    PROVE  Linked(more)
<1> SUFFICES ASSUME NEW i \in DOMAIN book
             PROVE  more[i].prev = HeadHash(more, Before(more, i))
  BY DEF Linked
<1>1. Before(more, i) = Before(book, i)
  BY DEF Before
<1>2. Numbered(Before(book, i)) /\ SameHashes(book, more, Before(book, i))
  BY DEF Numbered, SameHashes, Before
<1> QED BY <1>1, <1>2, SameHead DEF Linked

(***************************************************************************)
(* A row linked to the newest of some linked rows, and newer than all of   *)
(* them, makes a longer chain.                                             *)
(***************************************************************************)
LEMMA LinkedRowLinks ==
    ASSUME NEW n \in Nat \ {0}, NEW book, DOMAIN book \subseteq 1 .. n - 1, Linked(book),
           NEW c \in Content, NEW more,
           DOMAIN more = DOMAIN book \cup {n},
           \A i \in DOMAIN book : more[i] = book[i],
           more[n] = Event(HeadHash(book, DOMAIN book), c)
    PROVE  Linked(more)
<1> SUFFICES ASSUME NEW i \in DOMAIN more
             PROVE  more[i].prev = HeadHash(more, Before(more, i)) /\ Stamped(more[i])
  BY DEF Linked
<1>1. Numbered(Before(more, i)) /\ SameHashes(more, book, Before(more, i))
  BY DEF Numbered, SameHashes, Before
<1>2. HeadHash(more, Before(more, i)) = HeadHash(book, Before(more, i))
  BY <1>1, SameHead
<1>3. CASE i \in DOMAIN book
  <2>1. Before(more, i) = Before(book, i)
    BY <1>3 DEF Before
  <2> QED BY <1>2, <1>3, <2>1 DEF Linked
<1>4. CASE i = n
  <2>1. Before(more, i) = DOMAIN book
    <3>1. \A j \in DOMAIN book : j < n
      OBVIOUS
    <3>2. ~(n < n)
      OBVIOUS
    <3> QED BY <1>4, <3>1, <3>2 DEF Before
  <2>2. Stamped(Event(HeadHash(book, DOMAIN book), c))
    BY DEF Stamped, Event
  <2>3. more[i].prev = HeadHash(book, DOMAIN book)
    BY <1>4 DEF Event
  <2> QED BY <1>2, <1>4, <2>1, <2>2, <2>3
<1> QED BY <1>3, <1>4

\* A linked row verifies unless its content was edited.
LEMMA UneditedVerifies ==
    ASSUME NEW book, Linked(book), NEW i \in DOMAIN book, book[i].content \in Content
    PROVE  Verifies(book, i)
BY ChainAssumption DEF Linked, Stamped, Verifies

-----------------------------------------------------------------------------
(***************************************************************************)
(* The lock.  A session writes only while it holds it, and has rows of its *)
(* own only while it writes; what it writes is newer than every committed  *)
(* row because nobody else can draw an id and commit first.                *)
(***************************************************************************)
IdsDrawn ==
    /\ nextId \in Nat \ {0}
    /\ DOMAIN ledger \subseteq 1 .. nextId - 1
    /\ \A x \in Session : DOMAIN pending[x] \subseteq 1 .. nextId - 1

LockProtects ==
    \A x \in Session :
        /\ phase[x] = "writing" => lock = x
        /\ DOMAIN pending[x] # {} => phase[x] = "writing"
        /\ \A i \in DOMAIN pending[x], j \in DOMAIN ledger : j < i

Shape ==
    /\ pending = [x \in Session |-> pending[x]]
    /\ phase \in [Session -> Phases]
    /\ draft = [x \in Session |-> draft[x]]

Locked == Shape /\ IdsDrawn /\ LockProtects

\* The empty trail satisfies the lock invariant.
LEMMA LockedInit == Init => Locked
BY DEF Init, Locked, Shape, IdsDrawn, LockProtects, NoRows, Phases

\* Which rows a session sees once its pending rows are laid over the ledger.
LEMMA WithRows ==
    ASSUME NEW book, NEW more
    PROVE  /\ DOMAIN With(book, more) = DOMAIN book \cup DOMAIN more
           /\ \A i \in DOMAIN more : With(book, more)[i] = more[i]
           /\ \A i \in DOMAIN book \ DOMAIN more : With(book, more)[i] = book[i]
BY DEF With

\* Committing or rolling back keeps the lock invariant.
LEMMA EndKeepsLocked ==
    ASSUME Locked, NEW x \in Session, End(x), ledger' = ledger \/ (phase[x] = "writing" /\ ledger' = With(ledger, pending[x])),
           nextId' = nextId
    PROVE  Locked'
<1> USE DEF Locked
<1>1. pending'[x] = NoRows /\ \A y \in Session \ {x} : pending'[y] = pending[y] /\ phase'[y] = phase[y]
  BY DEF End, Shape
<1>2. Shape'
  BY DEF Shape, End, Phases
<1>3. DOMAIN NoRows = {}
  BY DEF NoRows
<1>4. DOMAIN ledger' \subseteq DOMAIN ledger \cup DOMAIN pending[x]
  BY DEF With
<1>5. IdsDrawn'
  BY <1>1, <1>3, <1>4 DEF IdsDrawn
<1>6. ASSUME NEW y \in Session
      PROVE  /\ phase'[y] = "writing" => lock' = y
             /\ DOMAIN pending'[y] # {} => phase'[y] = "writing"
             /\ \A i \in DOMAIN pending'[y], j \in DOMAIN ledger' : j < i
  <2>1. CASE y = x
    BY <1>1, <1>3, <2>1 DEF End, Shape
  <2>2. CASE y # x
    <3>1. phase'[y] = "writing" => lock' = y
      BY <1>1, <2>2 DEF LockProtects, End
    <3>2. \A i \in DOMAIN pending'[y], j \in DOMAIN ledger' : j < i
      <4>1. CASE ledger' = ledger
        BY <1>1, <2>2, <4>1 DEF LockProtects
      <4>2. CASE phase[x] = "writing"
        BY <1>1, <2>2, <4>2 DEF LockProtects
      <4> QED BY <4>1, <4>2
    <3> QED BY <1>1, <2>2, <3>1, <3>2 DEF LockProtects
  <2> QED BY <2>1, <2>2
<1> QED BY <1>2, <1>5, <1>6 DEF LockProtects

\* Flushing an event keeps the lock invariant.
LEMMA RecordKeepsLocked ==
    ASSUME Locked, NEW x \in Session, NEW c, Record(x, c)
    PROVE  Locked'
<1> USE DEF Locked
<1>1. DOMAIN pending'[x] = DOMAIN pending[x] \cup {nextId}
  BY DEF Record, Shape, With
<1>2. \A y \in Session \ {x} : pending'[y] = pending[y]
  BY DEF Record, Shape
<1>3. Shape'
  BY DEF Shape, Record
<1>4. IdsDrawn'
  <2>1. nextId' = nextId + 1 /\ ledger' = ledger
    BY DEF Record
  <2> QED BY <1>1, <1>2, <2>1 DEF IdsDrawn
<1>5. ASSUME NEW y \in Session
      PROVE  /\ phase'[y] = "writing" => lock' = y
             /\ DOMAIN pending'[y] # {} => phase'[y] = "writing"
             /\ \A i \in DOMAIN pending'[y], j \in DOMAIN ledger' : j < i
  <2>1. phase' = phase /\ lock' = lock /\ ledger' = ledger /\ phase[x] = "writing"
    BY DEF Record
  <2>2. \A j \in DOMAIN ledger : j < nextId
    BY DEF IdsDrawn
  <2> QED BY <1>1, <1>2, <2>1, <2>2 DEF LockProtects
<1> QED BY <1>3, <1>4, <1>5 DEF LockProtects

\* Taking the lock keeps the lock invariant.
LEMMA GrantKeepsLocked ==
    ASSUME Locked, ChainAssumption, NEW x \in Session, Grant(x)
    PROVE  Locked'
<1> USE DEF Locked
<1>1. Shape' /\ IdsDrawn'
  BY DEF Grant, Shape, IdsDrawn, Phases
<1>2. \A y \in Session : phase[y] # "writing"
  BY DEF Grant, LockFree, LockProtects, ChainAssumption
<1>3. LockProtects'
  BY <1>2 DEF Grant, LockProtects, Shape
<1> QED BY <1>1, <1>3

\* The lock invariant is inductive.
LEMMA LockedStep == Locked /\ [Next]_vars => Locked'
<1> SUFFICES ASSUME Locked, [Next]_vars PROVE Locked'
  OBVIOUS
<1>1. CASE UNCHANGED vars
  BY <1>1 DEF vars, Locked, Shape, IdsDrawn, LockProtects
<1>2. ASSUME NEW x \in Session, Begin(x) \/ VerifyForAnchor(x) \/ ReadHeadForAnchor(x)
      PROVE  Locked'
  <2>1. UNCHANGED <<ledger, pending, lock, nextId>>
    BY <1>2 DEF Begin, VerifyForAnchor, ReadHeadForAnchor
  <2>2. \E ph \in {"waiting", "verified"} : phase' = [phase EXCEPT ![x] = ph]
    BY <1>2 DEF Begin, VerifyForAnchor, ReadHeadForAnchor
  <2>3. phase[x] # "writing"
    BY <1>2 DEF Begin, VerifyForAnchor, ReadHeadForAnchor
  <2>4. Shape'
    BY <1>2, <2>1, <2>2 DEF Locked, Shape, Begin, VerifyForAnchor, ReadHeadForAnchor, Phases
  <2>5. LockProtects'
    BY <2>1, <2>2, <2>3 DEF Locked, Shape, LockProtects
  <2> QED BY <2>1, <2>4, <2>5 DEF Locked, IdsDrawn
<1>3. ASSUME NEW x \in Session, Grant(x) PROVE Locked'
  BY <1>3, GrantKeepsLocked, ChainAssumption
<1>4. ASSUME NEW x \in Session, NEW c \in Content, Record(x, c) PROVE Locked'
  BY <1>4, RecordKeepsLocked
<1>5. ASSUME NEW x \in Session, Commit(x) \/ Rollback(x) PROVE Locked'
  BY <1>5, EndKeepsLocked DEF Commit, Rollback
<1>6. ASSUME NEW i \in DOMAIN ledger, NEW c \in Edited, Edit(i, c) PROVE Locked'
  <2>1. DOMAIN ledger' = DOMAIN ledger
    BY <1>6 DEF Edit
  <2> QED BY <1>6, <2>1 DEF Edit, Locked, Shape, IdsDrawn, LockProtects
<1> QED BY <1>1, <1>2, <1>3, <1>4, <1>5, <1>6 DEF Next

(***************************************************************************)
(* One writer at a time: whoever has written rows that are not committed   *)
(* holds pg_advisory_xact_lock(1), and they come after all committed ones. *)
(***************************************************************************)
THEOREM OneWriterHolds == Spec => []OneWriter
<1>1. Locked => OneWriter
  BY DEF Locked, LockProtects, OneWriter
<1> QED BY <1>1, LockedInit, LockedStep, PTL DEF Spec

\* What a step does to the committed rows.
Grows ==
    /\ DOMAIN ledger \subseteq DOMAIN ledger'
    /\ \A i \in DOMAIN ledger' \ DOMAIN ledger, j \in DOMAIN ledger : j < i
    /\ \A i \in DOMAIN ledger : ledger'[i].hash = ledger[i].hash

\* No step removes a row, slips one in before another, or changes a hash.
LEMMA GrowsStep == Locked /\ [Next]_vars => Grows
<1> SUFFICES ASSUME Locked, [Next]_vars PROVE Grows
  OBVIOUS
<1>1. CASE ledger' = ledger
  BY <1>1 DEF Grows
<1>2. ASSUME NEW x \in Session, Commit(x) PROVE Grows
  <2>1. \A i \in DOMAIN pending[x], j \in DOMAIN ledger : j < i
    BY DEF Locked, LockProtects
  <2>2. ledger' = With(ledger, pending[x])
    BY <1>2 DEF Commit
  <2>3. DOMAIN ledger' = DOMAIN ledger \cup DOMAIN pending[x]
    BY <2>2 DEF With
  <2>4. \A i \in DOMAIN ledger : i \notin DOMAIN pending[x]
    <3>1. \A i \in DOMAIN ledger : i \in Int
      BY DEF Locked, IdsDrawn
    <3> QED BY <2>1, <3>1
  <2>5. \A i \in DOMAIN ledger : ledger'[i] = ledger[i]
    BY <2>2, <2>4 DEF With
  <2> QED BY <2>1, <2>3, <2>5 DEF Grows
<1>3. ASSUME NEW i \in DOMAIN ledger, NEW c \in Edited, Edit(i, c) PROVE Grows
  BY <1>3 DEF Edit, Grows
<1> QED BY <1>1, <1>2, <1>3 DEF Next, vars, Begin, VerifyForAnchor, ReadHeadForAnchor,
                             Grant, Record, Rollback

(***************************************************************************)
(* The trail grows at its end and keeps every hash it has: a commit adds   *)
(* rows newer than all committed ones, an edit leaves the hash alone.      *)
(***************************************************************************)
THEOREM GrowsAtTheEndHolds == Spec => GrowsAtTheEnd
<1>1. Locked /\ [Next]_vars => [Grows]_vars
  BY GrowsStep
<1> QED BY <1>1, LockedInit, LockedStep, PTL DEF Spec, GrowsAtTheEnd, Grows

-----------------------------------------------------------------------------
(***************************************************************************)
(* The chain.  What any session sees is linked: the committed rows, and    *)
(* those rows with its own after them, whatever was edited meanwhile.      *)
(***************************************************************************)
Chained == Linked(ledger) /\ \A x \in Session : Linked(VisibleTo(x))

\* What is in sight was numbered by the sequence, and own rows hide no other.
LEMMA SightIsNumbered ==
    ASSUME Locked, NEW x \in Session
    PROVE  /\ nextId \in Nat \ {0} /\ nextId - 1 \in Nat
           /\ DOMAIN ledger \subseteq 1 .. nextId - 1
           /\ DOMAIN VisibleTo(x) = DOMAIN ledger \cup DOMAIN pending[x]
           /\ DOMAIN VisibleTo(x) \subseteq 1 .. nextId - 1
           /\ DOMAIN ledger \cap DOMAIN pending[x] = {}
           /\ \A i \in DOMAIN ledger : VisibleTo(x)[i] = ledger[i]
           /\ \A i \in DOMAIN pending[x] : VisibleTo(x)[i] = pending[x][i]
<1>1. nextId \in Nat \ {0} /\ DOMAIN ledger \subseteq 1 .. nextId - 1
      /\ DOMAIN pending[x] \subseteq 1 .. nextId - 1
  BY DEF Locked, IdsDrawn
<1>2. DOMAIN ledger \cap DOMAIN pending[x] = {}
  <2>1. \A i \in DOMAIN pending[x], j \in DOMAIN ledger : j < i
    BY DEF Locked, LockProtects
  <2> QED BY <1>1, <2>1
<1> QED BY <1>1, <1>2 DEF VisibleTo, With

\* A session with nothing pending sees exactly the committed rows.
IdleSeeTheLedger ==
    Linked(ledger) => \A x \in Session : DOMAIN pending[x] = {} => Linked(VisibleTo(x))

LEMMA SeesTheLedger == Locked => IdleSeeTheLedger
<1> SUFFICES ASSUME Locked, Linked(ledger), NEW x \in Session, DOMAIN pending[x] = {}
             PROVE  Linked(VisibleTo(x))
  BY DEF IdleSeeTheLedger
<1>1. /\ nextId - 1 \in Nat
      /\ DOMAIN ledger \subseteq 1 .. nextId - 1
      /\ DOMAIN VisibleTo(x) = DOMAIN ledger
      /\ \A i \in DOMAIN ledger : VisibleTo(x)[i] = ledger[i]
  BY SightIsNumbered
<1>2. \A i \in DOMAIN ledger : Stamped(ledger[i])
  BY DEF Linked
<1>3. PICK book : book = VisibleTo(x)
  OBVIOUS
<1> QED BY <1>1, <1>2, <1>3, SameLinks

\* The empty trail is linked for every session.
LEMMA ChainedInit == Init => Chained
<1> SUFFICES ASSUME Init PROVE Chained
  OBVIOUS
<1>1. DOMAIN ledger = {} /\ \A x \in Session : DOMAIN VisibleTo(x) = {}
  BY DEF Init, NoRows, VisibleTo, With
<1> QED BY <1>1 DEF Chained, Linked

\* The row record_event flushes extends the chain its session sees.
LEMMA RecordKeepsChained ==
    ASSUME Locked, Chained, NEW x \in Session, NEW c \in Content, Record(x, c)
    PROVE  Chained'
<1>1. Linked(ledger)'
  BY DEF Chained, Record, Linked, Before, HeadHash
<1>2. ASSUME NEW y \in Session, y # x PROVE Linked(VisibleTo(y))'
  <2>1. VisibleTo(y)' = VisibleTo(y)
    BY <1>2 DEF Record, Locked, Shape, VisibleTo, With
  <2> QED BY <2>1 DEF Chained, Linked, Before, HeadHash
<1>3. Linked(VisibleTo(x)')
  <2>1. PICK book : book = VisibleTo(x)
    OBVIOUS
  <2>2. PICK more : more = VisibleTo(x)'
    OBVIOUS
  <2>3. /\ DOMAIN book \subseteq 1 .. nextId - 1 /\ nextId \in Nat \ {0}
        /\ DOMAIN book = DOMAIN ledger \cup DOMAIN pending[x]
    BY <2>1, SightIsNumbered
  <2>4. nextId \notin DOMAIN book
    BY <2>3
  <2>5. /\ DOMAIN pending'[x] = DOMAIN pending[x] \cup {nextId}
        /\ pending'[x][nextId] = Event(HeadHash(book, DOMAIN book), c)
        /\ \A i \in DOMAIN pending[x] : i # nextId => pending'[x][i] = pending[x][i]
    BY <2>1 DEF Record, Locked, Shape, With
  <2>6. /\ DOMAIN more = DOMAIN book \cup {nextId}
        /\ more[nextId] = Event(HeadHash(book, DOMAIN book), c)
        /\ \A i \in DOMAIN book : more[i] = book[i]
    <3>1. more = With(ledger, pending'[x])
      BY <2>2 DEF Record, VisibleTo, With
    <3>2. DOMAIN more = DOMAIN ledger \cup DOMAIN pending'[x]
      BY <3>1 DEF With
    <3>3. more[nextId] = pending'[x][nextId]
      BY <2>5, <3>1 DEF With
    <3>4. ASSUME NEW i \in DOMAIN book PROVE more[i] = book[i]
      BY <2>1, <2>3, <2>4, <2>5, <3>1 DEF With, VisibleTo
    <3> QED BY <2>3, <2>5, <3>2, <3>3, <3>4
  <2>7. Linked(book)
    BY <2>1 DEF Chained
  <2>8. Linked(more)
    BY <2>3, <2>6, <2>7, LinkedRowLinks
  <2> QED BY <2>2, <2>8
<1> QED BY <1>1, <1>2, <1>3 DEF Chained

\* Committing or rolling back leaves every trail in sight linked.
LEMMA EndKeepsChained ==
    ASSUME Locked, Locked', Chained, NEW x \in Session, End(x),
           \/ ledger' = ledger
           \/ phase[x] = "writing" /\ ledger' = VisibleTo(x)
    PROVE  Chained'
<1>1. ASSUME NEW y \in Session, y # x PROVE pending'[y] = pending[y]
  BY <1>1 DEF End, Locked, Shape
<1>2. DOMAIN pending'[x] = {}
  BY DEF End, Locked, Shape, NoRows
<1>3. Linked(ledger')
  BY DEF Chained
<1>4. Linked(ledger)'
  BY <1>3
<1>5. ASSUME NEW y \in Session, DOMAIN pending'[y] = {} PROVE Linked(VisibleTo(y))'
  <2>1. IdleSeeTheLedger'
    BY SeesTheLedger, PTL
  <2> QED BY <1>4, <1>5, <2>1 DEF IdleSeeTheLedger
<1>6. CASE ledger' = ledger
  <2>1. ASSUME NEW y \in Session, y # x PROVE Linked(VisibleTo(y))'
    <3>1. VisibleTo(y)' = VisibleTo(y)
      BY <1>1, <1>6, <2>1 DEF VisibleTo
    <3>2. Linked(VisibleTo(y))
      BY DEF Chained
    <3> QED BY <3>1, <3>2
  <2> QED BY <1>2, <1>4, <1>5, <2>1 DEF Chained
<1>7. CASE phase[x] = "writing"
  <2>1. ASSUME NEW y \in Session PROVE DOMAIN pending'[y] = {}
    <3>1. y # x => phase[y] # "writing"
      BY <1>7 DEF Locked, LockProtects
    <3> QED BY <1>1, <1>2, <3>1 DEF Locked, LockProtects
  <2> QED BY <1>4, <1>5, <2>1 DEF Chained
<1> QED BY <1>6, <1>7

\* An edit leaves links and hashes as they are.
LEMMA EditKeepsChained ==
    ASSUME Locked, Chained, NEW i \in DOMAIN ledger, NEW c \in Edited, Edit(i, c)
    PROVE  Chained'
<1>1. \A k \in DOMAIN ledger : Stamped(ledger[k])
  BY DEF Chained, Linked
<1>2. /\ DOMAIN ledger' = DOMAIN ledger
      /\ \A k \in DOMAIN ledger : ledger'[k] =
            IF k = i THEN [ledger[k] EXCEPT !.content = c] ELSE ledger[k]
      /\ pending' = pending
  BY DEF Edit
<1>3. ASSUME NEW row, Stamped(row)
      PROVE  LET after == [row EXCEPT !.content = c] IN
                after.prev = row.prev /\ after.hash = row.hash /\ Stamped(after)
  BY <1>3 DEF Stamped
<1>4. \A k \in DOMAIN ledger : /\ ledger'[k].prev = ledger[k].prev
                               /\ ledger'[k].hash = ledger[k].hash
                               /\ Stamped(ledger'[k])
  BY <1>1, <1>2, <1>3
<1>5. Linked(ledger')
  <2>1. nextId - 1 \in Nat /\ DOMAIN ledger \subseteq 1 .. nextId - 1 /\ Linked(ledger)
    BY DEF Locked, IdsDrawn, Chained
  <2> QED BY <1>2, <1>4, <2>1, SameLinks
<1>6. ASSUME NEW x \in Session PROVE Linked(VisibleTo(x)')
  <2>1. PICK book : book = VisibleTo(x)
    OBVIOUS
  <2>2. PICK more : more = VisibleTo(x)'
    OBVIOUS
  <2>3. /\ nextId - 1 \in Nat
        /\ DOMAIN book = DOMAIN ledger \cup DOMAIN pending[x]
        /\ DOMAIN book \subseteq 1 .. nextId - 1
        /\ DOMAIN ledger \cap DOMAIN pending[x] = {}
        /\ \A k \in DOMAIN ledger : book[k] = ledger[k]
        /\ \A k \in DOMAIN pending[x] : book[k] = pending[x][k]
    BY <2>1, SightIsNumbered
  <2>4. /\ DOMAIN more = DOMAIN book
        /\ \A k \in DOMAIN ledger : more[k] = ledger'[k]
        /\ \A k \in DOMAIN pending[x] : more[k] = pending[x][k]
    BY <1>2, <2>2, <2>3 DEF VisibleTo, With
  <2>5. Linked(book)
    BY <2>1 DEF Chained
  <2>6. \A k \in DOMAIN book : Stamped(book[k])
    BY <2>5 DEF Linked
  <2>7. \A k \in DOMAIN book : /\ more[k].prev = book[k].prev
                               /\ more[k].hash = book[k].hash
                               /\ Stamped(more[k])
    BY <1>4, <2>3, <2>4, <2>6
  <2>8. Linked(more)
    BY <2>3, <2>4, <2>5, <2>7, SameLinks
  <2> QED BY <2>2, <2>8
<1> QED BY <1>5, <1>6 DEF Chained

\* Chained is inductive, given the lock invariant.
LEMMA ChainedStep == Locked /\ Chained /\ [Next]_vars => Chained'
<1> SUFFICES ASSUME Locked, Chained, [Next]_vars PROVE Chained'
  OBVIOUS
<1>1. CASE UNCHANGED <<ledger, pending>>
  <2>1. \A x \in Session : VisibleTo(x)' = VisibleTo(x)
    BY <1>1 DEF VisibleTo
  <2>2. Linked(ledger') /\ \A x \in Session : Linked(VisibleTo(x)')
    BY <1>1, <2>1 DEF Chained
  <2> QED BY <2>2 DEF Chained
<1>2. ASSUME NEW x \in Session, NEW c \in Content, Record(x, c) PROVE Chained'
  BY <1>2, RecordKeepsChained
<1>3. ASSUME NEW x \in Session, Commit(x) \/ Rollback(x) PROVE Chained'
  <2>1. ledger' = ledger \/ (phase[x] = "writing" /\ ledger' = VisibleTo(x))
    BY <1>3 DEF Commit, Rollback, VisibleTo
  <2> QED BY <1>3, <2>1, LockedStep, EndKeepsChained DEF Commit, Rollback
<1>4. ASSUME NEW i \in DOMAIN ledger, NEW c \in Edited, Edit(i, c) PROVE Chained'
  BY <1>4, EditKeepsChained
<1> QED BY <1>1, <1>2, <1>3, <1>4 DEF Next, vars, Begin, VerifyForAnchor, ReadHeadForAnchor, Grant

(***************************************************************************)
(* While nobody edits the table the whole chain verifies, whatever the     *)
(* hash function: no interleaving of transactions, and no rollback, leaves *)
(* a branch or a gap that the walk would report as tampering.              *)
(***************************************************************************)
THEOREM ChainVerifiesHolds == Spec => []ChainVerifies
<1>1. Chained => ChainVerifies
  BY UneditedVerifies DEF Chained, ChainVerifies, Valid
<1> QED BY <1>1, LockedInit, LockedStep, ChainedInit, ChainedStep, PTL DEF Spec

(***************************************************************************)
(* verify_chain stops at the first edited row and accepts every row before *)
(* it, as long as the hash tells an edit from what the application wrote.  *)
(***************************************************************************)
THEOREM EditIsFoundHolds ==
    ASSUME \A p : \A c \in Content, d \in Edited : Hash(p, c) # Hash(p, d)
    PROVE  Spec => []EditIsFound
<1>1. Chained => EditIsFound
  <2> SUFFICES ASSUME Chained, NEW i \in DOMAIN ledger, ledger[i].content \in Edited
               PROVE  /\ i \notin Verified(ledger)
                      /\ \A j \in Before(ledger, i) :
                            (\A k \in Before(ledger, j) \cup {j} : ledger[k].content \in Content)
                               => j \in Verified(ledger)
    BY DEF EditIsFound
  <2>1. ~ Verifies(ledger, i)
    BY DEF Chained, Linked, Stamped, Verifies
  <2>2. i \notin Verified(ledger)
    BY <2>1 DEF Verified
  <2>3. ASSUME NEW j \in Before(ledger, i),
               \A k \in Before(ledger, j) \cup {j} : ledger[k].content \in Content
        PROVE  j \in Verified(ledger)
    <3>1. \A k \in Before(ledger, j) \cup {j} : k \in DOMAIN ledger
      BY DEF Before
    <3>2. \A k \in Before(ledger, j) \cup {j} : Verifies(ledger, k)
      BY <2>3, <3>1, UneditedVerifies DEF Chained
    <3> QED BY <3>1, <3>2 DEF Verified
  <2> QED BY <2>2, <2>3
<1> QED BY <1>1, LockedInit, LockedStep, ChainedInit, ChainedStep, PTL DEF Spec

-----------------------------------------------------------------------------
(***************************************************************************)
(* What an anchor commits to.                                              *)
(***************************************************************************)
\* The hash of a is that of a committed row no newer than the event it names.
InTrail(a) == /\ a.event \in DOMAIN ledger
              /\ \E i \in DOMAIN ledger : i <= a.event /\ ledger[i].hash = a.hash

(***************************************************************************)
(* An anchor in the making: once the chain was walked its hash is that of  *)
(* a committed row; once the newest event was asked for, it is in the      *)
(* trail, and stays there while the session waits and writes.              *)
(***************************************************************************)
Drafted ==
    /\ \A x \in Session :
          /\ phase[x] = "idle" => draft[x] = Null
          /\ phase[x] = "verified" =>
                /\ draft[x] = [hash |-> draft[x].hash, event |-> 0]
                /\ \E i \in DOMAIN ledger : ledger[i].hash = draft[x].hash
          /\ (phase[x] \in {"waiting", "writing"} /\ draft[x] # Null) => InTrail(draft[x])
    /\ \A a \in anchors : InTrail(a)

\* A session that is not writing sees the committed rows.
LEMMA SeesCommitted ==
    ASSUME Locked, NEW x \in Session, phase[x] # "writing"
    PROVE  /\ DOMAIN VisibleTo(x) = DOMAIN ledger
           /\ \A i \in DOMAIN ledger : VisibleTo(x)[i] = ledger[i]
<1>1. DOMAIN pending[x] = {}
  BY DEF Locked, LockProtects
<1> QED BY <1>1 DEF VisibleTo, With

\* What is in the trail stays in it.
LEMMA TrailKeeps ==
    ASSUME Grows, NEW a, InTrail(a)
    PROVE  a.event \in DOMAIN ledger' /\ \E i \in DOMAIN ledger' : i <= a.event /\ ledger'[i].hash = a.hash
BY DEF Grows, InTrail

\* The walk ends on the hash of a committed row.
LEMMA WalkEndsOnARow ==
    ASSUME Locked, NEW x \in Session, VerifyForAnchor(x)
    PROVE  \E i \in DOMAIN ledger : ledger[i].hash = draft'[x].hash
<1> DEFINE book == VisibleTo(x)
           ids  == Verified(book)
<1>1. phase[x] # "writing"
  BY DEF VerifyForAnchor
<1>2. DOMAIN book = DOMAIN ledger /\ \A i \in DOMAIN ledger : book[i] = ledger[i]
  BY <1>1, SeesCommitted
<1>3. nextId \in Nat /\ DOMAIN ledger \subseteq 1 .. nextId
  BY DEF Locked, IdsDrawn
<1>4. ids \subseteq DOMAIN book
  BY DEF Verified
<1>5. ids # {} /\ draft'[x].hash = HeadHash(book, ids)
  BY DEF VerifyForAnchor, Locked, Shape
<1> HIDE DEF book, ids
<1>6. Newest(ids) \in ids
  <2>1. ids \in SUBSET (1 .. nextId)
    BY <1>2, <1>3, <1>4
  <2> QED BY <1>3, <1>5, <2>1, NewestIsNewest
<1>7. HeadHash(book, ids) = book[Newest(ids)].hash
  BY <1>5 DEF HeadHash
<1> QED BY <1>2, <1>4, <1>5, <1>6, <1>7

\* The event an anchor names is the newest committed one.
LEMMA NamesTheNewest ==
    ASSUME Locked, Drafted, NEW x \in Session, ReadHeadForAnchor(x)
    PROVE  draft'[x].event \in DOMAIN ledger /\ \E i \in DOMAIN ledger : i <= draft'[x].event /\ ledger[i].hash = draft'[x].hash
<1>1. phase[x] = "verified" /\ phase[x] # "writing"
  BY DEF ReadHeadForAnchor
<1>2. DOMAIN VisibleTo(x) = DOMAIN ledger
  BY <1>1, SeesCommitted
<1>3. PICK i \in DOMAIN ledger : ledger[i].hash = draft[x].hash
  BY <1>1 DEF Drafted
<1>4. Newest(DOMAIN ledger) \in DOMAIN ledger /\ i <= Newest(DOMAIN ledger)
  <2>1. nextId \in Nat /\ DOMAIN ledger \in SUBSET (1 .. nextId) /\ DOMAIN ledger # {}
    BY <1>3 DEF Locked, IdsDrawn
  <2> QED BY <2>1, NewestIsNewest
<1>5. draft'[x] = [draft[x] EXCEPT !.event = Newest(DOMAIN ledger)]
  BY <1>2 DEF ReadHeadForAnchor, Locked, Shape
<1>6. draft'[x].event = Newest(DOMAIN ledger) /\ draft'[x].hash = draft[x].hash
  <2>1. draft[x] = [hash |-> draft[x].hash, event |-> 0]
    BY <1>1 DEF Drafted
  <2> QED BY <1>5, <2>1
<1> QED BY <1>3, <1>4, <1>6

\* No anchors, no drafts.
LEMMA DraftedInit == Init => Drafted
BY DEF Init, Drafted

\* Drafted is inductive, given the lock invariant.
LEMMA DraftedStep == Locked /\ Drafted /\ [Next]_vars => Drafted'
<1> SUFFICES ASSUME Locked, Drafted, [Next]_vars PROVE Drafted'
  OBVIOUS
<1>1. Grows
  BY GrowsStep
<1>2. \A a : InTrail(a) => InTrail(a)'
  BY <1>1, TrailKeeps DEF InTrail
<1>3. \A x \in Session : (\E i \in DOMAIN ledger : ledger[i].hash = draft[x].hash)
                            => \E i \in DOMAIN ledger' : ledger'[i].hash = draft[x].hash
  BY <1>1 DEF Grows
<1> DEFINE Fits(x) ==
        /\ phase'[x] = "idle" => draft'[x] = Null
        /\ phase'[x] = "verified" =>
              /\ draft'[x] = [hash |-> draft'[x].hash, event |-> 0]
              /\ \E i \in DOMAIN ledger' : ledger'[i].hash = draft'[x].hash
        /\ (phase'[x] \in {"waiting", "writing"} /\ draft'[x] # Null) => InTrail(draft[x])'
<1>4. ASSUME \A x \in Session : Fits(x), \A a \in anchors' : InTrail(a)'
      PROVE  Drafted'
  BY <1>4 DEF Drafted, InTrail
<1>5. ASSUME NEW x \in Session, phase'[x] = phase[x], draft'[x] = draft[x] PROVE Fits(x)
  <2>1. InTrail(draft[x]) => InTrail(draft[x])'
    <3>1. PICK a : a = draft[x]
      OBVIOUS
    <3> QED BY <1>2, <1>5, <3>1 DEF InTrail
  <2> QED BY <1>3, <1>5, <2>1 DEF Drafted
<1>6. CASE UNCHANGED <<phase, draft, anchors>>
  BY <1>2, <1>5, <1>6 DEF Drafted
<1>7. ASSUME NEW x \in Session, VerifyForAnchor(x) PROVE Drafted'
  <2>1. \A y \in Session \ {x} : Fits(y)
    BY <1>5, <1>7 DEF VerifyForAnchor, Locked, Shape
  <2>2. phase'[x] = "verified" /\ draft'[x] = [hash |-> draft'[x].hash, event |-> 0]
    BY <1>7 DEF VerifyForAnchor, Locked, Shape
  <2>3. Fits(x)
    BY <1>7, <2>2, WalkEndsOnARow DEF VerifyForAnchor
  <2> QED BY <1>2, <1>4, <1>7, <2>1, <2>3 DEF VerifyForAnchor, Drafted
<1>8. ASSUME NEW x \in Session, ReadHeadForAnchor(x) PROVE Drafted'
  <2>1. \A y \in Session \ {x} : Fits(y)
    BY <1>5, <1>8 DEF ReadHeadForAnchor, Locked, Shape
  <2>2. phase'[x] = "waiting" /\ ledger' = ledger
    BY <1>8 DEF ReadHeadForAnchor, Locked, Shape
  <2>3. InTrail(draft[x])'
    BY <1>8, <2>2, NamesTheNewest DEF InTrail
  <2> QED BY <1>2, <1>4, <1>8, <2>1, <2>2, <2>3 DEF ReadHeadForAnchor, Drafted
<1>9. ASSUME NEW x \in Session, Begin(x) \/ Grant(x) PROVE Drafted'
  <2>1. \A y \in Session \ {x} : Fits(y)
    BY <1>5, <1>9 DEF Begin, Grant, Locked, Shape
  <2>2. /\ phase'[x] \in {"waiting", "writing"} /\ draft' = draft /\ ledger' = ledger
        /\ draft[x] # Null => InTrail(draft[x])
    BY <1>9 DEF Begin, Grant, Locked, Shape, Drafted
  <2>3. Fits(x)
    BY <2>2 DEF InTrail
  <2> QED BY <1>2, <1>4, <1>9, <2>1, <2>3 DEF Begin, Grant, Drafted
<1>10. ASSUME NEW x \in Session, Commit(x) \/ Rollback(x) PROVE Drafted'
  <2>1. \A y \in Session \ {x} : Fits(y)
    BY <1>5, <1>10 DEF Commit, Rollback, End, Locked, Shape
  <2>2. Fits(x)
    BY <1>10 DEF Commit, Rollback, End, Locked, Shape
  <2>3. ASSUME NEW a \in anchors' PROVE InTrail(a)
    BY <1>10, <2>3 DEF Commit, Rollback, Drafted
  <2> QED BY <1>2, <1>4, <2>1, <2>2, <2>3
<1> QED BY <1>6, <1>7, <1>8, <1>9, <1>10 DEF Next, vars, Record, Edit

(***************************************************************************)
(* What is anchored was the hash of a committed row no newer than the      *)
(* event the anchor names, although create_anchor reads the two with two   *)
(* statements and then waits for the lock.                                 *)
(***************************************************************************)
THEOREM AnchorIsInTheTrailHolds == Spec => []AnchorIsInTheTrail
<1>1. Drafted => AnchorIsInTheTrail
  BY DEF Drafted, InTrail, AnchorIsInTheTrail
<1> QED BY <1>1, LockedInit, LockedStep, DraftedInit, DraftedStep, PTL DEF Spec

-----------------------------------------------------------------------------
\* The sequence stops where the model bounds it, and only sessions lock.
Bounded == nextId <= MaxEvents + 1 /\ lock \in Session \cup {Null}

LEMMA BoundedStep == Locked /\ Bounded /\ [Next]_vars => Bounded'
<1> SUFFICES ASSUME Locked, Bounded, [Next]_vars PROVE Bounded'
  OBVIOUS
<1>1. ASSUME NEW x \in Session, NEW c \in Content, Record(x, c) PROVE Bounded'
  BY <1>1, ChainAssumption DEF Record, Bounded, Locked, IdsDrawn
<1>2. ASSUME NEW x \in Session,
             Begin(x) \/ VerifyForAnchor(x) \/ ReadHeadForAnchor(x) \/ Grant(x)
               \/ Commit(x) \/ Rollback(x)
      PROVE  Bounded'
  BY <1>2 DEF Begin, VerifyForAnchor, ReadHeadForAnchor, Grant, Commit, Rollback, End, Bounded
<1>3. ASSUME NEW i \in DOMAIN ledger, NEW c \in Edited, Edit(i, c) PROVE Bounded'
  BY <1>3 DEF Edit, Bounded
<1>4. CASE UNCHANGED vars
  BY <1>4 DEF vars, Bounded
<1> QED BY <1>1, <1>2, <1>3, <1>4 DEF Next

\* The parts of the invariant together give the types.
LEMMA TypesFollow == Locked /\ Chained /\ Drafted /\ Bounded => TypeOK
<1> SUFFICES ASSUME Locked, Chained, Drafted, Bounded PROVE TypeOK
  OBVIOUS
<1>1. nextId \in 1 .. MaxEvents + 1
  BY ChainAssumption DEF Locked, IdsDrawn, Bounded
<1>2. ASSUME NEW i \in DOMAIN ledger PROVE ledger[i].content \in Content \cup Edited
  BY DEF Chained, Linked, Stamped
<1>3. ASSUME NEW x \in Session, NEW i \in DOMAIN pending[x]
      PROVE  pending[x][i].content \in Content \cup Edited
  <2>1. i \in DOMAIN VisibleTo(x) /\ VisibleTo(x)[i] = pending[x][i]
    BY DEF VisibleTo, With
  <2>2. Stamped(VisibleTo(x)[i])
    BY <2>1 DEF Chained, Linked
  <2> QED BY <2>1, <2>2 DEF Stamped
<1>4. \A book \in {ledger} \cup {pending[x] : x \in Session} :
         /\ DOMAIN book \subseteq 1 .. nextId - 1
         /\ \A i \in DOMAIN book : book[i].content \in Content \cup Edited
  BY <1>2, <1>3 DEF Locked, IdsDrawn
<1>5. ASSUME NEW x \in Session, draft[x] # Null
      PROVE  phase[x] # "idle" /\ draft[x].event < nextId
  <2>1. CASE phase[x] = "verified"
    <3>1. PICK h : draft[x] = [hash |-> h, event |-> 0]
      BY <2>1 DEF Drafted
    <3>2. draft[x].event = 0
      BY <3>1
    <3> QED BY <1>1, <2>1, <3>2
  <2>2. CASE phase[x] \in {"waiting", "writing"}
    <3>1. draft[x].event \in DOMAIN ledger
      BY <1>5, <2>2 DEF Drafted, InTrail
    <3>2. draft[x].event \in 1 .. nextId - 1
      BY <3>1 DEF Locked, IdsDrawn
    <3> QED BY <1>1, <2>2, <3>2
  <2>3. phase[x] # "idle"
    BY <1>5 DEF Drafted
  <2> QED BY <2>1, <2>2, <2>3 DEF Locked, Shape, Phases
<1>6. \A a \in anchors : a.event \in 1 .. nextId - 1
  BY DEF Drafted, InTrail, Locked, IdsDrawn
<1> QED BY <1>1, <1>4, <1>5, <1>6 DEF TypeOK, Bounded, Locked, Shape

\* The type invariant of the audit trail: every id in use was drawn, an anchor
\* in the making belongs to a request under way and names an older event.
THEOREM TrailTypes == Spec => []TypeOK
<1>1. Init => Bounded
  BY ChainAssumption DEF Init, Bounded
<1> QED BY <1>1, BoundedStep, TypesFollow, LockedInit, LockedStep, ChainedInit, ChainedStep,
           DraftedInit, DraftedStep, PTL DEF Spec

-----------------------------------------------------------------------------
(***************************************************************************)
(* Row locks beside the audit trail: they do not touch what is proved of   *)
(* the trail, and no circle of waiting requests lies on one side.          *)
(***************************************************************************)
(***************************************************************************)
(* Every step of a request with row locks is a step of the audit trail, or *)
(* leaves it alone.                                                        *)
(***************************************************************************)
LEMMA LockStepIsAStep == [LockNext]_lockVars => [Next]_vars
<1> SUFFICES ASSUME [LockNext]_lockVars PROVE Next \/ UNCHANGED vars
  OBVIOUS
<1>1. ASSUME NEW x \in Session, NEW S \in Reports, BeginOffice(x, S) PROVE Next
  BY <1>1 DEF BeginOffice, Next
<1>2. ASSUME NEW x \in Session, NEW s \in Sample, BeginBench(x, s) PROVE Next
  BY <1>2 DEF BeginBench, Next
<1>3. ASSUME NEW x \in Session, NEW s \in Sample, UpdateSample(x, s) PROVE UNCHANGED vars
  BY <1>3 DEF UpdateSample
<1>4. ASSUME NEW x \in Session, GrantLock(x) \/ CommitRows(x) \/ RollbackRows(x) PROVE Next
  BY <1>4 DEF GrantLock, CommitRows, RollbackRows, Next
<1>5. CASE OtherStep
  BY <1>5 DEF OtherStep, Next
<1>6. CASE UNCHANGED lockVars
  BY <1>6 DEF lockVars
<1> QED BY <1>1, <1>2, <1>3, <1>4, <1>5, <1>6 DEF LockNext

(***************************************************************************)
(* With row locks the audit trail behaves as without: what holds of Spec   *)
(* holds of LockSpec.                                                      *)
(***************************************************************************)
THEOREM RowLocksKeepTheTrail == LockSpec => Spec
<1>1. LockInit => Init
  BY DEF LockInit
<1> QED BY <1>1, LockStepIsAStep, PTL DEF LockSpec, Spec

\* The trail with row locks has one writer, and its chain verifies.
THEOREM TrailWithRowLocks == LockSpec => [](OneWriter /\ ChainVerifies)
BY RowLocksKeepTheTrail, OneWriterHolds, ChainVerifiesHolds, PTL

-----------------------------------------------------------------------------
(***************************************************************************)
(* Who has what.  The office has only rows below those it still needs; the *)
(* bench has its one row, under the audit lock, and needs nothing more.    *)
(***************************************************************************)
Orderly(x) ==
    /\ side[x] # "other" => phase[x] \in {"waiting", "writing"}
    /\ side[x] = "other" => need[x] = {}
    /\ side[x] = "office" /\ phase[x] = "writing" => need[x] = {}
    /\ side[x] = "bench" => \A s, t \in need[x] : s = t

Has(x, s) ==
    \/ side[x] = "office" /\ \A t \in need[x] : s < t
    \/ side[x] = "bench" /\ phase[x] = "writing" /\ need[x] = {}

RowTypes ==
    /\ side \in [Session -> Sides]
    /\ need \in [Session -> SUBSET Sample]
    /\ holder \in [Sample -> Session \cup {Null}]

RowsHeld ==
    /\ RowTypes
    /\ lock # Null => lock \in Session /\ phase[lock] = "writing"
    /\ \A x \in Session : Orderly(x)
    /\ \A s \in Sample : holder[s] # Null => Has(holder[s], s)

\* Nobody has a row at first.
LEMMA RowsHeldInit == LockInit => RowsHeld
BY DEF LockInit, Init, RowsHeld, RowTypes, Orderly, Sides

\* The lock is with a session that writes.
LEMMA LockIsWithAWriter ==
    ASSUME Locked, lock # Null => lock \in Session /\ phase[lock] = "writing", [Next]_vars
    PROVE  lock' # Null => lock' \in Session /\ phase'[lock'] = "writing"
<1> USE DEF Locked, Shape
<1>1. ASSUME NEW x \in Session, Begin(x) \/ VerifyForAnchor(x) \/ ReadHeadForAnchor(x)
      PROVE  lock' = lock /\ (lock # Null => phase'[lock] = "writing")
  BY <1>1 DEF Begin, VerifyForAnchor, ReadHeadForAnchor
<1>2. ASSUME NEW x \in Session, Grant(x) PROVE lock' = x /\ phase'[x] = "writing"
  BY <1>2 DEF Grant
<1>3. ASSUME NEW x \in Session, NEW c \in Content, Record(x, c) PROVE UNCHANGED <<lock, phase>>
  BY <1>3 DEF Record
<1>4. ASSUME NEW x \in Session, Commit(x) \/ Rollback(x)
      PROVE  lock' # Null => lock' = lock /\ phase'[lock] = phase[lock]
  BY <1>4 DEF Commit, Rollback, End
<1>5. ASSUME NEW i \in DOMAIN ledger, NEW c \in Edited, Edit(i, c) PROVE UNCHANGED <<lock, phase>>
  BY <1>5 DEF Edit
<1>6. CASE UNCHANGED vars
  BY <1>6 DEF vars
<1> QED BY <1>1, <1>2, <1>3, <1>4, <1>5, <1>6 DEF Next

\* A step of x that keeps the sides, needs and rows of the others.
LEMMA OthersKeepTheirs ==
    ASSUME RowsHeld, NEW x \in Session,
           \A y \in Session \ {x} : side'[y] = side[y] /\ need'[y] = need[y] /\ phase'[y] = phase[y],
           \A s \in Sample : holder'[s] = holder[s] \/ holder'[s] \in {x, Null},
           RowTypes', Orderly(x)',
           lock' # Null => lock' \in Session /\ phase'[lock'] = "writing",
           \A s \in Sample : holder'[s] = x => Has(x, s)'
    PROVE  RowsHeld'
<1>1. ASSUME NEW y \in Session PROVE Orderly(y)'
  BY <1>1 DEF RowsHeld, Orderly
<1>2. ASSUME NEW s \in Sample, holder'[s] # Null PROVE Has(holder[s], s)'
  <2>1. CASE holder'[s] = x
    BY <2>1 DEF Has
  <2>2. CASE holder'[s] # x
    <3>1. holder'[s] = holder[s] /\ holder[s] \in Session \ {x}
      BY <1>2, <2>2 DEF RowsHeld, RowTypes
    <3> QED BY <3>1, <1>2 DEF RowsHeld, Has
  <2> QED BY <2>1, <2>2
<1> QED BY <1>1, <1>2 DEF RowsHeld

\* Every step keeps who has what in order.
LEMMA RowsHeldStep == Locked /\ RowsHeld /\ [LockNext]_lockVars => RowsHeld'
<1> SUFFICES ASSUME Locked, RowsHeld, [LockNext]_lockVars PROVE RowsHeld'
  OBVIOUS
<1> USE DEF RowTypes, Sides
<1>0. lock' # Null => lock' \in Session /\ phase'[lock'] = "writing"
  BY LockStepIsAStep, LockIsWithAWriter DEF RowsHeld
<1>n. Null \notin Session /\ phase \in [Session -> Phases] /\ Reports \subseteq SUBSET Sample
  BY ChainAssumption, RowLocksAssumption DEF Locked, Shape
<1>1. ASSUME NEW x \in Session, NEW S, S \in SUBSET Sample, phase[x] = "idle",
             side' \in {[side EXCEPT ![x] = "office"], [side EXCEPT ![x] = "bench"]},
             side'[x] = "bench" => \A s, t \in S : s = t,
             need' = [need EXCEPT ![x] = S], phase' = [phase EXCEPT ![x] = "waiting"], holder' = holder
      PROVE  RowsHeld'
  <2>1. RowTypes'
    BY <1>1 DEF RowsHeld
  <2>2. Orderly(x)'
    BY <1>1, <1>n DEF RowsHeld, Orderly
  <2>3. \A s \in Sample : holder[s] # x
    BY <1>1, <1>n DEF RowsHeld, Has, Orderly
  <2> QED BY <1>0, <1>1, <1>n, <2>1, <2>2, <2>3, OthersKeepTheirs DEF RowsHeld
<1>2. ASSUME NEW x \in Session, NEW S \in Reports, BeginOffice(x, S) PROVE RowsHeld'
  BY <1>1, <1>2, <1>n DEF BeginOffice, Begin, RowsHeld
<1>3. ASSUME NEW x \in Session, NEW s \in Sample, BeginBench(x, s) PROVE RowsHeld'
  <2>1. /\ phase[x] = "idle" /\ side' = [side EXCEPT ![x] = "bench"] /\ holder' = holder
        /\ need' = [need EXCEPT ![x] = {s}] /\ phase' = [phase EXCEPT ![x] = "waiting"]
    BY <1>3 DEF BeginBench, Begin
  <2>2. {s} \in SUBSET Sample /\ \A r, t \in {s} : r = t
    OBVIOUS
  <2> QED BY <1>1, <2>1, <2>2
<1>4. ASSUME NEW x \in Session, NEW s \in Sample, UpdateSample(x, s) PROVE RowsHeld'
  <2>1. RowTypes'
    BY <1>4 DEF RowsHeld, UpdateSample
  <2>2. phase' = phase /\ side' = side
    BY <1>4 DEF UpdateSample, vars
  <2>3. s \in need[x] /\ \A t \in need[x] : s <= t
    BY <1>4 DEF UpdateSample, InKeyOrder
  <2>4. need'[x] = need[x] \ {s} /\ \A y \in Session \ {x} : need'[y] = need[y]
    BY <1>4 DEF UpdateSample, RowsHeld
  <2>5. Orderly(x)'
    BY <2>2, <2>4 DEF RowsHeld, Orderly
  <2>6. ASSUME NEW r \in Sample, holder'[r] = x PROVE Has(x, r)'
    <3>1. CASE r = s
      <4>1. side[x] = "office" => \A t \in need'[x] : s < t
        <5>1. need[x] \subseteq Sample /\ \A t \in need[x] : t \in Int /\ s \in Int
          BY <2>3 DEF RowsHeld, Sample
        <5> QED BY <2>3, <2>4, <5>1
      <4>2. side[x] = "bench" => phase[x] = "writing" /\ need'[x] = {}
        BY <1>4, <2>3, <2>4 DEF UpdateSample, Updating, RowsHeld, Orderly
      <4>3. side[x] \in {"office", "bench"}
        BY <1>4 DEF UpdateSample, Updating
      <4> QED BY <2>2, <3>1, <4>1, <4>2, <4>3 DEF Has
    <3>2. CASE r # s
      <4>1. Has(x, r)
        BY <1>4, <1>n, <2>6, <3>2 DEF UpdateSample, RowsHeld
      <4> QED BY <2>2, <2>4, <4>1 DEF Has
    <3> QED BY <3>1, <3>2
  <2> QED BY <1>0, <1>4, <2>1, <2>2, <2>4, <2>5, <2>6, OthersKeepTheirs DEF UpdateSample, RowsHeld
<1>5. ASSUME NEW x \in Session, GrantLock(x) PROVE RowsHeld'
  <2>1. /\ phase[x] = "waiting" /\ phase' = [phase EXCEPT ![x] = "writing"]
        /\ side' = side /\ need' = need /\ holder' = holder
        /\ side[x] = "office" => need[x] = {}
    BY <1>5 DEF GrantLock, Grant, rows
  <2>2. Orderly(x)'
    BY <1>n, <2>1 DEF RowsHeld, Orderly
  <2>3. ASSUME NEW s \in Sample, holder'[s] = x PROVE Has(x, s)'
    BY <1>n, <2>1, <2>3 DEF RowsHeld, Has
  <2> QED BY <1>0, <1>n, <2>1, <2>2, <2>3, OthersKeepTheirs DEF RowsHeld
<1>6. ASSUME NEW x \in Session, CommitRows(x) \/ RollbackRows(x) PROVE RowsHeld'
  <2>1. /\ phase' = [phase EXCEPT ![x] = "idle"] /\ side' = [side EXCEPT ![x] = "other"]
        /\ need' = [need EXCEPT ![x] = {}]
        /\ holder' = [s \in Sample |-> IF holder[s] = x THEN Null ELSE holder[s]]
    BY <1>6 DEF CommitRows, RollbackRows, Commit, Rollback, End, Release
  <2>2. Orderly(x)' /\ RowTypes'
    BY <1>n, <2>1 DEF RowsHeld, Orderly
  <2>3. \A s \in Sample : holder'[s] # x
    BY <1>n, <2>1
  <2> QED BY <1>0, <1>n, <2>1, <2>2, <2>3, OthersKeepTheirs DEF RowsHeld
<1>7. CASE OtherStep
  <2>1. side' = side /\ need' = need /\ holder' = holder
    BY <1>7 DEF OtherStep, rows
  <2>2. CASE phase' = phase
    BY <1>0, <2>1, <2>2 DEF RowsHeld, Orderly, Has
  <2>3. ASSUME NEW x \in Session, phase[x] \in {"idle", "verified"},
               NEW p \in Phases, phase' = [phase EXCEPT ![x] = p]
        PROVE  RowsHeld'
    <3>1. side[x] = "other" /\ \A s \in Sample : holder[s] # x
      BY <1>n, <2>3 DEF RowsHeld, Orderly, Has
    <3>2. Orderly(x)'
      BY <1>n, <2>1, <2>3, <3>1 DEF RowsHeld, Orderly
    <3> QED BY <1>0, <1>n, <2>1, <2>3, <3>1, <3>2, OthersKeepTheirs DEF RowsHeld
  <2>4. ASSUME NEW x \in Session, Begin(x) \/ VerifyForAnchor(x) \/ ReadHeadForAnchor(x)
        PROVE  RowsHeld'
    BY <2>3, <2>4 DEF Begin, VerifyForAnchor, ReadHeadForAnchor, Phases
  <2> QED BY <1>7, <2>2, <2>4 DEF OtherStep, Record, Edit
<1>8. CASE UNCHANGED lockVars
  BY <1>0, <1>8 DEF lockVars, vars, rows, RowsHeld, Orderly, Has
<1> QED BY <1>2, <1>3, <1>4, <1>5, <1>6, <1>7, <1>8 DEF LockNext

-----------------------------------------------------------------------------
(***************************************************************************)
(* In a circle somebody has the greatest of the rows the circle waits for, *)
(* and waits for no row: whoever still needs rows needs greater ones.      *)
(* Having updated all it needs without the audit lock, it is of the        *)
(* office; it waits for the lock, and who has the lock waits for a row.    *)
(***************************************************************************)
LEMMA CircleTakesBothSides == RowsHeld => DeadlockTakesBothSides
<1> SUFFICES ASSUME RowsHeld, NEW C \in SUBSET Session, Deadlocked(C)
             PROVE  \E x, y \in C :
                       /\ side[x] = "office" /\ need[x] = {} /\ \E s \in Sample : holder[s] = x
                       /\ side[y] = "bench" /\ need[y] # {} /\ lock = y
  BY DEF DeadlockTakesBothSides
<1> DEFINE ForARow(x) == Updating(x) /\ need[x] # {}
           Wanted == {s \in Sample : \E x \in C : ForARow(x) /\ s \in need[x] /\ holder[s] \in C}
<1>n. Null \notin Session
  BY ChainAssumption
<1>1. ASSUME NEW x \in C, ForARow(x) PROVE \E s \in need[x] : s \in Wanted
  <2>1. WaitsFor(x) = {holder[s] : s \in InKeyOrder(need[x])} \ {Null} /\ WaitsFor(x) \cap C # {}
    BY <1>1 DEF WaitsFor, Deadlocked
  <2>2. PICK s \in InKeyOrder(need[x]) : holder[s] \in C
    BY <2>1
  <2>3. s \in need[x] /\ s \in Sample
    BY <2>2 DEF InKeyOrder, RowsHeld, RowTypes
  <2> QED BY <1>1, <2>2, <2>3
<1>2. ASSUME NEW x \in C, ~ForARow(x) PROVE phase[x] = "waiting" /\ lock \in C
  <2>1. WaitsFor(x) = (IF phase[x] = "waiting" THEN {lock} \ {Null} ELSE {}) /\ WaitsFor(x) \cap C # {}
    BY <1>2 DEF WaitsFor, Deadlocked
  <2> QED BY <2>1
\* Who has the lock writes, and waits for a row all the same.
<1>3. ASSUME lock \in C
      PROVE  ForARow(lock) /\ side[lock] = "bench" /\ need[lock] # {}
  <2>1. phase[lock] = "writing"
    BY <1>3, <1>n DEF RowsHeld
  <2>2. ForARow(lock)
    BY <1>2, <1>3, <2>1
  <2> QED BY <2>1, <2>2 DEF Updating
<1>4. Wanted # {}
  BY <1>1, <1>2, <1>3 DEF Deadlocked
<1>5. PICK m \in Wanted : \A j \in Wanted : j <= m
  <2>1. Samples \in Nat /\ Wanted \in SUBSET (1 .. Samples)
    BY RowLocksAssumption DEF Sample
  <2> HIDE DEF Wanted
  <2> QED BY <1>4, <2>1, MaximumExists
<1>6. m \in Sample /\ holder[m] \in C /\ Has(holder[m], m)
  BY <1>n DEF RowsHeld
<1>7. ~ForARow(holder[m])
  <2> SUFFICES ASSUME ForARow(holder[m]) PROVE FALSE
    OBVIOUS
  <2>1. PICK s \in need[holder[m]] : s \in Wanted
    BY <1>1, <1>6
  <2>2. m < s
    BY <1>6, <2>1 DEF Has
  <2>3. s <= m /\ s \in Int /\ m \in Int
    BY <1>5, <2>1 DEF Sample
  <2> QED BY <2>2, <2>3
<1>8. phase[holder[m]] = "waiting" /\ lock \in C
  BY <1>2, <1>6, <1>7
<1>9. side[holder[m]] = "office" /\ need[holder[m]] = {}
  BY <1>6, <1>7, <1>8 DEF Has, Updating
<1> QED BY <1>3, <1>6, <1>8, <1>9

(***************************************************************************)
(* Requests deadlock only across the two sides, however many sessions,     *)
(* samples and reports there are: if the office wrote its event first, or  *)
(* the bench updated its sample first, there would be no deadlock.         *)
(***************************************************************************)
THEOREM DeadlockTakesBothSidesHolds == LockSpec => []DeadlockTakesBothSides
<1>1. LockInit => Locked /\ RowsHeld
  BY LockedInit, RowsHeldInit DEF LockInit
<1>2. Locked /\ RowsHeld /\ [LockNext]_lockVars => Locked' /\ RowsHeld'
  BY LockedStep, LockStepIsAStep, RowsHeldStep
<1> QED BY <1>1, <1>2, CircleTakesBothSides, PTL DEF LockSpec

\* The type invariant with row locks: whoever has updated a sample is at work.
THEOREM LockTypes == LockSpec => []LockTypeOK
<1>1. LockInit => Locked /\ RowsHeld
  BY LockedInit, RowsHeldInit DEF LockInit
<1>2. Locked /\ RowsHeld /\ [LockNext]_lockVars => Locked' /\ RowsHeld'
  BY LockedStep, LockStepIsAStep, RowsHeldStep
<1>3. TypeOK /\ RowsHeld => LockTypeOK
  BY DEF RowsHeld, RowTypes, Orderly, Has, LockTypeOK
<1> QED BY <1>1, <1>2, <1>3, RowLocksKeepTheTrail, TrailTypes, PTL DEF LockSpec
=============================================================================
