----------------------------- MODULE IntakeProofs -----------------------------
(***************************************************************************)
(* Theorems about document numbers and the intake of submissions, for any  *)
(* number of sessions, any labels, any intervals and any order the sort    *)
(* leaves equal depths in.                                                 *)
(***************************************************************************)
EXTENDS Intake, FiniteSetTheorems, FunctionTheorems, TLAPS

-----------------------------------------------------------------------------
(***************************************************************************)
(* Numbers.  No attempt is ever a second one, so a number is one more than *)
(* what its count saw; and the rows counted were numbered without a gap.   *)
(***************************************************************************)
Numbered(S) == IsFiniteSet(S) /\ S = 1 .. Cardinality(S)

\* What a session has read stays below what was taken since.
NumberingInv ==
    /\ TypeOK /\ number \in [Session -> Nat] /\ counted \in [Session -> SUBSET taken]
    /\ Numbered(taken)
    /\ \A x \in Session :
          /\ attempt[x] = 0
          /\ Numbered(counted[x])
          /\ phase[x] # "idle" => number[x] = Cardinality(counted[x]) + 1
          /\ phase[x] = "inserted" => number[x] \notin taken
          /\ phase[x] = "failed" => number[x] \in taken
          /\ \A y \in Session :
                (phase[x] = "inserted" /\ phase[y] = "inserted" /\ number[x] = number[y]) => x = y

\* No rows have no gap.
LEMMA EmptyIsNumbered == Numbered({})
<1>1. IsFiniteSet({}) /\ Cardinality({}) = 0
  BY FS_EmptySet
<1> QED BY <1>1 DEF Numbered

\* The number after the rows counted is new to them, and not beyond the next number
\* of all rows.
LEMMA NumberedSubset ==
    ASSUME NEW S, NEW T, Numbered(S), Numbered(T), S \subseteq T
    PROVE  /\ Cardinality(S) \in Nat /\ Cardinality(T) \in Nat /\ Cardinality(S) <= Cardinality(T)
           /\ Cardinality(S) + 1 \notin S /\ Cardinality(S) + 1 \in 1 .. Cardinality(T) + 1
<1>1. Cardinality(S) \in Nat /\ Cardinality(T) \in Nat /\ Cardinality(S) <= Cardinality(T)
  BY FS_CardinalityType, FS_Subset DEF Numbered
<1> QED BY <1>1 DEF Numbered

\* The number after the last leaves no gap.
LEMMA NumberedNext ==
    ASSUME NEW S, NEW T, Numbered(S), Numbered(T), S \subseteq T, Cardinality(S) + 1 \notin T
    PROVE  Numbered(T \cup {Cardinality(S) + 1})
<1> DEFINE n == Cardinality(S) + 1  U == T \cup {n}
<1>1. n \in 1 .. Cardinality(T) + 1 /\ Cardinality(T) \in Nat
  BY NumberedSubset
<1>2. n = Cardinality(T) + 1
  BY <1>1 DEF Numbered
<1>3. IsFiniteSet(U) /\ Cardinality(U) = Cardinality(T) + 1
  BY FS_AddElement DEF Numbered
<1>4. U = 1 .. Cardinality(T) + 1
  BY <1>1, <1>2 DEF Numbered
<1> QED BY <1>3, <1>4 DEF Numbered

\* Before the first request.
LEMMA NumberingInitInv == Init => NumberingInv
<1> SUFFICES ASSUME Init PROVE NumberingInv
  OBVIOUS
<1>1. MaxAttempts \in Nat \ {0}
  BY NumberingAssumption
<1>2. TypeOK
  BY <1>1 DEF Init, TypeOK, Phases
<1>3. number \in [Session -> Nat] /\ counted \in [Session -> SUBSET taken]
  BY DEF Init
<1> QED BY <1>2, <1>3, EmptyIsNumbered DEF Init, NumberingInv

\* A count, an insert, a collision, a commit and a rollback keep it.
LEMMA NumberingStepInv == NumberingInv /\ [Next]_vars => NumberingInv'
<1> SUFFICES ASSUME NumberingInv, [Next]_vars PROVE NumberingInv'
  OBVIOUS
<1>1. /\ taken \subseteq 1 .. MaxNumber /\ phase \in [Session -> Phases]
      /\ attempt \in [Session -> 0 .. MaxAttempts - 1]
      /\ number \in [Session -> Nat] /\ counted \in [Session -> SUBSET taken]
      /\ Numbered(taken)
      /\ MaxAttempts \in Nat \ {0} /\ MaxNumber \in Nat
  BY NumberingAssumption DEF NumberingInv, TypeOK
<1>2. \A z \in Session :
         /\ attempt[z] = 0 /\ Numbered(counted[z]) /\ counted[z] \subseteq taken
         /\ phase[z] # "idle" => /\ number[z] \in 1 .. MaxNumber
                                 /\ number[z] = Cardinality(counted[z]) + 1
         /\ phase[z] = "inserted" => number[z] \notin taken
         /\ phase[z] = "failed" => number[z] \in taken
         /\ \A y \in Session :
               (phase[z] = "inserted" /\ phase[y] = "inserted" /\ number[z] = number[y]) => z = y
  BY DEF NumberingInv, TypeOK
<1>3. CASE UNCHANGED vars
  BY <1>1, <1>2, <1>3 DEF vars, NumberingInv, TypeOK
<1> SUFFICES ASSUME NEW x \in Session,
                    Allocate(x) \/ Insert(x) \/ Collide(x) \/ Commit(x) \/ Rollback(x)
             PROVE  NumberingInv'
  BY <1>3 DEF Next
<1>4. CASE Allocate(x)
  <2>1. Cardinality(taken) \in Nat
    BY <1>1, FS_CardinalityType DEF Numbered
  <2> DEFINE n == Cardinality(taken) + 1
  <2>2. /\ n <= MaxNumber /\ n \in Nat
        /\ number' = [number EXCEPT ![x] = n] /\ counted' = [counted EXCEPT ![x] = taken]
        /\ phase' = [phase EXCEPT ![x] = "allocated"]
        /\ UNCHANGED <<taken, attempt>>
    <3>1. attempt[x] = 0
      BY <1>2
    <3>2. Candidate(Cardinality(taken), attempt[x]) = n /\ n \in Nat
      BY <2>1, <3>1 DEF Candidate
    <3> QED BY <1>4, <3>2 DEF Allocate
  <2>3. n \in 1 .. MaxNumber
    BY <1>1, <2>1, <2>2
  <2>4. n = Cardinality(taken) + 1
    OBVIOUS
  <2> HIDE DEF n
  <2>5. TypeOK'
    BY <1>1, <1>2, <2>2, <2>3 DEF TypeOK, Phases
  <2>6. number' \in [Session -> Nat] /\ counted' \in [Session -> SUBSET taken']
    BY <1>1, <2>2
  <2> QED BY <1>1, <1>2, <2>2, <2>4, <2>5, <2>6 DEF NumberingInv
<1>5. CASE Insert(x)
  <2>1. /\ phase[x] = "allocated" /\ number[x] \notin taken /\ HeldByNobody(x)
        /\ phase' = [phase EXCEPT ![x] = "inserted"]
        /\ UNCHANGED <<taken, attempt, number, counted>>
    BY <1>5 DEF Insert
  <2>2. TypeOK'
    BY <1>1, <1>2, <2>1 DEF TypeOK, Phases
  <2>3. \A y \in Session \ {x} : phase[y] = "inserted" => number[y] # number[x]
    BY <2>1 DEF HeldByNobody
  <2>4. \A z, y \in Session :
           (phase'[z] = "inserted" /\ phase'[y] = "inserted" /\ number[z] = number[y]) => z = y
    BY <1>1, <1>2, <2>1, <2>3
  <2> QED BY <1>1, <1>2, <2>1, <2>2, <2>4 DEF NumberingInv
<1>6. CASE Collide(x)
  <2>1. /\ phase[x] = "allocated" /\ number[x] \in taken
        /\ phase' = [phase EXCEPT ![x] = "failed"]
        /\ UNCHANGED <<taken, attempt, number, counted>>
    BY <1>6 DEF Collide, IsUniqueViolation
  <2>2. TypeOK'
    BY <1>1, <1>2, <2>1 DEF TypeOK, Phases
  <2>3. \A z \in Session : phase'[z] = "inserted" => phase[z] = "inserted"
    BY <1>1, <2>1
  <2> QED BY <1>1, <1>2, <2>1, <2>2, <2>3 DEF NumberingInv
<1>7. CASE Commit(x)
  <2>1. /\ phase[x] = "inserted" /\ taken' = taken \cup {number[x]}
        /\ phase' = [phase EXCEPT ![x] = "idle"] /\ attempt' = [attempt EXCEPT ![x] = 0]
        /\ UNCHANGED <<number, counted>>
    BY <1>7 DEF Commit, End
  <2>2. number[x] \notin taken /\ number[x] = Cardinality(counted[x]) + 1
        /\ number[x] \in 1 .. MaxNumber
    BY <1>2, <2>1
  <2>3. Numbered(taken')
    BY <1>1, <1>2, <2>1, <2>2, NumberedNext
  <2>4. TypeOK'
    BY <1>1, <1>2, <2>1, <2>2 DEF TypeOK, Phases
  <2>5. counted' \in [Session -> SUBSET taken'] /\ number' \in [Session -> Nat]
    BY <1>1, <2>1
  <2>6. \A z \in Session : /\ phase'[z] = "inserted" => phase[z] = "inserted" /\ z # x
                           /\ phase'[z] = "failed" => phase[z] = "failed"
                           /\ phase'[z] # "idle" => phase[z] # "idle"
                           /\ attempt'[z] = 0
    BY <1>1, <1>2, <2>1
  <2>7. \A z \in Session : phase'[z] = "inserted" => number[z] \notin taken'
    BY <1>2, <2>1, <2>6
  <2> QED BY <1>2, <2>1, <2>3, <2>4, <2>5, <2>6, <2>7 DEF NumberingInv
<1>8. CASE Rollback(x)
  <2>1. /\ phase' = [phase EXCEPT ![x] = "idle"] /\ attempt' = [attempt EXCEPT ![x] = 0]
        /\ UNCHANGED <<taken, number, counted>>
    BY <1>8 DEF Rollback, End
  <2>2. TypeOK'
    BY <1>1, <1>2, <2>1 DEF TypeOK, Phases
  <2>3. \A z \in Session : /\ phase'[z] # "idle" => phase'[z] = phase[z]
                           /\ attempt'[z] = 0
    BY <1>1, <1>2, <2>1
  <2> QED BY <1>1, <1>2, <2>1, <2>2, <2>3 DEF NumberingInv
<1> QED BY <1>4, <1>5, <1>6, <1>7, <1>8

(***************************************************************************)
(* The invariant of document numbers: a number is one more than what its   *)
(* count saw, and what it saw had no gap.                                  *)
(***************************************************************************)
THEOREM NumberingHolds == Spec => []NumberingInv
BY NumberingInitInv, NumberingStepInv, PTL DEF Spec

\* It implies the properties.
LEMMA NumberingImplies == NumberingInv => TypeOK /\ NumbersHaveNoGap /\ OnlyARaceFails
<1> SUFFICES ASSUME NumberingInv PROVE TypeOK /\ NumbersHaveNoGap /\ OnlyARaceFails
  OBVIOUS
<1>1. TypeOK /\ NumbersHaveNoGap
  BY DEF NumberingInv, Numbered, NumbersHaveNoGap
<1>2. ASSUME NEW x \in Session, phase[x] = "failed" PROVE number[x] \in taken \ counted[x]
  <2>1. /\ Numbered(counted[x]) /\ Numbered(taken) /\ counted[x] \subseteq taken
        /\ number[x] = Cardinality(counted[x]) + 1 /\ number[x] \in taken
    BY <1>2 DEF NumberingInv, TypeOK
  <2> QED BY <2>1, NumberedSubset
<1> QED BY <1>1, <1>2 DEF OnlyARaceFails

(***************************************************************************)
(* Numbers, counts and attempts have their types.                          *)
(***************************************************************************)
THEOREM NumbersAreTyped == Spec => []TypeOK
BY NumberingHolds, NumberingImplies, PTL

(***************************************************************************)
(* The committed document numbers are 1, 2, ..., n: a count that was stale *)
(* collides on the UNIQUE index and never leaves a gap (db/numbering.py).  *)
(***************************************************************************)
THEOREM NoGapInNumbers == Spec => []NumbersHaveNoGap
BY NumberingHolds, NumberingImplies, PTL

(***************************************************************************)
(* A request fails for its number only when another one committed between  *)
(* its count and its insert.                                               *)
(***************************************************************************)
THEOREM OnlyRacesFail == Spec => []OnlyARaceFails
BY NumberingHolds, NumberingImplies, PTL

-----------------------------------------------------------------------------
(***************************************************************************)
(* Intake numbers its submissions as Numbering says.                       *)
(***************************************************************************)
LEMMA IntakeStepNumbers == IntakeNext => [Next]_vars
<1> SUFFICES ASSUME IntakeNext PROVE [Next]_vars
  OBVIOUS
<1>1. ASSUME NEW p, NEW h, NEW d, RegisterHole(p, h, d) PROVE UNCHANGED vars
  BY <1>1 DEF RegisterHole
<1>2. ASSUME NEW x, NEW items, NEW p, Receive(x, items, p) PROVE UNCHANGED vars
  BY <1>2 DEF Receive
<1>3. ASSUME NEW x \in Session, Number(x) \/ CommitIntake(x) \/ RollbackIntake(x) PROVE Next
  BY <1>3 DEF Number, CommitIntake, RollbackIntake, Next
<1> QED BY <1>1, <1>2, <1>3 DEF IntakeNext

(***************************************************************************)
(* Every intake is a behaviour of Numbering: what is proved of numbers     *)
(* holds of submissions.                                                   *)
(***************************************************************************)
THEOREM IntakeNumbers == IntakeSpec => Spec
<1>1. IntakeInit => Init
  BY DEF IntakeInit
<1>2. [IntakeNext]_<<vars, intake>> => [Next]_vars
  BY IntakeStepNumbers
<1> QED BY <1>1, <1>2, PTL DEF IntakeSpec, Spec

(***************************************************************************)
(* Submission numbers have no gap.                                         *)
(***************************************************************************)
THEOREM NumbersOfIntake == IntakeSpec => []NumbersHaveNoGap
BY IntakeNumbers, NoGapInNumbers, PTL

(***************************************************************************)
(* An intake fails for its number only in a race.                          *)
(***************************************************************************)
THEOREM FailuresOfIntake == IntakeSpec => []OnlyARaceFails
BY IntakeNumbers, OnlyRacesFail, PTL

-----------------------------------------------------------------------------
(***************************************************************************)
(* Sorting.  The place of an item is the number of items that come before  *)
(* it, and of equal ones the number that stand before it in the list; that *)
(* is a permutation, and its inverse sorts.                                *)
(***************************************************************************)
\* The intervals a list holds are ordered by their depths.
Measured(items) == \A i \in DOMAIN items : items[i] \in DrillLabel

\* The item in place i sorts before the one in place j: sorting is stable.
Earlier(items, i, j) == \/ Before(Interval[items[i]], Interval[items[j]])
                        \/ (~Before(Interval[items[j]], Interval[items[i]]) /\ i < j)

\* That is a total order of places, and puts no item before a smaller one.
LEMMA EarlierOrders ==
    ASSUME NEW items, NEW n \in Nat, DOMAIN items = 1 .. n, Measured(items),
           NEW i \in 1 .. n, NEW j \in 1 .. n, NEW k \in 1 .. n
    PROVE  /\ ~Earlier(items, i, i)
           /\ i # j => Earlier(items, i, j) \/ Earlier(items, j, i)
           /\ (Earlier(items, i, j) /\ Earlier(items, j, k)) => Earlier(items, i, k)
           /\ Earlier(items, i, j) => ~Before(Interval[items[j]], Interval[items[i]])
<1> DEFINE a == Interval[items[i]]  b == Interval[items[j]]  c == Interval[items[k]]
<1>1. {a.from, a.to, b.from, b.to, c.from, c.to} \subseteq Nat
  BY IntakeAssumption DEF Measured
<1> HIDE DEF a, b, c
<1>2. /\ ~Before(a, a)
      /\ Before(a, b) => ~Before(b, a)
      /\ (~Before(b, a) /\ ~Before(c, b)) => ~Before(c, a)
      /\ (Before(a, b) /\ ~Before(c, b)) => Before(a, c)
      /\ (~Before(b, a) /\ Before(b, c)) => Before(a, c)
      /\ (Before(a, b) /\ Before(b, c)) => Before(a, c)
  BY <1>1 DEF Before
<1> DEFINE E(x, y, u, v) == Before(x, y) \/ (~Before(y, x) /\ u < v)
<1>3. /\ Earlier(items, i, i) <=> E(a, a, i, i)
      /\ Earlier(items, i, j) <=> E(a, b, i, j)
      /\ Earlier(items, j, i) <=> E(b, a, j, i)
      /\ Earlier(items, j, k) <=> E(b, c, j, k)
      /\ Earlier(items, i, k) <=> E(a, c, i, k)
  BY DEF Earlier, a, b, c
<1>4. ~E(a, a, i, i)
  BY <1>2
<1>5. i # j => E(a, b, i, j) \/ E(b, a, j, i)
  BY <1>2
<1>6. (E(a, b, i, j) /\ E(b, c, j, k)) => E(a, c, i, k)
  BY <1>2
<1>7. E(a, b, i, j) => ~Before(b, a)
  BY <1>2
<1> HIDE DEF E
<1> QED BY <1>3, <1>4, <1>5, <1>6, <1>7 DEF a, b

(***************************************************************************)
(* Every list of drill labels has a permutation that sorts it, so the      *)
(* sort's promise, by which it is modelled, can be kept.                   *)
(***************************************************************************)
THEOREM SortingExists ==
    ASSUME NEW items, NEW n \in Nat, DOMAIN items = 1 .. n, Measured(items)
    PROVE  \E f \in [1 .. n -> 1 .. n] :
              /\ \A i, j \in 1 .. n : f[i] = f[j] => i = j
              /\ \A i, j \in 1 .. n : i < j => ~Before(Interval[items[f[j]]], Interval[items[f[i]]])
<1> DEFINE D == 1 .. n
           Pre(i) == {j \in D : Earlier(items, j, i)}
           rank == [i \in D |-> Cardinality(Pre(i)) + 1]
<1>1. IsFiniteSet(D) /\ Cardinality(D) = n
  BY FS_Interval
<1>2. \A i \in D : Pre(i) \subseteq D /\ i \notin Pre(i) /\ IsFiniteSet(Pre(i))
                   /\ Cardinality(Pre(i)) \in Nat /\ Cardinality(Pre(i)) < n
  <2> SUFFICES ASSUME NEW i \in D
               PROVE  Pre(i) \subseteq D /\ i \notin Pre(i) /\ IsFiniteSet(Pre(i))
                      /\ Cardinality(Pre(i)) \in Nat /\ Cardinality(Pre(i)) < n
    OBVIOUS
  <2>1. Pre(i) \subseteq D /\ i \notin Pre(i)
    BY EarlierOrders
  <2> HIDE DEF D, Pre
  <2>2. IsFiniteSet(Pre(i)) /\ Cardinality(Pre(i)) <= Cardinality(D)
        /\ (Cardinality(D) = Cardinality(Pre(i)) => D = Pre(i))
    BY <1>1, <2>1, FS_Subset
  <2>3. Cardinality(Pre(i)) \in Nat
    BY <2>2, FS_CardinalityType
  <2> QED BY <1>1, <2>1, <2>2, <2>3
<1>3. \A i, j \in D : Earlier(items, i, j) => rank[i] < rank[j]
  <2> SUFFICES ASSUME NEW i \in D, NEW j \in D, Earlier(items, i, j) PROVE rank[i] < rank[j]
    OBVIOUS
  <2>1. Pre(i) \subseteq Pre(j)
    BY EarlierOrders
  <2>2. i \in Pre(j) /\ i \notin Pre(i)
    BY <1>2
  <2>3. rank[i] = Cardinality(Pre(i)) + 1 /\ rank[j] = Cardinality(Pre(j)) + 1
    OBVIOUS
  <2> HIDE DEF Pre, rank
  <2>4. Cardinality(Pre(i)) <= Cardinality(Pre(j)) /\ Cardinality(Pre(i)) # Cardinality(Pre(j))
    BY <1>2, <2>1, <2>2, FS_Subset
  <2> QED BY <1>2, <2>3, <2>4
<1>4. rank \in [D -> D]
  <2>1. \A i \in D : Cardinality(Pre(i)) + 1 \in D
    <3> SUFFICES ASSUME NEW i \in D PROVE Cardinality(Pre(i)) + 1 \in D
      OBVIOUS
    <3>1. PICK c \in Nat : c = Cardinality(Pre(i)) /\ c < n
      BY <1>2
    <3>2. c + 1 \in 1 .. n
      BY <3>1
    <3> HIDE DEF Pre
    <3> QED BY <3>1, <3>2
  <2> HIDE DEF Pre, D
  <2> QED BY <2>1
<1>5. \A i, j \in D : rank[i] = rank[j] => i = j
  <2> SUFFICES ASSUME NEW i \in D, NEW j \in D, rank[i] = rank[j], i # j PROVE FALSE
    OBVIOUS
  <2>1. Earlier(items, i, j) \/ Earlier(items, j, i)
    BY EarlierOrders
  <2>2. rank[i] \in Nat /\ rank[j] \in Nat
    BY <1>4
  <2>3. rank[i] < rank[j] \/ rank[j] < rank[i]
    BY <1>3, <2>1
  <2> HIDE DEF rank
  <2> QED BY <2>2, <2>3
<1> HIDE DEF rank
<1>6. \A k \in D : \E i \in D : rank[i] = k
  <2>1. rank \in Injection(D, D)
    BY <1>4, <1>5 DEF Injection, IsInjective
  <2> HIDE DEF D
  <2>2. rank \in Surjection(D, D)
    BY <1>1, <2>1, FS_Injection
  <2> QED BY <2>2 DEF Surjection
<1> DEFINE f == [k \in D |-> CHOOSE i \in D : rank[i] = k]
<1>7. f \in [D -> D] /\ \A k \in D : rank[f[k]] = k
  <2>1. \A k \in D : (CHOOSE i \in D : rank[i] = k) \in D
                     /\ rank[CHOOSE i \in D : rank[i] = k] = k
    BY <1>6
  <2> QED BY <2>1
<1> HIDE DEF f
<1>8. \A i, j \in D : f[i] = f[j] => i = j
  BY <1>7
<1>9. \A i, j \in D : i < j => ~Before(Interval[items[f[j]]], Interval[items[f[i]]])
  <2> SUFFICES ASSUME NEW i \in D, NEW j \in D, i < j
               PROVE  ~Before(Interval[items[f[j]]], Interval[items[f[i]]])
    OBVIOUS
  <2>1. f[i] \in D /\ f[j] \in D /\ rank[f[i]] = i /\ rank[f[j]] = j
    BY <1>7
  <2>2. ~Earlier(items, f[j], f[i])
    BY <1>3, <2>1
  <2>3. f[i] # f[j]
    BY <2>1
  <2>4. Earlier(items, f[i], f[j])
    BY <2>1, <2>2, <2>3, EarlierOrders
  <2> QED BY <2>1, <2>4, EarlierOrders
<1> QED BY <1>7, <1>8, <1>9

-----------------------------------------------------------------------------
(***************************************************************************)
(* find_overlaps finds what overlaps: the loop over the sorted intervals   *)
(* stops before an interval that starts too late, and so do all after it.  *)
(***************************************************************************)
\* A permutation f of n places that sorts a list.
SortedBy(items, n, f) ==
    /\ f \in [1 .. n -> 1 .. n]
    /\ \A i, j \in 1 .. n : f[i] = f[j] => i = j
    /\ \A i, j \in 1 .. n : i < j => ~Before(Interval[items[f[j]]], Interval[items[f[i]]])
    /\ \A k \in 1 .. n : \E i \in 1 .. n : f[i] = k
    /\ Sorted(items) = [i \in 1 .. n |-> items[f[i]]]

\* The sorted list is one of those permutations.
LEMMA SortedIs ==
    ASSUME NEW items, NEW n \in Nat, DOMAIN items = 1 .. n, Measured(items)
    PROVE  \E f : SortedBy(items, n, f)
<1> DEFINE D == 1 .. n
           P(f) == /\ \A i, j \in D : f[i] = f[j] => i = j
                   /\ \A i, j \in D : i < j => ~Before(Interval[items[f[j]]], Interval[items[f[i]]])
           order == CHOOSE f \in [D -> D] : P(f)
<1>1. \E f \in [D -> D] : P(f)
  BY SortingExists
<1>2. Sorted(items) = [i \in D |-> items[order[i]]]
  BY DEF Sorted
<1> HIDE DEF P
<1>3. order \in [D -> D] /\ P(order)
  BY <1>1
<1> HIDE DEF order
<1>4. \A k \in D : \E i \in D : order[i] = k
  <2>1. IsFiniteSet(D)
    BY FS_Interval
  <2>2. order \in Injection(D, D)
    BY <1>3 DEF Injection, IsInjective, P
  <2> HIDE DEF D
  <2>3. order \in Surjection(D, D)
    BY <2>1, <2>2, FS_Injection
  <2> QED BY <2>3 DEF Surjection
<1>5. SortedBy(items, n, order)
  BY <1>2, <1>3, <1>4 DEF P, SortedBy
<1> QED BY <1>5

\* The sweep finds a pair of places when the intervals overlap, and only then: a
\* sorted item between two that overlap starts before the first of them ends.
LEMMA OverlapsFound ==
    ASSUME NEW items, NEW n \in Nat, DOMAIN items = 1 .. n, Measured(items)
    PROVE  /\ \A pair \in FindOverlaps(items) : \E i, j \in 1 .. n :
                 /\ i # j /\ pair = <<items[i], items[j]>>
                 /\ Overlaps(Interval[items[i]], Interval[items[j]])
           /\ \A i, j \in 1 .. n :
                 (i # j /\ Overlaps(Interval[items[i]], Interval[items[j]])) =>
                    \/ <<items[i], items[j]>> \in FindOverlaps(items)
                    \/ <<items[j], items[i]>> \in FindOverlaps(items)
<1> DEFINE D == 1 .. n
<1>0. PICK f : SortedBy(items, n, f)
  BY SortedIs
<1>1. /\ f \in [D -> D]
      /\ \A i, j \in D : f[i] = f[j] => i = j
      /\ \A i, j \in D : i < j => ~Before(Interval[items[f[j]]], Interval[items[f[i]]])
      /\ \A k \in D : \E i \in D : f[i] = k
      /\ Sorted(items) = [i \in D |-> items[f[i]]]
  BY <1>0 DEF SortedBy
<1> DEFINE ordered == [i \in D |-> items[f[i]]]
           found   == {ij \in D \X D : /\ Reaches(ordered, ij[1], ij[2])
                                       /\ Overlaps(Interval[ordered[ij[1]]], Interval[ordered[ij[2]]])}
<1>2. FindOverlaps(items) = {<<ordered[ij[1]], ordered[ij[2]]>> : ij \in found}
  BY <1>1 DEF FindOverlaps
<1>3. \A i \in D : ordered[i] = items[f[i]] /\ f[i] \in D
  BY <1>1
<1>4. \A i \in D : Interval[items[i]].from \in Nat /\ Interval[items[i]].to \in Nat
  BY IntakeAssumption DEF Measured
<1> HIDE DEF ordered
<1>5. ASSUME NEW pair \in FindOverlaps(items)
      PROVE  \E i, j \in D : /\ i # j /\ pair = <<items[i], items[j]>>
                             /\ Overlaps(Interval[items[i]], Interval[items[j]])
  <2>1. PICK ij \in found : pair = <<ordered[ij[1]], ordered[ij[2]]>>
    BY <1>2, <1>5
  <2>2. /\ ij[1] \in D /\ ij[2] \in D /\ ij[1] < ij[2]
        /\ Overlaps(Interval[ordered[ij[1]]], Interval[ordered[ij[2]]])
    BY <2>1 DEF Reaches
  <2>3. f[ij[1]] # f[ij[2]]
    BY <1>1, <2>2
  <2>4. /\ f[ij[1]] \in D /\ f[ij[2]] \in D /\ pair = <<items[f[ij[1]]], items[f[ij[2]]]>>
        /\ Overlaps(Interval[items[f[ij[1]]]], Interval[items[f[ij[2]]]])
    BY <1>3, <2>1, <2>2
  <2> QED BY <2>3, <2>4
\* Of two items that overlap, the one that is sorted first reaches the other.
<1>6. ASSUME NEW a \in D, NEW b \in D, a < b,
             Overlaps(Interval[items[f[a]]], Interval[items[f[b]]])
      PROVE  <<items[f[a]], items[f[b]]>> \in FindOverlaps(items)
  <2>1. ASSUME NEW k \in a + 1 .. b PROVE Interval[items[f[k]]].from < Interval[items[f[a]]].to
    <3>1. k \in D /\ f[k] \in D /\ f[a] \in D /\ f[b] \in D
      BY <1>3, <1>6, <2>1
    <3>2. Interval[items[f[b]]].from < Interval[items[f[a]]].to
      BY <1>6 DEF Overlaps
    <3>3. k = b \/ ~Before(Interval[items[f[b]]], Interval[items[f[k]]])
      <4>1. k = b \/ k < b
        BY <1>6, <2>1, <3>1
      <4> QED BY <1>1, <3>1, <4>1
    <3>4. /\ Interval[items[f[k]]].from \in Nat /\ Interval[items[f[b]]].from \in Nat
          /\ Interval[items[f[a]]].to \in Nat
      BY <1>4, <3>1
    <3>5. Interval[items[f[k]]].from <= Interval[items[f[b]]].from
      <4>1. CASE k = b
        BY <3>4, <4>1
      <4>2. CASE ~Before(Interval[items[f[b]]], Interval[items[f[k]]])
        <5>1. ~(Interval[items[f[b]]].from < Interval[items[f[k]]].from)
          BY <4>2 DEF Before
        <5>2. \A x, y \in Nat : ~(y < x) => x <= y
          OBVIOUS
        <5> QED BY <3>4, <5>1, <5>2
      <4> QED BY <3>3, <4>1, <4>2
    <3>6. \A x, y, z \in Nat : (x <= y /\ y < z) => x < z
      OBVIOUS
    <3> QED BY <3>2, <3>4, <3>5, <3>6
  <2>2. \A k \in a + 1 .. b : k \in D
    BY <1>6
  <2>3. Reaches(ordered, a, b)
    BY <1>3, <1>6, <2>1, <2>2 DEF Reaches
  <2>4. <<a, b>> \in found
    BY <1>3, <1>6, <2>3
  <2> HIDE DEF found
  <2>5. <<ordered[a], ordered[b]>> \in FindOverlaps(items)
    <3>1. <<a, b>>[1] = a /\ <<a, b>>[2] = b
      OBVIOUS
    <3>2. \A ij \in found : <<ordered[ij[1]], ordered[ij[2]]>> \in FindOverlaps(items)
      BY <1>2
    <3> QED BY <2>4, <3>1, <3>2
  <2> QED BY <1>3, <2>5
<1>7. ASSUME NEW i \in D, NEW j \in D, i # j, Overlaps(Interval[items[i]], Interval[items[j]])
      PROVE  \/ <<items[i], items[j]>> \in FindOverlaps(items)
             \/ <<items[j], items[i]>> \in FindOverlaps(items)
  <2>1. PICK a \in D : f[a] = i
    BY <1>1
  <2>2. PICK b \in D : f[b] = j
    BY <1>1
  <2>3. a < b \/ b < a
    BY <1>7, <2>1, <2>2
  <2>4. Overlaps(Interval[items[j]], Interval[items[i]])
    BY <1>7 DEF Overlaps
  <2> QED BY <1>6, <1>7, <2>1, <2>2, <2>3, <2>4
<1> QED BY <1>5, <1>7

(***************************************************************************)
(* Lists of a set.                                                         *)
(***************************************************************************)
THEOREM ListsExist == ASSUME NEW S, IsFiniteSet(S) PROVE Lists(S) # {}
<1>1. PICK items \in Bijection(1 .. Cardinality(S), S) : TRUE
  BY FS_CardinalityType DEF ExistsBijection
<1>2. items \in [1 .. Cardinality(S) -> S]
  BY <1>1 DEF Bijection, Injection
<1>3. \A i, j \in 1 .. Cardinality(S) : items[i] = items[j] => i = j
  BY <1>1 DEF Bijection, Injection, IsInjective
<1>4. items \in Lists(S)
  BY <1>2, <1>3 DEF Lists, CheckDuplicateLabels
<1> QED BY <1>4

\* A list of a set holds every member, once.
LEMMA ListIs ==
    ASSUME NEW S, IsFiniteSet(S), NEW items \in Lists(S)
    PROVE  /\ Cardinality(S) \in Nat /\ DOMAIN items = 1 .. Cardinality(S)
           /\ \A i \in 1 .. Cardinality(S) : items[i] \in S
           /\ \A i, j \in 1 .. Cardinality(S) : items[i] = items[j] => i = j
           /\ \A l \in S : \E i \in 1 .. Cardinality(S) : items[i] = l
<1> DEFINE n == Cardinality(S)
<1>1. n \in Nat
  BY FS_CardinalityType
<1>2. items \in [1 .. n -> S] /\ \A i, j \in 1 .. n : items[i] = items[j] => i = j
  BY DEF Lists, CheckDuplicateLabels
<1>3. Cardinality(1 .. n) = n /\ IsFiniteSet(1 .. n)
  BY <1>1, FS_Interval
<1>4. items \in Injection(1 .. n, S)
  BY <1>2 DEF Injection, IsInjective
<1>5. items \in Surjection(1 .. n, S)
  BY <1>3, <1>4, FS_Injection
<1> QED BY <1>1, <1>2, <1>5 DEF Surjection

\* A list of drill labels: a pair is found if and only if the two overlap.
THEOREM PairsOfList ==
    ASSUME NEW S \in SUBSET DrillLabel, IsFiniteSet(S), NEW items \in Lists(S)
    PROVE  /\ \A pair \in FindOverlaps(items) :
                 /\ pair = <<pair[1], pair[2]>> /\ pair[1] \in S /\ pair[2] \in S
                 /\ pair[1] # pair[2] /\ Overlaps(Interval[pair[1]], Interval[pair[2]])
           /\ \A a, b \in S : (a # b /\ Overlaps(Interval[a], Interval[b])) =>
                 <<a, b>> \in FindOverlaps(items) \/ <<b, a>> \in FindOverlaps(items)
<1> DEFINE n == Cardinality(S)
<1>1. /\ n \in Nat /\ DOMAIN items = 1 .. n
      /\ \A i \in 1 .. n : items[i] \in S
      /\ \A i, j \in 1 .. n : items[i] = items[j] => i = j
      /\ \A l \in S : \E i \in 1 .. n : items[i] = l
  BY ListIs
<1>2. Measured(items)
  BY <1>1 DEF Measured
<1> HIDE DEF n
<1>3. /\ \A pair \in FindOverlaps(items) : \E i, j \in 1 .. n :
            /\ i # j /\ pair = <<items[i], items[j]>>
            /\ Overlaps(Interval[items[i]], Interval[items[j]])
      /\ \A i, j \in 1 .. n : (i # j /\ Overlaps(Interval[items[i]], Interval[items[j]])) =>
            \/ <<items[i], items[j]>> \in FindOverlaps(items)
            \/ <<items[j], items[i]>> \in FindOverlaps(items)
  BY <1>1, <1>2, OverlapsFound
<1>4. ASSUME NEW pair \in FindOverlaps(items)
      PROVE  /\ pair = <<pair[1], pair[2]>> /\ pair[1] \in S /\ pair[2] \in S
             /\ pair[1] # pair[2] /\ Overlaps(Interval[pair[1]], Interval[pair[2]])
  <2>1. PICK i \in 1 .. n, j \in 1 .. n : /\ i # j /\ pair = <<items[i], items[j]>>
                                          /\ Overlaps(Interval[items[i]], Interval[items[j]])
    BY <1>3
  <2> QED BY <1>1, <2>1
<1>5. ASSUME NEW a \in S, NEW b \in S, a # b, Overlaps(Interval[a], Interval[b])
      PROVE  <<a, b>> \in FindOverlaps(items) \/ <<b, a>> \in FindOverlaps(items)
  <2>1. PICK i \in 1 .. n : items[i] = a
    BY <1>1
  <2>2. PICK j \in 1 .. n : items[j] = b
    BY <1>1
  <2>3. i # j
    BY <1>5, <2>1, <2>2
  <2>4. \/ <<items[i], items[j]>> \in FindOverlaps(items)
        \/ <<items[j], items[i]>> \in FindOverlaps(items)
    BY <1>3, <1>5, <2>1, <2>2, <2>3
  <2> QED BY <2>1, <2>2, <2>4
<1> QED BY <1>4, <1>5

-----------------------------------------------------------------------------
(***************************************************************************)
(* What intake keeps.  Bags are of the same rock when their labels claim   *)
(* overlapping intervals of one registered hole.                           *)
(***************************************************************************)
SameRock(a, b) ==
    /\ a.label \in DrillLabel /\ b.label \in DrillLabel /\ a.label # b.label
    /\ HoleOf[a.label] = HoleOf[b.label] /\ a.project = b.project
    /\ Overlaps(Interval[a.label], Interval[b.label])

\* What passed the checks overlaps neither itself nor what the checks saw.
OfferIsChecked(x) ==
    /\ IsFiniteSet(offered[x]) /\ checked[x] \subseteq ReceivedLabels
    /\ \A a, b \in offered[x] : ~SameRock(a, b)
    /\ \A a \in offered[x], r \in received : r.bag.label \in checked[x] => ~SameRock(a, r.bag)

\* OverlapNeedsARace, of two rows.
Apart(r, q) == SameRock(r.bag, q.bag) =>
    r.submission # q.submission /\ r.bag.label \notin q.saw /\ q.bag.label \notin r.saw

\* The invariant of intake.
IntakeInv ==
    /\ NumberingInv /\ IntakeTypeOK
    /\ IsFiniteSet(received)
    /\ \A r \in received : r.saw \subseteq ReceivedLabels
    /\ \A x \in Session : OfferIsChecked(x)
    /\ \A r, q \in received : Apart(r, q)

\* Rows that are apart overlap only after a race.
LEMMA RaceIsApart == (\A r, q \in received : Apart(r, q)) => OverlapNeedsARace
BY DEF Apart, SameRock, OverlapNeedsARace, Drilled

\* The labels of finitely many rows are finitely many.
LEMMA ReceivedLabelsFinite ==
    ASSUME IsFiniteSet(received) PROVE IsFiniteSet(ReceivedLabels)
<1> DEFINE f == [r \in received |-> r.bag.label]
<1>1. f \in Surjection(received, ReceivedLabels)
  BY DEF Surjection, ReceivedLabels
<1> QED BY <1>1, FS_Surjection

\* So are those of finitely many bags.
LEMMA LabelsFinite == ASSUME NEW B, IsFiniteSet(B) PROVE IsFiniteSet(Labels(B))
<1> DEFINE f == [g \in B |-> g.label]
<1>1. f \in Surjection(B, Labels(B))
  BY DEF Surjection, Labels
<1> QED BY <1>1, FS_Surjection

\* Whatever has been received or is being checked can be listed.
LEMMA FindsEveryOverlapInv == IntakeInv => FindsEveryOverlap
<1> SUFFICES ASSUME IntakeInv, NEW x \in Session,
                    NEW items \in Lists((ReceivedLabels \cup Labels(offered[x])) \cap DrillLabel)
             PROVE  LET drilled == (ReceivedLabels \cup Labels(offered[x])) \cap DrillLabel
                    IN  {{p[1], p[2]} : p \in FindOverlaps(items)}
                          = {{p[1], p[2]} : p \in {p \in drilled \X drilled :
                               p[1] # p[2] /\ Overlaps(Interval[p[1]], Interval[p[2]])}}
  BY DEF FindsEveryOverlap
<1> DEFINE drilled == (ReceivedLabels \cup Labels(offered[x])) \cap DrillLabel
           found == FindOverlaps(items)
           true == {p \in drilled \X drilled :
                      p[1] # p[2] /\ Overlaps(Interval[p[1]], Interval[p[2]])}
<1>1. IsFiniteSet(ReceivedLabels) /\ IsFiniteSet(Labels(offered[x]))
  BY ReceivedLabelsFinite, LabelsFinite DEF IntakeInv, OfferIsChecked
<1>2. IsFiniteSet(drilled)
  <2>1. IsFiniteSet(ReceivedLabels \cup Labels(offered[x]))
    BY <1>1, FS_Union
  <2> QED BY <2>1, FS_Subset
<1>3. items \in Lists(drilled) /\ drilled \in SUBSET DrillLabel
  OBVIOUS
<1> HIDE DEF drilled
<1>4. /\ \A pair \in found :
            /\ pair = <<pair[1], pair[2]>> /\ pair[1] \in drilled /\ pair[2] \in drilled
            /\ pair[1] # pair[2] /\ Overlaps(Interval[pair[1]], Interval[pair[2]])
      /\ \A a, b \in drilled : (a # b /\ Overlaps(Interval[a], Interval[b])) =>
            <<a, b>> \in found \/ <<b, a>> \in found
  BY <1>2, <1>3, PairsOfList
<1>5. \A p \in found : p \in true
  <2> SUFFICES ASSUME NEW p \in found PROVE p \in true
    OBVIOUS
  <2>1. PICK a \in drilled, b \in drilled : p = <<a, b>>
    BY <1>4
  <2> QED BY <1>4, <2>1
<1>6. ASSUME NEW p \in true PROVE \E q \in found : {q[1], q[2]} = {p[1], p[2]}
  <2>1. PICK a \in drilled, b \in drilled : p = <<a, b>> /\ a # b /\ Overlaps(Interval[a], Interval[b])
    BY <1>6
  <2>2. <<a, b>> \in found \/ <<b, a>> \in found
    BY <1>4, <2>1
  <2>3. /\ {<<a, b>>[1], <<a, b>>[2]} = {p[1], p[2]}
        /\ {<<b, a>>[1], <<b, a>>[2]} = {p[1], p[2]}
    BY <2>1
  <2> QED BY <2>2, <2>3
<1> HIDE DEF found, true
<1>7. {{p[1], p[2]} : p \in found} = {{p[1], p[2]} : p \in true}
  <2>1. ASSUME NEW s \in {{p[1], p[2]} : p \in found} PROVE s \in {{p[1], p[2]} : p \in true}
    BY <1>5
  <2>2. ASSUME NEW s \in {{p[1], p[2]} : p \in true} PROVE s \in {{p[1], p[2]} : p \in found}
    <3>1. PICK p \in true : s = {p[1], p[2]}
      OBVIOUS
    <3>2. PICK q \in found : {q[1], q[2]} = {p[1], p[2]}
      BY <1>6
    <3> QED BY <3>1, <3>2
  <2> QED BY <2>1, <2>2
<1> QED BY <1>7 DEF found, true, drilled

-----------------------------------------------------------------------------
(***************************************************************************)
(* Every step keeps the invariant.                                         *)
(***************************************************************************)
LEMMA IntakeInitInv == IntakeInit => IntakeInv
<1> SUFFICES ASSUME IntakeInit PROVE IntakeInv
  OBVIOUS
<1>1. NumberingInv
  BY NumberingInitInv DEF IntakeInit
<1>2. TypeOK
  BY <1>1 DEF NumberingInv
<1>3. \A x \in Session : phase[x] = "idle"
  BY DEF IntakeInit, Init
<1>4. IntakeTypeOK
  BY <1>2, <1>3 DEF IntakeInit, IntakeTypeOK
<1>5. IsFiniteSet({})
  BY FS_EmptySet
<1>6. \A x \in Session : OfferIsChecked(x)
  BY <1>5 DEF IntakeInit, OfferIsChecked
<1> QED BY <1>1, <1>4, <1>5, <1>6 DEF IntakeInv, IntakeInit

\* The number and the register of holes are not what the checks are about.
LEMMA FrameKeepsInv ==
    ASSUME IntakeInv, NumberingInv', IntakeTypeOK', UNCHANGED <<offered, checked, received>>
    PROVE  IntakeInv'
<1>1. ReceivedLabels' = ReceivedLabels
  BY DEF ReceivedLabels
<1>2. \A x : OfferIsChecked(x) => OfferIsChecked(x)'
  BY <1>1 DEF OfferIsChecked
<1>3. /\ IsFiniteSet(received)' /\ \A r \in received' : r.saw \subseteq ReceivedLabels'
      /\ \A r, q \in received' : Apart(r, q)
  BY <1>1 DEF IntakeInv
<1> QED BY <1>2, <1>3 DEF IntakeInv

\* A list of items is a finite set of labels, and so are the bags of one project.
LEMMA BagsOfItems ==
    ASSUME NEW n \in Nat, NEW items \in [1 .. n -> Label], NEW p \in Project
    PROVE  LET S == {items[i] : i \in DOMAIN items} IN
           /\ S \subseteq Label /\ IsFiniteSet(S) /\ IsFiniteSet([label : S, project : {p}])
           /\ [label : S, project : {p}] \subseteq Bags
           /\ Labels([label : S, project : {p}]) = S
<1> DEFINE S == {items[i] : i \in DOMAIN items}
           B == [label : S, project : {p}]
           f == [l \in S |-> [label |-> l, project |-> p]]
<1>1. IsFiniteSet(1 .. n)
  BY FS_Interval
<1>2. items \in Surjection(1 .. n, S)
  BY DEF Surjection
<1>3. IsFiniteSet(S) /\ S \subseteq Label
  BY <1>1, <1>2, FS_Surjection
<1> HIDE DEF S
<1>4. f \in Surjection(S, B)
  BY DEF Surjection
<1>5. IsFiniteSet(B)
  BY <1>3, <1>4, FS_Surjection
<1>6. B \subseteq Bags
  BY <1>3 DEF Bags
<1>7. Labels(B) = S
  <2>1. \A l \in S : [label |-> l, project |-> p] \in B /\ [label |-> l, project |-> p].label = l
    OBVIOUS
  <2> QED BY <2>1 DEF Labels
<1> QED BY <1>3, <1>5, <1>6, <1>7 DEF S

\* The check refuses what overlaps inside the submission, or with a sample received.
LEMMA OverlapsRefused ==
    ASSUME IntakeInv, NEW S \in SUBSET Label, IsFiniteSet(S), NEW p \in Project,
           CheckOverlaps(S, p)
    PROVE  /\ \A a, b \in [label : S, project : {p}] : ~SameRock(a, b)
           /\ \A a \in [label : S, project : {p}], r \in received : ~SameRock(a, r.bag)
<1>1. ASSUME NEW a \in S \cap DrillLabel, NEW b \in DrillLabel,
             a # b, HoleOf[a] = HoleOf[b], Overlaps(Interval[a], Interval[b]),
             b \in S \/ b \in SamplesOf(p, HoleOf[a])
      PROVE  FALSE
  <2> DEFINE h == HoleOf[a]
             R == SamplesOf(p, h) \cup ItemsOf(S, h)
  <2>1. PICK items \in Lists(R) :
            \A pair \in FindOverlaps(items) : pair[1] \notin S /\ pair[2] \notin S
    BY DEF CheckOverlaps
  <2>2. R \in SUBSET DrillLabel
    BY DEF SamplesOf, ItemsOf, DrillLabel
  <2>3. IsFiniteSet(R)
    <3>1. IsFiniteSet(ReceivedLabels)
      BY ReceivedLabelsFinite DEF IntakeInv
    <3>2. SamplesOf(p, h) \subseteq ReceivedLabels /\ ItemsOf(S, h) \subseteq S
      BY DEF SamplesOf, ItemsOf
    <3>3. IsFiniteSet(SamplesOf(p, h)) /\ IsFiniteSet(ItemsOf(S, h))
      BY <3>1, <3>2, FS_Subset
    <3> QED BY <3>3, FS_Union
  <2>4. a \in R /\ b \in R
    BY <1>1 DEF ItemsOf
  <2> HIDE DEF R
  <2>5. <<a, b>> \in FindOverlaps(items) \/ <<b, a>> \in FindOverlaps(items)
    BY <1>1, <2>1, <2>2, <2>3, <2>4, PairsOfList
  <2>6. <<a, b>>[1] = a /\ <<b, a>>[2] = a
    OBVIOUS
  <2> QED BY <2>1, <2>5, <2>6
<1>2. ASSUME NEW a \in [label : S, project : {p}], NEW b \in [label : S, project : {p}],
             SameRock(a, b)
      PROVE  FALSE
  <2>1. a.label \in S /\ b.label \in S
    BY <1>2
  <2> QED BY <1>1, <1>2, <2>1 DEF SameRock
<1>3. ASSUME NEW a \in [label : S, project : {p}], NEW r \in received, SameRock(a, r.bag)
      PROVE  FALSE
  <2>1. a.label \in S /\ a.project = p
    BY <1>3
  <2>2. r.bag \in Bags
    BY DEF IntakeInv, IntakeTypeOK
  <2>3. r.bag = [label |-> r.bag.label, project |-> p]
    BY <1>3, <2>1, <2>2 DEF SameRock, Bags
  <2>4. r.bag.label \in SamplesOf(p, HoleOf[a.label])
    BY <1>3, <2>3 DEF SamplesOf, SameRock, ReceivedLabels
  <2> QED BY <1>1, <1>3, <2>1, <2>4 DEF SameRock
<1> QED BY <1>2, <1>3

\* A submission that passed its checks is checked.
LEMMA ReceiveKeepsInv ==
    ASSUME IntakeInv, NEW x \in Session, NEW n \in 1 .. MaxItems, NEW p \in Project,
           NEW items \in [1 .. n -> Label], Receive(x, items, p), NumberingInv'
    PROVE  IntakeInv'
<1> DEFINE S == {items[i] : i \in DOMAIN items}
           B == [label : S, project : {p}]
<1>1. /\ offered[x] = {} /\ CheckOverlaps(S, p)
      /\ offered' = [offered EXCEPT ![x] = B] /\ checked' = [checked EXCEPT ![x] = ReceivedLabels]
      /\ UNCHANGED <<taken, phase, attempt, number, counted, holes, received>>
  BY DEF Receive, vars
<1>2. n \in Nat
  BY IntakeAssumption
<1>3. /\ S \subseteq Label /\ IsFiniteSet(S) /\ IsFiniteSet(B) /\ B \subseteq Bags
      /\ Labels(B) = S
  BY <1>2, BagsOfItems
<1>4. B # {}
  <2>1. 1 \in DOMAIN items
    BY <1>2
  <2>2. [label |-> items[1], project |-> p] \in B
    BY <2>1
  <2> QED BY <2>2
<1>5. /\ \A a, b \in B : ~SameRock(a, b)
      /\ \A a \in B, r \in received : ~SameRock(a, r.bag)
  BY <1>1, <1>3, OverlapsRefused
<1> HIDE DEF B, S
<1>6. /\ TypeOK /\ offered \in [Session -> SUBSET Bags] /\ checked \in [Session -> SUBSET Label]
      /\ holes \subseteq [project : Project, hole : Hole, depth : Depth]
      /\ received \subseteq [bag : Bags, submission : taken, saw : SUBSET Label]
      /\ \A y \in Session : offered[y] = {} => phase[y] = "idle"
  BY DEF IntakeInv, IntakeTypeOK
<1>7. ReceivedLabels \subseteq Label /\ ReceivedLabels' = ReceivedLabels
  BY <1>1, <1>6 DEF ReceivedLabels, Bags
<1>8. TypeOK'
  BY DEF NumberingInv
<1>9. IntakeTypeOK'
  BY <1>1, <1>3, <1>4, <1>6, <1>7, <1>8 DEF IntakeTypeOK
<1>10. offered'[x] = B /\ checked'[x] = ReceivedLabels
       /\ \A y \in Session \ {x} : offered'[y] = offered[y] /\ checked'[y] = checked[y]
  BY <1>1, <1>6
<1>11. OfferIsChecked(x)'
  BY <1>1, <1>3, <1>5, <1>7, <1>10 DEF OfferIsChecked
<1>12. \A y \in Session \ {x} : OfferIsChecked(y)'
  BY <1>1, <1>7, <1>10 DEF OfferIsChecked, IntakeInv
<1>13. \A y \in Session : OfferIsChecked(y)'
  BY <1>11, <1>12
<1>14. /\ IsFiniteSet(received)' /\ \A r \in received' : r.saw \subseteq ReceivedLabels'
       /\ \A r, q \in received' : Apart(r, q)
  BY <1>1, <1>7 DEF IntakeInv
<1> QED BY <1>9, <1>13, <1>14 DEF IntakeInv

\* Committed rows saw what their checks saw: what came in between was not seen, and
\* did not see them.
LEMMA CommitKeepsInv ==
    ASSUME IntakeInv, NEW x \in Session, CommitIntake(x), NumberingInv'
    PROVE  IntakeInv'
<1> DEFINE row(g) == [bag |-> g, submission |-> number[x], saw |-> checked[x]]
           New == {row(g) : g \in offered[x]}
<1>1. /\ phase[x] = "inserted" /\ taken' = taken \cup {number[x]}
      /\ phase' = [phase EXCEPT ![x] = "idle"]
      /\ Labels(offered[x]) \cap ReceivedLabels = {}
      /\ received' = received \cup New /\ offered' = [offered EXCEPT ![x] = {}]
      /\ UNCHANGED <<holes, checked>>
  BY DEF CommitIntake, Commit, End, LabelIndex
<1>2. /\ offered \in [Session -> SUBSET Bags] /\ checked \in [Session -> SUBSET Label]
      /\ phase \in [Session -> Phases]
      /\ holes \subseteq [project : Project, hole : Hole, depth : Depth]
      /\ received \subseteq [bag : Bags, submission : taken, saw : SUBSET Label]
      /\ \A y \in Session : offered[y] = {} => phase[y] = "idle"
  BY DEF IntakeInv, IntakeTypeOK, TypeOK
<1>3. TypeOK'
  BY DEF NumberingInv
<1>4. number[x] \notin taken
  BY <1>1 DEF IntakeInv, NumberingInv
<1>5. /\ \A r \in New : /\ r.bag \in offered[x] /\ r.submission = number[x] /\ r.saw = checked[x]
                        /\ r.bag.label \in Labels(offered[x]) /\ r.bag.label \notin ReceivedLabels
                        /\ r \in [bag : Bags, submission : taken', saw : SUBSET Label]
      /\ OfferIsChecked(x)
  <2>1. \A g \in offered[x] : g.label \in Labels(offered[x]) /\ g \in Bags
    BY <1>2 DEF Labels
  <2>2. checked[x] \in SUBSET Label /\ number[x] \in taken'
    BY <1>1, <1>2
  <2>3. \A g \in offered[x] : /\ row(g).bag = g /\ row(g).submission = number[x]
                              /\ row(g).saw = checked[x]
                              /\ row(g) \in [bag : Bags, submission : taken', saw : SUBSET Label]
    BY <2>1, <2>2
  <2>4. \A r \in New : \E g \in offered[x] : r = row(g)
    OBVIOUS
  <2> HIDE DEF New, row
  <2> QED BY <1>1, <2>1, <2>3, <2>4 DEF IntakeInv
<1>6. IsFiniteSet(received')
  <2>1. IsFiniteSet(offered[x])
    BY <1>5 DEF OfferIsChecked
  <2>2. [g \in offered[x] |-> row(g)] \in Surjection(offered[x], New)
    BY DEF Surjection
  <2>3. IsFiniteSet(New)
    BY <2>1, <2>2, FS_Surjection
  <2> HIDE DEF New
  <2> QED BY <1>1, <2>3, FS_Union DEF IntakeInv
<1> HIDE DEF New, row
<1>7. ReceivedLabels \subseteq ReceivedLabels'
  BY <1>1 DEF ReceivedLabels
<1>8. IntakeTypeOK'
  <2>1. received' \subseteq [bag : Bags, submission : taken', saw : SUBSET Label]
    <3>1. \A r \in received : r \in [bag : Bags, submission : taken', saw : SUBSET Label]
      BY <1>1, <1>2
    <3> QED BY <1>1, <1>5, <3>1
  <2>2. \A y \in Session : offered'[y] = {} => phase'[y] = "idle"
    BY <1>1, <1>2
  <2>3. offered' \in [Session -> SUBSET Bags] /\ checked' \in [Session -> SUBSET Label]
    BY <1>1, <1>2
  <2> QED BY <1>1, <1>2, <1>3, <2>1, <2>2, <2>3 DEF IntakeTypeOK
<1>9. \A r \in received' : r.saw \subseteq ReceivedLabels'
  BY <1>1, <1>5, <1>7 DEF IntakeInv, OfferIsChecked
<1>10. ASSUME NEW y \in Session PROVE OfferIsChecked(y)'
  <2>1. OfferIsChecked(y) /\ checked'[y] = checked[y]
    BY <1>1 DEF IntakeInv
  <2>2. offered'[y] = offered[y] \/ offered'[y] = {}
    BY <1>1, <1>2
  <2>3. IsFiniteSet(offered'[y]) /\ offered'[y] \subseteq offered[y]
    BY <2>1, <2>2, FS_EmptySet DEF OfferIsChecked
  <2>4. checked[y] \subseteq ReceivedLabels
    BY <2>1 DEF OfferIsChecked
  <2>5. \A r \in received' : r.bag.label \in checked[y] => r \in received
    BY <1>1, <1>5, <2>4
  <2> QED BY <1>7, <2>1, <2>3, <2>4, <2>5 DEF OfferIsChecked
<1>11. ASSUME NEW r \in received', NEW q \in received', SameRock(r.bag, q.bag)
       PROVE  r.submission # q.submission /\ r.bag.label \notin q.saw /\ q.bag.label \notin r.saw
  <2>1. SameRock(q.bag, r.bag)
    BY <1>11 DEF SameRock, Overlaps
  <2>2. ASSUME NEW s \in New, NEW o \in received, SameRock(s.bag, o.bag)
        PROVE  s.submission # o.submission /\ s.bag.label \notin o.saw /\ o.bag.label \notin s.saw
    <3>1. s.submission = number[x] /\ o.submission \in taken
      BY <1>2, <1>5, <2>2
    <3>2. s.bag.label \notin o.saw
      BY <1>5 DEF IntakeInv
    <3>3. o.bag.label \notin s.saw
      BY <1>5, <2>2 DEF OfferIsChecked
    <3> QED BY <1>4, <3>1, <3>2, <3>3
  <2>3. CASE r \in received /\ q \in received
    BY <1>11, <2>3 DEF IntakeInv, Apart
  <2>4. CASE r \in New /\ q \in New
    BY <1>5, <1>11, <2>4 DEF OfferIsChecked
  <2>5. CASE r \in New /\ q \in received
    BY <1>11, <2>2, <2>5
  <2>6. CASE r \in received /\ q \in New
    BY <2>1, <2>2, <2>6
  <2> QED BY <1>1, <2>3, <2>4, <2>5, <2>6
<1> QED BY <1>6, <1>8, <1>9, <1>10, <1>11 DEF IntakeInv, Apart

\* A rollback drops the offer.
LEMMA RollbackKeepsInv ==
    ASSUME IntakeInv, NEW x \in Session, RollbackIntake(x), NumberingInv'
    PROVE  IntakeInv'
<1>1. /\ phase' = [phase EXCEPT ![x] = "idle"] /\ offered' = [offered EXCEPT ![x] = {}]
      /\ UNCHANGED <<taken, holes, checked, received>>
  BY DEF RollbackIntake, Rollback, End
<1>2. /\ TypeOK /\ offered \in [Session -> SUBSET Bags] /\ checked \in [Session -> SUBSET Label]
      /\ phase \in [Session -> Phases]
      /\ holes \subseteq [project : Project, hole : Hole, depth : Depth]
      /\ received \subseteq [bag : Bags, submission : taken, saw : SUBSET Label]
      /\ \A y \in Session : offered[y] = {} => phase[y] = "idle"
  BY DEF IntakeInv, IntakeTypeOK, TypeOK
<1>3. TypeOK'
  BY DEF NumberingInv
<1>4. IntakeTypeOK'
  BY <1>1, <1>2, <1>3 DEF IntakeTypeOK
<1>5. ReceivedLabels' = ReceivedLabels
  BY <1>1 DEF ReceivedLabels
<1>6. ASSUME NEW y \in Session PROVE OfferIsChecked(y)'
  <2>1. OfferIsChecked(y)
    BY DEF IntakeInv
  <2>2. offered'[y] = offered[y] \/ offered'[y] = {}
    BY <1>1, <1>2
  <2>3. IsFiniteSet(offered'[y]) /\ offered'[y] \subseteq offered[y]
    BY <2>1, <2>2, FS_EmptySet DEF OfferIsChecked
  <2> QED BY <1>1, <1>5, <2>1, <2>3 DEF OfferIsChecked
<1>7. /\ IsFiniteSet(received)' /\ \A r \in received' : r.saw \subseteq ReceivedLabels'
      /\ \A r, q \in received' : Apart(r, q)
  BY <1>1, <1>5 DEF IntakeInv
<1> QED BY <1>4, <1>6, <1>7 DEF IntakeInv

\* Taking a number touches no sample.
LEMMA NumberKeepsInv ==
    ASSUME IntakeInv, NEW x \in Session, Number(x), NumberingInv'
    PROVE  IntakeInv'
<1>1. /\ offered[x] # {} /\ UNCHANGED <<taken, holes, offered, checked, received>>
      /\ \E f \in Phases : phase' = [phase EXCEPT ![x] = f]
  <2>1. offered[x] # {} /\ UNCHANGED <<holes, offered, checked, received>>
    BY DEF Number, intake
  <2>2. CASE Allocate(x)
    BY <2>1, <2>2 DEF Allocate, Phases
  <2>3. CASE Insert(x)
    BY <2>1, <2>3 DEF Insert, Phases
  <2>4. CASE Collide(x)
    BY <2>1, <2>4 DEF Collide, Phases
  <2> QED BY <2>2, <2>3, <2>4 DEF Number
<1>2. /\ phase \in [Session -> Phases] /\ \A y \in Session : offered[y] = {} => phase[y] = "idle"
  BY DEF IntakeInv, IntakeTypeOK, TypeOK
<1>3. TypeOK'
  BY DEF NumberingInv
<1>4. \A y \in Session : offered'[y] = {} => phase'[y] = "idle"
  BY <1>1, <1>2
<1>5. IntakeTypeOK'
  BY <1>1, <1>3, <1>4 DEF IntakeInv, IntakeTypeOK
<1> QED BY <1>1, <1>5, FrameKeepsInv

\* Every step keeps the invariant.
LEMMA IntakeStepInv == IntakeInv /\ [IntakeNext]_<<vars, intake>> => IntakeInv'
<1> SUFFICES ASSUME IntakeInv, [IntakeNext]_<<vars, intake>> PROVE IntakeInv'
  OBVIOUS
<1>1. NumberingInv'
  <2>1. [Next]_vars
    BY IntakeStepNumbers
  <2> QED BY <2>1, NumberingStepInv DEF IntakeInv
<1>2. CASE UNCHANGED <<vars, intake>>
  <2>1. IntakeTypeOK'
    BY <1>1, <1>2 DEF IntakeInv, IntakeTypeOK, NumberingInv, vars, intake
  <2> QED BY <1>1, <1>2, <2>1, FrameKeepsInv DEF intake
<1>3. ASSUME NEW p \in Project, NEW h \in Hole, NEW d \in Depth, RegisterHole(p, h, d)
      PROVE  IntakeInv'
  <2>1. /\ holes' = holes \cup {[project |-> p, hole |-> h, depth |-> d]}
        /\ UNCHANGED <<taken, phase, offered, checked, received>>
    BY <1>3 DEF RegisterHole, vars
  <2>2. IntakeTypeOK'
    BY <1>1, <2>1 DEF IntakeInv, IntakeTypeOK, NumberingInv
  <2> QED BY <1>1, <2>1, <2>2, FrameKeepsInv
<1>4. ASSUME NEW x \in Session, NEW n \in 1 .. MaxItems, NEW p \in Project,
             NEW items \in [1 .. n -> Label], Receive(x, items, p)
      PROVE  IntakeInv'
  BY <1>1, <1>4, ReceiveKeepsInv
<1>5. ASSUME NEW x \in Session, Number(x) PROVE IntakeInv'
  BY <1>1, <1>5, NumberKeepsInv
<1>6. ASSUME NEW x \in Session, CommitIntake(x) PROVE IntakeInv'
  BY <1>1, <1>6, CommitKeepsInv
<1>7. ASSUME NEW x \in Session, RollbackIntake(x) PROVE IntakeInv'
  BY <1>1, <1>7, RollbackKeepsInv
<1> QED BY <1>2, <1>3, <1>4, <1>5, <1>6, <1>7 DEF IntakeNext

(***************************************************************************)
(* The invariant of intake: what passed the checks overlaps neither itself *)
(* nor what the checks saw.                                                *)
(***************************************************************************)
THEOREM IntakeHolds == IntakeSpec => []IntakeInv
BY IntakeInitInv, IntakeStepInv, PTL DEF IntakeSpec

(***************************************************************************)
(* Offers, rows and the register of holes have their types.                *)
(***************************************************************************)
THEOREM IntakeIsTyped == IntakeSpec => []IntakeTypeOK
<1>1. IntakeInv => IntakeTypeOK
  BY DEF IntakeInv
<1> QED BY <1>1, IntakeHolds, PTL

(***************************************************************************)
(* Two samples of one registered hole claim the same rock only if their    *)
(* submissions were checked side by side, neither seeing the other         *)
(* (submissions/service.py checks for overlaps before it writes).          *)
(***************************************************************************)
THEOREM OverlapsNeedRaces == IntakeSpec => []OverlapNeedsARace
<1>1. IntakeInv => OverlapNeedsARace
  BY RaceIsApart DEF IntakeInv
<1> QED BY <1>1, IntakeHolds, PTL

(***************************************************************************)
(* find_overlaps (domain/sample_id.py), which stops early on the sorted    *)
(* intervals, returns every overlapping pair of every list of the labels   *)
(* that were ever received or are being checked.                           *)
(***************************************************************************)
THEOREM EveryOverlapIsFound == IntakeSpec => []FindsEveryOverlap
BY IntakeHolds, FindsEveryOverlapInv, PTL
=============================================================================
