-------------------------------- MODULE Intake --------------------------------
(***************************************************************************)
(* Receiving a submission: every label is checked against the others and   *)
(* against what was received before, then the work order gets its number   *)
(* (Numbering) and the samples are inserted.  The check reads committed    *)
(* rows; labels are protected by a UNIQUE index as well, intervals by the  *)
(* check alone.                                                            *)
(*                                                                         *)
(* A label is one of a finite set.  A drill label says its hole and its    *)
(* interval; a surface label says neither.  A hole is registered under a   *)
(* project; a submission without a project holds surface labels, which no  *)
(* project changes.  The order of the problems, and the columns nothing    *)
(* here reads, are left out.                                               *)
(***************************************************************************)
EXTENDS Numbering

CONSTANTS
    Label,          \* labels a client may write on a bag
    HoleOf,         \* hole of a label, NoHole for a surface label
    Interval,       \* [from, to] in metres, of a drill label
    Project,        \* projects of the client
    Depth,          \* total depths a hole may be registered with
    NoHole,
    NoDepth,        \* a total depth nobody stated
    MaxItems        \* bound on the samples of one submission

DrillLabel == {l \in Label : HoleOf[l] # NoHole}

ASSUME IntakeAssumption ==
    /\ Depth \subseteq Nat \cup {NoDepth} /\ NoDepth \notin Nat
    /\ \A l \in DrillLabel : Interval[l].from \in Nat /\ Interval[l].to \in Nat
                             /\ Interval[l].from < Interval[l].to
    /\ MaxItems \in Nat

VARIABLES
    holes,      \* committed drill holes: project, name and total depth
    offered,    \* bags of the submission each session is taking in
    checked,    \* labels of the sample rows its checks saw
    received    \* committed samples: bag, submission number, labels the check saw

intake == <<holes, offered, checked, received>>

Hole   == {HoleOf[l] : l \in DrillLabel}
Bags   == [label : Label, project : Project]
Labels(rows) == {r.label : r \in rows}

IntakeTypeOK ==
    /\ TypeOK
    /\ holes \subseteq [project : Project, hole : Hole, depth : Depth]
    /\ offered \in [Session -> SUBSET Bags]
    /\ checked \in [Session -> SUBSET Label]
    /\ received \subseteq [bag : Bags, submission : taken, saw : SUBSET Label]
    /\ \A x \in Session : offered[x] = {} => phase[x] = "idle"

IntakeInit ==
    /\ Init
    /\ holes = {}
    /\ offered = [x \in Session |-> {}]
    /\ checked = [x \in Session |-> {}]
    /\ received = {}

-----------------------------------------------------------------------------
(***************************************************************************)
(* Intervals.                                                              *)
(***************************************************************************)
\* Half-open: touching is not overlapping.
Overlaps(a, b) == a.from < b.to /\ b.from < a.to

\* DepthInterval compares by its start, then by its end.
Before(a, b) == a.from < b.from \/ (a.from = b.from /\ a.to < b.to)

\* sorted(): intervals that are equal come in any order.
Sorted(items) ==
    LET order == CHOOSE f \in [DOMAIN items -> DOMAIN items] :
                    /\ \A i, j \in DOMAIN items : f[i] = f[j] => i = j
                    /\ \A i, j \in DOMAIN items : i < j =>
                          ~Before(Interval[items[f[j]]], Interval[items[f[i]]])
    IN  [i \in DOMAIN items |-> items[order[i]]]

\* Mutant: each interval is compared with the next one only.
ReachesNext(ordered, i, j) == j = i + 1

\* The inner loop goes on while intervals start before this one ends.
Reaches(ordered, i, j) ==
    /\ i < j
    /\ \A k \in i + 1 .. j : Interval[ordered[k]].from < Interval[ordered[i]].to

\* Pairs of labels, as find_overlaps returns them.
FindOverlaps(items) ==
    LET ordered == Sorted(items)
        found   == {ij \in (DOMAIN items) \X (DOMAIN items) :
                      /\ Reaches(ordered, ij[1], ij[2])
                      /\ Overlaps(Interval[ordered[ij[1]]], Interval[ordered[ij[2]]])}
    IN  {<<ordered[ij[1]], ordered[ij[2]]>> : ij \in found}

-----------------------------------------------------------------------------
(***************************************************************************)
(* The checks of one submission.                                           *)
(***************************************************************************)
ItemsOf(S, h) == {l \in S : HoleOf[l] = h}

CheckDuplicateLabels(items) == \A i, j \in DOMAIN items : items[i] = items[j] => i = j

\* The lists of a set of labels, each of them once.
Lists(S) == {items \in [1 .. Cardinality(S) -> S] : CheckDuplicateLabels(items)}

ReceivedLabels == {r.bag.label : r \in received}

CheckAlreadyReceived(S) == S \cap ReceivedLabels = {}

\* A hole is looked up by project and name.
DrillHoles(p, h) == {d \in holes : d.project = p /\ d.hole = h}

ResolveDrillHoles(S, p) == \A l \in S \cap DrillLabel : DrillHoles(p, HoleOf[l]) # {}

\* Labels of the sample rows of one drill hole.
SamplesOf(p, h) == {l \in ReceivedLabels \cap DrillLabel :
    HoleOf[l] = h /\ \E r \in received : r.bag = [label |-> l, project |-> p]}

\* Mutant: the submission is compared with itself only.
CheckOverlapsWithin(S, p) ==
    \A h \in {HoleOf[l] : l \in S \cap DrillLabel} :
        \E items \in Lists(ItemsOf(S, h)) : FindOverlaps(items) = {}

\* Existing rows and new labels, in any order; a label in both is refused
\* elsewhere, and a pair of existing rows is not this submission's problem.
CheckOverlaps(S, p) ==
    \A h \in {HoleOf[l] : l \in S \cap DrillLabel} :
        \E items \in Lists(SamplesOf(p, h) \cup ItemsOf(S, h)) :
            \A pair \in FindOverlaps(items) : pair[1] \notin S /\ pair[2] \notin S

CheckDepths(S, p) ==
    \A l \in S \cap DrillLabel : \A d \in DrillHoles(p, HoleOf[l]) :
        d.depth # NoDepth => Interval[l].to <= d.depth

\* Everything is checked before anything is written.
Receive(x, items, p) ==
    LET S == {items[i] : i \in DOMAIN items} IN
    /\ offered[x] = {}
    /\ CheckDuplicateLabels(items)
    /\ CheckAlreadyReceived(S)
    /\ ResolveDrillHoles(S, p)
    /\ CheckOverlaps(S, p)
    /\ CheckDepths(S, p)
    /\ offered' = [offered EXCEPT ![x] = [label : S, project : {p}]]
    /\ checked' = [checked EXCEPT ![x] = ReceivedLabels]
    /\ UNCHANGED <<vars, holes, received>>

\* The name is looked up first; whoever passes with another is refused by the
\* UNIQUE index, so one of them registers the hole.
RegisterHole(p, h, d) ==
    /\ DrillHoles(p, h) = {}
    /\ holes' = holes \cup {[project |-> p, hole |-> h, depth |-> d]}
    /\ UNCHANGED <<vars, offered, checked, received>>

-----------------------------------------------------------------------------
(***************************************************************************)
(* The writes.  The event of the submission takes the audit lock, so from  *)
(* the first sample to the commit no other intake writes.                  *)
(***************************************************************************)
Number(x) ==
    /\ offered[x] # {}
    /\ Allocate(x) \/ Insert(x) \/ Collide(x)
    /\ UNCHANGED intake

\* The UNIQUE index on the label.
LabelIndex(x) == Labels(offered[x]) \cap ReceivedLabels = {}

CommitIntake(x) ==
    /\ Commit(x)
    /\ LabelIndex(x)
    /\ received' = received \cup
          {[bag |-> g, submission |-> number[x], saw |-> checked[x]] : g \in offered[x]}
    /\ offered' = [offered EXCEPT ![x] = {}]
    /\ UNCHANGED <<holes, checked>>

RollbackIntake(x) ==
    /\ Rollback(x)
    /\ offered' = [offered EXCEPT ![x] = {}]
    /\ UNCHANGED <<holes, checked, received>>

IntakeNext ==
    \/ \E p \in Project, h \in Hole, d \in Depth : RegisterHole(p, h, d)
    \/ \E x \in Session :
          \/ \E n \in 1 .. MaxItems, p \in Project : \E items \in [1 .. n -> Label] :
                Receive(x, items, p)
          \/ Number(x) \/ CommitIntake(x) \/ RollbackIntake(x)

IntakeSpec == IntakeInit /\ [][IntakeNext]_<<vars, intake>>

-----------------------------------------------------------------------------
(***************************************************************************)
(* Properties.                                                             *)
(***************************************************************************)
Drilled(rows) == {r \in rows : r.bag.label \in DrillLabel}

\* Two samples of one registered hole claim the same rock only if their
\* submissions were checked side by side, neither seeing the other: the check
\* refuses every overlap it can see, inside a submission as well.
OverlapNeedsARace ==
    \A r, q \in Drilled(received) : LET a == r.bag.label  b == q.bag.label IN
        /\ a # b
        /\ HoleOf[a] = HoleOf[b] /\ r.bag.project = q.bag.project
        /\ Overlaps(Interval[a], Interval[b])
      => r.submission # q.submission /\ a \notin q.saw /\ b \notin r.saw

\* find_overlaps stops early on sorted intervals and still returns every
\* overlapping pair, whatever mixture of submissions it is given.
FindsEveryOverlap ==
    \A x \in Session :
        LET drilled == (ReceivedLabels \cup Labels(offered[x])) \cap DrillLabel
        IN  \A items \in Lists(drilled) :
               {{p[1], p[2]} : p \in FindOverlaps(items)}
                 = {{p[1], p[2]} : p \in {p \in drilled \X drilled :
                       p[1] # p[2] /\ Overlaps(Interval[p[1]], Interval[p[2]])}}
=============================================================================
