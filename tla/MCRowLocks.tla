----------------------------- MODULE MCRowLocks -----------------------------
(***************************************************************************)
(* The audit trail and its locks for TLC.  A hash that never collides is   *)
(* the list of all it commits to.                                          *)
(***************************************************************************)
EXTENDS RowLocks, TLC

PerfectHash(prev, c) == <<prev, c>>

\* The questions about samples need two events, no edit and no anchor.  Only steps
\* that nothing forces -- a request, an event, an edit -- lead out of this.
SamplesApart ==
    (\E x \in Session : side[x] # "other") =>
        /\ nextId <= 3 /\ anchors = {}
        /\ \A i \in DOMAIN ledger : ledger[i].content \in Content
        /\ \A x \in Session : draft[x] = Null
=============================================================================
