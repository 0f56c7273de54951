---------------------------- MODULE AssayRegister ----------------------------
(***************************************************************************)
(* What the bench record promises, without tables: each sample has a       *)
(* stage and at most one current gold grade.  A grade is measured once,    *)
(* from a sample in assay; after that it can only be corrected.  Every     *)
(* correction replaces the current grade by a new one.  A publication      *)
(* copies current grades, and what was published is never withdrawn.       *)
(* SampleCustody's append-only tables and supersession chains implement    *)
(* this register.                                                          *)
(***************************************************************************)
EXTENDS Naturals, Lifecycle

CONSTANTS Sample, SampleType

VARIABLES
    stage,       \* where the sample is
    current,     \* the number of its current grade, 0 before the first
    grades,      \* how many grades were ever recorded
    published    \* <<sample, grade>> pairs on certificates

vars == <<stage, current, grades, published>>

Init ==
    /\ stage = [s \in Sample |-> "received"]
    /\ current = [s \in Sample |-> 0]
    /\ grades = 0
    /\ published = {}

\* A crucible taken back out of an open tray returns its sample.
BackFromTheTray == <<"in_assay", "ready_for_assay">>

Proceed(s, to) ==
    /\ to # "reported"
    /\ \/ to \in LegalTargets(stage[s], SampleType[s])
       \/ <<stage[s], to>> = BackFromTheTray
    /\ stage' = [stage EXCEPT ![s] = to]
    /\ UNCHANGED <<current, grades, published>>

NewGrade(s) ==
    /\ grades' = grades + 1
    /\ current' = [current EXCEPT ![s] = grades + 1]

Measure(s) ==
    /\ stage[s] = "in_assay"
    /\ current[s] = 0
    /\ NewGrade(s)
    /\ stage' = [stage EXCEPT ![s] = "assayed"]
    /\ UNCHANGED published

Correct(s) ==
    /\ current[s] # 0
    /\ NewGrade(s)
    /\ UNCHANGED <<stage, published>>

Publish(S) ==
    /\ \A s \in S : current[s] # 0
    /\ published' = published \cup {<<s, current[s]>> : s \in S}
    /\ stage' = [s \in Sample |->
                   IF s \in S /\ stage[s] = "assayed" THEN "reported" ELSE stage[s]]
    /\ UNCHANGED <<current, grades>>

Next ==
    \/ \E s \in Sample, to \in SampleStatuses : Proceed(s, to)
    \/ \E s \in Sample : Measure(s) \/ Correct(s)
    \/ \E S \in SUBSET Sample : Publish(S)

Spec == Init /\ [][Next]_vars
==============================================================================
