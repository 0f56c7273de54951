------------------------------ MODULE Lifecycle ------------------------------
(***************************************************************************)
(* The closed vocabularies of the laboratory and the three status machines *)
(* that are pure functions in the program: domain/enums.py,                *)
(* domain/lifecycle.py and domain/batch_lifecycle.py.  Nothing here has a  *)
(* state; the modules that do ask it whether a move is legal.              *)
(***************************************************************************)

Roles       == {"prep_tech", "analyst", "supervisor", "lab_manager", "client"}
BenchRoles  == Roles \ {"client"}
MayReject   == {"supervisor", "lab_manager"}
MayEnterResults    == {"analyst", "supervisor", "lab_manager"}
MaySignCertificate == {"lab_manager"}

SampleTypes == {"core", "rc_chip", "soil", "stream_sediment", "rock_chip", "pulp"}

SampleStatuses == {"received", "in_prep", "ready_for_assay", "in_assay",
                   "assayed", "reported", "rejected"}

BatchStatuses == {"pending", "charging", "in_fusion", "fused",
                  "in_cupellation", "cupelled", "completed"}

CrucibleStatuses == {"charged", "fused", "cupelled", "parted", "weighed"}

(***************************************************************************)
(* Samples.  A move is a record; onlyPulp marks the shortcut that material *)
(* arriving pulverised may take.                                           *)
(***************************************************************************)
Move(from, to, who, why, onlyPulp) ==
    [source |-> from, target |-> to, roles |-> who, reason |-> why, pulp |-> onlyPulp]

\* Mutant: re-assay starts again from preparation.
TransitionsReprepare ==
    { Move("received",        "in_prep",         BenchRoles,         FALSE, FALSE),
      Move("received",        "ready_for_assay", BenchRoles,         FALSE, TRUE),
      Move("in_prep",         "ready_for_assay", BenchRoles,         FALSE, FALSE),
      Move("ready_for_assay", "in_assay",        BenchRoles,         FALSE, FALSE),
      Move("in_assay",        "assayed",         BenchRoles,         FALSE, FALSE),
      Move("assayed",         "in_prep",         MayReject,          TRUE,  FALSE),
      Move("assayed",         "reported",        MaySignCertificate, FALSE, FALSE) }

Transitions ==
    { Move("received",        "in_prep",         BenchRoles,         FALSE, FALSE),
      Move("received",        "ready_for_assay", BenchRoles,         FALSE, TRUE),
      Move("in_prep",         "ready_for_assay", BenchRoles,         FALSE, FALSE),
      Move("ready_for_assay", "in_assay",        BenchRoles,         FALSE, FALSE),
      Move("in_assay",        "assayed",         BenchRoles,         FALSE, FALSE),
      Move("assayed",         "ready_for_assay", MayReject,          TRUE,  FALSE),
      Move("assayed",         "reported",        MaySignCertificate, FALSE, FALSE) }

RejectableFrom == {"received", "in_prep", "ready_for_assay", "in_assay"}

AppliesTo(move, type) == move.pulp => type = "pulp"

\* The pairs the table and the rejection rule allow, whoever asks.
LegalTargets(status, type) ==
    {m.target : m \in {t \in Transitions : t.source = status /\ AppliesTo(t, type)}}
        \cup (IF status \in RejectableFrom THEN {"rejected"} ELSE {})

CheckRejection(source, role, reason) ==
    /\ source \in RejectableFrom
    /\ role \in MayReject
    /\ reason

\* check_transition returns (rather than raises).  reason is whether a
\* non-blank reason came with the request.
CheckTransition(source, target, type, role, reason) ==
    /\ source # target
    /\ IF target = "rejected"
         THEN CheckRejection(source, role, reason)
         ELSE \E m \in Transitions : /\ m.source = source
                                     /\ m.target = target
                                     /\ AppliesTo(m, type)
                                     /\ role \in m.roles
                                     /\ m.reason => reason

\* What a bare status request may name; the other statuses are reached only
\* through the record that makes them true.
StatusUpdateTargets == {"in_prep", "ready_for_assay", "rejected"}

(***************************************************************************)
(* Furnace batches: linear, no branch and no way back.                     *)
(***************************************************************************)
BatchTransitions ==
    { <<"pending", "charging">>, <<"charging", "in_fusion">>, <<"in_fusion", "fused">>,
      <<"fused", "in_cupellation">>, <<"in_cupellation", "cupelled">>,
      <<"cupelled", "completed">> }

CheckBatchTransition(source, target, role) ==
    /\ <<source, target>> \in BatchTransitions
    /\ role \in BenchRoles

\* Mutant: every batch stage is written on the crucibles.
BulkEveryStage(target) == target

\* The stages the furnace performs on the whole tray at once; "none" elsewhere.
BulkCrucibleStatus(target) ==
    IF target \in {"fused", "cupelled"} THEN target ELSE "none"

(***************************************************************************)
(* Crucibles: the two moves made by hand.                                  *)
(***************************************************************************)
CrucibleTransitions == { <<"cupelled", "parted">>, <<"parted", "weighed">> }

CheckCrucibleTransition(source, target) == <<source, target>> \in CrucibleTransitions

\* Crucible statuses a result may be entered against: a bead exists.
BeadBearing == {"cupelled", "parted", "weighed"}
==============================================================================
