SPECIFICATION Spec
CONSTANTS
    Session = {x1, x2}
    Batch = {b1}
    Slots = 1
    Bead = {w0, w1}
    Gradable = {w1}
    Certified = {v1, v2}
    Nothing = Nothing
    MaxSends = 1
INVARIANTS SealIsStored SealedGradesStand EveryAttemptIsRecorded RowsMatchImports
SYMMETRY Alike
CHECK_DEADLOCK FALSE
