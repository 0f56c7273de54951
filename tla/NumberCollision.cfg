SPECIFICATION Spec
CONSTANTS
    Session = {x1, x2}
    MaxAttempts = 5
    MaxNumber = 3
INVARIANT CollisionIsRecomputed
CHECK_DEADLOCK FALSE
