SPECIFICATION SignInSpec
CONSTANTS
    Request = {r1, r2}
    Person = {ann, bob}
    Email = {e1, e2}
    Key = {k1, k2}
    Group = {"clients", "managers"}
    RoleMap <- Groups
    CacheSeconds = 1
    TokenLife = 2
    Nobody = Nobody
    MaxTime = 2
    MaxTokens = 2
    MaxClients = 3
    Memberships <- Member
    MaxRotations = 2
    MaxMoves = 2
INVARIANTS WithdrawnKeyStops RotationLocksNobodyOut OneRowAPerson FirstSightFailsForAReason
SYMMETRY Same
CONSTRAINT KeysOrPeople
CHECK_DEADLOCK FALSE
