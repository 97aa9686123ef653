CONSTANTS
    Request = {r1, r2}
    Name = {n1}
    MayFail = {"create", "put", "delete", "mark", "grant", "kill", "insert", "set", "del"}
    MaxRequests = 3
    Username <- MCUsername
    Existing <- MCExisting
    MaxVisits = 4
    MaxSecond = 2

SPECIFICATION MasterFairSpec

INVARIANTS
    TypeOK
    KeyHasRow
    RowsPerName
    MasterTypeOK
    SessionIsOwn
    RowsPerUser
    DeletedHasNoKey

PROPERTIES
    KillMarkGoes
    RevokedIsRefused

CHECK_DEADLOCK FALSE
