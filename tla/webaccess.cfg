SPECIFICATION Spec
CONSTANTS
    Requests = {r1, r2}
    Addresses = {a1, a2, a3}
    NoAddress = NoAddress
    MaxFailed = 2
    Window = 1
    MaxTracked = 2
    SessionLife = 1
    BodyLimit = 2
SYMMETRY Renamings
INVARIANTS
    TypeOK
    WindowIsExact
PROPERTIES
    LiveEvictedLast
    AnswersTakeEffect
