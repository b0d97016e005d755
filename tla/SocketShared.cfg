SPECIFICATION SafeSpec
CONSTANTS
    Users = {u1, u2}
    Messages = {m1, m2}
INVARIANTS
    TypeOK
    FlagsAgree
    SentAtMostOnce
