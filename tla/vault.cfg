SPECIFICATION Spec
CONSTANTS
    r1 = r1
    r2 = r2
    r3 = r3
    s1 = s1
    s2 = s2
    k1 = k1
    k2 = k2
    Ids <- MCIds
    Secrets <- MCSecrets
    Keys <- MCKeys
    NoKey = NoKey
INVARIANTS TypeOK OpenStoreReadsEveryRow NoneInPlaintext PasswordsKept SameKeyReopens
