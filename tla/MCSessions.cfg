SPECIFICATION Spec
CONSTANTS
    Account = {u}
    Browser = {b}
    Call = {c1, c2}
    Family = {f, g}
    Token = {t1, t2, t3}
    NoToken = NoToken
    MaxFaults = 1
SYMMETRY Symmetry
INVARIANTS
    TypeOK
    ReuseHasACause
    QuietFamilyHasOneToken
PROPERTIES
    EndedStaysEnded
