SPECIFICATION Spec
CONSTANTS
    Account = {u}
    Browser = {b}
    Call = {c1, c2}
    Family = {f}
    Token = {t1, t2}
    NoToken = NoToken
    MaxFaults = 0
SYMMETRY Symmetry
INVARIANT SignedOutIsOver
