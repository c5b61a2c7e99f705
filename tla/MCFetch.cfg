\* Two processes that install or download two packages in opposite orders.
SPECIFICATION Spec
CONSTANTS
    p1 = p1
    p2 = p2
    Proc = {q1, q2}
    Pkg = {p1, p2}
    Ver = {v1, v2}
    None = None
    Commands <- MCCommands
SYMMETRY Symmetry
INVARIANTS
    TypeOK
    CacheIsWhole
    MismatchNeedsAnother
    DownloadIsOfOneBatch
