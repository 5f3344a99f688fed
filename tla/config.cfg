SPECIFICATION Spec
CONSTANTS
    a1 = a1
    a2 = a2
    a3 = a3
    a4 = a4
    ann = ann
    r1 = r1
    r2 = r2
    None = None
    Archives = {a1, a2, a3, a4}
    Config <- MCConfig
    Students = {ann}
    Requests = {r1, r2}
    MaxVersions = 3
SYMMETRY Symmetry
INVARIANTS
    MirrorsLatest
    FilesAreThere
    EveryoneHasRow
CHECK_DEADLOCK FALSE
