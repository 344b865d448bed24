SPECIFICATION DirectoriesSpec
CONSTANTS
    Root = root
    Dirs = {a, b}
    Colls = {c1, c2}
    Names = {n1, meta}
    MetaName = meta
    Policies = {p1, p2}
    Unplaceable = {p2}
    None = None
    Unborn = Unborn
    Deleted = Deleted
    MaxRecords = 3
SYMMETRY Identifiers
CHECK_DEADLOCK FALSE
INVARIANTS
    DirectoriesTypeOK IndicesExact NamesUnique
PROPERTIES
    NothingOrphaned PoliciesReconciled
