\* A file with a second name in another directory is renamed: between the
\* two steps of Rename the other name's inode has no attribute row.
CONSTANTS
    Names = {a, b, c}
    Threads = {t1}
    Files = {f1}
    Ops = {"mkdir", "create", "link", "rename"}
    EngineOutcomes = {"ok"}
    MaxInodes = 3
    ReadOffsets = {0}
SPECIFICATION Spec
SYMMETRY MCSymmetry
CHECK_DEADLOCK FALSE
INVARIANT DentriesResolve
