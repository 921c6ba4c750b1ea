\* Unlink of one name of a hard-linked file.
CONSTANTS
    Names = {a, b}
    Threads = {t1}
    Files = {f1}
    Ops = {"create", "link", "unlink"}
    EngineOutcomes = {"ok"}
    MaxInodes = 2
    ReadOffsets = {0}
SPECIFICATION Spec
SYMMETRY MCSymmetry
INVARIANT NlinkCountsNames
