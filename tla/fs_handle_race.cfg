\* Two goroutines creating, opening and releasing files: their accesses to
\* the unlocked fs.fileHandles map overlap.
CONSTANTS
    Names = {a, b}
    Threads = {t1, t2}
    Files = {f1, f2}
    Ops = {"create", "open", "release"}
    EngineOutcomes = {"ok"}
    MaxInodes = 3
    ReadOffsets = {0}
SPECIFICATION Spec
SYMMETRY MCSymmetry
INVARIANT HandleTableExclusive
