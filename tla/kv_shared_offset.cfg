\* Two concurrent Gets share kv.file's position: Seek and Read are separate
\* steps under a shared RLock.
CONSTANTS
    Keys <- MCKeys
    Vals = {v1, v2}
    Zero = Zero
    NotFound = NotFound
    Readers = {r1, r2}
    ReaderOps = {"get"}
    Writers = {w1}
    Ops = {"put"}
    WriteOutcomes = {"ok"}
    MaxLog = 2
    MaxCrashes = 0
SPECIFICATION Spec
SYMMETRY MCSymmetry
INVARIANT GetLinearizable
