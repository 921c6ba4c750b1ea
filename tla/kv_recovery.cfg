\* Crashes and restarts with Puts and failed writes; two readers, so that
\* a reader can meet a file position another reader moved.
CONSTANTS
    Keys <- MCKeys
    Vals = {v1, v2}
    Zero = Zero
    NotFound = NotFound
    Readers = {r1, r2}
    ReaderOps = {"get"}
    Writers = {w1}
    Ops = {"put"}
    WriteOutcomes = {"ok", "fail"}
    MaxLog = 3
    MaxCrashes = 2
SPECIFICATION Spec
SYMMETRY MCSymmetry
INVARIANT IndexView
