\* Every request kind, two goroutines: directories, files, symlinks, hard
\* links, renames and handles.  Each rename leaves its goroutine blocked
\* for good, so with a bounded set of goroutines the system stops:
\* deadlock is not checked.
CONSTANTS
    Names = {a, b}
    Threads = {t1, t2}
    Files = {f1}
    Ops = {"mkdir", "create", "symlink", "link", "unlink", "rmdir", "rename",
           "open", "read", "write", "flush", "sync", "release", "readlink"}
    EngineOutcomes = {"ok", "fail"}
    MaxInodes = 3
    ReadOffsets = {0, 2}
SPECIFICATION Spec
SYMMETRY MCSymmetry
CHECK_DEADLOCK FALSE
INVARIANT TypeOK
