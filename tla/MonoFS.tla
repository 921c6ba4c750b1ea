------------------------------- MODULE MonoFS -------------------------------
(***************************************************************************)
(* The inode/handle layer of src/fs/fileoper.go (type Monofs) over the     *)
(* metadata database (package fsdb, whose source is not in the            *)
(* repository: its calls are modelled from spec.md section 4.F).          *)
(*                                                                         *)
(* State: the directory-entry store `dentry` ((parent, name) -> inode id), *)
(* the attribute store `attrs` (inode id -> kind and Nlink), the inode id  *)
(* allocator and the file-handle table fs.fileHandles.  Every metadata    *)
(* call is one atomic fsdb operation.  The kernel's open files are kept   *)
(* apart from fs.fileHandles: the kernel echoes, for each open file, the  *)
(* handle id the handler returned in op.Handle.                           *)
(*                                                                         *)
(* Requests come from the kernel.  A thread issues a request (Issue) and   *)
(* later serves it; the kernel has already looked the names up and holds  *)
(* the directory locks of the VFS, so a request whose preconditions fail  *)
(* is answered by the kernel (KernelRefuses) and never reaches a handler.  *)
(* Under those directory locks a handler runs as one step.  Rename takes  *)
(* two: it deletes the inode under the old parent's fsHashLock, unlocks   *)
(* it, and adds the inode back under the new parent's.  Its deferred call *)
(* fs.fsHashLock.Lock(op.NewParent) is a second Lock of a mutex it holds, *)
(* so the handler never returns: the thread stays "hung" and both parent  *)
(* directories stay locked.                                                *)
(* The handlers that touch fs.fileHandles, a Go map with no lock, end in  *)
(* two steps: the access begins, then it ends and the handler returns, so *)
(* the accesses of two goroutines can overlap.                            *)
(***************************************************************************)
EXTENDS Naturals, FiniteSets, Functions, TLC

CONSTANTS
    Names,          \* directory-entry names
    Threads,        \* FUSE goroutines serving requests
    Files,          \* the kernel's open files (struct file) a run uses
    Ops,            \* request kinds the kernel issues in this run
    EngineOutcomes, \* outcomes of monofile.New: subset of {"ok", "fail"}
    MaxInodes,      \* bound on allocated inode ids
    ReadOffsets     \* ReadFile offsets, in units of the read size

RootID == 1
Ids    == 1 .. MaxInodes
Kinds  == {"dir", "file", "link"}
AllOps == {"mkdir", "create", "symlink", "link", "unlink", "rmdir", "rename",
           "open", "read", "write", "flush", "sync", "release", "readlink"}

\* op.Handle as CreateFile and OpenFile leave it: no handler assigns it,
\* so the file system returns the zero HandleID for every open file.
OpHandle == 0

ASSUME Ops \subseteq AllOps /\ EngineOutcomes \subseteq {"ok", "fail"}
ASSUME MaxInodes \in Nat /\ MaxInodes >= 1

VARIABLES
    dentry,     \* dstore: <<parent, name>> -> child inode id
    attrs,      \* astore: inode id -> [kind, nlink]
    nextId,     \* next inode id NewInode hands out
    fileHandles,\* fs.fileHandles: HandleID -> FsFile [ino, written]
    kfiles,     \* the kernel's open files: file -> [ino, fh]
    inMap,      \* thread -> its access to fs.fileHandles in progress
    req,        \* request each thread serves, or Idle
    hung,       \* thread -> directories its hung Rename keeps locked
    moving,     \* thread -> the inode its Rename deleted and will add back
    last        \* errno of the last answer ("ok" for success)

vars == <<dentry, attrs, nextId, fileHandles, kfiles, inMap, req, hung, moving, last>>

Idle   == [op |-> "idle"]
NoDirs == {}
NoMove == [id |-> 0]
NoAccess == [kind |-> "none", err |-> "none"]
Errnos   == {"ok", "EIO", "EINVAL"}

-----------------------------------------------------------------------------
(* fsdb calls (spec.md 4.F)                                                *)

\* AddInode(inode, true): write the attribute row and the directory entry.
AddInode(d, a, p, n, id, row) ==
    /\ dentry' = (<<p, n>> :> id) @@ d
    /\ attrs'  = (id :> row) @@ a

\* DeleteInode(inode, false): remove the directory entry and the attribute
\* row; children are not touched.
DeleteInode(d, a, p, n, id) ==
    /\ dentry' = Restrict(d, DOMAIN d \ {<<p, n>>})
    /\ attrs'  = Restrict(a, DOMAIN a \ {id})

\* GetInode(parent, name): the entry, then its attribute row.
Resolves(p, n) == <<p, n>> \in DOMAIN dentry /\ dentry[<<p, n>>] \in DOMAIN attrs
Child(p, n)    == dentry[<<p, n>>]

IsDir(id)   == id \in DOMAIN attrs /\ attrs[id].kind = "dir"
Children(p) == {e \in DOMAIN dentry : e[1] = p}
Named(id)   == {e \in DOMAIN dentry : dentry[e] = id}

-----------------------------------------------------------------------------
Init ==
    /\ dentry  = << >>
    /\ attrs   = (RootID :> [kind |-> "dir", nlink |-> 1])
    /\ nextId  = RootID + 1
    /\ fileHandles = << >>
    /\ kfiles  = << >>
    /\ inMap   = [t \in Threads |-> NoAccess]
    /\ req     = [t \in Threads |-> Idle]
    /\ hung    = [t \in Threads |-> NoDirs]
    /\ moving  = [t \in Threads |-> NoMove]
    /\ last    = "none"

\* The kernel's open files once it has the answer err to request r: a
\* created or opened file is open with the handle id the handler set in
\* op.Handle, a released one is closed.
KernelFiles(r, err) ==
    CASE err # "ok"        -> kfiles
      [] r.op = "open"     -> (r.f :> [ino |-> r.ino, fh |-> OpHandle]) @@ kfiles
      [] r.op = "create"   -> (r.f :> [ino |-> Child(r.p, r.n), fh |-> OpHandle]) @@ kfiles
      [] r.op = "release"  -> Restrict(kfiles, DOMAIN kfiles \ {r.f})
      [] OTHER             -> kfiles

\* A request answered with an errno ("ok" for success); the thread
\* becomes idle.
Reply(t, err) ==
    /\ last'   = err
    /\ req'    = [req EXCEPT ![t] = Idle]
    /\ kfiles' = KernelFiles(req[t], err)

Answer(t, err) == Reply(t, err) /\ UNCHANGED inMap

\* The handler's access to fs.fileHandles ("read" or "write") begins; the
\* handler answers err when it ends.
BeginMapAccess(t, kind, err) ==
    /\ inMap' = [inMap EXCEPT ![t] = [kind |-> kind, err |-> err]]
    /\ UNCHANGED <<req, last, kfiles>>

InMap == {t \in Threads : inMap[t] # NoAccess}


-----------------------------------------------------------------------------
(* Requests                                                                *)

\* Creating requests in flight; with nextId they stay within MaxInodes.
Creating == {t \in Threads : req[t].op \in {"mkdir", "create", "symlink"}}

Requests ==
       [op : {"mkdir", "symlink"} \cap Ops, p : Ids, n : Names]
  \cup [op : {"create"} \cap Ops, p : Ids, n : Names, f : Files]
  \cup [op : {"link"} \cap Ops, p : Ids, n : Names, target : Ids]
  \cup [op : {"unlink", "rmdir"} \cap Ops, p : Ids, n : Names]
  \cup [op : {"rename"} \cap Ops, p : Ids, n : Names, p2 : Ids, n2 : Names]
  \cup [op : {"open"} \cap Ops, ino : Ids, f : Files]
  \cup [op : {"read"} \cap Ops, f : Files, off : ReadOffsets]
  \cup [op : {"write", "flush", "sync", "release"} \cap Ops, f : Files]
  \cup [op : {"readlink"} \cap Ops, ino : Ids]

\* Directories whose lock a request needs: the parent of a directory
\* mutation, both parents of a rename.
DirsOf(r) ==
    CASE r.op \in {"mkdir", "create", "symlink", "link", "unlink", "rmdir"} -> {r.p}
      [] r.op = "rename" -> {r.p, r.p2}
      [] OTHER -> {}

\* Directories whose VFS lock is held: by a hung Rename, or by a handler
\* still running (a map access in progress, a Rename between its steps).
Moving  == {t \in Threads : moving[t] # NoMove}
Blocked == UNION {hung[t] : t \in Threads} \cup UNION {DirsOf(req[t]) : t \in InMap \cup Moving}

\* What the kernel has checked before it sends a request to the handler:
\* the parent is a directory, a name to create is absent and a name to
\* remove is present and of the right kind (unlink: not a directory,
\* rmdir: a directory), a rename source is not a directory (directory
\* renames are not modelled) and does not replace a directory, an open
\* names a file the kernel can look up (its directory is not locked by a
\* running handler), a file in use is open and a new one is not.
KernelAdmits(r) ==
    CASE r.op \in {"mkdir", "create", "symlink"} ->
            IsDir(r.p) /\ ~Resolves(r.p, r.n)
              /\ (r.op = "create" => r.f \notin DOMAIN kfiles)
      [] r.op = "link" ->
            IsDir(r.p) /\ ~Resolves(r.p, r.n)
              /\ r.target \in DOMAIN attrs /\ ~IsDir(r.target)
      [] r.op = "unlink" ->
            IsDir(r.p) /\ Resolves(r.p, r.n) /\ ~IsDir(Child(r.p, r.n))
      [] r.op = "rmdir" -> IsDir(r.p) /\ Resolves(r.p, r.n) /\ IsDir(Child(r.p, r.n))
      [] r.op = "rename" ->
            /\ IsDir(r.p) /\ IsDir(r.p2) /\ Resolves(r.p, r.n)
            /\ ~IsDir(Child(r.p, r.n)) /\ <<r.p, r.n>> # <<r.p2, r.n2>>
            /\ Resolves(r.p2, r.n2) => ~IsDir(Child(r.p2, r.n2))
      [] r.op = "open" ->
            r.ino \in DOMAIN attrs /\ attrs[r.ino].kind = "file"
              /\ \E e \in Named(r.ino) : e[1] \notin Blocked
              /\ r.f \notin DOMAIN kfiles
      [] r.op \in {"read", "write", "flush", "sync", "release"} -> r.f \in DOMAIN kfiles
      [] r.op = "readlink" -> r.ino \in DOMAIN attrs /\ attrs[r.ino].kind = "link"

\* The kernel sends no request on a file while its open or release is in
\* flight, and no second open of one file.
Clashes(r, s) ==
    /\ "f" \in DOMAIN r /\ "f" \in DOMAIN s /\ r.f = s.f
    /\ {r.op, s.op} \cap {"create", "open", "release"} # {}

\* An idle thread takes a request from the kernel.
Issue(t) ==
    /\ req[t] = Idle /\ hung[t] = NoDirs
    /\ \E r \in Requests :
          /\ r.op \in {"mkdir", "create", "symlink"} =>
                nextId + Cardinality(Creating) <= MaxInodes
          /\ \A u \in Threads : ~Clashes(r, req[u])
          /\ req' = [req EXCEPT ![t] = r]
    /\ UNCHANGED <<dentry, attrs, nextId, fileHandles, kfiles, inMap, hung, moving, last>>

\* The kernel answers a request whose checks fail (ENOENT, EEXIST, ...).
KernelRefuses(t) ==
    /\ req[t] # Idle /\ t \notin InMap /\ DirsOf(req[t]) \cap Blocked = {}
    /\ ~KernelAdmits(req[t])
    /\ Answer(t, "kernel")
    /\ UNCHANGED <<dentry, attrs, nextId, fileHandles, hung, moving>>

\* A handler may run: its request is admitted and its directories free.
Serves(t, op) ==
    /\ req[t].op = op /\ t \notin InMap /\ KernelAdmits(req[t])
    /\ DirsOf(req[t]) \cap Blocked = {}

-----------------------------------------------------------------------------
(* Handlers                                                                *)

\* Mutation: MkDir advances the id allocator twice.
MkDirSkipsId(t) ==
    LET r == req[t] IN
    /\ Serves(t, "mkdir")
    /\ AddInode(dentry, attrs, r.p, r.n, nextId, [kind |-> "dir", nlink |-> 1])
    /\ nextId' = nextId + 2
    /\ Answer(t, "ok")
    /\ UNCHANGED <<fileHandles, hung, moving>>

\* MkDir (spec.md 4.H): a new directory inode under the parent lock.
MkDir(t) ==
    LET r == req[t] IN
    /\ Serves(t, "mkdir")
    /\ AddInode(dentry, attrs, r.p, r.n, nextId, [kind |-> "dir", nlink |-> 1])
    /\ nextId' = nextId + 1
    /\ Answer(t, "ok")
    /\ UNCHANGED <<fileHandles, hung, moving>>

\* monofile.New: NewFsFileEngine opens the store file <path>/<hash> with
\* kvstore.NewKVStore (its error is the outcome "fail") and an empty index;
\* the FsFile of the inode has no data yet.
NewFsFile(ino) == [ino |-> ino, written |-> FALSE]

\* CreateFile: under fsHashLock(parent) GetInode; an existing entry is
\* returned as is.  Otherwise a new file inode (Nlink 1, a fresh hash) is
\* added, then monofile.New opens its data store and the FsFile is stored
\* in fs.fileHandles under op.Handle.  A failing monofile.New answers EIO
\* after the inode was added.
CreateFile(t) ==
    LET r == req[t] IN
    /\ Serves(t, "create")
    /\ IF Resolves(r.p, r.n)
       THEN /\ Answer(t, "ok")
            /\ UNCHANGED <<dentry, attrs, nextId, fileHandles>>
       ELSE /\ AddInode(dentry, attrs, r.p, r.n, nextId,
                        [kind |-> "file", nlink |-> 1])
            /\ nextId' = nextId + 1
            /\ \E outcome \in EngineOutcomes :
                 \/ /\ outcome = "ok"
                    /\ fileHandles' = (OpHandle :> NewFsFile(nextId))
                                         @@ fileHandles
                    /\ BeginMapAccess(t, "write", "ok")
                 \/ /\ outcome = "fail"
                    /\ Answer(t, "EIO")
                    /\ UNCHANGED fileHandles
    /\ UNCHANGED <<hung, moving>>

\* CreateSymlink: a new inode of mode 0777|ModeSymlink whose hash is the
\* target, added without looking for an existing entry.
CreateSymlink(t) ==
    LET r == req[t] IN
    /\ Serves(t, "symlink")
    /\ AddInode(dentry, attrs, r.p, r.n, nextId, [kind |-> "link", nlink |-> 1])
    /\ nextId' = nextId + 1
    /\ Answer(t, "ok")
    /\ UNCHANGED <<fileHandles, hung, moving>>

\* CreateLink: read the target's attributes (ENOENT if missing), add an
\* entry naming the target id with the attributes copied and Nlink + 1.
CreateLink(t) ==
    LET r == req[t] IN
    /\ Serves(t, "link")
    /\ AddInode(dentry, attrs, r.p, r.n, r.target,
                [attrs[r.target] EXCEPT !.nlink = @ + 1])
    /\ Answer(t, "ok")
    /\ UNCHANGED <<nextId, fileHandles, hung, moving>>

\* Unlink: GetInode; a directory is EISDIR.  A symlink is left alone.  A
\* file with Nlink > 1 gets Nlink - 1 written back (CreateInodeAttrs); else
\* DeleteInode removes the entry and the attribute row.
Unlink(t) ==
    LET r  == req[t]
        id == Child(r.p, r.n)
    IN
    /\ Serves(t, "unlink")
    /\ CASE attrs[id].kind = "dir" ->
              Answer(t, "EISDIR") /\ UNCHANGED <<dentry, attrs>>
         [] attrs[id].kind = "link" ->
              Answer(t, "ok") /\ UNCHANGED <<dentry, attrs>>
         [] attrs[id].nlink > 1 ->
              /\ attrs' = [attrs EXCEPT ![id].nlink = @ - 1]
              /\ Answer(t, "ok")
              /\ UNCHANGED dentry
         [] OTHER ->
              DeleteInode(dentry, attrs, r.p, r.n, id) /\ Answer(t, "ok")
    /\ UNCHANGED <<nextId, fileHandles, hung, moving>>

\* RmDir (spec.md 4.H): ENOTEMPTY while the directory has children, else
\* the entry and the attribute row are removed.
RmDir(t) ==
    LET r  == req[t]
        id == Child(r.p, r.n)
    IN
    /\ Serves(t, "rmdir")
    /\ IF Children(id) # {}
       THEN Answer(t, "ENOTEMPTY") /\ UNCHANGED <<dentry, attrs>>
       ELSE DeleteInode(dentry, attrs, r.p, r.n, id) /\ Answer(t, "ok")
    /\ UNCHANGED <<nextId, fileHandles, hung, moving>>

\* Rename, lines 157-169: under fsHashLock(OldParent) GetInode(old) and
\* DeleteInode(inode, false), which removes the entry and the attribute
\* row, then Unlock(OldParent).  The goroutine keeps the inode it read.
\* The GetInode and DeleteInode errors cannot occur: the kernel has looked
\* the name up and holds both parent directories.
RenameDelete(t) ==
    LET r  == req[t]
        id == Child(r.p, r.n)
    IN
    /\ Serves(t, "rename")
    /\ DeleteInode(dentry, attrs, r.p, r.n, id)
    /\ moving' = [moving EXCEPT ![t] = [id |-> id, row |-> attrs[id]]]
    /\ UNCHANGED <<nextId, fileHandles, kfiles, inMap, req, hung, last>>

\* Rename, lines 175-188: Lock(NewParent), then AddInode(inode, true) of the
\* saved inode with the new parent and name (an entry already there is
\* overwritten).  The deferred fs.fsHashLock.Lock(op.NewParent) of line
\* 176 then blocks forever: no answer, and the kernel keeps both parent
\* directories locked.
RenameAdd(t) ==
    LET r == req[t]
        m == moving[t]
    IN
    /\ m # NoMove
    /\ AddInode(dentry, attrs, r.p2, r.n2, m.id, m.row)
    /\ moving' = [moving EXCEPT ![t] = NoMove]
    /\ hung' = [hung EXCEPT ![t] = {r.p, r.p2}]
    /\ UNCHANGED <<nextId, fileHandles, kfiles, inMap, req, last>>

\* OpenFile: read the attributes, reject a file with an empty hash (never
\* the case for a created file), build a data engine with monofile.New and
\* store it in fs.fileHandles under op.Handle.
OpenFile(t) ==
    LET r == req[t] IN
    /\ Serves(t, "open")
    /\ \E outcome \in EngineOutcomes :
         \/ /\ outcome = "ok"
            /\ fileHandles' = (OpHandle :> NewFsFile(r.ino))
                                 @@ fileHandles
            /\ BeginMapAccess(t, "write", "ok")
         \/ /\ outcome = "fail"
            /\ Answer(t, "EIO")
            /\ UNCHANGED fileHandles
    /\ UNCHANGED <<dentry, attrs, nextId, hung, moving>>

\* The handle id the kernel echoes for the file of request r.
Fh(r) == kfiles[r.f].fh

\* PickBlocks(offset, dataLen): "offset is bigger than data length" when
\* dataLen < offset, else the two blocks offset / 4096 and
\* (offset + dataLen) / 4096.  Offsets and lengths are in units of the
\* read size, taken as one 4096-byte block.
PickBlocks(offset, dataLen) ==
    IF dataLen < offset THEN [err |-> TRUE, blocks |-> {}]
    ELSE [err |-> FALSE, blocks |-> {offset, offset + dataLen}]

\* AllocateBlocks: PickBlocks' error, or a zeroed 4096-byte buffer for each
\* picked block, overwritten by the block kvs.Get finds.  Nothing ever
\* calls WriteBlock, so every Get is ErrItemNotFound and every buffer
\* stays zeroed.
AllocateBlocks(offset, dataLen) ==
    LET picked == PickBlocks(offset, dataLen) IN
    [err |-> picked.err, data |-> [b \in picked.blocks |-> "zeroed"]]

\* FsFile.ReadAt of one read size at offset off: AllocateBlocks' error (EIO
\* to the kernel), else the blocks are discarded and 0 bytes returned.
ReadAtResult(off) == IF AllocateBlocks(off, 1).err THEN "EIO" ELSE "ok"

\* ReadFile: look the handle up in fs.fileHandles (EINVAL if absent), then
\* FsFile.ReadAt.
ReadFile(t) ==
    LET r == req[t] IN
    /\ Serves(t, "read")
    /\ BeginMapAccess(t, "read",
          IF Fh(r) \notin DOMAIN fileHandles THEN "EINVAL" ELSE ReadAtResult(r.off))
    /\ UNCHANGED <<dentry, attrs, nextId, fileHandles, hung, moving>>

\* FsFile.WriteAt: the bytes are copied into the FsFile's in-memory buffer
\* file.data, extended as needed; nothing reaches the data engine.
WriteAt(fh, h) == [fh EXCEPT ![h].written = TRUE]

\* WriteFile: look the handle up (EINVAL if absent), then FsFile.WriteAt.
WriteFile(t) ==
    LET h == Fh(req[t]) IN
    /\ Serves(t, "write")
    /\ IF h \in DOMAIN fileHandles
       THEN /\ fileHandles' = WriteAt(fileHandles, h)
            /\ BeginMapAccess(t, "read", "ok")
       ELSE /\ BeginMapAccess(t, "read", "EINVAL")
            /\ UNCHANGED fileHandles
    /\ UNCHANGED <<dentry, attrs, nextId, hung, moving>>

\* FlushFile and SyncFile: look the handle up (EINVAL if absent), then
\* FsFile.Sync, which returns nil.
FlushFile(t) ==
    /\ Serves(t, "flush")
    /\ BeginMapAccess(t, "read", IF Fh(req[t]) \in DOMAIN fileHandles
                                  THEN "ok" ELSE "EINVAL")
    /\ UNCHANGED <<dentry, attrs, nextId, fileHandles, hung, moving>>

SyncFile(t) ==
    /\ Serves(t, "sync")
    /\ BeginMapAccess(t, "read", IF Fh(req[t]) \in DOMAIN fileHandles
                                  THEN "ok" ELSE "EINVAL")
    /\ UNCHANGED <<dentry, attrs, nextId, fileHandles, hung, moving>>

\* ReleaseFileHandle: delete(fs.fileHandles, op.Handle); returns nil.
ReleaseFileHandle(t) ==
    /\ Serves(t, "release")
    /\ fileHandles' = Restrict(fileHandles, DOMAIN fileHandles \ {Fh(req[t])})
    /\ BeginMapAccess(t, "write", "ok")
    /\ UNCHANGED <<dentry, attrs, nextId, hung, moving>>

\* The access to fs.fileHandles ends and the handler returns its errno.
EndMapAccess(t) ==
    /\ t \in InMap
    /\ Reply(t, inMap[t].err)
    /\ inMap' = [inMap EXCEPT ![t] = NoAccess]
    /\ UNCHANGED <<dentry, attrs, nextId, fileHandles, hung, moving>>

\* ReadSymlink: return the hash of a symlink inode.
ReadSymlink(t) ==
    /\ Serves(t, "readlink")
    /\ Answer(t, "ok")
    /\ UNCHANGED <<dentry, attrs, nextId, fileHandles, hung, moving>>

-----------------------------------------------------------------------------
Serve(t) ==
    \/ KernelRefuses(t)
    \/ MkDir(t) \/ CreateFile(t) \/ CreateSymlink(t) \/ CreateLink(t)
    \/ Unlink(t) \/ RmDir(t) \/ RenameDelete(t) \/ RenameAdd(t)
    \/ OpenFile(t) \/ ReadFile(t) \/ WriteFile(t) \/ FlushFile(t) \/ SyncFile(t)
    \/ ReleaseFileHandle(t) \/ EndMapAccess(t)
    \/ ReadSymlink(t)

Next == \E t \in Threads : Issue(t) \/ Serve(t)

Spec == Init /\ [][Next]_vars

-----------------------------------------------------------------------------
(* Properties                                                              *)

TypeOK ==
    /\ DOMAIN dentry \subseteq Ids \X Names /\ \A e \in DOMAIN dentry : dentry[e] \in Ids
    /\ DOMAIN attrs \subseteq Ids
    /\ \A id \in DOMAIN attrs : attrs[id] \in [kind : Kinds, nlink : Nat]
    /\ nextId \in RootID + 1 .. MaxInodes + 1
    /\ DOMAIN fileHandles \subseteq {OpHandle}
    /\ \A h \in DOMAIN fileHandles : fileHandles[h] \in [ino : Ids, written : BOOLEAN]
    /\ DOMAIN kfiles \subseteq Files
    /\ \A f \in DOMAIN kfiles : kfiles[f] \in [ino : Ids, fh : {OpHandle}]
    /\ inMap \in [Threads -> {NoAccess} \cup [kind : {"read", "write"}, err : Errnos]]
    /\ req \in [Threads -> Requests \cup {Idle}]
    /\ hung \in [Threads -> SUBSET Ids]
    /\ moving \in [Threads -> {NoMove} \cup [id : Ids, row : [kind : Kinds, nlink : Nat]]]

\* Every directory entry in a directory no handler holds names an inode
\* whose attribute row exists (spec.md 4.F invariant 1, whose exception is
\* a mutation in progress under that parent's lock).  spec.md 5 and 9 call
\* Rename's window, between the DeleteInode under the old parent's lock
\* and the AddInode under the new one, a bug: another name of the moved
\* inode, in a directory nobody holds, must not resolve to ENOENT.
DentriesResolve ==
    \A e \in DOMAIN dentry : e[1] \notin Blocked => dentry[e] \in DOMAIN attrs

\* The Nlink of a file or symlink counts the directory entries naming it
\* (spec.md 4.H: Link increments and Unlink decrements Nlink; the file is
\* gone when the last name goes): Unlink of one name of a hard-linked file
\* must remove that name.
NlinkCountsNames ==
    \A id \in DOMAIN attrs :
        attrs[id].kind # "dir" => attrs[id].nlink = Cardinality(Named(id))

\* Every open file's handle id names that file's FsFile (spec.md 3: a
\* handle points to exactly one inode and one data engine), unless its
\* release is in flight.  CreateFile and OpenFile store the FsFile under
\* op.Handle and ReleaseFileHandle deletes op.Handle, for every file.
HandlesResolve ==
    \A f \in DOMAIN kfiles :
        (\A t \in Threads : req[t] # [op |-> "release", f |-> f]) =>
            /\ kfiles[f].fh \in DOMAIN fileHandles
            /\ fileHandles[kfiles[f].fh].ino = kfiles[f].ino

\* No goroutine accesses fs.fileHandles while another writes it (spec.md
\* 4.H and 9: the handle table must be safe for concurrent open and
\* release).  The map has no lock; the Go runtime aborts the process when
\* it catches a concurrent map write.
HandleTableExclusive ==
    \A t, u \in Threads :
        t # u /\ inMap[t].kind = "write" => inMap[u] = NoAccess

=============================================================================
