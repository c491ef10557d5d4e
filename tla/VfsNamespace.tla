---------------------------- MODULE VfsNamespace ----------------------------
(***************************************************************************)
(* The name space system calls of fs/vfs_syscall.c (do_mknod, do_mkdir,    *)
(* do_rmdir, do_unlink, do_link, do_rename, do_chdir, do_stat) and        *)
(* do_open/do_close of fs/open.c and vfs_syscall.c for one process, over   *)
(* a ramfs-like file system, with path resolution from                     *)
(* PathResolver and the vnode reference counts every call takes and puts.  *)
(*                                                                         *)
(* Each call is one action: the calls of a process run one after another, *)
(* and nothing in them sleeps on a ramfs.  A call is written as a function *)
(* from the state record to the state record after it, so that do_rename  *)
(* can be do_link followed by do_unlink as in the code.  The file system's *)
(* vnode operations (ramfs, not in this tree) follow the VFS design: an    *)
(* inode lives while a directory entry names it or a vnode reference is    *)
(* held on it; a directory has one name; rmdir wants an empty directory;   *)
(* link refuses directories.                                               *)
(***************************************************************************)
EXTENDS PathResolver, FiniteSets

CONSTANTS
    Inodes,        \* the file system's inodes, Root included
    Paths,         \* paths callers pass to the one-path calls
    LinkPaths,     \* paths callers pass to do_link and do_rename
    Calls,         \* the system calls callers make
    FDs,           \* the descriptor slots of p_files
    OpenPaths,     \* paths callers pass to do_open
    OpenFlags,     \* oflags callers pass to do_open
    MAX_VREF       \* bound on a vnode reference count explored

ASSUME Root \in Inodes /\ NoIno \notin Inodes /\ MAX_VREF \in Nat
\* do_open's paths name no dot-names: the O_CREAT branch hands the basename
\* to create, whose names are Names.  A path with lead "dotslash" is a
\* relative path written with "./" in front, which only that branch tells
\* from one without.
ASSUME \A p \in OpenPaths : \A k \in DOMAIN p.comps : p.comps[k] \in Names \cup {".", ".."}

VARIABLES
    kind,      \* the inode's type; "free" before the file system hands it out
    entry,     \* each directory's entries
    dotdot,    \* each directory's ".." entry
    nlink,     \* the number of directory entries naming the inode
    vcount,    \* vn_refcount
    cwd,       \* curproc->p_cwd
    files,     \* files[fd]: f_vnode of curproc->p_files[fd], NoIno if empty
    ub,        \* a call did something whose outcome C leaves undefined
    oops       \* a call faulted in the kernel, which stops for good

vars == <<kind, entry, dotdot, nlink, vcount, cwd, files, ub, oops>>

St == [kind |-> kind, entry |-> entry, dotdot |-> dotdot, nlink |-> nlink,
       vcount |-> vcount, cwd |-> cwd, files |-> files, ub |-> ub,
       oops |-> oops]

SetSt(s) == /\ kind' = s.kind /\ entry' = s.entry /\ dotdot' = s.dotdot
            /\ nlink' = s.nlink /\ vcount' = s.vcount /\ cwd' = s.cwd
            /\ files' = s.files /\ ub' = s.ub /\ oops' = s.oops

-----------------------------------------------------------------------------
(* Reference counts: vref/vget and vput on the state record.               *)
Vref(s, i) == IF i = NoIno THEN s ELSE [s EXCEPT !.vcount[i] = @ + 1]
Vput(s, i) == IF i = NoIno THEN s ELSE [s EXCEPT !.vcount[i] = @ - 1]

\* Mutant: dir_namev returns its directory without taking a reference.
AfterDirNamevNoRef(s, r) == [Vref(s, r.leak) EXCEPT !.ub = @ \/ r.err = "UB"]

\* The references dir_namev leaves: its result on success, and the ".."
\* it looked up for a "../" path whatever happened.
AfterDirNamev(s, r) ==
    [Vref(Vref(s, r.leak), IF r.err = "ok" THEN r.dir ELSE NoIno)
        EXCEPT !.ub = @ \/ r.err = "UB"]

Live(s, i) == i = Root \/ s.nlink[i] > 0 \/ s.vcount[i] > 0
FreeInodes(s) == {i \in Inodes : ~Live(s, i)}

(* The ramfs vnode operations.  A new inode is the first free one.         *)
NewIno(s) == CHOOSE x \in FreeInodes(s) : TRUE

RamfsCreate(s, d, n, k) ==
    LET i == NewIno(s)
    IN  [s EXCEPT !.kind[i] = k, !.entry[i] = [x \in Names |-> NoIno],
                  !.dotdot[i] = IF k = "dir" THEN d ELSE NoIno,
                  !.entry[d][n] = i, !.nlink[i] = 1]

RamfsRmdir(s, d, n, i) ==
    IF \E x \in Names : s.entry[i][x] # NoIno THEN s          \* ENOTEMPTY
    ELSE [s EXCEPT !.entry[d][n] = NoIno, !.nlink[i] = @ - 1]

RamfsUnlink(s, d, n, i) == [s EXCEPT !.entry[d][n] = NoIno, !.nlink[i] = @ - 1]

RamfsLink(s, i, d, n) ==
    IF s.kind[i] = "dir" THEN s                                \* EPERM
    ELSE [s EXCEPT !.entry[d][n] = i, !.nlink[i] = @ + 1]

-----------------------------------------------------------------------------
(* Each call below is split where its C code holds an intermediate result *)
(* (dir_namev's `r`, a lookup's `l`, the state after a vput): the helper   *)
(* that continues the call takes that result as an argument.               *)

(* open_namev(path, 0): "." and ".." are looked up in cwd; otherwise       *)
(* dir_namev, then vput of its directory, then lookup of the basename in   *)
(* it.  When dir_namev fails, curr_dir is still vput and searched although *)
(* nothing set it (undefined).  The function ends without a return         *)
(* statement; callers see lookup's result, which is taken as its value.    *)
Opened(s, l) == [err |-> l.err, ino |-> l.ino, st |-> Vref(s, l.ino)]

OpenAt(s, r) ==
    IF r.err # "ok"
    THEN [err |-> "UB", ino |-> NoIno, st |-> [AfterDirNamev(s, r) EXCEPT !.ub = TRUE]]
    ELSE Opened(Vput(AfterDirNamev(s, r), r.dir), Lookup(s, r.dir, r.name))

OpenNamev(s, p) ==
    IF p.lead = "bare" THEN Opened(s, Lookup(s, s.cwd, p.comps[1]))
    ELSE OpenAt(s, DirNamev(s, p))

(* do_mkdir and do_mknod after dir_namev: lookup of the basename and vput  *)
(* of the parent: EEXIST (with the result put) or ENOTDIR; else the        *)
(* parent's mkdir or mknod, and a lookup of the new node whose reference   *)
(* is never put.                                                           *)
Created(s2, r, l, k) ==
    IF l.err # "ENOENT" \/ FreeInodes(s2) = {} THEN s2
    ELSE Vref(RamfsCreate(s2, r.dir, r.name, k), NewIno(s2))

CreateAt(s, r, k) ==
    IF r.err # "ok" THEN AfterDirNamev(s, r)
    ELSE Created(Vput(AfterDirNamev(s, r), r.dir), r, Lookup(s, r.dir, r.name), k)

(* do_mknod(path, S_IFCHR, devid).  `memset(name, 0, sizeof(name))` writes *)
(* through the uninitialised pointer name first.                           *)
MknodOp(s0, p) ==
    LET s == [s0 EXCEPT !.ub = TRUE] IN CreateAt(s, DirNamev(s, p), "chr")

(* do_mkdir(path).                                                         *)
MkdirOp(s, p) == CreateAt(s, DirNamev(s, p), "dir")

(* do_rmdir after the lookup of the basename in directory d and the vput   *)
(* of the parent: a directory is put and removed by d's rmdir; anything    *)
(* else is ENOTDIR.                                                        *)
RmdirLooked(s2, d, n, l) ==
    IF l.err # "ok" \/ s2.kind[l.ino] # "dir" THEN s2 ELSE RamfsRmdir(s2, d, n, l.ino)

\* Mutant: do_rmdir looks the basename up in cwd instead of its parent.
RmdirAtInCwd(s, r) ==
    IF r.err # "ok" \/ r.name \in {".", ".."} THEN AfterDirNamev(s, r)
    ELSE RmdirLooked(Vput(AfterDirNamev(s, r), r.dir), s.cwd, r.name, Lookup(s, s.cwd, r.name))

(* do_rmdir after dir_namev: "." is EINVAL and ".." ENOTEMPTY as basename, *)
(* returned without the vput of the parent; then lookup and vput of the    *)
(* parent.                                                                 *)
RmdirAt(s, r) ==
    IF r.err # "ok" \/ r.name \in {".", ".."} THEN AfterDirNamev(s, r)
    ELSE RmdirLooked(Vput(AfterDirNamev(s, r), r.dir), r.dir, r.name, Lookup(s, r.dir, r.name))

(* do_rmdir(path): a bare "." is EINVAL and ".." ENOTEMPTY.                *)
RmdirOp(s, p) == IF p.lead = "bare" THEN s ELSE RmdirAt(s, DirNamev(s, p))

(* do_unlink(path): dir_namev, lookup (on failure the parent is put), the  *)
(* parent's unlink for anything but a directory, which is EISDIR; both     *)
(* vnodes are put.                                                         *)
UnlinkLooked(s2, r, l) ==
    IF l.err # "ok" \/ s2.kind[l.ino] = "dir" THEN s2 ELSE RamfsUnlink(s2, r.dir, r.name, l.ino)

UnlinkAt(s, r) ==
    IF r.err # "ok" THEN AfterDirNamev(s, r)
    ELSE UnlinkLooked(Vput(AfterDirNamev(s, r), r.dir), r, Lookup(s, r.dir, r.name))

UnlinkOp(s, p) == UnlinkAt(s, DirNamev(s, p))

(* do_link(from, to): open_namev(from) (its errors returned), vput of it,  *)
(* dir_namev(to), and lookup of the basename: found is EEXIST with both    *)
(* put.  Otherwise the target directory is put and its link operation      *)
(* called with the source, both vnodes no longer referenced.  When the     *)
(* lookup failed because the target's parent is not a directory, that      *)
(* vnode has no link operation: the call goes through a NULL pointer and   *)
(* the kernel faults.                                                      *)
LinkLooked(s3, i, r, l) ==
    CASE l.err = "ok"             -> s3
      [] s3.kind[r.dir] # "dir"   -> [s3 EXCEPT !.oops = TRUE]
      [] OTHER                    -> RamfsLink(s3, i, r.dir, r.name)

LinkAt(s1, i, r) ==
    IF r.err # "ok" THEN AfterDirNamev(s1, r)
    ELSE LinkLooked(Vput(AfterDirNamev(s1, r), r.dir), i, r, Lookup(s1, r.dir, r.name))

LinkOpened(o, to) ==
    IF o.err # "ok" THEN o.st
    ELSE LinkAt(Vput(o.st, o.ino), o.ino, DirNamev(Vput(o.st, o.ino), to))

LinkOp(s, from, to) == LinkOpened(OpenNamev(s, from), to)

(* do_rename(old, new): do_link(old, new), its result ignored, then         *)
(* do_unlink(old), unless the link faulted.                                *)
RenameOp(s, o, n) == LET l == LinkOp(s, o, n) IN IF l.oops THEN l ELSE UnlinkOp(l, o)

(* do_chdir after the lookup l of the new directory (and the vput of its   *)
(* parent): a directory has the old cwd put and is installed with the      *)
(* lookup's reference; anything else is put and ENOTDIR.                   *)
\* Mutant: the looked-up vnode is put whatever its type, so the new cwd is
\* installed without a reference.
ChdirLookedNoRef(s2, l) ==
    IF l.err # "ok" \/ s2.kind[l.ino] # "dir" THEN s2
    ELSE [Vput(s2, s2.cwd) EXCEPT !.cwd = l.ino]

ChdirLooked(s2, l) ==
    IF l.err # "ok" \/ s2.kind[l.ino] # "dir" THEN s2
    ELSE [Vput(Vref(s2, l.ino), s2.cwd) EXCEPT !.cwd = l.ino]

ChdirAt(s, r) ==
    IF r.err # "ok" THEN AfterDirNamev(s, r)
    ELSE ChdirLooked(Vput(AfterDirNamev(s, r), r.dir), Lookup(s, r.dir, r.name))

(* do_chdir(path): "." changes nothing; ".." is lookup(cwd, "..") with the *)
(* old cwd put; otherwise dir_namev, lookup and vput of the parent.        *)
ChdirOp(s, p) ==
    CASE p.lead # "bare"    -> ChdirAt(s, DirNamev(s, p))
      [] p.comps[1] = "."   -> s
      [] OTHER              -> ChdirLooked(s, Lookup(s, s.cwd, ".."))

(* do_stat(path): open_namev, the vnode's stat, and vput.  (The kmalloc'd  *)
(* buffer it overwrites is memory, not modelled.)                          *)
StatOpened(o) == IF o.err # "ok" THEN o.st ELSE Vput(o.st, o.ino)

StatOp(s, p) == StatOpened(OpenNamev(s, p))

-----------------------------------------------------------------------------
(* do_open and do_close.  The flag test refuses oflags - 3 even and not    *)
(* negative (O_WRONLY|O_CREAT included); the first switch hands every      *)
(* O_CREAT combination to open_namev as O_CREAT alone.                     *)
O_RDONLY == 0   O_WRONLY == 1   O_RDWR == 2   O_CREAT == 256   O_APPEND == 1024

OflagsRejected(o) == o - 3 >= 0 /\ (o - 3) % 2 = 0

NamevFlag(o) ==
    IF o \in {a + O_CREAT : a \in {O_RDONLY, O_WRONLY, O_RDWR,
                                   O_WRONLY + O_APPEND, O_RDWR + O_APPEND}}
    THEN O_CREAT ELSE o

\* An open_namev result that reads or writes through an unset pointer.
Unset(s) == [err |-> "UB", ino |-> NoIno, st |-> [s EXCEPT !.ub = TRUE]]

(* open_namev(path, O_CREAT) once it has the parent d and the basename n:  *)
(* a d that is not a directory is ENOTDIR with *res_vnode = NULL; else     *)
(* d's create, no lookup of n first, then vref of *res_vnode.  The file    *)
(* system's create is for an absent name (the VFS design calls it after a  *)
(* lookup fails): an existing name, "." or "..", is outside it.  ENOSPC    *)
(* leaves *res_vnode unset and the vref reads it.  A new file holds        *)
(* create's reference and the vref's.                                      *)
CreatedAt(s, d, n) ==
    CASE s.kind[d] # "dir"  -> [err |-> "ENOTDIR", ino |-> NoIno, st |-> s]
      [] n \in {".", ".."} \/ s.entry[d][n] # NoIno \/ FreeInodes(s) = {}
                            -> Unset(s)
      [] OTHER              -> [err |-> "ok", ino |-> NewIno(s),
                                st |-> Vref(Vref(RamfsCreate(s, d, n, "reg"),
                                                 NewIno(s)), NewIno(s))]

(* After dir_namev: its errors return before *res_vnode is written, and    *)
(* do_open then tests and puts that unset pointer; on success the parent   *)
(* is put before it is used.                                               *)
CreatOpenAt(s, r) ==
    IF r.err # "ok" THEN Unset(AfterDirNamev(s, r))
    ELSE CreatedAt(Vput(AfterDirNamev(s, r), r.dir), r.dir, r.name)

(* open_namev(path, O_CREAT): a "./" path goes to create, and a "../" path *)
(* to lookup(cwd, "..", strlen(name)), with `name` never set.              *)
CreatOpenNamev(s, p) ==
    IF p.lead \in {"dotslash", "dotdot"} THEN Unset(s)
    ELSE CreatOpenAt(s, DirNamev(s, p))

(* do_open after open_namev's result o, the file installed at slot fd:     *)
(* on failure the slot is cleared and res_vnode put when not NULL (lookup  *)
(* sets it NULL; the other failures are undefined already); a directory    *)
(* opened with exactly O_WRONLY or O_RDWR is put, EISDIR; otherwise the    *)
(* file takes open_namev's reference.                                      *)
OpenedFd(o, fl, fd) ==
    CASE o.err # "ok"                                        -> o.st
      [] o.st.kind[o.ino] = "dir" /\ fl \in {O_WRONLY, O_RDWR} -> Vput(o.st, o.ino)
      [] OTHER                                  -> [o.st EXCEPT !.files[fd] = o.ino]

(* do_open(path, fl) when get_empty_fd finds the slot fd (the full table   *)
(* is FdTable's).                                                          *)
OpenOp(s, p, fl, fd) ==
    IF OflagsRejected(fl) THEN s
    ELSE OpenedFd(IF NamevFlag(fl) = O_CREAT THEN CreatOpenNamev(s, p)
                  ELSE OpenNamev(s, p), fl, fd)

(* do_close(fd) of an open slot: the slot cleared and fput of its file,    *)
(* whose only reference it is here (no dup), so the vnode is put.  An      *)
(* empty slot is EBADF.                                                    *)
CloseOp(s, fd) ==
    IF s.files[fd] = NoIno THEN s
    ELSE [Vput(s, s.files[fd]) EXCEPT !.files[fd] = NoIno]

-----------------------------------------------------------------------------
Init ==
    /\ kind = [i \in Inodes |-> IF i = Root THEN "dir" ELSE "free"]
    /\ entry = [i \in Inodes |-> [n \in Names |-> NoIno]]
    /\ dotdot = [i \in Inodes |-> IF i = Root THEN Root ELSE NoIno]
    /\ nlink = [i \in Inodes |-> 0]
    \* vfs_root_vn's reference, and the process's cwd.
    /\ vcount = [i \in Inodes |-> IF i = Root THEN 2 ELSE 0]
    /\ cwd = Root
    /\ files = [fd \in FDs |-> NoIno]
    /\ ub = FALSE
    /\ oops = FALSE

\* One whole call c, leading to the state record s2; after a fault no
\* call runs again.
Do(c, s2) ==
    /\ c \in Calls
    /\ ~oops
    /\ \A i \in Inodes : s2.vcount[i] <= MAX_VREF
    /\ SetSt(s2)

MknodCall(p)      == Do("mknod", MknodOp(St, p))
MkdirCall(p)      == Do("mkdir", MkdirOp(St, p))
RmdirCall(p)      == Do("rmdir", RmdirOp(St, p))
UnlinkCall(p)     == Do("unlink", UnlinkOp(St, p))
ChdirCall(p)      == Do("chdir", ChdirOp(St, p))
StatCall(p)       == Do("stat", StatOp(St, p))
LinkCall(o, n)    == Do("link", LinkOp(St, o, n))
RenameCall(o, n)  == Do("rename", RenameOp(St, o, n))
CloseCall(fd)     == Do("close", CloseOp(St, fd))

\* get_empty_fd: the lowest empty slot.
EmptyFds == {fd \in FDs : files[fd] = NoIno}
OpenCall(p, fl)   == EmptyFds # {} /\ Do("open", OpenOp(St, p, fl, Min(EmptyFds)))

Next ==
    \/ \E p \in Paths : \/ StatCall(p) \/ MknodCall(p) \/ MkdirCall(p)
                        \/ RmdirCall(p) \/ UnlinkCall(p) \/ ChdirCall(p)
    \/ \E o, n \in LinkPaths : LinkCall(o, n) \/ RenameCall(o, n)
    \/ \E p \in OpenPaths, fl \in OpenFlags : OpenCall(p, fl)
    \/ \E fd \in FDs : CloseCall(fd)

Spec == Init /\ [][Next]_vars

-----------------------------------------------------------------------------
(* Properties.                                                             *)

TypeOK ==
    /\ kind \in [Inodes -> {"free", "dir", "reg", "chr"}]
    /\ entry \in [Inodes -> [Names -> Inodes \cup {NoIno}]]
    /\ dotdot \in [Inodes -> Inodes \cup {NoIno}]
    /\ nlink \in [Inodes -> Nat]
    /\ vcount \in [Inodes -> 0 .. MAX_VREF]
    /\ cwd \in Inodes
    /\ files \in [FDs -> Inodes \cup {NoIno}]
    /\ ub \in BOOLEAN
    /\ oops \in BOOLEAN

\* dir_namev finds, for every path a caller may pass and in every name
\* space the calls can build, the parent directory and basename the VFS
\* specification's resolution finds, and fails with the same error.
ResolveAgrees ==
    \A p \in Paths : p.lead # "bare" => AgreesOn(St, p)

\* The references the root, the cwd and the open files hold are never
\* given back while they are held: whatever the calls do with lookups,
\* dir_namev, chdir, open and close, each vnode keeps at least
\* vfs_root_vn's reference, the cwd's, and one for each descriptor naming it.
OpenCount(i) == Cardinality({fd \in FDs : files[fd] = i})

VnodeHeld ==
    \A i \in Inodes :
        vcount[i] >= (IF i = Root THEN 1 ELSE 0) + (IF i = cwd THEN 1 ELSE 0)
                     + OpenCount(i)

RestoredBy(s1, p) == s1.entry # entry => RmdirOp(s1, p).entry = entry

\* The specification's law: mkdir(p) then rmdir(p) is an identity on the
\* name space, in every reachable state and for every path, so both
\* calls resolve p to the same entry.
MkdirRmdirIdentity ==
    \A p \in Paths : RestoredBy(MkdirOp(St, p), p)

\* The file a rename's old name names.
FileOf(o) == IF o.err = "ok" THEN o.ino ELSE NoIno
FileAt(s, p) == FileOf(OpenNamev(s, p))

KeptBy(f, o, n) ==
    (St' = RenameOp(St, o, n) /\ f # NoIno /\ f # FileAt(St, n)) => nlink'[f] > 0

\* do_rename(old, new) never leaves the file old named without any name
\* (unless new already named that same file).
RenameKeepsFile ==
    [][\A o, n \in LinkPaths : KeptBy(FileAt(St, o), o, n)]_vars

=============================================================================
