------------------------------ MODULE FdTable ------------------------------
(***************************************************************************)
(* The file descriptor layer of one Weenix process: fs/open.c (get_empty_fd,*)
(* do_open) and the descriptor system calls of fs/vfs_syscall.c (do_read,  *)
(* do_write, do_close, do_dup, do_dup2, do_getdent, do_lseek), over the    *)
(* process's p_files table, a slab of file_t objects and the reference     *)
(* counts of the vnodes they hold.                                         *)
(*                                                                         *)
(* A process has one thread and p_files is never shared (proc_create does *)
(* not copy it), so the calls of one process are a sequence: each action   *)
(* is one whole call.  Path resolution (open_namev) is an oracle here that *)
(* returns a vnode with one new reference, or fails; PathResolver models   *)
(* it.  Vnode operations are those of a ramfs-like file system: read       *)
(* returns what lies before the end, write extends the file, readdir       *)
(* returns one entry per call until the directory's entries are used up.   *)
(***************************************************************************)
EXTENDS Integers, FiniteSets, FiniteSetsExt, Bitwise

CONSTANTS
    NFILES,        \* size of p_files
    FileIds,       \* the file_t slab: objects that can be allocated
    Vnodes,        \* vnodes open_namev can return
    DirVnodes,     \* those that are directories
    BASE_REFS,     \* references held on each vnode outside this process
    MAX_LEN,       \* bound on file lengths and positions explored
    MAX_REFS,      \* bound on a file's reference count explored
    DIR_ENTRIES,   \* entries readdir returns for a directory
    OFlags,        \* oflags values callers pass to do_open
    FdArgs,        \* fd values callers pass
    Calls,         \* the system calls callers make
    OpenCanFail    \* may open_namev fail (a missing path component)?

ASSUME /\ NFILES \in Nat \ {0} /\ DirVnodes \subseteq Vnodes
       /\ BASE_REFS \in Nat /\ MAX_LEN \in Nat /\ MAX_REFS \in Nat /\ DIR_ENTRIES \in Nat
       /\ OFlags \subseteq Nat /\ FdArgs \subseteq Int /\ OpenCanFail \in BOOLEAN

\* fcntl.h, stat/file.h and lseek's whence values.
O_RDONLY == 0   O_WRONLY == 1   O_RDWR == 2
O_CREAT == 256  O_TRUNC == 512  O_APPEND == 1024
FMODE_READ == 1  FMODE_WRITE == 2  FMODE_APPEND == 4
SEEK_SET == 0  SEEK_CUR == 1  SEEK_END == 2

NoFile   == 0          \* a NULL p_files slot (FileIds are positive)
NoVnode  == "null"     \* a NULL vnode_t*
Fds      == 0 .. NFILES - 1
NBYTES   == 1          \* bytes each read or write asks for

VARIABLES
    fdt,      \* curproc->p_files
    fref,     \* f_refcount of each file_t (0: free in the slab)
    fmode,    \* f_mode
    fpos,     \* f_pos
    fvnode,   \* f_vnode
    vcount,   \* vn_refcount
    vlen,     \* vn_len
    oob       \* p_files was indexed outside 0 .. NFILES-1

vars == <<fdt, fref, fmode, fpos, fvnode, vcount, vlen, oob>>

-----------------------------------------------------------------------------
(* file_t reference counting of fs/file.c: fget(-1) hands out a zeroed     *)
(* file with one reference; fput drops one and, at zero, puts the vnode.   *)

Slots(f) == {fd \in Fds : fdt[fd] = f}

FreeFiles == {f \in FileIds : fref[f] = 0}

\* Mutant: the last fput frees the file without putting its vnode.
FputNoVput(fr, vc, f) == [fr |-> [fr EXCEPT ![f] = @ - 1], vc |-> vc]

\* fput(f) on the reference counts fr and vc: the pair after the call.
Fput(fr, vc, f) ==
    [fr |-> [fr EXCEPT ![f] = @ - 1],
     vc |-> IF fr[f] = 1 /\ fvnode[f] # NoVnode
            THEN [vc EXCEPT ![fvnode[f]] = @ - 1] ELSE vc]

\* get_empty_fd: the lowest free slot, or -EMFILE.
GetEmptyFd ==
    IF \E fd \in Fds : fdt[fd] = NoFile
    THEN Min({fd \in Fds : fdt[fd] = NoFile})
    ELSE -24

\* The oflags test at the top of do_open: it rejects oflags - 3 when even
\* and not negative.
OflagsRejected(o) == o - 3 >= 0 /\ (o - 3) % 2 = 0

\* do_open's second switch: the f_mode a successful open gives the file.
CodeMode(o) ==
    CASE o \in {O_RDONLY, O_RDONLY + O_CREAT}                    -> FMODE_READ
      [] o \in {O_WRONLY, O_WRONLY + O_CREAT}                    -> FMODE_WRITE
      [] o \in {O_WRONLY + O_APPEND, O_WRONLY + O_APPEND + O_CREAT}
                                                   -> FMODE_WRITE + FMODE_APPEND
      [] o \in {O_RDWR, O_RDWR + O_CREAT}           -> FMODE_READ + FMODE_WRITE
      [] o \in {O_RDWR + O_APPEND, O_RDWR + O_APPEND + O_CREAT}
                                     -> FMODE_READ + FMODE_WRITE + FMODE_APPEND
      [] OTHER                                                   -> 0

\* The checks every descriptor call starts with: fd < 0 and fd > NFILES are
\* EBADF, then p_files[fd] must be non-NULL.  fd = NFILES passes the bound
\* and reads past the end of p_files: what follows is undefined, so the
\* call is recorded as out of bounds and has no other modelled effect.
WithFd(fd, Body) ==
    IF fd < 0 \/ fd > NFILES THEN UNCHANGED vars
    ELSE IF fd = NFILES THEN /\ oob' = TRUE
                             /\ UNCHANGED <<fdt, fref, fmode, fpos, fvnode, vcount, vlen>>
    ELSE IF fdt[fd] = NoFile THEN UNCHANGED vars
    ELSE Body

-----------------------------------------------------------------------------
(* do_open(filename, oflags).  The oflags test returns (a positive) EINVAL.*)
(* fget(-1) allocates the file; fget(new_fd) of the empty slot is NULL, so *)
(* the fresh file is installed at get_empty_fd's result, -EMFILE included. *)
(* Then open_namev: on failure the slot is cleared and do_open vputs its   *)
(* uninitialised res_vnode when that is not NULL; a directory opened with  *)
(* exactly O_WRONLY or O_RDWR is EISDIR after the slot is cleared and the  *)
(* vnode put.  Neither error path fputs the file.  `r` is open_namev's     *)
(* vnode, NoVnode when it fails.                                           *)
OpenCall(o, r) ==
    /\ "open" \in Calls
    /\ FreeFiles # {}                 \* the file slab is not exhausted
    /\ IF OflagsRejected(o)
       THEN UNCHANGED vars
       ELSE LET f  == Min(FreeFiles)
                fd == GetEmptyFd
            IN  /\ oob' = (oob \/ fd < 0)
                /\ fref' = [fref EXCEPT ![f] = 1]
                /\ fpos' = [fpos EXCEPT ![f] = 0]
                /\ UNCHANGED vlen
                /\ IF r = NoVnode
                   THEN /\ fmode' = [fmode EXCEPT ![f] = 0]
                        /\ fvnode' = [fvnode EXCEPT ![f] = NoVnode]
                        /\ UNCHANGED fdt
                        /\ \E g \in {NoVnode} \cup Vnodes :
                              vcount' = IF g = NoVnode THEN vcount
                                        ELSE [vcount EXCEPT ![g] = @ - 1]
                   ELSE IF r \in DirVnodes /\ o \in {O_WRONLY, O_RDWR}
                   THEN /\ fmode' = [fmode EXCEPT ![f] = 0]
                        /\ fvnode' = [fvnode EXCEPT ![f] = NoVnode]
                        /\ UNCHANGED <<fdt, vcount>>
                   ELSE /\ fdt' = IF fd >= 0 THEN [fdt EXCEPT ![fd] = f] ELSE fdt
                        /\ fmode' = [fmode EXCEPT ![f] = CodeMode(o)]
                        /\ fvnode' = [fvnode EXCEPT ![f] = r]
                        /\ vcount' = [vcount EXCEPT ![r] = @ + 1]


\* fget(fd) taken and never put: the error returns of do_read and do_write.
Leak(f) ==
    /\ fref[f] < MAX_REFS
    /\ fref' = [fref EXCEPT ![f] = @ + 1]
    /\ UNCHANGED <<fdt, fmode, fpos, fvnode, vcount, vlen, oob>>

(* do_close(fd): clear the slot and fput the file.                        *)
CloseCall(fd) ==
    /\ "close" \in Calls
    /\ WithFd(fd, LET f == fdt[fd]
                      c == Fput(fref, vcount, f)
                  IN  /\ fdt' = [fdt EXCEPT ![fd] = NoFile]
                      /\ fref' = c.fr
                      /\ vcount' = c.vc
                      /\ UNCHANGED <<fmode, fpos, fvnode, vlen, oob>>)

(* do_read(fd, buf, NBYTES).  After fget, a directory is EISDIR and an     *)
(* f_mode of 2, 4 or 6 is EBADF, both returned without the fput.  The      *)
(* vnode's read returns the bytes before vn_len; f_pos advances by them.   *)
ReadCall(fd) ==
    /\ "read" \in Calls
    /\ WithFd(fd, LET f == fdt[fd]
                      v == fvnode[f]
                      count == IF fpos[f] < vlen[v]
                               THEN Min({NBYTES, vlen[v] - fpos[f]}) ELSE 0
                  IN  IF v \in DirVnodes \/ fmode[f] \in {2, 4, 6}
                      THEN Leak(f)
                      ELSE /\ fpos' = [fpos EXCEPT ![f] = fpos[f] + count]
                           /\ UNCHANGED <<fdt, fref, fmode, fvnode, vcount, vlen, oob>>)

(* do_write(fd, buf, NBYTES).  A directory is EISDIR and f_mode exactly    *)
(* FMODE_READ is EBADF, both without the fput.  With FMODE_APPEND set,     *)
(* do_lseek(fd, 0, SEEK_END) first moves f_pos to vn_len.  The vnode's     *)
(* write extends the file; f_pos becomes offset + NBYTES.                  *)
WriteCall(fd) ==
    /\ "write" \in Calls
    /\ WithFd(fd, LET f == fdt[fd]
                      v == fvnode[f]
                      off == IF (fmode[f] & FMODE_APPEND) # 0 THEN vlen[v] ELSE fpos[f]
                  IN  IF v \in DirVnodes \/ fmode[f] = FMODE_READ
                      THEN Leak(f)
                      ELSE /\ off + NBYTES <= MAX_LEN
                           /\ fpos' = [fpos EXCEPT ![f] = off + NBYTES]
                           /\ vlen' = [vlen EXCEPT ![v] = Max({@, off + NBYTES})]
                           /\ UNCHANGED <<fdt, fref, fmode, fvnode, vcount, oob>>)

(* do_dup(fd): fget(fd), then get_empty_fd.  Its `new_fd > NFILES` test    *)
(* never sees -EMFILE, so a full table writes p_files[-EMFILE].            *)
DupCall(fd) ==
    /\ "dup" \in Calls
    /\ WithFd(fd, LET f == fdt[fd]
                      nfd == GetEmptyFd
                  IN  /\ fref[f] < MAX_REFS
                      /\ fref' = [fref EXCEPT ![f] = @ + 1]
                      /\ fdt' = IF nfd >= 0 THEN [fdt EXCEPT ![nfd] = f] ELSE fdt
                      /\ oob' = (oob \/ nfd < 0)
                      /\ UNCHANGED <<fmode, fpos, fvnode, vcount, vlen>>)

\* Mutant: do_dup2 installs the file without its fref.
Dup2CallNoRef(ofd, nfd) ==
    /\ "dup2" \in Calls
    /\ ofd \in Fds /\ nfd \in Fds /\ fdt[ofd] # NoFile
    /\ LET c == IF fdt[nfd] # NoFile /\ nfd # ofd
                THEN Fput(fref, vcount, fdt[nfd]) ELSE [fr |-> fref, vc |-> vcount]
       IN  /\ fdt' = [fdt EXCEPT ![nfd] = fdt[ofd]]
           /\ fref' = c.fr /\ vcount' = c.vc
           /\ UNCHANGED <<fmode, fpos, fvnode, vlen, oob>>

(* do_dup2(ofd, nfd).  Both are range checked (with the same `> NFILES`),  *)
(* an empty ofd returns (a positive) EBADF, an open nfd other than ofd is  *)
(* do_close'd, then p_files[nfd] = p_files[ofd] and fref: also when        *)
(* ofd = nfd.                                                              *)
Dup2Call(ofd, nfd) ==
    /\ "dup2" \in Calls
    /\ IF ofd < 0 \/ ofd > NFILES \/ nfd < 0 \/ nfd > NFILES THEN UNCHANGED vars
       ELSE IF ofd = NFILES \/ nfd = NFILES
       THEN /\ oob' = TRUE
            /\ UNCHANGED <<fdt, fref, fmode, fpos, fvnode, vcount, vlen>>
       ELSE IF fdt[ofd] = NoFile THEN UNCHANGED vars
       ELSE LET f == fdt[ofd]
                c == IF fdt[nfd] # NoFile /\ nfd # ofd
                     THEN Fput(fref, vcount, fdt[nfd])
                     ELSE [fr |-> fref, vc |-> vcount]
            IN  /\ c.fr[f] < MAX_REFS
                /\ fdt' = [fdt EXCEPT ![nfd] = f]
                /\ fref' = [c.fr EXCEPT ![f] = @ + 1]
                /\ vcount' = c.vc
                /\ UNCHANGED <<fmode, fpos, fvnode, vlen, oob>>

(* do_getdent(fd, dirp): fget and fput at once; ENOTDIR for a file that is *)
(* not a directory; otherwise readdir at f_pos, which returns one entry's  *)
(* worth of offset until the entries run out, and f_pos advances by it.    *)
GetdentCall(fd) ==
    /\ "getdent" \in Calls
    /\ WithFd(fd, LET f == fdt[fd]
                      v == fvnode[f]
                  IN  IF v \notin DirVnodes THEN UNCHANGED vars
                      ELSE /\ fpos' = [fpos EXCEPT ![f] = @ + (IF @ < vlen[v] THEN 1 ELSE 0)]
                           /\ UNCHANGED <<fdt, fref, fmode, fvnode, vcount, vlen, oob>>)

\* Mutant: a negative result is stored instead of restoring the old f_pos.
LseekCallNoRestore(fd, off, whence) ==
    /\ "lseek" \in Calls
    /\ WithFd(fd, LET f == fdt[fd]
                      new == CASE whence = SEEK_SET -> off
                               [] whence = SEEK_CUR -> fpos[f] + off
                               [] whence = SEEK_END -> off + vlen[fvnode[f]]
                  IN  /\ new <= MAX_LEN
                      /\ fpos' = [fpos EXCEPT ![f] = new]
                      /\ UNCHANGED <<fdt, fref, fmode, fvnode, vcount, vlen, oob>>)

(* do_lseek(fd, offset, whence): fget and fput at once, then the new       *)
(* f_pos by whence; a negative result restores the old one (EINVAL).  Any *)
(* other whence takes the switch's default, -EINVAL with f_pos untouched,  *)
(* a stutter; Next offers only the three named ones.                       *)
LseekCall(fd, off, whence) ==
    /\ "lseek" \in Calls
    /\ WithFd(fd, LET f == fdt[fd]
                      new == CASE whence = SEEK_SET -> off
                               [] whence = SEEK_CUR -> fpos[f] + off
                               [] whence = SEEK_END -> off + vlen[fvnode[f]]
                  IN  IF new < 0 THEN UNCHANGED vars
                      ELSE /\ new <= MAX_LEN
                           /\ fpos' = [fpos EXCEPT ![f] = new]
                           /\ UNCHANGED <<fdt, fref, fmode, fvnode, vcount, vlen, oob>>)

-----------------------------------------------------------------------------
SeekOffsets == -1 .. 1
OpenResults == Vnodes \cup (IF OpenCanFail THEN {NoVnode} ELSE {})

Init ==
    /\ fdt = [fd \in Fds |-> NoFile]
    /\ fref = [f \in FileIds |-> 0]
    /\ fmode = [f \in FileIds |-> 0]
    /\ fpos = [f \in FileIds |-> 0]
    /\ fvnode = [f \in FileIds |-> NoVnode]
    /\ vcount = [v \in Vnodes |-> BASE_REFS]
    /\ vlen = [v \in Vnodes |-> IF v \in DirVnodes THEN DIR_ENTRIES ELSE 0]
    /\ oob = FALSE

Next ==
    \/ \E o \in OFlags, r \in OpenResults : OpenCall(o, r)
    \/ \E fd \in FdArgs : \/ CloseCall(fd) \/ ReadCall(fd) \/ WriteCall(fd)
                          \/ DupCall(fd) \/ GetdentCall(fd)
    \/ \E fd \in FdArgs, off \in SeekOffsets, w \in {SEEK_SET, SEEK_CUR, SEEK_END} :
          LseekCall(fd, off, w)
    \/ \E ofd, nfd \in FdArgs : Dup2Call(ofd, nfd)

Spec == Init /\ [][Next]_vars

-----------------------------------------------------------------------------
(* Properties.                                                             *)

TypeOK ==
    /\ fdt \in [Fds -> {NoFile} \cup FileIds]
    /\ fref \in [FileIds -> 0 .. MAX_REFS]
    /\ fmode \in [FileIds -> 0 .. 7]
    /\ fpos \in [FileIds -> 0 .. MAX_LEN]
    /\ fvnode \in [FileIds -> {NoVnode} \cup Vnodes]
    /\ vcount \in [Vnodes -> Int]
    /\ vlen \in [Vnodes -> 0 .. MAX_LEN]
    /\ oob \in BOOLEAN

\* Through every sequence of open, close, dup, dup2 and the calls that fget
\* and fput, no descriptor names a freed or unfilled file: a file has at
\* least as many references as table slots pointing to it, and a file in
\* the table has its vnode.  Breaking it takes a missing fref or an extra
\* fput on one path, noticed only when another slot still uses the file.
NoDanglingFd ==
    \A f \in FileIds :
        Slots(f) # {} => /\ Cardinality(Slots(f)) <= fref[f]
                         /\ fvnode[f] # NoVnode

\* Every vnode reference open_namev hands to do_open is held by exactly one
\* live file and returned by the fput that frees it: vn_refcount is the
\* outside references plus the live files on the vnode.  The EISDIR path of
\* do_open, the close inside dup2 and the last fput all take part.
VnodeRefsExact ==
    \A v \in Vnodes :
        vcount[v] = BASE_REFS + Cardinality({f \in FileIds : fref[f] > 0 /\ fvnode[f] = v})

\* The descriptor-table invariant of the VFS design: a file's f_refcount is
\* the number of p_files slots that point to it, so a file no slot names is
\* freed.  The error returns of do_open, do_read and do_write, and do_dup2
\* with ofd = nfd, all leave a reference no slot accounts for.
FileRefsExact ==
    \A f \in FileIds : fref[f] = Cardinality(Slots(f))

\* p_files is only ever indexed inside 0 .. NFILES-1: by do_open and do_dup
\* on a full table (-EMFILE) and by every call given fd = NFILES.
NoOutOfBounds == ~oob

=============================================================================
