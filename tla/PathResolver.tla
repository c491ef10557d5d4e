---------------------------- MODULE PathResolver ----------------------------
(***************************************************************************)
(* Path name resolution of fs/namev.c: lookup and dir_namev, and the part  *)
(* of open_namev that finds an existing file, as operators over a name     *)
(* space, beside the resolution the VFS specification and POSIX describe.  *)
(*                                                                         *)
(* A name space `ns` is a record with                                      *)
(*   kind[i]   "dir", "reg", "chr" (or "free") for each inode,             *)
(*   entry[d]  the directory d's names: entry[d][n] is an inode or NoIno,  *)
(*   dotdot[d] what d's ".." entry names,                                  *)
(*   cwd       curproc->p_cwd.                                             *)
(*                                                                         *)
(* A path is a record [lead, comps].  lead is "abs" (starts with "/"),     *)
(* "rel" (a relative path, "./" or none), "dotdot" (starts with "../"),    *)
(* or "bare" (the whole path is "." or ".."); comps are its components,    *)
(* in order, without empty ones.  A component is a name of Names, "." or   *)
(* "..", or DotName(n): a name made of a dot followed by n (".a").  The  *)
(* characters of names matter to dir_namev only through that leading dot. *)
(***************************************************************************)
EXTENDS Integers, Sequences, SequencesExt

CONSTANTS
    Root,      \* vfs_root_vn's inode
    Names,     \* the names directory entries can have
    NoIno      \* a NULL vnode_t*

DotName(n) == "." \o n
Undot(c) == CHOOSE n \in Names : DotName(n) = c
Comps == Names \cup {".", ".."} \cup {DotName(n) : n \in Names}

\* A lookup's result: ENOENT for a NULL vnode.
Found(i) == IF i = NoIno THEN [err |-> "ENOENT", ino |-> NoIno]
            ELSE [err |-> "ok", ino |-> i]

\* lookup(dir, name) of namev.c with the file system's lookup: ENOTDIR when
\* dir is not a directory, ENOENT when the name is absent.  On success the
\* caller holds one more reference on the result.
Lookup(ns, d, c) ==
    IF ns.kind[d] # "dir" THEN [err |-> "ENOTDIR", ino |-> NoIno]
    ELSE Found(CASE c = "."     -> d
                 [] c = ".."    -> ns.dotdot[d]
                 [] c \in Names -> ns.entry[d][c]
                 [] OTHER       -> NoIno)

\* The loop of dir_namev over the directory components: each is looked up
\* in the current directory, which it replaces; the first failure ends it.
RECURSIVE Walk(_, _, _), WalkOn(_, _, _)
Walk(ns, d, cs) ==
    IF cs = <<>> THEN [err |-> "ok", ino |-> d] ELSE WalkOn(ns, Lookup(ns, d, Head(cs)), cs)
WalkOn(ns, l, cs) == IF l.err # "ok" THEN l ELSE Walk(ns, l.ino, Tail(cs))

\* dir_namev's result once it has its start and components: the walk of all
\* components but the last, and the last as basename.
WalkFrom(ns, start, comps, leak) ==
    LET w == Walk(ns, start, Front(comps))
    IN  [err |-> w.err, dir |-> w.ino, name |-> Last(comps), leak |-> leak]

\* A relative path whose first component is a name beginning with a dot.
Dotted(p) == p.lead = "rel" /\ Head(p.comps) \in {DotName(n) : n \in Names}

Undefined == [err |-> "UB", dir |-> NoIno, name |-> ".", leak |-> NoIno]

\* Mutant: "../" resolved from cwd, as if it were "./".
DirNamevNoDotdot(ns, p) ==
    CASE p.lead = "bare" \/ (Dotted(p) /\ Len(p.comps) = 1) -> Undefined
      [] p.lead = "abs" -> WalkFrom(ns, Root, p.comps, NoIno)
      [] Dotted(p)      -> WalkFrom(ns, Root, <<Undot(Head(p.comps))>> \o Tail(p.comps), NoIno)
      [] OTHER          -> WalkFrom(ns, ns.cwd, p.comps, NoIno)

(***************************************************************************)
(* dir_namev(path): the parent directory of the last component, and that   *)
(* component.  A path that does not start with "/" or "." gets "./" put in *)
(* front.  "./" starts at cwd; "../" starts at lookup(cwd, ".."), whose    *)
(* reference is never put (`leak`); any other path starts at the root and  *)
(* is walked from its second character, so a first component ".n" is      *)
(* looked up as n in the root.  The basename is what follows the last "/"; *)
(* the directory part is walked; an empty one returns the start with a     *)
(* vref.  A bare "." or ".." makes strncpy's length (size_t)-1 and is      *)
(* undefined ("UB").  On "ok" the caller owes a vput on `dir`.             *)
(***************************************************************************)
DirNamev(ns, p) ==
    CASE p.lead = "bare" \/ (Dotted(p) /\ Len(p.comps) = 1) -> Undefined
      [] p.lead = "abs"    -> WalkFrom(ns, Root, p.comps, NoIno)
      [] p.lead = "dotdot" -> WalkFrom(ns, ns.dotdot[ns.cwd], p.comps, ns.dotdot[ns.cwd])
      [] Dotted(p)         -> WalkFrom(ns, Root, <<Undot(Head(p.comps))>> \o Tail(p.comps), NoIno)
      [] OTHER             -> WalkFrom(ns, ns.cwd, p.comps, NoIno)

-----------------------------------------------------------------------------
(* The resolution the VFS specification gives dir_namev: "/" starts at the *)
(* root, anything else at cwd, "../" is a first ".." component, and every  *)
(* component but the last is looked up in turn.                            *)
RefDirNamev(ns, p) ==
    WalkFrom(ns, IF p.lead = "abs" THEN Root ELSE ns.cwd,
             IF p.lead = "dotdot" THEN <<"..">> \o p.comps ELSE p.comps, NoIno)

\* Two resolutions agree: the same error, and on success the same parent
\* directory and basename.
SameResolution(c, r) == c.err = r.err /\ (c.err = "ok" => c.dir = r.dir /\ c.name = r.name)

AgreesOn(ns, p) == SameResolution(DirNamev(ns, p), RefDirNamev(ns, p))

=============================================================================
