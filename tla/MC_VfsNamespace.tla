--------------------------- MODULE MC_VfsNamespace ---------------------------
(* Instances of VfsNamespace for TLC: a root and two more inodes, entry  *)
(* names a and b, and every path of one or two components built from them *)
(* and "..", and two descriptor slots for open and close.                 *)
EXTENDS VfsNamespace

MC_Inodes == {"r", "i1", "i2"}
MC_Names == {"a", "b"}
MC_CompSeqs ==
    LET C == {"a", "b", ".."}
    IN  {<<x>> : x \in C} \cup {<<x, y>> : x \in C, y \in C}
MC_Bare == {[lead |-> "bare", comps |-> <<c>>] : c \in {".", ".."}}
MC_Paths ==
    {[lead |-> l, comps |-> c] : l \in {"abs", "rel", "dotdot"}, c \in MC_CompSeqs}
        \cup MC_Bare
MC_LinkPaths ==
    {[lead |-> "abs", comps |-> c] : c \in {<<"a">>, <<"b">>, <<"a", "b">>}}
\* do_open's paths: one and two components, a "./" and a "../" path, and ".".
MC_OpenPaths ==
    {[lead |-> "abs", comps |-> c] : c \in {<<"a">>, <<"b">>, <<"a", "b">>}}
        \cup {[lead |-> l, comps |-> <<"a">>] : l \in {"rel", "dotslash", "dotdot"}}
        \cup {[lead |-> "bare", comps |-> <<".">>]}
\* O_RDONLY, O_WRONLY (EISDIR on a directory), and O_RDONLY|O_CREAT and
\* O_RDWR|O_CREAT, the O_CREAT combinations the flag test lets through.
MC_OpenFlags == {0, 1, 256, 258}
MC_FDs == 0 .. 1
MC_Calls == {"mknod", "mkdir", "rmdir", "unlink", "chdir", "stat", "link", "rename",
             "open", "close"}
MC_CallsCreate == {"mkdir", "chdir"}
\* The rename run: two names in the root, no path through a missing
\* directory (whose open_namev is undefined).
MC_NamesRoot == {[lead |-> "abs", comps |-> <<n>>] : n \in MC_Names}
\* Files made by open with O_CREAT (mknod of a regular file is undefined).
MC_CallsRename == {"open", "rename"}
=============================================================================
