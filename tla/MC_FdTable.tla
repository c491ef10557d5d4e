----------------------------- MODULE MC_FdTable -----------------------------
(* Instances of FdTable for TLC: two descriptors, three file objects, one  *)
(* directory and one regular vnode.                                        *)
EXTENDS FdTable

MC_FileIds == 1 .. 3
MC_Vnodes == {"dir", "reg"}
MC_DirVnodes == {"dir"}
\* Every access mode, O_RDONLY|O_APPEND (accepted, f_mode 0) and
\* O_WRONLY|O_APPEND (rejected by the oflags test).
MC_OFlags == {O_RDONLY, O_WRONLY, O_RDWR, O_RDONLY + O_APPEND,
              O_WRONLY + O_APPEND}
\* Bad descriptors on both sides of the table, NFILES included.
MC_FdArgs == -1 .. 2
MC_Calls == {"open", "close", "read", "write", "dup", "dup2", "getdent", "lseek"}
\* Narrower callers for the runs that look at one path each.
MC_OFlagsWrite == {O_WRONLY}
MC_OFlagsRead == {O_RDONLY}
MC_FileIdsOne == {1}
MC_VnodesDir == {"dir"}
MC_VnodesReg == {"reg"}
MC_DirVnodesNone == {}
MC_FdArgsIn == 0 .. 1
MC_FdArgsZero == {0}
MC_CallsOpen == {"open"}
MC_CallsOpenClose == {"open", "close"}
MC_CallsOpenRead == {"open", "read"}
MC_CallsOpenDup == {"open", "dup"}
MC_CallsOpenDup2 == {"open", "dup2"}
=============================================================================
