--------------------------- MODULE MC_ProcSched ---------------------------
(* Model-checking instance of ProcSched: one mutex, one exit status, the 0 *)
(* that init and the kernel shell pass to do_exit, and a pid pool of four *)
(* (idle, init, a child and a grandchild, so reparenting happens), of three*)
(* for the runs that need only init and one child, or of five (a great-    *)
(* grandchild, so that a dead process is reparented to a sleeping init).   *)
EXTENDS ProcSched

MC_PROC_MAX_COUNT       == 4
MC_PROC_MAX_COUNT_SMALL == 3
MC_PROC_MAX_COUNT_LARGE == 5
MC_Mutexes              == {1}
MC_NoMutexes            == {}
MC_ExitStatus           == {0}
====
