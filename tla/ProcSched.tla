----------------------------- MODULE ProcSched -----------------------------
(***************************************************************************)
(* The Weenix kernel core on one CPU: the run queue and wait queues of     *)
(* proc/sched.c, the sleeping mutex of proc/kmutex.c, thread cancel and    *)
(* exit of proc/kthread.c, and the process lifecycle of proc/proc.c (pid   *)
(* allocation, proc_create, proc_cleanup, proc_kill, do_waitpid, do_exit), *)
(* driven by the idle process of main/kmain.c.                             *)
(*                                                                         *)
(* Weenix runs one thread per process (no MTP), so a thread is named by    *)
(* the pid of its process.  Scheduling is cooperative: only the current   *)
(* thread takes steps, and each step below is the whole of a kernel call   *)
(* up to the point where it calls sched_switch.  A sched_switch in         *)
(* progress is the flag `switching`; Dispatch completes it.                *)
(*                                                                         *)
(* Machine contexts are modelled by whose continuation each kt_ctx holds:  *)
(* ctx[x] = y means thread x's kt_ctx holds the saved continuation of y;   *)
(* `cpu` is the continuation the CPU is executing, `curthr` the global.   *)
(***************************************************************************)
EXTENDS Integers, SequencesExt, FiniteSets

CONSTANTS
    PROC_MAX_COUNT,   \* size of the pid pool (pids 0 .. PROC_MAX_COUNT-1)
    Mutexes,          \* kmutex_t objects used by kernel code (small ints)
    ExitStatus,       \* statuses threads pass to do_exit
    Cancellation,     \* do callers proc_kill processes other than their own?
    InitWaitsAll      \* does init reap every child before it exits?

ASSUME /\ PROC_MAX_COUNT \in Nat /\ PROC_MAX_COUNT >= 3
       /\ Mutexes \subseteq Nat /\ ExitStatus \subseteq Int
       /\ Cancellation \in BOOLEAN /\ InitWaitsAll \in BOOLEAN

Pids      == 0 .. PROC_MAX_COUNT - 1
PID_IDLE  == 0
PID_INIT  == 1
NoProc    == -1     \* a NULL proc_t* / kthread_t*
NoCtx     == -1     \* a kt_ctx that holds no live continuation

\* Queue identities: the run queue, one device wait queue (a driver's queue
\* woken from interrupt context), each mutex's km_waitq, each p_wait.
RunQ      == <<"runq", 0>>
DevQ      == <<"devq", 0>>
MQ(m)     == <<"km_waitq", m>>
PQ(p)     == <<"p_wait", p>>
NoQueue   == <<"none", 0>>
QueueIds  == {RunQ, DevQ} \cup {MQ(m) : m \in Mutexes} \cup {PQ(p) : p \in Pids}

TStates   == {"NoState", "Run", "Sleep", "SleepCancellable", "Exited"}
PStates   == {"Free", "Running", "Dead"}
\* Where a thread's code stands: "ready" = in kernel code between calls;
\* the others name the call it is suspended in.
PCs       == {"free", "boot", "idle_wait", "ready", "sleep", "csleep",
              "lock", "clock", "waitpid", "initspin", "exited", "shutdown",
              "halted", "boot_vfs", "initrun"}
\* The vnodes a p_cwd can point to: ProcSched never changes directory, so
\* every cwd installed is vfs_root_vn.
RootVn    == "vfs_root_vn"
NullVn    == "NULL"

VARIABLES
    pstate,     \* p_state, with "Free" for a pid not on _proc_list
    pproc,      \* p_pproc
    children,   \* p_children
    pstatus,    \* p_status
    next_pid,   \* next_pid of _proc_getid
    tstate,     \* kt_state of the process's thread
    cancelled,  \* kt_cancelled
    wchan,      \* kt_wchan
    q,          \* tq_list of every queue, oldest first
    curthr,     \* curthr (and curproc = its process)
    cpu,        \* whose continuation the CPU executes
    ctx,        \* kt_ctx contents, see the header
    switching,  \* a sched_switch is in progress
    pc,         \* where each thread's code stands
    arg,        \* the mutex or pid argument of the suspended call
    holder,     \* km_holder
    held,       \* mutexes a thread has returned from kmutex_lock on
    cwd,        \* p_cwd while the process holds its reference, else NullVn
    rootrefs,   \* vn_refcount of vfs_root_vn
    nullvn      \* the kernel has vref'd or vput a NULL p_cwd

cwdVars   == <<cwd, rootrefs, nullvn>>
procVars  == <<pstate, pproc, children, pstatus, next_pid, cwdVars>>
schedVars == <<tstate, cancelled, wchan, q, curthr, cpu, ctx, switching>>
vars      == <<procVars, schedVars, pc, arg, holder, held>>

Live(p) == pstate[p] # "Free"

-----------------------------------------------------------------------------
(* Queue manipulation (ktqueue_enqueue / _dequeue / _remove).  They act on *)
(* a record s = [q, tstate, wchan] so that several can be composed in one  *)
(* step; SetSched(s) makes s the next state.                               *)

SchedState == [q |-> q, tstate |-> tstate, wchan |-> wchan]

SetSched(s) == /\ q' = s.q
               /\ tstate' = s.tstate
               /\ wchan' = s.wchan

\* Mutant of Enqueue: kt_wchan is not set.
EnqueueNoWchan(s, id, t) == [s EXCEPT !.q[id] = Append(@, t)]

\* ktqueue_enqueue: list_insert_head, read back from the tail, so FIFO.
Enqueue(s, id, t) == [s EXCEPT !.q[id] = Append(@, t), !.wchan[t] = id]

\* ktqueue_remove
RemoveFrom(s, id, t) == [s EXCEPT !.q[id] = Remove(@, t), !.wchan[t] = NoQueue]

\* sched_sleep_on / the enqueue of sched_cancellable_sleep_on
SleepOn(s, id, t, st) == Enqueue([s EXCEPT !.tstate[t] = st], id, t)

\* sched_wakeup_on: dequeue the oldest sleeper, make it Run, put it on the
\* run queue.  Woken(s, id) is the thread it returns.
Woken(s, id) == IF s.q[id] = <<>> THEN NoProc ELSE Head(s.q[id])

\* ktqueue_dequeue of a non-empty queue: unlink the oldest thread.
Dequeue(s, id) == [s EXCEPT !.q[id] = Tail(@), !.wchan[Head(s.q[id])] = NoQueue]

WakeupOn(s, id) ==
    IF s.q[id] = <<>> THEN s
    ELSE LET t == Head(s.q[id])
         IN  Enqueue([Dequeue(s, id) EXCEPT !.tstate[t] = "Run"], RunQ, t)

\* sched_broadcast_on: wake every sleeper in queue order.
BroadcastOn(s, id) ==
    [s EXCEPT !.q[id] = <<>>,
              !.q[RunQ] = @ \o s.q[id],
              !.wchan = [t \in Pids |-> IF t \in ToSet(s.q[id]) THEN RunQ ELSE @[t]],
              !.tstate = [t \in Pids |-> IF t \in ToSet(s.q[id]) THEN "Run" ELSE @[t]]]

\* Mutant of SchedCancel: the thread is put on the run queue without
\* ktqueue_remove from the queue it sleeps on.
SchedCancelNoRemove(s, t) ==
    IF s.tstate[t] = "SleepCancellable"
    THEN Enqueue([s EXCEPT !.tstate[t] = "Run", !.wchan[t] = NoQueue], RunQ, t)
    ELSE s

\* sched_cancel: only a cancellable sleep is broken.
SchedCancel(s, t) ==
    IF s.tstate[t] = "SleepCancellable"
    THEN Enqueue(RemoveFrom([s EXCEPT !.tstate[t] = "Run"], s.wchan[t], t), RunQ, t)
    ELSE s

\* sched_make_runnable: KT_RUN and onto the run queue.
MakeRunnable(s, t) == Enqueue([s EXCEPT !.tstate[t] = "Run"], RunQ, t)

-----------------------------------------------------------------------------
\* Mutant of ProcGetId: the candidate pid is not reduced modulo the pool.
ProcGetIdNoWrap ==
    LET free == {i \in 0 .. PROC_MAX_COUNT - 1 :
                    ~Live((next_pid + i) % PROC_MAX_COUNT)}
    IN  IF free = {} THEN -1 ELSE next_pid + Min(free)

(* _proc_getid: the first pid from next_pid on (cyclically) not in use,    *)
(* or -1 when every pid is taken.                                          *)
ProcGetId ==
    LET free == {i \in 0 .. PROC_MAX_COUNT - 1 :
                    ~Live((next_pid + i) % PROC_MAX_COUNT)}
    IN  IF free = {} THEN -1 ELSE (next_pid + Min(free)) % PROC_MAX_COUNT


-----------------------------------------------------------------------------
(* A thread takes a step only while it is curthr, the CPU runs its own     *)
(* continuation, and no sched_switch is in progress.                       *)
Running(t) == ~switching /\ curthr = t /\ cpu = t

\* Where do_waitpid returns to: idleproc_run goes on to shut down.
AfterWait(t) == IF t = PID_IDLE THEN "shutdown" ELSE "ready"

(* The cwd lines of proc_create: a process whose pid is above 2 takes its  *)
(* creator's p_cwd and vrefs it; pids 0, 1 and 2 start with NULL.  vref of *)
(* a NULL cwd dereferences it: nullvn records that, and the reference      *)
(* count is left as it is so that the rest of the run stays in view.       *)
CwdInherit(parent, pid) ==
    /\ cwd' = [cwd EXCEPT ![pid] = IF pid > 2 THEN cwd[parent] ELSE NullVn]
    /\ rootrefs' = IF pid > 2 /\ cwd[parent] = RootVn THEN rootrefs + 1 ELSE rootrefs
    /\ nullvn' = (nullvn \/ (pid > 2 /\ cwd[parent] = NullVn))

\* Mutant of CwdPut: the pointer is dropped without its vput.
CwdPutNoVput(p) ==
    /\ cwd' = [cwd EXCEPT ![p] = NullVn]
    /\ UNCHANGED <<rootrefs, nullvn>>

(* vput(p_cwd), in proc_cleanup and at idle's shutdown: the reference is   *)
(* given back (the pointer is left behind, but nothing reads it again).    *)
(* vput of a NULL cwd dereferences it.                                      *)
CwdPut(p) ==
    /\ cwd' = [cwd EXCEPT ![p] = NullVn]
    /\ rootrefs' = IF cwd[p] = RootVn THEN rootrefs - 1 ELSE rootrefs
    /\ nullvn' = (nullvn \/ cwd[p] = NullVn)

(* p_cwd = vfs_root_vn; vref(vfs_root_vn): idleproc_run for idle and       *)
(* initproc_run for init, over the NULL that proc_create left.             *)
CwdSetRoot(p) ==
    /\ cwd' = [cwd EXCEPT ![p] = RootVn]
    /\ rootrefs' = rootrefs + 1
    /\ UNCHANGED nullvn

\* Mutant of CreateRunnable: the child is linked on p_children only for
\* pids above init's.
CreateRunnableSkipInit(parent, pid) ==
    /\ pstate'   = [pstate EXCEPT ![pid] = "Running"]
    /\ pproc'    = [pproc EXCEPT ![pid] = parent]
    /\ children' = IF pid > PID_INIT THEN [children EXCEPT ![parent] = @ \cup {pid}]
                   ELSE children
    /\ pstatus'  = [pstatus EXCEPT ![pid] = 0]
    /\ next_pid' = (pid + 1) % PROC_MAX_COUNT
    /\ CwdInherit(parent, pid)
    /\ SetSched(MakeRunnable(SchedState, pid))
    /\ cancelled' = [cancelled EXCEPT ![pid] = FALSE]
    /\ ctx' = [ctx EXCEPT ![pid] = pid]

\* proc_create(name) by `parent`, kthread_create on it, sched_make_runnable.
CreateRunnable(parent, pid) ==
    /\ pstate'   = [pstate EXCEPT ![pid] = "Running"]
    /\ pproc'    = [pproc EXCEPT ![pid] = parent]
    /\ children' = [children EXCEPT ![parent] = @ \cup {pid}]
    /\ pstatus'  = [pstatus EXCEPT ![pid] = 0]
    /\ next_pid' = (pid + 1) % PROC_MAX_COUNT
    /\ CwdInherit(parent, pid)
    /\ SetSched(MakeRunnable(SchedState, pid))
    /\ cancelled' = [cancelled EXCEPT ![pid] = FALSE]
    /\ ctx' = [ctx EXCEPT ![pid] = pid]          \* context_setup

\* Mutant of ProcCleanup: the parent is woken only from a cancellable sleep.
ProcCleanupWrongState(p, st, s) ==
    /\ pproc'    = [c \in Pids |-> IF c \in children[p] THEN PID_INIT ELSE pproc[c]]
    /\ children' = [children EXCEPT ![p] = {}, ![PID_INIT] = @ \cup children[p]]
    /\ pstate'   = [pstate EXCEPT ![p] = "Dead"]
    /\ pstatus'  = [pstatus EXCEPT ![p] = st]
    /\ CwdPut(p)
    /\ SetSched(IF s.tstate[pproc[p]] = "SleepCancellable"
                THEN WakeupOn(s, PQ(pproc[p])) ELSE s)
    /\ UNCHANGED next_pid

\* proc_cleanup after the init spin: (files and cwd belong to the VFS
\* model), reparent children to init, Dead, status, wake the parent if its
\* thread is in KT_SLEEP.  s is the scheduler state to start from.
ProcCleanup(p, st, s) ==
    /\ pproc'    = [c \in Pids |-> IF c \in children[p] THEN PID_INIT ELSE pproc[c]]
    /\ children' = [children EXCEPT ![p] = {}, ![PID_INIT] = @ \cup children[p]]
    /\ pstate'   = [pstate EXCEPT ![p] = "Dead"]
    /\ pstatus'  = [pstatus EXCEPT ![p] = st]
    /\ CwdPut(p)
    /\ SetSched(IF s.tstate[pproc[p]] = "Sleep"
                THEN WakeupOn(s, PQ(pproc[p])) ELSE s)
    /\ UNCHANGED next_pid

(* initproc_create: proc_create("INIT"), which must get pid 1, and        *)
(* kthread_create of its thread (made runnable by idleproc_run).           *)
InitprocCreate ==
    /\ ProcGetId = PID_INIT                 \* KASSERT(PID_INIT == p->p_pid)
    /\ CreateRunnable(PID_IDLE, PID_INIT)

\* kthread_destroy: the exited thread's stack and kthread_t are freed.
KthreadDestroy(t) ==
    /\ tstate' = [tstate EXCEPT ![t] = "NoState"]
    /\ ctx'    = [ctx EXCEPT ![t] = NoCtx]

-----------------------------------------------------------------------------
(* idleproc_run's first step: initproc_create (pid 1, parent idle), then  *)
(* init_call_all.  The init functions built in this tree are sched_init,   *)
(* which empties kt_runq (Init's empty queues), and none else:             *)
(* kthread_reapd_init is compiled only under __MTP__.  No process is made, *)
(* so the next pid handed out is 2.                                        *)
IdleBoot ==
    /\ Running(PID_IDLE) /\ pc[PID_IDLE] = "boot"
    /\ InitprocCreate
    /\ pc' = [pc EXCEPT ![PID_INIT] = "initrun", ![PID_IDLE] = "boot_vfs"]
    /\ UNCHANGED <<curthr, cpu, switching, arg, holder, held>>

(* idleproc_run's __VFS__ block: idle's p_cwd = vfs_root_vn with a vref    *)
(* (the /dev nodes belong to the VFS model); then intr_enable and          *)
(* sched_make_runnable(initthr), which initproc_create already did in this *)
(* model: with interrupts off and idle on the CPU nothing can tell.        *)
IdleVfsInit ==
    /\ Running(PID_IDLE) /\ pc[PID_IDLE] = "boot_vfs"
    /\ CwdSetRoot(PID_IDLE)
    /\ pc' = [pc EXCEPT ![PID_IDLE] = "idle_wait"]
    /\ UNCHANGED <<pstate, pproc, children, pstatus, next_pid, schedVars, arg,
                   holder, held>>

(* initproc_run's first lines: init's p_cwd = vfs_root_vn with a vref;    *)
(* then it runs the kernel shell, whose calls are ThreadStep's.            *)
InitprocRun ==
    /\ Running(PID_INIT) /\ pc[PID_INIT] = "initrun"
    /\ CwdSetRoot(PID_INIT)
    /\ pc' = [pc EXCEPT ![PID_INIT] = "ready"]
    /\ UNCHANGED <<pstate, pproc, children, pstatus, next_pid, schedVars, arg,
                   holder, held>>

(* Kernel code of a process creates a child process with one runnable     *)
(* thread.  Callers never exhaust the pid pool (ProcGetId # -1).           *)
Spawn(t) ==
    /\ Running(t) /\ pc[t] = "ready" /\ t # PID_IDLE
    /\ ProcGetId # -1
    /\ CreateRunnable(t, ProcGetId)
    /\ pc' = [pc EXCEPT ![ProcGetId] = "ready"]
    /\ UNCHANGED <<curthr, cpu, switching, arg, holder, held>>

(* kmutex_lock / kmutex_lock_cancellable.  The holder's KASSERT is a       *)
(* precondition.  A cancellable sleep of an already cancelled thread       *)
(* returns -EINTR, which kmutex_lock_cancellable ignores: it returns 0.    *)
LockCall(t, m, cancellable) ==
    /\ Running(t) /\ pc[t] = "ready" /\ t # PID_IDLE
    /\ holder[m] # t
    /\ IF holder[m] = NoProc
       THEN /\ holder' = [holder EXCEPT ![m] = t]
            /\ held' = [held EXCEPT ![t] = @ \cup {m}]
            /\ UNCHANGED <<schedVars, pc, arg>>
       ELSE IF cancellable /\ cancelled[t]
       THEN /\ tstate' = [tstate EXCEPT ![t] = "SleepCancellable"]
            /\ held' = [held EXCEPT ![t] = @ \cup {m}]
            /\ UNCHANGED <<q, wchan, cancelled, curthr, cpu, ctx, switching,
                           pc, arg, holder>>
       ELSE /\ SetSched(SleepOn(SchedState, MQ(m), t,
                          IF cancellable THEN "SleepCancellable" ELSE "Sleep"))
            /\ pc' = [pc EXCEPT ![t] = IF cancellable THEN "clock" ELSE "lock"]
            /\ arg' = [arg EXCEPT ![t] = m]
            /\ switching' = TRUE
            /\ UNCHANGED <<cancelled, curthr, cpu, ctx, holder, held>>
    /\ UNCHANGED procVars

\* Mutant of UnlockCall: the mutex is released and a sleeper woken, but
\* ownership is not handed to it.
UnlockCallNoHandoff(t, m) ==
    /\ Running(t) /\ pc[t] = "ready"
    /\ holder[m] = t
    /\ holder' = [holder EXCEPT ![m] = NoProc]
    /\ SetSched(WakeupOn(SchedState, MQ(m)))
    /\ held' = [held EXCEPT ![t] = @ \ {m}]
    /\ UNCHANGED <<procVars, cancelled, curthr, cpu, ctx, switching, pc, arg>>

(* kmutex_unlock: ownership passes to the thread sched_wakeup_on returns.  *)
UnlockCall(t, m) ==
    /\ Running(t) /\ pc[t] = "ready"
    /\ holder[m] = t                        \* KASSERT(curthr == km_holder)
    /\ holder' = [holder EXCEPT ![m] = Woken(SchedState, MQ(m))]
    /\ SetSched(WakeupOn(SchedState, MQ(m)))
    /\ held' = [held EXCEPT ![t] = @ \ {m}]
    /\ UNCHANGED <<procVars, cancelled, curthr, cpu, ctx, switching, pc, arg>>

(* A blocking device operation: sched_sleep_on or                         *)
(* sched_cancellable_sleep_on the driver's queue.                          *)
DevSleep(t, cancellable) ==
    /\ Running(t) /\ pc[t] = "ready" /\ t # PID_IDLE
    /\ IF cancellable /\ cancelled[t]
       THEN /\ tstate' = [tstate EXCEPT ![t] = "SleepCancellable"]
            /\ UNCHANGED <<q, wchan, switching, pc>>
       ELSE /\ SetSched(SleepOn(SchedState, DevQ, t,
                          IF cancellable THEN "SleepCancellable" ELSE "Sleep"))
            /\ pc' = [pc EXCEPT ![t] = IF cancellable THEN "csleep" ELSE "sleep"]
            /\ switching' = TRUE
    /\ UNCHANGED <<procVars, cancelled, curthr, cpu, ctx, arg, holder, held>>

(* A device interrupt handler wakes one or all sleepers of its queue       *)
(* (sched_wakeup_on asserts that the thread it dequeues sleeps).  It       *)
(* runs while the IPL is low: between kernel calls, or in intr_wait when   *)
(* sched_switch finds the run queue empty; never after the halt.           *)
Interrupt ==
    /\ pc[PID_IDLE] \notin {"boot", "boot_vfs", "halted"}
    /\ ~switching \/ q[RunQ] = <<>>
    /\ q[DevQ] # <<>>
    /\ \/ /\ tstate[Head(q[DevQ])] \in {"Sleep", "SleepCancellable"}  \* KASSERT
          /\ SetSched(WakeupOn(SchedState, DevQ))
       \/ SetSched(BroadcastOn(SchedState, DevQ))
    /\ UNCHANGED <<procVars, cancelled, curthr, cpu, ctx, switching, pc, arg,
                   holder, held>>


(* The reaping half of do_waitpid's loop for dead child c: unlink it from  *)
(* p_children, hand its children to init, kthread_destroy its exited      *)
(* thread, unlink it from the process list and free it.                    *)
Reap(t, c) ==
    /\ pstate'   = [pstate EXCEPT ![c] = "Free"]
    /\ pproc'    = [x \in Pids |-> IF x = c THEN NoProc
                                   ELSE IF x \in children[c] THEN PID_INIT
                                   ELSE pproc[x]]
    /\ children' = [children EXCEPT ![t] = @ \ {c}, ![PID_INIT] = @ \cup children[c],
                                    ![c] = {}]
    /\ KthreadDestroy(c)
    /\ pc'       = [pc EXCEPT ![c] = "free", ![t] = AfterWait(t)]
    /\ held'     = [held EXCEPT ![c] = {}]
    /\ UNCHANGED <<pstatus, next_pid, cwdVars, cancelled, wchan, q, curthr, cpu,
                   switching, arg, holder>>

\* Mutant of WaitLoop: a matching child is reaped without the PROC_DEAD test.
WaitLoopAnyChild(t, pid) ==
    LET dead == {c \in children[t] : pid = -1 \/ c = pid}
    IN  IF pid = -1 /\ children[t] = {}
        THEN /\ pc' = [pc EXCEPT ![t] = AfterWait(t)]
             /\ UNCHANGED <<procVars, schedVars, arg, holder, held>>
        ELSE IF dead # {}
        THEN \E c \in dead : Reap(t, c)
        ELSE /\ SetSched(SleepOn(SchedState, PQ(t), t, "Sleep"))
             /\ pc' = [pc EXCEPT ![t] = "waitpid"]
             /\ arg' = [arg EXCEPT ![t] = pid]
             /\ switching' = TRUE
             /\ UNCHANGED <<procVars, cancelled, curthr, cpu, ctx, holder, held>>

(* One pass of the for(;;) of do_waitpid (both branches): return when      *)
(* waiting for any child and none is left, reap a dead child that matches, *)
(* or sched_sleep_on(p_wait) and run the loop again when woken.            *)
WaitLoop(t, pid) ==
    LET dead == {c \in children[t] : pstate[c] = "Dead" /\ (pid = -1 \/ c = pid)}
    IN  IF pid = -1 /\ children[t] = {}
        THEN /\ pc' = [pc EXCEPT ![t] = AfterWait(t)]
             /\ UNCHANGED <<procVars, schedVars, arg, holder, held>>
        ELSE IF dead # {}
        THEN \E c \in dead : Reap(t, c)
        ELSE /\ SetSched(SleepOn(SchedState, PQ(t), t, "Sleep"))
             /\ pc' = [pc EXCEPT ![t] = "waitpid"]
             /\ arg' = [arg EXCEPT ![t] = pid]
             /\ switching' = TRUE
             /\ UNCHANGED <<procVars, cancelled, curthr, cpu, ctx, holder, held>>

(* do_waitpid(pid, 0, &status).  Callers pass -1 or the pid of a process   *)
(* that exists (proc_lookup of a free pid is dereferenced).  Kernel code   *)
(* does not wait while holding a mutex.                                    *)
WaitpidCall(t, pid) ==
    /\ Running(t) /\ held[t] = {}
    /\ \/ pc[t] = "ready"
       \/ t = PID_IDLE /\ pc[t] = "idle_wait" /\ pid = -1
    /\ pid = -1 \/ (pid \in Pids /\ Live(pid))
    /\ IF pid = -1 /\ children[t] = {}
       THEN UNCHANGED vars                                         \* -ECHILD
       ELSE IF pid # -1 /\ (pproc[pid] # t \/ pid \notin children[t])
       THEN UNCHANGED vars                                         \* -ECHILD
       ELSE WaitLoop(t, pid)

\* Mutant of ExitCall: kthread_exit returns without calling sched_switch.
ExitCallNoSwitch(t, st) ==
    /\ Running(t) /\ pc[t] = "ready" /\ t # PID_IDLE /\ held[t] = {}
    /\ InitWaitsAll /\ t = PID_INIT => children[t] = {}
    /\ switching' = FALSE
    /\ LET s == [SchedState EXCEPT !.tstate[t] = "Exited"]
       IN  IF t = PID_INIT /\ children[t] # {}
           THEN /\ SetSched(s)
                /\ pc' = [pc EXCEPT ![t] = "initspin"]
                /\ UNCHANGED procVars
           ELSE /\ ProcCleanup(t, st, s)
                /\ pc' = [pc EXCEPT ![t] = "exited"]
    /\ UNCHANGED <<cancelled, curthr, cpu, ctx, arg, holder, held>>

(* do_exit -> kthread_cancel(curthr) -> kthread_exit: the thread becomes   *)
(* KT_EXITED, proc_thread_exited runs proc_cleanup, then sched_switch.     *)
(* Init with children spins in sched_switch inside proc_cleanup, off every *)
(* queue.  Under InitWaitsAll, init's program reaps all children first.    *)
ExitCall(t, st) ==
    /\ Running(t) /\ pc[t] = "ready" /\ t # PID_IDLE /\ held[t] = {}
    /\ InitWaitsAll /\ t = PID_INIT => children[t] = {}
    /\ switching' = TRUE
    /\ LET s == [SchedState EXCEPT !.tstate[t] = "Exited"]
       IN  IF t = PID_INIT /\ children[t] # {}
           THEN /\ SetSched(s)
                /\ pc' = [pc EXCEPT ![t] = "initspin"]
                /\ UNCHANGED procVars
           ELSE /\ ProcCleanup(t, st, s)
                /\ pc' = [pc EXCEPT ![t] = "exited"]
    /\ UNCHANGED <<cancelled, curthr, cpu, ctx, arg, holder, held>>

(* kthread_cancel of a thread other than curthr: a cancellable sleep is    *)
(* broken by sched_cancel; a thread in KT_SLEEP or KT_RUN is only marked   *)
(* kt_cancelled.                                                           *)
KthreadCancel(t) ==
    /\ cancelled' = [cancelled EXCEPT ![t] = TRUE]
    /\ SetSched(SchedCancel(SchedState, t))

(* proc_kill(p, status) of another process: kthread_cancel on its thread   *)
(* unless it has exited already.                                           *)
ProcKill(p) ==
    IF tstate[p] # "Exited" THEN KthreadCancel(p)
    ELSE UNCHANGED <<cancelled, q, tstate, wchan>>

(* Kernel code kills another process.  Callers never kill idle or init,    *)
(* and a process never kills itself this way (that is ExitCall).           *)
KillCall(t, p) ==
    /\ Cancellation
    /\ Running(t) /\ pc[t] = "ready" /\ t # PID_IDLE
    /\ p \in Pids \ {PID_IDLE, PID_INIT, t} /\ Live(p)
    /\ ProcKill(p)
    /\ UNCHANGED <<procVars, curthr, cpu, ctx, switching, pc, arg, holder, held>>

(* The processes proc_kill_all kills: all but idle, init and the direct   *)
(* children of idle.                                                       *)
Doomed == {p \in Pids : Live(p) /\ p \notin {PID_IDLE, PID_INIT} /\ pproc[p] # PID_IDLE}

(* proc_kill_all, which sys_halt calls from process t: every doomed        *)
(* process is set PROC_DEAD and its thread KT_EXITED where it stands, on   *)
(* whatever queue it sleeps or waits on, with no proc_cleanup; then init's *)
(* thread becomes curthr, is list_removed from its queue (tq_size is left  *)
(* as it was) unless it is t, and context_switch saves t's context and     *)
(* loads init's.  init's state is not touched.  init must exist and its    *)
(* kt_qlink be linked: the loop leaves `init` unset otherwise, and         *)
(* list_remove of an unlinked link dereferences NULL.                      *)
HaltCall(t) ==
    /\ Running(t) /\ pc[t] = "ready" /\ t # PID_IDLE
    /\ Live(PID_INIT) /\ (t # PID_INIT => wchan[PID_INIT] # NoQueue)
    /\ LET dead  == [SchedState EXCEPT !.tstate =
                        [x \in Pids |-> IF x \in Doomed THEN "Exited" ELSE @[x]]]
           saved == [ctx EXCEPT ![t] = cpu]
       IN  /\ SetSched(IF t = PID_INIT THEN dead
                       ELSE RemoveFrom(dead, wchan[PID_INIT], PID_INIT))
           /\ pstate' = [x \in Pids |-> IF x \in Doomed THEN "Dead" ELSE pstate[x]]
           /\ curthr' = PID_INIT
           /\ cpu' = saved[PID_INIT]
           /\ ctx' = [saved EXCEPT ![PID_INIT] = NoCtx]
    /\ UNCHANGED <<pproc, children, pstatus, next_pid, cwdVars, cancelled,
                   switching, pc, arg, holder, held>>

\* Mutant of Dispatch: context_switch does not save the old thread.
DispatchNoSave ==
    /\ switching /\ pc[PID_IDLE] # "halted"
    /\ LET rq   == q[RunQ]
           i    == SelectInSeq(rq, LAMBDA x : tstate[x] # "Exited")
           n    == rq[i]
           gone == ToSet(SubSeq(rq, 1, i))
           s    == [SchedState EXCEPT
                      !.q[RunQ] = SubSeq(rq, i + 1, Len(rq)),
                      !.wchan = [x \in Pids |-> IF x \in gone THEN NoQueue ELSE @[x]]]
       IN  /\ i > 0
           /\ curthr' = n
           /\ IF cancelled[n]
              THEN /\ ProcCleanup(n, 0, [s EXCEPT !.tstate[n] = "Exited"])
                   /\ pc' = [pc EXCEPT ![n] = "exited"]
                   /\ UNCHANGED <<cpu, ctx, switching>>
              ELSE /\ SetSched(s)
                   /\ cpu' = ctx[n]
                   /\ ctx' = [ctx EXCEPT ![n] = NoCtx]
                   /\ switching' = FALSE
                   /\ UNCHANGED <<procVars, pc>>
    /\ UNCHANGED <<cancelled, arg, holder, held>>

(* The else branch of sched_switch: dequeue until a thread that has not    *)
(* exited (those skipped stay off every queue), make it curthr.  If it is  *)
(* cancelled, do_exit(0) runs for it right there, on the old thread's      *)
(* stack, and its kthread_exit calls sched_switch again before the         *)
(* context_switch that would save the old thread: the switch goes on with  *)
(* the old continuation still on the CPU.  Otherwise context_switch saves  *)
(* the CPU into the old thread's kt_ctx and loads the new one's.  The      *)
(* intr_wait branch (empty run queue) is Interrupt.                        *)
Dispatch ==
    /\ switching /\ pc[PID_IDLE] # "halted"
    /\ LET rq   == q[RunQ]
           i    == SelectInSeq(rq, LAMBDA x : tstate[x] # "Exited")
           n    == rq[i]
           gone == ToSet(SubSeq(rq, 1, i))
           s    == [SchedState EXCEPT
                      !.q[RunQ] = SubSeq(rq, i + 1, Len(rq)),
                      !.wchan = [x \in Pids |-> IF x \in gone THEN NoQueue ELSE @[x]]]
       IN  /\ i > 0
           /\ curthr' = n
           /\ IF cancelled[n]
              THEN /\ ProcCleanup(n, 0, [s EXCEPT !.tstate[n] = "Exited"])
                   /\ pc' = [pc EXCEPT ![n] = "exited"]
                   /\ UNCHANGED <<cpu, ctx, switching>>
              ELSE /\ SetSched(s)
                   /\ LET saved == [ctx EXCEPT ![curthr] = cpu]
                      IN  /\ cpu' = saved[n]
                          /\ ctx' = [saved EXCEPT ![n] = NoCtx]
                   /\ switching' = FALSE
                   /\ UNCHANGED <<procVars, pc>>
    /\ UNCHANGED <<cancelled, arg, holder, held>>

\* sched_sleep_on / sched_cancellable_sleep_on return to a device caller.
ResumeSleep(t) ==
    /\ Running(t) /\ pc[t] \in {"sleep", "csleep"}
    /\ pc' = [pc EXCEPT ![t] = "ready"]
    /\ UNCHANGED <<procVars, schedVars, arg, holder, held>>

\* kmutex_lock(_cancellable) returns after the sleep: the unlocker made
\* this thread the holder (or the sleep was cancelled: it returns 0 anyway).
ResumeLock(t) ==
    /\ Running(t) /\ pc[t] \in {"lock", "clock"}
    /\ held' = [held EXCEPT ![t] = @ \cup {arg[t]}]
    /\ pc' = [pc EXCEPT ![t] = "ready"]
    /\ UNCHANGED <<procVars, schedVars, arg, holder>>

\* do_waitpid's sched_sleep_on(p_wait) returns: the loop runs again.
ResumeWaitpid(t) ==
    /\ Running(t) /\ pc[t] = "waitpid"
    /\ WaitLoop(t, arg[t])

(* idleproc_run after its do_waitpid: vput(curproc->p_cwd) and            *)
(* vfs_shutdown (VFS model), then hard_shutdown's cli; hlt, where the CPU  *)
(* stays for good.                                                         *)
IdleShutdown ==
    /\ Running(PID_IDLE) /\ pc[PID_IDLE] \in {"shutdown", "halted"}
    /\ IF pc[PID_IDLE] = "shutdown" THEN CwdPut(PID_IDLE) ELSE UNCHANGED cwdVars
    /\ pc' = [pc EXCEPT ![PID_IDLE] = "halted"]
    /\ UNCHANGED <<pstate, pproc, children, pstatus, next_pid, schedVars, arg,
                   holder, held>>

-----------------------------------------------------------------------------
(* After bootstrap: idle (pid 0) is curthr and runs idleproc_run.          *)
Init ==
    /\ pstate    = [p \in Pids |-> IF p = PID_IDLE THEN "Running" ELSE "Free"]
    /\ pproc     = [p \in Pids |-> NoProc]
    /\ children  = [p \in Pids |-> {}]
    /\ pstatus   = [p \in Pids |-> 0]
    /\ next_pid  = PID_IDLE + 1
    /\ tstate    = [p \in Pids |-> IF p = PID_IDLE THEN "Run" ELSE "NoState"]
    /\ cancelled = [p \in Pids |-> FALSE]
    /\ wchan     = [p \in Pids |-> NoQueue]
    /\ q         = [id \in QueueIds |-> <<>>]
    /\ curthr    = PID_IDLE
    /\ cpu       = PID_IDLE
    /\ ctx       = [p \in Pids |-> NoCtx]
    /\ switching = FALSE
    /\ pc        = [p \in Pids |-> IF p = PID_IDLE THEN "boot" ELSE "free"]
    /\ arg       = [p \in Pids |-> 0]
    /\ holder    = [m \in Mutexes |-> NoProc]
    /\ held      = [p \in Pids |-> {}]
    /\ cwd       = [p \in Pids |-> NullVn]
    /\ rootrefs  = 1                \* the mount's own reference (vfs_init)
    /\ nullvn    = FALSE

(* Which sleeps callers choose: with no cancellation, a cancellable sleep  *)
(* behaves exactly as a plain one (kt_cancelled is never set), so only the *)
(* plain one is explored.                                                  *)
SleepKinds == IF Cancellation THEN BOOLEAN ELSE {FALSE}

ThreadStep(t) ==
    \/ Spawn(t)
    \/ \E st \in ExitStatus : ExitCall(t, st)
    \/ \E m \in Mutexes, c \in SleepKinds : LockCall(t, m, c)
    \/ \E m \in Mutexes : UnlockCall(t, m)
    \/ \E c \in SleepKinds : DevSleep(t, c)
    \/ \E p \in Pids : KillCall(t, p)
    \/ \E pid \in {-1} \cup Pids : WaitpidCall(t, pid)
    \/ ResumeSleep(t) \/ ResumeLock(t) \/ ResumeWaitpid(t)

Next ==
    \/ IdleBoot \/ IdleVfsInit \/ InitprocRun
    \/ \E t \in Pids : ThreadStep(t)
    \/ Dispatch
    \/ Interrupt
    \/ IdleShutdown

(* Fairness: the CPU always continues the current thread's suspended call  *)
(* once it is back on the CPU, sched_switch always completes, a device     *)
(* with sleepers eventually interrupts, and idleproc_run's own straight-   *)
(* line code (boot, waitpid, shutdown) goes on.  Other kernel code is not  *)
(* forced to make further calls.                                           *)
Spec ==
    /\ Init /\ [][Next]_vars
    /\ WF_vars(IdleBoot) /\ WF_vars(IdleVfsInit) /\ WF_vars(InitprocRun)
    /\ WF_vars(Dispatch) /\ WF_vars(Interrupt)
    /\ \A t \in Pids : WF_vars(ResumeSleep(t) \/ ResumeLock(t) \/ ResumeWaitpid(t))
    /\ WF_vars(\E pid \in {-1} \cup Pids : WaitpidCall(PID_IDLE, pid))
    /\ WF_vars(IdleShutdown)


(* With sys_halt: any kernel code other than idle's may call proc_kill_all.*)
HaltNext == Next \/ \E t \in Pids : HaltCall(t)

HaltSpec == Init /\ [][HaltNext]_vars

-----------------------------------------------------------------------------
(* Properties.                                                             *)

TypeOK ==
    /\ pstate \in [Pids -> PStates]
    /\ pproc \in [Pids -> Pids \cup {NoProc}]
    /\ children \in [Pids -> SUBSET Pids]
    /\ pstatus \in [Pids -> ExitStatus \cup {0}]
    /\ next_pid \in Pids
    /\ tstate \in [Pids -> TStates]
    /\ cancelled \in [Pids -> BOOLEAN]
    /\ wchan \in [Pids -> QueueIds \cup {NoQueue}]
    /\ \A id \in QueueIds : q[id] \in Seq(Pids)
    /\ curthr \in Pids /\ cpu \in Pids \cup {NoCtx}
    /\ ctx \in [Pids -> Pids \cup {NoCtx}]
    /\ switching \in BOOLEAN
    /\ pc \in [Pids -> PCs]
    /\ holder \in [Mutexes -> Pids \cup {NoProc}]
    /\ held \in [Pids -> SUBSET Mutexes]
    /\ cwd \in [Pids -> {RootVn, NullVn}]
    /\ rootrefs \in Nat
    /\ nullvn \in BOOLEAN

(* The ktqueue invariant kept by sched.c: kt_wchan names the one queue a   *)
(* thread is linked on, exactly once; the run queue holds only runnable    *)
(* threads and a wait queue only sleepers; and, as the comment above       *)
(* sched_cancel demands, a thread that is neither exited nor the current   *)
(* one is on some queue, or it will never run again.                       *)
QueueDiscipline ==
    \A t \in Pids :
        /\ \A id \in QueueIds :
              Cardinality({i \in 1 .. Len(q[id]) : q[id][i] = t})
                  = IF wchan[t] = id THEN 1 ELSE 0
        /\ wchan[t] = RunQ => tstate[t] = "Run"
        /\ wchan[t] \notin {RunQ, NoQueue} => tstate[t] \in {"Sleep", "SleepCancellable"}
        /\ tstate[t] \in {"Run", "Sleep", "SleepCancellable"} /\ t # curthr
               => wchan[t] # NoQueue

(* kmutex: a free mutex has no sleeper left behind by kmutex_unlock; only  *)
(* the holder is past kmutex_lock; and the holder is either in its         *)
(* critical section or is the sleeper the unlock handed the mutex to.      *)
MutexOwnership ==
    \A m \in Mutexes :
        /\ holder[m] = NoProc => q[MQ(m)] = <<>>
        /\ \A t \in Pids : m \in held[t] => holder[m] = t
        /\ holder[m] # NoProc =>
               \/ m \in held[holder[m]]
               \/ pc[holder[m]] \in {"lock", "clock"} /\ arg[holder[m]] = m

(* No lost wakeup in do_waitpid / proc_cleanup: a parent asleep on p_wait  *)
(* has no dead child it is waiting for, so proc_cleanup's wakeup of the    *)
(* KT_SLEEP parent was not missed.                                         *)
NoLostWakeup ==
    \A t \in Pids :
        wchan[t] = PQ(t) =>
            \A c \in children[t] :
                (arg[t] = -1 \/ arg[t] = c) => pstate[c] # "Dead"

(* The process tree of proc_create, proc_cleanup and do_waitpid: every     *)
(* process but idle has a live parent that lists it among its children,    *)
(* and p_children lists only live processes whose p_pproc points back.     *)
ProcTree ==
    /\ \A p \in Pids \ {PID_IDLE} :
          Live(p) => pproc[p] \in Pids /\ Live(pproc[p]) /\ p \in children[pproc[p]]
    /\ \A p, c \in Pids : c \in children[p] => Live(p) /\ Live(c) /\ pproc[c] = p

(* context_switch discipline of sched_switch: every thread waiting on a    *)
(* queue, other than the one whose switch is still in progress, has its    *)
(* own continuation saved in its kt_ctx, so it resumes where it left off.  *)
ContextIntact ==
    \A t \in Pids :
        wchan[t] # NoQueue /\ ~(switching /\ t = curthr) => ctx[t] = t

(* Only a live process's thread runs: once a process is dead (its thread  *)
(* exited in do_exit, in sched_switch's cancel path or in proc_kill_all)   *)
(* or reaped, the CPU never again executes its thread outside a            *)
(* sched_switch in progress.                                               *)
OnlyLiveRun ==
    \A t \in Pids : Running(t) => pstate[t] = "Running"

(* The kernel mutex as KMutex describes it: km_holder is the owner and    *)
(* km_waitq, oldest sleeper first, is the line of waiters.                 *)
KM == INSTANCE KMutex WITH Threads <- Pids, NoThread <- NoProc,
          owner <- holder, waiters <- [m \in Mutexes |-> q[MQ(m)]]

(* kmutex_lock, kmutex_lock_cancellable and kmutex_unlock, together with   *)
(* what sched_sleep_on, sched_wakeup_on, sched_cancel and every other step *)
(* do to km_holder and km_waitq, implement the abstract mutex: a lock      *)
(* takes a free mutex or joins the end of its line, an unlock by the owner *)
(* hands it to the oldest sleeper, and a sleeper leaves the line only by   *)
(* becoming the owner or by a broken cancellable sleep.                    *)
KMutexSpec == KM!Spec

(* The process table as ProcLife describes it: p_state, p_pproc and       *)
(* p_status, with "Free" for a pid not on _proc_list.                      *)
PL == INSTANCE ProcLife WITH IdlePid <- PID_IDLE, InitPid <- PID_INIT,
          Statuses <- ExitStatus \cup {0},
          life <- pstate, parent <- pproc, status <- pstatus

(* proc_create, proc_cleanup and do_waitpid, under every interleaving with *)
(* the scheduler, cancellation and the other threads, implement ProcLife:  *)
(* a pid is reused only once it is free, a process dies only once and     *)
(* hands its children to init as it does, init dies only with no children *)
(* left, and a process is freed only by its parent, only once it is dead, *)
(* and with no children left behind pointing at it.                        *)
ProcLifeSpec == PL!Spec

(* Every p_cwd reference is given back by the time the kernel halts:     *)
(* each proc_create vref, and idle's and init's own, has had its vput (in *)
(* proc_cleanup, or idleproc_run's before vfs_shutdown), so vfs_root_vn   *)
(* holds only the mount's reference, as spec invariant 5 requires of a    *)
(* vnode no cwd holds.  Violating it takes a process that outlives init's *)
(* wait, or a create or exit path that skips its half of the pair.        *)
ShutdownRefsBalanced == pc[PID_IDLE] = "halted" => rootrefs = 1

(* idleproc_run ends: once init's thread has exited, idle is woken from    *)
(* do_waitpid, reaps init and halts.                                       *)
IdleReapsInit == (tstate[PID_INIT] = "Exited") ~> (pc[PID_IDLE] = "halted")

=============================================================================
