# TLA+ models of the Weenix kernel (USC-Weenix)

These modules model the kernel under `src/Weenix/weenix/kernel/` for the TLC
model checker: the process and thread layer (`proc/`), the boot path
(`main/kmain.c`) and the VFS layer (`fs/`).

## 1. Survey of the system

### Components, their state and operations

| Component | Source | State | Operations |
|---|---|---|---|
| Scheduler | `proc/sched.c` | `kt_runq`, one `ktqueue_t` per wait channel, `curthr`, each thread's `kt_state`, `kt_wchan`, `kt_cancelled`, `kt_ctx` | `ktqueue_enqueue/dequeue/remove`, `sched_sleep_on`, `sched_cancellable_sleep_on`, `sched_wakeup_on`, `sched_broadcast_on`, `sched_cancel`, `sched_switch`, `sched_make_runnable` |
| Kernel mutex | `proc/kmutex.c` | `km_holder`, `km_waitq` | `kmutex_init`, `kmutex_lock`, `kmutex_lock_cancellable`, `kmutex_unlock` |
| Threads | `proc/kthread.c` | `kthread_t` (one per process, no MTP) | `kthread_create`, `kthread_destroy`, `kthread_cancel`, `kthread_exit` |
| Processes | `proc/proc.c` | `_proc_list`, `next_pid`, `proc_initproc`; per process `p_pid`, `p_state`, `p_pproc`, `p_children`, `p_status`, `p_wait`, `p_files`, `p_cwd` | `_proc_getid`, `proc_create`, `proc_cleanup`, `proc_kill`, `proc_kill_all`, `proc_thread_exited`, `do_waitpid`, `do_exit` |
| Boot | `main/kmain.c` | the idle process (pid 0) and init (pid 1) | `bootstrap`, `idleproc_run`, `initproc_create`, `initproc_run` |
| Descriptors and open | `fs/open.c` | `p_files[NFILES]`, `file_t` (`f_refcount`, `f_mode`, `f_pos`, `f_vnode`) | `get_empty_fd`, `do_open` |
| Path resolution | `fs/namev.c` | vnode reference counts | `lookup`, `dir_namev`, `open_namev` |
| VFS system calls | `fs/vfs_syscall.c` | the same, plus the directory tree seen through vnode operations | `do_read`, `do_write`, `do_close`, `do_dup`, `do_dup2`, `do_mknod`, `do_mkdir`, `do_rmdir`, `do_unlink`, `do_link`, `do_rename`, `do_chdir`, `do_getdent`, `do_lseek`, `do_stat` |

How they interact:
- The scheduler runs one thread at a time, cooperatively, on one CPU. Another
  thread runs only when the current one calls `sched_switch`, which it does
  from a sleep, an exit or a wait.
- Interrupt handlers wake device sleepers with `sched_wakeup_on` and
  `sched_broadcast_on`. They run while the IPL is low: between kernel calls,
  or in the `intr_wait` of a `sched_switch` that found the run queue empty.
- `kmutex` sleeps on its `km_waitq`. `kmutex_unlock` hands ownership directly
  to the sleeper it wakes.
- A process exits through `do_exit`, which calls `kthread_cancel(curthr)`,
  then `kthread_exit`, `proc_thread_exited` and `proc_cleanup`.
  `proc_cleanup` reparents the process's children to init, marks it dead and
  wakes a parent sleeping on `p_wait`.
- Cancelling another thread only sets `kt_cancelled`, unless that thread is
  in a cancellable sleep, which `sched_cancel` breaks. `sched_switch` exits a
  cancelled thread when it picks it to run.
- The idle process creates init, waits for it with `do_waitpid(-1)` and then
  halts. The VFS calls use the current process's descriptor table and cwd.

### Hard behaviours

- Interleavings of threads at every `sched_switch`, and interrupts while a
  switch waits in `intr_wait`.
- Ownership handoff in `kmutex_unlock` to a thread that has not yet run.
- `do_waitpid` checks its children and then sleeps on `p_wait`, racing
  `proc_cleanup`'s wakeup.
- Cancellation: a flag, a broken sleep, and an exit performed inside
  `sched_switch` for the chosen thread.
- Reparenting to init while init or idle is reaping.
- The pid pool wrapping around and running out.
- Reference counts of files and vnodes across `open`, `dup`, `dup2`, `close`
  and the error paths of each.

### What makes each component correct

- Scheduler: every thread that is neither exited nor current is on exactly
  one queue, the one its `kt_wchan` names. Run-queue threads are runnable and
  wait-queue threads are sleeping. A thread waiting to run has its own saved
  context.
- Mutex: only the holder is in its critical section. A mutex without a holder
  has no sleepers. The holder is either in its critical section or is the
  sleeper it was handed to.
- Processes: the parent/child links form a tree rooted at idle, over live
  processes only. A parent sleeping in `do_waitpid` has no dead child it is
  waiting for. Once init exits, idle eventually reaps it and halts. Every
  cwd reference a process takes is put by the time idle shuts the VFS down.
- Descriptors and VFS: a file's reference count equals the number
  of descriptors that point to it. Vnode reference counts return to their
  starting value after every call, error paths included.

## 2. Plan

Modules, the most important behaviour first:

1. **ProcSched** (built), with **ProcLife** (built), the abstract process
   lifecycle that ProcSched's process table refines. The scheduler, mutexes, threads, process lifecycle
   and the idle/init boot path, as one module. They share the queues and the
   single CPU too closely to split. It also counts the cwd references that
   `proc_create`, `proc_cleanup`, `idleproc_run` and `initproc_run` take and
   put on `vfs_root_vn`. `MC_ProcSched` instantiates it.
2. **FdTable** (built). `get_empty_fd`, `do_open`, `do_close`, `do_dup`,
   `do_dup2`, `do_read`, `do_write` and `do_lseek` over a descriptor table, a
   pool of file objects and vnode reference counts. It checks reference
   counting, including the error paths. `MC_FdTable` instantiates it.
3. **PathResolver** (built). `lookup` and `dir_namev` as operators
   (the walk is RECURSIVE) over paths given as component sequences. They are
   checked against the resolution the VFS specification describes.
4. **VfsNamespace** (built). `open_namev`, and `do_mknod`, `do_mkdir`,
   `do_rmdir`, `do_unlink`, `do_link`, `do_rename`, `do_chdir` and `do_stat`
   over a small ramfs-like tree with vnode reference counts. It extends
   PathResolver. `MC_VfsNamespace` instantiates it.
5. **open over the name space** (built, in VfsNamespace). `do_open` with
   both branches of `open_namev` (with and without `O_CREAT`) on real paths,
   and `do_close`, over a table of descriptor slots. This joins what FdTable
   treats as an oracle to the name space, so that an open file's vnode
   reference meets `unlink` and the calls that allocate inodes. FdTable keeps
   the parts this join leaves out: the file objects, dup and the full table.
6. **KMutex** (built). The abstract mutex: one owner and a FIFO line of
   waiters. ProcSched's `holder` and `km_waitq` refine it under
   INSTANCE ... WITH.
7. Not built as runs: the pid pool running out, and a waiter that reads the
   exit status. Each would be a violation of its own, and both are recorded
   as hazards with the lines where they bite.

## 3. The ProcSched model

State (`VARIABLES`), against the code:
- `pstate`, `pproc`, `children`, `pstatus` and `next_pid` are the process
  fields of the same names. `pstate` uses "Free" for a pid that is not on
  `_proc_list`.
- `tstate`, `cancelled` and `wchan` are the thread fields, indexed by pid:
  there is one thread per process.
- `q` is each queue's list, oldest first. `ktqueue_enqueue` inserts at the
  head and `ktqueue_dequeue` takes from the tail, so a queue is FIFO.
- `curthr` is the global of that name.
- `cpu` and `ctx` model machine contexts. `ctx[x] = y` means thread x's
  `kt_ctx` holds thread y's continuation. `context_switch` saves `cpu` into
  the old thread's `ctx` and loads the new one. A loaded context is marked
  consumed (`NoCtx`). A thread can take a step only while `curthr = cpu = t`.
- `switching` means a `sched_switch` has started and not yet reached its
  `context_switch`.
- `pc` and `arg` record where each thread's code stands: between calls
  ("ready"), or suspended in a sleep, lock or waitpid, with the call's mutex
  or pid.
- `holder` is `km_holder`. `held` is the set of mutexes a thread has returned
  from `kmutex_lock` on.
- `cwd` is `p_cwd` while the process holds its reference. It is either
  `vfs_root_vn` (ProcSched never changes directory) or NULL. After the vput
  in `proc_cleanup`, `cwd` is NULL again: the code leaves the pointer, but
  no reference stands behind it and nothing reads it.
- `rootrefs` is `vfs_root_vn`'s `vn_refcount`. It starts at 1, the
  mount's own reference.
- `nullvn` records that the kernel has vref'd or vput a NULL `p_cwd`. The
  real kernel faults there. The model continues with the count unchanged, as
  VfsNamespace does with its `ub` flag, so that the rest of the run stays in
  view. No run states a property about it (see below).

Actions. Each one is a whole kernel call, up to the point where it calls
`sched_switch`:
- `IdleBoot` is `idleproc_run`'s `initproc_create` (`InitprocCreate`),
  then `init_call_all`. The init functions built in this tree are
  `sched_init` (`sched.c:19`), which only empties `kt_runq` (Init's empty
  queues), and `kthread_reapd_init`, which is compiled only under
  `__MTP__`. No boot process is created, so the next pid is 2.
  `IdleVfsInit` is its `__VFS__` block, which sets idle's cwd to the root
  with a vref (`CwdSetRoot`), then `intr_enable` and
  `sched_make_runnable(init)`. Interrupts are off until the end of that
  block, so `Interrupt` is not enabled before it.
- `InitprocRun` is the first lines of `initproc_run`, which set init's
  cwd to the root. After it, init's kernel-shell work is any `ThreadStep`.
- `Spawn` is `proc_create`, `kthread_create` and `sched_make_runnable`
  (`CreateRunnable` with `MakeRunnable`). `CwdInherit` is `proc_create`'s
  `if (pid > 2)` block: it copies and vrefs the creator's cwd.
- `LockCall` and `UnlockCall` are the kmutex calls.
- `DevSleep` is a driver's (cancellable) sleep, and `Interrupt` is its
  handler.
- `WaitpidCall`, `WaitLoop` and `Reap` are `do_waitpid`; `Reap` calls
  `KthreadDestroy` (`kthread_destroy`).
- `ExitCall` is `do_exit`, with `ProcCleanup` as `proc_cleanup`. Its
  `vput(curproc->p_cwd)` is `CwdPut`.
- `KillCall` is `proc_kill` of another process: `ProcKill` runs
  `KthreadCancel` (`kthread_cancel`, with `SchedCancel`) on its thread
  unless the thread has exited.
- `HaltCall` is `proc_kill_all`, called by `sys_halt` (not in this tree).
  It is not in `Next`. `HaltNext` and `HaltSpec` add it to the system for
  the one run about it.
- `Dispatch` is the else branch of `sched_switch`.
- `ResumeSleep`, `ResumeLock` and `ResumeWaitpid` are the code after a sleep
  returns.
- `IdleShutdown` is the end of `idleproc_run`: `vput` of idle's cwd
  (`CwdPut`), then the halt.

Data is abstracted:
- File descriptors are left to the VFS modules. The cwd is a reference on
  `vfs_root_vn` or NULL, because no ProcSched action changes directory.
- A process's name and its page directory are not modelled.
- Exit statuses are a small set.
- Kernel code between calls is free to call anything in any order, except
  that it does not wait or exit while holding a mutex.

### Runs

| Run | Checks | Shows |
|---|---|---|
| `sched_safe` (pass) | TypeOK, QueueDiscipline, MutexOwnership, ProcTree, ContextIntact, OnlyLiveRun, ShutdownRefsBalanced, KMutexSpec, ProcLifeSpec; deadlock | With no cancellation, the queues, mutex ownership, the process tree and saved contexts are always consistent. Only live processes' threads run. Every cwd reference has been put when the kernel halts. The kernel mutex implements KMutex, the process table implements ProcLife, and the kernel never gets stuck. About 290,000 states, under a minute. |
| `sched_cancel` (pass) | QueueDiscipline, ProcTree, ProcLifeSpec | `kthread_cancel`, `sched_cancel` of a cancellable sleep on a device queue or a `km_waitq`, and a cancelled thread's exit inside `sched_switch` keep every queue and the tree consistent, and the process table still implements ProcLife. The first cancelled thread dispatched strands the CPU (`context_lost`), so this run is about the steps up to and including that exit, not what runs after it. |
| `idle_halts` (pass) | IdleReapsInit | Under fairness, once init has exited, idle reaps it and halts. |
| `context_lost` (violation) | ContextIntact | `sched.c:268`: a cancelled thread is exited before the old thread's context is saved. The old thread's `kt_ctx` is stale, so it can never resume where it slept. |
| `lost_wakeup` (violation) | NoLostWakeup | `proc.c:213-219`: five pids. Init's great-grandchild exits while its parent is alive and not waiting. Init sleeps in `do_waitpid(-1)` on its child. When the grandchild exits, `proc_cleanup` hands the dead process to init and wakes only the grandchild's own parent, so init sleeps with a dead child to reap. 20 states deep. |
| `init_exit` (violation) | IdleReapsInit | `proc.c:176-186`: init exiting with children spins in `sched_switch` off every queue, so idle never halts. |
| `halt_resurrect` (violation) | OnlyLiveRun | `proc.c:292-295`: `proc_kill_all` marks a sleeping thread exited but leaves it on its device queue. The device's `sched_broadcast_on` makes it `KT_RUN`, and `sched_switch` runs the thread of a dead process. 15 steps. |

`proc_create` inherits the cwd only for pid > 2 (`proc.c:110`), while the
specification exempts only pids 0 and 1. No boot process takes pid 2 in
this tree (see `IdleBoot`), so pid 2 is init's first child. It starts with
a NULL cwd, and its exit vputs NULL (`proc.c:210`). TLC reaches the
`nullvn` flag in ten steps. A unit test that spawns and exits one process
reaches it too, so it is recorded as a hazard, not as a run.

Under `HaltSpec`, `proc_kill_all` also kills a mutex holder without an
unlock. `km_holder` then stays a dead thread, and later a reaped pid, so the
mutex is never free again. TLC finds this with `MutexOwnership` in ten
steps. It is recorded as a hazard, because a violation run states one
property and the run list is full.

The same exit inside `sched_switch` (`sched.c:268`) also breaks
MutexOwnership when cancellation is on. `kmutex_unlock` (`kmutex.c:120`)
makes a sleeper the holder, and the sleeper is cancelled before it runs, so
it exits still holding the mutex. TLC finds this with `MutexOwnership` under
`Cancellation = TRUE`. It has the same root cause as `context_lost`, so it
is recorded as a hazard in PROJECT.json, not as a run of its own.

Every property of a passing run has a mutant in PROJECT.json, a plausible bug
in one definition that TLC finds violating it. Examples: `kmutex_unlock`
without the handoff, `ktqueue_enqueue` without setting `kt_wchan`,
`sched_cancel` without `ktqueue_remove`, `context_switch` without the save,
and `proc_cleanup` waking only a cancellable sleeper.

### The abstract mutex and the refinement

`KMutex` says what a kernel mutex promises, with no scheduler: an owner, or
`NoThread`, and a line of waiters, longest-waiting first.
- `Acquire` takes a free mutex.
- `Block` joins the end of the line of an owned mutex.
- `Release` by the owner hands the mutex to the head of the line, or frees
  it when nobody waits.
- `Abandon` is a waiter whose cancellable sleep was broken leaving the line.

ProcSched instantiates it as `KM` with `owner <- holder` and
`waiters <- [m |-> q[MQ(m)]]`. `KMutexSpec == KM!Spec` is a PROPERTY of
`sched_safe`. So every step of ProcSched, including `Dispatch`, `Interrupt`
and `ProcCleanup`, which never touch a mutex, is either a KMutex step or
leaves `holder` and `km_waitq` unchanged. The mutant `UnlockCallNoHandoff`
(the unlock frees the mutex and wakes a sleeper without making it the owner)
is caught as a `Release` to `NoThread` with a waiter still in line.

`KMutexSpec` is not checked under cancellation. There, `sched_switch` exits
a cancelled thread that `kmutex_unlock` has just made the owner, and the
mutex stays with a dead thread (see the hazard at `kmutex.c:120`). The
abstract spec allows that, because it never forces an owner to release.
TLC finds it with `MutexOwnership` under `Cancellation = TRUE` (see below).

### The abstract process lifecycle and its refinement

`ProcLife` says what the process table promises, with no threads or queues.
Its state is each pid's `life` ("Free", "Running" or "Dead"), its `parent`
and its `status`.
- `Create` gives a running process a child on a free pid.
- `Die` ends a running process other than idle with a status. Its children,
  dead or alive, become init's. Init dies only once it has no children,
  because the design says init waits for all of them.
- `Reap` lets a running process free its own dead child.

ProcSched instantiates it as `PL` with `life <- pstate`,
`parent <- pproc` and `status <- pstatus`. `ProcLifeSpec == PL!Spec` is a
PROPERTY of `sched_safe` and of `sched_cancel`. The check covers every
step: `proc_create`, `proc_cleanup` (from `do_exit` or from the cancel
branch of `sched_switch`), `do_waitpid`'s reap, and every scheduler step,
which must leave the three fields alone. `Reap` also resets `p_pproc` of
the reaped process's children, so ProcLife's `Reap` holds only if those
children were already handed to init at the death. Its mutant is a
`do_waitpid` that reaps a matching child without testing `PROC_DEAD`.
`proc_kill_all` is outside `Spec`: it makes processes dead without handing
their children to init, and `HaltSpec` is not checked against ProcLife.

### Bounds and why they are enough

- `PROC_MAX_COUNT = 4` (idle, init, a child, a grandchild). This is the
  smallest pool where a process exits with children, so reparenting to init,
  and init reaping a reparented grandchild, both happen. Pids are reused, so
  wrap-around of `next_pid` also happens.
- With cancellation, the pool is 3 (init and one child). Cancellation needs
  only a killer and a victim, and the first cancelled thread that is
  dispatched stops the CPU anyway. With 4 pids the run takes about 13
  minutes, which is over the time budget.
- `lost_wakeup` needs 5 pids: a dead process reaches a sleeping init only by
  being reparented from a parent other than init, so there are three
  generations below init. Its run has no mutex, to keep it small.
- The cwd property needs no more: with four pids, pid 3 can
  inherit init's root cwd or pid 2's NULL one, and pid 2 is reused after
  it is reaped. So `ShutdownRefsBalanced` sees both kinds of vref and every
  path to a vput.
- One mutex: handoff, queued waiters and a waiter that times out on a
  cancelled holder all need just one mutex.
- The exit status is 0 only, which is what every caller in the code passes.
- In runs without cancellation, cancellable sleeps are not explored
  separately. They behave exactly like plain sleeps when `kt_cancelled` is
  never set.

### Fairness

`sched_switch` always completes (`Dispatch`), a suspended call resumes once
its thread is back on the CPU, a device with sleepers eventually interrupts,
and idle's own straight-line code goes on (`IdleBoot`, `IdleVfsInit`, its
wait and `IdleShutdown`), as do the first lines of `initproc_run`
(`InitprocRun`), which set init's cwd before anything can block. All of these follow from the code:
the CPU executes whatever is current. Other kernel code is never forced to
make a call, so a thread may idle forever between calls. The liveness property
is therefore stated only for idle, whose code is fixed. It is checked without
cancellation (`idle_halts`). With cancellation the first cancelled dispatch
strands the CPU (`context_lost`), so idle never halts after a kill and the
property says nothing there.

`CHECK_DEADLOCK FALSE` appears in three kinds of run:
- The violation runs and the cancellation run, where the kernel really does
  stop: after a lost context, a stranded mutex or init's spin.
- `idle_halts`. A stuck state there counts as stuttering, which the leads-to
  rejects. `sched_safe` checks deadlock on the same state space.

### Not modelled, and why

- Memory management, drivers and the kernel shell: they are not part of this
  source tree.
- MTP code (`kthread_clone`, `join`, `detach`, the reaper): not built.
- `proc_info`, `proc_list` and `dbg` output: text formatting only.
- The pid pool running out (`_proc_getid` returns -1 and `proc_create` uses
  it unchecked). A process with pid -1 would need a slot outside the pid
  pool. It is never linked on its parent's `p_children`, so it could never
  be reaped. This is recorded as a hazard (`proc.c:64`).
- `do_waitpid` on a pid that no longer exists, which dereferences NULL: the
  model's callers pass only existing pids.
- The status `proc_kill` passes. It stores a pointer to its own parameter
  in the victim's `kt_retval` (`proc.c:265`), but the victim exits through
  `sched_switch`'s `do_exit(0)`, so a killed process always dies with 0.
  The model does the same: `KillCall` takes no status. This is recorded
  as a hazard.
- The exit status a waiter reads. `do_waitpid` assigns its own `status`
  parameter (`proc.c:423`), so the caller's status is never written. This
  is recorded as a hazard.

## 4. The FdTable model

One process's descriptor layer: `fs/open.c` and the descriptor calls of
`fs/vfs_syscall.c`. A process has one thread and `p_files` is never shared,
so the calls of a process form a sequence and each action is one whole call.

State, against the code:
- `fdt` is `curproc->p_files`; `NoFile` is NULL.
- `fref`, `fmode`, `fpos` and `fvnode` are the `file_t` fields of a small slab
  of files (`FileIds`); a file with `fref = 0` is free. `fs/file.c` is not in
  this tree, so `FreeFiles` (`fget(-1)`) and `Fput` follow the VFS design:
  `fget(-1)` returns a zeroed file with one reference, `fput` drops one and
  puts the vnode when the count reaches zero.
- `vcount` and `vlen` are `vn_refcount` and `vn_len` of a directory and a
  regular file. `BASE_REFS` stands for references held elsewhere (the
  directory tree, cwd).
- `oob` records that `p_files` was indexed outside `0 .. NFILES-1`. What
  such a write corrupts is undefined, so the model records it and goes on.

Actions: `OpenCall` (`do_open`), `CloseCall`, `ReadCall`, `WriteCall`,
`DupCall`, `Dup2Call`, `GetdentCall` and `LseekCall`. `WithFd` is the range
and NULL checks they share (`fd > NFILES` lets `fd = NFILES` through);
`Leak` is an error return after `fget` without the `fput`. `open_namev` is
an oracle: it returns a vnode with one new reference, or, when
`OpenCanFail`, fails leaving `res_vnode` uninitialised (any value).
(VfsNamespace models `do_open` again with the real `open_namev`; see
section 5.) The vnode operations are those of a
ramfs-like file system: read returns the bytes before `vn_len`, write
extends the file, readdir yields one entry per call.

### Runs

| Run | Checks | Shows |
|---|---|---|
| `fd_refs` (pass) | TypeOK, NoDanglingFd, VnodeRefsExact | Over every call sequence, no slot names a freed file and vnode reference counts are exactly the live files on them, leaks included. About 500,000 states, 75 s. |
| `open_isdir_leak` (violation) | FileRefsExact | `open.c:142`: opening a directory `O_WRONLY` returns EISDIR and leaks the allocated file. |
| `dup_full` (violation) | NoOutOfBounds | `vfs_syscall.c:239`: `dup` on a full table writes `p_files[-EMFILE]`. |

`do_open`'s mode switch (`open.c:155-190`) has no case for
`O_RDONLY|O_APPEND`, so such a file gets `f_mode` 0, which `do_read` and
`do_write` both accept. The model keeps this (`CodeMode`), but no run states
it: it is one missing case that a unit test reaches directly, and the run
list goes to the deeper questions.

`FileRefsExact` (a file's reference count equals its slots) is the
descriptor invariant of the VFS design, and the code breaks it in several
places: the error returns of `do_open`, `do_read` and `do_write`, and
`dup2(fd, fd)`. `fd_refs` therefore checks the weaker `NoDanglingFd` (never
fewer references than slots), which holds, and `VnodeRefsExact`, which
holds as long as `open_namev` does not fail: with `OpenCanFail` TLC shows at
once that `do_open` puts its uninitialised `res_vnode` (`open.c:134`).

Two more disagreements turn up while modelling and are not separate runs.
- `dup2(fd, fd)` skips the close but still calls `fref` (`vfs_syscall.c:299`).
  It adds a reference where the specification says nothing changes.
  FileRefsExact finds it with `FileIds <- MC_FileIdsOne`.
- `do_open`'s flag test (`open.c:79`, `OflagsRejected`) rejects every `oflags`
  for which `oflags - 3` is even and not negative. So `O_WRONLY|O_CREAT` is
  refused, and the error it returns is a positive EINVAL.

Mutants: `dup2` without its `fref` (NoDanglingFd), `fput` without the
`vput` (VnodeRefsExact), `lseek` storing a negative position (TypeOK).

### Bounds

`NFILES = 2` and three files: a full table, a leaked file beside two open
ones, and two slots sharing one file through `dup` or `dup2` all occur.
One directory and one regular vnode give both the EISDIR paths and reads
and writes. `MAX_LEN = 1` and `NBYTES = 1` make reads reach end of file and
appends move the position; `MAX_REFS = 2` lets a shared file and a leaked
reference both occur. The descriptor arguments run from -1 to `NFILES`, so
every range check is taken. `fd_refs` checks deadlock: every state has a
call to make. The violation runs do not, since they stop at the violation.

Not modelled here: `O_CREAT` (it only changes what `open_namev` does; it is
modelled in VfsNamespace) and the closing of every descriptor in
`proc_cleanup`. That loop is `do_close` on each slot of the exiting
process's own table; there is no fork, so no other process shares those
files, and it adds no interleaving to what `CloseCall` already checks.

FdTable's oracle hands `do_open` one new reference per successful
`open_namev`, and VnodeRefsExact rests on that. The real `open_namev` does
so only without `O_CREAT`: with it, a new file comes back with two
references (`namev.c:331`, modelled in VfsNamespace's `CreatedAt`), and
one of them is never put. So VnodeRefsExact holds for the lookup branch
only; over files created by `open` the count is one higher for good.

## 5. The PathResolver and VfsNamespace models

`fs/namev.c` and the name space calls of `fs/vfs_syscall.c`, for one process
over a ramfs-like file system. On a ramfs nothing sleeps inside these calls,
so the calls of a process form a sequence and each action is one whole call.

**PathResolver** (`PathResolver.tla`) holds the resolution operators.
- A path is a record `[lead, comps]`:
  - `lead` is `"abs"` (starts with `/`), `"rel"` (`./` or no prefix),
    `"dotdot"` (starts with `../`) or `"bare"` (the whole path is `.` or `..`);
  - `comps` are its components.
- A component is a name, `.`, `..` or `DotName(n)`, a name that starts with
  a dot. The characters of a name matter to `dir_namev` only through that
  leading dot.
- `Lookup` is `lookup`: ENOTDIR for a non-directory, ENOENT for a missing
  name.
- `Walk` is the loop of `dir_namev` over the directory part.
- `DirNamev` is `dir_namev`:
  - the three starting points: cwd, `lookup(cwd, "..")`, and the root;
  - the basename;
  - `leak`, the `..` reference that is never put;
  - `Undefined` for the paths where `strlen(f_name) - namelen - 1` wraps
    around.
- `RefDirNamev` is the resolution the VFS specification describes, and
  `AgreesOn` compares the two.

**VfsNamespace** (`VfsNamespace.tla`, which extends PathResolver) holds the
state of the name space.
- `kind`, `entry`, `dotdot` and `nlink` are the inodes of the file system.
- `vcount` is `vn_refcount`.
- `cwd` is `curproc->p_cwd`.
- `files[fd]` is the vnode of the file in `curproc->p_files[fd]`, or
  `NoIno` for an empty slot. Each descriptor has its own file here (there
  is no dup), so the file's single `fput` at close puts the vnode.
- `ub` records that a call did something C leaves undefined. This covers
  `mknod`'s `memset` through an uninitialised pointer, `open_namev` after a
  failed `dir_namev`, and the `O_CREAT` paths listed below.
- `oops` records a kernel fault. `do_link` calls the link operation of a
  target parent that is not a directory; that vnode has none, so the call
  goes through a NULL pointer (`vfs_syscall.c:735`). After the fault no call
  runs again (`Do` requires `~oops`), and `do_rename` never reaches its
  unlink.

Each call is a function from a state record to a state record, so
`do_rename` is `UnlinkOp(LinkOp(s, o, n), o)` as in the code, unless the
link faulted. A
call is split where its C code holds an intermediate result: `dir_namev`'s
result, a lookup, or the state after a `vput`. The helper that continues
the call takes that result as an argument. For example, `RmdirOp` becomes
`RmdirAt` (after `dir_namev`) and then `RmdirLooked` (after the lookup and
the parent's `vput`).

The file system's vnode operations are not in this tree. `RamfsCreate`,
`RamfsRmdir`, `RamfsUnlink` and `RamfsLink` follow the VFS design:
- an inode lives while a name or a reference holds it (`Live`). Because of
  the leaked references listed below, no inode a call has created is ever
  free again in this code, so `Live` decides only which inode a create
  gets first;
- `rmdir` wants an empty directory;
- `link` refuses directories.

`do_open` is `OpenOp`:
- The flag test (`OflagsRejected`) refuses `oflags - 3` when it is even and
  not negative, so `O_WRONLY|O_CREAT` is EINVAL. `NamevFlag` is the switch
  that hands every `O_CREAT` combination to `open_namev` as `O_CREAT`.
- Without `O_CREAT`, `OpenNamev` is the lookup branch, as `do_link` and
  `do_stat` use it.
- With `O_CREAT`, `CreatOpenNamev`, `CreatOpenAt` and `CreatedAt` are
  `namev.c:273-336`:
  - a `./` path (lead `"dotslash"`; only this branch tells it from a path
    with no prefix) calls `create` with a `name` never set, and a `../`
    path calls `strlen(name)` on it;
  - any `dir_namev` error returns before `*res_vnode` is written, and
    `do_open` then tests and puts that unset pointer;
  - a parent that is not a directory is ENOTDIR with `*res_vnode = NULL`;
  - `create` is called with no lookup first. The VFS design calls it only
    after a lookup fails (spec: "if `flag` has `O_CREAT` and basename lookup
    failed"), so an existing name is outside its contract; so is ENOSPC,
    after which `vref(*res_vnode)` reads the unset pointer. All of these set
    `ub`;
  - a new file holds two references: `create`'s and the `vref` after it.
- `OpenedFd` is `do_open` after `open_namev`: on failure it clears the slot
  (lookup failures have set `res_vnode` to NULL, so there is nothing to put);
  a directory opened with exactly `O_WRONLY` or `O_RDWR` is put, EISDIR;
  otherwise the slot names the vnode. The slot is `EmptyFds`' lowest, as in
  `get_empty_fd`. A full table is FdTable's question, so `OpenCall` is taken
  only when a slot is free.
- `CloseOp` is `do_close` on an open slot: it clears the slot and puts the
  vnode.

The actions are `MknodCall`, `MkdirCall`, `RmdirCall`, `UnlinkCall`,
`ChdirCall`, `StatCall`, `LinkCall`, `RenameCall`, `OpenCall` and
`CloseCall`. Init is the state
`idleproc_run` leaves: an empty root, referenced by `vfs_root_vn` and as the
cwd.

### Runs

| Run | Checks | Shows |
|---|---|---|
| `vfs_safe` (pass) | TypeOK, ResolveAgrees, VnodeHeld, MkdirRmdirIdentity; no deadlock check | Over every sequence of the ten calls (open with and without `O_CREAT`, and close, included) on paths of up to two components, `dir_namev` agrees with the specification's resolution (dot-names aside), the root, the cwd and every open descriptor keep their references, and mkdir then rmdir restores the tree. 46,698 states, about 80 s. |
| `rename_lost` (violation) | RenameKeepsFile | `vfs_syscall.c:754`: the calls are `open` and `rename` on `/a` and `/b`, so every step is defined. Two `open`s with `O_CREAT` make `/a` and `/b`. `rename` onto the existing name makes `do_link` fail with EEXIST. `do_unlink` still runs, so the file loses its only name. |

`dir_namev` also resolves a relative path whose first name begins with a
dot, such as `.a/b`, from the root, looking `.a` up as `a` (`namev.c:132`).
The paths of the runs have no such name, and ResolveAgrees is not stated
for them: a unit test on one path reaches this.

Facts the model exposes and no run states, because each breaks on the
first call that triggers it (listed as hazards in PROJECT.json):
- `do_mkdir` and `do_mknod` look up the new node and never put it
  (`vfs_syscall.c:398, 477`);
- every `../` path leaks a reference on the cwd's parent (`namev.c:123`).

- `open_namev`'s `O_CREAT` branch `vref`s the vnode `create` already
  returned referenced (`namev.c:331`), so a file created by open is never
  freed either.

So `vcount` only ever gives a lower bound. VnodeHeld states that lower
bound: the root's, the cwd's and one per open descriptor. Its mutant is a
`chdir` that installs the new cwd without keeping the lookup's reference.
TypeOK's
mutant drops `dir_namev`'s reference, so counts go negative. ResolveAgrees'
mutant resolves `../` from the cwd. MkdirRmdirIdentity's mutant makes
`rmdir` look the name up in the cwd.

### Bounds

- **Inodes:** three (the root and two more). That is enough for a
  directory with a child, a removed cwd, and a device node beside a
  directory.
- **Names:** `a` and `b`.
- **Paths:** every component sequence of length 1 or 2 over `a`, `b` and
  `..`, with each of the three leads, plus the bare `.` and `..`.
- **Link and rename paths:** `/a`, `/b` and `/a/b`. These give a rename
  onto an existing name, a rename into a directory, and a link under a
  non-directory.
- **Open paths:** `/a`, `/b`, `/a/b`, `a`, `./a`, `../a` and `.`, with
  `O_RDONLY`, `O_WRONLY` (EISDIR on a directory), `O_RDONLY|O_CREAT` and
  `O_RDWR|O_CREAT` (the `O_CREAT` combinations the flag test lets
  through). **Descriptor slots:** two, so one file can stay open while
  another is opened and closed.
- **MAX_VREF = 3:** this caps the leaked references, so the state space is
  finite; a call that would exceed the cap is not taken.
- **Deadlock:** not checked. A call can always be made until a kernel
  fault (`oops`), after which the kernel has stopped.

### Not modelled

- What happens after an undefined step of the `O_CREAT` branch (the unset
  `name` of `./` and `../` paths, `create` on an existing name): `ub` is set
  and the call changes nothing else. Each of these is reached by a single
  call, so a unit test finds it; they are not hazards of their own.
- `ENAMETOOLONG` and paths with repeated `/`: their characters are
  abstracted away.
- `do_mount` and `do_umount`, which are stubs.
- Several processes sharing the tree. Nothing in these calls sleeps on a
  ramfs, so interleaving processes would only reorder whole calls.
