------------------------------ MODULE ProcLife ------------------------------
(***************************************************************************)
(* What the Weenix process lifecycle promises (proc/proc.c and the         *)
(* process section of the design), with no threads, queues or scheduler:   *)
(* a running process creates a child on a free pid; a running process     *)
(* other than idle dies with a status, and its children are handed to      *)
(* init as it dies; init dies only once it has no children left; a dead    *)
(* process is freed only by its own parent, and only once it is dead.      *)
(***************************************************************************)
CONSTANTS
    Pids,       \* the pid pool
    NoProc,     \* no parent
    IdlePid,    \* pid 0, which never dies
    InitPid,    \* pid 1, the parent of every orphan
    Statuses    \* the exit statuses, and the 0 of a live process

VARIABLES
    life,       \* life[p] \in {"Free", "Running", "Dead"}
    parent,     \* parent[p]: p's parent, or NoProc
    status      \* status[p]: the status p died with, 0 while it runs

lvars == <<life, parent, status>>

ChildrenOf(p) == {c \in Pids : parent[c] = p}

Init ==
    /\ life   = [p \in Pids |-> IF p = IdlePid THEN "Running" ELSE "Free"]
    /\ parent = [p \in Pids |-> NoProc]
    /\ status = [p \in Pids |-> 0]

\* Running process p creates a process on the free pid c.
Create(p, c) ==
    /\ life[p] = "Running" /\ life[c] = "Free"
    /\ life'   = [life EXCEPT ![c] = "Running"]
    /\ parent' = [parent EXCEPT ![c] = p]
    /\ status' = [status EXCEPT ![c] = 0]

\* Running process p dies with status st; its children become init's.
\* Init dies only after it has waited for all its children.
Die(p, st) ==
    /\ life[p] = "Running" /\ p # IdlePid
    /\ p = InitPid => ChildrenOf(p) = {}
    /\ life'   = [life EXCEPT ![p] = "Dead"]
    /\ parent' = [c \in Pids |-> IF parent[c] = p THEN InitPid ELSE parent[c]]
    /\ status' = [status EXCEPT ![p] = st]

\* Running process p frees its dead child c.
Reap(p, c) ==
    /\ life[p] = "Running" /\ life[c] = "Dead" /\ parent[c] = p
    /\ life'   = [life EXCEPT ![c] = "Free"]
    /\ parent' = [parent EXCEPT ![c] = NoProc]
    /\ UNCHANGED status

Next ==
    \E p, c \in Pids, st \in Statuses :
        Create(p, c) \/ Die(p, st) \/ Reap(p, c)

Spec == Init /\ [][Next]_lvars

=============================================================================
