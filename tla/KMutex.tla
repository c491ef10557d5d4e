------------------------------- MODULE KMutex -------------------------------
(***************************************************************************)
(* What a Weenix kernel mutex promises its callers (include/proc/kmutex.h  *)
(* and the comments of proc/kmutex.c), with no scheduler in sight: a mutex *)
(* has at most one owner; a thread that finds it owned waits in line; the  *)
(* owner's unlock hands the mutex straight to the thread that has waited   *)
(* longest, so no later arrival overtakes it; and a thread whose           *)
(* cancellable wait is broken leaves the line without the mutex.           *)
(***************************************************************************)
EXTENDS Sequences, SequencesExt

CONSTANTS
    Threads,    \* the threads that may lock
    Mutexes,    \* the mutexes
    NoThread    \* no owner

VARIABLES
    owner,      \* owner[m]: the thread that holds m, or NoThread
    waiters     \* waiters[m]: the threads waiting for m, longest-waiting first

mvars == <<owner, waiters>>

\* Is t waiting for some mutex?  A waiting thread does not run, so it makes
\* no other lock call.
Waiting(t) == \E m \in Mutexes : t \in ToSet(waiters[m])

Init ==
    /\ owner = [m \in Mutexes |-> NoThread]
    /\ waiters = [m \in Mutexes |-> <<>>]

\* Lock a free mutex: t owns it at once.
Acquire(t, m) ==
    /\ owner[m] = NoThread /\ ~Waiting(t)
    /\ owner' = [owner EXCEPT ![m] = t]
    /\ UNCHANGED waiters

\* Lock a mutex another thread owns: t joins the end of the line.
Block(t, m) ==
    /\ owner[m] \notin {NoThread, t} /\ ~Waiting(t)
    /\ waiters' = [waiters EXCEPT ![m] = Append(@, t)]
    /\ UNCHANGED owner

\* The owner unlocks: the longest-waiting thread becomes the owner, or the
\* mutex is free when nobody waits.
Release(t, m) ==
    /\ owner[m] = t
    /\ owner' = [owner EXCEPT ![m] = IF waiters[m] = <<>> THEN NoThread
                                     ELSE Head(waiters[m])]
    /\ waiters' = [waiters EXCEPT ![m] = IF @ = <<>> THEN @ ELSE Tail(@)]

\* A waiting thread's cancellable wait is broken: it leaves the line.
Abandon(t, m) ==
    /\ t \in ToSet(waiters[m])
    /\ waiters' = [waiters EXCEPT ![m] = Remove(@, t)]
    /\ UNCHANGED owner

Next ==
    \E t \in Threads, m \in Mutexes :
        Acquire(t, m) \/ Block(t, m) \/ Release(t, m) \/ Abandon(t, m)

Spec == Init /\ [][Next]_mvars

=============================================================================
