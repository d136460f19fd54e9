---------------------------- MODULE BoundedFanOut ----------------------------
(***************************************************************************)
(* run_bounded_concurrent (src/src/vuln/osv.cpp and                        *)
(* src/src/vuln/license_enrichment.cpp): task_count jobs in waves of at    *)
(* most concurrency_limit threads. The calling thread spawns the threads   *)
(* of a wave one by one and joins all of them, in the destructors of the   *)
(* wave's JoiningThreads, before the next wave or before it returns.       *)
(***************************************************************************)
EXTENDS Integers, FiniteSets

CONSTANTS
    task_count,
    concurrency_limit

ASSUME CountsAssumption == task_count \in Nat /\ concurrency_limit \in Nat

VARIABLES
    wave_begin,     \* first task of the wave, task_count or more once returned
    next_task,      \* the task the calling thread spawns next
    task,           \* "none", "running" or "joinable": the thread of each task
    runs            \* how often run_one was called for each task

vars == <<wave_begin, next_task, task, runs>>

Tasks == 0 .. task_count - 1

\* A limit of zero still runs one thread at a time.
wave_size == IF concurrency_limit > 1 THEN concurrency_limit ELSE 1

wave_end == IF wave_begin + wave_size < task_count THEN wave_begin + wave_size ELSE task_count

Returned == wave_begin >= task_count

Init ==
    /\ wave_begin = 0 /\ next_task = 0
    /\ task = [i \in Tasks |-> "none"]
    /\ runs = [i \in Tasks |-> 0]

\* The calling thread starts the thread of the next task of the wave.
Spawn ==
    /\ ~Returned /\ next_task < wave_end
    /\ task' = [task EXCEPT ![next_task] = "running"]
    /\ next_task' = next_task + 1
    /\ runs' = [runs EXCEPT ![next_task] = @ + 1]
    /\ UNCHANGED wave_begin

\* run_one(i) returns.
Finish(i) ==
    /\ task[i] = "running"
    /\ task' = [task EXCEPT ![i] = "joinable"]
    /\ UNCHANGED <<wave_begin, next_task, runs>>

\* Variant for mutation: the threads of the wave are not joined.
NextWaveWithoutJoin ==
    /\ ~Returned /\ next_task = wave_end
    /\ wave_begin' = wave_begin + wave_size
    /\ UNCHANGED <<task, next_task, runs>>

\* Variant for mutation: the next wave begins at the last task of this one.
NextWaveOverlaps ==
    /\ ~Returned /\ next_task = wave_end
    /\ \A i \in Tasks : task[i] # "running"
    /\ wave_begin' = IF wave_end = task_count THEN task_count ELSE wave_end - 1
    /\ next_task' = wave_begin'
    /\ UNCHANGED <<task, runs>>

\* Variant for mutation: the threads of every task are joined.
NextWaveJoinsAll ==
    /\ ~Returned /\ next_task = wave_end
    /\ \A i \in Tasks : task[i] = "joinable"
    /\ wave_begin' = wave_begin + wave_size
    /\ UNCHANGED <<task, next_task, runs>>

\* Every thread of the wave has been joined.
NextWave ==
    /\ ~Returned /\ next_task = wave_end
    /\ \A i \in wave_begin .. wave_end - 1 : task[i] = "joinable"
    /\ wave_begin' = wave_begin + wave_size
    /\ UNCHANGED <<task, next_task, runs>>

Next == Spawn \/ NextWave \/ \E i \in Tasks : Finish(i)

Spec == Init /\ [][Next]_vars

\* The operating system runs every thread, and every job returns: an HTTP
\* request ends by its answer or by a timeout.
FairSpec ==
    /\ Spec
    /\ WF_vars(Spawn) /\ WF_vars(NextWave)
    /\ \A i \in Tasks : WF_vars(Finish(i))

------------------------------------------------------------------------------
Running == {i \in Tasks : task[i] = "running"}

TypeOK ==
    /\ wave_begin \in Nat /\ next_task \in 0 .. task_count
    /\ task \in [Tasks -> {"none", "running", "joinable"}]
    /\ runs \in [Tasks -> Nat]

\* "in waves of at most `concurrency_limit` JoiningThreads at a time"
\* (osv.cpp:37), with one thread for a limit of zero.
InFlightBounded == Cardinality(Running) <= wave_size

\* No task is skipped between two waves or run by two of them, and "every job
\* has joined before this returns" (osv.cpp:42), so that the caller may read
\* each slot and touch the cache without a lock.
EachRanOnceWhenReturned ==
    /\ \A i \in Tasks : runs[i] <= 1
    /\ Returned => \A i \in Tasks : runs[i] = 1 /\ task[i] = "joinable"

\* The caller gets its thread back although one slow job holds up a whole wave.
Returns == <>Returned
==============================================================================
