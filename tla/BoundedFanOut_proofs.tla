------------------------ MODULE BoundedFanOut_proofs -------------------------
(***************************************************************************)
(* Proofs about run_bounded_concurrent, for every number of tasks and      *)
(* every limit. Everything follows from one invariant of the calling       *)
(* thread's position: tasks before the wave are joinable, tasks of the     *)
(* wave up to next_task have a thread, tasks from there on have none.      *)
(***************************************************************************)
EXTENDS BoundedFanOut, FiniteSetTheorems, TLAPS

\* Where the calling thread is, and what that says of each task.
Position ==
    /\ Returned => next_task = task_count
    /\ ~Returned => next_task \in wave_begin .. wave_end
    /\ \A i \in Tasks : i < wave_begin => task[i] = "joinable"
    /\ \A i \in Tasks : i < next_task => task[i] # "none" /\ runs[i] = 1
    /\ \A i \in Tasks : i >= next_task => task[i] = "none" /\ runs[i] = 0

Inv == TypeOK /\ Position

\* A wave is never empty: std::max turns a limit of zero into one.
LEMMA WaveSize == wave_size \in Nat /\ wave_size >= 1
BY CountsAssumption DEF wave_size

\* A wave has no end past the last task and no more tasks than wave_size.
LEMMA WaveEnd ==
    ASSUME TypeOK
    PROVE  /\ wave_end \in Nat
           /\ wave_end <= task_count /\ wave_end <= wave_begin + wave_size
           /\ ~Returned => wave_begin < wave_end
           /\ wave_end = task_count \/ wave_end = wave_begin + wave_size
BY CountsAssumption, WaveSize DEF wave_end, Returned, TypeOK

\* Before the first wave no task has a thread.
LEMMA InvInit == Init => Inv
BY CountsAssumption, WaveSize DEF Init, Inv, TypeOK, Position, Returned, Tasks, wave_end

\* Spawning, ending and joining tasks keep the position of the calling thread.
LEMMA InvNext == Inv /\ [Next]_vars => Inv'
<1> SUFFICES ASSUME Inv, [Next]_vars PROVE Inv'
    OBVIOUS
<1> USE CountsAssumption, WaveSize DEF Inv, Tasks
<1>e. /\ wave_end \in Nat
      /\ wave_end <= task_count /\ wave_end <= wave_begin + wave_size
      /\ ~Returned => wave_begin < wave_end
      /\ wave_end = task_count \/ wave_end = wave_begin + wave_size
    BY WaveEnd
<1>1. CASE Spawn
    <2>1. next_task \in Tasks /\ next_task < wave_end
        BY <1>1, <1>e DEF Spawn, TypeOK
    <2>2. TypeOK'
        BY <1>1, <1>e, <2>1 DEF Spawn, TypeOK
    <2>3. wave_end' = wave_end /\ (Returned' <=> Returned)
        BY <1>1 DEF Spawn, wave_end, Returned
    <2>4. (~Returned => next_task \in wave_begin .. wave_end)'
        BY <1>1, <1>e, <2>1, <2>3 DEF Spawn, TypeOK, Position
    <2>5. Position'
        BY <1>1, <2>1, <2>3, <2>4 DEF Spawn, TypeOK, Position
    <2> QED BY <2>2, <2>5
<1>2. CASE NextWave
    <2>1. TypeOK'
        BY <1>2 DEF NextWave, TypeOK
    <2>2. next_task = wave_end /\ ~Returned
        BY <1>2 DEF NextWave
    <2>3. Returned' => next_task' = task_count
        BY <1>2, <1>e, <2>2 DEF NextWave, TypeOK, Returned
    <2>4. ~Returned' => next_task' = wave_begin'
        BY <1>2, <1>e, <2>2 DEF NextWave, TypeOK, Returned
    <2>5. ~Returned' => wave_begin' <= wave_end'
        BY <2>1, <1>2 DEF NextWave, TypeOK, Returned, wave_end
    <2>6. \A i \in Tasks : i < wave_begin' => task'[i] = "joinable"
        BY <1>2, <1>e, <2>2 DEF NextWave, TypeOK, Position
    <2>7. wave_end' \in Nat
        BY <2>1, <1>2 DEF NextWave, TypeOK, wave_end
    <2>8. (~Returned => next_task \in wave_begin .. wave_end)'
        <3> SUFFICES ASSUME ~Returned' PROVE next_task' \in wave_begin' .. wave_end'
            OBVIOUS
        <3> QED BY <2>1, <2>4, <2>5, <2>7 DEF TypeOK
    <2> QED BY <1>2, <2>1, <2>3, <2>6, <2>8 DEF NextWave, Position
<1>3. ASSUME NEW j \in Tasks, Finish(j) PROVE Inv'
    <2>1. TypeOK'
        BY <1>3 DEF Finish, TypeOK
    <2>2. wave_end' = wave_end /\ (Returned' <=> Returned)
        BY <1>3 DEF Finish, wave_end, Returned
    <2>3. j < next_task
        BY <1>3 DEF Finish, Position, TypeOK
    <2> QED BY <1>3, <2>1, <2>2, <2>3 DEF Finish, Position, TypeOK
<1>4. CASE UNCHANGED vars
    BY <1>4 DEF vars, TypeOK, Position, Returned, wave_end
<1> QED BY <1>1, <1>2, <1>3, <1>4 DEF Next

\* The invariant holds in every state of run_bounded_concurrent.
THEOREM Invariance == Spec => []Inv
<1>1. Init => Inv BY InvInit
<1>2. Inv /\ [Next]_vars => Inv' BY InvNext
<1> QED BY <1>1, <1>2, PTL DEF Spec

\* The indices of run_bounded_concurrent stay in range, for any count and limit.
THEOREM TypeCorrect == Spec => []TypeOK
<1>1. Inv => TypeOK BY DEF Inv
<1> QED BY <1>1, Invariance, PTL

\* "in waves of at most concurrency_limit" threads (osv.cpp:37): the threads
\* running are among the tasks of the current wave.
THEOREM WavesBounded == Spec => []InFlightBounded
<1>1. Inv => InFlightBounded
    <2> SUFFICES ASSUME Inv PROVE InFlightBounded
        OBVIOUS
    <2> USE CountsAssumption, WaveSize
    <2>1. CASE Returned
        <3>1. Running = {}
            BY <2>1 DEF Running, Inv, Position, Returned, Tasks, TypeOK
        <3> QED BY <3>1, FS_EmptySet DEF InFlightBounded
    <2>2. CASE ~Returned
        <3> DEFINE wave == wave_begin .. wave_begin + wave_size - 1
        <3>1. Running \subseteq wave
            BY <2>2, WaveEnd DEF Running, Inv, Position, Tasks, TypeOK
        <3>2. IsFiniteSet(wave) /\ Cardinality(wave) = wave_size
            BY FS_Interval DEF Inv, TypeOK
        <3>3. Cardinality(Running) <= Cardinality(wave)
            BY <3>1, <3>2, FS_Subset
        <3> QED BY <3>2, <3>3 DEF InFlightBounded
    <2> QED BY <2>1, <2>2
<1> QED BY <1>1, Invariance, PTL

\* "Every job has joined before this returns" (osv.cpp:42), and ran exactly once.
THEOREM EachRanOnce == Spec => []EachRanOnceWhenReturned
<1>1. Inv => EachRanOnceWhenReturned
    BY CountsAssumption DEF Inv, Position, TypeOK, EachRanOnceWhenReturned, Returned, Tasks
<1> QED BY <1>1, Invariance, PTL
==============================================================================
