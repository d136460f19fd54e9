------------------------ MODULE LicenseEnrichment_proofs ------------------------
(***************************************************************************)
(* Proofs about the license lookups of one run, for any number of lookups,  *)
(* any limit, interval, backoffs and deadline. The two passes never touch   *)
(* each other's lookups, so the invariant says where one lookup may be,     *)
(* which lookups of its own pass may be at work beside it, and which may    *)
(* still send a request once the deadline has passed. The fan-out of the     *)
(* PyPI/RubyGems pass is BoundedFanOut, and brings its invariant with it.    *)
(***************************************************************************)
EXTENDS LicenseEnrichment, FiniteSetTheorems, TLAPS

FanProofs == INSTANCE BoundedFanOut_proofs WITH task_count <- Others, concurrency_limit <- Concurrency

\* What the phase of a lookup says of its requests and their answer.
PhaseTellsOf(l) ==
    /\ phase[l] \in {"waiting", "pacing"} => attempt[l] = 0
    /\ phase[l] \in {"asking", "backoff"} => attempt[l] > 0
    /\ phase[l] = "backoff" => attempt[l] < MaxAttempts
    /\ phase[l] # "done" => response[l] = "none" /\ l \notin timed_out
    /\ phase[l] = "done" => IF l \in timed_out THEN attempt[l] = 0 /\ response[l] = "none"
                                               ELSE attempt[l] > 0 /\ response[l] # "none"
    /\ response[l] = "429" => attempt[l] = MaxAttempts
    /\ l \in asked_late => attempt[l] > 0 /\ clock >= Deadline

PhaseTells == \A l \in Lookups : PhaseTellsOf(l)

\* The crates.io thread works its lookups off one after the other, and past the
\* deadline it begins none.
CratesInOrder ==
    \A k, l \in CrateLookups : k[2] < l[2] =>
        /\ phase[l] # "waiting" => phase[k] = "done"
        /\ k \in asked_late => attempt[l] = 0 /\ phase[l] \in {"waiting", "done"}

\* A lookup that sleeps out the interval began to after the last answer.
PacedFromLastAnswer ==
    /\ last_answer <= clock
    /\ \A l \in CrateLookups : phase[l] = "pacing" => wake[l] >= last_answer + Interval

\* A lookup of the other pass is at work while its thread is.
WorkersHaveThreads ==
    /\ FanProofs!Inv
    /\ \A l \in OtherLookups :
          /\ phase[l] # "pacing"
          /\ task[l[2]] = "none" => phase[l] = "waiting"
          /\ task[l[2]] = "joinable" => phase[l] = "done"

\* The lookups of the other pass that ask past the deadline are of the wave that
\* was at work when it passed: none after that wave has sent or will send one.
LateInOneWave ==
    \E begin \in 0 .. wave_begin :
        \A l \in OtherLookups :
            /\ l \in asked_late => begin <= l[2]
            /\ asked_late \cap OtherLookups # {} /\ attempt[l] > 0 => l[2] < begin + Fan!wave_size

\* Offline nothing is begun, and otherwise nothing is counted before all is done.
CountedAtTheEnd ==
    /\ offline => /\ \A l \in Lookups : phase[l] = "waiting"
                  /\ \A i \in Fan!Tasks : task[i] = "none"
    /\ \A l \in Lookups : outcome[l] # "none" =>
          IF offline THEN outcome[l] \in {"stale", "unresolved"}
          ELSE outcome[l] = Bucket(l) /\ \A k \in Lookups : phase[k] = "done"

IInv == /\ TypeOK /\ PhaseTells /\ CratesInOrder /\ PacedFromLastAnswer
        /\ WorkersHaveThreads /\ LateInOneWave /\ CountedAtTheEnd

------------------------------------------------------------------------------
\* The fan-out's own proofs speak of the same state and the same steps.
LEMMA SameFan ==
    /\ Fan!Init => FanProofs!Init
    /\ Fan!Spawn => FanProofs!Spawn
    /\ Fan!NextWave => FanProofs!NextWave
    /\ \A i \in Fan!Tasks : Fan!Finish(i) => FanProofs!Finish(i) /\ i \in FanProofs!Tasks
    /\ UNCHANGED fan => UNCHANGED FanProofs!vars
    /\ Fan!Tasks = FanProofs!Tasks
BY DEF Fan!Init, Fan!Spawn, Fan!NextWave, Fan!Finish, Fan!Tasks, Fan!Returned, Fan!wave_end, Fan!wave_size,
       FanProofs!Init, FanProofs!Spawn, FanProofs!NextWave, FanProofs!Finish, FanProofs!Tasks,
       FanProofs!Returned, FanProofs!wave_end, FanProofs!wave_size, FanProofs!vars, fan

LEMMA FanInit == Fan!Init => FanProofs!Inv
BY SameFan, FanProofs!InvInit, LookupsAssumption

LEMMA FanStep ==
    ASSUME FanProofs!Inv,
           Fan!Spawn \/ Fan!NextWave \/ (\E i \in Fan!Tasks : Fan!Finish(i)) \/ UNCHANGED fan
    PROVE  FanProofs!Inv' /\ Fan!TypeOK'
<1>1. FanProofs!Inv /\ [FanProofs!Next]_(FanProofs!vars) => FanProofs!Inv'
    BY FanProofs!InvNext, LookupsAssumption
<1>2. FanProofs!Inv'
    BY <1>1, SameFan DEF FanProofs!Next
<1> QED BY <1>2 DEF FanProofs!Inv, FanProofs!TypeOK, FanProofs!Tasks, Fan!TypeOK, Fan!Tasks

\* What the passes use of it: a thread that was started is of this wave or was
\* joined, and all were joined when the call returns.
LEMMA FanFacts ==
    ASSUME FanProofs!Inv
    PROVE  /\ Fan!TypeOK /\ wave_begin \in Nat
           /\ task \in [Fan!Tasks -> {"none", "running", "joinable"}]
           /\ Fan!wave_size \in Nat /\ Fan!wave_size >= 1
           /\ \A i \in Fan!Tasks : i < wave_begin => task[i] = "joinable"
           /\ \A i \in Fan!Tasks : task[i] # "none" => i < wave_begin + Fan!wave_size
           /\ Fan!Returned => \A i \in Fan!Tasks : task[i] = "joinable"
<1> USE LookupsAssumption
<1>1. Fan!wave_size \in Nat /\ Fan!wave_size >= 1
    BY DEF Fan!wave_size
<1>2. /\ wave_begin \in Nat /\ next_task \in 0 .. Others
      /\ task \in [Fan!Tasks -> {"none", "running", "joinable"}] /\ runs \in [Fan!Tasks -> Nat]
    BY DEF FanProofs!Inv, FanProofs!TypeOK, FanProofs!Tasks, Fan!Tasks
<1>3. Fan!TypeOK
    BY <1>2 DEF Fan!TypeOK
<1>4. \A i \in Fan!Tasks : i < wave_begin => task[i] = "joinable"
    BY DEF FanProofs!Inv, FanProofs!Position, FanProofs!Tasks, Fan!Tasks
<1>5. \A i \in Fan!Tasks : task[i] # "none" => i < next_task
    BY <1>2 DEF FanProofs!Inv, FanProofs!Position, FanProofs!Tasks, Fan!Tasks
<1>6. ~Fan!Returned => next_task <= wave_begin + Fan!wave_size
    BY <1>1, <1>2 DEF FanProofs!Inv, FanProofs!Position, FanProofs!Returned, FanProofs!wave_end, FanProofs!wave_size,
       Fan!Returned, Fan!wave_size
<1>7. Fan!Returned => \A i \in Fan!Tasks : i < wave_begin
    BY <1>2 DEF Fan!Returned, Fan!Tasks
<1>8. \A i \in Fan!Tasks : task[i] # "none" => i < wave_begin + Fan!wave_size
    BY <1>1, <1>2, <1>5, <1>6, <1>7 DEF Fan!Tasks
<1> QED BY <1>1, <1>2, <1>3, <1>4, <1>7, <1>8

\* A lookup is its registry and its position.
LEMMA Positions ==
    /\ \A l \in CrateLookups : l \in Lookups /\ l[2] \in Nat /\ l \notin OtherLookups
    /\ \A l \in OtherLookups : l \in Lookups /\ l[2] \in Nat /\ l[2] \in Fan!Tasks /\ l \notin CrateLookups
    /\ \A k, l \in CrateLookups : k # l => k[2] < l[2] \/ l[2] < k[2]
BY LookupsAssumption DEF CrateLookups, OtherLookups, Lookups, Fan!Tasks

\* The lookups whose step it may be: those of a pass that is under way, at
\* crates.io after all before it, elsewhere on a thread.
AtWork(l) ==
    /\ ~offline /\ \A k \in Lookups : outcome[k] = "none"
    /\ l \in CrateLookups => \A k \in CrateLookups : k[2] < l[2] => phase[k] = "done"
    /\ l \in OtherLookups => task[l[2]] = "running"

\* What every step of one lookup has in common: nothing else moves, past the
\* deadline it is not begun, and its phase goes on telling the truth.
Moves(l) ==
    /\ UNCHANGED <<clock, offline, stale, fan, outcome>>
    /\ \A m \in Lookups \ {l} :
          /\ phase'[m] = phase[m] /\ attempt'[m] = attempt[m]
          /\ wake'[m] = wake[m] /\ response'[m] = response[m]
          /\ m \in timed_out' <=> m \in timed_out
          /\ m \in asked_late' <=> m \in asked_late
    /\ phase[l] # "done" /\ phase'[l] # "waiting"
    /\ phase[l] = "waiting" /\ clock >= Deadline => phase'[l] = "done" /\ attempt'[l] = 0
    /\ phase'[l] = "pacing" => l \in CrateLookups /\ wake'[l] >= last_answer' + Interval
    /\ last_answer' <= clock
    /\ last_answer' = last_answer \/ (l \in CrateLookups /\ phase[l] = "asking")
    /\ PhaseTellsOf(l)'

\* Beginning and ending a lookup on its own thread keeps the order of crates.io.
LEMMA CratesStayInOrder ==
    ASSUME IInv, TypeOK', NEW l \in Lookups, AtWork(l), Moves(l)
    PROVE  CratesInOrder'
<1> SUFFICES ASSUME NEW k \in CrateLookups, NEW m \in CrateLookups, k[2] < m[2]
             PROVE  /\ phase'[m] # "waiting" => phase'[k] = "done"
                    /\ k \in asked_late' => attempt'[m] = 0 /\ phase'[m] \in {"waiting", "done"}
    BY DEF CratesInOrder
<1>1. /\ phase[m] # "waiting" => phase[k] = "done"
      /\ k \in asked_late => attempt[m] = 0 /\ phase[m] \in {"waiting", "done"} /\ clock >= Deadline
    BY Positions DEF IInv, CratesInOrder, PhaseTells, PhaseTellsOf
<1>2. k # m /\ k \in Lookups /\ m \in Lookups
    BY Positions
<1>3. CASE k = l
    <2>1. phase[m] = "waiting" /\ attempt[m] = 0
        BY <1>1, <1>2, <1>3 DEF Moves, IInv, PhaseTells, PhaseTellsOf
    <2> QED BY <1>2, <1>3, <2>1 DEF Moves
<1>4. CASE m = l
    <2>1. phase'[k] = "done" /\ (k \in asked_late' => k \in asked_late)
        BY <1>2, <1>4 DEF AtWork, Moves
    <2>2. ASSUME k \in asked_late PROVE phase'[m] = "done" /\ attempt'[m] = 0
        BY <1>1, <1>4, <2>2 DEF Moves
    <2> QED BY <2>1, <2>2
<1>5. CASE k # l /\ m # l
    BY <1>1, <1>2, <1>5 DEF Moves
<1> QED BY <1>3, <1>4, <1>5

\* A lookup sent past the deadline is of the wave at work.
LEMMA LateStayInOneWave ==
    ASSUME IInv, TypeOK', NEW l \in Lookups, AtWork(l), Moves(l)
    PROVE  LateInOneWave'
<1> DEFINE late == asked_late \cap OtherLookups
<1>1. /\ wave_begin \in Nat /\ Fan!wave_size \in Nat
      /\ \A i \in Fan!Tasks : i < wave_begin => task[i] = "joinable"
      /\ \A i \in Fan!Tasks : task[i] # "none" => i < wave_begin + Fan!wave_size
    BY FanFacts DEF IInv, WorkersHaveThreads
<1>2. wave_begin' = wave_begin
    BY DEF Moves, fan
<1>3. PICK begin \in 0 .. wave_begin :
          \A m \in OtherLookups :
              /\ m \in asked_late => begin <= m[2]
              /\ late # {} /\ attempt[m] > 0 => m[2] < begin + Fan!wave_size
    BY DEF IInv, LateInOneWave
<1>4. late # {} => clock >= Deadline
    BY Positions DEF IInv, PhaseTells, PhaseTellsOf
<1>5. ASSUME NEW m \in OtherLookups, m # l
      PROVE  attempt'[m] = attempt[m] /\ (m \in asked_late' <=> m \in asked_late)
    BY <1>5, Positions DEF Moves
<1>6. ASSUME l \in OtherLookups, late # {}, attempt'[l] > 0 PROVE attempt[l] > 0
    <2>1. phase[l] # "waiting" /\ phase[l] # "pacing" /\ phase[l] # "done"
        BY <1>4, <1>6 DEF Moves, IInv, WorkersHaveThreads
    <2> QED BY <2>1 DEF IInv, TypeOK, PhaseTells, PhaseTellsOf
<1>7. l \in OtherLookups => wave_begin <= l[2] /\ l[2] < wave_begin + Fan!wave_size
    BY <1>1, Positions DEF AtWork
<1>8. CASE late # {}
    <2>1. ASSUME NEW m \in OtherLookups
          PROVE  /\ m \in asked_late' => begin <= m[2]
                 /\ attempt'[m] > 0 => m[2] < begin + Fan!wave_size
        <3>1. CASE m # l
            BY <1>3, <1>5, <1>8, <3>1
        <3>2. CASE m = l
            BY <1>1, <1>3, <1>6, <1>7, <1>8, <3>2, Positions
        <3> QED BY <3>1, <3>2
    <2> QED BY <1>2, <2>1 DEF LateInOneWave
<1>9. CASE late = {}
    <2>1. ASSUME NEW m \in OtherLookups
          PROVE  /\ m \in asked_late' => wave_begin <= m[2]
                 /\ asked_late' \cap OtherLookups # {} /\ attempt'[m] > 0 => m[2] < wave_begin + Fan!wave_size
        <3>1. m \in asked_late' => m = l
            BY <1>5, <1>9
        <3>2. CASE m = l
            BY <1>7, <3>2
        <3>3. CASE m # l
            <4>1. attempt[m] > 0 => task[m[2]] # "none"
                BY Positions DEF IInv, PhaseTells, PhaseTellsOf, WorkersHaveThreads
            <4> QED BY <1>1, <1>5, <3>1, <3>3, <4>1, Positions
        <3> QED BY <3>2, <3>3
    <2> QED BY <1>1, <1>2, <2>1 DEF LateInOneWave
<1> QED BY <1>8, <1>9

\* So a step of one lookup keeps all of it.
LEMMA MoveKeeps ==
    ASSUME IInv, TypeOK', NEW l \in Lookups, AtWork(l), Moves(l)
    PROVE  IInv'
<1>1. PhaseTells'
    <2> SUFFICES ASSUME NEW m \in Lookups PROVE PhaseTellsOf(m)'
        BY DEF PhaseTells
    <2>1. CASE m = l
        BY <2>1 DEF Moves
    <2>2. CASE m # l
        BY <2>2 DEF Moves, IInv, PhaseTells, PhaseTellsOf
    <2> QED BY <2>1, <2>2
<1>2. PacedFromLastAnswer'
    <2> SUFFICES ASSUME NEW m \in CrateLookups, phase'[m] = "pacing"
                 PROVE  wake'[m] >= last_answer' + Interval
        BY DEF PacedFromLastAnswer, Moves
    <2>1. CASE m = l
        BY <2>1 DEF Moves
    <2>2. CASE m # l
        <3>1. phase[m] = "pacing" /\ wake'[m] = wake[m] /\ wake[m] >= last_answer + Interval
            BY <2>2, Positions DEF Moves, IInv, PacedFromLastAnswer
        <3>2. ~(l \in CrateLookups /\ phase[l] = "asking")
            BY <2>2, <3>1, Positions DEF IInv, CratesInOrder
        <3> QED BY <3>1, <3>2 DEF Moves
    <2> QED BY <2>1, <2>2
<1>3. WorkersHaveThreads'
    <2>1. FanProofs!Inv' /\ task' = task
        BY FanStep DEF Moves, fan, IInv, WorkersHaveThreads
    <2> SUFFICES ASSUME NEW m \in OtherLookups
                 PROVE  /\ phase'[m] # "pacing"
                        /\ task[m[2]] = "none" => phase'[m] = "waiting"
                        /\ task[m[2]] = "joinable" => phase'[m] = "done"
        BY <2>1 DEF WorkersHaveThreads
    <2>2. CASE m = l
        BY <2>2, Positions DEF AtWork, Moves
    <2>3. CASE m # l
        BY <2>3, Positions DEF Moves, IInv, WorkersHaveThreads
    <2> QED BY <2>2, <2>3
<1>4. CountedAtTheEnd'
    BY DEF AtWork, Moves, CountedAtTheEnd
<1> QED BY <1>1, <1>2, <1>3, <1>4, CratesStayInOrder, LateStayInOneWave DEF IInv

\* A lookup that was begun and is not done is at work.
LEMMA BegunIsAtWork ==
    ASSUME IInv, NEW l \in Lookups, phase[l] \in {"pacing", "asking", "backoff"}
    PROVE  AtWork(l)
<1>1. ~offline /\ \A k \in Lookups : outcome[k] = "none"
    BY DEF IInv, CountedAtTheEnd
<1>2. l \in CrateLookups => \A k \in CrateLookups : k[2] < l[2] => phase[k] = "done"
    BY DEF IInv, CratesInOrder
<1>3. l \in OtherLookups => task[l[2]] = "running"
    <2>1. ASSUME l \in OtherLookups PROVE task[l[2]] \in {"none", "running", "joinable"}
        BY <2>1, FanFacts, Positions DEF IInv, WorkersHaveThreads
    <2> QED BY <2>1 DEF IInv, WorkersHaveThreads
<1> QED BY <1>1, <1>2, <1>3 DEF AtWork

\* http_get is called while attempts are left, and for the first time only
\* before the deadline or after a pause.
LEMMA GetMoves ==
    ASSUME IInv, NEW l \in Lookups, AtWork(l), Get(l), UNCHANGED <<clock, offline, stale, fan, outcome>>,
           \/ phase[l] = "waiting" /\ clock < Deadline
           \/ phase[l] \in {"pacing", "backoff"}
    PROVE  IInv'
<1> USE AttemptsAssumption, TimesAssumption
<1>1. /\ phase \in [Lookups -> {"waiting", "pacing", "asking", "backoff", "done"}]
      /\ attempt \in [Lookups -> 0 .. MaxAttempts] /\ wake \in [Lookups -> Nat]
      /\ asked_late \subseteq Lookups /\ clock \in 0 .. MaxTime /\ last_answer \in 0 .. MaxTime
    BY DEF IInv, TypeOK
<1>2. PhaseTellsOf(l) /\ last_answer <= clock
    BY DEF IInv, PhaseTells, PacedFromLastAnswer
<1>3. attempt[l] < MaxAttempts
    BY <1>1, <1>2 DEF PhaseTellsOf
<1>4. /\ phase' = [phase EXCEPT ![l] = "asking"] /\ attempt' = [attempt EXCEPT ![l] = @ + 1]
      /\ wake' = [wake EXCEPT ![l] = 0]
      /\ asked_late' = IF clock >= Deadline THEN asked_late \cup {l} ELSE asked_late
      /\ UNCHANGED <<response, timed_out, last_answer>>
    BY DEF Get
<1>5. TypeOK'
    <2>1. attempt' \in [Lookups -> 0 .. MaxAttempts]
        BY <1>1, <1>3, <1>4
    <2>2. /\ phase' \in [Lookups -> {"waiting", "pacing", "asking", "backoff", "done"}]
          /\ wake' \in [Lookups -> Nat] /\ asked_late' \subseteq Lookups
        BY <1>1, <1>4
    <2>3. Fan!TypeOK'
        BY FanFacts DEF IInv, WorkersHaveThreads, fan, Fan!TypeOK
    <2> QED BY <1>4, <2>1, <2>2, <2>3 DEF IInv, TypeOK
<1>6. PhaseTellsOf(l)'
    BY <1>1, <1>2, <1>4 DEF PhaseTellsOf
<1>7. ASSUME NEW m \in Lookups \ {l}
      PROVE  /\ phase'[m] = phase[m] /\ attempt'[m] = attempt[m]
             /\ wake'[m] = wake[m] /\ response'[m] = response[m]
             /\ m \in timed_out' <=> m \in timed_out
             /\ m \in asked_late' <=> m \in asked_late
    BY <1>1, <1>4, <1>7
<1>8. phase[l] # "done" /\ phase'[l] = "asking"
    BY <1>1, <1>4
<1>9. Moves(l)
    BY <1>1, <1>2, <1>4, <1>6, <1>7, <1>8 DEF Moves
<1> QED BY <1>5, <1>9, MoveKeeps

\* A lookup given up for the deadline was never asked for.
LEMMA TimeOutMoves ==
    ASSUME IInv, NEW l \in Lookups, AtWork(l), TimeOut(l), phase[l] = "waiting",
           UNCHANGED <<clock, offline, stale, fan, outcome>>
    PROVE  IInv'
<1> USE TimesAssumption
<1>1. /\ phase \in [Lookups -> {"waiting", "pacing", "asking", "backoff", "done"}]
      /\ timed_out \subseteq Lookups /\ clock \in 0 .. MaxTime /\ last_answer \in 0 .. MaxTime
      /\ attempt \in [Lookups -> 0 .. MaxAttempts]
    BY DEF IInv, TypeOK
<1>2. PhaseTellsOf(l) /\ last_answer <= clock
    BY DEF IInv, PhaseTells, PacedFromLastAnswer
<1>3. /\ phase' = [phase EXCEPT ![l] = "done"] /\ timed_out' = timed_out \cup {l}
      /\ UNCHANGED <<attempt, wake, response, last_answer, asked_late>>
    BY DEF TimeOut
<1>4. TypeOK'
    <2>1. Fan!TypeOK'
        BY FanFacts DEF IInv, WorkersHaveThreads, fan, Fan!TypeOK
    <2> QED BY <1>1, <1>3, <2>1 DEF IInv, TypeOK
<1>5. PhaseTellsOf(l)'
    BY <1>1, <1>2, <1>3, AttemptsAssumption DEF PhaseTellsOf
<1>6. ASSUME NEW m \in Lookups \ {l}
      PROVE  /\ phase'[m] = phase[m] /\ attempt'[m] = attempt[m]
             /\ wake'[m] = wake[m] /\ response'[m] = response[m]
             /\ m \in timed_out' <=> m \in timed_out
             /\ m \in asked_late' <=> m \in asked_late
    BY <1>1, <1>3, <1>6
<1>7. phase'[l] = "done" /\ attempt'[l] = 0
    BY <1>1, <1>2, <1>3 DEF PhaseTellsOf
<1>8. Moves(l)
    BY <1>2, <1>3, <1>5, <1>6, <1>7 DEF Moves
<1> QED BY <1>4, <1>8, MoveKeeps

\* A lookup goes to sleep before its first request, to be paced, or after a 429.
LEMMA SleepMoves ==
    ASSUME IInv, NEW l \in Lookups, AtWork(l), NEW why, NEW ticks \in Nat, Sleep(l, why, ticks),
           UNCHANGED <<clock, offline, stale, fan, outcome>>,
           \/ /\ why = "pacing" /\ phase[l] = "waiting" /\ l \in CrateLookups
              /\ clock < Deadline /\ ticks = Interval /\ UNCHANGED last_answer
           \/ /\ why = "backoff" /\ phase[l] = "asking" /\ attempt[l] < MaxAttempts
              /\ last_answer' = IF l \in CrateLookups THEN clock ELSE last_answer
    PROVE  IInv'
<1> USE TimesAssumption
<1>1. /\ phase \in [Lookups -> {"waiting", "pacing", "asking", "backoff", "done"}]
      /\ wake \in [Lookups -> Nat] /\ clock \in 0 .. MaxTime /\ last_answer \in 0 .. MaxTime
      /\ attempt \in [Lookups -> 0 .. MaxAttempts]
    BY DEF IInv, TypeOK
<1>2. PhaseTellsOf(l) /\ last_answer <= clock
    BY DEF IInv, PhaseTells, PacedFromLastAnswer
<1>3. /\ phase' = [phase EXCEPT ![l] = why] /\ wake' = [wake EXCEPT ![l] = clock + ticks]
      /\ UNCHANGED <<attempt, response, timed_out, asked_late>>
    BY DEF Sleep
<1>4. why \in {"pacing", "backoff"} /\ last_answer' \in {clock, last_answer}
    OBVIOUS
<1>5. TypeOK'
    <2>1. Fan!TypeOK'
        BY FanFacts DEF IInv, WorkersHaveThreads, fan, Fan!TypeOK
    <2>2. /\ phase' \in [Lookups -> {"waiting", "pacing", "asking", "backoff", "done"}]
          /\ wake' \in [Lookups -> Nat] /\ last_answer' \in 0 .. MaxTime
        BY <1>1, <1>3, <1>4
    <2> QED BY <1>3, <2>1, <2>2 DEF IInv, TypeOK
<1>6. PhaseTellsOf(l)'
    BY <1>1, <1>2, <1>3, AttemptsAssumption DEF PhaseTellsOf
<1>7. ASSUME NEW m \in Lookups \ {l}
      PROVE  /\ phase'[m] = phase[m] /\ attempt'[m] = attempt[m]
             /\ wake'[m] = wake[m] /\ response'[m] = response[m]
             /\ m \in timed_out' <=> m \in timed_out
             /\ m \in asked_late' <=> m \in asked_late
    BY <1>1, <1>3, <1>7
<1>8. phase'[l] = why /\ wake'[l] = clock + ticks
    BY <1>1, <1>3
<1>9. why = "pacing" => l \in CrateLookups /\ clock + ticks >= last_answer' + Interval
    BY <1>1, <1>2
<1>10. /\ phase[l] # "done" /\ why # "waiting"
       /\ ~(phase[l] = "waiting" /\ clock >= Deadline)
       /\ last_answer' = last_answer \/ (l \in CrateLookups /\ phase[l] = "asking")
       /\ last_answer' <= clock
    BY <1>1, <1>2
<1>11. Moves(l)
    BY <1>6, <1>7, <1>8, <1>9, <1>10 DEF Moves
<1> QED BY <1>5, <1>11, MoveKeeps

\* A final answer ends the lookup; a 429 is final at the last attempt only.
LEMMA FinalAnswerMoves ==
    ASSUME IInv, NEW l \in Lookups, AtWork(l), NEW status \in Statuses, FinalAnswer(l, status),
           phase[l] = "asking", UNCHANGED <<clock, offline, stale, fan, outcome>>
    PROVE  IInv'
<1> USE TimesAssumption
<1>1. /\ phase \in [Lookups -> {"waiting", "pacing", "asking", "backoff", "done"}]
      /\ response \in [Lookups -> Statuses \cup {"none"}]
      /\ clock \in 0 .. MaxTime /\ last_answer \in 0 .. MaxTime
      /\ attempt \in [Lookups -> 0 .. MaxAttempts]
    BY DEF IInv, TypeOK
<1>2. PhaseTellsOf(l) /\ last_answer <= clock
    BY DEF IInv, PhaseTells, PacedFromLastAnswer
<1>3. /\ status = "429" => attempt[l] = MaxAttempts
      /\ phase' = [phase EXCEPT ![l] = "done"] /\ response' = [response EXCEPT ![l] = status]
      /\ last_answer' = IF l \in CrateLookups THEN clock ELSE last_answer
      /\ UNCHANGED <<attempt, wake, timed_out, asked_late>>
    BY DEF FinalAnswer
<1>4. TypeOK'
    <2>1. Fan!TypeOK'
        BY FanFacts DEF IInv, WorkersHaveThreads, fan, Fan!TypeOK
    <2>2. /\ phase' \in [Lookups -> {"waiting", "pacing", "asking", "backoff", "done"}]
          /\ response' \in [Lookups -> Statuses \cup {"none"}] /\ last_answer' \in 0 .. MaxTime
        BY <1>1, <1>3
    <2> QED BY <1>3, <2>1, <2>2 DEF IInv, TypeOK
<1>5. phase'[l] = "done" /\ response'[l] = status /\ status # "none"
    BY <1>1, <1>3 DEF Statuses
<1>6. PhaseTellsOf(l)'
    BY <1>1, <1>2, <1>3, <1>5, AttemptsAssumption DEF PhaseTellsOf
<1>7. ASSUME NEW m \in Lookups \ {l}
      PROVE  /\ phase'[m] = phase[m] /\ attempt'[m] = attempt[m]
             /\ wake'[m] = wake[m] /\ response'[m] = response[m]
             /\ m \in timed_out' <=> m \in timed_out
             /\ m \in asked_late' <=> m \in asked_late
    BY <1>1, <1>3, <1>7
<1>8. last_answer' <= clock /\ (last_answer' = last_answer \/ l \in CrateLookups)
    BY <1>1, <1>2, <1>3
<1>9. Moves(l)
    BY <1>5, <1>6, <1>7, <1>8 DEF Moves
<1> QED BY <1>4, <1>9, MoveKeeps

\* Every step of a lookup is one of these.
LEMMA LookupKeeps ==
    ASSUME IInv, NEW l \in Lookups,
           \/ Answer(l) \/ Retry(l)
           \/ l \in CrateLookups /\ (NextCrate(l) \/ Paced(l))
           \/ l \in OtherLookups /\ BeginOther(l)
    PROVE  IInv'
<1>1. CASE Answer(l)
    <2>1. phase[l] = "asking" /\ UNCHANGED <<clock, offline, stale, fan, outcome>>
        BY <1>1 DEF Answer
    <2>2. AtWork(l)
        BY <2>1, BegunIsAtWork
    <2>3. CASE BackOff(l)
        <3>1. PICK ticks \in Backoffs : Sleep(l, "backoff", ticks)
            BY <2>3 DEF BackOff
        <3>2. ticks \in Nat
            BY TimesAssumption
        <3> QED BY <2>1, <2>2, <2>3, <3>1, <3>2, SleepMoves DEF BackOff
    <2>4. CASE \E status \in Statuses : FinalAnswer(l, status)
        BY <2>1, <2>2, <2>4, FinalAnswerMoves
    <2> QED BY <1>1, <2>3, <2>4 DEF Answer
<1>2. CASE Retry(l)
    BY <1>2, BegunIsAtWork, GetMoves DEF Retry
<1>3. CASE l \in CrateLookups /\ NextCrate(l)
    <2>1. phase[l] = "waiting" /\ UNCHANGED <<clock, offline, stale, fan, outcome>>
        BY <1>3 DEF NextCrate, Turn
    <2>2. AtWork(l)
        BY <1>3, Positions DEF NextCrate, Turn, Fetching, AtWork
    <2>3. CASE clock >= Deadline /\ TimeOut(l)
        BY <2>1, <2>2, <2>3, TimeOutMoves
    <2>4. CASE clock < Deadline /\ HasIssued /\ Sleep(l, "pacing", Interval) /\ UNCHANGED last_answer
        BY <1>3, <2>1, <2>2, <2>4, SleepMoves, TimesAssumption
    <2>5. CASE clock < Deadline /\ ~HasIssued /\ Get(l)
        BY <2>1, <2>2, <2>5, GetMoves
    <2> QED BY <1>3, <2>3, <2>4, <2>5 DEF NextCrate
<1>4. CASE l \in CrateLookups /\ Paced(l)
    BY <1>4, BegunIsAtWork, GetMoves DEF Paced
<1>5. CASE l \in OtherLookups /\ BeginOther(l)
    <2>1. /\ task[l[2]] = "running" /\ phase[l] = "waiting"
          /\ UNCHANGED <<clock, offline, stale, fan, outcome>>
        BY <1>5 DEF BeginOther
    <2>2. AtWork(l)
        <3>1. ~offline /\ \A k \in Lookups : outcome[k] = "none"
            BY <1>5, <2>1, Positions DEF IInv, CountedAtTheEnd
        <3> QED BY <1>5, <2>1, <3>1, Positions DEF AtWork
    <2>3. CASE clock >= Deadline /\ TimeOut(l)
        BY <2>1, <2>2, <2>3, TimeOutMoves
    <2>4. CASE ~(clock >= Deadline) /\ Get(l)
        <3>1. clock < Deadline
            BY <2>4, TimesAssumption DEF IInv, TypeOK
        <3> QED BY <2>1, <2>2, <2>4, <3>1, GetMoves
    <2> QED BY <1>5, <2>3, <2>4 DEF BeginOther
<1> QED BY <1>1, <1>2, <1>3, <1>4, <1>5

\* Starting and joining threads moves no lookup.
LEMMA FanKeeps ==
    ASSUME IInv, FanOut \/ \E l \in OtherLookups : EndOther(l)
    PROVE  IInv'
<1>1. UNCHANGED <<clock, offline, stale, phase, attempt, wake, response, timed_out, outcome,
                  last_answer, asked_late>>
    BY DEF FanOut, EndOther
<1>2. Fan!Spawn \/ Fan!NextWave \/ (\E i \in Fan!Tasks : Fan!Finish(i))
    BY Positions DEF FanOut, EndOther
<1>3. FanProofs!Inv'
    BY <1>2, FanStep DEF IInv, WorkersHaveThreads
<1>4. TypeOK'
    <2>1. Fan!TypeOK'
        BY <1>2, FanStep DEF IInv, WorkersHaveThreads
    <2> QED BY <1>1, <2>1 DEF IInv, TypeOK
<1>5. ~offline
    BY Positions DEF IInv, CountedAtTheEnd, FanOut, Fetching, EndOther
<1>6. PhaseTells' /\ CratesInOrder' /\ PacedFromLastAnswer'
    BY <1>1 DEF IInv, PhaseTells, PhaseTellsOf, CratesInOrder, PacedFromLastAnswer
<1>7. wave_begin' >= wave_begin /\ wave_begin \in Nat /\ wave_begin' \in Nat
    BY <1>2, <1>3, FanFacts DEF IInv, WorkersHaveThreads, Fan!Spawn, Fan!NextWave, Fan!Finish
<1>8. LateInOneWave'
    <2>1. PICK begin \in 0 .. wave_begin :
              \A l \in OtherLookups :
                  /\ l \in asked_late => begin <= l[2]
                  /\ asked_late \cap OtherLookups # {} /\ attempt[l] > 0 => l[2] < begin + Fan!wave_size
        BY DEF IInv, LateInOneWave
    <2>2. begin \in 0 .. wave_begin'
        BY <1>7
    <2> QED BY <1>1, <2>1, <2>2 DEF LateInOneWave
<1>9. WorkersHaveThreads'
    <2> SUFFICES ASSUME NEW l \in OtherLookups
                 PROVE  /\ task'[l[2]] = "none" => phase[l] = "waiting"
                        /\ task'[l[2]] = "joinable" => phase[l] = "done"
        BY <1>1, <1>3 DEF IInv, WorkersHaveThreads
    <2>1. /\ task \in [Fan!Tasks -> {"none", "running", "joinable"}] /\ l[2] \in Fan!Tasks
          /\ task[l[2]] = "none" => phase[l] = "waiting"
          /\ task[l[2]] = "joinable" => phase[l] = "done"
        BY FanFacts, Positions DEF IInv, WorkersHaveThreads
    <2>2. CASE Fan!Spawn
        BY <2>1, <2>2 DEF Fan!Spawn
    <2>3. CASE Fan!NextWave
        BY <2>1, <2>3 DEF Fan!NextWave
    <2>4. CASE \E k \in OtherLookups : EndOther(k)
        <3>1. PICK k \in OtherLookups : phase[k] = "done" /\ Fan!Finish(k[2])
            BY <2>4 DEF EndOther
        <3>2. k[2] = l[2] => k = l
            BY DEF OtherLookups
        <3> QED BY <2>1, <3>1, <3>2 DEF Fan!Finish
    <2> QED BY <2>2, <2>3, <2>4 DEF FanOut
<1>10. CountedAtTheEnd'
    BY <1>1, <1>5 DEF IInv, CountedAtTheEnd, Bucket
<1> QED BY <1>4, <1>6, <1>8, <1>9, <1>10 DEF IInv

\* Time passing moves no lookup either.
LEMMA TickKeeps ==
    ASSUME IInv, Tick \/ UNCHANGED vars
    PROVE  IInv'
<1>1. UNCHANGED <<offline, stale, fan, phase, attempt, wake, response, timed_out, outcome,
                  last_answer, asked_late>>
    BY DEF Tick, vars
<1>2. clock' \in 0 .. MaxTime /\ clock' >= clock /\ clock \in Nat
    BY TimesAssumption DEF Tick, vars, IInv, TypeOK
<1>3. TypeOK' /\ FanProofs!Inv'
    <2>1. FanProofs!Inv' /\ Fan!TypeOK'
        BY <1>1, FanStep DEF IInv, WorkersHaveThreads, fan
    <2> QED BY <1>1, <1>2, <2>1 DEF IInv, TypeOK
<1>4. PhaseTells'
    BY <1>1, <1>2, TimesAssumption DEF IInv, PhaseTells, PhaseTellsOf
<1>5. PacedFromLastAnswer'
    BY <1>1, <1>2 DEF IInv, TypeOK, PacedFromLastAnswer
<1>6. CratesInOrder' /\ CountedAtTheEnd'
    BY <1>1 DEF IInv, CratesInOrder, CountedAtTheEnd, Bucket, fan
<1>7. LateInOneWave' /\ WorkersHaveThreads'
    BY <1>1, <1>3 DEF IInv, LateInOneWave, WorkersHaveThreads, fan
<1> QED BY <1>3, <1>4, <1>5, <1>6, <1>7 DEF IInv

\* Counting puts every lookup in a counter at once.
LEMMA CountKeeps ==
    ASSUME IInv, AnswerOffline \/ Fold
    PROVE  IInv'
<1>1. UNCHANGED <<clock, offline, stale, fan, phase, attempt, wake, response, timed_out,
                  last_answer, asked_late>>
    BY DEF AnswerOffline, Fold
<1>2. FanProofs!Inv' /\ Fan!TypeOK'
    BY <1>1, FanStep DEF IInv, WorkersHaveThreads, fan
<1>3. PhaseTells' /\ CratesInOrder' /\ PacedFromLastAnswer' /\ WorkersHaveThreads' /\ LateInOneWave'
    BY <1>1, <1>2 DEF IInv, PhaseTells, PhaseTellsOf, CratesInOrder, PacedFromLastAnswer,
                      WorkersHaveThreads, LateInOneWave, fan
<1>4. CASE AnswerOffline
    <2>1. offline /\ outcome' = [l \in Lookups |-> IF l \in stale THEN "stale" ELSE "unresolved"]
        BY <1>4 DEF AnswerOffline
    <2>2. TypeOK'
        BY <1>1, <1>2, <2>1 DEF IInv, TypeOK
    <2>3. CountedAtTheEnd'
        BY <1>1, <2>1 DEF IInv, CountedAtTheEnd, fan
    <2> QED BY <1>3, <2>2, <2>3 DEF IInv
<1>5. CASE Fold
    <2>1. ~offline /\ Joined /\ outcome' = [l \in Lookups |-> Bucket(l)]
        BY <1>5 DEF Fold, Fetching
    <2>2. \A l \in Lookups : Bucket(l) \in {"fetched", "stale", "rate_limited", "timed_out", "unresolved"}
        BY DEF Bucket
    <2>3. TypeOK'
        BY <1>1, <1>2, <2>1, <2>2 DEF IInv, TypeOK
    <2>4. \A k \in Lookups : phase[k] = "done"
        BY <2>1, FanFacts, Positions DEF Joined, IInv, WorkersHaveThreads, Lookups
    <2>5. CountedAtTheEnd'
        BY <1>1, <2>1, <2>4 DEF CountedAtTheEnd, Bucket
    <2> QED BY <1>3, <2>3, <2>5 DEF IInv
<1> QED BY <1>4, <1>5

LEMMA NextIInv == IInv /\ [Next]_vars => IInv'
<1> SUFFICES ASSUME IInv, [Next]_vars PROVE IInv'
    OBVIOUS
<1>1. CASE Tick \/ UNCHANGED vars
    BY <1>1, TickKeeps
<1>2. CASE AnswerOffline \/ Fold
    BY <1>2, CountKeeps
<1>3. CASE FanOut \/ \E l \in OtherLookups : EndOther(l)
    BY <1>3, FanKeeps
<1>4. ASSUME NEW l \in Lookups, Answer(l) \/ Retry(l) PROVE IInv'
    BY <1>4, LookupKeeps
<1>5. ASSUME NEW l \in CrateLookups, NextCrate(l) \/ Paced(l) PROVE IInv'
    BY <1>5, LookupKeeps, Positions
<1>6. ASSUME NEW l \in OtherLookups, BeginOther(l) PROVE IInv'
    BY <1>6, LookupKeeps, Positions
<1> QED BY <1>1, <1>2, <1>3, <1>4, <1>5, <1>6 DEF Next

LEMMA InitIInv == Init => IInv
<1> SUFFICES ASSUME Init PROVE IInv
    OBVIOUS
<1> USE LookupsAssumption, AttemptsAssumption, TimesAssumption
<1>1. FanProofs!Inv /\ Fan!TypeOK /\ wave_begin \in Nat
    BY FanInit, FanFacts DEF Init
<1>2. \A l \in Lookups : /\ phase[l] = "waiting" /\ attempt[l] = 0 /\ wake[l] = 0
                         /\ response[l] = "none" /\ outcome[l] = "none"
    BY DEF Init
<1>3. TypeOK
    BY <1>1 DEF Init, TypeOK
<1>4. PhaseTells
    BY <1>2 DEF Init, PhaseTells, PhaseTellsOf
<1>5. CratesInOrder /\ PacedFromLastAnswer
    BY <1>2, Positions DEF Init, CratesInOrder, PacedFromLastAnswer
<1>6. WorkersHaveThreads
    <2>1. \A l \in OtherLookups : task[l[2]] = "none"
        BY Positions DEF Init, Fan!Init
    <2> QED BY <1>1, <1>2, <2>1, Positions DEF WorkersHaveThreads
<1>7. LateInOneWave
    BY <1>1 DEF Init, LateInOneWave
<1>8. CountedAtTheEnd
    BY <1>2 DEF Init, Fan!Init, CountedAtTheEnd
<1> QED BY <1>3, <1>4, <1>5, <1>6, <1>7, <1>8 DEF IInv

\* Where each lookup stands, on which thread and since when, agrees with the phase of
\* the two passes (enrich_component_licenses).
THEOREM Invariance == Spec => []IInv
BY InitIInv, NextIInv, PTL DEF Spec

\* Every variable of the two passes keeps its type.
THEOREM TypeCorrect == Spec => []TypeOK
<1>1. IInv => TypeOK
    BY DEF IInv
<1> QED BY <1>1, Invariance, PTL

\* The PyPI/RubyGems pass is the fan-out of BoundedFanOut, whatever else happens
\* to its lookups, so all that is proved of the fan-out holds of it.
THEOREM FanOutImplemented == Spec => Fan!Spec
<1>1. Init => Fan!Init
    BY DEF Init
<1>2. [Next]_vars => [Fan!Next]_fan
    <2>1. ASSUME NEW l \in Lookups, Answer(l) \/ Retry(l) PROVE UNCHANGED fan
        BY <2>1 DEF Answer, Retry
    <2>2. ASSUME NEW l \in CrateLookups, NextCrate(l) \/ Paced(l) PROVE UNCHANGED fan
        BY <2>2 DEF NextCrate, Paced
    <2>3. ASSUME NEW l \in OtherLookups, BeginOther(l) PROVE UNCHANGED fan
        BY <2>3 DEF BeginOther
    <2>4. ASSUME NEW l \in OtherLookups, EndOther(l) PROVE Fan!Next
        BY <2>4, Positions DEF EndOther, Fan!Next
    <2>5. CASE FanOut
        BY <2>5 DEF FanOut, Fan!Next
    <2>6. CASE Tick \/ AnswerOffline \/ Fold \/ UNCHANGED vars
        BY <2>6 DEF Tick, AnswerOffline, Fold, vars
    <2> QED BY <2>1, <2>2, <2>3, <2>4, <2>5, <2>6 DEF Next
<1>3. [Fan!Next]_fan => [Fan!Next]_(Fan!vars)
    BY DEF fan, Fan!vars
<1>4. [Next]_vars => [Fan!Next]_(Fan!vars)
    BY <1>2, <1>3
<1> QED BY <1>1, <1>4, PTL DEF Spec, Fan!Spec

\* Past the deadline at most one crates.io lookup and the lookups of one wave
\* still ask (license_enrichment.hpp:61), whatever the limit.
THEOREM OverrunCorrect == Spec => []OverrunBounded
<1>1. IInv => OverrunBounded
    <2> SUFFICES ASSUME IInv PROVE OverrunBounded
        OBVIOUS
    <2> DEFINE crates == asked_late \cap CrateLookups
               others == asked_late \cap OtherLookups
    <2>1. Cardinality(crates) <= 1
        <3>1. ASSUME NEW k \in crates, NEW l \in crates PROVE k = l
            <4>1. attempt[k] > 0 /\ attempt[l] > 0
                BY <3>1, Positions DEF IInv, PhaseTells, PhaseTellsOf
            <4>2. ~(k[2] < l[2]) /\ ~(l[2] < k[2])
                BY <3>1, <4>1 DEF IInv, CratesInOrder
            <4> QED BY <3>1, <4>2, Positions
        <3>2. CASE crates = {}
            BY <3>2, FS_EmptySet
        <3>3. CASE crates # {}
            <4>1. PICK k \in crates : TRUE
                BY <3>3
            <4>2. crates = {k}
                BY <3>1, <4>1
            <4> QED BY <4>2, FS_Singleton
        <3> QED BY <3>2, <3>3
    <2>2. Cardinality(others) <= Fan!wave_size
        <3>1. Fan!wave_size \in Nat /\ wave_begin \in Nat
            BY FanFacts DEF IInv, WorkersHaveThreads
        <3>2. PICK begin \in 0 .. wave_begin :
                  \A l \in OtherLookups :
                      /\ l \in asked_late => begin <= l[2]
                      /\ asked_late \cap OtherLookups # {} /\ attempt[l] > 0 => l[2] < begin + Fan!wave_size
            BY DEF IInv, LateInOneWave
        <3> DEFINE wave == begin .. begin + Fan!wave_size - 1
                   place == [l \in others |-> l[2]]
        <3>3. ASSUME NEW l \in others PROVE l[2] \in wave
            <4>1. attempt[l] > 0 /\ l[2] \in Nat
                BY <3>3, Positions DEF IInv, PhaseTells, PhaseTellsOf
            <4> QED BY <3>1, <3>2, <3>3, <4>1
        <3>4. \A k, l \in others : k[2] = l[2] => k = l
            BY DEF OtherLookups
        <3>5. place \in Injection(others, wave)
            BY <3>3, <3>4 DEF Injection, IsInjective
        <3>6. IsFiniteSet(wave) /\ Cardinality(wave) = Fan!wave_size
            BY <3>1, FS_Interval
        <3> HIDE DEF place, wave, others
        <3> QED BY <3>5, <3>6, FS_Injection
    <2> QED BY <2>1, <2>2 DEF OverrunBounded
<1> QED BY <1>1, Invariance, PTL

\* Each lookup is counted for what its registry said, or for not having been asked.
THEOREM CountsCorrect == Spec => []CountedForTheRightReason
<1>1. IInv => CountedForTheRightReason
    <2> SUFFICES ASSUME IInv, NEW l \in Lookups
                 PROVE  /\ outcome[l] = "fetched" <=> outcome[l] # "none" /\ response[l] = "license"
                        /\ outcome[l] = "timed_out" => attempt[l] = 0
                        /\ outcome[l] = "rate_limited" => attempt[l] = MaxAttempts /\ l \notin stale
                        /\ outcome[l] = "unresolved" => offline \/ attempt[l] > 0
        BY DEF CountedForTheRightReason
    <2>1. PhaseTellsOf(l)
        BY DEF IInv, PhaseTells
    <2>2. CASE outcome[l] = "none"
        BY <2>2
    <2>3. CASE outcome[l] # "none" /\ offline
        BY <2>1, <2>3 DEF IInv, CountedAtTheEnd, PhaseTellsOf
    <2>4. CASE outcome[l] # "none" /\ ~offline
        <3>1. outcome[l] = Bucket(l) /\ phase[l] = "done"
            BY <2>4 DEF IInv, CountedAtTheEnd
        <3>2. CASE response[l] = "license"
            BY <3>1, <3>2 DEF Bucket
        <3>3. CASE response[l] # "license" /\ l \in stale
            BY <3>1, <3>3 DEF Bucket
        <3>4. CASE response[l] = "429" /\ l \notin stale
            BY <2>1, <3>1, <3>4 DEF Bucket, PhaseTellsOf
        <3>5. CASE response[l] \notin {"license", "429"} /\ l \notin stale
            <4>1. CASE l \in timed_out
                BY <2>1, <3>1, <3>5, <4>1 DEF Bucket, PhaseTellsOf
            <4>2. CASE l \notin timed_out
                <5>1. outcome[l] = "unresolved"
                    BY <3>1, <3>5, <4>2 DEF Bucket
                <5> QED BY <2>1, <3>1, <3>5, <4>2, <5>1 DEF PhaseTellsOf
            <4> QED BY <4>1, <4>2
        <3> QED BY <3>2, <3>3, <3>4, <3>5
    <2> QED BY <2>2, <2>3, <2>4
<1> QED BY <1>1, Invariance, PTL

\* crates.io is asked one lookup at a time, each no sooner than the interval after
\* the last answer.
THEOREM PacingCorrect == Spec => CratesPacedApart
<1>1. IInv /\ [Next]_vars =>
          [\A l \in CrateLookups :
              attempt[l] = 0 /\ attempt'[l] = 1 =>
                  /\ \A k \in CrateLookups \ {l} : phase[k] \in {"waiting", "done"}
                  /\ HasIssued /\ clock < MaxTime => clock >= last_answer + Interval]_vars
    <2> SUFFICES ASSUME IInv, Next, NEW l \in CrateLookups, attempt[l] = 0, attempt'[l] = 1
                 PROVE  /\ \A k \in CrateLookups \ {l} : phase[k] \in {"waiting", "done"}
                        /\ HasIssued /\ clock < MaxTime => clock >= last_answer + Interval
        OBVIOUS
    <2> USE LookupsAssumption, TimesAssumption
    <2>1. /\ phase \in [Lookups -> {"waiting", "pacing", "asking", "backoff", "done"}]
          /\ attempt \in [Lookups -> 0 .. MaxAttempts] /\ wake \in [Lookups -> Nat]
          /\ clock \in 0 .. MaxTime /\ last_answer \in 0 .. MaxTime /\ l \in Lookups
        BY Positions DEF IInv, TypeOK
    <2>2. \/ NextCrate(l) /\ ~HasIssued
          \/ Paced(l)
        <3>1. ASSUME NEW k \in Lookups, Answer(k) PROVE FALSE
            BY <2>1, <3>1 DEF Answer, BackOff, FinalAnswer, Sleep
        <3>2. ASSUME NEW k \in Lookups, Retry(k) PROVE FALSE
            <4>1. attempt[k] > 0 /\ attempt' = [attempt EXCEPT ![k] = @ + 1]
                BY <3>2 DEF Retry, Get, IInv, PhaseTells, PhaseTellsOf
            <4> QED BY <2>1, <4>1
        <3>3. ASSUME NEW k \in CrateLookups, NextCrate(k) PROVE k = l /\ ~HasIssued
            BY <2>1, <3>3, Positions DEF NextCrate, TimeOut, Sleep, Get
        <3>4. ASSUME NEW k \in CrateLookups, Paced(k) PROVE k = l
            BY <2>1, <3>4, Positions DEF Paced, Get
        <3>5. ASSUME NEW k \in OtherLookups, BeginOther(k) PROVE FALSE
            <4>1. k # l /\ k \in Lookups
                BY Positions
            <4> QED BY <2>1, <3>5, <4>1 DEF BeginOther, TimeOut, Get
        <3>6. ASSUME Tick \/ FanOut \/ AnswerOffline \/ Fold \/ \E k \in OtherLookups : EndOther(k)
              PROVE  FALSE
            BY <3>6 DEF Tick, FanOut, AnswerOffline, Fold, EndOther
        <3> QED BY <3>1, <3>2, <3>3, <3>4, <3>5, <3>6 DEF Next
    <2>3. ASSUME NEW k \in CrateLookups \ {l} PROVE phase[k] \in {"waiting", "done"}
        <3>1. phase[l] \in {"waiting", "pacing"}
            BY <2>2 DEF NextCrate, Turn, Paced
        <3>2. CASE k[2] < l[2]
            BY <2>2, <3>2 DEF NextCrate, Turn, Paced, IInv, CratesInOrder
        <3>3. CASE l[2] < k[2]
            BY <3>1, <3>3 DEF IInv, CratesInOrder
        <3> QED BY <3>2, <3>3, Positions
    <2>4. ASSUME HasIssued, clock < MaxTime PROVE clock >= last_answer + Interval
        <3>1. phase[l] = "pacing" /\ clock >= wake[l]
            BY <2>1, <2>2, <2>4 DEF Paced, Awake
        <3>2. wake[l] >= last_answer + Interval
            BY <3>1 DEF IInv, PacedFromLastAnswer
        <3> QED BY <2>1, <3>1, <3>2
    <2> QED BY <2>3, <2>4
<1> QED BY <1>1, Invariance, PTL DEF Spec, CratesPacedApart
=================================================================================
