-------------------------- MODULE LicenseEnrichment --------------------------
(***************************************************************************)
(* enrich_component_licenses (src/src/vuln/license_enrichment.cpp): the    *)
(* lookups the cache could not answer are fetched by two passes at once,   *)
(* crates.io one by one and paced apart on a thread of its own, PyPI and   *)
(* RubyGems in waves (BoundedFanOut), each request retried on HTTP 429,    *)
(* and a deadline is checked before each lookup. The calling thread joins  *)
(* both passes, then sorts every response into one of the counters.        *)
(*                                                                         *)
(* Time is in ticks; a lookup is a pair of its registry and its position   *)
(* in that registry's pass. The clock stops at MaxTime, where every sleep  *)
(* ends: MaxTime stands for any later time.                                *)
(***************************************************************************)
EXTENDS Integers, FiniteSets

CONSTANTS
    Crates,             \* number of crates.io lookups
    Others,             \* number of PyPI and RubyGems lookups
    Concurrency,        \* max_request_concurrency
    MaxAttempts,        \* kMaxRegistryGetAttempts
    Interval,           \* kCratesIoRequestInterval
    Backoffs,           \* the values of retry_backoff_for
    Deadline,           \* deadline_epoch_seconds
    MaxTime             \* bound of the clock

ASSUME LookupsAssumption == Crates \in Nat /\ Others \in Nat /\ Concurrency \in Nat
ASSUME AttemptsAssumption == MaxAttempts \in Nat \ {0}
ASSUME TimesAssumption ==
    Interval \in Nat /\ Backoffs \subseteq Nat /\ Deadline \in Nat /\ MaxTime \in Nat

VARIABLES
    clock,
    offline,        \* options.offline
    stale,          \* the lookups with a cache entry past its age
    wave_begin, next_task, task, runs,   \* the wave of the PyPI/RubyGems pass
    phase,          \* "waiting", "pacing", "asking", "backoff" or "done"
    attempt,        \* GETs issued for the lookup
    wake,           \* when the lookup's sleep ends
    response,       \* the final status of the lookup, "none" before or without one
    timed_out,      \* timed_out_positions
    outcome,        \* the counter the lookup was put in, "none" before
    \* For the properties.
    last_answer,    \* when crates.io last answered
    asked_late      \* the lookups with a request issued past the deadline

fan == <<wave_begin, next_task, task, runs>>
vars == <<clock, offline, stale, fan, phase, attempt, wake, response, timed_out, outcome,
          last_answer, asked_late>>

Fan == INSTANCE BoundedFanOut WITH task_count <- Others, concurrency_limit <- Concurrency

CrateLookups == {"crates.io"} \X (0 .. Crates - 1)
OtherLookups == {"other"} \X (0 .. Others - 1)
Lookups == CrateLookups \cup OtherLookups

\* 200 with license metadata, 429, and anything else: 200 without usable metadata,
\* another status, or no answer at all.
Statuses == {"license", "429", "failed"}

Init ==
    /\ clock = 0
    /\ offline \in BOOLEAN
    /\ stale \in SUBSET Lookups
    /\ Fan!Init
    /\ phase = [l \in Lookups |-> "waiting"]
    /\ attempt = [l \in Lookups |-> 0]
    /\ wake = [l \in Lookups |-> 0]
    /\ response = [l \in Lookups |-> "none"]
    /\ timed_out = {}
    /\ outcome = [l \in Lookups |-> "none"]
    /\ last_answer = 0
    /\ asked_late = {}

Fetching == ~offline /\ \A l \in Lookups : outcome[l] = "none"

Tick ==
    /\ clock < MaxTime
    /\ clock' = clock + 1
    /\ UNCHANGED <<offline, stale, fan, phase, attempt, wake, response, timed_out, outcome,
                   last_answer, asked_late>>

Awake(l) == clock >= wake[l] \/ clock = MaxTime

------------------------------------------------------------------------------
(* One lookup. *)

\* http_get is called.
Get(l) ==
    /\ phase' = [phase EXCEPT ![l] = "asking"]
    /\ attempt' = [attempt EXCEPT ![l] = @ + 1]
    /\ wake' = [wake EXCEPT ![l] = 0]
    /\ asked_late' = IF clock >= Deadline THEN asked_late \cup {l} ELSE asked_late
    /\ UNCHANGED <<response, timed_out, last_answer>>

\* The deadline had passed when the lookup's turn came.
TimeOut(l) ==
    /\ phase' = [phase EXCEPT ![l] = "done"]
    /\ timed_out' = timed_out \cup {l}
    /\ UNCHANGED <<attempt, wake, response, last_answer, asked_late>>

Sleep(l, why, ticks) ==
    /\ phase' = [phase EXCEPT ![l] = why]
    /\ wake' = [wake EXCEPT ![l] = clock + ticks]
    /\ UNCHANGED <<attempt, response, timed_out, asked_late>>

\* http_get returns with anything but a 429 that may be retried.
FinalAnswer(l, status) ==
    /\ status = "429" => attempt[l] = MaxAttempts
    /\ phase' = [phase EXCEPT ![l] = "done"]
    /\ response' = [response EXCEPT ![l] = status]
    /\ last_answer' = IF l \in CrateLookups THEN clock ELSE last_answer
    /\ UNCHANGED <<attempt, wake, timed_out, asked_late>>

\* Variant for mutation: a 429 is retried for as long as it comes.
BackOffAlways(l) ==
    /\ phase' = [phase EXCEPT ![l] = "backoff"]
    /\ wake' = [wake EXCEPT ![l] = clock]
    /\ last_answer' = IF l \in CrateLookups THEN clock ELSE last_answer
    /\ attempt' = [attempt EXCEPT ![l] = 1]
    /\ UNCHANGED <<response, timed_out, asked_late>>

\* HTTP 429 with an attempt left: sleep for what the registry asks, within bounds.
BackOff(l) ==
    /\ attempt[l] < MaxAttempts
    /\ last_answer' = IF l \in CrateLookups THEN clock ELSE last_answer
    /\ \E ticks \in Backoffs : Sleep(l, "backoff", ticks)

\* get_with_rate_limit_retry, from an issued request to its return.
Answer(l) ==
    /\ phase[l] = "asking"
    /\ BackOff(l) \/ \E status \in Statuses : FinalAnswer(l, status)
    /\ UNCHANGED <<clock, offline, stale, fan, outcome>>

Retry(l) ==
    /\ phase[l] = "backoff" /\ Awake(l)
    /\ Get(l)
    /\ UNCHANGED <<clock, offline, stale, fan, outcome>>

------------------------------------------------------------------------------
(* The crates.io thread. *)

\* The turn of a lookup: every one before it is finished.
Turn(l) == phase[l] = "waiting" /\ \A k \in CrateLookups : k[2] < l[2] => phase[k] = "done"

HasIssued == \E k \in CrateLookups : attempt[k] > 0

\* Variant for mutation: no pacing after the first request.
NextCrateUnpaced(l) ==
    /\ Fetching /\ Turn(l)
    /\ IF clock >= Deadline THEN TimeOut(l) ELSE Get(l)
    /\ UNCHANGED <<clock, offline, stale, fan, outcome>>

\* The deadline is checked, then every request but the first is paced.
NextCrate(l) ==
    /\ Fetching /\ Turn(l)
    /\ \/ clock >= Deadline /\ TimeOut(l)
       \/ clock < Deadline /\ HasIssued /\ Sleep(l, "pacing", Interval) /\ UNCHANGED last_answer
       \/ clock < Deadline /\ ~HasIssued /\ Get(l)
    /\ UNCHANGED <<clock, offline, stale, fan, outcome>>

Paced(l) ==
    /\ phase[l] = "pacing" /\ Awake(l)
    /\ Get(l)
    /\ UNCHANGED <<clock, offline, stale, fan, outcome>>

------------------------------------------------------------------------------
(* The PyPI and RubyGems workers. *)

\* The calling thread's part of run_bounded_concurrent.
FanOut ==
    /\ Fetching /\ (Fan!Spawn \/ Fan!NextWave)
    /\ UNCHANGED <<clock, offline, stale, phase, attempt, wake, response, timed_out, outcome,
                   last_answer, asked_late>>

\* Variant for mutation: a worker does not check the deadline.
BeginOtherPastDeadline(l) ==
    /\ task[l[2]] = "running" /\ phase[l] = "waiting"
    /\ Get(l)
    /\ UNCHANGED <<clock, offline, stale, fan, outcome>>

\* A worker starts: the deadline is checked at the top of its lookup.
BeginOther(l) ==
    /\ task[l[2]] = "running" /\ phase[l] = "waiting"
    /\ IF clock >= Deadline THEN TimeOut(l) ELSE Get(l)
    /\ UNCHANGED <<clock, offline, stale, fan, outcome>>

\* A worker returns.
EndOther(l) ==
    /\ phase[l] = "done"
    /\ Fan!Finish(l[2])
    /\ UNCHANGED <<clock, offline, stale, phase, attempt, wake, response, timed_out, outcome,
                   last_answer, asked_late>>

------------------------------------------------------------------------------
(* The calling thread. *)

\* Offline nothing is asked: a stale entry answers, or nothing does.
AnswerOffline ==
    /\ offline /\ \A l \in Lookups : outcome[l] = "none"
    /\ outcome' = [l \in Lookups |-> IF l \in stale THEN "stale" ELSE "unresolved"]
    /\ UNCHANGED <<clock, offline, stale, fan, phase, attempt, wake, response, timed_out,
                   last_answer, asked_late>>

\* Both calls have returned: run_bounded_concurrent and the join of the crates.io thread.
Joined == Fan!Returned /\ \A l \in CrateLookups : phase[l] = "done"

\* Variant for mutation: a stale entry answers before the response is looked at.
BucketStaleFirst(l) ==
    CASE l \in stale -> "stale"
      [] response[l] = "license" -> "fetched"
      [] response[l] = "429" -> "rate_limited"
      [] l \in timed_out -> "timed_out"
      [] OTHER -> "unresolved"

\* The counter one response goes to. timed_out is counted in unresolved as well.
Bucket(l) ==
    CASE response[l] = "license" -> "fetched"
      [] response[l] # "license" /\ l \in stale -> "stale"
      [] response[l] = "429" /\ l \notin stale -> "rate_limited"
      [] response[l] \notin {"license", "429"} /\ l \in timed_out \ stale -> "timed_out"
      [] OTHER -> "unresolved"

\* Both passes have been joined: the responses are folded in a fixed order.
Fold ==
    /\ Fetching /\ Joined
    /\ outcome' = [l \in Lookups |-> Bucket(l)]
    /\ UNCHANGED <<clock, offline, stale, fan, phase, attempt, wake, response, timed_out,
                   last_answer, asked_late>>

Next ==
    \/ Tick \/ FanOut \/ AnswerOffline \/ Fold
    \/ \E l \in Lookups : Answer(l) \/ Retry(l)
    \/ \E l \in CrateLookups : NextCrate(l) \/ Paced(l)
    \/ \E l \in OtherLookups : BeginOther(l) \/ EndOther(l)

Spec == Init /\ [][Next]_vars

\* Time passes, every thread runs, and a request is answered or its transport
\* gives up on it.
FairSpec ==
    /\ Spec
    /\ WF_vars(Tick) /\ WF_vars(FanOut) /\ WF_vars(AnswerOffline) /\ WF_vars(Fold)
    /\ \A l \in Lookups : WF_vars(Answer(l)) /\ WF_vars(Retry(l))
    /\ \A l \in CrateLookups : WF_vars(NextCrate(l)) /\ WF_vars(Paced(l))
    /\ \A l \in OtherLookups : WF_vars(BeginOther(l)) /\ WF_vars(EndOther(l))

------------------------------------------------------------------------------
TypeOK ==
    /\ clock \in 0 .. MaxTime /\ offline \in BOOLEAN
    /\ stale \subseteq Lookups /\ timed_out \subseteq Lookups /\ asked_late \subseteq Lookups
    /\ Fan!TypeOK
    /\ phase \in [Lookups -> {"waiting", "pacing", "asking", "backoff", "done"}]
    /\ attempt \in [Lookups -> 0 .. MaxAttempts]
    /\ wake \in [Lookups -> Nat] /\ last_answer \in 0 .. MaxTime
    /\ response \in [Lookups -> Statuses \cup {"none"}]
    /\ outcome \in [Lookups ->
          {"none", "fetched", "stale", "rate_limited", "timed_out", "unresolved"}]

\* crates.io "must run strictly sequentially, paced apart" (license_enrichment.cpp:607):
\* a lookup is asked for the first time only after every one before it has been
\* given up or answered, and no sooner than the interval after its last answer.
CratesPacedApart ==
    [][\A l \in CrateLookups :
          attempt[l] = 0 /\ attempt'[l] = 1 =>
              /\ \A k \in CrateLookups \ {l} : phase[k] \in {"waiting", "done"}
              /\ HasIssued /\ clock < MaxTime => clock >= last_answer + Interval]_vars

\* "actual overrun beyond the budget is bounded by" what is in flight
\* (license_enrichment.hpp:61): past the deadline only the one lookup whose turn
\* it is at crates.io and the lookups of one wave still send requests.
OverrunBounded ==
    /\ Cardinality(asked_late \cap CrateLookups) <= 1
    /\ Cardinality(asked_late \cap OtherLookups) <= Fan!wave_size

\* Every lookup is counted once, for the right reason: an answer of the registry
\* is never displaced by a stale entry, only a lookup never asked counts as timed
\* out, and rate limiting is told apart from absence.
CountedForTheRightReason ==
    \A l \in Lookups :
        /\ outcome[l] = "fetched" <=> outcome[l] # "none" /\ response[l] = "license"
        /\ outcome[l] = "timed_out" => attempt[l] = 0
        /\ outcome[l] = "rate_limited" => attempt[l] = MaxAttempts /\ l \notin stale
        /\ outcome[l] = "unresolved" => offline \/ attempt[l] > 0

\* A registry that answers every request with 429 cannot keep the run from ending.
Returns == <>(\A l \in Lookups : outcome[l] # "none")
==============================================================================
