------------------------------ MODULE OsvRefresh ------------------------------
(***************************************************************************)
(* match_components (src/src/vuln/osv.cpp) for one purl, over many runs    *)
(* that share one cache file (src/src/vuln/cache.cpp): detection from the  *)
(* cache or the feed, the advisory snapshot and its delta, and hydration   *)
(* from the full-payload entry or the feed.                                *)
(*                                                                         *)
(* A list of advisories is a function to revision numbers, 0 for an        *)
(* advisory that is not in the list; the feed only ever raises an          *)
(* advisory's revision or withdraws it, and a withdrawn advisory comes     *)
(* back with a new revision. Time is in ticks. Pagination within a run is  *)
(* OsvPagination; here a fetched list is whole, truncated or malformed.    *)
(***************************************************************************)
EXTENDS Integers, FiniteSets, TLC

CONSTANTS
    Runs,               \* bomwerk processes that may run at the same time
    Advisories,
    MaxRevision,        \* bound on how often the feed touches an advisory
    MaxTime,            \* bound of the clock
    CacheMaxAge,        \* kCacheMaxAge
    ConfirmedMaxAge,    \* kConfirmedUnchangedMaxAge
    Faults              \* whether requests, stores and processes may fail

\* 24 hours and seven days (osv.hpp:22-36).
ASSUME AgesAssumption ==
    CacheMaxAge \in Nat /\ ConfirmedMaxAge \in Nat /\ CacheMaxAge <= ConfirmedMaxAge
ASSUME BoundsAssumption == MaxRevision \in Nat /\ MaxTime \in Nat
ASSUME FaultsAssumption == Faults \in BOOLEAN

VARIABLES
    clock,
    feed,       \* what OSV knows now
    touched,    \* the last revision of each advisory, withdrawn or not
    detection,  \* the purl's detection entry in vuln_cache
    snapshot,   \* the purl's rows of osv_advisory_snapshot
    full,       \* the purl's full-payload entry in vuln_cache
    pc, now, offline, answer, stale, previous, records, warned,   \* per run
    disturbed   \* per run: what it read is not what the snapshot holds

world == <<clock, feed, touched>>
file == <<detection, snapshot, full>>
local == <<now, offline, answer, stale, previous, records, warned, disturbed>>
vars == <<world, file, pc, local>>

Lists == [Advisories -> 0 .. MaxRevision]
NoList == [a \in Advisories |-> 0]
IdsIn(list) == {a \in Advisories : list[a] # 0}

\* A row of vuln_cache; `at` is fetched_at, -1 when there is no row. A detection
\* row is truncated when it carries a next_page_token, malformed when its `vulns`
\* is not an array, else whole.
NoEntry == [at |-> -1, list |-> NoList, kind |-> "whole"]
NoRecords == [at |-> -1, list |-> NoList]
HasEntry(entry) == entry.at >= 0

Init ==
    /\ clock = 0
    /\ feed = NoList /\ touched = NoList
    /\ detection = NoEntry /\ full = NoRecords
    /\ snapshot = NoList
    /\ pc = [r \in Runs |-> "idle"]
    /\ now = [r \in Runs |-> 0]
    /\ offline = [r \in Runs |-> FALSE]
    /\ answer = [r \in Runs |-> NoEntry]
    /\ stale = [r \in Runs |-> FALSE]
    /\ previous = [r \in Runs |-> NoList]
    /\ records = [r \in Runs |-> NoRecords]
    /\ warned = [r \in Runs |-> FALSE]
    /\ disturbed = [r \in Runs |-> FALSE]

------------------------------------------------------------------------------
(* The world outside. *)

Tick ==
    /\ clock < MaxTime
    /\ clock' = clock + 1
    /\ UNCHANGED <<feed, touched, file, pc, local>>

\* OSV publishes or updates an advisory.
FeedPublishes(a) ==
    /\ touched[a] < MaxRevision
    /\ touched' = [touched EXCEPT ![a] = @ + 1]
    /\ feed' = [feed EXCEPT ![a] = touched[a] + 1]
    /\ UNCHANGED <<clock, file, pc, local>>

\* OSV withdraws an advisory.
FeedWithdraws(a) ==
    /\ feed[a] # 0
    /\ feed' = [feed EXCEPT ![a] = 0]
    /\ UNCHANGED <<clock, touched, file, pc, local>>

------------------------------------------------------------------------------
(* One run of match_components. *)

\* A run that ends leaves nothing behind but the cache file.
Ends(r) ==
    /\ pc' = [pc EXCEPT ![r] = "idle"]
    /\ now' = [now EXCEPT ![r] = 0]
    /\ offline' = [offline EXCEPT ![r] = FALSE]
    /\ answer' = [answer EXCEPT ![r] = NoEntry]
    /\ stale' = [stale EXCEPT ![r] = FALSE]
    /\ previous' = [previous EXCEPT ![r] = NoList]
    /\ records' = [records EXCEPT ![r] = NoRecords]
    /\ warned' = [warned EXCEPT ![r] = FALSE]
    /\ disturbed' = [disturbed EXCEPT ![r] = FALSE]

\* A run reads the clock and looks the purl up; an entry not older than the
\* horizon answers, an older one is remembered as a fallback.
Start(r) ==
    /\ pc[r] = "idle"
    /\ now' = [now EXCEPT ![r] = clock]
    /\ offline' \in {[offline EXCEPT ![r] = b] : b \in BOOLEAN}
    /\ answer' = [answer EXCEPT ![r] = detection]
    /\ stale' = [stale EXCEPT ![r] = FALSE]
    /\ warned' = [warned EXCEPT ![r] = FALSE]
    /\ pc' = [pc EXCEPT ![r] =
          IF HasEntry(detection) /\ detection.at >= clock - CacheMaxAge THEN "delta" ELSE "detect"]
    /\ UNCHANGED <<world, file, previous, records, disturbed>>

\* Without a fresh entry and without an answer from the feed: the stale entry is
\* used, or there is none and nothing is known of the purl. Either is a warning.
FallBack(r) ==
    \/ /\ HasEntry(answer[r])
       /\ stale' = [stale EXCEPT ![r] = TRUE]
       /\ warned' = [warned EXCEPT ![r] = TRUE]
       /\ pc' = [pc EXCEPT ![r] = "delta"]
       /\ UNCHANGED <<world, file, now, offline, answer, previous, records, disturbed>>
    \/ /\ ~HasEntry(answer[r])
       /\ Ends(r)
       /\ UNCHANGED <<world, file>>

DetectOffline(r) ==
    /\ pc[r] = "detect" /\ offline[r]
    /\ FallBack(r)

DetectFails(r) ==
    /\ pc[r] = "detect" /\ ~offline[r] /\ Faults
    /\ FallBack(r)

\* What one detection query can return: the whole list, part of it with a
\* next_page_token that pagination did not get to the end of, or nonsense.
Fetched(r) ==
    [at : {now[r]}, list : {feed}, kind : {"whole"}]
    \cup (IF Faults
          THEN [at : {now[r]}, kind : {"truncated"},
                list : {l \in Lists : \A a \in Advisories : l[a] \in {0, feed[a]}}]
               \cup [at : {now[r]}, kind : {"malformed"}, list : {NoList}]
          ELSE {})

IsTruncated(r) == answer[r].kind = "truncated"
IsMalformed(r) == answer[r].kind = "malformed"

\* A cache store: a failure is a warning and leaves the row as it was.
Stored(old, new) == IF Faults THEN {old, new} ELSE {new}

DetectFetches(r) ==
    /\ pc[r] = "detect" /\ ~offline[r]
    /\ \E entry \in Fetched(r) :
          /\ answer' = [answer EXCEPT ![r] = entry]
          /\ detection' \in Stored(detection, entry)
          /\ warned' = [warned EXCEPT ![r] = @ \/ detection' # entry]
    /\ pc' = [pc EXCEPT ![r] = "delta"]
    /\ UNCHANGED <<world, snapshot, full, now, offline, stale, previous, records, disturbed>>

\* A malformed answer, fetched or cached, is a warning and the purl is skipped.
SkipMalformed(r) ==
    /\ pc[r] = "delta" /\ IsMalformed(r)
    /\ Ends(r)
    /\ UNCHANGED <<world, file>>

\* What lookup_advisory_snapshot can return: the loop over the rows ends without
\* a word on any error, with the rows read so far.
SnapshotReadings ==
    IF Faults THEN {l \in Lists : \A a \in Advisories : l[a] \in {0, snapshot[a]}} ELSE {snapshot}

ReadSnapshot(r) ==
    /\ pc[r] = "delta" /\ ~IsMalformed(r)
    /\ previous' \in {[previous EXCEPT ![r] = l] : l \in SnapshotReadings}
    /\ disturbed' = [disturbed EXCEPT ![r] = previous'[r] # snapshot]
    /\ pc' = [pc EXCEPT ![r] = "store"]
    /\ UNCHANGED <<world, file, now, offline, answer, stale, records, warned>>

\* The delta's removed ids; a truncated answer proves no removal.
Removed(r) ==
    IF IsTruncated(r) THEN {} ELSE IdsIn(previous[r]) \ IdsIn(answer[r].list)

\* delta.is_unchanged(): nothing removed, added or modified.
IsUnchanged(r) ==
    /\ Removed(r) = {}
    /\ \A a \in IdsIn(answer[r].list) : previous[r][a] = answer[r].list[a]

\* Variant for mutation: a truncated answer removes what it does not name.
SnapshotReplaced(r) == answer[r].list

\* Variant for mutation: removed ids are not deleted.
SnapshotOnlyUpserted(r) ==
    [a \in Advisories |-> IF answer[r].list[a] # 0 THEN answer[r].list[a] ELSE snapshot[a]]

\* The snapshot after the upserts and the deletes of store_advisory_snapshot.
NewSnapshot(r) ==
    [a \in Advisories |-> IF answer[r].list[a] # 0 THEN answer[r].list[a]
                          ELSE IF a \in Removed(r) THEN 0 ELSE snapshot[a]]

\* store_advisory_snapshot, one transaction: all of it or nothing and a warning.
\* A purl with no advisories needs no severities.
StoreSnapshot(r) ==
    /\ pc[r] = "store"
    /\ snapshot' \in Stored(snapshot, NewSnapshot(r))
    /\ warned' = [warned EXCEPT ![r] = @ \/ IsTruncated(r) \/ snapshot' # NewSnapshot(r)]
    /\ disturbed' = [q \in Runs |-> q # r /\ (disturbed[q] \/ (pc[q] = "store" /\ snapshot' # snapshot))]
    /\ pc' = [pc EXCEPT ![r] = IF IdsIn(answer[r].list) = {} THEN "report" ELSE "hydrate"]
    /\ UNCHANGED <<world, detection, full, now, offline, answer, stale, previous, records>>

\* Variant for mutation: an unchanged delta of any kind is taken as confirmation.
ConfirmsAnyUnchanged(r) == IsUnchanged(r)

\* detection_confirmed_unchanged.
ConfirmedUnchanged(r) == IsUnchanged(r) /\ ~stale[r] /\ ~IsTruncated(r)

\* Variant for mutation: no outer bound on a confirmed-unchanged payload.
CachedAnswersForEver(r) ==
    /\ HasEntry(full)
    /\ \/ ConfirmedUnchanged(r)
       \/ full.at >= now[r] - CacheMaxAge
       \/ offline[r]

\* The cases in which try_cached_hydration_answer answers from the entry.
CachedAnswers(r) ==
    /\ HasEntry(full)
    /\ \/ ConfirmedUnchanged(r) /\ full.at >= now[r] - ConfirmedMaxAge
       \/ full.at >= now[r] - CacheMaxAge
       \/ offline[r]

\* try_cached_hydration_answer: from the entry, empty when offline, or a fetch.
HydrateFromCache(r) ==
    /\ pc[r] = "hydrate"
    /\ IF CachedAnswers(r) \/ offline[r]
       THEN /\ records' = [records EXCEPT ![r] = full]
            /\ pc' = [pc EXCEPT ![r] = "report"]
       ELSE /\ pc' = [pc EXCEPT ![r] = "fetch"]
            /\ UNCHANGED records
    /\ UNCHANGED <<world, file, now, offline, answer, stale, previous, warned, disturbed>>

\* finish_hydration_fetch with a usable response.
HydrateFetches(r) ==
    /\ pc[r] = "fetch"
    /\ LET entry == [at |-> now[r], list |-> feed] IN
          /\ records' = [records EXCEPT ![r] = entry]
          /\ full' \in Stored(full, entry)
          /\ warned' = [warned EXCEPT ![r] = @ \/ full' # entry]
    /\ pc' = [pc EXCEPT ![r] = "report"]
    /\ UNCHANGED <<world, detection, snapshot, now, offline, answer, stale, previous, disturbed>>

\* finish_hydration_fetch without one: a warning, and whatever is cached.
HydrateFails(r) ==
    /\ pc[r] = "fetch" /\ Faults
    /\ records' = [records EXCEPT ![r] = full]
    /\ warned' = [warned EXCEPT ![r] = TRUE]
    /\ pc' = [pc EXCEPT ![r] = "report"]
    /\ UNCHANGED <<world, file, now, offline, answer, stale, previous, disturbed>>

\* The hit is assembled and returned.
Report(r) ==
    /\ pc[r] = "report"
    /\ Ends(r)
    /\ UNCHANGED <<world, file>>

\* The process is killed; the cache file keeps what was committed.
Killed(r) ==
    /\ pc[r] # "idle" /\ Faults
    /\ Ends(r)
    /\ UNCHANGED <<world, file>>

RunStep(r) ==
    \/ Start(r) \/ DetectOffline(r) \/ DetectFails(r) \/ DetectFetches(r)
    \/ SkipMalformed(r) \/ ReadSnapshot(r) \/ StoreSnapshot(r)
    \/ HydrateFromCache(r) \/ HydrateFetches(r) \/ HydrateFails(r)
    \/ Report(r) \/ Killed(r)

Next ==
    \/ Tick
    \/ \E a \in Advisories : FeedPublishes(a) \/ FeedWithdraws(a)
    \/ \E r \in Runs : RunStep(r)

Spec == Init /\ [][Next]_vars

\* Runs are interchangeable: nothing but their steps tells one from another.
RunSymmetry == Permutations(Runs)

------------------------------------------------------------------------------
Entries == [at : -1 .. MaxTime, list : Lists, kind : {"whole", "truncated", "malformed"}]
FullEntries == [at : -1 .. MaxTime, list : Lists]

TypeOK ==
    /\ clock \in 0 .. MaxTime
    /\ feed \in Lists /\ touched \in Lists /\ snapshot \in Lists
    /\ detection \in Entries /\ full \in FullEntries
    /\ pc \in [Runs -> {"idle", "detect", "delta", "store", "hydrate", "fetch", "report"}]
    /\ now \in [Runs -> 0 .. MaxTime]
    /\ answer \in [Runs -> Entries] /\ records \in [Runs -> FullEntries]
    /\ previous \in [Runs -> Lists]
    /\ offline \in [Runs -> BOOLEAN] /\ stale \in [Runs -> BOOLEAN]
    /\ warned \in [Runs -> BOOLEAN] /\ disturbed \in [Runs -> BOOLEAN]

\* Whatever killed runs, failed stores and overlapping runs left behind, a run
\* that stores a whole answer, having read the rows in full and with nobody
\* writing between its read and its store, leaves the snapshot equal to that answer: the table is "what OSV said
\* as of the last refresh" and repairs itself.
SnapshotHeals ==
    [][\A r \in Runs :
          /\ StoreSnapshot(r)
          /\ ~disturbed[r] /\ ~IsTruncated(r) /\ snapshot' = NewSnapshot(r)
          => snapshot' = answer[r].list]_vars

\* An incomplete list is no proof of removal: an advisory disappears from the
\* snapshot only in a run whose answer was whole (osv.cpp:904-913).
TruncatedNeverForgets ==
    [][\A r \in Runs :
          StoreSnapshot(r) /\ IsTruncated(r) => IdsIn(snapshot) \subseteq IdsIn(snapshot')]_vars

\* An online run that reports without a warning reports ids at most CacheMaxAge
\* old and severities at most ConfirmedMaxAge old ("no purl's severity/alias
\* data goes stale indefinitely", osv.hpp:34), however the cache was filled.
UnwarnedIsRecent ==
    \A r \in Runs :
        pc[r] = "report" /\ ~offline[r] /\ ~warned[r] =>
            /\ answer[r].at >= now[r] - CacheMaxAge
            /\ IdsIn(answer[r].list) # {} => records[r].at >= now[r] - ConfirmedMaxAge

\* Past the normal horizon, an online run takes severities from the cache without
\* asking only when a whole and fresh answer confirmed the list (osv.cpp:922-930):
\* never on a truncated or a stale one, which may hide a new advisory.
OldRecordsNeedConfirmation ==
    [][\A r \in Runs :
          /\ pc[r] = "hydrate" /\ pc'[r] = "report"
          /\ ~offline[r] /\ records'[r].at < now[r] - CacheMaxAge
          => ~IsTruncated(r) /\ ~stale[r] /\ answer[r].list = previous[r]]_vars
==============================================================================
