---------------------------- MODULE OsvRefresh_proofs ----------------------------
(***************************************************************************)
(* Proofs about runs that share one cache file, for any number of them and   *)
(* of advisories, any horizons, with or without faults. A run keeps what it   *)
(* read in local variables while others write the file, so the invariant      *)
(* says how recent what it holds is at every step it may be at, and when      *)
(* the rows it read are still the rows of the snapshot.                       *)
(***************************************************************************)
EXTENDS OsvRefresh, TLAPS

\* An answer that is older than the horizon was warned of.
AnswerRecent(r) ==
    pc[r] \in {"delta", "store", "hydrate", "fetch", "report"} /\ ~warned[r] =>
        answer[r].at >= now[r] - CacheMaxAge

\* So were severities older than the outer bound, offline apart.
RecordsRecent(r) ==
    pc[r] = "report" /\ ~offline[r] /\ ~warned[r] /\ IdsIn(answer[r].list) # {} =>
        records[r].at >= now[r] - ConfirmedMaxAge

\* A run that nobody disturbed still holds the rows of the snapshot.
HoldsTheSnapshot(r) == pc[r] = "store" /\ ~disturbed[r] => previous[r] = snapshot

RunInv(r) == AnswerRecent(r) /\ RecordsRecent(r) /\ HoldsTheSnapshot(r)

IInv == TypeOK /\ \A r \in Runs : RunInv(r)

------------------------------------------------------------------------------
LEMMA NoListType == NoList \in Lists /\ NoEntry \in Entries /\ NoRecords \in FullEntries
BY BoundsAssumption DEF NoList, NoEntry, NoRecords, Lists, Entries, FullEntries

LEMMA InitIInv == Init => IInv
<1> SUFFICES ASSUME Init PROVE IInv
    OBVIOUS
<1> USE NoListType, BoundsAssumption
<1>1. TypeOK
    BY DEF Init, TypeOK
<1>2. \A r \in Runs : RunInv(r)
    BY DEF Init, RunInv, AnswerRecent, RecordsRecent, HoldsTheSnapshot
<1> QED BY <1>1, <1>2 DEF IInv

\* What one fetch returns is an entry, dated by the run.
LEMMA FetchedType ==
    ASSUME TypeOK, NEW r \in Runs, NEW entry \in Fetched(r)
    PROVE  entry \in Entries /\ entry.at = now[r]
<1>1. now[r] \in 0 .. MaxTime /\ feed \in Lists
    BY DEF TypeOK
<1>2. CASE entry \in [at : {now[r]}, list : {feed}, kind : {"whole"}]
    BY <1>1, <1>2, BoundsAssumption DEF Entries
<1>3. CASE entry \in [at : {now[r]}, kind : {"truncated"},
                      list : {l \in Lists : \A a \in Advisories : l[a] \in {0, feed[a]}}]
    BY <1>1, <1>3, BoundsAssumption DEF Entries
<1>4. CASE entry \in [at : {now[r]}, kind : {"malformed"}, list : {NoList}]
    BY <1>1, <1>4, BoundsAssumption, NoListType DEF Entries
<1> QED BY <1>2, <1>3, <1>4 DEF Fetched

\* The rows read are rows of the snapshot.
LEMMA ReadingsType ==
    ASSUME TypeOK, NEW l \in SnapshotReadings
    PROVE  l \in Lists
BY DEF SnapshotReadings, TypeOK

\* What a run stores is a list.
LEMMA NewSnapshotType ==
    ASSUME TypeOK, NEW r \in Runs
    PROVE  NewSnapshot(r) \in Lists
<1>1. snapshot \in Lists /\ answer[r].list \in Lists
    BY DEF TypeOK, Entries
<1>2. \A a \in Advisories : snapshot[a] \in 0 .. MaxRevision /\ answer[r].list[a] \in 0 .. MaxRevision
    BY <1>1 DEF Lists
<1>3. 0 \in 0 .. MaxRevision
    BY BoundsAssumption
<1> QED BY <1>2, <1>3 DEF NewSnapshot, Lists

\* The world moves on and no run notices.
LEMMA WorldKeeps ==
    ASSUME IInv, Tick \/ (\E a \in Advisories : FeedPublishes(a) \/ FeedWithdraws(a)) \/ UNCHANGED vars
    PROVE  IInv'
<1> USE BoundsAssumption
<1>1. UNCHANGED <<file, pc, local>>
    BY DEF Tick, FeedPublishes, FeedWithdraws, vars
<1>2. clock' \in 0 .. MaxTime /\ feed' \in Lists /\ touched' \in Lists
    <2>1. clock \in 0 .. MaxTime /\ feed \in Lists /\ touched \in Lists
        BY DEF IInv, TypeOK
    <2>2. CASE Tick \/ UNCHANGED vars
        BY <2>1, <2>2 DEF Tick, vars, world
    <2>3. ASSUME NEW a \in Advisories, FeedPublishes(a)
          PROVE  clock' = clock /\ feed' \in Lists /\ touched' \in Lists
        <3>1. touched[a] + 1 \in 0 .. MaxRevision
            BY <2>1, <2>3 DEF FeedPublishes, Lists
        <3> QED BY <2>1, <2>3, <3>1 DEF FeedPublishes, Lists
    <2>4. ASSUME NEW a \in Advisories, FeedWithdraws(a)
          PROVE  UNCHANGED <<clock, touched>> /\ feed' \in Lists
        BY <2>1, <2>4 DEF FeedWithdraws, Lists
    <2> QED BY <2>1, <2>2, <2>3, <2>4
<1>3. TypeOK'
    BY <1>1, <1>2 DEF IInv, TypeOK, file, local
<1>4. \A r \in Runs : RunInv(r)'
    BY <1>1 DEF IInv, RunInv, AnswerRecent, RecordsRecent, HoldsTheSnapshot, file, local, IdsIn
<1> QED BY <1>3, <1>4 DEF IInv

\* The end of a run, at any step, leaves the others and the file alone.
LEMMA EndsKeeps ==
    ASSUME IInv, NEW r \in Runs, Ends(r), UNCHANGED <<world, file>>
    PROVE  IInv'
<1> USE NoListType, BoundsAssumption
<1>1. TypeOK'
    BY DEF IInv, TypeOK, Ends, world, file
<1>2. ASSUME NEW q \in Runs PROVE RunInv(q)'
    <2>1. CASE q = r
        BY <2>1 DEF Ends, IInv, TypeOK, RunInv, AnswerRecent, RecordsRecent, HoldsTheSnapshot
    <2>2. CASE q # r
        BY <2>2 DEF Ends, IInv, TypeOK, RunInv, AnswerRecent, RecordsRecent, HoldsTheSnapshot, file, IdsIn
    <2> QED BY <2>1, <2>2
<1> QED BY <1>1, <1>2 DEF IInv

\* Looking the purl up: a fresh entry answers, an older one is asked about.
LEMMA StartKeeps ==
    ASSUME IInv, NEW r \in Runs, Start(r)
    PROVE  IInv'
<1> USE BoundsAssumption, AgesAssumption
<1>1. UNCHANGED <<world, file, previous, records, disturbed>>
    BY DEF Start
<1>2. TypeOK'
    BY <1>1 DEF IInv, TypeOK, Start, world, file
<1>3. ASSUME NEW q \in Runs PROVE RunInv(q)'
    <2>1. CASE q = r
        BY <1>1, <2>1 DEF Start, IInv, TypeOK, RunInv, AnswerRecent, RecordsRecent, HoldsTheSnapshot
    <2>2. CASE q # r
        BY <1>1, <2>2 DEF Start, IInv, TypeOK, RunInv, AnswerRecent, RecordsRecent, HoldsTheSnapshot, file, IdsIn
    <2> QED BY <2>1, <2>2
<1> QED BY <1>2, <1>3 DEF IInv

\* An answer from the feed is as old as the run, a stale one is warned of.
LEMMA DetectKeeps ==
    ASSUME IInv, NEW r \in Runs, DetectOffline(r) \/ DetectFails(r) \/ DetectFetches(r)
    PROVE  IInv'
<1> USE BoundsAssumption, AgesAssumption
<1>1. ASSUME FallBack(r) PROVE IInv'
    <2>1. CASE Ends(r) /\ UNCHANGED <<world, file>>
        BY <2>1, EndsKeeps
    <2>2. CASE /\ stale' = [stale EXCEPT ![r] = TRUE]
               /\ warned' = [warned EXCEPT ![r] = TRUE]
               /\ pc' = [pc EXCEPT ![r] = "delta"]
               /\ UNCHANGED <<world, file, now, offline, answer, previous, records, disturbed>>
        <3>1. TypeOK'
            BY <2>2 DEF IInv, TypeOK, world, file
        <3>2. ASSUME NEW q \in Runs PROVE RunInv(q)'
            <4>1. CASE q = r
                BY <2>2, <4>1 DEF IInv, TypeOK, RunInv, AnswerRecent, RecordsRecent, HoldsTheSnapshot
            <4>2. CASE q # r
                BY <2>2, <4>2 DEF IInv, TypeOK, RunInv, AnswerRecent, RecordsRecent, HoldsTheSnapshot, file, IdsIn
            <4> QED BY <4>1, <4>2
        <3> QED BY <3>1, <3>2 DEF IInv
    <2> QED BY <1>1, <2>1, <2>2 DEF FallBack
<1>2. CASE DetectFetches(r)
    <2>1. PICK entry \in Fetched(r) :
              /\ answer' = [answer EXCEPT ![r] = entry]
              /\ detection' \in Stored(detection, entry)
              /\ warned' = [warned EXCEPT ![r] = @ \/ detection' # entry]
        BY <1>2 DEF DetectFetches
    <2>2. /\ pc' = [pc EXCEPT ![r] = "delta"]
          /\ UNCHANGED <<world, snapshot, full, now, offline, stale, previous, records, disturbed>>
        BY <1>2 DEF DetectFetches
    <2>3. entry \in Entries /\ entry.at = now[r]
        BY FetchedType DEF IInv
    <2>4. detection' \in Entries
        BY <2>1, <2>3 DEF Stored, IInv, TypeOK
    <2>5. warned' \in [Runs -> BOOLEAN]
        BY <2>1 DEF IInv, TypeOK
    <2>6. TypeOK'
        BY <2>1, <2>2, <2>3, <2>4, <2>5 DEF IInv, TypeOK, world
    <2>7. ASSUME NEW q \in Runs PROVE RunInv(q)'
        <3>1. CASE q = r
            BY <2>1, <2>2, <2>3, <3>1 DEF IInv, TypeOK, RunInv, AnswerRecent, RecordsRecent, HoldsTheSnapshot
        <3>2. CASE q # r
            BY <2>1, <2>2, <3>2 DEF IInv, TypeOK, RunInv, AnswerRecent, RecordsRecent, HoldsTheSnapshot, IdsIn
        <3> QED BY <3>1, <3>2
    <2> QED BY <2>6, <2>7 DEF IInv
<1> QED BY <1>1, <1>2 DEF DetectOffline, DetectFails

\* Reading the snapshot: a run that got less than all of it counts as disturbed.
LEMMA ReadKeeps ==
    ASSUME IInv, NEW r \in Runs, ReadSnapshot(r)
    PROVE  IInv'
<1>1. /\ pc[r] = "delta" /\ pc' = [pc EXCEPT ![r] = "store"]
      /\ UNCHANGED <<world, file, now, offline, answer, stale, records, warned>>
      /\ disturbed' = [disturbed EXCEPT ![r] = previous'[r] # snapshot]
    BY DEF ReadSnapshot
<1>2. PICK l \in SnapshotReadings : previous' = [previous EXCEPT ![r] = l]
    BY DEF ReadSnapshot
<1>3. TypeOK'
    <2>1. previous' \in [Runs -> Lists]
        BY <1>2, ReadingsType DEF IInv, TypeOK
    <2>2. disturbed' \in [Runs -> BOOLEAN]
        BY <1>1 DEF IInv, TypeOK
    <2> QED BY <1>1, <2>1, <2>2 DEF IInv, TypeOK, world, file
<1>4. ASSUME NEW q \in Runs PROVE RunInv(q)'
    <2>1. CASE q = r
        <3>1. AnswerRecent(q)' /\ RecordsRecent(q)'
            BY <1>1, <2>1 DEF IInv, TypeOK, RunInv, AnswerRecent, RecordsRecent
        <3>2. HoldsTheSnapshot(q)'
            BY <1>1, <2>1 DEF IInv, TypeOK, HoldsTheSnapshot, file
        <3> QED BY <3>1, <3>2 DEF RunInv
    <2>2. CASE q # r
        BY <1>1, <1>2, <2>2 DEF IInv, TypeOK, RunInv, AnswerRecent, RecordsRecent, HoldsTheSnapshot, file, IdsIn
    <2> QED BY <2>1, <2>2
<1> QED BY <1>3, <1>4 DEF IInv

\* Writing it disturbs every run between its own read and write.
LEMMA StoreKeeps ==
    ASSUME IInv, NEW r \in Runs, StoreSnapshot(r)
    PROVE  IInv'
<1>1. /\ pc[r] = "store"
      /\ pc' = [pc EXCEPT ![r] = IF IdsIn(answer[r].list) = {} THEN "report" ELSE "hydrate"]
      /\ warned' = [warned EXCEPT ![r] = @ \/ IsTruncated(r) \/ snapshot' # NewSnapshot(r)]
      /\ disturbed' = [q \in Runs |-> q # r /\ (disturbed[q] \/ (pc[q] = "store" /\ snapshot' # snapshot))]
      /\ UNCHANGED <<world, detection, full, now, offline, answer, stale, previous, records>>
    BY DEF StoreSnapshot
<1>2. snapshot' \in Lists
    BY NewSnapshotType DEF StoreSnapshot, Stored, IInv, TypeOK
<1>3. TypeOK'
    <2>1. disturbed' \in [Runs -> BOOLEAN]
        BY <1>1
    <2>2. warned' \in [Runs -> BOOLEAN]
        BY <1>1 DEF IInv, TypeOK
    <2> QED BY <1>1, <1>2, <2>1, <2>2 DEF IInv, TypeOK, world
<1>4. ASSUME NEW q \in Runs PROVE RunInv(q)'
    <2>1. CASE q = r
        <3>1. warned'[q] = FALSE => warned[q] = FALSE
            BY <1>1, <2>1 DEF IInv, TypeOK
        <3>2. AnswerRecent(q)' /\ RecordsRecent(q)' /\ HoldsTheSnapshot(q)'
            BY <1>1, <2>1, <3>1 DEF IInv, TypeOK, RunInv, AnswerRecent, RecordsRecent, HoldsTheSnapshot, IdsIn
        <3> QED BY <3>2 DEF RunInv
    <2>2. CASE q # r
        <3>1. AnswerRecent(q)' /\ RecordsRecent(q)'
            BY <1>1, <2>2 DEF IInv, TypeOK, RunInv, AnswerRecent, RecordsRecent, IdsIn
        <3>2. HoldsTheSnapshot(q)'
            <4>1. pc'[q] = pc[q] /\ previous'[q] = previous[q]
                BY <1>1, <2>2 DEF IInv, TypeOK
            <4>2. pc[q] = "store" /\ ~disturbed'[q] => ~disturbed[q] /\ snapshot' = snapshot
                BY <1>1, <2>2
            <4> QED BY <4>1, <4>2 DEF IInv, RunInv, HoldsTheSnapshot
        <3> QED BY <3>1, <3>2 DEF RunInv
    <2> QED BY <2>1, <2>2
<1> QED BY <1>3, <1>4 DEF IInv

\* Severities come from the cache within the outer bound, or are as new as the
\* run, or are warned of.
LEMMA HydrateKeeps ==
    ASSUME IInv, NEW r \in Runs, HydrateFromCache(r) \/ HydrateFetches(r) \/ HydrateFails(r)
    PROVE  IInv'
<1> USE BoundsAssumption, AgesAssumption
<1>1. CASE HydrateFromCache(r)
    <2>1. pc[r] = "hydrate" /\ UNCHANGED <<world, file, now, offline, answer, stale, previous, warned, disturbed>>
        BY <1>1 DEF HydrateFromCache
    <2>2. \/ /\ CachedAnswers(r) \/ offline[r]
             /\ records' = [records EXCEPT ![r] = full] /\ pc' = [pc EXCEPT ![r] = "report"]
          \/ pc' = [pc EXCEPT ![r] = "fetch"] /\ UNCHANGED records
        BY <1>1 DEF HydrateFromCache
    <2>3. TypeOK'
        BY <2>1, <2>2 DEF IInv, TypeOK, world, file
    <2>4. ASSUME NEW q \in Runs PROVE RunInv(q)'
        <3>1. CASE q = r
            <4>1. AnswerRecent(q)' /\ HoldsTheSnapshot(q)'
                BY <2>1, <2>2, <3>1 DEF IInv, TypeOK, RunInv, AnswerRecent, HoldsTheSnapshot
            <4>2. RecordsRecent(q)'
                <5> SUFFICES ASSUME pc'[r] = "report", ~offline[r]
                             PROVE  records'[r].at >= now[r] - ConfirmedMaxAge
                    BY <2>1, <3>1 DEF RecordsRecent
                <5>1. CachedAnswers(r) /\ records'[r] = full
                    BY <2>2 DEF IInv, TypeOK
                <5>2. now[r] \in Nat /\ full.at \in Int
                    BY DEF IInv, TypeOK, FullEntries
                <5> QED BY <5>1, <5>2 DEF CachedAnswers
            <4> QED BY <4>1, <4>2 DEF RunInv
        <3>2. CASE q # r
            BY <2>1, <2>2, <3>2 DEF IInv, TypeOK, RunInv, AnswerRecent, RecordsRecent, HoldsTheSnapshot, file, IdsIn
        <3> QED BY <3>1, <3>2
    <2> QED BY <2>3, <2>4 DEF IInv
<1>2. CASE HydrateFetches(r)
    <2> DEFINE entry == [at |-> now[r], list |-> feed]
    <2>1. /\ pc[r] = "fetch" /\ pc' = [pc EXCEPT ![r] = "report"]
          /\ records' = [records EXCEPT ![r] = entry] /\ full' \in Stored(full, entry)
          /\ warned' = [warned EXCEPT ![r] = @ \/ full' # entry]
          /\ UNCHANGED <<world, detection, snapshot, now, offline, answer, stale, previous, disturbed>>
        BY <1>2 DEF HydrateFetches
    <2>2. entry \in FullEntries /\ entry.at = now[r]
        BY DEF IInv, TypeOK, FullEntries
    <2> HIDE DEF entry
    <2>3. full' \in FullEntries
        BY <2>1, <2>2 DEF Stored, IInv, TypeOK
    <2>4. warned' \in [Runs -> BOOLEAN]
        BY <2>1 DEF IInv, TypeOK
    <2>5. TypeOK'
        BY <2>1, <2>2, <2>3, <2>4 DEF IInv, TypeOK, world
    <2>6. ASSUME NEW q \in Runs PROVE RunInv(q)'
        <3>1. CASE q = r
            <4>1. warned'[q] = FALSE => warned[q] = FALSE
                BY <2>1, <3>1 DEF IInv, TypeOK
            <4>2. now[r] >= now[r] - ConfirmedMaxAge
                BY DEF IInv, TypeOK
            <4> QED BY <2>1, <2>2, <3>1, <4>1, <4>2
                DEF IInv, TypeOK, RunInv, AnswerRecent, RecordsRecent, HoldsTheSnapshot
        <3>2. CASE q # r
            BY <2>1, <3>2 DEF IInv, TypeOK, RunInv, AnswerRecent, RecordsRecent, HoldsTheSnapshot, IdsIn
        <3> QED BY <3>1, <3>2
    <2> QED BY <2>5, <2>6 DEF IInv
<1>3. CASE HydrateFails(r)
    <2>1. /\ pc[r] = "fetch" /\ pc' = [pc EXCEPT ![r] = "report"]
          /\ records' = [records EXCEPT ![r] = full] /\ warned' = [warned EXCEPT ![r] = TRUE]
          /\ UNCHANGED <<world, file, now, offline, answer, stale, previous, disturbed>>
        BY <1>3 DEF HydrateFails
    <2>2. TypeOK'
        BY <2>1 DEF IInv, TypeOK, world, file
    <2>3. ASSUME NEW q \in Runs PROVE RunInv(q)'
        <3>1. CASE q = r
            BY <2>1, <3>1 DEF IInv, TypeOK, RunInv, AnswerRecent, RecordsRecent, HoldsTheSnapshot
        <3>2. CASE q # r
            BY <2>1, <3>2 DEF IInv, TypeOK, RunInv, AnswerRecent, RecordsRecent, HoldsTheSnapshot, file, IdsIn
        <3> QED BY <3>1, <3>2
    <2> QED BY <2>2, <2>3 DEF IInv
<1> QED BY <1>1, <1>2, <1>3

LEMMA NextIInv == IInv /\ [Next]_vars => IInv'
<1> SUFFICES ASSUME IInv, [Next]_vars PROVE IInv'
    OBVIOUS
<1>1. ASSUME NEW r \in Runs, RunStep(r) PROVE IInv'
    <2>1. CASE SkipMalformed(r) \/ Report(r) \/ Killed(r)
        BY <2>1, EndsKeeps DEF SkipMalformed, Report, Killed
    <2>2. CASE DetectOffline(r) \/ DetectFails(r) \/ DetectFetches(r)
        BY <2>2, DetectKeeps
    <2>3. CASE HydrateFromCache(r) \/ HydrateFetches(r) \/ HydrateFails(r)
        BY <2>3, HydrateKeeps
    <2> QED BY <1>1, <2>1, <2>2, <2>3, StartKeeps, ReadKeeps, StoreKeeps DEF RunStep
<1> QED BY <1>1, WorldKeeps DEF Next

\* What a run took from the cache is as old as it takes it to be, whatever the other
\* runs write meanwhile (match_components).
THEOREM Invariance == Spec => []IInv
BY InitIInv, NextIInv, PTL DEF Spec

\* Every variable keeps its type, whatever fails.
THEOREM TypeCorrect == Spec => []TypeOK
<1>1. IInv => TypeOK
    BY DEF IInv
<1> QED BY <1>1, Invariance, PTL

\* "no purl's severity/alias data goes stale indefinitely" (osv.hpp:34): without a
\* warning, ids are within the horizon and severities within the outer bound.
THEOREM RecencyCorrect == Spec => []UnwarnedIsRecent
<1>1. IInv => UnwarnedIsRecent
    BY DEF IInv, RunInv, AnswerRecent, RecordsRecent, UnwarnedIsRecent
<1> QED BY <1>1, Invariance, PTL

\* With the rows of the snapshot and a whole answer, what is stored is the answer:
\* what it names is upserted and every other row it had is removed.
LEMMA WholeAnswerReplaces ==
    ASSUME TypeOK, NEW r \in Runs, previous[r] = snapshot, ~IsTruncated(r)
    PROVE  NewSnapshot(r) = answer[r].list
<1>1. snapshot \in Lists /\ answer[r].list \in Lists
    BY DEF TypeOK, Entries
<1>2. ASSUME NEW a \in Advisories
      PROVE  (IF answer[r].list[a] # 0 THEN answer[r].list[a]
              ELSE IF a \in Removed(r) THEN 0 ELSE snapshot[a]) = answer[r].list[a]
    BY DEF Removed, IdsIn
<1>3. answer[r].list = [a \in Advisories |-> answer[r].list[a]]
    BY <1>1 DEF Lists
<1> QED BY <1>2, <1>3 DEF NewSnapshot

\* An undisturbed run with a whole answer repairs the snapshot, whatever killed
\* runs, failed stores and overlapping runs left in it (store_advisory_snapshot).
THEOREM HealingCorrect == Spec => SnapshotHeals
<1>1. IInv /\ [Next]_vars =>
          [\A r \in Runs :
              /\ StoreSnapshot(r)
              /\ ~disturbed[r] /\ ~IsTruncated(r) /\ snapshot' = NewSnapshot(r)
              => snapshot' = answer[r].list]_vars
    <2> SUFFICES ASSUME IInv, NEW r \in Runs, StoreSnapshot(r),
                        ~disturbed[r], ~IsTruncated(r), snapshot' = NewSnapshot(r)
                 PROVE  snapshot' = answer[r].list
        OBVIOUS
    <2>1. previous[r] = snapshot
        BY DEF StoreSnapshot, IInv, RunInv, HoldsTheSnapshot
    <2> QED BY <2>1, WholeAnswerReplaces DEF IInv
<1> QED BY <1>1, Invariance, PTL DEF Spec, SnapshotHeals

\* An answer that was cut short removes no advisory (osv.cpp:904-913).
THEOREM TruncationCorrect == Spec => TruncatedNeverForgets
<1>1. IInv /\ [Next]_vars =>
          [\A r \in Runs :
              StoreSnapshot(r) /\ IsTruncated(r) => IdsIn(snapshot) \subseteq IdsIn(snapshot')]_vars
    <2> SUFFICES ASSUME IInv, NEW r \in Runs, StoreSnapshot(r), IsTruncated(r),
                        NEW a \in Advisories, snapshot[a] # 0
                 PROVE  snapshot'[a] # 0
        BY DEF IdsIn
    <2>1. snapshot' = snapshot \/ snapshot' = NewSnapshot(r)
        BY DEF StoreSnapshot, Stored
    <2>2. NewSnapshot(r)[a] # 0
        BY DEF NewSnapshot, Removed
    <2> QED BY <2>1, <2>2
<1> QED BY <1>1, Invariance, PTL DEF Spec, TruncatedNeverForgets

\* Severities past the normal horizon are taken unasked only for a list that a
\* whole and fresh answer confirmed (osv.cpp:922-930).
THEOREM ConfirmationCorrect == Spec => OldRecordsNeedConfirmation
<1>1. IInv /\ [Next]_vars =>
          [\A r \in Runs :
              /\ pc[r] = "hydrate" /\ pc'[r] = "report"
              /\ ~offline[r] /\ records'[r].at < now[r] - CacheMaxAge
              => ~IsTruncated(r) /\ ~stale[r] /\ answer[r].list = previous[r]]_vars
    <2> SUFFICES ASSUME IInv, Next, NEW r \in Runs, pc[r] = "hydrate", pc'[r] = "report",
                        ~offline[r], records'[r].at < now[r] - CacheMaxAge
                 PROVE  ~IsTruncated(r) /\ ~stale[r] /\ answer[r].list = previous[r]
        OBVIOUS
    <2> USE AgesAssumption, BoundsAssumption
    <2>1. pc \in [Runs -> {"idle", "detect", "delta", "store", "hydrate", "fetch", "report"}]
        BY DEF IInv, TypeOK
    <2>2. HydrateFromCache(r)
        <3>1. ASSUME NEW q \in Runs, RunStep(q) PROVE q = r /\ HydrateFromCache(q)
            <4>1. pc'[r] # pc[r]
                OBVIOUS
            <4>2. q = r
                BY <2>1, <3>1, <4>1 DEF RunStep, Start, DetectOffline, DetectFails, FallBack, Ends, DetectFetches,
                    SkipMalformed, ReadSnapshot, StoreSnapshot, HydrateFromCache, HydrateFetches,
                    HydrateFails, Report, Killed
            <4> QED BY <2>1, <3>1, <4>2 DEF RunStep, Start, DetectOffline, DetectFails, DetectFetches, Ends,
                    SkipMalformed, ReadSnapshot, StoreSnapshot, HydrateFetches, HydrateFails, Report, Killed
        <3>2. pc' # pc
            OBVIOUS
        <3> QED BY <3>1, <3>2 DEF Next, Tick, FeedPublishes, FeedWithdraws
    <2>3. CachedAnswers(r) /\ records'[r] = full
        BY <2>1, <2>2 DEF HydrateFromCache, IInv, TypeOK
    <2>4. ConfirmedUnchanged(r)
        <3>1. now[r] \in Nat /\ full.at \in Int
            BY DEF IInv, TypeOK, FullEntries
        <3> QED BY <2>3, <3>1 DEF CachedAnswers
    <2>5. answer[r].list = previous[r]
        <3>1. answer[r].list \in Lists /\ previous[r] \in Lists
            BY DEF IInv, TypeOK, Entries
        <3>2. ASSUME NEW a \in Advisories PROVE answer[r].list[a] = previous[r][a]
            BY <2>4 DEF ConfirmedUnchanged, IsUnchanged, Removed, IdsIn
        <3> QED BY <3>1, <3>2 DEF Lists
    <2> QED BY <2>4, <2>5 DEF ConfirmedUnchanged
<1> QED BY <1>1, Invariance, PTL DEF Spec, OldRecordsNeedConfirmation
=================================================================================
