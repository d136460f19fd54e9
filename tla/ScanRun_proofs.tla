----------------------------- MODULE ScanRun_proofs -----------------------------
(***************************************************************************)
(* Proofs about one scan. Its stages, for any set of warning codes and any  *)
(* number of warnings: the promises are about the end of the run, so the    *)
(* invariant says what holds at each stage of it: what the artifacts hold   *)
(* before and after their stage, where the warnings of the feed passes are, *)
(* and how the outcome is recorded between the step that decides it and the *)
(* exit code. Then the list of components the scan assembles, for any tree, *)
(* corpus and components of the other producers: what is read of a file,    *)
(* what the corpus rewrites and what the merge keeps. Last what the corpus  *)
(* claims: what is hashed under the budget, what a match earns, and where a *)
(* copy is between its match and the end.                                   *)
(***************************************************************************)
EXTENDS ScanRun, VendoredIdentity, SequenceTheorems, FiniteSetTheorems, WellFoundedInduction, TLAPS

\* The stage that writes each artifact.
Place == [sbom |-> 30, sidecar |-> 31, coverage |-> 32, html |-> 33, warnings |-> 34]

\* The recorder was made before the configuration file, the only source of
\* suppressions, was read: every warning degrades the run.
NothingSuppressed ==
    /\ stage = 1 => suppressed = {}
    /\ recorder.suppressed = {}
    /\ recorder.degraded <=> recorder.collected # <<>>

\* The natural exit code is decided when the run is over, and says what happened.
OutcomeRecorded ==
    /\ natural = NoCode <=> stage # Len(Order) + 1
    /\ broken <=> IF natural = NoCode THEN ~lockfilesComplete ELSE natural = Incomplete
    /\ natural = Clean => ~recorder.degraded
    /\ natural = CompletedWithWarnings => recorder.degraded
    /\ exit # NoCode => natural # NoCode /\ exit = Remapped(natural, failOn)

\* An artifact is untouched up to its stage; past its stage, in a run that goes
\* on, it was written if it was asked for, and the SBOM always is.
WrittenInOrder ==
    /\ \A a \in Artifacts : stage <= Place[a] => files[a] = "stale" /\ a \notin requested
    /\ natural # Incomplete =>
          /\ stage > Place["sbom"] => "sbom" \in requested
          /\ \A a \in requested : files[a] \in {"fresh", "cut"}
    /\ NeverBesideStaleSbom

\* Both passes run between the stage that starts them and the one that joins
\* them, and from there on their warnings are among those recorded.
FeedsJoined ==
    /\ stage # 29 => pass.osv # "running" /\ pass.nvd # "running"
    /\ stage < 29 => found.osv = <<>> /\ found.nvd = <<>>
    /\ stage > 29 => ToSet(found.osv) \cup ToSet(found.nvd) \subseteq ToSet(recorder.collected)

\* Nothing is recorded after the report and the warnings file were given what
\* there was.
HandedAll ==
    \A a \in {"html", "warnings"} : files[a] \in {"fresh", "cut"} => held[a] = recorder.collected

IInv == TypeOK /\ NothingSuppressed /\ OutcomeRecorded /\ WrittenInOrder /\ FeedsJoined /\ HandedAll

------------------------------------------------------------------------------
\* The order of the stages, as positions.
LEMMA OrderLength == Len(Order) = 35
BY DEF Order

\* A stage is at its place.
LEMMA StageOf ==
    ASSUME stage \in 1 .. 36
    PROVE  /\ At("arguments") => stage = 1
           /\ At("config") => stage = 2
           /\ \A s \in Gating : At(s) => stage \in 3 .. 12
           /\ \A s \in Lockfiles : At(s) => stage \in 13 .. 23
           /\ \A s \in Advisers : At(s) => stage \in 4 .. 26
           /\ At("trace") => stage = 27
           /\ At("feeds") => stage = 28
           /\ At("join") => stage = 29
           /\ \A a \in Artifacts : At(a) => stage = Place[a]
           /\ At("exit_code") => stage = 35
<1> USE DEF At, Order
<1>1. At("arguments") => stage = 1 OBVIOUS
<1>2. At("config") => stage = 2 OBVIOUS
<1>3. \A s \in Gating : At(s) => stage \in 3 .. 12 BY DEF Gating
<1>4. \A s \in Lockfiles : At(s) => stage \in 13 .. 23 BY DEF Lockfiles
<1>5. \A s \in Advisers : At(s) => stage \in 4 .. 26 BY DEF Advisers
<1>6. /\ At("trace") => stage = 27
      /\ At("feeds") => stage = 28
      /\ At("join") => stage = 29
      /\ At("exit_code") => stage = 35
    OBVIOUS
<1>7. \A a \in Artifacts : At(a) => stage = Place[a] BY DEF Artifacts, Place
<1> QED BY <1>1, <1>2, <1>3, <1>4, <1>5, <1>6, <1>7

\* A warning of the stage the run is at is a warning.
LEMMA RaisedAreWarnings ==
    ASSUME NEW s, At(s), stage \in 1 .. 36, NEW must \in BOOLEAN, NEW w \in Raised(s, must)
    PROVE  w \in Seq(Warnings) /\ (must => w # <<>>)
<1>1. s \in ToSet(Order)
    BY OrderLength DEF At, ToSet
<1>2. CASE w = <<>>
    BY <1>2 DEF Raised, Warnings
<1>3. CASE w # <<>>
    <2>1. PICK c \in Codes : w = <<Warning(s, c)>>
        BY <1>3 DEF Raised
    <2>2. Warning(s, c) \in Warnings
        BY <1>1 DEF Warning, Warnings
    <2> HIDE DEF Warnings
    <2> QED BY <1>3, <2>1, <2>2
<1> QED BY <1>2, <1>3

\* A concatenation holds what both of its parts hold.
LEMMA ToSetConcat ==
    ASSUME NEW S, NEW c \in Seq(S), NEW w \in Seq(S)
    PROVE  ToSet(c \o w) = ToSet(c) \cup ToSet(w)
<1>1. /\ c \o w \in Seq(S) /\ Len(c \o w) = Len(c) + Len(w)
      /\ \A k \in 1 .. Len(c) : (c \o w)[k] = c[k]
      /\ \A k \in Len(c) + 1 .. Len(c) + Len(w) : (c \o w)[k] = w[k - Len(c)]
    OBVIOUS
<1>2. ToSet(c \o w) \subseteq ToSet(c) \cup ToSet(w)
    <2> SUFFICES ASSUME NEW k \in 1 .. Len(c) + Len(w) PROVE (c \o w)[k] \in ToSet(c) \cup ToSet(w)
        BY <1>1 DEF ToSet
    <2>1. CASE k <= Len(c) BY <2>1, <1>1 DEF ToSet
    <2>2. CASE k > Len(c)
        <3>1. k - Len(c) \in 1 .. Len(w) BY <2>2
        <3> QED BY <3>1, <2>2, <1>1 DEF ToSet
    <2> QED BY <2>1, <2>2
<1>3. ToSet(c) \subseteq ToSet(c \o w)
    BY <1>1 DEF ToSet
<1>4. ASSUME NEW k \in 1 .. Len(w) PROVE w[k] \in ToSet(c \o w)
    <2>1. Len(c) + k \in 1 .. Len(c \o w) /\ (c \o w)[Len(c) + k] = w[k]
        BY <1>1
    <2> QED BY <2>1, <1>1 DEF ToSet
<1>5. ToSet(w) \subseteq ToSet(c \o w)
    BY SMTT(60), <1>4 DEF ToSet
<1> QED BY <1>2, <1>3, <1>5

\* record_all only adds.
LEMMA RecordsAdds ==
    ASSUME TypeOK, NothingSuppressed, NEW w \in Seq(Warnings), Records(w)
    PROVE  /\ recorder' \in [suppressed : SUBSET Codes, collected : Seq(Warnings), degraded : BOOLEAN]
           /\ recorder'.suppressed = {}
           /\ recorder'.collected = recorder.collected \o w
           /\ recorder'.degraded <=> recorder'.collected # <<>>
           /\ ToSet(recorder'.collected) = ToSet(recorder.collected) \cup ToSet(w)
<1> DEFINE c == recorder.collected
<1>1. c \in Seq(Warnings) /\ recorder.degraded \in BOOLEAN /\ recorder.suppressed = {}
    BY DEF TypeOK, NothingSuppressed
<1>2. recorder' = [suppressed |-> {}, collected |-> c \o w,
                   degraded |-> recorder.degraded \/ \E x \in ToSet(w) : x.code \notin {}]
    BY <1>1 DEF Records, TypeOK
<1>3. /\ c \o w \in Seq(Warnings) /\ Len(c \o w) = Len(c) + Len(w)
      /\ \A k \in 1 .. Len(c) : (c \o w)[k] = c[k]
      /\ \A k \in Len(c) + 1 .. Len(c) + Len(w) : (c \o w)[k] = w[k - Len(c)]
    BY <1>1
<1>4. ToSet(c \o w) = ToSet(c) \cup ToSet(w)
    BY <1>1, ToSetConcat
<1>5. (\E x \in ToSet(w) : x.code \notin {}) <=> w # <<>>
    <2>1. CASE w = <<>>
        BY <2>1 DEF ToSet
    <2>2. CASE w # <<>>
        <3>1. 1 \in DOMAIN w
            BY <2>2
        <3> QED BY <3>1, <2>2 DEF ToSet
    <2> QED BY <2>1, <2>2
<1>6. c \o w # <<>> <=> c # <<>> \/ w # <<>>
    BY <1>1, <1>3
<1> HIDE DEF c
<1>7. recorder.degraded <=> c # <<>>
    BY DEF NothingSuppressed, c
<1> QED BY <1>1, <1>2, <1>3, <1>4, <1>5, <1>6, <1>7 DEF c

------------------------------------------------------------------------------
\* The run begins with nothing recorded and nothing written.
LEMMA InitIInv == Init => IInv
<1> SUFFICES ASSUME Init PROVE IInv
    OBVIOUS
<1> USE OrderLength DEF Init
<1>1. TypeOK
    <2>1. <<>> \in Seq(Warnings)
        OBVIOUS
    <2>2. recorder \in [suppressed : SUBSET Codes, collected : Seq(Warnings), degraded : BOOLEAN]
        BY <2>1
    <2>3. found \in [osv : Seq(Warnings), nvd : Seq(Warnings)] /\ held \in [html : Seq(Warnings), warnings : Seq(Warnings)]
        BY <2>1
    <2>4. lockfilesComplete \in BOOLEAN /\ broken \in BOOLEAN
        OBVIOUS
    <2>5. files \in [Artifacts -> {"stale", "partial", "cut", "fresh"}] /\ requested \subseteq Artifacts
        OBVIOUS
    <2>6. stage \in 1 .. Len(Order) + 1 /\ suppressed \subseteq Codes
        OBVIOUS
    <2>7. {natural, exit} \subseteq {Clean, CompletedWithWarnings, Incomplete, NoCode}
        BY DEF NoCode
    <2>8. /\ pass \in [osv : {"off", "running", "over"}, nvd : {"off", "running", "over"}]
          /\ failOn \in {"warnings", "incomplete", "none"}
        OBVIOUS
    <2> QED BY <2>2, <2>3, <2>4, <2>5, <2>6, <2>7, <2>8 DEF TypeOK
<1>2. NothingSuppressed
    BY DEF NothingSuppressed
<1>3. OutcomeRecorded
    BY DEF OutcomeRecorded, NoCode, Clean, CompletedWithWarnings
<1>4. WrittenInOrder
    BY DEF WrittenInOrder, Artifacts, Place, NeverBesideStaleSbom
<1>5. FeedsJoined
    BY DEF FeedsJoined
<1>6. HandedAll
    BY DEF HandedAll, Artifacts
<1> QED BY <1>1, <1>2, <1>3, <1>4, <1>5, <1>6 DEF IInv

\* How a producer leaves the run: it goes on, it stops, or it is incomplete.
Outcome ==
    \/ (Advance \/ Stop) /\ UNCHANGED lockfilesComplete
    \/ /\ stage' = stage + 1 /\ UNCHANGED natural
       /\ \E complete \in BOOLEAN :
             /\ lockfilesComplete' = (lockfilesComplete /\ complete)
             /\ broken' = (broken \/ ~complete)

\* Whatever a producer warns of and however it ends, before the feeds nothing
\* else of the run is touched.
LEMMA ProducerKeeps ==
    ASSUME IInv, stage \in 1 .. 27, NEW w \in Seq(Warnings), Records(w),
           suppressed' \subseteq Codes, Outcome, UNCHANGED <<feeds, outputs, failOn, exit>>
    PROVE  IInv'
<1> USE OrderLength
<1>1. natural = NoCode /\ exit = NoCode
    BY DEF IInv, OutcomeRecorded
<1>2. stage' \in {stage + 1, 36}
    BY DEF Outcome, Advance, Stop
<1>3. /\ \/ natural' = NoCode /\ stage' = stage + 1
         \/ natural' = Incomplete /\ stage' = 36
      /\ broken' <=> IF natural' = NoCode THEN ~lockfilesComplete' ELSE natural' = Incomplete
      /\ lockfilesComplete' \in BOOLEAN /\ broken' \in BOOLEAN
    <2>1. (broken <=> ~lockfilesComplete) /\ lockfilesComplete \in BOOLEAN /\ broken \in BOOLEAN
        BY <1>1 DEF IInv, OutcomeRecorded, TypeOK
    <2>2. CASE Advance /\ UNCHANGED lockfilesComplete
        <3>1. UNCHANGED <<natural, broken, lockfilesComplete>> /\ stage' = stage + 1
            BY <2>2 DEF Advance
        <3>2. (broken' <=> ~lockfilesComplete') /\ lockfilesComplete' \in BOOLEAN /\ broken' \in BOOLEAN
            BY <2>1, <3>1
        <3>3. natural' = NoCode /\ stage' = stage + 1
            BY <1>1, <3>1
        <3> QED BY <3>2, <3>3
    <2>3. CASE Stop /\ UNCHANGED lockfilesComplete
        BY <1>1, <2>1, <2>3 DEF Stop, NoCode, Incomplete
    <2>4. CASE /\ stage' = stage + 1 /\ UNCHANGED natural
               /\ \E complete \in BOOLEAN :
                     /\ lockfilesComplete' = (lockfilesComplete /\ complete)
                     /\ broken' = (broken \/ ~complete)
        <3>1. (broken' <=> ~lockfilesComplete') /\ lockfilesComplete' \in BOOLEAN /\ broken' \in BOOLEAN
            BY <2>1, <2>4
        <3>2. natural' = NoCode /\ stage' = stage + 1
            BY <1>1, <2>4
        <3> QED BY <3>1, <3>2
    <2> QED BY <2>2, <2>3, <2>4 DEF Outcome
<1>4. TypeOK'
    BY <1>1, <1>2, <1>3, RecordsAdds DEF IInv, TypeOK, feeds, outputs, NoCode, Incomplete
<1>5. NothingSuppressed'
    BY <1>2, RecordsAdds DEF IInv, NothingSuppressed
<1>6. OutcomeRecorded'
    BY <1>1, <1>2, <1>3 DEF OutcomeRecorded, NoCode, Incomplete, Clean, CompletedWithWarnings
<1>7. \A a \in Artifacts : files[a] = "stale" /\ a \notin requested
    BY DEF IInv, WrittenInOrder, Artifacts, Place
<1>8. WrittenInOrder'
    BY <1>2, <1>3, <1>7 DEF IInv, TypeOK, WrittenInOrder, NeverBesideStaleSbom, outputs, Place, NoCode, Incomplete
<1>9. FeedsJoined'
    BY <1>2 DEF IInv, FeedsJoined, feeds, ToSet
<1>10. HandedAll'
    BY <1>7 DEF HandedAll, outputs, Artifacts
<1> QED BY <1>4, <1>5, <1>6, <1>8, <1>9, <1>10 DEF IInv

\* Every stage before the feeds is such a producer.
LEMMA BeforeTheFeeds ==
    ASSUME IInv,
           \/ Arguments \/ LoadConfig \/ ApplyTrace
           \/ \E s \in Gating : GatingProducer(s)
           \/ \E s \in Lockfiles : LockfileProducer(s)
           \/ \E s \in Advisers : Adviser(s)
    PROVE  IInv'
<1>1. stage \in 1 .. 36
    BY OrderLength DEF IInv, TypeOK
<1>2. ASSUME NEW s, At(s), stage \in 1 .. 27, NEW must \in BOOLEAN, NEW w \in Raised(s, must), Records(w),
             suppressed' \subseteq Codes, Outcome, UNCHANGED <<feeds, outputs, failOn, exit>>
      PROVE  IInv'
    BY <1>1, <1>2, RaisedAreWarnings, ProducerKeeps
<1>3. suppressed \subseteq Codes
    BY DEF IInv, TypeOK
<1>4. CASE Arguments
    <2>1. stage = 1 /\ suppressed = {}
        BY <1>1, <1>4, StageOf DEF Arguments, IInv, NothingSuppressed
    <2>2. /\ recorder \in [suppressed : SUBSET Codes, collected : Seq(Warnings), degraded : BOOLEAN]
          /\ recorder.suppressed = {}
        BY DEF IInv, TypeOK, NothingSuppressed
    <2>3. recorder' = recorder
        BY <1>4, <2>1, <2>2 DEF Arguments
    <2>4. Records(<<>>)
        <3>1. recorder.collected \o <<>> = recorder.collected /\ ToSet(<<>>) = {}
            BY <2>2 DEF ToSet
        <3> QED BY <2>2, <2>3, <3>1 DEF Records
    <2>5. <<>> \in Seq(Warnings)
        OBVIOUS
    <2>6. Outcome
        BY <1>4 DEF Arguments, Outcome
    <2>7. suppressed' \subseteq Codes /\ UNCHANGED <<feeds, outputs, failOn, exit>>
        BY <1>3, <1>4 DEF Arguments
    <2>8. stage \in 1 .. 27
        BY <2>1
    <2> QED BY <2>4, <2>5, <2>6, <2>7, <2>8, ProducerKeeps
<1>5. CASE LoadConfig
    <2>1. stage \in 1 .. 27 /\ At("config")
        BY <1>1, <1>5, StageOf DEF LoadConfig
    <2>2. PICK w \in Raised("config", FALSE) : Records(w)
        BY <1>5 DEF LoadConfig
    <2>3. Outcome
        BY <1>5 DEF LoadConfig, Outcome
    <2>4. suppressed' \subseteq Codes /\ UNCHANGED <<feeds, outputs, failOn, exit>>
        BY <1>3, <1>5 DEF LoadConfig
    <2> QED BY <1>2, <2>1, <2>2, <2>3, <2>4
<1>6. CASE ApplyTrace
    <2>1. stage \in 1 .. 27 /\ At("trace")
        BY <1>1, <1>6, StageOf DEF ApplyTrace
    <2>2. PICK must \in BOOLEAN : \E w \in Raised("trace", must) : Records(w)
        BY <1>6 DEF ApplyTrace
    <2>3. Outcome
        BY <1>6 DEF ApplyTrace, Outcome
    <2>4. suppressed' \subseteq Codes /\ UNCHANGED <<feeds, outputs, failOn, exit>>
        BY <1>3, <1>6 DEF ApplyTrace
    <2> QED BY <1>2, <2>1, <2>2, <2>3, <2>4
<1>7. CASE \E s \in Gating : GatingProducer(s)
    <2>1. PICK s \in Gating : GatingProducer(s)
        BY <1>7
    <2>2. stage \in 1 .. 27 /\ At(s)
        BY <1>1, <2>1, StageOf DEF GatingProducer
    <2>3. PICK w \in Raised(s, FALSE) : Records(w)
        BY <2>1 DEF GatingProducer
    <2>4. Outcome
        BY <2>1 DEF GatingProducer, Outcome
    <2>5. suppressed' \subseteq Codes /\ UNCHANGED <<feeds, outputs, failOn, exit>>
        BY <1>3, <2>1 DEF GatingProducer
    <2> QED BY <1>2, <2>2, <2>3, <2>4, <2>5
<1>8. CASE \E s \in Lockfiles : LockfileProducer(s)
    <2>1. PICK s \in Lockfiles : LockfileProducer(s)
        BY <1>8
    <2>2. stage \in 1 .. 27 /\ At(s)
        BY <1>1, <2>1, StageOf DEF LockfileProducer
    <2>3. PICK w \in Raised(s, FALSE) : Records(w)
        BY <2>1 DEF LockfileProducer
    <2>4. Outcome
        BY <2>1 DEF LockfileProducer, Outcome
    <2>5. suppressed' \subseteq Codes /\ UNCHANGED <<feeds, outputs, failOn, exit>>
        BY <1>3, <2>1 DEF LockfileProducer
    <2> QED BY <1>2, <2>2, <2>3, <2>4, <2>5
<1>9. CASE \E s \in Advisers : Adviser(s)
    <2>1. PICK s \in Advisers : Adviser(s)
        BY <1>9
    <2>2. stage \in 1 .. 27 /\ At(s)
        BY <1>1, <2>1, StageOf DEF Adviser
    <2>3. PICK w \in Raised(s, FALSE) : Records(w)
        BY <2>1 DEF Adviser
    <2>4. Outcome
        BY <2>1 DEF Adviser, Outcome
    <2>5. suppressed' \subseteq Codes /\ UNCHANGED <<feeds, outputs, failOn, exit>>
        BY <1>3, <2>1 DEF Adviser
    <2> QED BY <1>2, <2>2, <2>3, <2>4, <2>5
<1> QED BY <1>4, <1>5, <1>6, <1>7, <1>8, <1>9

\* A feed pass leaves a sequence of warnings.
LEMMA OutcomesAreWarnings ==
    ASSUME NEW p \in {"osv", "nvd"}, NEW w \in Outcomes(p)
    PROVE  w \in Seq(Warnings)
<1>1. CASE w = <<>>
    BY <1>1
<1>2. CASE w # <<>>
    <2>1. PICK c \in Codes : w = <<Warning(p, c)>>
        BY <1>2 DEF Outcomes
    <2>2. Warning(p, c) \in Warnings
        BY DEF Warning, Warnings
    <2> HIDE DEF Warnings
    <2> QED BY <2>1, <2>2
<1> QED BY <1>1, <1>2

\* The passes start with nothing found and end in any order before the join.
LEMMA FeedsKeep ==
    ASSUME IInv, StartFeeds \/ OsvPass \/ NvdPass
    PROVE  IInv'
<1> USE OrderLength
<1>1. stage \in 1 .. 36
    BY DEF IInv, TypeOK
<1>2. CASE StartFeeds
    <2>1. stage = 28 /\ stage' = 29
        BY <1>1, <1>2, StageOf DEF StartFeeds, Advance
    <2>2. UNCHANGED <<suppressed, recorder, lockfilesComplete, found, outputs, natural, failOn, exit, broken>>
        BY <1>2 DEF StartFeeds, Advance
    <2>3. pass' \in [osv : {"off", "running", "over"}, nvd : {"off", "running", "over"}]
        BY <1>2 DEF StartFeeds
    <2>4. TypeOK'
        BY <2>1, <2>2, <2>3 DEF IInv, TypeOK, outputs
    <2>5. NothingSuppressed' /\ OutcomeRecorded'
        BY <2>1, <2>2 DEF IInv, NothingSuppressed, OutcomeRecorded, Remapped
    <2>6. WrittenInOrder'
        BY <2>1, <2>2 DEF IInv, WrittenInOrder, NeverBesideStaleSbom, outputs, Place, Artifacts
    <2>7. FeedsJoined' /\ HandedAll'
        BY <2>1, <2>2 DEF IInv, FeedsJoined, HandedAll, outputs
    <2> QED BY <2>4, <2>5, <2>6, <2>7 DEF IInv
<1>3. CASE OsvPass \/ NvdPass
    <2>1. stage = 29
        BY <1>3 DEF OsvPass, NvdPass, IInv, FeedsJoined
    <2>2. UNCHANGED <<stage, suppressed, recorder, lockfilesComplete, outputs, natural, failOn, exit, broken>>
        BY <1>3 DEF OsvPass, NvdPass
    <2>3. pass' \in [osv : {"off", "running", "over"}, nvd : {"off", "running", "over"}]
        BY <1>3 DEF OsvPass, NvdPass, IInv, TypeOK
    <2>4. found' \in [osv : Seq(Warnings), nvd : Seq(Warnings)]
        <3>1. found \in [osv : Seq(Warnings), nvd : Seq(Warnings)]
            BY DEF IInv, TypeOK
        <3> QED BY <1>3, <3>1, OutcomesAreWarnings DEF OsvPass, NvdPass
    <2>5. TypeOK'
        BY <2>2, <2>3, <2>4 DEF IInv, TypeOK, outputs
    <2>6. NothingSuppressed' /\ OutcomeRecorded'
        BY <2>2 DEF IInv, NothingSuppressed, OutcomeRecorded, Remapped
    <2>7. WrittenInOrder' /\ HandedAll'
        BY <2>2 DEF IInv, WrittenInOrder, NeverBesideStaleSbom, outputs, HandedAll
    <2>8. FeedsJoined'
        BY <2>1, <2>2 DEF FeedsJoined
    <2> QED BY <2>5, <2>6, <2>7, <2>8 DEF IInv
<1> QED BY <1>2, <1>3

\* The join records what both passes found, before anything is written.
LEMMA JoinKeeps ==
    ASSUME IInv, JoinFeeds
    PROVE  IInv'
<1> USE OrderLength
<1> DEFINE w == found.osv \o found.nvd
<1>1. stage = 29 /\ stage' = 30
    BY StageOf DEF JoinFeeds, Advance, IInv, TypeOK
<1>2. UNCHANGED <<suppressed, lockfilesComplete, feeds, outputs, natural, failOn, exit, broken>>
    BY DEF JoinFeeds, Advance
<1>3. found.osv \in Seq(Warnings) /\ found.nvd \in Seq(Warnings)
    BY DEF IInv, TypeOK
<1>4. w \in Seq(Warnings)
    BY <1>3
<1>5. ToSet(w) = ToSet(found.osv) \cup ToSet(found.nvd)
    BY <1>3, ToSetConcat
<1> HIDE DEF w
<1>6. /\ recorder' \in [suppressed : SUBSET Codes, collected : Seq(Warnings), degraded : BOOLEAN]
      /\ recorder'.suppressed = {}
      /\ recorder'.degraded <=> recorder'.collected # <<>>
      /\ ToSet(recorder'.collected) = ToSet(recorder.collected) \cup ToSet(w)
    <2>1. Records(w)
        BY DEF JoinFeeds, w
    <2> QED BY <1>4, <2>1, RecordsAdds DEF IInv
<1>7. natural = NoCode /\ exit = NoCode
    BY <1>1 DEF IInv, OutcomeRecorded
<1>8. \A a \in Artifacts : files[a] = "stale" /\ a \notin requested
    BY <1>1 DEF IInv, WrittenInOrder, Artifacts, Place
<1>9. TypeOK'
    BY <1>1, <1>2, <1>6 DEF IInv, TypeOK, outputs, feeds
<1>10. NothingSuppressed'
    BY <1>1, <1>6 DEF NothingSuppressed
<1>11. OutcomeRecorded'
    BY <1>1, <1>2, <1>7 DEF IInv, OutcomeRecorded, NoCode, Clean, CompletedWithWarnings
<1>12. WrittenInOrder'
    BY <1>1, <1>2, <1>8 DEF IInv, TypeOK, WrittenInOrder, NeverBesideStaleSbom, outputs, Place, Artifacts
<1>13. FeedsJoined'
    <2>1. pass'.osv # "running" /\ pass'.nvd # "running"
        BY <1>2 DEF JoinFeeds, feeds
    <2>2. ToSet(found'.osv) \cup ToSet(found'.nvd) \subseteq ToSet(recorder'.collected)
        BY <1>2, <1>5, <1>6 DEF feeds
    <2> QED BY <1>1, <2>1, <2>2 DEF FeedsJoined
<1>14. HandedAll'
    BY <1>2, <1>8 DEF HandedAll, outputs, Artifacts
<1> QED BY <1>9, <1>10, <1>11, <1>12, <1>13, <1>14 DEF IInv

\* An artifact that is left out stays untouched for good; the SBOM never is.
LEMMA SkipKeeps ==
    ASSUME IInv, NEW a \in Artifacts, Skip(a)
    PROVE  IInv'
<1> USE OrderLength
<1>1. a # "sbom" /\ stage = Place[a] /\ stage \in 31 .. 34 /\ stage' = stage + 1
    <2>1. stage = Place[a]
        BY StageOf DEF Skip, IInv, TypeOK
    <2> QED BY <2>1 DEF Skip, Advance, Place, Artifacts
<1>2. UNCHANGED <<suppressed, recorder, lockfilesComplete, feeds, outputs, natural, failOn, exit, broken>>
    BY DEF Skip, Advance
<1>3. TypeOK'
    <2>1. stage' \in 1 .. 36
        BY <1>1
    <2> QED BY <1>2, <2>1 DEF IInv, TypeOK, outputs, feeds
<1>4. NothingSuppressed' /\ OutcomeRecorded'
    BY <1>1, <1>2 DEF IInv, NothingSuppressed, OutcomeRecorded, Remapped
<1>5. WrittenInOrder'
    <2>1. \A b \in Artifacts : stage' <= Place[b] => stage <= Place[b]
        BY <1>1 DEF Artifacts, Place
    <2>2. stage > Place["sbom"]
        BY <1>1 DEF Place
    <2> QED BY <1>1, <1>2, <2>1, <2>2 DEF IInv, WrittenInOrder, NeverBesideStaleSbom, outputs
<1>6. FeedsJoined' /\ HandedAll'
    BY <1>1, <1>2 DEF IInv, FeedsJoined, HandedAll, outputs, feeds
<1> QED BY <1>3, <1>4, <1>5, <1>6 DEF IInv

\* Only the report's branding can still warn, and the report is handed that too.
LEMMA WriteKeeps ==
    ASSUME IInv, NEW a \in Artifacts, Write(a)
    PROVE  IInv'
<1> USE OrderLength
<1>1. stage = Place[a] /\ stage \in 30 .. 34
    <2>1. stage = Place[a]
        BY StageOf DEF Write, IInv, TypeOK
    <2> QED BY <2>1 DEF Place, Artifacts
<1>2. /\ requested' = requested \cup {a}
      /\ UNCHANGED <<suppressed, lockfilesComplete, feeds, failOn, exit>>
      /\ held' = IF a \in DOMAIN held THEN [held EXCEPT ![a] = recorder'.collected] ELSE held
    BY DEF Write, Handed
<1>3. \/ Stop /\ files' = files
      \/ Stop /\ files' = [files EXCEPT ![a] = "partial"]
      \/ Advance /\ files' = [files EXCEPT ![a] = "fresh"]
      \/ Advance /\ files' = [files EXCEPT ![a] = "cut"]
    BY DEF Write
<1>4. natural = NoCode /\ exit = NoCode
    BY <1>1 DEF IInv, OutcomeRecorded
<1>5. \/ /\ natural' = NoCode /\ broken' = broken /\ stage' = stage + 1
         /\ files' = [files EXCEPT ![a] = "fresh"] \/ files' = [files EXCEPT ![a] = "cut"]
      \/ /\ natural' = Incomplete /\ broken' = TRUE /\ stage' = 36
         /\ files' = files \/ files' = [files EXCEPT ![a] = "partial"]
    BY <1>3, <1>4 DEF Stop, Advance
<1>6. files \in [Artifacts -> {"stale", "partial", "cut", "fresh"}]
    BY DEF IInv, TypeOK
<1>7. \A b \in Artifacts : b # a => files'[b] = files[b]
    BY <1>5, <1>6
<1>8. /\ recorder' \in [suppressed : SUBSET Codes, collected : Seq(Warnings), degraded : BOOLEAN]
      /\ recorder'.suppressed = {}
      /\ recorder'.degraded <=> recorder'.collected # <<>>
      /\ ToSet(recorder.collected) \subseteq ToSet(recorder'.collected)
      /\ a # "html" => recorder' = recorder
    <2>1. CASE a = "html"
        <3>1. PICK w \in Raised("html", FALSE) : Records(w)
            BY <2>1 DEF Write
        <3>2. w \in Seq(Warnings)
            <4>1. At("html") /\ stage \in 1 .. 36 /\ FALSE \in BOOLEAN
                BY <1>1, <2>1 DEF Write
            <4> QED BY <3>1, <4>1, RaisedAreWarnings
        <3> QED BY <2>1, <3>1, <3>2, RecordsAdds DEF IInv
    <2>2. CASE a # "html"
        BY <2>2 DEF Write, IInv, TypeOK, NothingSuppressed
    <2> QED BY <2>1, <2>2
<1>9. TypeOK'
    <2>1. stage' \in 1 .. 36 /\ {natural', exit'} \subseteq {Clean, CompletedWithWarnings, Incomplete, NoCode}
        BY <1>1, <1>2, <1>4, <1>5 DEF NoCode, Incomplete
    <2>2. broken' \in BOOLEAN
        BY <1>5 DEF IInv, TypeOK
    <2>3. files' \in [Artifacts -> {"stale", "partial", "cut", "fresh"}] /\ requested' \subseteq Artifacts
        <3>1. files' \in [Artifacts -> {"stale", "partial", "cut", "fresh"}]
            BY <1>5, <1>6
        <3>2. requested' \subseteq Artifacts
            BY <1>2 DEF IInv, TypeOK
        <3> QED BY <3>1, <3>2
    <2>4. held' \in [html : Seq(Warnings), warnings : Seq(Warnings)]
        <3>1. recorder'.collected \in Seq(Warnings) /\ held \in [html : Seq(Warnings), warnings : Seq(Warnings)]
            BY <1>8 DEF IInv, TypeOK
        <3> QED BY <1>2, <3>1
    <2>5. /\ suppressed' \subseteq Codes /\ lockfilesComplete' \in BOOLEAN
          /\ failOn' \in {"warnings", "incomplete", "none"}
          /\ pass' \in [osv : {"off", "running", "over"}, nvd : {"off", "running", "over"}]
          /\ found' \in [osv : Seq(Warnings), nvd : Seq(Warnings)]
        BY <1>2 DEF IInv, TypeOK, feeds
    <2> QED BY <1>8, <2>1, <2>2, <2>3, <2>4, <2>5 DEF TypeOK
<1>10. NothingSuppressed'
    BY <1>1, <1>5, <1>8 DEF NothingSuppressed
<1>11. OutcomeRecorded'
    <2>1. broken <=> ~lockfilesComplete
        BY <1>4 DEF IInv, OutcomeRecorded
    <2>2. natural' = NoCode <=> stage' # 36
        BY <1>1, <1>5 DEF NoCode, Incomplete
    <2>3. broken' <=> IF natural' = NoCode THEN ~lockfilesComplete' ELSE natural' = Incomplete
        <3>1. CASE natural' = NoCode /\ broken' = broken
            BY <1>2, <2>1, <3>1
        <3>2. CASE natural' = Incomplete /\ broken' = TRUE
            BY <3>2 DEF NoCode, Incomplete
        <3> QED BY <1>5, <3>1, <3>2
    <2>4. exit' = NoCode /\ natural' # Clean /\ natural' # CompletedWithWarnings
        BY <1>2, <1>4, <1>5 DEF NoCode, Incomplete, Clean, CompletedWithWarnings
    <2> QED BY <2>2, <2>3, <2>4 DEF OutcomeRecorded
<1>12. \A b \in Artifacts : stage < Place[b] => files'[b] = "stale" /\ b \notin requested'
    BY <1>1, <1>2, <1>7 DEF IInv, WrittenInOrder, Artifacts, Place
<1>13. natural' # Incomplete => files'[a] \in {"fresh", "cut"}
    BY <1>5, <1>6 DEF NoCode, Incomplete
<1>14. a # "sbom" => files["sbom"] \in {"fresh", "cut"} /\ "sbom" \in requested
    BY <1>1, <1>4 DEF IInv, WrittenInOrder, Artifacts, Place, NoCode, Incomplete
<1>15. WrittenInOrder'
    <2>1. \A b \in Artifacts : stage' <= Place[b] => files'[b] = "stale" /\ b \notin requested'
        <3>1. \A b \in Artifacts : stage' <= Place[b] => stage < Place[b]
            BY <1>1, <1>5 DEF Artifacts, Place
        <3> QED BY <1>12, <3>1
    <2>2. "sbom" \in requested'
        BY <1>2, <1>14
    <2>3. ASSUME natural' # Incomplete, NEW b \in requested' PROVE files'[b] \in {"fresh", "cut"}
        <3>1. CASE b = a
            BY <1>13, <2>3, <3>1
        <3>2. CASE b # a
            <4>1. b \in requested /\ b \in Artifacts
                BY <1>2, <2>3, <3>2 DEF IInv, TypeOK
            <4> QED BY <1>4, <1>7, <3>2, <4>1 DEF IInv, WrittenInOrder, NoCode, Incomplete
        <3> QED BY <3>1, <3>2
    <2>4. NeverBesideStaleSbom'
        <3>1. DOMAIN files' = Artifacts /\ DOMAIN files = Artifacts
            BY <1>5, <1>6
        <3>2. CASE a = "sbom"
            <4>1. \A b \in Artifacts : b # a => files'[b] = "stale"
                BY <1>12, <3>2, <1>1 DEF Artifacts, Place
            <4> QED BY <3>1, <3>2, <4>1 DEF NeverBesideStaleSbom
        <3>3. CASE a # "sbom"
            BY <1>7, <1>14, <3>1, <3>3 DEF NeverBesideStaleSbom, Artifacts
        <3> QED BY <3>2, <3>3
    <2> QED BY <2>1, <2>2, <2>3, <2>4 DEF WrittenInOrder
<1>16. FeedsJoined'
    BY <1>1, <1>2, <1>5, <1>8 DEF IInv, FeedsJoined, feeds
<1>17. HandedAll'
    <2> SUFFICES ASSUME NEW b \in {"html", "warnings"}, files'[b] \in {"fresh", "cut"}
                 PROVE  held'[b] = recorder'.collected
        BY DEF HandedAll
    <2>1. b \in Artifacts /\ held \in [html : Seq(Warnings), warnings : Seq(Warnings)]
        BY DEF Artifacts, IInv, TypeOK
    <2>2. CASE b = a
        BY <1>2, <2>1, <2>2
    <2>3. CASE b # a
        <3>1. files[b] \in {"fresh", "cut"}
            BY <1>7, <2>1, <2>3
        <3>2. Place[b] < stage
            BY <1>1, <3>1, <2>1 DEF IInv, WrittenInOrder, Artifacts, Place
        <3>3. a # "html" /\ held'[b] = held[b]
            BY <1>1, <1>2, <2>1, <2>3, <3>2 DEF Place
        <3> QED BY <1>8, <3>1, <3>3 DEF IInv, HandedAll
    <2> QED BY <2>2, <2>3
<1> QED BY <1>9, <1>10, <1>11, <1>15, <1>16, <1>17 DEF IInv

\* The run that got to its end is judged by what it recorded, and --fail-on then
\* maps the code that was decided.
LEMMA EndKeeps ==
    ASSUME IInv, NaturalExit \/ RunScan
    PROVE  IInv'
<1> USE OrderLength
<1>1. CASE NaturalExit
    <2>1. stage = 35 /\ stage' = 36
        BY <1>1, StageOf DEF NaturalExit, IInv, TypeOK
    <2>2. UNCHANGED <<suppressed, recorder, lockfilesComplete, feeds, outputs, failOn, exit, broken>>
        BY <1>1 DEF NaturalExit
    <2>3. natural' = IF ~lockfilesComplete THEN Incomplete
                     ELSE IF recorder.degraded THEN CompletedWithWarnings ELSE Clean
        BY <1>1 DEF NaturalExit
    <2>4. natural = NoCode /\ exit = NoCode /\ (broken <=> ~lockfilesComplete)
        BY <2>1 DEF IInv, OutcomeRecorded
    <2>5. natural' \in {Clean, CompletedWithWarnings, Incomplete}
        BY <2>3
    <2>6. TypeOK'
        BY <2>1, <2>2, <2>5 DEF IInv, TypeOK, outputs, feeds
    <2>7. NothingSuppressed'
        BY <2>1, <2>2 DEF IInv, NothingSuppressed
    <2>8. OutcomeRecorded'
        <3> USE DEF Clean, CompletedWithWarnings, Incomplete, NoCode
        <3>1. natural' # NoCode /\ exit' = NoCode
            BY <2>2, <2>4, <2>5
        <3>2. natural' = Incomplete <=> ~lockfilesComplete
            BY <2>3
        <3>3. /\ natural' = Clean => ~recorder'.degraded
              /\ natural' = CompletedWithWarnings => recorder'.degraded
            BY <2>2, <2>3
        <3>4. broken' <=> natural' = Incomplete
            BY <2>2, <2>4, <3>2
        <3> QED BY <2>1, <3>1, <3>3, <3>4 DEF OutcomeRecorded
    <2>9. WrittenInOrder'
        <3>1. \A a \in Artifacts : ~(stage' <= Place[a]) /\ stage > Place[a]
            BY <2>1 DEF Artifacts, Place
        <3>2. "sbom" \in requested /\ \A a \in requested : files[a] \in {"fresh", "cut"}
            BY <2>1, <2>4, <3>1 DEF IInv, WrittenInOrder, Artifacts, NoCode, Incomplete
        <3> QED BY <2>2, <3>1, <3>2 DEF IInv, WrittenInOrder, NeverBesideStaleSbom, outputs
    <2>10. FeedsJoined' /\ HandedAll'
        BY <2>1, <2>2 DEF IInv, FeedsJoined, HandedAll, outputs, feeds
    <2> QED BY <2>6, <2>7, <2>8, <2>9, <2>10 DEF IInv
<1>2. CASE RunScan
    <2>1. UNCHANGED <<stage, suppressed, recorder, lockfilesComplete, feeds, outputs, natural, broken>>
        BY <1>2 DEF RunScan
    <2>2. natural # NoCode /\ failOn' \in {"warnings", "incomplete", "none"} /\ exit' = Remapped(natural, failOn')
        BY <1>2 DEF RunScan
    <2>3. natural \in {Clean, CompletedWithWarnings, Incomplete, NoCode}
        BY DEF IInv, TypeOK
    <2>4. exit' \in {Clean, CompletedWithWarnings, Incomplete, NoCode}
        BY <2>2, <2>3 DEF Remapped
    <2>5. TypeOK'
        BY <2>1, <2>2, <2>4 DEF IInv, TypeOK, outputs, feeds
    <2>6. OutcomeRecorded'
        <3>1. exit' # NoCode => natural' # NoCode /\ exit' = Remapped(natural', failOn')
            BY <2>1, <2>2
        <3> QED BY <2>1, <3>1 DEF IInv, OutcomeRecorded
    <2>7. NothingSuppressed' /\ WrittenInOrder' /\ FeedsJoined' /\ HandedAll'
        BY <2>1 DEF IInv, NothingSuppressed, WrittenInOrder, NeverBesideStaleSbom, FeedsJoined, HandedAll, outputs, feeds
    <2> QED BY <2>5, <2>6, <2>7 DEF IInv
<1> QED BY <1>1, <1>2

LEMMA NextIInv == IInv /\ [Next]_vars => IInv'
<1> SUFFICES ASSUME IInv, [Next]_vars PROVE IInv'
    OBVIOUS
<1>1. CASE \/ Arguments \/ LoadConfig \/ ApplyTrace
           \/ \E s \in Gating : GatingProducer(s)
           \/ \E s \in Lockfiles : LockfileProducer(s)
           \/ \E s \in Advisers : Adviser(s)
    BY <1>1, BeforeTheFeeds
<1>2. CASE StartFeeds \/ OsvPass \/ NvdPass
    BY <1>2, FeedsKeep
<1>3. CASE JoinFeeds
    BY <1>3, JoinKeeps
<1>4. ASSUME NEW a \in Artifacts, Skip(a) \/ Write(a) PROVE IInv'
    BY <1>4, SkipKeeps, WriteKeeps
<1>5. CASE NaturalExit \/ RunScan
    BY <1>5, EndKeeps
<1>6. CASE UNCHANGED vars
    <2>1. UNCHANGED <<stage, suppressed, recorder, lockfilesComplete, feeds, outputs, natural, failOn, exit, broken>>
        BY <1>6 DEF vars
    <2>2. TypeOK' /\ NothingSuppressed' /\ OutcomeRecorded'
        BY <2>1 DEF IInv, TypeOK, NothingSuppressed, OutcomeRecorded, Remapped, outputs, feeds
    <2>3. WrittenInOrder' /\ FeedsJoined' /\ HandedAll'
        BY <2>1 DEF IInv, WrittenInOrder, NeverBesideStaleSbom, FeedsJoined, HandedAll, outputs, feeds
    <2> QED BY <2>2, <2>3 DEF IInv
<1> QED BY <1>1, <1>2, <1>3, <1>4, <1>5, <1>6 DEF Next

\* What the recorder holds, the outcome it implies and the artifacts already written
\* agree at every stage of run_scan_ignoring_fail_on.
THEOREM Invariance == Spec => []IInv
BY InitIInv, NextIInv, PTL DEF Spec

\* Every variable of the scan keeps its type.
THEOREM TypeCorrect == Spec => []TypeOK
<1>1. IInv => TypeOK
    BY DEF IInv
<1> QED BY <1>1, Invariance, PTL

\* Whatever the report and the warnings file were given is all the run recorded,
\* the warnings of both feed passes included (run_scan_ignoring_fail_on).
THEOREM ReplayCorrect == Spec => []ReplayIsComplete
<1>1. IInv => ReplayIsComplete
    <2> SUFFICES ASSUME IInv PROVE ReplayIsComplete
        OBVIOUS
    <2>1. DOMAIN held = {"html", "warnings"} /\ DOMAIN found = {"osv", "nvd"}
        BY DEF IInv, TypeOK
    <2>2. ASSUME files["sbom"] = "fresh" PROVE stage > 29
        BY <2>2, OrderLength DEF IInv, TypeOK, WrittenInOrder, Artifacts, Place
    <2>3. ASSUME files["sbom"] = "fresh", NEW p \in DOMAIN found
          PROVE  ToSet(found[p]) \subseteq ToSet(recorder.collected)
        BY <2>1, <2>2, <2>3 DEF IInv, FeedsJoined
    <2> QED BY <2>1, <2>3 DEF ReplayIsComplete, IInv, HandedAll
<1> QED BY <1>1, Invariance, PTL

\* However the run ends, nothing new lies beside the SBOM of an earlier run.
THEOREM ArtifactsCorrect == Spec => []NeverBesideStaleSbom
<1>1. IInv => NeverBesideStaleSbom
    BY DEF IInv, WrittenInOrder
<1> QED BY <1>1, Invariance, PTL

\* The exit code tells the outcome under every --fail-on but none.
THEOREM ExitCodeCorrect == Spec => []ExitTellsOutcome
<1>1. IInv => ExitTellsOutcome
    <2> SUFFICES ASSUME IInv, exit # NoCode, failOn # "none"
                 PROVE  /\ exit = Incomplete <=> broken
                        /\ exit # Incomplete =>
                              /\ "sbom" \in requested
                              /\ \A a \in requested : files[a] \in {"fresh", "cut"}
                        /\ exit = Clean /\ failOn = "warnings" =>
                              \A w \in ToSet(recorder.collected) : w.code \in suppressed
                        /\ exit = CompletedWithWarnings => failOn = "warnings" /\ recorder.collected # <<>>
        BY DEF ExitTellsOutcome
    <2> USE DEF Clean, CompletedWithWarnings, Incomplete, NoCode
    <2>1. natural # NoCode /\ exit = Remapped(natural, failOn) /\ natural \in {0, 1, 2, 3}
        BY DEF IInv, TypeOK, OutcomeRecorded
    <2>2. exit = Incomplete <=> natural = Incomplete
        BY <2>1 DEF Remapped
    <2>3. broken <=> natural = Incomplete
        BY <2>1 DEF IInv, OutcomeRecorded
    <2>4. ASSUME exit # Incomplete
          PROVE  "sbom" \in requested /\ \A a \in requested : files[a] \in {"fresh", "cut"}
        <3>1. stage = 36
            BY <2>1, OrderLength DEF IInv, OutcomeRecorded
        <3> QED BY <2>2, <2>4, <3>1 DEF IInv, WrittenInOrder, Place
    <2>5. ASSUME exit = Clean, failOn = "warnings"
          PROVE  \A w \in ToSet(recorder.collected) : w.code \in suppressed
        <3>1. natural = Clean
            BY <2>1, <2>5 DEF Remapped
        <3>2. recorder.collected = <<>>
            BY <3>1 DEF IInv, NothingSuppressed, OutcomeRecorded
        <3> QED BY <3>2 DEF ToSet
    <2>6. ASSUME exit = CompletedWithWarnings
          PROVE  failOn = "warnings" /\ recorder.collected # <<>>
        <3>1. natural = CompletedWithWarnings /\ failOn = "warnings"
            BY <2>1, <2>6 DEF Remapped, IInv, TypeOK
        <3> QED BY <3>1 DEF IInv, NothingSuppressed, OutcomeRecorded
    <2> QED BY <2>2, <2>3, <2>4, <2>5, <2>6
<1> QED BY <1>1, Invariance, PTL

------------------------------------------------------------------------------
(* What is counted up to and folded over. *)

\* What holds at 0 and goes on holding is true of every position.
LEMMA Counting ==
    ASSUME NEW N \in Nat, NEW P, 0 \in P, \A n \in 1 .. N : n - 1 \in P => n \in P
    PROVE  0 .. N \subseteq P
<1> SUFFICES ASSUME (0 .. N) \ P # {} PROVE FALSE
    OBVIOUS
<1> DEFINE those == (0 .. N) \ P
<1>1. IsWellFoundedOn(OpToRel(<, Nat), Nat)
    BY NatLessThanWellFounded
<1>2. those \subseteq Nat
    OBVIOUS
<1>3. PICK j \in those : \A i \in those : ~(<<i, j>> \in OpToRel(<, Nat))
    BY <1>1, <1>2, WFMin
<1>4. j \in 1 .. N /\ j \notin P
    OBVIOUS
<1>5. j - 1 \in those
    BY <1>4
<1>6. <<j - 1, j>> \in OpToRel(<, Nat)
    BY <1>4 DEF OpToRel
<1> QED BY <1>3, <1>5, <1>6

\* A function of position that is defined by the one before: it exists, and stays in S.
Steps(step, N, S) == step \in [1 .. N -> [S -> S]]
Folds(g, N, S, base, step) ==
    /\ g \in [0 .. N -> S] /\ g[0] = base
    /\ \A n \in 1 .. N : g[n] = step[n][g[n - 1]]

LEMMA Folding ==
    ASSUME NEW N \in Nat, NEW S, NEW base \in S, NEW step, Steps(step, N, S)
    PROVE  \E g : Folds(g, N, S, base, step)
<1> USE DEF Steps, Folds
<1> DEFINE Upto(m) == \E g \in [0 .. m -> S] : g[0] = base /\ \A n \in 1 .. m : g[n] = step[n][g[n - 1]]
           P == {m \in 0 .. N : Upto(m)}
<1>1. 0 \in P
    <2> DEFINE h == [n \in 0 .. 0 |-> base]
    <2>1. h \in [0 .. 0 -> S] /\ h[0] = base /\ \A n \in 1 .. 0 : h[n] = step[n][h[n - 1]]
        OBVIOUS
    <2> HIDE DEF h
    <2> QED BY <2>1
<1>2. ASSUME NEW m \in 1 .. N, m - 1 \in P PROVE m \in P
    <2>1. PICK g \in [0 .. m - 1 -> S] : g[0] = base /\ \A n \in 1 .. m - 1 : g[n] = step[n][g[n - 1]]
        BY <1>2
    <2> DEFINE h == [n \in 0 .. m |-> IF n = m THEN step[m][g[m - 1]] ELSE g[n]]
    <2>2. g[m - 1] \in S /\ step[m][g[m - 1]] \in S
        BY <2>1
    <2>3. h \in [0 .. m -> S]
        BY <2>1, <2>2
    <2>4. h[0] = base
        BY <2>1
    <2>5. ASSUME NEW n \in 1 .. m PROVE h[n] = step[n][h[n - 1]]
        <3>1. n - 1 \in 0 .. m /\ n - 1 # m /\ n \in 0 .. m
            OBVIOUS
        <3>2. h[n - 1] = g[n - 1]
            BY <3>1
        <3>3. CASE n = m
            BY <3>1, <3>2, <3>3
        <3>4. CASE n # m
            <4>1. n \in 1 .. m - 1
                BY <3>4
            <4>2. h[n] = g[n]
                BY <3>1, <3>4
            <4> QED BY <2>1, <3>2, <4>1, <4>2
        <3> QED BY <3>3, <3>4
    <2> HIDE DEF h
    <2>6. m \in 0 .. N
        OBVIOUS
    <2> QED BY <2>3, <2>4, <2>5, <2>6
<1> HIDE DEF P
<1>3. 0 .. N \subseteq P
    BY <1>1, <1>2, Counting
<1> QED BY <1>3 DEF P

------------------------------------------------------------------------------
(* What is read of the sources. *)

LEMMA FirstOfIs ==
    ASSUME NEW options, DOMAIN options \subseteq Nat
    PROVE  \/ FirstOf(options) = {} /\ \A i \in DOMAIN options : options[i] = {}
           \/ FirstOf(options) # {} /\ \E i \in DOMAIN options : FirstOf(options) = options[i]
                    /\ \A j \in DOMAIN options : j < i => options[j] = {}
<1> DEFINE given == {i \in DOMAIN options : options[i] # {}}
<1>1. CASE given = {}
    BY <1>1 DEF FirstOf
<1>2. CASE given # {}
    <2>1. IsWellFoundedOn(OpToRel(<, Nat), Nat)
        BY NatLessThanWellFounded
    <2>2. given \subseteq Nat
        OBVIOUS
    <2>3. PICK j \in given : \A i \in given : ~(<<i, j>> \in OpToRel(<, Nat))
        BY <1>2, <2>1, <2>2, WFMin
    <2>4. ASSUME NEW i \in given PROVE j <= i
        <3>1. <<i, j>> \in OpToRel(<, Nat) <=> i < j
            BY <2>2 DEF OpToRel
        <3>2. ~(i < j)
            BY <3>1, <2>3, Zenon
        <3> QED BY <3>2, <2>2
    <2>5. Min(given) \in given /\ \A i \in given : Min(given) <= i
        BY <2>3, <2>4 DEF Min
    <2>6. FirstOf(options) = options[Min(given)]
        BY <1>2 DEF FirstOf
    <2> HIDE DEF given
    <2>7. Min(given) \in DOMAIN options /\ options[Min(given)] # {}
        BY <2>5 DEF given
    <2>8. ASSUME NEW k \in DOMAIN options, k < Min(given) PROVE options[k] = {}
        <3>1. k \notin given
            BY <2>5, <2>7, <2>8
        <3> QED BY <3>1 DEF given
    <2> QED BY <2>6, <2>7, <2>8
<1> QED BY <1>1, <1>2

LEMMA FirstOfThree ==
    ASSUME NEW a, NEW b, NEW c
    PROVE  FirstOf(<<a, b, c>>) = IF a # {} THEN a ELSE IF b # {} THEN b ELSE c
<1>1. DOMAIN <<a, b, c>> = 1 .. 3 /\ <<a, b, c>>[1] = a /\ <<a, b, c>>[2] = b /\ <<a, b, c>>[3] = c
    OBVIOUS
<1> DEFINE o == <<a, b, c>>
<1> HIDE DEF o
<1>2. DOMAIN o = 1 .. 3 /\ o[1] = a /\ o[2] = b /\ o[3] = c
    BY <1>1 DEF o
<1>3. \/ FirstOf(o) = {} /\ \A i \in DOMAIN o : o[i] = {}
      \/ FirstOf(o) # {} /\ \E i \in DOMAIN o : FirstOf(o) = o[i] /\ \A j \in DOMAIN o : j < i => o[j] = {}
    BY <1>2, FirstOfIs
<1>4. FirstOf(o) = IF a # {} THEN a ELSE IF b # {} THEN b ELSE c
    <2>1. ASSUME NEW i \in 1 .. 3, FirstOf(o) = o[i], FirstOf(o) # {}, \A j \in 1 .. 3 : j < i => o[j] = {}
          PROVE  FirstOf(o) = IF a # {} THEN a ELSE IF b # {} THEN b ELSE c
        <3>1. i = 1 \/ i = 2 \/ i = 3
            OBVIOUS
        <3>2. i = 2 => a = {}
            BY <2>1, <1>2
        <3>3. i = 3 => a = {} /\ b = {}
            BY <2>1, <1>2
        <3> QED BY <3>1, <3>2, <3>3, <2>1, <1>2
    <2> QED BY <2>1, <1>2, <1>3
<1> QED BY <1>4 DEF o

\* What is read of a file are lines of it.
LEMMA LinesRead ==
    ASSUME NEW f, IsText(f)
    PROVE  /\ DOMAIN ReadHeader(f) \subseteq Nat
           /\ \A i \in DOMAIN ReadHeader(f) :
                 LET line == ReadHeader(f)[i]
                 IN /\ i \in DOMAIN f.text /\ f.text[i] = line
                    /\ line = [macro |-> line.macro, form |-> line.form, value |-> line.value]
                    /\ IsSequence(line.value)
<1>1. f.text \in Seq(ToSet(f.text)) /\ f.window \in 0 .. Len(f.text)
    BY DEF IsText, IsSequence
<1>2. Len(f.text) \in Nat /\ DOMAIN f.text = 1 .. Len(f.text)
    BY <1>1, LenProperties
<1>3. \A i \in 1 .. f.window : f.text[i] \in ToSet(f.text)
    <2>1. \A i \in 1 .. f.window : i \in DOMAIN f.text
        BY <1>1, <1>2
    <2> QED BY <2>1 DEF ToSet
<1> DEFINE read == SubSeq(f.text, 1, f.window)
<1>4. /\ read \in Seq(ToSet(f.text))
      /\ Len(read) = IF 1 <= f.window THEN f.window - 1 + 1 ELSE 0
      /\ \A i \in 1 .. f.window - 1 + 1 : read[i] = f.text[1 + i - 1]
    BY <1>1, <1>2, <1>3, SubSeqProperties
<1> HIDE DEF read
<1>5. Len(read) = f.window /\ DOMAIN read = 1 .. f.window
    BY <1>1, <1>2, <1>4, LenProperties
<1>6. ASSUME NEW i \in DOMAIN read
      PROVE  i \in DOMAIN f.text /\ f.text[i] = read[i] /\ read[i] \in ToSet(f.text)
    <2>1. i \in 1 .. f.window
        BY <1>5
    <2>2. read[i] = f.text[1 + i - 1] /\ 1 + i - 1 = i
        BY <1>1, <1>2, <1>4, <2>1
    <2> QED BY <1>1, <1>2, <1>3, <2>1, <2>2
<1>7. ReadHeader(f) = read
    BY DEF read, ReadHeader
<1> QED BY <1>1, <1>2, <1>5, <1>6, <1>7 DEF IsText

LEMMA QuotedIsStated ==
    ASSUME NEW f, IsText(f), NEW row, NEW v \in QuotedString(ReadHeader(f), row)
    PROVE  States(f, row.macros[1], "quoted", v)
<1> DEFINE text == ReadHeader(f)
           macro == row.macros[1]
           reads == [i \in DOMAIN text |-> IF i \in for_each_define(text, macro) THEN read_quoted_value(text[i]) ELSE {}]
<1>1. DOMAIN reads \subseteq Nat
    BY LinesRead
<1>2. v \in FirstOf(reads)
    BY DEF QuotedString, extract_macro_value
<1> HIDE DEF text
<1>3. PICK i \in DOMAIN reads : v \in reads[i]
    <2> HIDE DEF reads
    <2> QED BY <1>1, <1>2, FirstOfIs
<1>4. i \in DOMAIN text /\ text[i].macro = macro /\ v \in read_quoted_value(text[i])
    BY <1>3 DEF for_each_define
<1>5. text[i].form = "quoted" /\ v = text[i].value
    BY <1>4 DEF read_quoted_value
<1>6. i \in DOMAIN f.text /\ f.text[i] = [macro |-> macro, form |-> "quoted", value |-> v]
    BY <1>4, <1>5, LinesRead DEF text
<1> QED BY <1>6 DEF States

LEMMA DottedIsStated ==
    ASSUME NEW f, IsText(f), NEW row, NEW v \in BareDotted(ReadHeader(f), row)
    PROVE  States(f, row.macros[1], "bare", v)
<1> DEFINE text == ReadHeader(f)
           macro == row.macros[1]
           reads == [i \in DOMAIN text |-> IF i \in for_each_define(text, macro) THEN read_bare_dotted_value(text[i]) ELSE {}]
<1>1. DOMAIN reads \subseteq Nat
    BY LinesRead
<1>2. v \in FirstOf(reads)
    BY DEF BareDotted, extract_macro_value
<1> HIDE DEF text
<1>3. PICK i \in DOMAIN reads : v \in reads[i]
    <2> HIDE DEF reads
    <2> QED BY <1>1, <1>2, FirstOfIs
<1>4. i \in DOMAIN text /\ text[i].macro = macro /\ v \in read_bare_dotted_value(text[i])
    BY <1>3 DEF for_each_define
<1>5. text[i].form = "bare" /\ v = text[i].value
    BY <1>4 DEF read_bare_dotted_value
<1>6. i \in DOMAIN f.text /\ f.text[i] = [macro |-> macro, form |-> "bare", value |-> v]
    BY <1>4, <1>5, LinesRead DEF text
<1> QED BY <1>6 DEF States

\* A part of a split version is the one word of a line.
LEMMA PartIsStated ==
    ASSUME NEW f, IsText(f), NEW macro, NEW part \in extract_sole_integer(ReadHeader(f), macro)
    PROVE  States(f, macro, "bare", <<Head(part)>>)
<1> DEFINE text == ReadHeader(f)
           defines == for_each_define(text, macro)
<1> HIDE DEF text
<1>1. PICK i \in defines : part \in read_bare_integer_value(text[i])
    BY DEF extract_sole_integer, text
<1>2. i \in DOMAIN text /\ text[i].macro = macro
    BY DEF for_each_define
<1>3. text[i].form = "bare" /\ part = text[i].value /\ Len(part) = 1
    BY <1>1 DEF read_bare_integer_value
<1>4. /\ i \in DOMAIN f.text /\ f.text[i] = [macro |-> macro, form |-> "bare", value |-> part]
      /\ IsSequence(part)
    BY <1>2, <1>3, LinesRead DEF text
<1>5. part = <<Head(part)>>
    BY <1>3, <1>4 DEF IsSequence
<1> QED BY <1>4, <1>5 DEF States

LEMMA SplitIsStated ==
    ASSUME NEW f, IsText(f), NEW row \in ToSet(SplitVersionSignatures), NEW v \in read_split_version(ReadHeader(f), row)
    PROVE  /\ Len(v) = 3
           /\ \A i \in 1 .. 3 : States(f, row.macros[i], "bare", <<v[i]>>)
<1>1. DOMAIN row.macros = 1 .. 3
    BY DEF ToSet, SplitVersionSignatures, Signature
<1> DEFINE text == ReadHeader(f)
           parts == [i \in DOMAIN row.macros |-> extract_sole_integer(text, row.macros[i])]
<1>2. /\ \A i \in DOMAIN parts : parts[i] # {}
      /\ v = [i \in DOMAIN parts |-> Head(CHOOSE part \in parts[i] : TRUE)]
    BY DEF read_split_version
<1> HIDE DEF text
<1>3. v = [i \in 1 .. 3 |-> Head(CHOOSE part \in parts[i] : TRUE)]
    BY <1>1, <1>2
<1>4. Len(v) = 3
    BY <1>3
<1>5. ASSUME NEW i \in 1 .. 3
      PROVE  States(f, row.macros[i], "bare", <<v[i]>>)
    <2>1. PICK part : part = (CHOOSE p \in parts[i] : TRUE)
        OBVIOUS
    <2>2. part \in extract_sole_integer(text, row.macros[i]) /\ v[i] = Head(part)
        BY <1>1, <1>2, <1>3, <2>1
    <2> QED BY <2>2, PartIsStated DEF text
<1> QED BY <1>4, <1>5

\* What is found in a table is of a row of it.
QuotedIn(f, folder) == match_table(VersionHeaderSignatures, f, folder, FALSE, QuotedString)
DottedIn(f, folder) == match_table(BareDottedVersionSignatures, f, folder, TRUE, BareDotted)
SplitIn(f, folder) == match_table(SplitVersionSignatures, f, folder, TRUE, read_split_version)

LEMMA QuotedRow ==
    ASSUME NEW f, IsText(f), NEW folder, NEW h \in QuotedIn(f, folder)
    PROVE  \E row \in ToSet(VersionHeaderSignatures) : row.header = f.name
              /\ States(f, row.macros[1], "quoted", h.version)
<1> DEFINE table == VersionHeaderSignatures
           Found(row) == {[library |-> row.library, version |-> v] : v \in QuotedString(ReadHeader(f), row)}
           options == [i \in DOMAIN table |->
               IF /\ table[i].header = f.name
                  /\ FALSE => folder_names_library(folder, table[i].library)
               THEN Found(table[i]) ELSE {}]
<1>1. h \in FirstOf(options)
    BY DEF QuotedIn, match_table
<1>2. DOMAIN options \subseteq Nat
    BY DEF VersionHeaderSignatures
<1>3. PICK i \in DOMAIN options : h \in options[i]
    <2> HIDE DEF options
    <2> QED BY <1>1, <1>2, FirstOfIs
<1> HIDE DEF table
<1>4. table[i].header = f.name /\ h.version \in QuotedString(ReadHeader(f), table[i])
    BY <1>3
<1>5. table[i] \in ToSet(table)
    BY DEF ToSet
<1>6. States(f, table[i].macros[1], "quoted", h.version)
    BY <1>4, QuotedIsStated
<1> QED BY <1>4, <1>5, <1>6 DEF table

LEMMA DottedRow ==
    ASSUME NEW f, IsText(f), NEW folder, NEW h \in DottedIn(f, folder)
    PROVE  \E row \in ToSet(BareDottedVersionSignatures) :
              /\ row.header = f.name /\ folder_names_library(folder, row.library)
              /\ States(f, row.macros[1], "bare", h.version)
<1> DEFINE table == BareDottedVersionSignatures
           Found(row) == {[library |-> row.library, version |-> v] : v \in BareDotted(ReadHeader(f), row)}
           options == [i \in DOMAIN table |->
               IF /\ table[i].header = f.name
                  /\ TRUE => folder_names_library(folder, table[i].library)
               THEN Found(table[i]) ELSE {}]
<1>1. h \in FirstOf(options)
    BY DEF DottedIn, match_table
<1>2. DOMAIN options \subseteq Nat
    BY DEF BareDottedVersionSignatures
<1>3. PICK i \in DOMAIN options : h \in options[i]
    <2> HIDE DEF options
    <2> QED BY <1>1, <1>2, FirstOfIs
<1> HIDE DEF table
<1>4. /\ table[i].header = f.name /\ folder_names_library(folder, table[i].library)
      /\ h.version \in BareDotted(ReadHeader(f), table[i])
    BY <1>3
<1>5. table[i] \in ToSet(table)
    BY DEF ToSet
<1>6. States(f, table[i].macros[1], "bare", h.version)
    BY <1>4, DottedIsStated
<1> QED BY <1>4, <1>5, <1>6 DEF table

LEMMA SplitRow ==
    ASSUME NEW f, IsText(f), NEW folder, NEW h \in SplitIn(f, folder)
    PROVE  \E row \in ToSet(SplitVersionSignatures) :
              /\ row.header = f.name /\ folder_names_library(folder, row.library)
              /\ Len(h.version) = 3
              /\ \A i \in 1 .. 3 : States(f, row.macros[i], "bare", <<h.version[i]>>)
<1> DEFINE table == SplitVersionSignatures
           Found(row) == {[library |-> row.library, version |-> v] : v \in read_split_version(ReadHeader(f), row)}
           options == [i \in DOMAIN table |->
               IF /\ table[i].header = f.name
                  /\ TRUE => folder_names_library(folder, table[i].library)
               THEN Found(table[i]) ELSE {}]
<1>1. h \in FirstOf(options)
    BY DEF SplitIn, match_table
<1>2. DOMAIN options \subseteq Nat
    BY DEF SplitVersionSignatures
<1>3. PICK i \in DOMAIN options : h \in options[i]
    <2> HIDE DEF options
    <2> QED BY <1>1, <1>2, FirstOfIs
<1> HIDE DEF table
<1>4. /\ table[i].header = f.name /\ folder_names_library(folder, table[i].library)
      /\ h.version \in read_split_version(ReadHeader(f), table[i])
    BY <1>3
<1>5. table[i] \in ToSet(table)
    BY DEF ToSet
<1>6. /\ Len(h.version) = 3
      /\ \A k \in 1 .. 3 : States(f, table[i].macros[k], "bare", <<h.version[k]>>)
    BY <1>4, <1>5, SplitIsStated DEF table
<1> QED BY <1>4, <1>5, <1>6 DEF table

------------------------------------------------------------------------------
(* The vendored roots and their files. *)

LEMMA FilesAreTexts ==
    ASSUME input \in Inputs, NEW root
    PROVE  /\ DOMAIN FilesUnder(root) \subseteq Nat
           /\ \A k \in DOMAIN FilesUnder(root) : IsText(FilesUnder(root)[k])
           /\ \E S : FilesUnder(root) \in Seq(S)
<1> DEFINE N == Len(Dirs)
           all == UNION {ToSet(tree[d]) : d \in ToSet(Dirs)}
           own(i) == IF RootOf[Dirs[i]] = root THEN tree[Dirs[i]] ELSE <<>>
           step == [n \in 1 .. N |-> [x \in Seq(all) |-> x \o own(n)]]
           under[i \in 0 .. N] == IF i = 0 THEN <<>> ELSE under[i - 1] \o own(i)
<1>1. Dirs \in Seq(ToSet(Dirs)) /\ N \in Nat /\ \A i \in 1 .. N : Dirs[i] \in ToSet(Dirs)
    BY TreeAssumption, LenProperties DEF IsSequence, ToSet
<1>2. ASSUME NEW d \in ToSet(Dirs)
      PROVE  tree[d] \in Seq(all) /\ \A f \in ToSet(tree[d]) : IsText(f)
    <2>1. tree[d] \in Seq(ToSet(tree[d])) /\ \A f \in ToSet(tree[d]) : IsText(f)
        BY TreeAssumption DEF InputsAssumption, IsSequence, tree
    <2>2. ToSet(tree[d]) \subseteq all
        OBVIOUS
    <2> HIDE DEF all
    <2> QED BY <2>1, <2>2, SeqMonotonic
<1>3. \A f \in all : IsText(f)
    BY <1>2
<1>4. FilesUnder(root) = under[N]
    BY DEF FilesUnder
<1> HIDE DEF all, N
<1>5. <<>> \in Seq(all)
    BY EmptySeq
<1>6. ASSUME NEW i \in 1 .. N PROVE own(i) \in Seq(all)
    BY <1>1, <1>2, <1>5
<1> HIDE DEF own
<1>7. Steps(step, N, Seq(all))
    BY <1>6, ConcatProperties DEF Steps
<1>8. under = [i \in 0 .. N |-> IF i = 0 THEN <<>> ELSE under[i - 1] \o own(i)]
    <2>1. PICK g : Folds(g, N, Seq(all), <<>>, step)
        <3> HIDE DEF step
        <3> QED BY <1>1, <1>5, <1>7, Folding
    <2>2. ASSUME NEW n \in 1 .. N PROVE g[n] = g[n - 1] \o own(n)
        <3>1. n - 1 \in 0 .. N
            BY <1>1
        <3>2. g[n] = step[n][g[n - 1]] /\ g[n - 1] \in Seq(all)
            <4> HIDE DEF step
            <4> QED BY <2>1, <3>1 DEF Folds
        <3> QED BY <3>2
    <2>3. g = [i \in 0 .. N |-> IF i = 0 THEN <<>> ELSE g[i - 1] \o own(i)]
        <3>1. g \in [0 .. N -> Seq(all)] /\ g[0] = <<>>
            BY <2>1 DEF Folds
        <3>2. ASSUME NEW i \in 0 .. N PROVE g[i] = IF i = 0 THEN <<>> ELSE g[i - 1] \o own(i)
            <4>1. CASE i = 0
                BY <3>1, <4>1
            <4>2. CASE i # 0
                <5>1. i \in 1 .. N
                    BY <1>1, <4>2
                <5> QED BY <2>2, <4>2, <5>1
            <4> QED BY <4>1, <4>2
        <3> QED BY <3>1, <3>2
    <2> QED BY <2>3
<1> HIDE DEF under
<1>9. 0 .. N \subseteq {i \in 0 .. N : under[i] \in Seq(all)}
    <2> DEFINE P == {i \in 0 .. N : under[i] \in Seq(all)}
    <2>1. 0 \in P
        BY <1>1, <1>5, <1>8
    <2>2. ASSUME NEW n \in 1 .. N, n - 1 \in P PROVE n \in P
        <3>1. n \in 0 .. N /\ n # 0
            BY <1>1
        <3>2. under[n] = under[n - 1] \o own(n)
            BY <3>1, <1>8
        <3> QED BY <1>6, <2>2, <3>1, <3>2, ConcatProperties
    <2> HIDE DEF P
    <2>3. 0 .. N \subseteq P
        BY <1>1, <2>1, <2>2, Counting
    <2> QED BY <2>3 DEF P
<1>10. FilesUnder(root) \in Seq(all)
    BY <1>1, <1>4, <1>9
<1> QED BY <1>3, <1>10, LenProperties

LEMMA RootsAreListed == \E S : Roots \in Seq(S) /\ NoRoot \notin S
<1> DEFINE N == Len(Dirs)
           all == {RootOf[d] : d \in ToSet(Dirs)} \ {NoRoot}
           grown(before, i) ==
               IF RootOf[Dirs[i]] = NoRoot \/ tree[Dirs[i]] = <<>> \/ Contains(before, RootOf[Dirs[i]])
               THEN before ELSE Append(before, RootOf[Dirs[i]])
           step == [n \in 1 .. N |-> [x \in Seq(all) |-> grown(x, n)]]
           seen[i \in 0 .. N] == IF i = 0 THEN <<>> ELSE grown(seen[i - 1], i)
<1>1. N \in Nat /\ \A i \in 1 .. N : Dirs[i] \in ToSet(Dirs)
    BY TreeAssumption, LenProperties DEF IsSequence, ToSet
<1>2. \A i \in 1 .. N : RootOf[Dirs[i]] = NoRoot \/ RootOf[Dirs[i]] \in all
    BY <1>1
<1>3. NoRoot \notin all
    OBVIOUS
<1>4. Roots = seen[N]
    BY DEF Roots
<1> HIDE DEF all, N
<1>5. <<>> \in Seq(all)
    BY EmptySeq
<1>6. ASSUME NEW i \in 1 .. N, NEW x \in Seq(all) PROVE grown(x, i) \in Seq(all)
    BY <1>2, AppendProperties
<1> HIDE DEF grown
<1>7. Steps(step, N, Seq(all))
    BY <1>6 DEF Steps
<1>8. seen = [i \in 0 .. N |-> IF i = 0 THEN <<>> ELSE grown(seen[i - 1], i)]
    <2>1. PICK g : Folds(g, N, Seq(all), <<>>, step)
        <3> HIDE DEF step
        <3> QED BY <1>1, <1>5, <1>7, Folding
    <2>2. ASSUME NEW n \in 1 .. N PROVE g[n] = grown(g[n - 1], n)
        <3>1. n - 1 \in 0 .. N
            BY <1>1
        <3>2. g[n] = step[n][g[n - 1]] /\ g[n - 1] \in Seq(all)
            <4> HIDE DEF step
            <4> QED BY <2>1, <3>1 DEF Folds
        <3> QED BY <3>2
    <2>3. g = [i \in 0 .. N |-> IF i = 0 THEN <<>> ELSE grown(g[i - 1], i)]
        <3>1. g \in [0 .. N -> Seq(all)] /\ g[0] = <<>>
            BY <2>1 DEF Folds
        <3>2. ASSUME NEW i \in 0 .. N PROVE g[i] = IF i = 0 THEN <<>> ELSE grown(g[i - 1], i)
            <4>1. CASE i = 0
                BY <3>1, <4>1
            <4>2. CASE i # 0
                <5>1. i \in 1 .. N
                    BY <1>1, <4>2
                <5> QED BY <2>2, <4>2, <5>1
            <4> QED BY <4>1, <4>2
        <3> QED BY <3>1, <3>2
    <2> QED BY <2>3
<1> HIDE DEF seen
<1>9. 0 .. N \subseteq {i \in 0 .. N : seen[i] \in Seq(all)}
    <2> DEFINE P == {i \in 0 .. N : seen[i] \in Seq(all)}
    <2>1. 0 \in P
        BY <1>1, <1>5, <1>8
    <2>2. ASSUME NEW n \in 1 .. N, n - 1 \in P PROVE n \in P
        <3>1. n \in 0 .. N /\ n # 0
            BY <1>1
        <3>2. seen[n] = grown(seen[n - 1], n)
            BY <3>1, <1>8
        <3> QED BY <1>6, <2>2, <3>1, <3>2
    <2> HIDE DEF P
    <2>3. 0 .. N \subseteq P
        BY <1>1, <2>1, <2>2, Counting
    <2> QED BY <2>3 DEF P
<1> QED BY <1>1, <1>4, <1>9, <1>3

\* The components of the roots come in either order, one for each.
LEMMA OrderIsOfRoots ==
    ASSUME NEW order \in {Roots, Reverse(Roots)}
    PROVE  /\ Len(order) \in Nat /\ DOMAIN order = 1 .. Len(order)
           /\ \A k \in DOMAIN order : order[k] \in ToSet(Roots)
           /\ \A r \in ToSet(Roots) : \E k \in DOMAIN order : order[k] = r
<1>1. Len(Roots) \in Nat /\ DOMAIN Roots = 1 .. Len(Roots)
    BY RootsAreListed, LenProperties
<1>2. CASE order = Roots
    BY <1>1, <1>2 DEF ToSet
<1>3. CASE order = Reverse(Roots)
    <2>1. order = [i \in 1 .. Len(Roots) |-> Roots[Len(Roots) - i + 1]]
        BY <1>3 DEF Reverse
    <2>2. DOMAIN order = 1 .. Len(Roots) /\ Len(order) = Len(Roots)
        BY <1>1, <2>1
    <2>3. ASSUME NEW k \in DOMAIN order PROVE order[k] \in ToSet(Roots)
        BY <1>1, <2>1, <2>2 DEF ToSet
    <2>4. ASSUME NEW i \in DOMAIN Roots PROVE \E k \in DOMAIN order : order[k] = Roots[i]
        <3>1. Len(Roots) - i + 1 \in 1 .. Len(Roots) /\ Len(Roots) - (Len(Roots) - i + 1) + 1 = i
            BY <1>1
        <3>2. order[Len(Roots) - i + 1] = Roots[i]
            BY <2>1, <3>1
        <3> QED BY <2>2, <3>1, <3>2
    <2> QED BY <1>1, <2>2, <2>3, <2>4 DEF ToSet
<1> QED BY <1>2, <1>3

------------------------------------------------------------------------------
(* A component from the tree, and what a match makes of it. *)

FoundHeader(r) == find_version_header_match(Last(r), FilesUnder(r)) # {}
FoundCommit(r) == git[r] \in {"commit", "origin"}

LEMMA HeaderIsDeclared ==
    ASSUME input \in Inputs, NEW r, NEW h \in find_version_header_match(Last(r), FilesUnder(r))
    PROVE  Declares(r, h.version)
<1> DEFINE under == FilesUnder(r)
           folder == Last(r)
           InFile(f) == IF ~f.readable THEN {}
                        ELSE FirstOf(<<QuotedIn(f, folder), DottedIn(f, folder), SplitIn(f, folder)>>)
           options == [i \in DOMAIN under |-> InFile(under[i])]
<1>1. DOMAIN under \subseteq Nat /\ \A k \in DOMAIN under : IsText(under[k])
    BY FilesAreTexts
<1>2. h \in FirstOf(options)
    BY DEF find_version_header_match, QuotedIn, DottedIn, SplitIn
<1> HIDE DEF under, folder
<1>3. PICK k \in DOMAIN under : h \in InFile(under[k])
    <2>1. DOMAIN options \subseteq Nat
        BY <1>1
    <2>2. PICK k \in DOMAIN options : h \in options[k]
        <3> HIDE DEF options
        <3> QED BY <1>2, <2>1, FirstOfIs
    <2> HIDE DEF InFile
    <2> QED BY <2>2
<1> DEFINE f == under[k]
<1>4. h \in QuotedIn(f, folder) \/ h \in DottedIn(f, folder) \/ h \in SplitIn(f, folder)
    BY <1>3, FirstOfThree
<1>5. IsText(f)
    BY <1>1
<1> HIDE DEF f
<1>6. CASE h \in QuotedIn(f, folder)
    <2>1. \E row \in ToSet(VersionHeaderSignatures) : row.header = f.name
              /\ States(f, row.macros[1], "quoted", h.version)
        BY <1>5, <1>6, QuotedRow
    <2> QED BY <2>1 DEF Declares, under, f
<1>7. CASE h \in DottedIn(f, folder)
    <2>1. \E row \in ToSet(BareDottedVersionSignatures) :
              /\ row.header = f.name /\ folder_names_library(folder, row.library)
              /\ States(f, row.macros[1], "bare", h.version)
        BY <1>5, <1>7, DottedRow
    <2> QED BY <2>1 DEF Declares, under, f, folder
<1>8. CASE h \in SplitIn(f, folder)
    <2>1. \E row \in ToSet(SplitVersionSignatures) :
              /\ row.header = f.name /\ folder_names_library(folder, row.library)
              /\ Len(h.version) = 3
              /\ \A i \in 1 .. 3 : States(f, row.macros[i], "bare", <<h.version[i]>>)
        BY <1>5, <1>8, SplitRow
    <2> QED BY <2>1 DEF Declares, under, f, folder
<1> QED BY <1>4, <1>6, <1>7, <1>8

\* A .git says a commit or nothing.
LEMMA ClueIs ==
    ASSUME NEW left, NEW folder
    PROVE  /\ find_git_clue(left, folder) # {} <=> left \in {"commit", "origin"}
           /\ \A g \in find_git_clue(left, folder) : g.purl.version = {HeadCommit}
<1>1. CASE left \notin {"commit", "origin"}
    BY <1>1 DEF find_git_clue
<1>2. CASE left \in {"commit", "origin"}
    <2> DEFINE purl == IF left = "origin" THEN [type |-> "github", name |-> "owner/repo", version |-> {HeadCommit}]
                       ELSE [type |-> "generic", name |-> folder, version |-> {HeadCommit}]
               clue == [commit |-> HeadCommit, purl |-> purl, supplier |-> IF left = "origin" THEN "owner" ELSE ""]
    <2>1. find_git_clue(left, folder) = {clue}
        BY <1>2 DEF find_git_clue
    <2>2. clue.purl = purl /\ purl.version = {HeadCommit}
        OBVIOUS
    <2> HIDE DEF clue, purl
    <2> QED BY <1>2, <2>1, <2>2
<1> QED BY <1>1, <1>2

\* What is built of a root: its identity, and where its evidence is.
LEMMA BuiltOf ==
    ASSUME input \in Inputs, NEW r, NEW c, c = build_component(r, FilesUnder(r), git[r])
    PROVE  /\ IsComponent(c) /\ c.root = r
           /\ FoundCommit(r) => c.version = HeadCommit
           /\ FoundHeader(r) /\ ~FoundCommit(r) => Declares(r, c.version)
           /\ ~FoundHeader(r) /\ ~FoundCommit(r) => c.version = <<>>
           /\ c.purl.version = {} <=> ~FoundHeader(r) /\ ~FoundCommit(r)
           /\ c.purl.version = {} => c.purl.type = "generic"
           /\ \A e \in c.evidence : e.source = "Heuristic" /\ \E what : e.detail = <<what, r>>
           /\ ~FoundHeader(r) /\ ~FoundCommit(r) => c.purl = folder_derived_purl(r)
           /\ Cites(c, "directory", r) /\ (Cites(c, "header", r) <=> FoundHeader(r))
<1> DEFINE header == find_version_header_match(Last(r), FilesUnder(r))
           commits == find_git_clue(git[r], Last(r))
           licenses == find_license_clue(FilesUnder(r))
           byCommit == {g.purl : g \in commits}
           byHeader == {[type |-> "generic", name |-> h.library, version |-> {h.version}] : h \in header}
           purls == FirstOf(<<byCommit, byHeader, {folder_derived_purl(r)}>>)
           purl == CHOOSE p \in purls : TRUE
           Cite(what, confidence) == [source |-> "Heuristic", detail |-> <<what, r>>, confidence |-> confidence]
           supplier == IF commits = {} THEN "" ELSE (CHOOSE g \in commits : TRUE).supplier
           license == IF licenses = {} THEN "" ELSE CHOOSE l \in licenses : TRUE
           evidence == {Cite("directory", "Low")}
            \cup (IF header # {} THEN {Cite("header", "Medium")} ELSE {})
            \cup (IF licenses # {} THEN {Cite("license", "Low")} ELSE {})
            \cup (IF git[r] # "none" THEN {Cite("git", IF commits # {} THEN "Medium" ELSE "Low")} ELSE {})
<1>1. c = [purl |-> purl, version |-> IF purl.version = {} THEN <<>> ELSE CHOOSE v \in purl.version : TRUE,
           root |-> r, scope |-> "Required", supplier |-> supplier, license |-> license, evidence |-> evidence]
    BY DEF build_component
<1>2. commits # {} <=> FoundCommit(r)
    BY ClueIs DEF FoundCommit
<1>3. \A p \in byCommit : p.version = {HeadCommit}
    BY ClueIs
<1>4. header # {} <=> FoundHeader(r)
    BY DEF FoundHeader
<1>5. \A h \in header : Declares(r, h.version)
    BY HeaderIsDeclared
<1>6. ASSUME NEW e \in evidence
      PROVE  /\ e.source = "Heuristic" /\ \E what : e.detail = <<what, r>>
             /\ e.confidence \in Confidences
             /\ e.detail = <<"header", r>> => header # {}
    <2> HIDE DEF header, commits, licenses
    <2> QED BY DEF Confidences
<1>7. Cite("directory", "Low") \in evidence /\ (header # {} => Cite("header", "Medium") \in evidence)
    <2> HIDE DEF header
    <2> QED OBVIOUS
<1> HIDE DEF header, commits, licenses, supplier, license, evidence
<1>8. purls = IF byCommit # {} THEN byCommit ELSE IF byHeader # {} THEN byHeader ELSE {folder_derived_purl(r)}
    <2> HIDE DEF byCommit, byHeader
    <2> QED BY FirstOfThree
<1>9. purl \in purls
    <2> HIDE DEF purls
    <2>1. purls # {}
        <3> HIDE DEF byCommit, byHeader
        <3> QED BY <1>8
    <2> QED BY <2>1
<1>10. /\ FoundCommit(r) => purl.version = {HeadCommit}
       /\ ~FoundCommit(r) /\ FoundHeader(r) => \E h \in header : purl.version = {h.version}
       /\ ~FoundCommit(r) /\ ~FoundHeader(r) => purl.version = {} /\ purl.type = "generic"
       /\ ~FoundCommit(r) /\ ~FoundHeader(r) => purl = folder_derived_purl(r)
    <2>1. byCommit # {} <=> FoundCommit(r)
        BY <1>2
    <2>2. byHeader # {} <=> FoundHeader(r)
        BY <1>4
    <2>3. \A p \in byHeader : \E h \in header : p.version = {h.version}
        OBVIOUS
    <2>4. folder_derived_purl(r).version = {} /\ folder_derived_purl(r).type = "generic"
        BY DEF folder_derived_purl
    <2> HIDE DEF byCommit, byHeader, purls, purl
    <2> QED BY <1>3, <1>8, <1>9, <2>1, <2>2, <2>3, <2>4
<1> HIDE DEF purl
<1>11. c.purl = purl /\ c.root = r /\ c.evidence = evidence /\ c.scope = "Required"
    BY <1>1
<1>12. \/ purl.version = {} /\ c.version = <<>>
       \/ \E v : purl.version = {v} /\ c.version = v
    BY <1>1, <1>10
<1>13. IsComponent(c)
    <2>1. c = [purl |-> c.purl, version |-> c.version, root |-> c.root, scope |-> c.scope,
               supplier |-> c.supplier, license |-> c.license, evidence |-> c.evidence]
        BY <1>1
    <2> QED BY <1>6, <1>11, <1>12, <2>1 DEF IsComponent, Scopes
<1>14. /\ FoundCommit(r) => c.version = HeadCommit
       /\ FoundHeader(r) /\ ~FoundCommit(r) => Declares(r, c.version)
       /\ ~FoundHeader(r) /\ ~FoundCommit(r) => c.version = <<>>
       /\ c.purl.version = {} <=> ~FoundHeader(r) /\ ~FoundCommit(r)
       /\ c.purl.version = {} => c.purl.type = "generic"
    BY <1>5, <1>10, <1>11, <1>12
<1>15. ~FoundHeader(r) /\ ~FoundCommit(r) => c.purl = folder_derived_purl(r)
    BY <1>10, <1>11
<1>16. Cites(c, "directory", r) /\ (Cites(c, "header", r) <=> FoundHeader(r))
    BY <1>4, <1>6, <1>7, <1>11 DEF Cites
<1> QED BY <1>6, <1>11, <1>13, <1>14, <1>15, <1>16

------------------------------------------------------------------------------
(* The list as it is assembled. *)

\* What holds of each component until the merge: its evidence is of its own root; a
\* header and a commit are found where they are cited; its version is declared there, or
\* that of a release it was attributed to; and one that differs was warned of.
Grounded(c) ==
    c.version # <<>> =>
        \/ Declares(c.root, c.version)
        \/ /\ ~FoundHeader(c.root) /\ ~FoundCommit(c.root)
           /\ \E e \in CorpusEvidence(c) : e.detail[2] = c.root /\ e.detail[4] = c.version

Item(c) ==
    /\ IsComponent(c)
    /\ \A r, what : Cites(c, what, r) => r = c.root
    /\ Cites(c, "header", c.root) => FoundHeader(c.root)
    /\ Cites(c, "directory", c.root) =>
          /\ Grounded(c) /\ (c.purl.version # {} \/ c.purl.type = "generic")
          /\ identity_is_folder_derived(c) => ~FoundHeader(c.root) /\ ~FoundCommit(c.root)
    /\ identity_is_folder_derived(c) => \A e \in CorpusEvidence(c) : e.detail[4] = <<>>
    /\ \A e \in CorpusEvidence(c) :
          c.version # <<>> /\ e.detail[4] # <<>> /\ e.detail[4] # c.version =>
              <<"kFingerprintVersionDisagreement", e.detail[2]>> \in warnings

\* What is left of a component of another producer.
Kept(o, c) ==
    /\ o.evidence \subseteq c.evidence /\ c.scope = o.scope /\ c.root = o.root
    /\ \/ c.purl = o.purl /\ c.version = o.version
       \/ identity_is_folder_derived(o)

Assembled ==
    /\ IsSequence(components)
    /\ \A k \in DOMAIN components : Item(components[k])
    /\ \A k \in DOMAIN others : k \in DOMAIN components /\ Kept(others[k], components[k])
    /\ \A r \in ToSet(Roots) : \E k \in DOMAIN components : Cites(components[k], "directory", r)

IdentityInv ==
    /\ input \in Inputs
    /\ pc \in {"parse", "load", "match", "apply", "merge", "merged"}
    /\ pc \in {"parse", "load"} => warnings = {}
    /\ IsSequence(matches) /\ \A m \in ToSet(matches) : m.confidence \in Confidences
    /\ pc \notin {"parse", "merged"} => Assembled
    /\ EveryFindingSurvives
    /\ VersionsAreGrounded

\* Nothing changes what is in the tree.
LEMMA InputStays ==
    ASSUME input' = input
    PROVE  /\ Roots' = Roots /\ others' = others
           /\ \A r : FoundHeader(r)' <=> FoundHeader(r)
           /\ \A r : FoundCommit(r)' <=> FoundCommit(r)
           /\ \A r, v : Declares(r, v)' <=> Declares(r, v)
<1>1. Roots' = Roots /\ others' = others
    BY DEF Roots, others, tree
<1>2. ASSUME NEW r PROVE FoundHeader(r)' <=> FoundHeader(r)
    BY DEF FoundHeader, FilesUnder, tree
<1>3. ASSUME NEW r PROVE FoundCommit(r)' <=> FoundCommit(r)
    BY DEF FoundCommit, git
<1>4. ASSUME NEW r, NEW v PROVE Declares(r, v)' <=> Declares(r, v)
    BY DEF Declares, FilesUnder, tree, git
<1> QED BY <1>1, <1>2, <1>3, <1>4

\* Warnings are kept.
LEMMA ItemStays ==
    ASSUME input' = input, warnings \subseteq warnings', NEW c, Item(c)
    PROVE  Item(c)'
<1>1. Grounded(c) => Grounded(c)'
    BY InputStays DEF Grounded
<1>2. \A e : e \in CorpusEvidence(c) /\ <<"kFingerprintVersionDisagreement", e.detail[2]>> \in warnings
          => <<"kFingerprintVersionDisagreement", e.detail[2]>> \in warnings'
    OBVIOUS
<1> QED BY <1>1, <1>2, InputStays DEF Item

LEMMA SequenceIs ==
    ASSUME NEW s, NEW N \in Nat, DOMAIN s = 1 .. N, s = [k \in 1 .. N |-> s[k]]
    PROVE  IsSequence(s) /\ Len(s) = N
<1>1. \A k \in 1 .. N : s[k] \in ToSet(s)
    BY DEF ToSet
<1>2. s \in [1 .. N -> ToSet(s)]
    BY <1>1
<1>3. s \in Seq(ToSet(s))
    BY <1>2, SeqDef
<1>4. Len(s) = N
    BY <1>3, LenProperties
<1> QED BY <1>3, <1>4 DEF IsSequence

LEMMA SequenceHas ==
    ASSUME NEW s, IsSequence(s)
    PROVE  /\ Len(s) \in Nat /\ DOMAIN s = 1 .. Len(s) /\ s = [k \in 1 .. Len(s) |-> s[k]]
           /\ ToSet(s) = {s[k] : k \in 1 .. Len(s)}
<1>1. s \in Seq(ToSet(s))
    BY DEF IsSequence
<1>2. Len(s) \in Nat /\ DOMAIN s = 1 .. Len(s) /\ s \in [1 .. Len(s) -> ToSet(s)]
    BY <1>1, LenProperties
<1> QED BY <1>2 DEF ToSet

LEMMA InitHolds == IdentityInit => IdentityInv
<1> SUFFICES ASSUME IdentityInit PROVE IdentityInv
    OBVIOUS
<1>1. IsSequence(matches) /\ ToSet(matches) = {}
    <2>1. matches = <<>> /\ DOMAIN matches = 1 .. 0
        BY DEF IdentityInit
    <2>2. ToSet(matches) = {}
        BY <2>1 DEF ToSet
    <2> QED BY <2>1, <2>2, EmptySeq DEF IsSequence
<1> QED BY <1>1 DEF IdentityInit, IdentityInv, EveryFindingSurvives, VersionsAreGrounded

\* The components of the other producers are as they were given.
LEMMA OtherIs ==
    ASSUME input \in Inputs, NEW k \in DOMAIN others
    PROVE  Item(others[k]) /\ Kept(others[k], others[k])
<1>1. IsComponent(others[k]) /\ \A e \in others[k].evidence : e.source \notin {"Heuristic", "Fingerprint"}
    BY TreeAssumption DEF InputsAssumption, others
<1>2. CorpusEvidence(others[k]) = {} /\ \A what, r : ~Cites(others[k], what, r)
    BY <1>1 DEF CorpusEvidence, Cites
<1> QED BY <1>1, <1>2 DEF Item, Kept

LEMMA BuiltIs ==
    ASSUME input \in Inputs, NEW r, NEW c, c = build_component(r, FilesUnder(r), git[r])
    PROVE  Item(c) /\ Cites(c, "directory", r)
<1>1. /\ IsComponent(c) /\ c.root = r
      /\ FoundCommit(r) => c.version = HeadCommit
      /\ FoundHeader(r) /\ ~FoundCommit(r) => Declares(r, c.version)
      /\ ~FoundHeader(r) /\ ~FoundCommit(r) => c.version = <<>>
      /\ c.purl.version = {} <=> ~FoundHeader(r) /\ ~FoundCommit(r)
      /\ c.purl.version = {} => c.purl.type = "generic"
      /\ \A e \in c.evidence : e.source = "Heuristic" /\ \E what : e.detail = <<what, r>>
      /\ Cites(c, "directory", r) /\ (Cites(c, "header", r) <=> FoundHeader(r))
    BY BuiltOf
<1>2. CorpusEvidence(c) = {}
    BY <1>1 DEF CorpusEvidence
<1>3. \A r2, what : Cites(c, what, r2) => r2 = r
    BY <1>1 DEF Cites
<1>4. FoundCommit(r) => Declares(r, HeadCommit)
    BY DEF FoundCommit, Declares
<1>5. Grounded(c)
    BY <1>1, <1>4 DEF Grounded
<1>6. identity_is_folder_derived(c) => c.purl.version = {}
    BY DEF identity_is_folder_derived, folder_derived_purl
<1> QED BY <1>1, <1>2, <1>3, <1>5, <1>6 DEF Item

\* The list that is assembled next.
LEMMA ListStays ==
    ASSUME input' = input, warnings \subseteq warnings', NEW list, components' = list,
           IsSequence(list), \A k \in DOMAIN list : Item(list[k]),
           \A k \in DOMAIN others : k \in DOMAIN list /\ Kept(others[k], list[k]),
           \A r \in ToSet(Roots) : \E k \in DOMAIN list : Cites(list[k], "directory", r)
    PROVE  Assembled'
<1>1. ASSUME NEW k \in DOMAIN list PROVE Item(list[k])'
    BY ItemStays
<1>2. others' = others /\ Roots' = Roots
    BY InputStays
<1> QED BY <1>1, <1>2 DEF Assembled

Joins(c, a, b) ==
    /\ \A k \in DOMAIN a : k \in DOMAIN c /\ c[k] = a[k]
    /\ \A k \in DOMAIN b : \E j \in DOMAIN c : c[j] = b[k]
    /\ \A j \in DOMAIN c : (j \in DOMAIN a /\ c[j] = a[j]) \/ \E k \in DOMAIN b : c[j] = b[k]

LEMMA Joined ==
    ASSUME NEW a, NEW b, NEW c, IsSequence(a), IsSequence(b), c = a \o b
    PROVE  IsSequence(c) /\ Joins(c, a, b)
<1> DEFINE S == ToSet(a) \cup ToSet(b)
<1>1. /\ Len(a) \in Nat /\ DOMAIN a = 1 .. Len(a)
      /\ Len(b) \in Nat /\ DOMAIN b = 1 .. Len(b)
    BY SequenceHas
<1>2. a \in Seq(S) /\ b \in Seq(S)
    BY SeqMonotonic DEF IsSequence
<1> HIDE DEF S
<1> DEFINE ab == a \o b
<1>3. /\ ab \in Seq(S) /\ Len(ab) = Len(a) + Len(b)
      /\ \A i \in 1 .. Len(a) + Len(b) : ab[i] = IF i <= Len(a) THEN a[i] ELSE b[i - Len(a)]
    BY <1>2, ConcatProperties
<1> HIDE DEF ab
<1>4. DOMAIN ab = 1 .. Len(a) + Len(b)
    BY <1>3, LenProperties
<1>5. IsSequence(ab)
    <2>1. ab \in [1 .. Len(ab) -> S]
        BY <1>3, LenProperties
    <2>2. ab = [k \in 1 .. Len(ab) |-> ab[k]] /\ DOMAIN ab = 1 .. Len(ab) /\ Len(ab) \in Nat
        BY <2>1, <1>1, <1>3
    <2> QED BY <2>2, SequenceIs
<1>6. ASSUME NEW k \in 1 .. Len(a) PROVE k \in 1 .. Len(a) + Len(b) /\ ab[k] = a[k]
    <2>1. k \in 1 .. Len(a) + Len(b) /\ k <= Len(a)
        BY <1>1
    <2> QED BY <2>1, <1>3
<1>7. ASSUME NEW k \in 1 .. Len(b) PROVE Len(a) + k \in 1 .. Len(a) + Len(b) /\ ab[Len(a) + k] = b[k]
    <2>1. Len(a) + k \in 1 .. Len(a) + Len(b) /\ ~(Len(a) + k <= Len(a)) /\ Len(a) + k - Len(a) = k
        BY <1>1
    <2> QED BY <2>1, <1>3
<1>8. ASSUME NEW k \in 1 .. Len(a) + Len(b) PROVE k \in 1 .. Len(a) \/ \E j \in 1 .. Len(b) : k = Len(a) + j
    <2>1. k \in 1 .. Len(a) \/ (k - Len(a) \in 1 .. Len(b) /\ k = Len(a) + (k - Len(a)))
        BY <1>1
    <2> QED BY <2>1
<1>9. \A k \in DOMAIN b : \E j \in DOMAIN ab : ab[j] = b[k]
    BY <1>1, <1>4, <1>7
<1>10. ASSUME NEW k \in DOMAIN ab
       PROVE  \/ k \in DOMAIN a /\ ab[k] = a[k]
              \/ \E j \in DOMAIN b : ab[k] = b[j]
    <2>1. CASE k \in 1 .. Len(a)
        BY <1>1, <1>6, <2>1
    <2>2. CASE k \notin 1 .. Len(a)
        BY <1>1, <1>4, <1>7, <1>8, <2>2
    <2> QED BY <2>1, <2>2
<1>11. c = ab
    BY DEF ab
<1> QED BY <1>1, <1>4, <1>5, <1>6, <1>9, <1>10, <1>11 DEF Joins

LEMMA BeforeTheEnd ==
    ASSUME input' = input, input \in Inputs, IsSequence(matches)', (\A m \in ToSet(matches) : m.confidence \in Confidences)',
           pc' \in {"load", "match", "apply", "merge"}, pc' = "load" => warnings' = {}, Assembled'
    PROVE  IdentityInv'
BY DEF IdentityInv, EveryFindingSurvives, VersionsAreGrounded

LEMMA ParseHolds == IdentityInv /\ Parse => IdentityInv'
<1> SUFFICES ASSUME IdentityInv, Parse PROVE IdentityInv'
    OBVIOUS
<1>1. PICK order \in {Roots, Reverse(Roots)} :
          components' = others \o [k \in DOMAIN order |->
                                      build_component(order[k], FilesUnder(order[k]), git[order[k]])]
    BY DEF Parse
<1> DEFINE given == [k \in DOMAIN order |-> build_component(order[k], FilesUnder(order[k]), git[order[k]])]
<1>2. /\ Len(order) \in Nat /\ DOMAIN order = 1 .. Len(order)
      /\ \A k \in DOMAIN order : order[k] \in ToSet(Roots)
      /\ \A r \in ToSet(Roots) : \E k \in DOMAIN order : order[k] = r
    BY OrderIsOfRoots
<1>3. input \in Inputs /\ input' = input /\ warnings' = warnings /\ pc' = "load" /\ matches' = matches
    BY DEF IdentityInv, Parse
<1>4. IsSequence(others)
    BY <1>3, TreeAssumption DEF InputsAssumption, others
<1>5. \A k \in DOMAIN order : Item(given[k]) /\ Cites(given[k], "directory", order[k])
    BY <1>3, BuiltIs
<1>6. PICK built : built = given
    OBVIOUS
<1>7. PICK own : own = others
    OBVIOUS
<1>8. components' = own \o built
    BY <1>1, <1>6, <1>7
<1>9. /\ DOMAIN built = DOMAIN order
      /\ \A k \in DOMAIN order : Item(built[k]) /\ Cites(built[k], "directory", order[k])
    BY <1>5, <1>6
<1>10. IsSequence(built)
    <2>1. built = [k \in 1 .. Len(order) |-> built[k]]
        BY <1>2, <1>6
    <2> HIDE DEF given
    <2> QED BY <2>1, <1>2, <1>9, SequenceIs
<1>11. \A k \in DOMAIN own : Item(own[k]) /\ Kept(own[k], own[k])
    BY <1>3, <1>7, OtherIs
<1>12. PICK list : list = own \o built
    OBVIOUS
<1>13. components' = list
    BY <1>8, <1>12
<1>14. IsSequence(list) /\ Joins(list, own, built)
    <2>1. IsSequence(own)
        BY <1>4, <1>7
    <2> HIDE DEF given
    <2> QED BY <1>10, <1>12, <2>1, Joined
<1> HIDE DEF given
<1>15. ASSUME NEW k \in DOMAIN list PROVE Item(list[k])
    BY <1>9, <1>11, <1>14 DEF Joins
<1>16. \A k \in DOMAIN others : k \in DOMAIN list /\ Kept(others[k], list[k])
    BY <1>7, <1>11, <1>14 DEF Joins
<1>17. ASSUME NEW r \in ToSet(Roots) PROVE \E k \in DOMAIN list : Cites(list[k], "directory", r)
    <2>1. PICK k \in DOMAIN order : order[k] = r
        BY <1>2
    <2>2. k \in DOMAIN built /\ Cites(built[k], "directory", r)
        BY <1>9, <2>1
    <2>3. PICK j \in DOMAIN list : list[j] = built[k]
        BY <1>14, <2>2 DEF Joins
    <2> QED BY <2>2, <2>3
<1>18. Assembled'
    BY <1>3, <1>13, <1>14, <1>15, <1>16, <1>17, ListStays
<1>19. warnings' = {}
    BY <1>3 DEF IdentityInv, Parse
<1>20. IsSequence(matches)' /\ (\A m \in ToSet(matches) : m.confidence \in Confidences)'
    BY <1>3 DEF IdentityInv, IsSequence
<1> QED BY <1>3, <1>18, <1>19, <1>20, BeforeTheEnd

\* A step that leaves the list alone.
LEMMA ListIsLeft ==
    ASSUME input' = input, warnings \subseteq warnings', components' = components, Assembled
    PROVE  Assembled'
<1>1. PICK list : list = components
    OBVIOUS
<1>2. /\ components' = list /\ IsSequence(list) /\ \A k \in DOMAIN list : Item(list[k])
      /\ \A k \in DOMAIN others : k \in DOMAIN list /\ Kept(others[k], list[k])
      /\ \A r \in ToSet(Roots) : \E k \in DOMAIN list : Cites(list[k], "directory", r)
    BY <1>1 DEF Assembled
<1> QED BY <1>2, ListStays

LEMMA LoadHolds == IdentityInv /\ LoadIndex => IdentityInv'
<1> SUFFICES ASSUME IdentityInv, LoadIndex PROVE IdentityInv'
    OBVIOUS
<1>1. /\ input' = input /\ components' = components /\ matches' = matches
      /\ pc = "load" /\ pc' \in {"match", "merge"}
    BY DEF LoadIndex
<1>2. input \in Inputs /\ warnings = {} /\ Assembled
    BY <1>1 DEF IdentityInv
<1>3. Assembled'
    BY <1>1, <1>2, ListIsLeft
<1>4. IsSequence(matches)' /\ (\A m \in ToSet(matches) : m.confidence \in Confidences)'
    BY <1>1 DEF IdentityInv, IsSequence
<1> QED BY <1>1, <1>2, <1>3, <1>4, BeforeTheEnd

\* A confidence is earned by what was matched.
LEMMA MatchIs ==
    ASSUME NEW known, NEW root, NEW hashed, NEW m \in match_root(known, root, hashed)
    PROVE  m.confidence \in Confidences
<1> DEFINE best(l) == best_releases(known, hashed, l)
           one(l) == CHOOSE r \in best(l) : TRUE
           matched(l) == MatchedByRelease(known, hashed, one(l))
           versions(l) == {known.releases[r].version : r \in best(l)}
           unique(l) == Cardinality(versions(l)) = 1
           version(l) == IF unique(l) THEN known.releases[one(l)].version ELSE <<>>
           candidates(l) == IF unique(l) THEN {} ELSE versions(l)
           confidence(l) == confidence_for(matched(l), Cardinality(DOMAIN hashed), known.releases[one(l)].file_count, unique(l))
<1>1. PICK l : m = [root |-> root, library |-> known.libraries[l], license |-> "Zlib", matched |-> matched(l),
                    version |-> version(l), candidates |-> candidates(l), confidence |-> confidence(l)]
    BY DEF match_root
<1> HIDE DEF matched, version, candidates, confidence
<1>2. m.confidence = confidence(l)
    BY <1>1
<1>3. \A matched2, considered2, count2, unique2 :
          confidence_for(matched2, considered2, count2, unique2) \in Confidences
    BY DEF confidence_for, Confidences
<1> QED BY <1>2, <1>3 DEF confidence

LEMMA MatchHolds == IdentityInv /\ MatchRoot => IdentityInv'
<1> SUFFICES ASSUME IdentityInv, MatchRoot PROVE IdentityInv'
    OBVIOUS
<1>1. /\ input' = input /\ components' = components /\ pc = "match" /\ pc' = "match"
      /\ warnings \subseteq warnings'
    BY DEF MatchRoot
<1>2. input \in Inputs /\ Assembled
    BY <1>1 DEF IdentityInv
<1>3. Assembled'
    BY <1>1, <1>2, ListIsLeft
<1> DEFINE judged == match_root(index, Roots[next], Hashed(FilesUnder(Roots[next]), budget - hashed_files))
<1>4. matches' = matches \/ \E m \in judged : matches' = Append(matches, m)
    BY DEF MatchRoot
<1>5. \A m \in judged : m.confidence \in Confidences
    BY MatchIs
<1> HIDE DEF judged
<1>6. IsSequence(matches) /\ \A m \in ToSet(matches) : m.confidence \in Confidences
    BY DEF IdentityInv
<1>7. ASSUME NEW s, NEW m, IsSequence(s), \A x \in ToSet(s) : x.confidence \in Confidences, m.confidence \in Confidences
      PROVE  IsSequence(Append(s, m)) /\ \A x \in ToSet(Append(s, m)) : x.confidence \in Confidences
    <2> DEFINE S == ToSet(s) \cup {m}
               longer == Append(s, m)
    <2>1. s \in Seq(S) /\ m \in S
        BY <1>7, SeqMonotonic DEF IsSequence
    <2>2. longer \in Seq(S)
        BY <2>1, AppendProperties
    <2>3. \A x \in S : x.confidence \in Confidences
        BY <1>7
    <2> HIDE DEF longer, S
    <2>4. /\ Len(longer) \in Nat /\ DOMAIN longer = 1 .. Len(longer) /\ longer \in [1 .. Len(longer) -> S]
        BY <2>2, LenProperties
    <2>5. longer = [k \in 1 .. Len(longer) |-> longer[k]]
        BY <2>4
    <2>6. IsSequence(longer)
        BY <2>4, <2>5, SequenceIs
    <2>7. \A x \in ToSet(longer) : x \in S
        BY <2>4 DEF ToSet
    <2> QED BY <2>3, <2>6, <2>7 DEF longer
<1>8. IsSequence(matches') /\ \A m \in ToSet(matches') : m.confidence \in Confidences
    BY <1>4, <1>5, <1>6, <1>7
<1>9. IsSequence(matches)' /\ (\A m \in ToSet(matches) : m.confidence \in Confidences)'
    BY <1>8 DEF IsSequence
<1> QED BY <1>1, <1>2, <1>3, <1>9, BeforeTheEnd

LEMMA DoneHolds == IdentityInv /\ (MatchesDone \/ MatchesApplied) => IdentityInv'
<1> SUFFICES ASSUME IdentityInv, MatchesDone \/ MatchesApplied PROVE IdentityInv'
    OBVIOUS
<1>1. /\ input' = input /\ components' = components /\ matches' = matches /\ warnings' = warnings
      /\ pc \in {"match", "apply"} /\ pc' \in {"apply", "merge"}
    BY DEF MatchesDone, MatchesApplied
<1>2. input \in Inputs /\ Assembled
    BY <1>1 DEF IdentityInv
<1>3. Assembled'
    BY <1>1, <1>2, ListIsLeft
<1>4. IsSequence(matches)' /\ (\A m \in ToSet(matches) : m.confidence \in Confidences)'
    BY <1>1 DEF IdentityInv, IsSequence
<1> QED BY <1>1, <1>2, <1>3, <1>4, BeforeTheEnd

\* What a match leaves and changes of a component.
LEMMA EnrichedHas ==
    ASSUME NEW c, IsComponent(c), NEW match, match.confidence \in Confidences, NEW e,
           e = [source |-> "Fingerprint", confidence |-> match.confidence,
                detail |-> <<"corpus", match.root, match.library, match.version>>],
           NEW d, d = Enriched(c, match)
    PROVE  /\ IsComponent(d) /\ d.root = c.root /\ d.scope = c.scope /\ d.evidence = c.evidence \cup {e}
           /\ identity_is_folder_derived(c) =>
                 d.version = match.version /\ d.purl.type = "generic" /\ d.purl.name = match.library
           /\ ~identity_is_folder_derived(c) => d.version = c.version /\ d.purl = c.purl
<1> DEFINE evidence == c.evidence \cup {e}
           license == IF c.license = "" THEN match.license ELSE c.license
           cited == [c EXCEPT !.evidence = evidence, !.license = license]
           purl == [type |-> "generic", name |-> match.library, version |-> Spelled(match.version)]
<1>1. c = [purl |-> c.purl, version |-> c.version, root |-> c.root, scope |-> c.scope,
           supplier |-> c.supplier, license |-> c.license, evidence |-> c.evidence]
    BY DEF IsComponent
<1>2. d = IF identity_is_folder_derived(c) THEN [cited EXCEPT !.version = match.version, !.purl = purl] ELSE cited
    BY DEF Enriched
<1>3. /\ c.scope \in Scopes /\ \A f \in evidence : f.confidence \in Confidences
      /\ c.purl.version \in {{}, {c.version}}
      /\ c.purl.version = {} /\ c.purl.type = "generic" => c.version = <<>>
    BY DEF IsComponent
<1>4. purl.version = Spelled(match.version) /\ purl.type = "generic" /\ purl.name = match.library
    OBVIOUS
<1>5. \/ purl.version = {match.version}
      \/ purl.version = {} /\ match.version = <<>>
    BY <1>4 DEF Spelled
<1> HIDE DEF evidence, license, purl
<1>6. cited = [purl |-> c.purl, version |-> c.version, root |-> c.root, scope |-> c.scope,
               supplier |-> c.supplier, license |-> license, evidence |-> evidence]
    <2>1. PICK p, v, r, s, u, l, ev :
              c = [purl |-> p, version |-> v, root |-> r, scope |-> s, supplier |-> u, license |-> l, evidence |-> ev]
        BY <1>1
    <2>2. PICK x : x = cited
        OBVIOUS
    <2>3. x = [purl |-> p, version |-> v, root |-> r, scope |-> s, supplier |-> u,
               license |-> license, evidence |-> evidence]
        BY <2>1, <2>2
    <2> HIDE DEF cited
    <2>4. c.purl = p /\ c.version = v /\ c.root = r /\ c.scope = s /\ c.supplier = u
        BY <2>1
    <2> QED BY <2>2, <2>3, <2>4
<1> HIDE DEF cited
<1>7. CASE identity_is_folder_derived(c)
    <2>1. d = [purl |-> purl, version |-> match.version, root |-> c.root, scope |-> c.scope,
               supplier |-> c.supplier, license |-> license, evidence |-> evidence]
        BY <1>2, <1>6, <1>7
    <2> QED BY <1>3, <1>4, <1>5, <1>7, <2>1 DEF IsComponent, evidence
<1>8. CASE ~identity_is_folder_derived(c)
    <2>1. d = cited
        BY <1>2, <1>8
    <2> QED BY <1>3, <1>6, <1>8, <2>1 DEF IsComponent, evidence
<1> QED BY <1>7, <1>8

LEMMA EnrichedIs ==
    ASSUME input' = input, warnings \subseteq warnings', NEW c, Item(c),
           NEW match, match.confidence \in Confidences, match.root = c.root,
           Disagrees(c, match) => <<"kFingerprintVersionDisagreement", match.root>> \in warnings',
           NEW d, d = Enriched(c, match)
    PROVE  /\ Item(d)' /\ \A r, what : Cites(d, what, r) <=> Cites(c, what, r)
           /\ \A o : Kept(o, c) => Kept(o, d)
<1>1. PICK e : e = [source |-> "Fingerprint", confidence |-> match.confidence,
                    detail |-> <<"corpus", match.root, match.library, match.version>>]
    OBVIOUS
<1>2. e.source = "Fingerprint" /\ e.detail[2] = c.root /\ e.detail[4] = match.version
    BY <1>1
<1>3. /\ IsComponent(d) /\ d.root = c.root /\ d.scope = c.scope /\ d.evidence = c.evidence \cup {e}
      /\ identity_is_folder_derived(c) => d.version = match.version /\ d.purl.type = "generic"
      /\ ~identity_is_folder_derived(c) => d.version = c.version /\ d.purl = c.purl
    BY <1>1, EnrichedHas DEF Item
<1>4. CorpusEvidence(d) = CorpusEvidence(c) \cup {e}
    BY <1>2, <1>3 DEF CorpusEvidence
<1>5. \A r, what : Cites(d, what, r) <=> Cites(c, what, r)
    BY <1>2, <1>3 DEF Cites
<1>6. ASSUME NEW o, Kept(o, c) PROVE Kept(o, d)
    <2>1. CASE identity_is_folder_derived(o)
        BY <1>3, <1>6, <2>1 DEF Kept
    <2>2. CASE ~identity_is_folder_derived(o)
        <3>1. c.purl = o.purl /\ c.version = o.version /\ c.root = o.root
            BY <1>6, <2>2 DEF Kept
        <3>2. ~identity_is_folder_derived(c)
            BY <2>2, <3>1 DEF identity_is_folder_derived
        <3> QED BY <1>3, <1>6, <3>1, <3>2 DEF Kept
    <2> QED BY <2>1, <2>2
<1>7. ~identity_is_folder_derived(c) => ~identity_is_folder_derived(d)
    BY <1>3 DEF identity_is_folder_derived
<1>8. identity_is_folder_derived(d) => \A f \in CorpusEvidence(d) : f.detail[4] = <<>>
    <2>1. SUFFICES ASSUME identity_is_folder_derived(d) PROVE \A f \in CorpusEvidence(d) : f.detail[4] = <<>>
        OBVIOUS
    <2>2. identity_is_folder_derived(c) /\ \A f \in CorpusEvidence(c) : f.detail[4] = <<>>
        BY <1>7, <2>1 DEF Item
    <2>3. d.version = <<>>
        BY <2>1 DEF identity_is_folder_derived
    <2> QED BY <1>2, <1>3, <1>4, <2>2, <2>3
<1>9. ASSUME NEW f \in CorpusEvidence(d), d.version # <<>>, f.detail[4] # <<>>, f.detail[4] # d.version
      PROVE  <<"kFingerprintVersionDisagreement", f.detail[2]>> \in warnings'
    <2>1. CASE identity_is_folder_derived(c)
        BY <1>2, <1>3, <1>4, <1>9, <2>1 DEF Item
    <2>2. CASE ~identity_is_folder_derived(c) /\ f \in CorpusEvidence(c)
        BY <1>3, <1>9, <2>2 DEF Item
    <2>3. CASE ~identity_is_folder_derived(c) /\ f = e
        <3>1. Disagrees(c, match)
            BY <1>2, <1>3, <1>9, <2>3 DEF Disagrees
        <3> QED BY <1>2, <2>3, <3>1
    <2> QED BY <1>4, <2>1, <2>2, <2>3
<1>10. Cites(d, "directory", d.root) =>
          /\ Grounded(d) /\ (d.purl.version # {} \/ d.purl.type = "generic")
          /\ identity_is_folder_derived(d) => ~FoundHeader(d.root) /\ ~FoundCommit(d.root)
    <2>1. SUFFICES ASSUME Cites(d, "directory", d.root)
                   PROVE  /\ Grounded(d) /\ (d.purl.version # {} \/ d.purl.type = "generic")
                          /\ identity_is_folder_derived(d) => ~FoundHeader(d.root) /\ ~FoundCommit(d.root)
        OBVIOUS
    <2>2. /\ Grounded(c) /\ (c.purl.version # {} \/ c.purl.type = "generic")
          /\ identity_is_folder_derived(c) => ~FoundHeader(d.root) /\ ~FoundCommit(d.root)
        BY <1>3, <1>5, <2>1 DEF Item
    <2>3. Grounded(d)
        BY <1>2, <1>3, <1>4, <2>2 DEF Grounded
    <2> QED BY <1>3, <1>7, <2>2, <2>3
<1>11. Grounded(d) => Grounded(d)'
    BY InputStays DEF Grounded
<1>12. /\ \A r, what : Cites(d, what, r) => r = d.root
       /\ Cites(d, "header", d.root) => FoundHeader(d.root)
    BY <1>3, <1>5 DEF Item
<1>13. Item(d)'
    BY <1>3, <1>8, <1>9, <1>10, <1>11, <1>12, InputStays DEF Item
<1> QED BY <1>5, <1>6, <1>13

LEMMA ApplyHolds == IdentityInv /\ ApplyMatch => IdentityInv'
<1> SUFFICES ASSUME IdentityInv, ApplyMatch PROVE IdentityInv'
    OBVIOUS
<1>1. PICK match, list, at : match = Head(matches) /\ list = components
          /\ at = {k \in DOMAIN list : list[k].root = match.root}
    OBVIOUS
<1>2. /\ components' = [k \in DOMAIN list |-> IF k \in at THEN Enriched(list[k], match) ELSE list[k]]
      /\ warnings \subseteq warnings'
      /\ (\E k \in at : Disagrees(list[k], match)) => <<"kFingerprintVersionDisagreement", match.root>> \in warnings'
    BY <1>1 DEF ApplyMatch
<1>3. /\ input' = input /\ pc = "apply" /\ pc' = "apply" /\ matches # <<>> /\ matches' = Tail(matches)
    BY DEF ApplyMatch
<1>4. input \in Inputs /\ Assembled /\ IsSequence(matches) /\ \A m \in ToSet(matches) : m.confidence \in Confidences
    BY <1>3 DEF IdentityInv
<1>5. /\ IsSequence(list) /\ \A k \in DOMAIN list : Item(list[k])
      /\ \A k \in DOMAIN others : k \in DOMAIN list /\ Kept(others[k], list[k])
      /\ \A r \in ToSet(Roots) : \E k \in DOMAIN list : Cites(list[k], "directory", r)
    BY <1>1, <1>4 DEF Assembled
<1>6. ASSUME NEW s, IsSequence(s), s # <<>>, \A m \in ToSet(s) : m.confidence \in Confidences
      PROVE  /\ Head(s).confidence \in Confidences /\ IsSequence(Tail(s))
             /\ \A m \in ToSet(Tail(s)) : m.confidence \in Confidences
    <2> DEFINE S == ToSet(s)
               rest == Tail(s)
    <2>1. s \in Seq(S)
        BY <1>6 DEF IsSequence
    <2> HIDE DEF S
    <2>2. Head(s) \in S /\ rest \in Seq(S)
        BY <1>6, <2>1, HeadTailProperties
    <2> HIDE DEF rest
    <2>3. Len(rest) \in Nat /\ DOMAIN rest = 1 .. Len(rest) /\ rest \in [1 .. Len(rest) -> S]
        BY <2>2, LenProperties
    <2>4. rest = [k \in 1 .. Len(rest) |-> rest[k]]
        BY <2>3
    <2>5. IsSequence(rest)
        BY <2>3, <2>4, SequenceIs
    <2>6. \A x \in ToSet(rest) : x \in S
        BY <2>3 DEF ToSet
    <2>7. \A x \in S : x.confidence \in Confidences
        BY <1>6 DEF S
    <2> QED BY <2>2, <2>5, <2>6, <2>7 DEF rest
<1>7. match.confidence \in Confidences
    BY <1>1, <1>3, <1>4, <1>6
<1>8. IsSequence(matches') /\ \A m \in ToSet(matches') : m.confidence \in Confidences
    BY <1>3, <1>4, <1>6
<1>9. PICK after : after = components'
    OBVIOUS
<1>10. ASSUME NEW k \in DOMAIN list
       PROVE  /\ Item(after[k])' /\ \A r, what : Cites(after[k], what, r) <=> Cites(list[k], what, r)
              /\ \A o : Kept(o, list[k]) => Kept(o, after[k])
    <2>1. CASE k \in at
        <3>1. after[k] = Enriched(list[k], match)
            BY <1>2, <1>9, <2>1
        <3>2. Disagrees(list[k], match) => <<"kFingerprintVersionDisagreement", match.root>> \in warnings'
            BY <1>2, <2>1
        <3>3. match.root = list[k].root /\ Item(list[k])
            BY <1>1, <1>5, <2>1
        <3> QED BY <1>2, <1>3, <1>7, <3>1, <3>2, <3>3, EnrichedIs
    <2>2. CASE k \notin at
        <3>1. after[k] = list[k]
            BY <1>2, <1>9, <2>2
        <3>2. Item(list[k])'
            BY <1>2, <1>3, <1>5, ItemStays
        <3> QED BY <3>1, <3>2
    <2> QED BY <2>1, <2>2
<1>11. DOMAIN after = DOMAIN list /\ IsSequence(after)
    <2>1. Len(list) \in Nat /\ DOMAIN list = 1 .. Len(list)
        BY <1>5, SequenceHas
    <2>2. DOMAIN after = 1 .. Len(list) /\ after = [k \in 1 .. Len(list) |-> after[k]]
        BY <1>2, <1>9, <2>1
    <2> QED BY <2>1, <2>2, SequenceIs
<1>12. others' = others /\ Roots' = Roots
    BY <1>3, InputStays
<1>13. Assembled'
    BY <1>5, <1>9, <1>10, <1>11, <1>12 DEF Assembled
<1>14. IsSequence(matches)' /\ (\A m \in ToSet(matches) : m.confidence \in Confidences)'
    BY <1>8 DEF IsSequence
<1> QED BY <1>3, <1>4, <1>13, <1>14, BeforeTheEnd

------------------------------------------------------------------------------
(* What the merge keeps. *)

Says(f, e) == f.source = e.source /\ f.detail = e.detail /\ Rank(e.confidence) <= Rank(f.confidence)

\* A component that stands for another.
Covers(c, o) ==
    /\ c.purl = o.purl /\ scope_rank(c.scope) <= scope_rank(o.scope)
    /\ \A e \in o.evidence : \E f \in c.evidence : Says(f, e)

\* A component with one mention of each piece of evidence.
Normalizes(d, c) == d = [c EXCEPT !.evidence = normalize_evidence(@)]

LEMMA Ranks ==
    /\ \A x \in Confidences : Rank(x) \in 0 .. 2
    /\ \A x \in Scopes : scope_rank(x) \in 0 .. 2
<1>1. Rank("Low") = 0 /\ Rank("Medium") = 1 /\ Rank("High") = 2
    BY DEF Rank
<1>2. scope_rank("Required") = 0 /\ scope_rank("Optional") = 1 /\ scope_rank("Excluded") = 2
    BY DEF scope_rank
<1> QED BY <1>1, <1>2 DEF Confidences, Scopes

LEMMA NormalKeeps ==
    ASSUME NEW E, \A e \in E : e.confidence \in Confidences
    PROVE  /\ normalize_evidence(E) \subseteq E
           /\ \A e \in E : \E f \in normalize_evidence(E) : Says(f, e)
<1>1. \A e \in E : Rank(e.confidence) \in 0 .. 2
    BY Ranks
<1>2. ASSUME NEW e \in E PROVE \E f \in normalize_evidence(E) : Says(f, e)
    <2> DEFINE Same(f) == f.source = e.source /\ f.detail = e.detail
               Top(f) == f \in E /\ Same(f) /\ \A g \in E : Same(g) => Rank(g.confidence) <= Rank(f.confidence)
    <2>1. \E f : Top(f)
        <3>1. CASE \E f \in E : Same(f) /\ Rank(f.confidence) = 2
            BY <1>1, <3>1
        <3>2. CASE /\ ~\E f \in E : Same(f) /\ Rank(f.confidence) = 2
                   /\ \E f \in E : Same(f) /\ Rank(f.confidence) = 1
            <4>1. \A g \in E : Same(g) => Rank(g.confidence) <= 1
                BY <1>1, <3>2
            <4> QED BY <3>2, <4>1
        <3>3. CASE /\ ~\E f \in E : Same(f) /\ Rank(f.confidence) = 2
                   /\ ~\E f \in E : Same(f) /\ Rank(f.confidence) = 1
            <4>1. \A g \in E : Same(g) => Rank(g.confidence) = 0
                BY <1>1, <3>3
            <4>2. Top(e)
                BY <4>1
            <4> QED BY <4>2
        <3> QED BY <3>1, <3>2, <3>3
    <2>2. PICK f : Top(f)
        BY <2>1
    <2>3. f \in normalize_evidence(E)
        BY <2>2 DEF normalize_evidence
    <2> QED BY <2>2, <2>3 DEF Says
<1> QED BY <1>2 DEF normalize_evidence

LEMMA CoversItself == ASSUME NEW c, IsComponent(c) PROVE Covers(c, c)
<1>1. scope_rank(c.scope) \in 0 .. 2 /\ \A e \in c.evidence : Rank(e.confidence) \in 0 .. 2
    BY Ranks DEF IsComponent
<1>2. \A e \in c.evidence : Says(e, e)
    BY <1>1 DEF Says
<1> QED BY <1>1, <1>2 DEF Covers

LEMMA CoversThrough ==
    ASSUME NEW a, NEW b, NEW c, IsComponent(a), IsComponent(b), IsComponent(c), Covers(a, b), Covers(b, c)
    PROVE  Covers(a, c)
<1>1. /\ scope_rank(a.scope) \in 0 .. 2 /\ scope_rank(b.scope) \in 0 .. 2 /\ scope_rank(c.scope) \in 0 .. 2
      /\ \A e \in a.evidence \cup b.evidence \cup c.evidence : Rank(e.confidence) \in 0 .. 2
    BY Ranks DEF IsComponent
<1>2. ASSUME NEW e \in c.evidence PROVE \E f \in a.evidence : Says(f, e)
    <2>1. PICK g \in b.evidence : Says(g, e)
        BY DEF Covers
    <2>2. PICK f \in a.evidence : Says(f, g)
        BY DEF Covers
    <2>3. Says(f, e)
        BY <1>1, <2>1, <2>2 DEF Says
    <2> QED BY <2>3
<1> QED BY <1>1, <1>2 DEF Covers

\* Every value a field of a merged component can have is that of some component before.
Shapes(list) ==
    LET Values(Of(_)) == {Of(list[k]) : k \in DOMAIN list}
    IN [purl : Values(LAMBDA c : c.purl), version : Values(LAMBDA c : c.version), root : Values(LAMBDA c : c.root),
        scope : Values(LAMBDA c : c.scope), supplier : Values(LAMBDA c : c.supplier),
        license : Values(LAMBDA c : c.license), evidence : SUBSET UNION Values(LAMBDA c : c.evidence)]
Shaped(list) == {c \in Shapes(list) : IsComponent(c)}

LEMMA ListIsShaped ==
    ASSUME NEW list, NEW k \in DOMAIN list, IsComponent(list[k])
    PROVE  list[k] \in Shaped(list)
<1>1. PICK c : c = list[k]
    OBVIOUS
<1>2. c = [purl |-> c.purl, version |-> c.version, root |-> c.root, scope |-> c.scope,
           supplier |-> c.supplier, license |-> c.license, evidence |-> c.evidence]
    BY <1>1 DEF IsComponent
<1>3. c \in Shapes(list)
    BY <1>1, <1>2 DEF Shapes
<1> QED BY <1>1, <1>3 DEF Shaped

LEMMA NormalIs ==
    ASSUME NEW list, NEW c \in Shaped(list), NEW d, Normalizes(d, c)
    PROVE  /\ d \in Shaped(list) /\ d.purl = c.purl /\ d.evidence \subseteq c.evidence /\ Covers(d, c)
<1> DEFINE E == normalize_evidence(c.evidence)
<1>1. IsComponent(c) /\ c \in Shapes(list)
    BY DEF Shaped
<1>2. E \subseteq c.evidence /\ \A e \in c.evidence : \E f \in E : Says(f, e)
    BY <1>1, NormalKeeps DEF IsComponent
<1>3. PICK F : F = E
    OBVIOUS
<1> HIDE DEF E
<1>4. d = [c EXCEPT !.evidence = F]
    BY <1>3 DEF E, Normalizes
<1>5. d \in Shapes(list)
    BY <1>1, <1>2, <1>3, <1>4 DEF Shapes
<1>6. /\ d.purl = c.purl /\ d.version = c.version /\ d.root = c.root /\ d.scope = c.scope
      /\ d.supplier = c.supplier /\ d.license = c.license /\ d.evidence = F
    BY <1>1, <1>4 DEF Shapes
<1>7. d = [purl |-> d.purl, version |-> d.version, root |-> d.root, scope |-> d.scope,
           supplier |-> d.supplier, license |-> d.license, evidence |-> d.evidence]
    BY <1>5 DEF Shapes
<1>8. IsComponent(d)
    BY <1>1, <1>2, <1>3, <1>6, <1>7 DEF IsComponent
<1>9. scope_rank(c.scope) \in 0 .. 2
    BY <1>1, Ranks DEF IsComponent
<1> QED BY <1>2, <1>3, <1>5, <1>6, <1>8, <1>9 DEF Shaped, Covers

LEMMA MergedIs ==
    ASSUME NEW list, NEW c \in Shaped(list), NEW s \in Shaped(list), c.purl = s.purl,
           NEW m, m = merge_into(c, s)
    PROVE  /\ m \in Shaped(list) /\ m.purl = c.purl /\ m.evidence \subseteq c.evidence \cup s.evidence
           /\ Covers(m, c) /\ Covers(m, s)
<1> DEFINE both == c.evidence \cup s.evidence
           Filled(kept, other, nothing) == IF kept = nothing THEN other ELSE kept
<1>1. IsComponent(c) /\ IsComponent(s) /\ c \in Shapes(list) /\ s \in Shapes(list)
    BY DEF Shaped
<1>2. \A e \in both : e.confidence \in Confidences
    BY <1>1 DEF IsComponent
<1>3. c.purl.version # {} \/ c.purl.type = "generic" => c.version = s.version
    BY <1>1 DEF IsComponent
<1>4. PICK v, u, l, r, sc, F :
          /\ v = Filled(c.version, s.version, <<>>)
          /\ u = Filled(c.supplier, s.supplier, "")
          /\ l = Filled(c.license, s.license, "")
          /\ r = Filled(c.root, s.root, NoRoot)
          /\ sc = IF scope_rank(s.scope) < scope_rank(c.scope) THEN s.scope ELSE c.scope
          /\ F = normalize_evidence(both)
    OBVIOUS
<1>5. m = [c EXCEPT !.version = v, !.supplier = u, !.license = l, !.root = r, !.scope = sc, !.evidence = F]
    BY <1>4 DEF merge_into
<1>6. F \subseteq both /\ \A e \in both : \E f \in F : Says(f, e)
    BY <1>2, <1>4, NormalKeeps
<1>7. scope_rank(c.scope) \in 0 .. 2 /\ scope_rank(s.scope) \in 0 .. 2
    BY <1>1, Ranks DEF IsComponent
<1>8. /\ sc \in {c.scope, s.scope} /\ v \in {c.version, s.version}
      /\ u \in {c.supplier, s.supplier} /\ l \in {c.license, s.license} /\ r \in {c.root, s.root}
      /\ scope_rank(sc) <= scope_rank(c.scope) /\ scope_rank(sc) <= scope_rank(s.scope)
    <2>1. CASE scope_rank(s.scope) < scope_rank(c.scope)
        <3>1. sc = s.scope
            BY <1>4, <2>1
        <3>2. scope_rank(sc) <= scope_rank(c.scope) /\ scope_rank(sc) <= scope_rank(s.scope)
            BY <1>7, <2>1, <3>1
        <3> QED BY <1>3, <1>4, <3>1, <3>2
    <2>2. CASE ~(scope_rank(s.scope) < scope_rank(c.scope))
        <3>1. sc = c.scope
            BY <1>4, <2>2
        <3>2. scope_rank(sc) <= scope_rank(c.scope) /\ scope_rank(sc) <= scope_rank(s.scope)
            BY <1>7, <2>2, <3>1
        <3> QED BY <1>3, <1>4, <3>1, <3>2
    <2> QED BY <2>1, <2>2
<1>9. m = [purl |-> c.purl, version |-> v, root |-> r, scope |-> sc, supplier |-> u, license |-> l, evidence |-> F]
    BY <1>1, <1>5 DEF Shapes
<1>10. /\ m.purl = c.purl /\ m.version = v /\ m.root = r /\ m.scope = sc
       /\ m.supplier = u /\ m.license = l /\ m.evidence = F
    BY <1>9
<1>11. m \in Shapes(list)
    <2>1. both \in SUBSET UNION {list[k].evidence : k \in DOMAIN list}
        BY <1>1 DEF Shapes
    <2>2. /\ c.purl \in {list[k].purl : k \in DOMAIN list}
          /\ v \in {list[k].version : k \in DOMAIN list}
          /\ r \in {list[k].root : k \in DOMAIN list}
          /\ sc \in {list[k].scope : k \in DOMAIN list}
          /\ u \in {list[k].supplier : k \in DOMAIN list}
          /\ l \in {list[k].license : k \in DOMAIN list}
        BY <1>1, <1>8 DEF Shapes
    <2> HIDE DEF both
    <2>3. F \in SUBSET UNION {list[k].evidence : k \in DOMAIN list}
        BY <1>6, <2>1
    <2> QED BY <1>9, <2>2, <2>3 DEF Shapes
<1>12. IsComponent(m)
    <2>1. m = [purl |-> m.purl, version |-> m.version, root |-> m.root, scope |-> m.scope,
               supplier |-> m.supplier, license |-> m.license, evidence |-> m.evidence]
        BY <1>9, <1>10
    <2>2. m.scope \in Scopes /\ \A e \in m.evidence : e.confidence \in Confidences
        BY <1>1, <1>2, <1>6, <1>8, <1>10 DEF IsComponent
    <2>3. /\ m.purl.version \in {{}, {m.version}}
          /\ m.purl.version = {} /\ m.purl.type = "generic" => m.version = <<>>
        BY <1>1, <1>3, <1>8, <1>10 DEF IsComponent
    <2> QED BY <2>1, <2>2, <2>3 DEF IsComponent
<1>13. Covers(m, c) /\ Covers(m, s)
    BY <1>6, <1>8, <1>10 DEF Covers
<1> QED BY <1>6, <1>10, <1>11, <1>12, <1>13 DEF Shaped

Distinct(m) == \A i, j \in DOMAIN m : component_identity(m[i]) = component_identity(m[j]) => i = j

\* What each step of the merge leaves.
Takes(after, before, c) ==
    /\ Distinct(before) => Distinct(after)
    /\ \A k \in DOMAIN after : \A e \in after[k].evidence :
          \/ \E j \in DOMAIN before : before[j].purl = after[k].purl /\ e \in before[j].evidence
          \/ c.purl = after[k].purl /\ e \in c.evidence
    /\ \A j \in DOMAIN before : \E k \in DOMAIN after : Covers(after[k], before[j])
    /\ \E k \in DOMAIN after : Covers(after[k], c)

LEMMA TakenIs ==
    ASSUME NEW list, NEW before \in Seq(Shaped(list)), NEW c \in Shaped(list), NEW after, after = Taken(before, c)
    PROVE  after \in Seq(Shaped(list)) /\ Takes(after, before, c)
<1> DEFINE N == Len(before)
           S == Shaped(list)
<1>1. N \in Nat /\ DOMAIN before = 1 .. N /\ \A k \in 1 .. N : before[k] \in S
    BY LenProperties
<1>2. PICK same : same = {k \in DOMAIN before : component_identity(before[k]) = component_identity(c)}
    OBVIOUS
<1>3. \A k \in 1 .. N : k \in same <=> before[k].purl = c.purl
    BY <1>1, <1>2 DEF component_identity
<1>4. \A x \in S : IsComponent(x)
    BY DEF Shaped
<1>5. CASE same = {}
    <2>1. PICK d : d = [c EXCEPT !.evidence = normalize_evidence(@)]
        OBVIOUS
    <2>2. d \in S /\ d.purl = c.purl /\ d.evidence \subseteq c.evidence /\ Covers(d, c)
        <3>1. Normalizes(d, c)
            BY <2>1 DEF Normalizes
        <3> HIDE DEF S
        <3>2. c \in Shaped(list)
            OBVIOUS
        <3>3. d \in Shaped(list) /\ d.purl = c.purl /\ d.evidence \subseteq c.evidence /\ Covers(d, c)
            BY <3>1, <3>2, NormalIs
        <3> QED BY <3>3 DEF S
    <2>3. after = Append(before, d)
        BY <1>2, <1>5, <2>1 DEF Taken
    <2> HIDE DEF S
    <2>4. /\ after \in Seq(S) /\ Len(after) = N + 1
          /\ \A k \in 1 .. N : after[k] = before[k]
          /\ after[N + 1] = d
        BY <2>2, <2>3, AppendProperties DEF S
    <2>5. DOMAIN after = 1 .. N + 1
        BY <2>4, LenProperties
    <2> HIDE DEF N
    <2>6. \A k \in 1 .. N + 1 : k \in 1 .. N \/ k = N + 1
        BY <1>1
    <2>7. N + 1 \in 1 .. N + 1 /\ N + 1 \notin 1 .. N /\ \A k \in 1 .. N : k \in 1 .. N + 1
        BY <1>1
    <2>8. \A k \in 1 .. N : before[k].purl # d.purl
        BY <1>3, <1>5, <2>2
    <2>9. ASSUME Distinct(before) PROVE Distinct(after)
        <3> SUFFICES ASSUME NEW i \in DOMAIN after, NEW j \in DOMAIN after, after[i].purl = after[j].purl PROVE i = j
            BY DEF Distinct, component_identity
        <3> QED BY <1>1, <2>4, <2>5, <2>6, <2>8, <2>9 DEF Distinct, component_identity
    <2>10. ASSUME NEW k \in DOMAIN after, NEW e \in after[k].evidence
           PROVE  \/ \E j \in DOMAIN before : before[j].purl = after[k].purl /\ e \in before[j].evidence
                  \/ c.purl = after[k].purl /\ e \in c.evidence
        BY <1>1, <2>2, <2>4, <2>5, <2>6
    <2>11. ASSUME NEW j \in DOMAIN before PROVE \E k \in DOMAIN after : Covers(after[k], before[j])
        <3>1. Covers(before[j], before[j])
            BY <1>1, <1>4, CoversItself
        <3>2. j \in DOMAIN after /\ after[j] = before[j]
            BY <1>1, <2>4, <2>5, <2>7
        <3> QED BY <3>1, <3>2
    <2>12. \E k \in DOMAIN after : Covers(after[k], c)
        BY <2>2, <2>4, <2>5, <2>7
    <2> QED BY <2>4, <2>9, <2>10, <2>11, <2>12 DEF S, Takes
<1>6. CASE same # {}
    <2>1. after = [k \in 1 .. N |-> IF k \in same THEN merge_into(before[k], c) ELSE before[k]]
        BY <1>1, <1>2, <1>6 DEF Taken
    <2>2. ASSUME NEW k \in same
          PROVE  /\ after[k] \in S /\ after[k].purl = before[k].purl /\ after[k].purl = c.purl
                 /\ after[k].evidence \subseteq before[k].evidence \cup c.evidence
                 /\ Covers(after[k], before[k]) /\ Covers(after[k], c)
        <3>1. k \in 1 .. N /\ before[k].purl = c.purl /\ after[k] = merge_into(before[k], c)
            BY <1>1, <1>2, <1>3, <2>1
        <3> QED BY <1>1, <3>1, MergedIs
    <2>3. ASSUME NEW k \in (1 .. N) \ same
          PROVE  after[k] = before[k] /\ after[k] \in S /\ Covers(after[k], before[k])
        <3>1. after[k] = before[k] /\ before[k] \in S
            BY <1>1, <2>1
        <3> QED BY <1>4, <3>1, CoversItself
    <2>4. DOMAIN after = 1 .. N /\ same \subseteq 1 .. N
        BY <1>1, <1>2, <2>1
    <2> HIDE DEF S, N
    <2>5. after \in Seq(S)
        <3>1. after \in [1 .. N -> S]
            BY <2>1, <2>2, <2>3
        <3> QED BY <1>1, <3>1, SeqDef
    <2>6. \A k \in 1 .. N : after[k].purl = before[k].purl
        BY <2>2, <2>3
    <2>7. Distinct(before) => Distinct(after)
        BY <1>1, <2>4, <2>6 DEF Distinct, component_identity
    <2>8. ASSUME NEW k \in DOMAIN after, NEW e \in after[k].evidence
           PROVE  \/ \E j \in DOMAIN before : before[j].purl = after[k].purl /\ e \in before[j].evidence
                  \/ c.purl = after[k].purl /\ e \in c.evidence
        BY <1>1, <2>2, <2>3, <2>4
    <2>9. \A j \in DOMAIN before : \E k \in DOMAIN after : Covers(after[k], before[j])
        BY <1>1, <2>2, <2>3, <2>4
    <2>10. \E k \in DOMAIN after : Covers(after[k], c)
        BY <1>6, <2>2, <2>4
    <2> QED BY <2>5, <2>7, <2>8, <2>9, <2>10 DEF S, Takes
<1> QED BY <1>5, <1>6

\* The list once equal identities are merged.
Gathers(m, list, n) ==
    /\ m \in Seq(Shaped(list)) /\ Distinct(m)
    /\ \A k \in DOMAIN m : \A e \in m[k].evidence :
          \E j \in 1 .. n : list[j].purl = m[k].purl /\ e \in list[j].evidence
    /\ \A j \in 1 .. n : \E k \in DOMAIN m : Covers(m[k], list[j])

LEMMA NothingGathered == ASSUME NEW list PROVE Gathers(<<>>, list, 0)
<1>1. <<>> \in Seq(Shaped(list)) /\ DOMAIN <<>> = {}
    BY EmptySeq
<1>2. 1 .. 0 = {}
    OBVIOUS
<1> QED BY <1>1, <1>2 DEF Gathers, Distinct

LEMMA OneMore ==
    ASSUME NEW list, NEW n \in Nat \ {0}, NEW before, Gathers(before, list, n - 1), list[n] \in Shaped(list),
           \A j \in 1 .. n : list[j] \in Shaped(list)
    PROVE  Gathers(Taken(before, list[n]), list, n)
<1>1. PICK after, c : after = Taken(before, c) /\ c = list[n]
    OBVIOUS
<1>2. before \in Seq(Shaped(list)) /\ c \in Shaped(list)
    BY <1>1 DEF Gathers
<1>3. after \in Seq(Shaped(list)) /\ Takes(after, before, c)
    BY <1>1, <1>2, TakenIs
<1>4. n \in 1 .. n /\ (\A j \in 1 .. n - 1 : j \in 1 .. n) /\ \A j \in 1 .. n : j \in 1 .. n - 1 \/ j = n
    OBVIOUS
<1>5. ASSUME NEW k \in DOMAIN after, NEW e \in after[k].evidence
      PROVE  \E j \in 1 .. n : list[j].purl = after[k].purl /\ e \in list[j].evidence
    <2>1. CASE c.purl = after[k].purl /\ e \in c.evidence
        BY <1>1, <1>4, <2>1
    <2>2. CASE \E i \in DOMAIN before : before[i].purl = after[k].purl /\ e \in before[i].evidence
        BY <1>4, <2>2 DEF Gathers
    <2> QED BY <1>3, <2>1, <2>2 DEF Takes
<1>6. ASSUME NEW j \in 1 .. n PROVE \E k \in DOMAIN after : Covers(after[k], list[j])
    <2>1. CASE j = n
        BY <1>1, <1>3, <2>1 DEF Takes
    <2>2. CASE j \in 1 .. n - 1
        <3>1. PICK i \in DOMAIN before : Covers(before[i], list[j])
            BY <2>2 DEF Gathers
        <3>2. PICK k \in DOMAIN after : Covers(after[k], before[i])
            BY <1>3 DEF Takes
        <3>3. before[i] \in Shaped(list) /\ after[k] \in Shaped(list)
            BY <1>2, <1>3, LenProperties
        <3>4. IsComponent(after[k]) /\ IsComponent(before[i]) /\ IsComponent(list[j])
            BY <3>3 DEF Shaped
        <3>5. Covers(after[k], list[j])
            BY <3>1, <3>2, <3>4, CoversThrough
        <3> QED BY <3>5
    <2> QED BY <1>4, <2>1, <2>2
<1> QED BY <1>1, <1>3, <1>5, <1>6 DEF Gathers, Takes

LEMMA MergeIs ==
    ASSUME NEW list, IsSequence(list), \A k \in DOMAIN list : IsComponent(list[k])
    PROVE  Gathers(merge_all(list), list, Len(list))
<1> DEFINE N == Len(list)
           step == [n \in 1 .. N |-> [x \in Seq(Shaped(list)) |-> Taken(x, list[n])]]
           merged[n \in 0 .. N] == IF n = 0 THEN <<>> ELSE Taken(merged[n - 1], list[n])
<1>1. N \in Nat /\ DOMAIN list = 1 .. N
    BY SequenceHas
<1>2. ASSUME NEW n \in 1 .. N PROVE list[n] \in Shaped(list)
    BY <1>1, ListIsShaped
<1>3. merge_all(list) = merged[N]
    BY DEF merge_all
<1> HIDE DEF N
<1>4. <<>> \in Seq(Shaped(list))
    BY EmptySeq
<1>5. ASSUME NEW n \in 1 .. N, NEW x \in Seq(Shaped(list)) PROVE Taken(x, list[n]) \in Seq(Shaped(list))
    BY <1>2, TakenIs
<1>6. Steps(step, N, Seq(Shaped(list)))
    BY <1>5 DEF Steps
<1>7. merged = [n \in 0 .. N |-> IF n = 0 THEN <<>> ELSE Taken(merged[n - 1], list[n])]
    <2>1. PICK g : Folds(g, N, Seq(Shaped(list)), <<>>, step)
        <3> HIDE DEF step
        <3> QED BY <1>1, <1>4, <1>6, Folding
    <2>2. ASSUME NEW n \in 1 .. N PROVE g[n] = Taken(g[n - 1], list[n])
        <3>1. n - 1 \in 0 .. N
            BY <1>1
        <3>2. g[n] = step[n][g[n - 1]] /\ g[n - 1] \in Seq(Shaped(list))
            <4> HIDE DEF step
            <4> QED BY <2>1, <3>1 DEF Folds
        <3> QED BY <3>2
    <2>3. g = [n \in 0 .. N |-> IF n = 0 THEN <<>> ELSE Taken(g[n - 1], list[n])]
        <3>1. g \in [0 .. N -> Seq(Shaped(list))] /\ g[0] = <<>>
            BY <2>1 DEF Folds
        <3>2. ASSUME NEW n \in 0 .. N PROVE g[n] = IF n = 0 THEN <<>> ELSE Taken(g[n - 1], list[n])
            <4>1. CASE n = 0
                BY <3>1, <4>1
            <4>2. CASE n # 0
                <5>1. n \in 1 .. N
                    BY <1>1, <4>2
                <5> QED BY <2>2, <4>2, <5>1
            <4> QED BY <4>1, <4>2
        <3> QED BY <3>1, <3>2
    <2> QED BY <2>3
<1> HIDE DEF merged
<1>8. 0 .. N \subseteq {n \in 0 .. N : Gathers(merged[n], list, n)}
    <2> DEFINE P == {n \in 0 .. N : Gathers(merged[n], list, n)}
    <2>1. 0 \in P
        BY <1>1, <1>7, NothingGathered
    <2>2. ASSUME NEW n \in 1 .. N, n - 1 \in P PROVE n \in P
        <3>1. n \in 0 .. N /\ n # 0 /\ n \in Nat \ {0}
            BY <1>1
        <3>2. merged[n] = Taken(merged[n - 1], list[n])
            BY <3>1, <1>7
        <3>3. \A j \in 1 .. n : list[j] \in Shaped(list)
            <4>1. \A j \in 1 .. n : j \in 1 .. N
                BY <1>1
            <4> QED BY <1>2, <4>1
        <3>4. Gathers(merged[n - 1], list, n - 1)
            BY <2>2
        <3> QED BY <1>2, <3>1, <3>2, <3>3, <3>4, OneMore
    <2> HIDE DEF P
    <2>3. 0 .. N \subseteq P
        BY <1>1, <2>1, <2>2, Counting
    <2> QED BY <2>3 DEF P
<1> QED BY <1>1, <1>3, <1>8 DEF N

\* What the merge makes of the list that is assembled.
LEMMA MergeLeaves ==
    ASSUME Assembled, Merge, NEW list, list = components, NEW m, m = components'
    PROVE  /\ \A k \in DOMAIN m : IsComponent(m[k])
           /\ \A i, j \in DOMAIN m : component_identity(m[i]) = component_identity(m[j]) => i = j
           /\ \A k \in DOMAIN m : \A e \in m[k].evidence :
                 \E j \in DOMAIN list : list[j].purl = m[k].purl /\ e \in list[j].evidence
           /\ \A j \in DOMAIN list : \E k \in DOMAIN m : Covers(m[k], list[j])
           /\ \A k \in DOMAIN m, j \in DOMAIN list :
                 list[j].purl = m[k].purl /\ (m[k].purl.version # {} \/ m[k].purl.type = "generic")
                     => list[j].version = m[k].version
<1>1. IsSequence(list) /\ \A k \in DOMAIN list : IsComponent(list[k])
    BY DEF Assembled, Item
<1>2. DOMAIN list = 1 .. Len(list)
    BY <1>1, SequenceHas
<1>3. Gathers(m, list, Len(list))
    BY <1>1, MergeIs DEF Merge
<1>4. \A k \in DOMAIN m : m[k] \in Shaped(list)
    BY <1>3, LenProperties DEF Gathers
<1>5. /\ \A k \in DOMAIN m : IsComponent(m[k])
      /\ \A i, j \in DOMAIN m : component_identity(m[i]) = component_identity(m[j]) => i = j
      /\ \A k \in DOMAIN m : \A e \in m[k].evidence :
            \E j \in DOMAIN list : list[j].purl = m[k].purl /\ e \in list[j].evidence
      /\ \A j \in DOMAIN list : \E k \in DOMAIN m : Covers(m[k], list[j])
    BY <1>2, <1>3, <1>4 DEF Gathers, Distinct, Shaped
<1>6. \A k \in DOMAIN m, j \in DOMAIN list :
          list[j].purl = m[k].purl /\ (m[k].purl.version # {} \/ m[k].purl.type = "generic")
              => list[j].version = m[k].version
    BY <1>1, <1>5 DEF IsComponent
<1> QED BY <1>5, <1>6

\* The merge of a list that is assembled as above leaves what is promised.
LEMMA MergeHolds == IdentityInv /\ Merge => IdentityInv'
<1> SUFFICES ASSUME IdentityInv, Merge PROVE IdentityInv'
    OBVIOUS
<1>1. /\ input' = input /\ matches' = matches /\ warnings' = warnings /\ pc' = "merged"
      /\ pc = "merge" /\ components' = merge_all(components)
    BY DEF Merge
<1>2. input \in Inputs /\ Assembled
    BY <1>1 DEF IdentityInv
<1>3. PICK list, m : list = components /\ m = components'
    OBVIOUS
<1>4. /\ \A k \in DOMAIN list : Item(list[k])
      /\ \A k \in DOMAIN others : k \in DOMAIN list /\ Kept(others[k], list[k])
      /\ \A r \in ToSet(Roots) : \E k \in DOMAIN list : Cites(list[k], "directory", r)
    BY <1>2, <1>3 DEF Assembled
<1>5. /\ \A i, j \in DOMAIN m : component_identity(m[i]) = component_identity(m[j]) => i = j
      /\ \A k \in DOMAIN m : \A e \in m[k].evidence :
            \E j \in DOMAIN list : list[j].purl = m[k].purl /\ e \in list[j].evidence
      /\ \A j \in DOMAIN list : \E k \in DOMAIN m : Covers(m[k], list[j])
    BY <1>2, <1>3, MergeLeaves
<1>6. \A k \in DOMAIN m, j \in DOMAIN list :
          list[j].purl = m[k].purl /\ (m[k].purl.version # {} \/ m[k].purl.type = "generic")
              => list[j].version = m[k].version
    BY <1>2, <1>3, MergeLeaves
<1>7. \A k \in DOMAIN m, j \in DOMAIN list : Covers(m[k], list[j]) => m[k].purl = list[j].purl
    BY DEF Covers
<1>8. /\ others' = others /\ Roots' = Roots
      /\ \A r : FoundHeader(r)' <=> FoundHeader(r)
      /\ \A r : FoundCommit(r)' <=> FoundCommit(r)
      /\ \A r, v : Declares(r, v)' <=> Declares(r, v)
    BY <1>1, InputStays
<1>9. ASSUME NEW r \in ToSet(Roots) PROVE \E k \in DOMAIN m : Cites(m[k], "directory", r)
    <2>1. PICK j \in DOMAIN list : Cites(list[j], "directory", r)
        BY <1>4
    <2>2. PICK k \in DOMAIN m : Covers(m[k], list[j])
        BY <1>5
    <2>3. Cites(m[k], "directory", r)
        BY <2>1, <2>2 DEF Cites, Covers, Says
    <2> QED BY <2>3
<1>10. ASSUME NEW i \in DOMAIN others
       PROVE  \E k \in DOMAIN m :
                 /\ \/ /\ m[k].purl = others[i].purl
                       /\ m[k].version = others[i].version \/ m[k].purl.version = {}
                    \/ identity_is_folder_derived(others[i])
                 /\ scope_rank(m[k].scope) <= scope_rank(others[i].scope)
                 /\ \A e \in others[i].evidence : \E f \in m[k].evidence :
                       /\ f.source = e.source /\ f.detail = e.detail
                       /\ Rank(e.confidence) <= Rank(f.confidence)
    <2>1. i \in DOMAIN list /\ Kept(others[i], list[i])
        BY <1>4
    <2>2. PICK k \in DOMAIN m : Covers(m[k], list[i])
        BY <1>5, <2>1
    <2>3. m[k].purl = list[i].purl /\ (m[k].version = list[i].version \/ m[k].purl.version = {})
        BY <1>6, <2>1, <2>2 DEF Covers
    <2>4. \/ /\ m[k].purl = others[i].purl
             /\ m[k].version = others[i].version \/ m[k].purl.version = {}
          \/ identity_is_folder_derived(others[i])
        BY <2>1, <2>3 DEF Kept
    <2>5. scope_rank(m[k].scope) <= scope_rank(others[i].scope)
        BY <2>1, <2>2 DEF Kept, Covers
    <2>6. \A e \in others[i].evidence : \E f \in m[k].evidence :
              /\ f.source = e.source /\ f.detail = e.detail
              /\ Rank(e.confidence) <= Rank(f.confidence)
        BY <2>1, <2>2 DEF Kept, Covers, Says
    <2> QED BY <2>4, <2>5, <2>6
<1>11. EveryFindingSurvives'
    <2>1. PICK left : left = {m[k] : k \in DOMAIN m}
        OBVIOUS
    <2>2. Merged' = left
        BY <1>3, <2>1 DEF Merged
    <2>3. \A r \in ToSet(Roots) : \E c \in left : Cites(c, "directory", r)
        BY <1>9, <2>1
    <2> DEFINE Stands(c, i) ==
                   /\ \/ /\ c.purl = others[i].purl
                         /\ c.version = others[i].version \/ c.purl.version = {}
                      \/ identity_is_folder_derived(others[i])
                   /\ scope_rank(c.scope) <= scope_rank(others[i].scope)
                   /\ \A e \in others[i].evidence : \E f \in c.evidence :
                         /\ f.source = e.source /\ f.detail = e.detail
                         /\ Rank(e.confidence) <= Rank(f.confidence)
    <2>4. \A i \in DOMAIN others : \E c \in left : Stands(c, i)
        <3>1. \A i \in DOMAIN others : \E k \in DOMAIN m : Stands(m[k], i)
            BY <1>10
        <3> HIDE DEF Stands
        <3> QED BY <2>1, <3>1
    <2>5. \A c, d \in left : component_identity(c) = component_identity(d) => c = d
        BY <1>5, <2>1
    <2> QED BY <1>8, <2>2, <2>3, <2>4, <2>5 DEF EveryFindingSurvives
<1>12. ASSUME NEW k \in DOMAIN m, NEW r, Cites(m[k], "directory", r), m[k].version # <<>>
       PROVE  \/ Declares(r, m[k].version)
              \/ /\ ~Cites(m[k], "header", r) /\ ~FoundCommit(r)
                 /\ \E e \in CorpusEvidence(m[k]) : e.detail[2] = r /\ e.detail[4] = m[k].version
    <2>1. PICK j \in DOMAIN list : list[j].purl = m[k].purl /\ Cites(list[j], "directory", r)
        BY <1>5, <1>12 DEF Cites
    <2>2. /\ list[j].root = r /\ Grounded(list[j])
          /\ m[k].purl.version # {} \/ m[k].purl.type = "generic"
        BY <1>4, <2>1 DEF Item
    <2>5. list[j].version = m[k].version
        BY <1>6, <2>1, <2>2
    <2>3. CASE Declares(r, m[k].version)
        BY <2>3
    <2>4. CASE ~Declares(r, m[k].version)
        <3>1. /\ ~FoundHeader(r) /\ ~FoundCommit(r)
              /\ \E e \in CorpusEvidence(list[j]) : e.detail[2] = r /\ e.detail[4] = m[k].version
            BY <1>12, <2>2, <2>4, <2>5 DEF Grounded
        <3>2. ASSUME Cites(m[k], "header", r) PROVE FALSE
            <4>1. PICK i \in DOMAIN list : Cites(list[i], "header", r)
                BY <1>5, <3>2 DEF Cites
            <4>2. list[i].root = r /\ FoundHeader(r)
                BY <1>4, <4>1 DEF Item
            <4> QED BY <3>1, <4>2
        <3>3. \E e \in CorpusEvidence(m[k]) : e.detail[2] = r /\ e.detail[4] = m[k].version
            <4>1. PICK e \in CorpusEvidence(list[j]) : e.detail[2] = r /\ e.detail[4] = m[k].version
                BY <3>1
            <4>2. PICK i \in DOMAIN m : Covers(m[i], list[j])
                BY <1>5
            <4>3. i = k
                BY <1>5, <2>1, <4>2 DEF Covers, component_identity
            <4>4. PICK f \in m[k].evidence : Says(f, e)
                BY <4>2, <4>3 DEF CorpusEvidence, Covers
            <4>5. f \in CorpusEvidence(m[k]) /\ f.detail = e.detail
                BY <4>4 DEF Says, CorpusEvidence
            <4> QED BY <4>1, <4>5
        <3> QED BY <3>1, <3>2, <3>3
    <2> QED BY <2>3, <2>4
<1>13. ASSUME NEW k \in DOMAIN m, NEW e \in CorpusEvidence(m[k]),
              m[k].purl.version # {}, m[k].version # <<>>, e.detail[4] # <<>>, e.detail[4] # m[k].version
       PROVE  <<"kFingerprintVersionDisagreement", e.detail[2]>> \in warnings
    <2>1. PICK j \in DOMAIN list : list[j].purl = m[k].purl /\ e \in CorpusEvidence(list[j])
        BY <1>5 DEF CorpusEvidence
    <2>2. list[j].version = m[k].version
        BY <1>6, <1>13, <2>1
    <2>3. Item(list[j])
        BY <1>4
    <2>4. list[j].version # <<>> /\ e.detail[4] # list[j].version
        BY <1>13, <2>2
    <2> QED BY <1>13, <2>1, <2>3, <2>4 DEF Item
<1>14. VersionsAreGrounded'
    <2>1. \A r : FoundCommit(r)' <=> git'[r] \in {"commit", "origin"}
        BY DEF FoundCommit
    <2> QED BY <1>1, <1>3, <1>8, <1>12, <1>13, <2>1 DEF VersionsAreGrounded, Merged
<1>15. IsSequence(matches)' /\ (\A x \in ToSet(matches) : x.confidence \in Confidences)'
    BY <1>1 DEF IdentityInv, IsSequence
<1> QED BY <1>1, <1>2, <1>11, <1>14, <1>15 DEF IdentityInv

LEMMA NothingHolds == IdentityInv /\ UNCHANGED identity_vars => IdentityInv'
<1> SUFFICES ASSUME IdentityInv, UNCHANGED identity_vars PROVE IdentityInv'
    OBVIOUS
<1>1. /\ input' = input /\ components' = components /\ matches' = matches
      /\ warnings' = warnings /\ pc' = pc
    BY DEF identity_vars
<1>2. pc \notin {"parse", "merged"} => Assembled'
    BY <1>1, ListIsLeft DEF IdentityInv
<1>3. IsSequence(matches)' /\ (\A x \in ToSet(matches) : x.confidence \in Confidences)'
    BY <1>1 DEF IdentityInv, IsSequence
<1>4. /\ others' = others /\ Roots' = Roots
      /\ \A r : FoundCommit(r)' <=> FoundCommit(r)
      /\ \A r, v : Declares(r, v)' <=> Declares(r, v)
    BY <1>1, InputStays
<1>5. EveryFindingSurvives'
    BY <1>1, <1>4 DEF IdentityInv, EveryFindingSurvives, Merged
<1>6. git' = git
    BY <1>1 DEF git
<1>7. VersionsAreGrounded'
    BY <1>1, <1>4, <1>6 DEF IdentityInv, VersionsAreGrounded, Merged
<1> QED BY <1>1, <1>2, <1>3, <1>5, <1>7 DEF IdentityInv

LEMMA IdentityHolds == IdentitySpec => []IdentityInv
<1>1. IdentityInv /\ [IdentityNext]_identity_vars => IdentityInv'
    BY ParseHolds, LoadHolds, MatchHolds, DoneHolds, ApplyHolds, MergeHolds, NothingHolds DEF IdentityNext
<1> QED BY <1>1, InitHolds, PTL DEF IdentitySpec

\* Each vendored root, and each component of another producer with its evidence and its
\* scope, outlives the corpus and the merge of equal identities (merge_all).
THEOREM FindingsSurvive == IdentitySpec => []EveryFindingSurvives
<1>1. IdentityInv => EveryFindingSurvives
    BY DEF IdentityInv
<1> QED BY <1>1, IdentityHolds, PTL

\* A version is stated by the root's own files or was attributed where none was found,
\* and a release that differs is warned of (vendored_cpp::parse, apply_fingerprint_matches).
THEOREM NoVersionIsGuessed == IdentitySpec => []VersionsAreGrounded
<1>1. IdentityInv => VersionsAreGrounded
    BY DEF IdentityInv
<1> QED BY <1>1, IdentityHolds, PTL

------------------------------------------------------------------------------
(* The corpus: what is hashed under the budget. *)

Code == "kFingerprintFileBudgetReached"
BudgetWarned == \E w \in warnings : w[1] = Code

LEMMA JudgedAre ==
    ASSUME NEW S, NEW fs \in Seq(S)
    PROVE  /\ Judged(fs) \subseteq 1 .. Len(fs) /\ Judged(fs) \subseteq Nat /\ IsFiniteSet(Judged(fs))
           /\ Len(fs) \in Nat /\ DOMAIN fs = 1 .. Len(fs)
           /\ \A k : JudgedBefore(fs, k) \in Nat /\ IsFiniteSet({j \in Judged(fs) : j < k})
<1>1. Len(fs) \in Nat /\ DOMAIN fs = 1 .. Len(fs)
    BY LenProperties
<1>2. IsFiniteSet(1 .. Len(fs))
    BY <1>1, FS_Interval
<1>3. Judged(fs) \subseteq 1 .. Len(fs)
    BY <1>1 DEF Judged
<1>4. IsFiniteSet(Judged(fs))
    BY <1>2, <1>3, FS_Subset
<1>5. ASSUME NEW k PROVE JudgedBefore(fs, k) \in Nat /\ IsFiniteSet({j \in Judged(fs) : j < k})
    <2> DEFINE those == {j \in Judged(fs) : j < k}
    <2>1. those \subseteq Judged(fs)
        OBVIOUS
    <2>2. JudgedBefore(fs, k) = Cardinality(those)
        BY DEF JudgedBefore
    <2> HIDE DEF those
    <2>3. IsFiniteSet(those) /\ Cardinality(those) \in Nat
        BY <1>4, <2>1, FS_Subset, FS_CardinalityType
    <2> QED BY <2>2, <2>3 DEF those
<1>6. Judged(fs) \subseteq Nat
    BY <1>1, <1>3
<1> QED BY <1>1, <1>3, <1>4, <1>5, <1>6

\* A budget that is not met is none.
Whole(fs) == [k \in Judged(fs) |-> fs[k].content]

LEMMA AllAreHashed ==
    ASSUME NEW S, NEW fs \in Seq(S), NEW left \in Int, ~BudgetMet(fs, left)
    PROVE  Hashed(fs, left) = Whole(fs)
<1>1. ASSUME NEW k \in Judged(fs) PROVE JudgedBefore(fs, k) < left
    <2>1. k \in DOMAIN fs /\ JudgedBefore(fs, k) \in Nat
        BY JudgedAre DEF Judged
    <2> QED BY <2>1 DEF BudgetMet
<1>2. {j \in Judged(fs) : JudgedBefore(fs, j) < left} = Judged(fs)
    BY <1>1
<1> QED BY <1>2 DEF Hashed, Whole

LEMMA HashedAre ==
    ASSUME NEW S, NEW fs \in Seq(S), NEW left
    PROVE  /\ DOMAIN Hashed(fs, left) = {j \in Judged(fs) : JudgedBefore(fs, j) < left}
           /\ IsFiniteSet(DOMAIN Hashed(fs, left)) /\ Cardinality(DOMAIN Hashed(fs, left)) \in Nat
<1> DEFINE dom == {j \in Judged(fs) : JudgedBefore(fs, j) < left}
<1>1. DOMAIN Hashed(fs, left) = dom
    BY DEF Hashed
<1>2. dom \subseteq Judged(fs)
    OBVIOUS
<1> HIDE DEF dom
<1>3. IsFiniteSet(dom) /\ Cardinality(dom) \in Nat
    BY <1>2, JudgedAre, FS_Subset, FS_CardinalityType
<1> QED BY <1>1, <1>3 DEF dom

\* One that is met is spent.
LEMMA BudgetIsSpent ==
    ASSUME NEW S, NEW fs \in Seq(S), NEW left \in Int, BudgetMet(fs, left)
    PROVE  Cardinality(DOMAIN Hashed(fs, left)) >= left
<1> DEFINE met == {k \in DOMAIN fs : JudgedBefore(fs, k) >= left}
<1>1. met # {} /\ met \subseteq Nat
    BY JudgedAre DEF BudgetMet
<1>2. PICK k \in met : \A j \in met : ~(<<j, k>> \in OpToRel(<, Nat))
    <2>1. IsWellFoundedOn(OpToRel(<, Nat), Nat)
        BY NatLessThanWellFounded
    <2> HIDE DEF met
    <2> QED BY <1>1, <2>1, WFMin
<1> DEFINE before == {j \in Judged(fs) : j < k}
           dom == {j \in Judged(fs) : JudgedBefore(fs, j) < left}
<1>3. ASSUME NEW j \in before PROVE j \in dom
    <2>1. j \in DOMAIN fs /\ j \in Nat /\ k \in Nat /\ j < k
        BY <1>1, JudgedAre DEF Judged
    <2>2. <<j, k>> \in OpToRel(<, Nat)
        BY <2>1 DEF OpToRel
    <2>3. j \notin met
        BY <1>2, <2>2
    <2>4. JudgedBefore(fs, j) \in Nat
        BY JudgedAre
    <2> QED BY <2>1, <2>3, <2>4
<1>4. Cardinality(before) >= left /\ Cardinality(before) \in Nat
    BY <1>2, JudgedAre DEF JudgedBefore
<1>5. before \subseteq dom
    BY <1>3
<1>6. DOMAIN Hashed(fs, left) = dom /\ IsFiniteSet(dom) /\ Cardinality(dom) \in Nat
    BY HashedAre
<1> HIDE DEF before, dom
<1>7. Cardinality(before) <= Cardinality(dom)
    BY <1>5, <1>6, FS_Subset
<1> QED BY <1>4, <1>6, <1>7

\* No more are hashed than are left.
LEMMA WithinBudget ==
    ASSUME NEW S, NEW fs \in Seq(S), NEW left \in Nat
    PROVE  Cardinality(DOMAIN Hashed(fs, left)) <= left
<1> DEFINE dom == {j \in Judged(fs) : JudgedBefore(fs, j) < left}
           rank == [j \in dom |-> JudgedBefore(fs, j)]
<1>1. DOMAIN Hashed(fs, left) = dom
    BY HashedAre
<1>2. rank \in [dom -> 0 .. left - 1]
    <2>1. \A j \in dom : JudgedBefore(fs, j) \in 0 .. left - 1
        <3>1. \A j \in dom : JudgedBefore(fs, j) < left /\ JudgedBefore(fs, j) \in Nat
            BY JudgedAre
        <3> HIDE DEF dom
        <3> QED BY <3>1
    <2> HIDE DEF dom
    <2> QED BY <2>1
<1>3. ASSUME NEW i \in dom, NEW j \in dom, i < j PROVE rank[i] # rank[j]
    <2> DEFINE A == {l \in Judged(fs) : l < i}
               B == {l \in Judged(fs) : l < j}
    <2>1. i \in Judged(fs) /\ j \in Judged(fs) /\ \A l \in Judged(fs) : l \in Nat
        BY JudgedAre
    <2> HIDE DEF dom, rank
    <2>2. A \subseteq B /\ i \in B /\ i \notin A
        BY <1>3, <2>1
    <2>3. IsFiniteSet(B) /\ rank[i] = Cardinality(A) /\ rank[j] = Cardinality(B)
        BY JudgedAre DEF JudgedBefore, rank
    <2> HIDE DEF A, B
    <2>4. Cardinality(A) = Cardinality(B) => A = B
        BY <2>2, <2>3, FS_Subset
    <2> QED BY <2>2, <2>3, <2>4
<1>4. \A i, j \in dom : i # j => i < j \/ j < i
    BY JudgedAre
<1>5. rank \in Injection(dom, 0 .. left - 1)
    <2> HIDE DEF rank, dom
    <2>1. \A i, j \in dom : rank[i] = rank[j] => i = j
        BY <1>3, <1>4
    <2> QED BY <1>2, <2>1 DEF Injection, IsInjective
<1>6. IsFiniteSet(0 .. left - 1) /\ Cardinality(0 .. left - 1) = left
    BY FS_Interval
<1> HIDE DEF rank, dom
<1>7. Cardinality(dom) <= Cardinality(0 .. left - 1)
    BY <1>5, <1>6, FS_Injection
<1> QED BY <1>1, <1>6, <1>7

LEMMA ImageIsFinite ==
    ASSUME NEW S, IsFiniteSet(S), NEW f, f = [x \in S |-> f[x]]
    PROVE  IsFiniteSet({f[x] : x \in S})
<1> DEFINE T == {f[x] : x \in S}
<1>1. f \in [S -> T]
    OBVIOUS
<1>2. f \in Surjection(S, T)
    <2>1. \A t \in T : \E x \in S : f[x] = t
        OBVIOUS
    <2> HIDE DEF T
    <2> QED BY <1>1, <2>1 DEF Surjection
<1> HIDE DEF T
<1>3. IsFiniteSet(T)
    BY <1>2, FS_Surjection
<1> QED BY <1>3 DEF T

LEMMA MembersAreFinite == ASSUME NEW s, IsSequence(s) PROVE IsFiniteSet(DOMAIN s)
<1>1. Len(s) \in Nat /\ DOMAIN s = 1 .. Len(s)
    BY SequenceHas
<1>2. IsFiniteSet(1 .. Len(s))
    BY <1>1, FS_Interval
<1> QED BY <1>1, <1>2

------------------------------------------------------------------------------
(* What the index that is loaded says of a content. *)

Truthful(known) ==
    /\ IsFiniteSet(DOMAIN known.releases)
    /\ \A q \in DOMAIN known.releases :
          known.releases[q].library \in DOMAIN known.libraries /\ known.releases[q].file_count \in Nat \ {0}
    /\ \A content : \A q \in ReleasesOf(known, content) :
          content \in DOMAIN known.refs /\ q \in DOMAIN known.releases /\ content \in DigestsOf(q)

LEMMA NothingIsTruthful == Truthful(NoIndex)
<1>1. DOMAIN NoIndex.releases = {} /\ DOMAIN NoIndex.refs = {} /\ IsFiniteSet({})
    BY FS_EmptySet DEF NoIndex
<1>2. \A content : ReleasesOf(NoIndex, content) = {}
    BY <1>1 DEF ReleasesOf, releases_for_digest
<1> QED BY <1>1, <1>2 DEF Truthful

LEMMA FilesAreTrue ==
    ASSUME NEW given, NEW content \in DOMAIN load_files(given).refs, NEW q \in load_files(given).refs[content]
    PROVE  q \in DOMAIN given.releases /\ \E j \in DOMAIN given.files : given.files[j].digest = content /\ q \in given.files[j].releases
<1> DEFINE usable == {k \in DOMAIN given.files : IsUsable(given, given.files[k])}
           loaded == {k \in usable : Cardinality({j \in usable : j < k}) < MaxDigests}
           refs == [digest \in {given.files[k].digest : k \in loaded} |->
                       UNION {given.files[k].releases : k \in {j \in loaded : given.files[j].digest = digest}}]
<1>1. load_files(given).refs = refs
    BY DEF load_files
<1>2. loaded \subseteq usable
    OBVIOUS
<1>3. \A k \in usable : k \in DOMAIN given.files /\ given.files[k].releases \subseteq DOMAIN given.releases
    BY DEF IsUsable
<1> HIDE DEF usable, loaded
<1>4. q \in UNION {given.files[k].releases : k \in {j \in loaded : given.files[j].digest = content}}
    BY <1>1
<1>5. PICK k \in loaded : given.files[k].digest = content /\ q \in given.files[k].releases
    BY <1>4
<1> QED BY <1>2, <1>3, <1>5

LEMMA LoadedIsTruthful == ASSUME input \in Inputs PROVE Truthful(load_index(document).index)
<1>1. PICK given, known : given = document /\ known = load_index(given).index
    OBVIOUS
<1>2. /\ IsSequence(given.releases)
      /\ \A k \in DOMAIN given.releases : given.releases[k].file_count \in Nat
    BY <1>1, TreeAssumption DEF InputsAssumption, document
<1> DEFINE read == [libraries |-> given.libraries, releases |-> given.releases,
                    refs |-> load_files(given).refs, prefilter |-> load_prefilter(given)]
<1>3. known = NoIndex \/ (known = read /\ load_libraries(given) /\ load_releases(given))
    <2> DEFINE code == IF load_files(given).incomplete \/ "malformed" \in given.prefilter
                       THEN {"kFingerprintIndexEntrySkipped"} ELSE {}
    <2>1. CASE given.problem # "none" \/ given.schema_version # 1
        BY <1>1, <2>1 DEF load_index
    <2>2. CASE given.problem = "none" /\ given.schema_version = 1
        <3>1. load_index(given) = IF ~load_libraries(given) \/ ~load_releases(given)
                                  THEN [index |-> NoIndex, warnings |-> {"kFingerprintIndexUnreadable"}]
                                  ELSE [index |-> read, warnings |-> code]
            BY <2>2 DEF load_index
        <3> HIDE DEF read, code
        <3> QED BY <1>1, <3>1
    <2> QED BY <2>1, <2>2
<1>4. CASE known = NoIndex
    BY <1>1, <1>4, NothingIsTruthful
<1>5. CASE known = read /\ load_releases(given)
    <2>1. known.releases = given.releases /\ known.libraries = given.libraries /\ known.refs = load_files(given).refs
        BY <1>5
    <2>2. IsFiniteSet(DOMAIN known.releases)
        BY <1>2, <2>1, MembersAreFinite
    <2>3. \A q \in DOMAIN known.releases :
              known.releases[q].library \in DOMAIN known.libraries /\ known.releases[q].file_count \in Nat \ {0}
        BY <1>2, <1>5, <2>1 DEF load_releases
    <2>4. ASSUME NEW content, NEW q \in ReleasesOf(known, content)
          PROVE  content \in DOMAIN known.refs /\ q \in DOMAIN known.releases /\ content \in DigestsOf(q)
        <3>1. content \in DOMAIN known.refs /\ q \in known.refs[content]
            BY <2>4 DEF ReleasesOf, releases_for_digest
        <3>2. /\ q \in DOMAIN given.releases
              /\ \E j \in DOMAIN given.files : given.files[j].digest = content /\ q \in given.files[j].releases
            BY <2>1, <3>1, FilesAreTrue
        <3> QED BY <1>1, <2>1, <3>1, <3>2 DEF DigestsOf
    <2> QED BY <1>1, <2>2, <2>3, <2>4 DEF Truthful
<1> QED BY <1>3, <1>4, <1>5

LEMMA DigestsAreFinite == ASSUME input \in Inputs, NEW q PROVE IsFiniteSet(DigestsOf(q))
<1> DEFINE having == {j \in DOMAIN document.files : q \in document.files[j].releases}
           digest == [j \in having |-> document.files[j].digest]
<1>1. IsFiniteSet(DOMAIN document.files)
    BY TreeAssumption, MembersAreFinite DEF InputsAssumption, document
<1>2. having \subseteq DOMAIN document.files
    OBVIOUS
<1>3. IsFiniteSet(having)
    <2> HIDE DEF having
    <2> QED BY <1>1, <1>2, FS_Subset
<1>4. DigestsOf(q) = {digest[j] : j \in having}
    BY DEF DigestsOf
<1>5. digest = [j \in having |-> digest[j]]
    OBVIOUS
<1> HIDE DEF digest, having
<1> QED BY <1>3, <1>4, <1>5, ImageIsFinite

------------------------------------------------------------------------------
(* What a match says of a root. *)

OneOf(known, hashed, l) == CHOOSE q \in best_releases(known, hashed, l) : TRUE
VersionsOf(known, hashed, l) == {known.releases[q].version : q \in best_releases(known, hashed, l)}
IsUnique(known, hashed, l) == Cardinality(VersionsOf(known, hashed, l)) = 1

MatchOf(known, root, hashed, l) ==
    LET one == OneOf(known, hashed, l)
        matched == MatchedByRelease(known, hashed, one)
        unique == IsUnique(known, hashed, l)
    IN [root |-> root, library |-> known.libraries[l], license |-> "Zlib", matched |-> matched,
        version |-> IF unique THEN known.releases[one].version ELSE <<>>,
        candidates |-> IF unique THEN {} ELSE VersionsOf(known, hashed, l),
        confidence |-> confidence_for(matched, Cardinality(DOMAIN hashed), known.releases[one].file_count, unique)]

LEMMA MatchRootIs ==
    ASSUME NEW known, NEW root, NEW hashed
    PROVE  match_root(known, root, hashed) =
               {m \in {MatchOf(known, root, hashed, l) : l \in best_library(known, hashed)} :
                   8 * m.matched >= Cardinality(DOMAIN hashed)}
BY DEF match_root, MatchOf, OneOf, VersionsOf, IsUnique

LEMMA MatchOfIs ==
    ASSUME NEW known, NEW root, NEW hashed, NEW l, NEW m, m = MatchOf(known, root, hashed, l)
    PROVE  LET one == OneOf(known, hashed, l)
               matched == MatchedByRelease(known, hashed, one)
               unique == IsUnique(known, hashed, l)
           IN /\ m.root = root /\ m.library = known.libraries[l] /\ m.matched = matched
              /\ m.version = IF unique THEN known.releases[one].version ELSE <<>>
              /\ m.confidence = confidence_for(matched, Cardinality(DOMAIN hashed), known.releases[one].file_count, unique)
<1>1. PICK one, matched, unique, considered, count, version, candidates, confidence :
          /\ one = OneOf(known, hashed, l) /\ matched = MatchedByRelease(known, hashed, one)
          /\ unique = IsUnique(known, hashed, l) /\ considered = Cardinality(DOMAIN hashed)
          /\ count = known.releases[one].file_count
          /\ version = IF unique THEN known.releases[one].version ELSE <<>>
          /\ candidates = IF unique THEN {} ELSE VersionsOf(known, hashed, l)
          /\ confidence = confidence_for(matched, considered, count, unique)
    OBVIOUS
<1>2. m = [root |-> root, library |-> known.libraries[l], license |-> "Zlib", matched |-> matched,
           version |-> version, candidates |-> candidates, confidence |-> confidence]
    BY <1>1 DEF MatchOf
<1>3. /\ m.root = root /\ m.library = known.libraries[l] /\ m.matched = matched
      /\ m.version = version /\ m.confidence = confidence
    BY <1>2
<1> QED BY <1>1, <1>3

LEMMA BestAre ==
    ASSUME NEW known, NEW hashed, NEW l, NEW q \in best_releases(known, hashed, l)
    PROVE  q \in DOMAIN known.releases /\ known.releases[q].library = l
BY DEF best_releases

\* "High" is given to a version of which there is one.
LEMMA HighIs ==
    ASSUME NEW known, NEW root, NEW hashed, NEW m \in match_root(known, root, hashed), m.confidence = "High"
    PROVE  /\ m.root = root
           /\ \E q \in DOMAIN known.releases :
                 /\ known.libraries[known.releases[q].library] = m.library
                 /\ known.releases[q].version = m.version
                 /\ MatchedByRelease(known, hashed, q) >= 3
                 /\ 4 * MatchedByRelease(known, hashed, q) >= 3 * Cardinality(DOMAIN hashed)
<1>1. PICK l \in best_library(known, hashed) : m = MatchOf(known, root, hashed, l)
    BY MatchRootIs
<1>2. PICK one, matched, considered, count, unique :
          /\ one = OneOf(known, hashed, l) /\ matched = MatchedByRelease(known, hashed, one)
          /\ unique = IsUnique(known, hashed, l)
          /\ considered = Cardinality(DOMAIN hashed) /\ count = known.releases[one].file_count
    OBVIOUS
<1>3. /\ m.root = root /\ m.library = known.libraries[l]
      /\ m.version = IF unique THEN known.releases[one].version ELSE <<>>
      /\ m.confidence = confidence_for(matched, considered, count, unique)
    BY <1>1, <1>2, MatchOfIs
<1>4. unique /\ matched >= 3 /\ 4 * matched >= 3 * considered
    <2>1. CASE ~unique
        BY <1>3, <2>1 DEF confidence_for
    <2>2. CASE unique
        <3> DEFINE explains == matched >= 3 /\ 4 * matched >= 3 * considered /\ 2 * matched >= count
        <3>1. confidence_for(matched, considered, count, unique) = IF explains THEN "High" ELSE "Medium"
            BY <2>2 DEF confidence_for
        <3> HIDE DEF explains
        <3>2. explains
            BY <1>3, <3>1
        <3> QED BY <2>2, <3>2 DEF explains
    <2> QED BY <2>1, <2>2
<1>5. best_releases(known, hashed, l) # {}
    <2>1. SUFFICES ASSUME best_releases(known, hashed, l) = {} PROVE FALSE
        OBVIOUS
    <2>2. VersionsOf(known, hashed, l) = {}
        BY <2>1 DEF VersionsOf
    <2>3. Cardinality(VersionsOf(known, hashed, l)) = 1
        BY <1>2, <1>4 DEF IsUnique
    <2>4. Cardinality({}) = 0
        BY FS_EmptySet
    <2> QED BY <2>2, <2>3, <2>4
<1>6. one \in best_releases(known, hashed, l)
    BY <1>2, <1>5 DEF OneOf
<1>7. one \in DOMAIN known.releases /\ known.releases[one].library = l
    BY <1>6, BestAre
<1> QED BY <1>2, <1>3, <1>4, <1>7

LEMMA HighIsEarned ==
    ASSUME Truthful(index), NEW S, NEW root, FilesUnder(root) \in Seq(S),
           NEW m \in match_root(index, root, Whole(FilesUnder(root))), m.confidence = "High"
    PROVE  m.root = root /\ Explained(root, m.library, m.version)
<1> DEFINE fs == FilesUnder(root)
           release == {q \in DOMAIN index.releases :
                          /\ index.libraries[index.releases[q].library] = m.library
                          /\ index.releases[q].version = m.version}
           explained == {k \in Judged(fs) : \E q \in release : fs[k].content \in DigestsOf(q)}
<1>1. DOMAIN Whole(fs) = Judged(fs) /\ \A k \in Judged(fs) : Whole(fs)[k] = fs[k].content
    BY DEF Whole
<1>2. PICK q \in release : /\ MatchedByRelease(index, Whole(fs), q) >= 3
                           /\ 4 * MatchedByRelease(index, Whole(fs), q) >= 3 * Cardinality(Judged(fs))
    BY <1>1, HighIs
<1> DEFINE those == {k \in Judged(fs) : q \in ReleasesOf(index, Whole(fs)[k])}
<1>3. MatchedByRelease(index, Whole(fs), q) = Cardinality(those)
    BY <1>1 DEF MatchedByRelease
<1>4. those \subseteq explained
    BY <1>1, <1>2 DEF Truthful
<1>5. explained \subseteq Judged(fs) /\ IsFiniteSet(Judged(fs))
    BY JudgedAre
<1>6. Explained(root, m.library, m.version) <=>
          Cardinality(explained) >= 3 /\ 4 * Cardinality(explained) >= 3 * Cardinality(Judged(fs))
    BY DEF Explained
<1> HIDE DEF those, explained, fs
<1>7. /\ Cardinality(those) <= Cardinality(explained)
      /\ Cardinality(those) \in Nat /\ Cardinality(explained) \in Nat /\ Cardinality(Judged(fs)) \in Nat
    BY <1>4, <1>5, FS_Subset, FS_CardinalityType
<1>8. m.root = root
    BY HighIs
<1> QED BY <1>2, <1>3, <1>6, <1>7, <1>8

------------------------------------------------------------------------------
(* An unmodified copy is found. *)

LibraryOf(r) == index.libraries[index.releases[r].library]
Copies(root) ==
    {r \in DOMAIN index.releases : IsCopy(root, r) /\ IsOfOne(root, index.releases[r].library)}
Counts == \A q \in DOMAIN index.releases : Cardinality(DigestsOf(q)) <= index.releases[q].file_count
Names(library, version, r) == library = LibraryOf(r) /\ HasVersionOf(version, r)

\* What a copy has that no other library does.
LEMMA CopyHas ==
    ASSUME input \in Inputs, Truthful(index), NEW S, NEW root, FilesUnder(root) \in Seq(S), NEW r \in Copies(root),
           NEW hashed, hashed = Whole(FilesUnder(root)), NEW N, N = Cardinality(DOMAIN hashed)
    PROVE  /\ N \in Nat \ {0} /\ IsFiniteSet(DOMAIN hashed) /\ IsFiniteSet(Contents(root))
           /\ Contents(root) = {hashed[k] : k \in DOMAIN hashed}
           /\ MatchedByRelease(index, hashed, r) = N
           /\ \A q : /\ MatchedByRelease(index, hashed, q) \in 0 .. N
                     /\ MatchedByRelease(index, hashed, q) = N => Contents(root) \subseteq DigestsOf(q)
           /\ best_library(index, hashed) = {index.releases[r].library}
<1> DEFINE lib == index.releases[r].library
<1>1. /\ DOMAIN hashed = Judged(FilesUnder(root)) /\ \A k \in DOMAIN hashed : hashed[k] = FilesUnder(root)[k].content
      /\ hashed = [k \in DOMAIN hashed |-> hashed[k]]
    BY DEF Whole
<1>2. Contents(root) = {hashed[k] : k \in DOMAIN hashed}
    BY <1>1 DEF Contents
<1>3. IsFiniteSet(DOMAIN hashed) /\ N \in Nat
    BY <1>1, JudgedAre, FS_CardinalityType
<1>4. IsFiniteSet(Contents(root))
    BY <1>1, <1>2, <1>3, ImageIsFinite
<1>5. /\ r \in DOMAIN index.releases /\ IsCopy(root, r) /\ IsOfOne(root, lib)
      /\ lib \in DOMAIN index.libraries /\ index.releases[r].file_count \in Nat \ {0}
    BY DEF Copies, Truthful
<1>6. N # 0
    <2>1. SUFFICES ASSUME N = 0 PROVE FALSE
        OBVIOUS
    <2>2. DOMAIN hashed = {}
        BY <1>3, <2>1, FS_EmptySet
    <2>3. Contents(root) = {} /\ Cardinality({}) = 0
        BY <1>2, <2>2, FS_EmptySet
    <2> QED BY <1>5, <2>3 DEF IsCopy
<1>7. ASSUME NEW T, T \subseteq DOMAIN hashed
      PROVE  Cardinality(T) \in 0 .. N /\ (Cardinality(T) = N => T = DOMAIN hashed)
    <2>1. IsFiniteSet(T) /\ Cardinality(T) <= N /\ (Cardinality(T) = N => T = DOMAIN hashed)
        BY <1>3, <1>7, FS_Subset
    <2>2. Cardinality(T) \in Nat
        BY <2>1, FS_CardinalityType
    <2> QED BY <1>3, <2>1, <2>2
<1>8. MatchedByRelease(index, hashed, r) = N
    <2>1. {k \in DOMAIN hashed : r \in ReleasesOf(index, hashed[k])} = DOMAIN hashed
        BY <1>2, <1>5 DEF IsCopy
    <2> QED BY <2>1 DEF MatchedByRelease
<1>9. ASSUME NEW q
      PROVE  /\ MatchedByRelease(index, hashed, q) \in 0 .. N
             /\ MatchedByRelease(index, hashed, q) = N => Contents(root) \subseteq DigestsOf(q)
    <2> DEFINE T == {k \in DOMAIN hashed : q \in ReleasesOf(index, hashed[k])}
    <2>1. T \subseteq DOMAIN hashed /\ MatchedByRelease(index, hashed, q) = Cardinality(T)
        BY DEF MatchedByRelease
    <2>2. T = DOMAIN hashed => Contents(root) \subseteq DigestsOf(q)
        BY <1>2 DEF Truthful
    <2> HIDE DEF T
    <2> QED BY <1>7, <2>1, <2>2
<1>10. MatchedByLibrary(index, hashed, lib) = N
    <2>1. {k \in DOMAIN hashed : lib \in LibrariesOf(index, hashed[k])} = DOMAIN hashed
        BY <1>2, <1>5 DEF IsCopy, LibrariesOf
    <2> QED BY <2>1 DEF MatchedByLibrary
<1>11. ASSUME NEW l \in DOMAIN index.libraries, l # lib
       PROVE  MatchedByLibrary(index, hashed, l) \in 0 .. N /\ MatchedByLibrary(index, hashed, l) # N
    <2> DEFINE T == {k \in DOMAIN hashed : l \in LibrariesOf(index, hashed[k])}
    <2>1. T \subseteq DOMAIN hashed /\ MatchedByLibrary(index, hashed, l) = Cardinality(T)
        BY DEF MatchedByLibrary
    <2>2. PICK content \in Contents(root) :
              \A q \in DOMAIN index.releases : index.releases[q].library = l => content \notin DigestsOf(q)
        BY <1>5, <1>11 DEF IsOfOne
    <2>3. PICK k \in DOMAIN hashed : hashed[k] = content
        BY <1>2, <2>2
    <2>4. l \notin LibrariesOf(index, content)
        BY <2>2 DEF LibrariesOf, Truthful
    <2>5. k \notin T
        BY <2>3, <2>4
    <2> HIDE DEF T
    <2> QED BY <1>7, <2>1, <2>3, <2>5
<1>12. best_library(index, hashed) = {lib}
    <2> DEFINE Matched(l) == MatchedByLibrary(index, hashed, l)
               most == {l \in DOMAIN index.libraries : Matched(l) > 0
                           /\ \A k \in DOMAIN index.libraries : Matched(k) <= Matched(l)}
    <2>1. lib \in most
        <3>1. \A k \in DOMAIN index.libraries : Matched(k) \in 0 .. N
            BY <1>3, <1>10, <1>11
        <3>2. Matched(lib) = N
            BY <1>10
        <3> HIDE DEF Matched, lib
        <3>3. Matched(lib) > 0 /\ \A k \in DOMAIN index.libraries : Matched(k) <= Matched(lib)
            BY <1>3, <1>6, <3>1, <3>2
        <3>4. lib \in DOMAIN index.libraries
            BY <1>5 DEF lib
        <3> QED BY <3>3, <3>4
    <2>2. ASSUME NEW l \in most, l # lib PROVE FALSE
        <3>1. Matched(l) \in 0 .. N /\ Matched(l) # N /\ Matched(lib) = N
            BY <1>10, <1>11, <2>2
        <3>2. Matched(lib) <= Matched(l)
            BY <1>5, <2>2
        <3> HIDE DEF Matched, lib
        <3> QED BY <1>3, <3>1, <3>2
    <2>3. most = {lib}
        <3> HIDE DEF most, lib
        <3> QED BY <2>1, <2>2
    <2>4. best_library(index, hashed) = {l \in most : \A k \in most \ {l} : Before(index, l, k)}
        BY DEF best_library
    <2> HIDE DEF most, lib
    <2> QED BY <2>3, <2>4
<1> QED BY <1>2, <1>3, <1>4, <1>6, <1>8, <1>9, <1>12

\* Of the releases of its library those are best that are made of the same files.
LEMMA CopyIsBest ==
    ASSUME input \in Inputs, Truthful(index), Counts,
           NEW S, NEW root, FilesUnder(root) \in Seq(S), NEW r \in Copies(root),
           NEW hashed, hashed = Whole(FilesUnder(root)), NEW N, N = Cardinality(DOMAIN hashed),
           NEW best, best = best_releases(index, hashed, index.releases[r].library)
    PROVE  /\ r \in best
           /\ \A q \in best : /\ q \in DOMAIN index.releases /\ DigestsOf(q) = DigestsOf(r)
                              /\ MatchedByRelease(index, hashed, q) = N
<1> DEFINE lib == index.releases[r].library
           Matched(q) == MatchedByRelease(index, hashed, q)
           size(q) == index.releases[q].file_count
           Better(p, q) == Matched(p) > Matched(q) \/ (Matched(p) = Matched(q) /\ size(p) < size(q))
           own == {q \in DOMAIN index.releases : index.releases[q].library = lib /\ Matched(q) > 0}
<1>1. best = {q \in own : ~\E p \in own : Better(p, q)}
    BY DEF best_releases
<1>2. /\ N \in Nat \ {0} /\ IsFiniteSet(Contents(root)) /\ Matched(r) = N
      /\ \A q : Matched(q) \in 0 .. N /\ (Matched(q) = N => Contents(root) \subseteq DigestsOf(q))
    BY CopyHas
<1>3. /\ r \in DOMAIN index.releases /\ Contents(root) = DigestsOf(r) /\ size(r) = Cardinality(Contents(root))
      /\ \A q \in DOMAIN index.releases : size(q) \in Nat /\ Cardinality(DigestsOf(q)) <= size(q)
    BY DEF Copies, IsCopy, Truthful, Counts
<1> HIDE DEF Matched, size
<1>4. r \in own
    BY <1>2, <1>3
<1>5. ASSUME NEW q \in own, Matched(q) = N
      PROVE  /\ size(r) <= size(q) /\ (size(q) <= size(r) => DigestsOf(q) = DigestsOf(r))
    <2>1. q \in DOMAIN index.releases /\ Contents(root) \subseteq DigestsOf(q)
        BY <1>2, <1>5
    <2>2. /\ IsFiniteSet(DigestsOf(q)) /\ Cardinality(DigestsOf(q)) \in Nat /\ Cardinality(Contents(root)) \in Nat
          /\ Cardinality(Contents(root)) <= Cardinality(DigestsOf(q))
          /\ Cardinality(Contents(root)) = Cardinality(DigestsOf(q)) => Contents(root) = DigestsOf(q)
        BY <1>2, <2>1, DigestsAreFinite, FS_Subset, FS_CardinalityType
    <2>3. size(q) \in Nat /\ Cardinality(DigestsOf(q)) <= size(q) /\ size(r) = Cardinality(Contents(root))
        BY <1>3, <2>1
    <2> HIDE DEF own
    <2>4. size(r) <= size(q)
        BY <2>2, <2>3
    <2>5. ASSUME size(q) <= size(r) PROVE Cardinality(Contents(root)) = Cardinality(DigestsOf(q))
        BY <2>2, <2>3, <2>5
    <2> QED BY <1>3, <2>2, <2>4, <2>5
<1>6. \A q \in own : Matched(q) \in 0 .. N /\ size(q) \in Nat
    BY <1>2, <1>3
<1> HIDE DEF own
<1>7. ASSUME NEW p \in own, Better(p, r) PROVE FALSE
    BY <1>2, <1>4, <1>5, <1>6, <1>7
<1>8. ASSUME NEW q \in own, ~Better(r, q) PROVE Matched(q) = N /\ DigestsOf(q) = DigestsOf(r)
    <2>1. Matched(q) = N
        BY <1>2, <1>6, <1>8
    <2>2. size(q) <= size(r)
        BY <1>2, <1>4, <1>6, <1>8, <2>1
    <2> QED BY <1>5, <2>1, <2>2
<1> HIDE DEF Better
<1>9. ASSUME NEW q \in best PROVE q \in own /\ ~Better(r, q)
    BY <1>1, <1>4
<1>10. \A q \in own : q \in DOMAIN index.releases
    BY DEF own
<1> QED BY <1>1, <1>4, <1>7, <1>8, <1>9, <1>10 DEF Matched

\* A root that is a copy of a release is given its name, and its version or none.
LEMMA CopyIsNamed ==
    ASSUME input \in Inputs, Truthful(index), Counts,
           NEW S, NEW root, FilesUnder(root) \in Seq(S), NEW r \in Copies(root)
    PROVE  /\ match_root(index, root, Whole(FilesUnder(root))) # {}
           /\ \A m \in match_root(index, root, Whole(FilesUnder(root))) : m.root = root /\ Names(m.library, m.version, r)
<1>1. PICK hashed, N, lib, best :
          /\ hashed = Whole(FilesUnder(root)) /\ N = Cardinality(DOMAIN hashed)
          /\ lib = index.releases[r].library /\ best = best_releases(index, hashed, lib)
    OBVIOUS
<1>2. N \in Nat \ {0} /\ best_library(index, hashed) = {lib}
    BY <1>1, CopyHas
<1>3. /\ r \in best
      /\ \A q \in best : /\ q \in DOMAIN index.releases /\ DigestsOf(q) = DigestsOf(r)
                         /\ MatchedByRelease(index, hashed, q) = N
    BY <1>1, CopyIsBest
<1>4. PICK one, m, unique : /\ one = OneOf(index, hashed, lib) /\ m = MatchOf(index, root, hashed, lib)
                            /\ unique = IsUnique(index, hashed, lib)
    OBVIOUS
<1>5. one \in best
    BY <1>1, <1>3, <1>4 DEF OneOf
<1>6. /\ m.root = root /\ m.library = index.libraries[lib] /\ m.matched = N
      /\ m.version = IF unique THEN index.releases[one].version ELSE <<>>
    BY <1>3, <1>4, <1>5, MatchOfIs
<1>7. match_root(index, root, hashed) = {m}
    <2>1. match_root(index, root, hashed) = {x \in {m} : 8 * x.matched >= N}
        BY <1>1, <1>2, <1>4, MatchRootIs
    <2>2. 8 * m.matched >= N
        BY <1>2, <1>6
    <2> QED BY <2>1, <2>2
<1> DEFINE versions == {index.releases[q].version : q \in best}
<1>8. unique <=> Cardinality(versions) = 1
    BY <1>1, <1>4 DEF IsUnique, VersionsOf
<1>9. IsFiniteSet(versions)
    <2>1. best \subseteq DOMAIN index.releases /\ IsFiniteSet(DOMAIN index.releases)
        BY <1>3 DEF Truthful
    <2>2. IsFiniteSet(best)
        BY <2>1, FS_Subset
    <2> DEFINE version == [q \in best |-> index.releases[q].version]
    <2>3. versions = {version[q] : q \in best} /\ version = [q \in best |-> version[q]]
        OBVIOUS
    <2> HIDE DEF version, versions
    <2> QED BY <2>2, <2>3, ImageIsFinite
<1>10. HasVersionOf(m.version, r)
    <2>1. CASE unique
        <3>1. PICK v : versions = {v}
            <4> HIDE DEF versions
            <4> QED BY <1>8, <1>9, <2>1, FS_Singleton
        <3>2. index.releases[one].version = v /\ index.releases[r].version = v
            BY <1>3, <1>5, <3>1
        <3> QED BY <1>6, <2>1, <3>2 DEF HasVersionOf
    <2>2. CASE ~unique
        <3>1. ASSUME best = {r} PROVE FALSE
            <4>1. versions = {index.releases[r].version}
                BY <3>1
            <4> HIDE DEF versions
            <4> QED BY <1>8, <2>2, <4>1, FS_Singleton
        <3>2. \E q \in best : q # r
            BY <1>3, <3>1
        <3> QED BY <1>3, <1>6, <2>2, <3>2 DEF HasVersionOf
    <2> QED BY <2>1, <2>2
<1>11. Names(m.library, m.version, r)
    BY <1>1, <1>6, <1>10 DEF Names, LibraryOf
<1> QED BY <1>1, <1>6, <1>7, <1>11

------------------------------------------------------------------------------
(* What the corpus says, from its index to the merged list. *)

\* What is known of a component that stands for a root: from its files or its folder,
\* or what the corpus makes of it.
Plain(c, root) == Cites(c, "header", root) \/ FoundCommit(root) \/ identity_is_folder_derived(c)
Known(c, root) ==
    Cites(c, "header", root) \/ FoundCommit(root) \/ \A r \in Copies(root) : Names(c.purl.name, c.version, r)

\* A root that is still to be matched, and one whose match is still to be applied.
Waits(root) == pc = "match" /\ \E i \in next .. Len(Roots) : Roots[i] = root
Awaited(root) == pc \in {"match", "apply"} /\ \E m \in ToSet(matches) : m.root = root

\* With the whole budget, a copy is known from when its match is applied.
Proper ==
    /\ \A m \in ToSet(matches) : \A r \in Copies(m.root) : Names(m.library, m.version, r)
    /\ pc \in {"match", "apply", "merge"} => \A root \in ToSet(Roots) :
          /\ \A c \in Merged : Cites(c, "directory", root) => Plain(c, root) \/ Known(c, root)
          /\ \/ Waits(root) \/ Awaited(root)
             \/ \A c \in Merged : Cites(c, "directory", root) => Known(c, root)

Earned(m) == m.confidence = "High" /\ ~CutShort(m.root) => Explained(m.root, m.library, m.version)

ClaimsInv ==
    /\ IdentityTypeOK
    /\ Truthful(index)
    /\ pc \in {"parse", "load"} => next = 1 /\ matches = <<>>
    /\ pc = "match" /\ BudgetWarned => hashed_files = budget
    /\ \A m \in ToSet(matches) : Earned(m)
    /\ HighExplainsTheRoot
    /\ pc = "load" => \A c \in Merged :
          CorpusEvidence(c) = {} /\ \A root \in ToSet(Roots) : Cites(c, "directory", root) => Plain(c, root)
    /\ ~BudgetWarned /\ Counts => Proper
    /\ pc = "merged" => PristineIsNamed

\* Nothing changes what the index and the tree say of each other.
LEMMA TreeStays ==
    ASSUME input' = input
    PROVE  /\ budget' = budget /\ document' = document /\ git' = git /\ Roots' = Roots
           /\ \A root : FilesUnder(root)' = FilesUnder(root) /\ Contents(root)' = Contents(root)
           /\ \A q : DigestsOf(q)' = DigestsOf(q)
           /\ \A c, root : Plain(c, root)' <=> Plain(c, root)
<1>1. budget' = budget /\ document' = document /\ git' = git /\ Roots' = Roots
    BY InputStays DEF budget, document, git
<1>2. ASSUME NEW root PROVE FilesUnder(root)' = FilesUnder(root)
    BY DEF FilesUnder, tree
<1>3. ASSUME NEW root PROVE Contents(root)' = Contents(root)
    BY <1>2 DEF Contents
<1>4. ASSUME NEW q PROVE DigestsOf(q)' = DigestsOf(q)
    BY <1>1 DEF DigestsOf
<1>5. ASSUME NEW c, NEW root PROVE Plain(c, root)' <=> Plain(c, root)
    BY InputStays DEF Plain
<1> QED BY <1>1, <1>2, <1>3, <1>4, <1>5

LEMMA CorpusStays ==
    ASSUME input' = input, index' = index
    PROVE  /\ Truthful(index)' <=> Truthful(index)
           /\ Counts' <=> Counts
           /\ \A root : Copies(root)' = Copies(root)
           /\ \A root, r : IsCopy(root, r)' <=> IsCopy(root, r)
           /\ \A library, version, r : Names(library, version, r)' <=> Names(library, version, r)
           /\ \A root, library, version : Explained(root, library, version)' <=> Explained(root, library, version)
           /\ \A c, root : Known(c, root)' <=> Known(c, root)
<1>1. Truthful(index)' <=> Truthful(index)
    BY TreeStays DEF Truthful
<1>2. Counts' <=> Counts
    BY TreeStays DEF Counts
<1>3. ASSUME NEW root, NEW r PROVE IsCopy(root, r)' <=> IsCopy(root, r)
    BY TreeStays DEF IsCopy
<1>4. ASSUME NEW root, NEW l PROVE IsOfOne(root, l)' <=> IsOfOne(root, l)
    BY TreeStays DEF IsOfOne
<1>5. ASSUME NEW root PROVE Copies(root)' = Copies(root)
    BY <1>3, <1>4 DEF Copies
<1>6. ASSUME NEW version, NEW r PROVE HasVersionOf(version, r)' <=> HasVersionOf(version, r)
    BY TreeStays DEF HasVersionOf
<1>7. ASSUME NEW library, NEW version, NEW r PROVE Names(library, version, r)' <=> Names(library, version, r)
    BY <1>6 DEF Names, LibraryOf
<1>8. ASSUME NEW root, NEW library, NEW version
      PROVE  Explained(root, library, version)' <=> Explained(root, library, version)
    BY TreeStays DEF Explained
<1>9. ASSUME NEW c, NEW root PROVE Known(c, root)' <=> Known(c, root)
    BY <1>5, <1>7, InputStays DEF Known
<1> QED BY <1>1, <1>2, <1>3, <1>5, <1>7, <1>8, <1>9

\* What a warning excuses stays excused.
LEMMA EarnedStays ==
    ASSUME input' = input, index' = index, warnings \subseteq warnings'
    PROVE  /\ \A m : Earned(m) => Earned(m)'
           /\ \A root : CutShort(root) => CutShort(root)'
           /\ BudgetWarned => BudgetWarned'
<1>1. \A root : CutShort(root) => CutShort(root)'
    BY DEF CutShort
<1>2. BudgetWarned => BudgetWarned'
    BY DEF BudgetWarned
<1> QED BY <1>1, <1>2, CorpusStays DEF Earned

\* An index without files knows no copies.
KnowsNone == Truthful(index) /\ DOMAIN index.refs = {} => \A root : Copies(root) = {}

LEMMA NoCopies == KnowsNone
<1>1. SUFFICES ASSUME Truthful(index), DOMAIN index.refs = {}, NEW root, NEW r \in Copies(root) PROVE FALSE
    BY DEF KnowsNone
<1>2. /\ index.releases[r].file_count \in Nat \ {0} /\ index.releases[r].file_count = Cardinality(Contents(root))
      /\ \A content \in Contents(root) : r \in ReleasesOf(index, content)
    BY <1>1 DEF Copies, IsCopy, Truthful
<1>3. Contents(root) = {}
    BY <1>1, <1>2 DEF Truthful
<1>4. Cardinality({}) = 0
    BY FS_EmptySet
<1> QED BY <1>2, <1>3, <1>4

LEMMA ClaimsInit == IdentityInit => ClaimsInv
<1> SUFFICES ASSUME IdentityInit PROVE ClaimsInv
    OBVIOUS
<1>1. /\ input \in Inputs /\ components = <<>> /\ index = NoIndex /\ next = 1 /\ hashed_files = 0
      /\ matches = <<>> /\ warnings = {} /\ pc = "parse"
    BY DEF IdentityInit
<1>2. Merged = {} /\ ToSet(matches) = {}
    BY <1>1 DEF Merged, ToSet
<1>3. budget \in Nat /\ Len(Roots) \in Nat
    <2>1. Len(Roots) \in Nat
        BY RootsAreListed, LenProperties
    <2> QED BY <1>1, <2>1, TreeAssumption DEF InputsAssumption, budget
<1>4. IdentityTypeOK
    BY <1>1, <1>2, <1>3 DEF IdentityTypeOK
<1>5. Truthful(index)
    BY <1>1, NothingIsTruthful
<1>6. HighExplainsTheRoot
    BY <1>2 DEF HighExplainsTheRoot
<1>7. Proper
    BY <1>1, <1>2 DEF Proper
<1> QED BY <1>1, <1>2, <1>4, <1>5, <1>6, <1>7 DEF ClaimsInv

LEMMA TypeStays ==
    ASSUME input' = input, hashed_files' \in 0 .. budget, next' \in 1 .. Len(Roots) + 1,
           pc' \in {"load", "match", "apply", "merge"}, Assembled'
    PROVE  IdentityTypeOK'
<1>1. \A k \in DOMAIN components' : IsComponent(components'[k])
    BY DEF Assembled, Item
<1>2. \A c \in Merged' : IsComponent(c)
    BY <1>1 DEF Merged
<1>3. budget' = budget /\ Roots' = Roots
    BY TreeStays
<1> QED BY <1>2, <1>3 DEF IdentityTypeOK

LEMMA ParseClaims == IdentityInv /\ IdentityInv' /\ ClaimsInv /\ Parse => ClaimsInv'
<1> SUFFICES ASSUME IdentityInv, IdentityInv', ClaimsInv, Parse PROVE ClaimsInv'
    OBVIOUS
<1>1. /\ input \in Inputs /\ input' = input /\ index' = index /\ next' = next /\ hashed_files' = hashed_files
      /\ matches' = matches /\ warnings' = warnings /\ pc = "parse" /\ pc' = "load" /\ warnings = {}
    BY DEF Parse, IdentityInv
<1>2. PICK order \in {Roots, Reverse(Roots)} :
          components' = others \o [k \in DOMAIN order |->
                                      build_component(order[k], FilesUnder(order[k]), git[order[k]])]
    BY DEF Parse
<1>3. PICK own, built : /\ own = others
                        /\ built = [k \in DOMAIN order |-> build_component(order[k], FilesUnder(order[k]), git[order[k]])]
    OBVIOUS
<1>4. /\ Len(order) \in Nat /\ DOMAIN order = 1 .. Len(order)
      /\ \A k \in DOMAIN order : order[k] \in ToSet(Roots)
    BY OrderIsOfRoots
<1>5. PICK list : list = own \o built
    OBVIOUS
<1>6. Joins(list, own, built)
    <2>1. IsSequence(own)
        BY <1>1, <1>3, TreeAssumption DEF InputsAssumption, others
    <2>2. IsSequence(built)
        <3>1. DOMAIN built = 1 .. Len(order) /\ built = [k \in 1 .. Len(order) |-> built[k]]
            BY <1>3, <1>4
        <3> QED BY <1>4, <3>1, SequenceIs
    <2> QED BY <1>5, <2>1, <2>2, Joined
<1>7. components' = list
    BY <1>2, <1>3, <1>5
<1>8. ASSUME NEW k \in DOMAIN own
      PROVE  CorpusEvidence(own[k]) = {} /\ \A root : ~Cites(own[k], "directory", root)
    <2>1. \A e \in own[k].evidence : e.source \notin {"Heuristic", "Fingerprint"}
        BY <1>1, <1>3, TreeAssumption DEF InputsAssumption, others
    <2> QED BY <2>1 DEF CorpusEvidence, Cites
<1>9. ASSUME NEW k \in DOMAIN built
      PROVE  CorpusEvidence(built[k]) = {} /\ \A root : Cites(built[k], "directory", root) => Plain(built[k], root)
    <2>1. PICK r, c : r = order[k] /\ c = built[k] /\ r \in ToSet(Roots)
        BY <1>3, <1>4
    <2>2. c = build_component(r, FilesUnder(r), git[r])
        BY <1>3, <2>1
    <2>3. /\ c.root = r
          /\ ~FoundHeader(r) /\ ~FoundCommit(r) => c.version = <<>>
          /\ \A e \in c.evidence : e.source = "Heuristic" /\ \E what : e.detail = <<what, r>>
          /\ ~FoundHeader(r) /\ ~FoundCommit(r) => c.purl = folder_derived_purl(r)
          /\ Cites(c, "header", r) <=> FoundHeader(r)
        BY <1>1, <2>2, BuiltOf
    <2>4. r # NoRoot
        <3>1. PICK S : Roots \in Seq(S) /\ NoRoot \notin S
            BY RootsAreListed
        <3>2. r \in S
            BY <2>1, <3>1, LenProperties DEF ToSet
        <3> QED BY <3>1, <3>2
    <2>5. Plain(c, r)
        BY <2>3, <2>4 DEF Plain, identity_is_folder_derived
    <2>6. \A root : Cites(c, "directory", root) => root = r
        BY <2>3 DEF Cites
    <2>7. CorpusEvidence(c) = {}
        BY <2>3 DEF CorpusEvidence
    <2> QED BY <2>1, <2>5, <2>6, <2>7
<1>10. ASSUME NEW c \in Merged'
       PROVE  CorpusEvidence(c) = {} /\ \A root : Cites(c, "directory", root) => Plain(c, root)'
    <2>1. PICK j \in DOMAIN list : c = list[j]
        BY <1>7, <1>10 DEF Merged
    <2>2. CASE j \in DOMAIN own /\ list[j] = own[j]
        BY <1>8, <2>1, <2>2
    <2>3. CASE \E k \in DOMAIN built : list[j] = built[k]
        BY <1>1, <1>9, <2>1, <2>3, TreeStays
    <2> QED BY <1>6, <2>1, <2>2, <2>3 DEF Joins
<1>11. IdentityTypeOK'
    BY <1>1, TypeStays DEF IdentityInv, ClaimsInv, IdentityTypeOK
<1>12. HighExplainsTheRoot'
    BY <1>10 DEF HighExplainsTheRoot
<1>13. ToSet(matches) = {} /\ ToSet(matches)' = {}
    BY <1>1 DEF ClaimsInv, ToSet
<1>14. Proper'
    BY <1>1, <1>13 DEF Proper
<1>15. Truthful(index)' /\ next' = 1 /\ matches' = <<>>
    BY <1>1, CorpusStays DEF ClaimsInv
<1> QED BY <1>1, <1>10, <1>11, <1>12, <1>13, <1>14, <1>15 DEF ClaimsInv

LEMMA LoadWarns == ASSUME NEW given PROVE Code \notin load_index(given).warnings
<1>1. load_index(given).warnings \subseteq
          {"kFingerprintIndexUnreadable", "kFingerprintIndexSchemaUnsupported", "kFingerprintIndexEntrySkipped"}
    BY DEF load_index
<1> QED BY <1>1 DEF Code

LEMMA LoadClaims == IdentityInv /\ IdentityInv' /\ ClaimsInv /\ LoadIndex => ClaimsInv'
<1> SUFFICES ASSUME IdentityInv, IdentityInv', ClaimsInv, LoadIndex PROVE ClaimsInv'
    OBVIOUS
<1>1. /\ input \in Inputs /\ input' = input /\ next' = next /\ hashed_files' = hashed_files /\ components' = components
      /\ matches' = matches /\ pc = "load" /\ warnings = {} /\ next = 1 /\ matches = <<>>
    BY DEF LoadIndex, IdentityInv, ClaimsInv
<1>2. PICK result : /\ result = IF document.problem = "not named" THEN [index |-> NoIndex, warnings |-> {}]
                                ELSE load_index(document)
                    /\ index' = result.index /\ warnings' = result.warnings \X {NoRoot}
                    /\ pc' = IF DOMAIN result.index.refs = {} THEN "merge" ELSE "match"
    BY DEF LoadIndex
<1>3. ~BudgetWarned'
    <2>1. Code \notin result.warnings
        BY <1>2, LoadWarns
    <2>2. \A w \in warnings' : w[1] \in result.warnings
        BY <1>2
    <2> QED BY <2>1, <2>2 DEF BudgetWarned
<1>4. Truthful(index')
    BY <1>1, <1>2, NothingIsTruthful, LoadedIsTruthful
<1>5. Truthful(index)'
    BY <1>1, <1>4, TreeStays DEF Truthful
<1>6. Merged' = Merged /\ ToSet(matches)' = {}
    BY <1>1 DEF Merged, ToSet
<1>7. \A c \in Merged : CorpusEvidence(c) = {} /\ \A root \in ToSet(Roots) : Cites(c, "directory", root) => Plain(c, root)'
    BY <1>1, TreeStays DEF ClaimsInv
<1>8. IdentityTypeOK'
    BY <1>1, <1>2, TypeStays DEF IdentityInv, ClaimsInv, IdentityTypeOK
<1>9. HighExplainsTheRoot'
    BY <1>6, <1>7 DEF HighExplainsTheRoot
<1>10. Roots' = Roots
    BY <1>1, TreeStays
<1>11. ASSUME NEW r \in ToSet(Roots)
       PROVE  Waits(r)' \/ \A c \in Merged' : Known(c, r)'
    <2>1. CASE pc' = "match"
        <3>1. DOMAIN Roots = 1 .. Len(Roots)
            BY RootsAreListed, LenProperties
        <3>2. \E i \in 1 .. Len(Roots) : Roots[i] = r
            BY <3>1 DEF ToSet
        <3> QED BY <1>1, <1>10, <2>1, <3>2 DEF Waits
    <2>2. CASE DOMAIN index'.refs = {}
        <3>1. Copies(r)' = {}
            <4>1. KnowsNone'
                BY NoCopies, PTL
            <4> QED BY <1>5, <2>2, <4>1 DEF KnowsNone
        <3> QED BY <3>1 DEF Known
    <2> QED BY <1>2, <2>1, <2>2
<1>12. Proper'
    BY <1>6, <1>7, <1>10, <1>11 DEF Proper
<1>13. pc' \in {"match", "merge"}
    BY <1>2
<1> QED BY <1>3, <1>5, <1>6, <1>8, <1>9, <1>12, <1>13 DEF ClaimsInv

\* The members of a sequence that grows, and of one that shrinks.
LEMMA AppendHas == ASSUME NEW s, IsSequence(s), NEW x PROVE ToSet(Append(s, x)) = ToSet(s) \cup {x}
<1> DEFINE S == ToSet(s) \cup {x}
           longer == Append(s, x)
<1>1. s \in Seq(S) /\ x \in S
    BY SeqMonotonic DEF IsSequence
<1>2. /\ Len(s) \in Nat /\ DOMAIN s = 1 .. Len(s) /\ longer \in Seq(S) /\ Len(longer) = Len(s) + 1
      /\ longer[Len(s) + 1] = x /\ \A i \in 1 .. Len(s) : longer[i] = s[i]
    BY <1>1, AppendProperties, LenProperties
<1>3. DOMAIN longer = 1 .. Len(s) + 1
    BY <1>2, LenProperties
<1> HIDE DEF longer
<1>4. Len(s) + 1 \in DOMAIN longer /\ \A i \in DOMAIN s : i \in DOMAIN longer
    BY <1>2, <1>3
<1>5. \A i \in DOMAIN longer : i \in DOMAIN s \/ i = Len(s) + 1
    BY <1>2, <1>3
<1>6. ToSet(longer) = ToSet(s) \cup {x}
    BY <1>2, <1>4, <1>5 DEF ToSet
<1> QED BY <1>6 DEF longer

LEMMA TailHas ==
    ASSUME NEW s, IsSequence(s), s # <<>>
    PROVE  /\ Head(s) \in ToSet(s) /\ ToSet(Tail(s)) \subseteq ToSet(s)
           /\ \A x \in ToSet(s) : x = Head(s) \/ x \in ToSet(Tail(s))
<1>1. s \in Seq(ToSet(s)) /\ Len(s) \in Nat /\ DOMAIN s = 1 .. Len(s)
    BY SequenceHas DEF IsSequence
<1> DEFINE shorter == Tail(s)
<1>2. /\ Len(s) >= 1 /\ Head(s) = s[1] /\ Len(shorter) = Len(s) - 1 /\ DOMAIN shorter = 1 .. Len(s) - 1
      /\ \A i \in 1 .. Len(s) - 1 : shorter[i] = s[i + 1]
    BY <1>1, HeadTailProperties, EmptySeq, LenProperties
<1> HIDE DEF shorter
<1>3. Head(s) \in ToSet(s)
    BY <1>1, <1>2 DEF ToSet
<1>4. ASSUME NEW i \in DOMAIN shorter PROVE shorter[i] \in ToSet(s)
    <2>1. i + 1 \in DOMAIN s /\ shorter[i] = s[i + 1]
        BY <1>1, <1>2
    <2> QED BY <2>1 DEF ToSet
<1>5. ASSUME NEW i \in DOMAIN s PROVE s[i] = Head(s) \/ s[i] \in ToSet(shorter)
    <2>1. i = 1 \/ (i - 1 \in DOMAIN shorter /\ shorter[i - 1] = s[i])
        BY <1>1, <1>2
    <2> QED BY <1>2, <2>1 DEF ToSet
<1>6. ToSet(shorter) \subseteq ToSet(s) /\ \A x \in ToSet(s) : x = Head(s) \/ x \in ToSet(shorter)
    BY <1>4, <1>5 DEF ToSet
<1> QED BY <1>3, <1>6 DEF shorter

LEMMA AnyMatchIs ==
    ASSUME NEW known, NEW root, NEW hashed, NEW m \in match_root(known, root, hashed)
    PROVE  m.root = root
<1>1. PICK l : m = MatchOf(known, root, hashed, l)
    BY MatchRootIs
<1> QED BY <1>1, MatchOfIs

\* Nothing is explained when nothing is hashed.
LEMMA NothingIsHigh ==
    ASSUME NEW known, NEW root, NEW hashed, IsFiniteSet(DOMAIN hashed), Cardinality(DOMAIN hashed) = 0,
           NEW m \in match_root(known, root, hashed)
    PROVE  m.confidence # "High"
<1>1. DOMAIN hashed = {}
    BY FS_EmptySet
<1>2. \A q : MatchedByRelease(known, hashed, q) = Cardinality({})
    BY <1>1 DEF MatchedByRelease
<1>3. Cardinality({}) = 0
    BY FS_EmptySet
<1>4. \A q : ~(MatchedByRelease(known, hashed, q) >= 3)
    BY <1>2, <1>3
<1> QED BY <1>4, HighIs

\* What is spent on a root, and what it is matched by.
LEMMA SpentIs ==
    ASSUME IdentityInv, ClaimsInv, MatchRoot, NEW root, root = Roots[next], NEW left, left = budget - hashed_files,
           NEW hashed, hashed = Hashed(FilesUnder(root), left)
    PROVE  /\ hashed_files' \in 0 .. budget /\ next' \in 1 .. Len(Roots) + 1 /\ root \in ToSet(Roots)
           /\ BudgetWarned' => hashed_files' = budget
           /\ \E S : FilesUnder(root) \in Seq(S)
           /\ BudgetMet(FilesUnder(root), left) =>
                 /\ BudgetWarned' /\ (BudgetWarned \/ CutShort(root)')
                 /\ BudgetWarned => IsFiniteSet(DOMAIN hashed) /\ Cardinality(DOMAIN hashed) = 0
           /\ ~BudgetMet(FilesUnder(root), left) => hashed = Whole(FilesUnder(root)) /\ warnings' = warnings
<1>1. /\ input \in Inputs /\ pc = "match" /\ next <= Len(Roots) /\ next' = next + 1
      /\ hashed_files' = hashed_files + Cardinality(DOMAIN hashed)
      /\ warnings' = IF BudgetMet(FilesUnder(root), left) /\ ~\E w \in warnings : w[1] = Code
                     THEN warnings \cup {<<Code, root>>} ELSE warnings
    BY DEF IdentityInv, MatchRoot, Code
<1>2. hashed_files \in 0 .. budget /\ next \in 1 .. Len(Roots) + 1 /\ (BudgetWarned => hashed_files = budget)
    BY <1>1 DEF ClaimsInv, IdentityTypeOK
<1>3. budget \in Nat
    BY <1>1, TreeAssumption DEF InputsAssumption, budget
<1>4. left \in Nat /\ left + hashed_files = budget /\ (hashed_files = budget <=> left = 0)
    BY <1>2, <1>3
<1>5. Len(Roots) \in Nat /\ DOMAIN Roots = 1 .. Len(Roots)
    BY RootsAreListed, LenProperties
<1>6. next \in DOMAIN Roots /\ next' \in 1 .. Len(Roots) + 1
    BY <1>1, <1>2, <1>5
<1>7. PICK S : FilesUnder(root) \in Seq(S)
    BY <1>1, FilesAreTexts
<1>8. IsFiniteSet(DOMAIN hashed) /\ Cardinality(DOMAIN hashed) \in 0 .. left
    <2>1. IsFiniteSet(DOMAIN hashed) /\ Cardinality(DOMAIN hashed) \in Nat
        BY <1>7, HashedAre
    <2>2. Cardinality(DOMAIN hashed) <= left
        BY <1>4, <1>7, WithinBudget
    <2> QED BY <1>4, <2>1, <2>2
<1>9. hashed_files' \in 0 .. budget
    BY <1>1, <1>2, <1>3, <1>4, <1>8
<1>10. BudgetWarned => Cardinality(DOMAIN hashed) = 0 /\ hashed_files' = budget
    BY <1>1, <1>2, <1>3, <1>4, <1>8
<1>11. ASSUME BudgetMet(FilesUnder(root), left)
       PROVE  BudgetWarned' /\ (BudgetWarned \/ CutShort(root)') /\ hashed_files' = budget
    <2>1. Cardinality(DOMAIN hashed) >= left
        BY <1>4, <1>7, <1>11, BudgetIsSpent
    <2>2. hashed_files' = budget
        BY <1>1, <1>2, <1>3, <1>4, <1>8, <2>1
    <2>3. CASE BudgetWarned
        BY <1>1, <2>2, <2>3 DEF BudgetWarned
    <2>4. CASE ~BudgetWarned
        <3>1. <<Code, root>> \in warnings'
            BY <1>1, <1>11, <2>4 DEF BudgetWarned
        <3>2. BudgetWarned' /\ CutShort(root)'
            BY <3>1 DEF BudgetWarned, CutShort, Code
        <3> QED BY <2>2, <3>2
    <2> QED BY <2>3, <2>4
<1>12. ASSUME ~BudgetMet(FilesUnder(root), left) PROVE hashed = Whole(FilesUnder(root)) /\ warnings' = warnings
    BY <1>1, <1>4, <1>7, <1>12, AllAreHashed
<1>13. ASSUME BudgetWarned' PROVE hashed_files' = budget
    <2>1. CASE BudgetMet(FilesUnder(root), left)
        BY <1>11, <2>1
    <2>2. CASE ~BudgetMet(FilesUnder(root), left)
        <3>1. BudgetWarned
            BY <1>12, <1>13, <2>2 DEF BudgetWarned
        <3> QED BY <1>10, <3>1
    <2> QED BY <2>1, <2>2
<1>14. root \in ToSet(Roots)
    BY <1>6 DEF ToSet
<1> QED BY <1>6, <1>7, <1>8, <1>9, <1>10, <1>11, <1>12, <1>13, <1>14

LEMMA MatchClaims == IdentityInv /\ IdentityInv' /\ ClaimsInv /\ MatchRoot => ClaimsInv'
<1> SUFFICES ASSUME IdentityInv, IdentityInv', ClaimsInv, MatchRoot PROVE ClaimsInv'
    OBVIOUS
<1>1. /\ input \in Inputs /\ input' = input /\ index' = index /\ components' = components
      /\ pc = "match" /\ pc' = "match" /\ next' = next + 1 /\ warnings \subseteq warnings'
    BY DEF MatchRoot, IdentityInv
<1>2. PICK root, left, hashed : /\ root = Roots[next] /\ left = budget - hashed_files
                                /\ hashed = Hashed(FilesUnder(root), left)
    OBVIOUS
<1>3. /\ hashed_files' \in 0 .. budget /\ next' \in 1 .. Len(Roots) + 1 /\ root \in ToSet(Roots)
      /\ BudgetWarned' => hashed_files' = budget
      /\ \E S : FilesUnder(root) \in Seq(S)
      /\ BudgetMet(FilesUnder(root), left) =>
            /\ BudgetWarned' /\ (BudgetWarned \/ CutShort(root)')
            /\ BudgetWarned => IsFiniteSet(DOMAIN hashed) /\ Cardinality(DOMAIN hashed) = 0
      /\ ~BudgetMet(FilesUnder(root), left) => hashed = Whole(FilesUnder(root)) /\ warnings' = warnings
    BY <1>2, SpentIs
<1>4. \/ match_root(index, root, hashed) = {} /\ matches' = matches
      \/ \E m \in match_root(index, root, hashed) : matches' = Append(matches, m)
    BY <1>2 DEF MatchRoot
<1>5. IsSequence(matches)
    BY DEF IdentityInv
<1>6. /\ \A m \in ToSet(matches') : m \in ToSet(matches) \/ m \in match_root(index, root, hashed)
      /\ ToSet(matches) \subseteq ToSet(matches')
      /\ match_root(index, root, hashed) # {} => \E m \in ToSet(matches') : m.root = root
    <2>1. CASE match_root(index, root, hashed) = {} /\ matches' = matches
        BY <2>1
    <2>2. CASE \E m \in match_root(index, root, hashed) : matches' = Append(matches, m)
        <3>1. PICK m \in match_root(index, root, hashed) : matches' = Append(matches, m)
            BY <2>2
        <3>2. ToSet(matches') = ToSet(matches) \cup {m} /\ m.root = root
            BY <1>5, <3>1, AppendHas, AnyMatchIs
        <3> QED BY <3>1, <3>2
    <2> QED BY <1>4, <2>1, <2>2
<1>7. PICK S : FilesUnder(root) \in Seq(S)
    BY <1>3
<1>8. Truthful(index) /\ Truthful(index)'
    BY <1>1, CorpusStays DEF ClaimsInv
<1>9. ASSUME NEW m \in match_root(index, root, hashed) PROVE Earned(m)'
    <2>1. SUFFICES ASSUME m.confidence = "High", ~CutShort(m.root)' PROVE Explained(m.root, m.library, m.version)'
        BY DEF Earned
    <2>2. m.root = root
        BY AnyMatchIs
    <2>3. ASSUME BudgetMet(FilesUnder(root), left) PROVE FALSE
        BY <1>3, <2>1, <2>2, <2>3, NothingIsHigh
    <2>4. hashed = Whole(FilesUnder(root))
        BY <1>3, <2>3
    <2>5. Explained(m.root, m.library, m.version)
        BY <1>7, <1>8, <2>1, <2>2, <2>4, HighIsEarned
    <2> QED BY <1>1, <2>5, CorpusStays
<1>10. \A m \in ToSet(matches') : Earned(m)'
    BY <1>1, <1>6, <1>9, EarnedStays DEF ClaimsInv
<1>11. Merged' = Merged
    BY <1>1 DEF Merged
<1>12. HighExplainsTheRoot'
    BY <1>1, <1>11, CorpusStays, EarnedStays DEF ClaimsInv, HighExplainsTheRoot
<1>13. IdentityTypeOK'
    BY <1>1, <1>3, TypeStays DEF IdentityInv
<1>14. ASSUME ~BudgetWarned', Counts' PROVE Proper'
    <2>1. Proper /\ Counts /\ ~BudgetMet(FilesUnder(root), left) /\ hashed = Whole(FilesUnder(root))
        BY <1>1, <1>3, <1>14, CorpusStays, EarnedStays DEF ClaimsInv
    <2>2. ASSUME NEW r \in Copies(root)
          PROVE  /\ match_root(index, root, hashed) # {}
                 /\ \A m \in match_root(index, root, hashed) : Names(m.library, m.version, r)
        BY <1>1, <1>7, <1>8, <2>1, CopyIsNamed
    <2>3. ASSUME NEW m \in ToSet(matches'), NEW r \in Copies(m.root) PROVE Names(m.library, m.version, r)
        <3>1. CASE m \in ToSet(matches)
            BY <2>1, <2>3, <3>1 DEF Proper
        <3>2. CASE m \in match_root(index, root, hashed)
            <4>1. m.root = root
                BY <3>2, AnyMatchIs
            <4> QED BY <2>2, <2>3, <3>2, <4>1
        <3> QED BY <1>6, <3>1, <3>2
    <2>4. ASSUME NEW m \in ToSet(matches'), NEW r \in Copies(m.root)' PROVE Names(m.library, m.version, r)'
        BY <1>1, <2>3, <2>4, CorpusStays
    <2>5. Roots' = Roots
        BY <1>1, TreeStays
    <2>6. ASSUME NEW other \in ToSet(Roots)
          PROVE  Waits(other)' \/ Awaited(other)' \/ \A c \in Merged : Cites(c, "directory", other) => Known(c, other)'
        <3>1. CASE \E i \in next .. Len(Roots) : Roots[i] = other
            <4>1. PICK i \in next .. Len(Roots) : Roots[i] = other
                BY <3>1
            <4>2. CASE i = next
                <5>1. other = root
                    BY <1>2, <4>1, <4>2
                <5>2. CASE match_root(index, root, hashed) = {}
                    <6>1. Copies(other) = {}
                        BY <2>2, <5>1, <5>2
                    <6>2. \A c : Known(c, other)
                        BY <6>1 DEF Known
                    <6> QED BY <1>1, <6>2, CorpusStays
                <5>3. CASE match_root(index, root, hashed) # {}
                    BY <1>1, <1>6, <5>1, <5>3 DEF Awaited
                <5> QED BY <5>2, <5>3
            <4>3. CASE i # next
                <5>1. i \in next' .. Len(Roots)
                    <6>1. next \in 1 .. Len(Roots) + 1 /\ Len(Roots) \in Nat
                        BY RootsAreListed, LenProperties DEF ClaimsInv, IdentityTypeOK
                    <6> QED BY <1>1, <4>1, <4>3, <6>1
                <5> QED BY <1>1, <2>5, <4>1, <5>1 DEF Waits
            <4> QED BY <4>2, <4>3
        <3>2. CASE Awaited(other)
            BY <1>1, <1>6, <3>2 DEF Awaited
        <3>3. CASE \A c \in Merged : Cites(c, "directory", other) => Known(c, other)
            BY <1>1, <3>3, CorpusStays
        <3> QED BY <1>1, <2>1, <3>1, <3>2, <3>3 DEF Proper, Waits
    <2>7. \A c, other : /\ Plain(c, other)' <=> Plain(c, other)
                        /\ Known(c, other)' <=> Known(c, other)
        BY <1>1, TreeStays, CorpusStays
    <2>8. \A other \in ToSet(Roots) : \A c \in Merged : Cites(c, "directory", other) => Plain(c, other) \/ Known(c, other)
        BY <1>1, <2>1 DEF Proper
    <2>9. (\A m \in ToSet(matches) : \A r \in Copies(m.root) : Names(m.library, m.version, r))'
        BY <2>4
    <2>10. ASSUME NEW other \in ToSet(Roots)'
           PROVE  /\ (\A c \in Merged : Cites(c, "directory", other) => Plain(c, other) \/ Known(c, other))'
                  /\ \/ Waits(other)' \/ Awaited(other)'
                     \/ (\A c \in Merged : Cites(c, "directory", other) => Known(c, other))'
        BY <1>11, <2>5, <2>6, <2>7, <2>8
    <2> QED BY <2>9, <2>10 DEF Proper
<1>15. (\A m \in ToSet(matches) : Earned(m))'
    BY <1>10
<1>16. (pc = "match" /\ BudgetWarned => hashed_files = budget)'
    BY <1>1, <1>3, TreeStays
<1> QED BY <1>1, <1>8, <1>12, <1>13, <1>14, <1>15, <1>16 DEF ClaimsInv

\* A step that leaves everything but the place where the scan is.
LEMMA PlaceClaims ==
    ASSUME IdentityInv, IdentityInv', ClaimsInv, input' = input, index' = index, components' = components,
           matches' = matches, warnings' = warnings, next' = next, hashed_files' = hashed_files
    PROVE  /\ IdentityTypeOK' \/ pc' \notin {"parse", "load", "match", "apply", "merge", "merged"}
           /\ Truthful(index)' /\ (\A m \in ToSet(matches) : Earned(m))' /\ HighExplainsTheRoot'
           /\ BudgetWarned' <=> BudgetWarned
           /\ Counts' <=> Counts
           /\ Merged' = Merged /\ Roots' = Roots /\ budget' = budget
           /\ (\A m \in ToSet(matches) : \A r \in Copies(m.root) : Names(m.library, m.version, r))' <=>
                  (\A m \in ToSet(matches) : \A r \in Copies(m.root) : Names(m.library, m.version, r))
           /\ \A c, root : /\ Plain(c, root)' <=> Plain(c, root)
                           /\ Known(c, root)' <=> Known(c, root)
<1>1. Truthful(index)'
    BY CorpusStays DEF ClaimsInv
<1>2. (\A m \in ToSet(matches) : Earned(m))'
    BY EarnedStays DEF ClaimsInv
<1>3. Merged' = Merged /\ Roots' = Roots /\ budget' = budget
    BY TreeStays DEF Merged
<1>4. HighExplainsTheRoot'
    BY <1>3, CorpusStays, EarnedStays DEF ClaimsInv, HighExplainsTheRoot
<1>5. BudgetWarned' <=> BudgetWarned
    BY DEF BudgetWarned
<1>6. \A c, root : /\ Plain(c, root)' <=> Plain(c, root)
                   /\ Known(c, root)' <=> Known(c, root)
    BY TreeStays, CorpusStays
<1>7. IdentityTypeOK' \/ pc' \notin {"parse", "load", "match", "apply", "merge", "merged"}
    BY <1>3 DEF ClaimsInv, IdentityTypeOK
<1>8. (\A m \in ToSet(matches) : \A r \in Copies(m.root) : Names(m.library, m.version, r))' <=>
          (\A m \in ToSet(matches) : \A r \in Copies(m.root) : Names(m.library, m.version, r))
    BY CorpusStays
<1> QED BY <1>1, <1>2, <1>3, <1>4, <1>5, <1>6, <1>7, <1>8, CorpusStays

LEMMA DoneClaims == IdentityInv /\ IdentityInv' /\ ClaimsInv /\ (MatchesDone \/ MatchesApplied) => ClaimsInv'
<1> SUFFICES ASSUME IdentityInv, IdentityInv', ClaimsInv, MatchesDone \/ MatchesApplied PROVE ClaimsInv'
    OBVIOUS
<1>1. /\ input' = input /\ index' = index /\ components' = components /\ matches' = matches
      /\ warnings' = warnings /\ next' = next /\ hashed_files' = hashed_files
      /\ \/ pc = "match" /\ next > Len(Roots) /\ pc' = "apply"
         \/ pc = "apply" /\ matches = <<>> /\ pc' = "merge"
    BY DEF MatchesDone, MatchesApplied
<1>2. /\ IdentityTypeOK' \/ pc' \notin {"parse", "load", "match", "apply", "merge", "merged"}
      /\ Truthful(index)' /\ (\A m \in ToSet(matches) : Earned(m))' /\ HighExplainsTheRoot'
      /\ BudgetWarned' <=> BudgetWarned
      /\ Counts' <=> Counts
      /\ Merged' = Merged /\ Roots' = Roots /\ budget' = budget
      /\ (\A m \in ToSet(matches) : \A r \in Copies(m.root) : Names(m.library, m.version, r))' <=>
             (\A m \in ToSet(matches) : \A r \in Copies(m.root) : Names(m.library, m.version, r))
      /\ \A c, root : /\ Plain(c, root)' <=> Plain(c, root)
                      /\ Known(c, root)' <=> Known(c, root)
    BY <1>1, PlaceClaims
<1>3. IdentityTypeOK'
    BY <1>1, <1>2
<1>4. ASSUME NEW root \in ToSet(Roots), Proper
      PROVE  Awaited(root)' \/ \A c \in Merged : Cites(c, "directory", root) => Known(c, root)
    <2>1. ~Waits(root)
        <3>1. next \in 1 .. Len(Roots) + 1 /\ Len(Roots) \in Nat
            BY RootsAreListed, LenProperties DEF ClaimsInv, IdentityTypeOK
        <3>2. pc = "match" => next .. Len(Roots) = {}
            BY <1>1, <3>1
        <3> QED BY <3>2 DEF Waits
    <2>2. Awaited(root) => Awaited(root)'
        <3>1. CASE pc' = "apply"
            BY <1>1, <3>1 DEF Awaited
        <3>2. CASE matches = <<>>
            <4>1. ToSet(matches) = {}
                BY <3>2 DEF ToSet
            <4> QED BY <4>1 DEF Awaited
        <3> QED BY <1>1, <3>1, <3>2
    <2> QED BY <1>1, <1>4, <2>1, <2>2 DEF Proper
<1>5. ASSUME Proper PROVE Proper'
    <2>1. \A root \in ToSet(Roots) : \A c \in Merged : Cites(c, "directory", root) => Plain(c, root) \/ Known(c, root)
        BY <1>1, <1>5 DEF Proper
    <2> QED BY <1>2, <1>4, <1>5, <2>1 DEF Proper
<1> QED BY <1>1, <1>2, <1>3, <1>5 DEF ClaimsInv

\* What a match makes of a component of its root.
LEMMA EnrichedIsKnown ==
    ASSUME NEW c, IsComponent(c), NEW match, match.confidence \in Confidences, NEW d, d = Enriched(c, match)
    PROVE  /\ \A what, root : Cites(d, what, root) <=> Cites(c, what, root)
           /\ \A e \in CorpusEvidence(d) :
                 \/ e \in CorpusEvidence(c)
                 \/ /\ e.confidence = match.confidence /\ e.detail[2] = match.root
                    /\ e.detail[3] = match.library /\ e.detail[4] = match.version
           /\ \A root : (Plain(c, root) \/ Known(c, root))
                 /\ (\A r \in Copies(root) : Names(match.library, match.version, r)) => Known(d, root)
<1>1. PICK e : e = [source |-> "Fingerprint", confidence |-> match.confidence,
                    detail |-> <<"corpus", match.root, match.library, match.version>>]
    OBVIOUS
<1>2. /\ e.source = "Fingerprint" /\ e.confidence = match.confidence /\ e.detail[2] = match.root
      /\ e.detail[3] = match.library /\ e.detail[4] = match.version
    BY <1>1
<1>3. /\ d.evidence = c.evidence \cup {e}
      /\ identity_is_folder_derived(c) => d.version = match.version /\ d.purl.name = match.library
      /\ ~identity_is_folder_derived(c) => d.version = c.version /\ d.purl = c.purl
    BY <1>1, EnrichedHas
<1>4. \A what, root : Cites(d, what, root) <=> Cites(c, what, root)
    BY <1>2, <1>3 DEF Cites
<1>5. \A f \in CorpusEvidence(d) : f \in CorpusEvidence(c) \/ f = e
    BY <1>3 DEF CorpusEvidence
<1>6. ASSUME NEW root, Plain(c, root) \/ Known(c, root), \A r \in Copies(root) : Names(match.library, match.version, r)
      PROVE  Known(d, root)
    <2>1. CASE identity_is_folder_derived(c)
        BY <1>3, <1>6, <2>1 DEF Known
    <2>2. CASE ~identity_is_folder_derived(c)
        <3>1. Known(c, root)
            BY <1>6, <2>2 DEF Plain, Known
        <3> QED BY <1>3, <1>4, <2>2, <3>1 DEF Known
    <2> QED BY <2>1, <2>2
<1> QED BY <1>2, <1>4, <1>5, <1>6

LEMMA ApplyClaims == IdentityInv /\ IdentityInv' /\ ClaimsInv /\ ApplyMatch => ClaimsInv'
<1> SUFFICES ASSUME IdentityInv, IdentityInv', ClaimsInv, ApplyMatch PROVE ClaimsInv'
    OBVIOUS
<1>1. PICK match, list, at : match = Head(matches) /\ list = components
          /\ at = {k \in DOMAIN list : list[k].root = match.root}
    OBVIOUS
<1>2. /\ components' = [k \in DOMAIN list |-> IF k \in at THEN Enriched(list[k], match) ELSE list[k]]
      /\ warnings \subseteq warnings'
    BY <1>1 DEF ApplyMatch
<1>3. /\ input' = input /\ index' = index /\ next' = next /\ hashed_files' = hashed_files
      /\ pc = "apply" /\ pc' = "apply" /\ matches # <<>> /\ matches' = Tail(matches)
    BY DEF ApplyMatch
<1>4. /\ IsSequence(matches) /\ \A m \in ToSet(matches) : m.confidence \in Confidences
      /\ \A k \in DOMAIN list : Item(list[k]) /\ IsComponent(list[k])
    BY <1>1, <1>3 DEF IdentityInv, Assembled, Item
<1>5. /\ match \in ToSet(matches) /\ ToSet(matches') \subseteq ToSet(matches)
      /\ \A x \in ToSet(matches) : x = match \/ x \in ToSet(matches')
    BY <1>1, <1>3, <1>4, TailHas
<1>6. PICK after : after = [k \in DOMAIN list |-> IF k \in at THEN Enriched(list[k], match) ELSE list[k]]
    OBVIOUS
<1>7. Merged' = {after[k] : k \in DOMAIN list} /\ Merged = {list[k] : k \in DOMAIN list}
    BY <1>1, <1>2, <1>6 DEF Merged
<1>8. ASSUME NEW k \in DOMAIN list
      PROVE  /\ \A what, root : Cites(after[k], what, root) <=> Cites(list[k], what, root)
             /\ \A e \in CorpusEvidence(after[k]) :
                   \/ e \in CorpusEvidence(list[k])
                   \/ /\ e.confidence = match.confidence /\ e.detail[2] = match.root
                      /\ e.detail[3] = match.library /\ e.detail[4] = match.version
    <2>1. CASE k \in at
        BY <1>4, <1>5, <1>6, <2>1, EnrichedIsKnown
    <2>2. CASE k \notin at
        BY <1>6, <2>2
    <2> QED BY <2>1, <2>2
<1>9. IdentityTypeOK'
    BY <1>3, TypeStays DEF IdentityInv, ClaimsInv, IdentityTypeOK
<1>10. HighExplainsTheRoot'
    <2>1. SUFFICES ASSUME NEW c \in Merged', NEW e \in CorpusEvidence(c), e.confidence = "High", ~CutShort(e.detail[2])'
                   PROVE  Explained(e.detail[2], e.detail[3], e.detail[4])'
        BY DEF HighExplainsTheRoot
    <2>2. PICK k \in DOMAIN list : c = after[k]
        BY <1>7, <2>1
    <2>3. ~CutShort(e.detail[2])
        BY <1>2, <1>3, <2>1, EarnedStays
    <2>4. Explained(e.detail[2], e.detail[3], e.detail[4])
        <3>1. CASE e \in CorpusEvidence(list[k])
            <4>1. list[k] \in Merged
                BY <1>7
            <4> QED BY <2>1, <2>3, <3>1, <4>1 DEF ClaimsInv, HighExplainsTheRoot
        <3>2. CASE /\ e.confidence = match.confidence /\ e.detail[2] = match.root
                   /\ e.detail[3] = match.library /\ e.detail[4] = match.version
            <4>1. Earned(match)
                BY <1>5 DEF ClaimsInv
            <4> QED BY <2>1, <2>3, <3>2, <4>1 DEF Earned
        <3> QED BY <1>8, <2>1, <2>2, <3>1, <3>2
    <2> QED BY <1>3, <2>4, CorpusStays
<1>11. Truthful(index)' /\ (\A m \in ToSet(matches) : Earned(m))'
    <2>1. \A m \in ToSet(matches') : Earned(m)'
        BY <1>2, <1>3, <1>5, EarnedStays DEF ClaimsInv
    <2> QED BY <1>3, <2>1, CorpusStays DEF ClaimsInv
<1>12. ASSUME ~BudgetWarned', Counts' PROVE Proper'
    <2>1. Proper
        BY <1>2, <1>3, <1>12, CorpusStays, EarnedStays DEF ClaimsInv
    <2>2. ASSUME NEW k \in DOMAIN list, NEW root \in ToSet(Roots), Cites(after[k], "directory", root)
          PROVE  /\ Plain(after[k], root) \/ Known(after[k], root)
                 /\ match.root = root \/ Known(list[k], root) => Known(after[k], root)
        <3>1. Cites(list[k], "directory", root) /\ list[k].root = root /\ list[k] \in Merged
            BY <1>4, <1>7, <1>8, <2>2 DEF Item
        <3>2. Plain(list[k], root) \/ Known(list[k], root)
            BY <1>3, <2>1, <3>1 DEF Proper
        <3>3. CASE k \in at
            <4>1. match.root = root
                BY <1>1, <3>1, <3>3
            <4>2. \A r \in Copies(root) : Names(match.library, match.version, r)
                BY <1>5, <2>1, <4>1 DEF Proper
            <4>3. after[k] = Enriched(list[k], match) /\ IsComponent(list[k]) /\ match.confidence \in Confidences
                BY <1>4, <1>5, <1>6, <3>3
            <4> QED BY <3>2, <4>2, <4>3, EnrichedIsKnown
        <3>4. CASE k \notin at
            BY <1>1, <1>6, <3>1, <3>2, <3>4
        <3> QED BY <3>3, <3>4
    <2>3. Roots' = Roots /\ \A c, root : /\ Plain(c, root)' <=> Plain(c, root)
                                         /\ Known(c, root)' <=> Known(c, root)
        BY <1>3, TreeStays, CorpusStays
    <2>4. (\A m \in ToSet(matches) : \A r \in Copies(m.root) : Names(m.library, m.version, r))'
        BY <1>3, <1>5, <2>1, CorpusStays DEF Proper
    <2>5. ASSUME NEW root \in ToSet(Roots)
          PROVE  /\ \A c \in Merged' : Cites(c, "directory", root) => Plain(c, root) \/ Known(c, root)
                 /\ Awaited(root)' \/ \A c \in Merged' : Cites(c, "directory", root) => Known(c, root)
        <3>1. \A c \in Merged' : Cites(c, "directory", root) => Plain(c, root) \/ Known(c, root)
            BY <1>7, <2>2
        <3>2. CASE \A c \in Merged : Cites(c, "directory", root) => Known(c, root)
            <4>1. ASSUME NEW k \in DOMAIN list, Cites(after[k], "directory", root) PROVE Known(after[k], root)
                <5>1. list[k] \in Merged /\ Cites(list[k], "directory", root)
                    BY <1>7, <1>8, <4>1
                <5> QED BY <2>2, <3>2, <4>1, <5>1
            <4> QED BY <1>7, <3>1, <4>1
        <3>3. CASE Awaited(root)
            <4>1. PICK m \in ToSet(matches) : m.root = root
                BY <3>3 DEF Awaited
            <4>2. CASE m = match
                BY <1>7, <2>2, <3>1, <4>1, <4>2
            <4>3. CASE m \in ToSet(matches')
                BY <1>3, <3>1, <4>1, <4>3 DEF Awaited
            <4> QED BY <1>5, <4>2, <4>3
        <3> QED BY <1>3, <2>1, <3>1, <3>2, <3>3 DEF Proper, Waits
    <2>6. ASSUME NEW root \in ToSet(Roots)'
          PROVE  /\ (\A c \in Merged : Cites(c, "directory", root) => Plain(c, root) \/ Known(c, root))'
                 /\ \/ Waits(root)' \/ Awaited(root)'
                    \/ (\A c \in Merged : Cites(c, "directory", root) => Known(c, root))'
        BY <2>3, <2>5
    <2> QED BY <2>4, <2>6 DEF Proper
<1> QED BY <1>3, <1>9, <1>10, <1>11, <1>12 DEF ClaimsInv

LEMMA MergeClaims == IdentityInv /\ IdentityInv' /\ ClaimsInv /\ Merge => ClaimsInv'
<1> SUFFICES ASSUME IdentityInv, IdentityInv', ClaimsInv, Merge PROVE ClaimsInv'
    OBVIOUS
<1>1. /\ input' = input /\ index' = index /\ next' = next /\ hashed_files' = hashed_files
      /\ matches' = matches /\ warnings' = warnings /\ pc = "merge" /\ pc' = "merged"
    BY DEF Merge
<1>2. PICK list, m : list = components /\ m = components'
    OBVIOUS
<1>3. /\ Assembled /\ \A k \in DOMAIN list : Item(list[k])
      /\ \A r \in ToSet(Roots) : \E k \in DOMAIN list : Cites(list[k], "directory", r)
    BY <1>1, <1>2 DEF IdentityInv, Assembled
<1>4. /\ \A k \in DOMAIN m : IsComponent(m[k])
      /\ \A k \in DOMAIN m : \A e \in m[k].evidence :
            \E j \in DOMAIN list : list[j].purl = m[k].purl /\ e \in list[j].evidence
      /\ \A j \in DOMAIN list : \E k \in DOMAIN m : Covers(m[k], list[j])
      /\ \A k \in DOMAIN m, j \in DOMAIN list :
            list[j].purl = m[k].purl /\ (m[k].purl.version # {} \/ m[k].purl.type = "generic")
                => list[j].version = m[k].version
    BY <1>2, <1>3, MergeLeaves
<1>5. Merged' = {m[k] : k \in DOMAIN m} /\ Merged = {list[k] : k \in DOMAIN list}
    BY <1>2 DEF Merged
<1>6. budget' = budget /\ Roots' = Roots /\ git' = git
    BY <1>1, TreeStays
<1>7. IdentityTypeOK'
    BY <1>1, <1>4, <1>5, <1>6 DEF ClaimsInv, IdentityTypeOK
<1>8. HighExplainsTheRoot'
    <2>1. SUFFICES ASSUME NEW c \in Merged', NEW e \in CorpusEvidence(c), e.confidence = "High", ~CutShort(e.detail[2])'
                   PROVE  Explained(e.detail[2], e.detail[3], e.detail[4])'
        BY DEF HighExplainsTheRoot
    <2>2. PICK k \in DOMAIN m : c = m[k]
        BY <1>5, <2>1
    <2>3. PICK j \in DOMAIN list : e \in CorpusEvidence(list[j])
        BY <1>4, <2>1, <2>2 DEF CorpusEvidence
    <2>4. Explained(e.detail[2], e.detail[3], e.detail[4])
        BY <1>1, <1>5, <2>1, <2>3, EarnedStays DEF ClaimsInv, HighExplainsTheRoot
    <2> QED BY <1>1, <2>4, CorpusStays
<1>9. Truthful(index)' /\ (\A x \in ToSet(matches) : Earned(x))'
    BY <1>1, CorpusStays, EarnedStays DEF ClaimsInv
<1>10. ASSUME NEW root \in ToSet(Roots), NEW r \in Copies(root), Counts, ~BudgetWarned
       PROVE  \E k \in DOMAIN m :
                 /\ Cites(m[k], "directory", root)
                 /\ \/ Cites(m[k], "header", root) \/ FoundCommit(root)
                    \/ m[k].purl.name = LibraryOf(r) /\ HasVersionOf(m[k].version, r)
    <2>1. PICK j \in DOMAIN list : Cites(list[j], "directory", root)
        BY <1>3
    <2>2. Known(list[j], root)
        <3>1. ~Waits(root) /\ ~Awaited(root) /\ Proper
            BY <1>1, <1>10 DEF Waits, Awaited, ClaimsInv
        <3> QED BY <1>1, <1>5, <2>1, <3>1 DEF Proper
    <2>3. PICK k \in DOMAIN m : Covers(m[k], list[j])
        BY <1>4
    <2>4. m[k].purl = list[j].purl /\ \A what : Cites(list[j], what, root) => Cites(m[k], what, root)
        BY <2>3 DEF Cites, Covers, Says
    <2>5. list[j].version = m[k].version
        <3>1. list[j].root = root /\ (list[j].purl.version # {} \/ list[j].purl.type = "generic")
            BY <1>3, <2>1 DEF Item
        <3> QED BY <1>4, <2>4, <3>1
    <2> QED BY <1>10, <2>1, <2>2, <2>4, <2>5 DEF Known, Names
<1>11. PristineIsNamed'
    <2>1. PICK all, corpus, gone : all = {m[k] : k \in DOMAIN m} /\ corpus = index /\ gone = warnings
        OBVIOUS
    <2>2. ASSUME NEW root \in ToSet(Roots), NEW r \in DOMAIN index.releases,
                 IsCopy(root, r), IsOfOne(root, index.releases[r].library), Counts, ~BudgetWarned
          PROVE  \E c \in all : /\ Cites(c, "directory", root)
                                /\ \/ Cites(c, "header", root) \/ FoundCommit(root)
                                   \/ c.purl.name = LibraryOf(r) /\ HasVersionOf(c.version, r)
        <3>1. r \in Copies(root)
            BY <2>2 DEF Copies
        <3> QED BY <1>10, <2>1, <2>2, <3>1
    <2>3. \A root, r : IsOfOne(root, r)' <=> IsOfOne(root, r)
        BY <1>1, TreeStays DEF IsOfOne
    <2>4. \A version, r : HasVersionOf(version, r)' <=> HasVersionOf(version, r)
        BY <1>1, TreeStays DEF HasVersionOf
    <2>5. ASSUME NEW root \in ToSet(Roots)', NEW r \in DOMAIN index'.releases,
                 IsCopy(root, r)', IsOfOne(root, index.releases[r].library)',
                 (\A q \in DOMAIN index.releases : Cardinality(DigestsOf(q)) <= index.releases[q].file_count)',
                 ~\E w \in warnings' : w[1] = "kFingerprintFileBudgetReached"
          PROVE  (\E c \in Merged :
                    /\ Cites(c, "directory", root)
                    /\ \/ Cites(c, "header", root) \/ git[root] \in {"commit", "origin"}
                       \/ c.purl.name = index.libraries[index.releases[r].library] /\ HasVersionOf(c.version, r))'
        <3>1. /\ root \in ToSet(Roots) /\ r \in DOMAIN index.releases /\ IsCopy(root, r)
              /\ IsOfOne(root, index.releases[r].library)
            BY <1>1, <1>6, <2>3, <2>5, CorpusStays
        <3>2. Counts /\ ~BudgetWarned
            BY <1>1, <2>5, TreeStays DEF Counts, BudgetWarned, Code
        <3>3. PICK c \in all : /\ Cites(c, "directory", root)
                               /\ \/ Cites(c, "header", root) \/ FoundCommit(root)
                                  \/ c.purl.name = LibraryOf(r) /\ HasVersionOf(c.version, r)
            BY <2>2, <3>1, <3>2
        <3>4. c \in Merged' /\ (HasVersionOf(c.version, r)' <=> HasVersionOf(c.version, r))
            BY <1>5, <2>1, <2>4
        <3> QED BY <1>1, <1>6, <3>3, <3>4 DEF FoundCommit, LibraryOf
    <2> QED BY <2>5 DEF PristineIsNamed
<1>12. ~(pc' \in {"match", "apply", "merge"})
    BY <1>1
<1>13. ASSUME ~BudgetWarned', Counts' PROVE Proper'
    <2>1. Proper
        BY <1>1, <1>13, CorpusStays DEF ClaimsInv, BudgetWarned
    <2>2. (\A x \in ToSet(matches) : \A r \in Copies(x.root) : Names(x.library, x.version, r))'
        BY <1>1, <2>1, CorpusStays DEF Proper
    <2> QED BY <1>12, <2>2 DEF Proper
<1> QED BY <1>1, <1>7, <1>8, <1>9, <1>11, <1>13 DEF ClaimsInv

LEMMA NothingClaims == IdentityInv /\ IdentityInv' /\ ClaimsInv /\ UNCHANGED identity_vars => ClaimsInv'
<1> SUFFICES ASSUME IdentityInv, IdentityInv', ClaimsInv, UNCHANGED identity_vars PROVE ClaimsInv'
    OBVIOUS
<1>1. /\ input' = input /\ index' = index /\ components' = components /\ matches' = matches
      /\ warnings' = warnings /\ next' = next /\ hashed_files' = hashed_files /\ pc' = pc
    BY DEF identity_vars
<1>2. /\ IdentityTypeOK' \/ pc' \notin {"parse", "load", "match", "apply", "merge", "merged"}
      /\ Truthful(index)' /\ (\A m \in ToSet(matches) : Earned(m))' /\ HighExplainsTheRoot'
      /\ BudgetWarned' <=> BudgetWarned
      /\ Counts' <=> Counts
      /\ Merged' = Merged /\ Roots' = Roots /\ budget' = budget
      /\ (\A m \in ToSet(matches) : \A r \in Copies(m.root) : Names(m.library, m.version, r))' <=>
             (\A m \in ToSet(matches) : \A r \in Copies(m.root) : Names(m.library, m.version, r))
      /\ \A c, root : /\ Plain(c, root)' <=> Plain(c, root)
                      /\ Known(c, root)' <=> Known(c, root)
    BY <1>1, PlaceClaims
<1>3. IdentityTypeOK'
    BY <1>1, <1>2 DEF IdentityInv
<1>4. \A root : (Waits(root)' <=> Waits(root)) /\ (Awaited(root)' <=> Awaited(root))
    BY <1>1, <1>2 DEF Waits, Awaited
<1>5. Proper => Proper'
    BY <1>1, <1>2, <1>4 DEF Proper
<1>6. PristineIsNamed => PristineIsNamed'
    BY <1>1, <1>2, TreeStays DEF PristineIsNamed, IsCopy, IsOfOne, HasVersionOf
<1> QED BY <1>1, <1>2, <1>3, <1>5, <1>6 DEF ClaimsInv

LEMMA ClaimsHold == IdentitySpec => []ClaimsInv
<1>1. IdentityInv /\ IdentityInv' /\ ClaimsInv /\ [IdentityNext]_identity_vars => ClaimsInv'
    BY ParseClaims, LoadClaims, MatchClaims, DoneClaims, ApplyClaims, MergeClaims, NothingClaims DEF IdentityNext
<1> QED BY <1>1, ClaimsInit, IdentityHolds, PTL DEF IdentitySpec

\* The components are well formed, the budget of files is never overspent, and no root is
\* matched that is not listed (run_fingerprint_matching).
THEOREM IdentityTypeCorrect == IdentitySpec => []IdentityTypeOK
<1>1. ClaimsInv => IdentityTypeOK
    BY DEF ClaimsInv
<1> QED BY <1>1, ClaimsHold, PTL

\* "High" is earned by the bytes under the root, and an unmodified copy of one release is
\* named for what it is (match_root, confidence_for, apply_fingerprint_matches).
THEOREM CorpusClaimsEarned == IdentitySpec => []CorpusClaimsAreEarned
<1>1. ClaimsInv => CorpusClaimsAreEarned
    BY DEF ClaimsInv, CorpusClaimsAreEarned
<1> QED BY <1>1, ClaimsHold, PTL
================================================================================
