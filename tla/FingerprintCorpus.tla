--------------------------- MODULE FingerprintCorpus ---------------------------
(***************************************************************************)
(* The corpus of upstream releases (src/src/heuristics/fingerprint.cpp):    *)
(* how its index is loaded, and which release, if any, the files under a    *)
(* vendored root are attributed to by their content alone.                 *)
(*                                                                         *)
(* A content stands for its bytes and its SHA-256.                         *)
(***************************************************************************)
EXTENDS VendoredSources

CONSTANTS
    MaxLibraries, MaxReleases, MaxDigests, MaxReleasesPerDigest,   \* LoadLimits
    NameOrder             \* the names of the libraries, in lexicographic order

\* Contents that are never judged, and one whose fast hash is that of another.
Unjudged == {"unreadable", "oversized", "tiny"}
FastHash(content) == IF content = "collides" THEN "c1" ELSE content

------------------------------------------------------------------------------
NoIndex == [libraries |-> <<>>, releases |-> <<>>, refs |-> <<>>, prefilter |-> {}]

\* Libraries and releases are referred to by position: one that is incomplete, or one
\* too many, and the document is refused.
load_libraries(document) ==
    /\ Len(document.libraries) <= MaxLibraries
    /\ \A k \in DOMAIN document.libraries : document.libraries[k] # ""

load_releases(document) ==
    /\ Len(document.releases) <= MaxReleases
    /\ \A k \in DOMAIN document.releases :
          LET release == document.releases[k]
          IN release.library \in DOMAIN document.libraries /\ release.file_count > 0 /\ release.version # <<>>

\* Files are not: a malformed entry is skipped, and those past the budget are left out.
IsUsable(document, entry) ==
    /\ entry.digest # "" /\ entry.releases # {}
    /\ Cardinality(entry.releases) <= MaxReleasesPerDigest
    /\ entry.releases \subseteq DOMAIN document.releases

load_files(document) ==
    LET usable == {k \in DOMAIN document.files : IsUsable(document, document.files[k])}
        loaded == {k \in usable : Cardinality({j \in usable : j < k}) < MaxDigests}
        read == IF Cardinality(loaded) = MaxDigests THEN 1 .. Max(loaded) ELSE DOMAIN document.files
    IN [refs |-> [digest \in {document.files[k].digest : k \in loaded} |->
                    UNION {document.files[k].releases : k \in {j \in loaded : document.files[j].digest = digest}}],
        incomplete |-> read # DOMAIN document.files \/ ~(read \subseteq usable)]

load_prefilter(document) == document.prefilter \ {"malformed"}

\* A document this build does not understand is an empty corpus.
load_index(document) ==
    LET files == load_files(document)
        Refused(code) == [index |-> NoIndex, warnings |-> {code}]
    IN CASE document.problem # "none" -> Refused("kFingerprintIndexUnreadable")
         [] document.problem = "none" /\ document.schema_version # 1 ->
                Refused("kFingerprintIndexSchemaUnsupported")
         [] document.problem = "none" /\ document.schema_version = 1 ->
                IF ~load_libraries(document) \/ ~load_releases(document)
                THEN Refused("kFingerprintIndexUnreadable")
                ELSE [index |-> [libraries |-> document.libraries, releases |-> document.releases,
                                 refs |-> files.refs, prefilter |-> load_prefilter(document)],
                      warnings |-> IF files.incomplete \/ "malformed" \in document.prefilter
                                   THEN {"kFingerprintIndexEntrySkipped"} ELSE {}]

------------------------------------------------------------------------------
\* Without a prefilter every content may be known.
may_contain_fast_hash(index, hash) == index.prefilter = {} \/ hash \in index.prefilter

releases_for_digest(index, content) ==
    IF content \in DOMAIN index.refs THEN index.refs[content] ELSE {}

\* What the two passes find for a file.
ReleasesOf(index, content) ==
    IF may_contain_fast_hash(index, FastHash(content)) THEN releases_for_digest(index, content) ELSE {}

LibrariesOf(index, content) == {index.releases[r].library : r \in ReleasesOf(index, content)}

\* The positions of the files of a root that count, and how many come before one.
Judged(files) == {k \in DOMAIN files : files[k].content \notin Unjudged}
JudgedBefore(files, k) == Cardinality({j \in Judged(files) : j < k})

\* The content of the files that are still hashed, in index order, by their position.
Hashed(files, budget) ==
    [k \in {j \in Judged(files) : JudgedBefore(files, j) < budget} |-> files[k].content]

\* The budget is looked at before each file, also before one that is not judged.
BudgetMet(files, budget) == \E k \in DOMAIN files : JudgedBefore(files, k) >= budget

\* How many of the hashed files a release, and a library, explains.
MatchedByRelease(index, hashed, r) == Cardinality({k \in DOMAIN hashed : r \in ReleasesOf(index, hashed[k])})
MatchedByLibrary(index, hashed, l) == Cardinality({k \in DOMAIN hashed : l \in LibrariesOf(index, hashed[k])})

\* Between libraries that explain as many files, the smaller name decides.
Before(index, k, l) ==
    LET At(name) == CHOOSE i \in DOMAIN NameOrder : NameOrder[i] = name
    IN At(index.libraries[k]) < At(index.libraries[l])

best_library(index, hashed) ==
    LET Matched(l) == MatchedByLibrary(index, hashed, l)
        most == {l \in DOMAIN index.libraries : Matched(l) > 0
                    /\ \A k \in DOMAIN index.libraries : Matched(k) <= Matched(l)}
    IN {l \in most : \A k \in most \ {l} : Before(index, l, k)}

\* Variant for mutation: the releases that explain most, whatever else they hold.
BestByMatchesAlone(index, hashed, l) ==
    LET Matched(r) == MatchedByRelease(index, hashed, r)
        own == {r \in DOMAIN index.releases : index.releases[r].library = l /\ Matched(r) > 0}
    IN {r \in own : \A q \in own : Matched(q) <= Matched(r)}

\* Of its releases, those that explain most of the files, and of these the ones of which
\* least is missing.
best_releases(index, hashed, l) ==
    LET Matched(r) == MatchedByRelease(index, hashed, r)
        Better(q, r) == \/ Matched(q) > Matched(r)
                        \/ /\ Matched(q) = Matched(r)
                           /\ index.releases[q].file_count < index.releases[r].file_count
        own == {r \in DOMAIN index.releases : index.releases[r].library = l /\ Matched(r) > 0}
    IN {r \in own : ~\E q \in own : Better(q, r)}

confidence_for(matched, considered, file_count, unique) ==
    CASE ~unique -> "Low"
      [] unique /\ matched >= 3 /\ 4 * matched >= 3 * considered /\ 2 * matched >= file_count -> "High"
      [] OTHER -> "Medium"

\* The attribution of one root: none when fewer than one file in eight is explained, and
\* a version only when a single one is left.
match_root(index, root, hashed) ==
    LET considered == Cardinality(DOMAIN hashed)
        MatchOf(l) ==
            LET best == best_releases(index, hashed, l)
                one == CHOOSE r \in best : TRUE
                matched == MatchedByRelease(index, hashed, one)
                versions == {index.releases[r].version : r \in best}
                unique == Cardinality(versions) = 1
            IN [root |-> root, library |-> index.libraries[l], license |-> "Zlib", matched |-> matched,
                version |-> IF unique THEN index.releases[one].version ELSE <<>>,
                candidates |-> IF unique THEN {} ELSE versions,
                confidence |-> confidence_for(matched, considered, index.releases[one].file_count, unique)]
    IN {m \in {MatchOf(l) : l \in best_library(index, hashed)} : 8 * m.matched >= considered}
==============================================================================
