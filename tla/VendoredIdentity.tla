---------------------------- MODULE VendoredIdentity ----------------------------
(***************************************************************************)
(* The identity of vendored sources, from the tree to the merged list       *)
(* (src/src/cli/scan_command.cpp, cli/scan_fingerprint.cpp, core/model.cpp):*)
(* the heuristic's components are added to those of the other producers,    *)
(* the corpus is loaded and matched root by root under one budget, its      *)
(* matches are applied by location, and equal purls are merged.             *)
(***************************************************************************)
EXTENDS FingerprintCorpus

CONSTANTS
    Dirs,                 \* the directories of the tree, in the order of the file index
    Inputs                \* the inputs: see below

VARIABLES
    input,
    components,           \* the list as it is assembled and merged
    index,
    next,                 \* the vendored root that is matched next
    hashed_files,
    matches,              \* still to be applied
    warnings,             \* <<code, root>>
    pc                    \* "parse", "load", "match", "apply", "merge", "merged"

identity_vars == <<input, components, index, next, hashed_files, matches, warnings, pc>>

\* The files of each directory, what is left of a .git in each vendored root, the
\* components of the other producers, the document of the corpus, which may not be
\* named, and max_hashed_files.
tree == input.tree
git == input.git
others == input.others
document == input.document
budget == input.budget

Scopes == {"Required", "Optional", "Excluded"}
Confidences == {"Low", "Medium", "High"}
IsSequence(s) == s \in Seq(ToSet(s))

\* A purl spells the version, or leaves it out: a workflow's unresolved ref is the version
\* of its component and no part of the purl, which is then a forge's and not generic.
IsComponent(c) ==
    /\ c = [purl |-> c.purl, version |-> c.version, root |-> c.root, scope |-> c.scope,
            supplier |-> c.supplier, license |-> c.license, evidence |-> c.evidence]
    /\ c.scope \in Scopes /\ \A e \in c.evidence : e.confidence \in Confidences
    /\ c.purl.version \in {{}, {c.version}}
    /\ c.purl.version = {} /\ c.purl.type = "generic" => c.version = <<>>

IsText(f) ==
    /\ IsSequence(f.text) /\ f.window \in 0 .. Len(f.text)
    /\ \A line \in ToSet(f.text) :
          /\ line = [macro |-> line.macro, form |-> line.form, value |-> line.value]
          /\ IsSequence(line.value)

\* Evidence of the sources "Heuristic" and "Fingerprint" is given by no other producer.
InputsAssumption ==
    \A i \in Inputs :
        /\ IsSequence(i.others)
        /\ \A k \in DOMAIN i.others :
              /\ IsComponent(i.others[k])
              /\ \A e \in i.others[k].evidence : e.source \notin {"Heuristic", "Fingerprint"}
        /\ IsSequence(i.document.files) /\ IsSequence(i.document.releases) /\ i.budget \in Nat
        /\ \A k \in DOMAIN i.document.releases : i.document.releases[k].file_count \in Nat
        /\ \A d \in ToSet(Dirs) : IsSequence(i.tree[d]) /\ \A f \in ToSet(i.tree[d]) : IsText(f)
ASSUME TreeAssumption == IsSequence(Dirs) /\ InputsAssumption

------------------------------------------------------------------------------
\* The vendored root of each directory; those with files, sorted; and their files.
RootOf == [d \in ToSet(Dirs) |-> vendor_root_for(d)]

Roots ==
    LET seen[i \in 0 .. Len(Dirs)] ==
            IF i = 0 THEN <<>>
            ELSE LET root == RootOf[Dirs[i]]
                     before == seen[i - 1]
                 IN IF root = NoRoot \/ tree[Dirs[i]] = <<>> \/ Contains(before, root)
                    THEN before ELSE Append(before, root)
    IN seen[Len(Dirs)]

FilesUnder(root) ==
    LET under[i \in 0 .. Len(Dirs)] ==
            IF i = 0 THEN <<>>
            ELSE under[i - 1] \o IF RootOf[Dirs[i]] = root THEN tree[Dirs[i]] ELSE <<>>
    IN under[Len(Dirs)]

IdentityInit ==
    /\ input \in Inputs
    /\ components = <<>> /\ index = NoIndex /\ next = 1 /\ hashed_files = 0
    /\ matches = <<>> /\ warnings = {} /\ pc = "parse"

\* vendored_cpp::parse sorts by purl, and leaves equal purls in either order.
Parse ==
    /\ pc = "parse"
    /\ \E order \in {Roots, Reverse(Roots)} :
          components' = others \o [k \in DOMAIN order |->
                                      build_component(order[k], FilesUnder(order[k]), git[order[k]])]
    /\ pc' = "load"
    /\ UNCHANGED <<input, index, next, hashed_files, matches, warnings>>

LoadIndex ==
    /\ pc = "load"
    /\ LET loaded == load_index(document)
           nothing == [index |-> NoIndex, warnings |-> {}]
           result == IF document.problem = "not named" THEN nothing ELSE loaded
       IN /\ index' = result.index
          /\ warnings' = result.warnings \X {NoRoot}
          /\ pc' = IF DOMAIN result.index.refs = {} THEN "merge" ELSE "match"
    /\ UNCHANGED <<input, components, next, hashed_files, matches>>

\* The budget of files is shared by the roots, and may run out in the midst of one: that
\* one is judged by the files hashed so far.
MatchRoot ==
    /\ pc = "match" /\ next <= Len(Roots)
    /\ LET root == Roots[next]
           left == budget - hashed_files
           hashed == Hashed(FilesUnder(root), left)
           code == "kFingerprintFileBudgetReached"
       IN /\ IF match_root(index, root, hashed) = {} THEN matches' = matches
             ELSE \E match \in match_root(index, root, hashed) : matches' = Append(matches, match)
          /\ hashed_files' = hashed_files + Cardinality(DOMAIN hashed)
          /\ warnings' = IF BudgetMet(FilesUnder(root), left) /\ ~\E w \in warnings : w[1] = code
                         THEN warnings \cup {<<code, root>>} ELSE warnings
    /\ next' = next + 1
    /\ UNCHANGED <<input, components, index, pc>>

MatchesDone ==
    /\ pc = "match" /\ next > Len(Roots)
    /\ pc' = "apply"
    /\ UNCHANGED <<input, components, index, next, hashed_files, matches, warnings>>

------------------------------------------------------------------------------
\* Nothing better than the directory's own name is known of the component.
identity_is_folder_derived(c) ==
    c.version = <<>> /\ c.root # NoRoot /\ c.purl = folder_derived_purl(c.root)

\* What a match makes of a component at its location.
Enriched(c, match) ==
    LET cited == [c EXCEPT !.evidence = @ \cup {[source |-> "Fingerprint", confidence |-> match.confidence,
                                                 detail |-> <<"corpus", match.root, match.library, match.version>>]},
                           !.license = IF @ = "" THEN match.license ELSE @]
    IN IF identity_is_folder_derived(c)
       THEN [cited EXCEPT !.version = match.version,
                          !.purl = [type |-> "generic", name |-> match.library, version |-> Spelled(match.version)]]
       ELSE cited

Disagrees(c, match) ==
    /\ ~identity_is_folder_derived(c)
    /\ c.version # <<>> /\ match.version # <<>> /\ c.version # match.version

ApplyMatch ==
    /\ pc = "apply" /\ matches # <<>>
    /\ LET match == Head(matches)
           at == {k \in DOMAIN components : components[k].root = match.root}
       IN /\ components' = [k \in DOMAIN components |->
                 IF k \in at THEN Enriched(components[k], match) ELSE components[k]]
          /\ warnings' = warnings
                 \cup (IF at = {} THEN {<<"kFingerprintMatchWithoutComponent", match.root>>} ELSE {})
                 \cup (IF \E k \in at : Disagrees(components[k], match)
                       THEN {<<"kFingerprintVersionDisagreement", match.root>>} ELSE {})
    /\ matches' = Tail(matches)
    /\ UNCHANGED <<input, index, next, hashed_files, pc>>

MatchesApplied ==
    /\ pc = "apply" /\ matches = <<>>
    /\ pc' = "merge"
    /\ UNCHANGED <<input, components, index, next, hashed_files, matches, warnings>>

------------------------------------------------------------------------------
Rank(confidence) == CASE confidence = "Low" -> 0 [] confidence = "Medium" -> 1 [] confidence = "High" -> 2
scope_rank(scope) == CASE scope = "Required" -> 0 [] scope = "Optional" -> 1 [] scope = "Excluded" -> 2

\* Of the evidence that says the same, the most confident is kept.
normalize_evidence(evidence) ==
    {e \in evidence : \A f \in evidence :
        f.source = e.source /\ f.detail = e.detail => Rank(f.confidence) <= Rank(e.confidence)}

\* Variant for mutation: what the later component was found by is forgotten.
MergeForgetsEvidence(destination, source) ==
    [destination EXCEPT !.scope = IF scope_rank(source.scope) < scope_rank(@) THEN source.scope ELSE @]

\* What the first component lacks is taken from the next.
merge_into(destination, source) ==
    LET Filled(kept, other, nothing) == IF kept = nothing THEN other ELSE kept
    IN [destination EXCEPT
            !.version = Filled(@, source.version, <<>>),
            !.supplier = Filled(@, source.supplier, ""),
            !.license = Filled(@, source.license, ""),
            !.root = Filled(@, source.root, NoRoot),
            !.scope = IF scope_rank(source.scope) < scope_rank(@) THEN source.scope ELSE @,
            !.evidence = normalize_evidence(@ \cup source.evidence)]

component_identity(c) == c.purl

\* The first of an identity is kept, and takes in the later ones.
Taken(before, c) ==
    LET held == {k \in DOMAIN before : component_identity(before[k]) = component_identity(c)}
    IN IF held = {} THEN Append(before, [c EXCEPT !.evidence = normalize_evidence(@)])
       ELSE [k \in DOMAIN before |-> IF k \in held THEN merge_into(before[k], c) ELSE before[k]]

\* In the order of the list; nothing here depends on the order of the result.
merge_all(list) ==
    LET merged[n \in 0 .. Len(list)] == IF n = 0 THEN <<>> ELSE Taken(merged[n - 1], list[n])
    IN merged[Len(list)]

Merge ==
    /\ pc = "merge"
    /\ components' = merge_all(components)
    /\ pc' = "merged"
    /\ UNCHANGED <<input, index, next, hashed_files, matches, warnings>>

IdentityNext == Parse \/ LoadIndex \/ MatchRoot \/ MatchesDone \/ ApplyMatch \/ MatchesApplied \/ Merge

IdentitySpec == IdentityInit /\ [][IdentityNext]_identity_vars

------------------------------------------------------------------------------
Merged == {components[k] : k \in DOMAIN components}
Cites(c, what, root) == \E e \in c.evidence : e.source = "Heuristic" /\ e.detail = <<what, root>>
CorpusEvidence(c) == {e \in c.evidence : e.source = "Fingerprint"}

IdentityTypeOK ==
    /\ hashed_files \in 0 .. budget /\ next \in 1 .. Len(Roots) + 1
    /\ pc \in {"parse", "load", "match", "apply", "merge", "merged"}
    /\ \A c \in Merged : IsComponent(c)

\* "silently dropping an unrecognized vendored library is worse than reporting it vaguely"
\* (vendored_cpp.hpp): each vendored root, and each component of another producer with
\* its evidence and its scope, is still in the list once equal identities are merged; but
\* that the corpus may give another name to one that had no other than its folder's, and
\* that of two versions which their common purl does not spell the first is kept.
EveryFindingSurvives ==
    pc = "merged" =>
        /\ \A r \in ToSet(Roots) : \E c \in Merged : Cites(c, "directory", r)
        /\ \A k \in DOMAIN others : \E c \in Merged :
              /\ \/ /\ c.purl = others[k].purl
                    /\ c.version = others[k].version \/ c.purl.version = {}
                 \/ identity_is_folder_derived(others[k])
              /\ scope_rank(c.scope) <= scope_rank(others[k].scope)
              /\ \A e \in others[k].evidence : \E f \in c.evidence :
                    /\ f.source = e.source /\ f.detail = e.detail
                    /\ Rank(e.confidence) <= Rank(f.confidence)
        /\ \A c, d \in Merged : component_identity(c) = component_identity(d) => c = d

\* What the files under a root say of its version themselves: whole lines on disk,
\* however much of them is read.
States(f, macro, form, value) ==
    \E i \in DOMAIN f.text : f.text[i] = [macro |-> macro, form |-> form, value |-> value]

Declares(root, version) ==
    LET Named(row) == folder_names_library(Last(root), row.library)
    IN \/ git[root] \in {"commit", "origin"} /\ version = HeadCommit
       \/ \E k \in DOMAIN FilesUnder(root) :
             LET f == FilesUnder(root)[k]
             IN \/ \E row \in ToSet(VersionHeaderSignatures) :
                      row.header = f.name /\ States(f, row.macros[1], "quoted", version)
                \/ \E row \in ToSet(BareDottedVersionSignatures) :
                      row.header = f.name /\ Named(row) /\ States(f, row.macros[1], "bare", version)
                \/ \E row \in ToSet(SplitVersionSignatures) :
                      /\ row.header = f.name /\ Named(row) /\ Len(version) = 3
                      /\ \A i \in 1 .. 3 : States(f, row.macros[i], "bare", <<version[i]>>)

\* "never a wrong answer" (vendored_cpp.cpp): the version of a vendored root is one its
\* own files state, or that of the release the corpus attributes it to when it has none;
\* a release other than the one its purl spells never replaces it, and is warned of.
VersionsAreGrounded ==
    pc = "merged" => \A c \in Merged :
        /\ \A r \in ToSet(Roots) : Cites(c, "directory", r) /\ c.version # <<>> =>
              \/ Declares(r, c.version)
              \/ /\ ~Cites(c, "header", r) /\ git[r] \notin {"commit", "origin"}
                 /\ \E e \in CorpusEvidence(c) : e.detail[2] = r /\ e.detail[4] = c.version
        /\ \A e \in CorpusEvidence(c) :
              c.purl.version # {} /\ c.version # <<>> /\ e.detail[4] # <<>> /\ e.detail[4] # c.version =>
                  <<"kFingerprintVersionDisagreement", e.detail[2]>> \in warnings

------------------------------------------------------------------------------
Contents(root) == {FilesUnder(root)[k].content : k \in Judged(FilesUnder(root))}
DigestsOf(r) == {document.files[k].digest : k \in {j \in DOMAIN document.files : r \in document.files[j].releases}}
CutShort(root) == <<"kFingerprintFileBudgetReached", root>> \in warnings

\* The files under a root are those of a release, and the index knows all of them.
IsCopy(root, r) ==
    /\ Contents(root) = DigestsOf(r) /\ index.releases[r].file_count = Cardinality(Contents(root))
    /\ \A content \in Contents(root) : r \in ReleasesOf(index, content)

\* No other library has all of them.
IsOfOne(root, library) ==
    \A l \in DOMAIN index.libraries \ {library} : \E content \in Contents(root) :
        \A q \in DOMAIN index.releases : index.releases[q].library = l => content \notin DigestsOf(q)

\* Its version, or none if the corpus has another release of the same files.
HasVersionOf(version, r) ==
    \/ version = index.releases[r].version
    \/ version = <<>> /\ \E q \in DOMAIN index.releases \ {r} : DigestsOf(q) = DigestsOf(r)

\* An unmodified copy of one release, which is not part of another library, is named for
\* what it is, by a corpus that counts no fewer files of a release than it has of it.
PristineIsNamed ==
    \A root \in ToSet(Roots), r \in DOMAIN index.releases :
        /\ IsCopy(root, r) /\ IsOfOne(root, index.releases[r].library)
        /\ \A q \in DOMAIN index.releases : Cardinality(DigestsOf(q)) <= index.releases[q].file_count
        /\ ~\E w \in warnings : w[1] = "kFingerprintFileBudgetReached"
        => \E c \in Merged :
             /\ Cites(c, "directory", root)
             /\ \/ Cites(c, "header", root) \/ git[root] \in {"commit", "origin"}
                \/ c.purl.name = index.libraries[index.releases[r].library] /\ HasVersionOf(c.version, r)

\* The releases of that name and version explain most of the files under a root.
Explained(root, library, version) ==
    LET files == FilesUnder(root)
        release == {r \in DOMAIN index.releases :
                       /\ index.libraries[index.releases[r].library] = library
                       /\ index.releases[r].version = version}
        explained == {k \in Judged(files) : \E r \in release : files[k].content \in DigestsOf(r)}
    IN Cardinality(explained) >= 3 /\ 4 * Cardinality(explained) >= 3 * Cardinality(Judged(files))

\* "High is reserved for a cryptographic byte match of several files against one pinned
\* upstream release that also explains most of what is on disk" (fingerprint.cpp), but
\* for the root in which the budget ran out.
HighExplainsTheRoot ==
    \A c \in Merged : \A e \in CorpusEvidence(c) :
        e.confidence = "High" /\ ~CutShort(e.detail[2]) => Explained(e.detail[2], e.detail[3], e.detail[4])

\* What the corpus says of a root is earned by the bytes under it.
CorpusClaimsAreEarned == pc = "merged" => PristineIsNamed /\ HighExplainsTheRoot
==============================================================================
