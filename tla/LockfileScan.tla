----------------------------- MODULE LockfileScan -----------------------------
(***************************************************************************)
(* parse() of the lockfile and manifest parsers (src/src/parsers/lockfiles, *)
(* cpp/conan.cpp, vcpkg.cpp and submodules.cpp, ci/github_actions.cpp,      *)
(* embedded/west.cpp): the loop over the files of one ecosystem they share, *)
(* with the file limit and the package budget, around the readers of        *)
(* LockfileLines, LockfileEntries, ManifestReaders and GitSources.          *)
(*                                                                         *)
(* What a file holds is chosen as it is read and kept in lines, so that the *)
(* result can be compared with what the files say as a whole.               *)
(***************************************************************************)
EXTENDS GitSources

CONSTANTS
    MaxFiles,             \* files of the ecosystem in the index
    MaxLines,             \* lines of the last file, when alone and its reader keeps state between lines
    MaxEntries,           \* lines or entries otherwise, of all the files together
    Limits,               \* values of max_total_packages and max_scanned_files
    Formats               \* the formats of the run

ASSUME FilesAssumption == MaxFiles \in Nat
ASSUME LimitsAssumption == Limits \subseteq Nat

VARIABLES
    format,               \* the format of the run
    index,                \* the files: name and directory
    budget, openings,     \* package_budget, and files still to be opened
    file,                 \* the file being read, the last one read
    reader,               \* the locals of its reader
    lines,                \* what was read of each file
    components,           \* <<file, package>>
    warnings,             \* <<file, code>>; file 0 stands for a limit
    complete,
    pc                    \* "next", "reading", "returned", "thrown"

vars == <<format, index, budget, openings, file, reader, lines, components, warnings, complete, pc>>

------------------------------------------------------------------------------
\* The readers, by format.
Start(f) ==
    CASE f = "rubygems" -> GemStart [] f = "pub" -> PubStart [] f = "pnpm" -> PnpmStart
      [] f = "classic" -> ClassicStart [] f = "berry" -> BerryStart
      [] f = "conanfile.txt" -> ConanTxtStart [] f = "conanfile.py" -> ConanPyStart
      [] f \in {"vcpkg", "port"} -> VcpkgStart [] f = "workflow" -> WorkflowStart
      [] f = "west" -> WestStart [] f = "pom" -> PomStart [] f = "gitmodules" -> GitStart [] OTHER -> Said

Read(f, s, x) ==
    CASE f = "go" -> GoLine(s, x) [] f = "rubygems" -> GemLine(s, x)
      [] f = "pub" -> PubLine(s, x) [] f = "pnpm" -> PnpmLine(s, x)
      [] f = "classic" -> ClassicLine(s, x) [] f = "berry" -> BerryLine(s, x)
      [] f = "npm" -> NpmEntry(s, x) [] f = "cargo" -> CargoEntry(s, x)
      [] f = "uv" -> UvEntry(s, x) [] f = "poetry" -> PoetryEntry(s, x)
      [] f = "requirements" -> RequirementsLine(s, x) [] f = "gradle" -> GradleLine(s, x)
      [] f = "composer.lock" -> ComposerEntry(s, x) [] f = "composer.json" -> ManifestEntry(s, x)
      [] f = "packages.lock" -> PackagesLockEntry(s, x)
      [] f = "packages.config" -> PackagesConfigEntry(s, x)
      [] f = "conanfile.txt" -> ConanTxtLine(s, x) [] f = "conanfile.py" -> ConanPyLine(s, x)
      [] f = "conan.lock" -> ConanLockEntry(s, x) [] f \in {"vcpkg", "port"} -> VcpkgEntry(s, x)
      [] f = "workflow" -> WorkflowLine(s, x) [] f = "west" -> WestLine(s, x)
      [] f = "pom" -> PomEntry(s, x) [] f = "gitmodules" -> GitLine(s, x)

Ended(f, s) ==
    CASE f = "pub" -> PubEnd(s) [] f = "pnpm" -> PnpmEnd(s) [] f = "classic" -> ClassicEnd(s)
      [] f = "berry" -> BerryEnd(s) [] f = "west" -> WestEnd(s)
      [] f = "gitmodules" -> GitEnd(s) [] OTHER -> s

Alphabet(f, k) ==
    CASE f = "go" -> GoLines [] f = "rubygems" -> GemLines [] f = "pub" -> PubLines
      [] f = "pnpm" -> PnpmLines
      [] f = "classic" -> ClassicLines [] f = "berry" -> BerryLines
      [] f = "npm" -> NpmEntries [] f = "cargo" -> CargoEntries [] f = "uv" -> UvEntries
      [] f = "poetry" -> PoetryEntries [] f = "requirements" -> RequirementsLines
      [] f = "gradle" -> GradleLines [] f = "composer.lock" -> ComposerEntries
      [] f = "composer.json" -> ManifestEntries [] f = "packages.lock" -> PackagesLockEntries
      [] f = "packages.config" -> PackagesConfigEntries
      [] f = "conanfile.txt" -> ConanTxtLines [] f = "conanfile.py" -> ConanPyLines
      [] f = "conan.lock" -> ConanLockEntries [] f = "workflow" -> WorkflowLines
      [] f = "west" -> WestLines [] f = "gitmodules" -> GitLines
      [] f = "pom" -> IF k = 1 THEN PomDocuments ELSE PomDependencies
      [] f \in {"vcpkg", "port"} ->
            IF k > 1 THEN VcpkgDependencies
            ELSE {d \in VcpkgDocuments : d[2] = "none" <=> f = "vcpkg"}

\* Either a document has the array of its packages or one package in its place; of the
\* two arrays of a composer.lock each stands for itself.
Together(f, read, x) ==
    CASE f \in {"cargo", "uv", "poetry"} -> \A y \in Elements(read) : y.listed /\ x.listed
      [] f = "composer.lock" -> \A y \in Elements(read) : y.array = x.array => y.listed = x.listed
      [] OTHER -> TRUE

Locked(f, x) ==
    CASE f = "go" -> GoLocked(x) [] f = "rubygems" -> GemLocked(x) [] f = "pub" -> PubLocked(x)
      [] f = "pnpm" -> PnpmLocked(x) [] f = "classic" -> ClassicLocked(x)
      [] f = "berry" -> BerryLocked(x) [] f = "npm" -> NpmLocked(x) [] f = "cargo" -> CargoLocked(x)
      [] f = "uv" -> UvLocked(x) [] f = "poetry" -> PoetryLocked(x)
      [] f = "requirements" -> RequirementsLocked(x) [] f = "gradle" -> GradleLocked(x)
      [] f = "composer.lock" -> ComposerLocked(x) [] f = "composer.json" -> ManifestLocked(x)
      [] f = "packages.lock" -> PackagesLockLocked(x)
      [] f = "packages.config" -> PackagesConfigLocked(x)
      [] f = "conanfile.txt" -> ConanTxtLocked(x) [] f = "conanfile.py" -> ConanPyLocked(x)
      [] f = "conan.lock" -> ConanLockLocked(x) [] f \in {"vcpkg", "port"} -> VcpkgLocked(x)
      [] f = "workflow" -> WorkflowLocked(x) [] f = "west" -> WestLocked(x)
      [] f = "pom" -> PomLocked(x) [] f = "gitmodules" -> GitLocked(x)

\* What is locked where the reader looks; of the rest it tells no one.
Sought(f, x) ==
    CASE f = "pnpm" -> PnpmSought(x)
      [] f = "cargo" -> CargoPackages(Listed(x)) [] f = "uv" -> UvPackages(Listed(x))
      [] f = "poetry" -> PoetryPackages(Listed(x))
      [] f = "composer.lock" -> ComposerPackages(Listed(x))
      [] OTHER -> Locked(f, x)

\* The warnings with which a whole document is refused once it was read.
Gate(f) ==
    CASE f = "npm" -> NpmGate [] f \in {"cargo", "uv", "poetry"} -> {"kInvalidToml"}
      [] f = "composer.lock" -> ComposerGate [] f = "composer.json" -> ManifestGate
      [] f = "packages.lock" -> NugetGate [] f = "conan.lock" -> ConanLockGate
      [] f \in {"vcpkg", "port"} -> VcpkgGate [] OTHER -> {}

\* "never `complete = false`" (conan.hpp, vcpkg.hpp, github_actions.hpp): these say
\* by warnings alone that a limit was met, and go on with the next file.
AlwaysComplete == {"conan", "vcpkg", "workflow", "submodules"}

\* What is still to be read of such a file can only add to its warnings, except
\* that these two readers go through it.
ReadsOn == {"conan.lock", "workflow"}

------------------------------------------------------------------------------
\* The files of an ecosystem, each given to the one reader of its name, and those
\* of them that are read up to the last whole line when oversized: the others are
\* skipped. (A yarn.lock is read by the one of two readers its first lines call for.)
NpmFiles == [names |-> {"npm"}, prefix |-> {}]
CargoFiles == [names |-> {"cargo"}, prefix |-> {}]
GoFiles == [names |-> {"go"}, prefix |-> {"go"}]
GemFiles == [names |-> {"rubygems"}, prefix |-> {"rubygems"}]
PubFiles == [names |-> {"pub"}, prefix |-> {"pub"}]
PnpmFiles == [names |-> {"pnpm"}, prefix |-> {"pnpm"}]
YarnFiles == [names |-> {"classic", "berry"}, prefix |-> {"classic", "berry"}]
PythonFiles == [names |-> {"uv", "poetry", "requirements"}, prefix |-> {"requirements"}]
ComposerFiles == [names |-> {"composer.json", "composer.lock"}, prefix |-> {}]
NugetFiles == [names |-> {"packages.lock", "packages.config"}, prefix |-> {}]
MavenFiles == [names |-> {"gradle", "pom"}, prefix |-> {"gradle"}]

\* The manifest parsers.
ConanFiles == [names |-> {"conanfile.txt", "conanfile.py", "conan.lock"},
               prefix |-> {"conanfile.txt", "conanfile.py"}]
VcpkgFiles == [names |-> {"vcpkg", "port"}, prefix |-> {}]
WorkflowFiles == [names |-> {"workflow"}, prefix |-> {"workflow"}]
WestFiles == [names |-> {"west"}, prefix |-> {}]
SubmoduleFiles == [names |-> {"gitmodules"}, prefix |-> {"gitmodules"}]

Files(f) ==
    CASE f = "npm" -> NpmFiles [] f = "cargo" -> CargoFiles [] f = "go" -> GoFiles
      [] f = "rubygems" -> GemFiles [] f = "pub" -> PubFiles [] f = "pnpm" -> PnpmFiles
      [] f = "yarn" -> YarnFiles [] f = "python" -> PythonFiles [] f = "composer" -> ComposerFiles
      [] f = "nuget" -> NugetFiles [] f = "maven" -> MavenFiles
      [] f = "conan" -> ConanFiles [] f = "vcpkg" -> VcpkgFiles
      [] f = "workflow" -> WorkflowFiles [] f = "west" -> WestFiles [] f = "submodules" -> SubmoduleFiles

Init ==
    /\ format \in Formats
    /\ index \in [1 .. MaxFiles -> [name : Files(format).names, dir : {"d", "e"}]]
    /\ format # "composer" => \A k \in 1 .. MaxFiles : index[k].dir = "d"
    /\ budget \in Limits /\ openings \in Limits
    /\ file = 0 /\ reader = Said /\ lines = [k \in 1 .. MaxFiles |-> <<>>]
    /\ components = {} /\ warnings = {} /\ complete = TRUE /\ pc = "next"

Warned(k, codes) == warnings' = warnings \cup ({k} \X codes)

\* A composer.json beside a composer.lock is not opened, whatever the lock is. Of
\* the .gitmodules there is only the one of the root.
Passed(k) ==
    \/ /\ index[k].name = "composer.json"
       /\ \E j \in 1 .. MaxFiles : index[j] = [name |-> "composer.lock", dir |-> index[k].dir]
    \/ index[k].name = "gitmodules" /\ k < MaxFiles

\* Variant for mutation: the budget ends the walk as soon as it is spent.
StopsAtZero == budget = 0

\* A further package has already met the spent budget.
Exhausted == budget = 0 /\ ~complete

PassFile ==
    /\ pc = "next" /\ file < MaxFiles /\ Passed(file + 1)
    /\ file' = file + 1
    /\ UNCHANGED <<format, index, budget, openings, reader, lines, components, warnings, complete, pc>>

\* pub and west have read every file before they parse the first one, and so still
\* warn of those they cannot read; the others stop opening files.
OpenFile ==
    /\ pc = "next" /\ file < MaxFiles /\ ~Passed(file + 1)
    /\ openings > 0
    /\ ~Exhausted \/ format \in {"pub", "west"}
    /\ openings' = openings - 1
    /\ file' = file + 1
    /\ \E read \in {"ok", "kUnreadableFile", "kFileSizeLimitExceeded"} \cup Gate(index[file'].name) :
          LET parsed == ~Exhausted /\ \/ read = "ok"
                                      \/ /\ read = "kFileSizeLimitExceeded"
                                         /\ index[file'].name \in Files(format).prefix
          IN /\ Warned(file', {read} \ {"ok"})
             /\ pc' = IF parsed THEN "reading" ELSE "next"
             /\ reader' = IF parsed THEN Start(index[file'].name) ELSE Said
    /\ UNCHANGED <<format, index, budget, lines, components, complete>>

\* Variant for mutation: what was skipped is not warned of when a limit is met.
SaidDropsCounts(s, last) ==
    LET over == s.tried /\ budget = 0
        leaves == (over /\ index[file].name \notin ReadsOn) \/ s.stop \/ last
    IN /\ components' = IF over THEN components ELSE components \cup ({file} \X s.emit)
       /\ budget' = IF s.tried /\ ~over THEN budget - 1 ELSE budget
       /\ complete' = (complete /\ (~over \/ format \in AlwaysComplete))
       /\ warnings' = warnings \cup (IF leaves /\ s.counted THEN {<<file, "skipped">>} ELSE {})
       /\ reader' = IF leaves THEN Said ELSE Silent(s)
       /\ pc' = IF leaves THEN "next" ELSE "reading"

\* What a reader's step says becomes a component, unless the budget is spent:
\* then the file is left, after the warnings for what it skipped.
Said_(s, last) ==
    LET over == s.tried /\ budget = 0
        leaves == (over /\ index[file].name \notin ReadsOn) \/ s.stop \/ last
    IN /\ components' = IF over THEN components ELSE components \cup ({file} \X s.emit)
       /\ budget' = IF s.tried /\ ~over THEN budget - 1 ELSE budget
       /\ complete' = (complete /\ (~over \/ format \in AlwaysComplete))
       /\ warnings' = warnings
              \cup (IF over THEN {<<0, "kEntryLimitReached">>} ELSE {})
              \cup (IF leaves /\ s.counted THEN {<<file, "skipped">>} ELSE {})
       /\ reader' = IF leaves THEN Said ELSE Silent(s)
       /\ pc' = IF leaves THEN "next" ELSE "reading"

\* Bound: the lines read of a file whose reader keeps state between lines, fewer for
\* the larger alphabets.
Bound(f) == CASE f = "pom" -> MaxLines - 2
              [] f \in {"workflow", "conanfile.txt", "conanfile.py", "gitmodules"} -> MaxLines - 1
              [] OTHER -> MaxLines

\* The next line or entry of the file. Nothing catches what an npm entry throws.
ReadItem ==
    /\ pc = "reading" /\ ~reader.ending
    /\ LET total == FoldFunction(LAMBDA x, y : Len(x) + y, 0, lines)
           alone == Start(index[file].name) # Said /\ file = MaxFiles /\ total = Len(lines[file])
       IN total < (IF alone THEN Bound(index[file].name) ELSE MaxEntries)
    /\ \E x \in Alphabet(index[file].name, Len(lines[file]) + 1) :
          /\ Together(index[file].name, lines[file], x)
          /\ lines' = [lines EXCEPT ![file] = Append(@, x)]
          /\ IF format = "npm" /\ NpmThrows(x, budget)
             THEN pc' = "thrown" /\ UNCHANGED <<budget, reader, components, warnings, complete>>
             ELSE Said_(Read(index[file].name, reader, x), FALSE)
    /\ UNCHANGED <<format, index, openings, file>>

\* west resolves its projects at the end, one after the other.
EndFile ==
    /\ pc = "reading"
    /\ LET ended == Ended(index[file].name, reader) IN Said_(ended, ~ended.ending)
    /\ UNCHANGED <<format, index, openings, file, lines>>

\* The end of the files, the file limit or the spent budget.
Return ==
    /\ pc = "next"
    /\ file < MaxFiles => ~Passed(file + 1) /\ (openings = 0 \/ (Exhausted /\ format \notin {"pub", "west"}))
    /\ IF file < MaxFiles /\ openings = 0 THEN Warned(0, {"kFileLimitReached"})
       ELSE UNCHANGED warnings
    /\ components' = IF format = "composer"
                     THEN LET kept == DropVersionless({c[2] : c \in components})
                          IN {c \in components : c[2] \in kept}
                     ELSE components
    /\ pc' = "returned"
    /\ UNCHANGED <<format, index, budget, openings, file, reader, lines, complete>>

Next == PassFile \/ OpenFile \/ ReadItem \/ EndFile \/ Return

Spec == Init /\ [][Next]_vars

------------------------------------------------------------------------------
Returned == pc = "returned"

TypeOK ==
    /\ format \in Formats /\ budget \in Nat /\ openings \in Nat
    /\ file \in 0 .. MaxFiles /\ complete \in BOOLEAN
    /\ pc \in {"next", "reading", "returned", "thrown"}

Missing(k) == {p \in Sought(index[k].name, lines[k]) : <<k, p>> \notin components}

\* "degrades to a skip counted in one summary warning: never a crash (Hard Rule 1)"
\* (nuget.cpp), "an entry can never be dropped without being counted" (pnpm.cpp): a
\* package a lockfile locks is in the result, or a warning names its file or the limit
\* that ended the run; a composer.json may give way to the versioned entry of the same
\* name. It is a package where a reader looks (Sought): those of a pnpm-lock.yaml before
\* its lockfileVersion, and those of a Cargo.lock, uv.lock, poetry.lock or composer.lock
\* that are in no array, are dropped without a word.
NothingSilentlyDropped ==
    Returned => \A k \in 1 .. file : Missing(k) # {} =>
        \/ \E w \in warnings : w[1] \in {0, k}
        \/ /\ index[k].name = "composer.json"
           /\ \A p \in Missing(k) : \E c \in components :
                 c[2].versioned /\ c[2].name = p.name /\ (p.scope = "Required" => c[2].scope = "Required")

\* Every component is one its own file locks: nothing of an entry, a section or
\* a file before it is left in the reader's locals.
NoCrossTalk ==
    \A c \in components : c[2] \in Locked(index[c[1]].name, lines[c[1]])

\* complete is FALSE exactly when a package met a spent budget, which is warned
\* of; a result cut short always says so.
LimitsAreReported ==
    /\ complete <=> format \in AlwaysComplete \/ <<0, "kEntryLimitReached">> \notin warnings
    /\ Returned /\ file < MaxFiles => \E w \in warnings : w[1] = 0

==============================================================================
