# bomwerk: verification development

TLA+ models of bomwerk, the SBOM scanner of this repository, checked with TLC on small instances
and, where a statement is about every value of the parameters, proved with TLAPS. Paths below are
relative to the repository; the code is under `src/`.

1. Inventory: the parts of the system, what each keeps, what makes it correct
2. Modules and how they correspond to the code
3. Runs: what each shows, bounds, fairness
4. Proofs
5. Where the code does not do what its comments say
6. What is not modelled, and why
7. Plan

## 1. Inventory

`bomwerk` is one command line program with subcommands (`scan`, `observe`, `trim`, `binscan`) and
a second binary, the shim that `observe` puts in the place of compilers and linkers.

**Scan pipeline** (`src/cli/scan_command.cpp`, `warning_recorder.hpp`, `core/exit_codes.hpp`).
Keeps the merged options, the components, the warnings with a `degraded` flag, and
`lockfile_scan_complete`. It calls every producer in a fixed order, merges their components, adds
licenses, build evidence and vulnerabilities, writes up to five artifacts and returns 0 (clean),
1 (warnings) or 2 (incomplete), remapped by `--fail-on`. Hard: an incomplete result ends the run
at once for some producers and at its end for others; the NVD pass runs on a thread beside the OSV
pass; artifacts fail one by one. Correct when the exit code tells the outcome, the report and the
warnings file hold every warning, and the bytes do not depend on which thread was faster.

**Lockfile parsers** (`src/parsers/lockfiles/`). One parser per ecosystem, each a loop over the files of
its names around one or more readers, with a limit on files and a budget of packages that all files
share. State: the reader's locals, the budget, the components, the skip counts that become one
warning each. Hard: readers of line formats carry a section, a name or a remote from line to line;
a limit may be met anywhere; one bad entry must not cost the others. Correct when what a file locks is in the
result or a warning says why not, nothing of one entry, section or file ends in another, and a
result cut short says so.

**C and C++ manifest parsers** (`src/parsers/cpp/`) and **CI and embedded manifest parsers** (`src/parsers/ci/`,
`src/parsers/embedded/`). The same loop for conan, vcpkg, workflows, west and git submodules, where a package carries
the confidence its declaration earns; submodules take their commit from `.git` directories read without git. CMake
commands (and .csproj projects) use variables defined in other files: the definitions of all files are collected
first, and a name with two values has none. Correct when a version is the one value all definitions agree on, no
declaration is lost silently and High means pinned.

**Vendored source heuristics** (`heuristics/vendored_cpp.cpp`, `vendor_root.cpp`) and **content
fingerprint** (`heuristics/fingerprint.cpp`, `cli/scan_fingerprint.cpp`). Libraries copied into the
tree: the vendored root of each path, its version from headers read up to a window, a leftover
`.git`, a licence; then the attribution of the files to a release of a corpus, under a
budget of hashed files, and the rewrite of what a component is. Correct when no library is lost, a
version is one something states, and what the corpus says is earned by the bytes.

**File index** (`core/file_index.cpp`, `manifest_walk.cpp`, `exclusions.cpp`). One sorted walk of
the tree, shared by the producers; links, excluded names and subtrees, unreadable directories.

**Component merge** (`core/model.cpp`, `core/purl.cpp`). Components with one identity become one,
after the corpus has corrected identities; correct when the evidence, scope and warnings of each survive.

**Stores** (`vuln/sqlite_support.cpp`, `vuln/cache.cpp`). SQLite files shared by every bomwerk
process of a user, of any version. State: the tables, `user_version`. Operations: open and
migrate, open read-only, store, lookup, transactions over a snapshot. Hard: several processes and
versions race, die in the middle, and any statement may fail. Correct when the version stamp
always tells which migrations ran and is never lowered, and no handle is given on a file older
than the binary.

**OSV matching** (`vuln/osv.cpp`, `vuln/delta.cpp`). Asks OSV for the advisories of each purl in
batches, follows continuation tokens, compares the answer with the stored snapshot, and fetches or
reuses the severities. State: the detection entry, the snapshot and the full-payload entry of each
purl in the cache; within a run the payloads, tokens and follow-up pages. Hard: overlapping runs
on one cache, failed rounds, truncated and stale answers, horizons. Correct when a partial list is
never taken for a full one, the snapshot repairs itself, and what is reported without a warning is
recent.

**Bounded fan-out** (`run_bounded_concurrent` in `osv.cpp` and `license_enrichment.cpp`). Jobs in
waves of joining threads. Correct when every job runs exactly once and is joined.

**License enrichment** (`vuln/license_enrichment.cpp`). Asks package registries for missing
licenses, crates.io on a thread of its own and paced, the others in waves, with 429 retries, a
cache and a deadline. Correct when crates.io is never asked in parallel or too fast, the time
budget is overrun by no more than what was in flight, and every lookup ends in the right counter.

**Build observation** (`src/observe/`, `cli/observe_command.cpp`). Every compiler the build calls
is the shim: it appends one line to the trace under `flock` and execs the real tool; when the
build has ended the observer validates, sorts and replaces the trace. Hard: `make -j`, kills in
the middle of a line, full disks, shims that outlive the build, nested observers. Correct when the
build is never held up, an interrupted line costs at most one other, and the trace is never lost.

**Trimming** (`compile_map.cpp`, `link_map.cpp`, `observe_trim.cpp`, `trim_command.cpp`). From the
words of the recorded command lines, which components were compiled, linked or searched for
headers; the others leave the document. Hard: an option's value is no operand, `-l` is resolved on a
disk that may have been cleaned since, and the trace may have lost lines. **Binary scan**
(`src/binscan/`, `cli/binscan_command.cpp`) opens the outputs of the same trace, ELF images and ar
archives, and says what they need, export and hold. Hard: every offset, size and link of a file may
lie. Correct when a usage has a command that did what it says, nothing used is dropped without a warning, and a
name in the document is one the output holds.

**SBOM reading** and **output writers** are conversions; **NVD fallback** (`nvd.cpp`, `cpe.cpp`)
asks NVD one request at a time; the rest of `core/` are readers and value types.

How they interact: the pipeline calls everything by plain calls that return `Result{value, warnings, complete}`.
Concurrency is in four places only: the processes that share a cache file, the waves of requests, the crates.io and
NVD threads, and the shims that share a trace. These four, the pipeline that must not lose what they return, and the
readers whose state outlives a line, a file or a budget are what this development is about. The hazards are listed
line by line in `PROJECT.json`.

## 2. Modules and how they correspond to the code

| Module | Code | State in the model |
| --- | --- | --- |
| `SchemaStore` | the contract of a store, no code of its own | stamp, how often each migration ran, handles |
| `SchemaMigration` | `open_and_migrate`, `migrate_schema`, `open_read_only` (`sqlite_support.cpp`) | committed file, the writer's uncommitted file, each process's position and version |
| `AdvisoryDelta` | `diff_advisory_revisions` (`delta.cpp`) | the two lists, the two indices, the three outputs |
| `OsvPagination` | the pagination rounds and the merge loop of `match_components` (`osv.cpp`) | payloads, cache entries, tokens, follow-up pages |
| `OsvRefresh` | `match_components` for one purl, over many runs (`osv.cpp`, `cache.cpp`) | the feed, the cache rows, the locals of each run |
| `BoundedFanOut` | `run_bounded_concurrent` | wave, next task, thread of each task |
| `LicenseEnrichment` | the fetch passes and the fold of `enrich_component_licenses` | phase, attempts and answer of each lookup; the wave is an instance of `BoundedFanOut` |
| `ObserveTrace` | `append_trace_line`, `main` of the shim, `run_observe`, `validate_and_sort_trace`, `read_trace` | the two files as pieces of lines, the lock, each shim, the observer |
| `ScanRun` | `run_scan` (`scan_command.cpp`), `WarningRecorder`, `apply_fail_on_threshold` | stage, recorder, the two feed passes, artifacts, exit code |
| `LockfileLines` | go.sum, Gemfile.lock, pubspec.lock, pnpm-lock.yaml, yarn.lock | (operators) a reader's locals, one step per line |
| `LockfileEntries` | package-lock.json, Cargo.lock, uv.lock, poetry.lock, requirements, gradle, pom.xml, NuGet, composer | (operators) what each entry says |
| `ManifestReaders` | conan, vcpkg, GitHub workflows, west | (operators) the same |
| `GitSources` | `submodules.cpp`, `git_config.cpp`, `git_dir.cpp`, `git_url.cpp` | (operators) the same, with the checkouts below a path |
| `LockfileScan` | `parse()` of all of these, `walk_bounded_manifest_files` | format, file, reader's locals, lines read, budget, result |
| `BuildVariables` | `build_variables.cpp`, `msbuild_properties.cpp` | (operators) tables of definitions, expansion, property scopes |
| `BuildDeclarations` | `cmake_deps.cpp`, `nuget.cpp`: one declaration | (operators) |
| `BuildFiles` | `parse()` of `cmake_deps.cpp` and the project pass of `nuget.cpp` | commands read, table, declarations, opened files, result |
| `TraceEvidence` | `compile_map.cpp`, `link_map.cpp` | (operators) a line's sources, directories and link inputs; the usage |
| `BinaryFormats` | `elf_read.cpp`, `archive_read.cpp`, `bounds.hpp` | (operators) what is read of an image or archive |
| `BuildEvidence` | `run_trim`, `run_binscan`, `binary_map.cpp` | trace, disk, usages, the output being opened, evidence per root |
| `VendoredSources` | `vendor_root.cpp`, `vendored_cpp.cpp` | (operators) root of a path, component of a root |
| `FingerprintCorpus` | `fingerprint.cpp` | (operators) the loaded index, the match of a root |
| `VendoredIdentity` | `scan_command.cpp` 900-969, `scan_fingerprint.cpp`, `model.cpp` | component list, index, root being matched, budget, warnings |

In each module an action is one handler, or one part of it between two points where another actor
can step in (a lock, a request, a statement, a system call). Definitions keep the names of the
code. Definitions called a *variant for mutation* are not part of a model: each is the same
definition with one plausible mistake, kept to show that a property notices it.

*SchemaMigration.* `Open` is `sqlite3_open_v2` and its pragmas, `ReadVersion` the read before the
lock, `Begin` / `BeginFails` are `BEGIN IMMEDIATE`, `RereadVersion` the read under the lock,
`ApplyStep` one entry of `migrations[]`, `Stamp` and `Commit` the end; `TransactionFails` is any
statement failing, `Exit` the process ending or being killed anywhere. SQLite is external: one writer
at a time, atomic commits, rollback when a connection goes away.

*OsvPagination.* A payload is the set of pages it holds and the token it carries. `Round` is one
round for all waiting purls with any answer the server may give, `RoundUnusable` a failed one,
`MergePurl` one iteration of the merge loop with its store, which may fail; `Crash` anywhere. A page's `vulns` may be
no array (`garbled`) and its token no string (`Unreadable`): such a token is never followed, but the payload
that keeps it counts as truncated. Variables under *said* record what the server said and are read by properties only.

*OsvRefresh.* A list is a function from advisories to revision numbers. Steps of a run are the
reads and writes of the cache with the requests between them. A fetched list is whole, truncated
or malformed (that is `OsvPagination`'s result); a snapshot may be read in part, a store may fail,
a run may be killed.

*LicenseEnrichment.* Time is in ticks and stops at `MaxTime`, which stands for any later time. The
cache answers before the passes; what it had past its age is the set `stale`. `Bucket` is the
cascade that puts each response in a counter.

*ObserveTrace.* A line is a few pieces, the last one its newline, and `write` may append fewer
than asked. `kMaxTraceLines` is a parameter. `flock_works` FALSE is a file system without `flock`. The
rewrite writes the temporary file a line at a time (`WriteLine`); `CloseSorted` is the last flush, in the
stream's destructor, and `Flushed` what that flush may leave of the file when `FlushFails`.

*LockfileScan* and its readers. A line is its kind and its value, an entry the shape of its fields; names, versions
and licences are members of small sets. For each format `XLine` or `XEntry` is the body of the code's loop, and
`XLocked` says what a whole file locks without reading it line by line; the properties compare the two. `Sought` is
the part of it that stands where the reader looks: packages listed in an array (`listed`), and in a pnpm-lock.yaml
after the version; see 5.9 for the rest. Lines are chosen as they are read and kept in `lines`. A malformed document
is one of the warnings of its `XGate`. `pc = "thrown"` is a read that throws.

*BuildFiles.* A text is a sequence of literals and references. CMake files are chosen command by command, any of
them possibly cut off; a NuGet solution is chosen at the start, since the code decides the order in which its
files are opened; its property files are those of the root, of one folder below it and what they import, the
Directory.Packages.props of both among them. `Value` is the set-based reference: all definitions that apply, expanded.

*BuildEvidence.* A path is the sequence of its segments, a command the sequence of its words, typed one after the
other. `TraceIsRead` leaves a trace that may have lost records and a disk that may have lost files. `Compiled`,
`Linked` and `Searched` are what a command line does, stated on the whole line: a `-l` means the file of the first
`-L` directory, wherever on the line, that has one, and what is handed on by `-Wl` or `-Xlinker` is a line of its own.
An image is the tables its header declares, any of them outside the file, of another type, past a limit or linked
wrongly; a name is a position, and what is read there depends on the table that is followed: the one the image was
linked with (`names`), another string table, or whatever DT_STRTAB maps (`mapped`). An archive is its bytes, and
`named_index` the index that a BSD long name hides.

*VendoredIdentity.* The tree, the corpus document and the other producers' components are chosen at the start.
`MatchRoot` is the two passes of `match_vendored_files` over the files of one root, `ApplyMatch` the rewrite of
the components at one location. A purl is a record: percent coding is left out. It need not spell the version: that
of a workflow's unresolved ref is in the component alone. `merge_all` sorts by identity; the model leaves the order
of the result open, since nothing it states reads it.

*ScanRun.* The producers are stages in the order of the code, with any warning and any
completeness. Documents are left out; an artifact is `stale` until this run writes it, `partial`
after a failed write, `cut` after a last flush that failed in the stream's destructor.

## 3. Runs: what each shows, bounds, fairness

| Run | Instance | Shows |
| --- | --- | --- |
| `schema_migration` | 3 processes, versions up to 2 | the stamp never lies, handles are usable, every open ends, and `SchemaMigration` implements `SchemaStore` (complete schemas, never downgraded) |
| `delta` | every pair of lists of up to 3 revisions over 3 ids, 2 stamps, contract kept or not | the three outputs are the set differences |
| `pagination` | 2 purls, 2 tokens and one that is no string, 2 rounds | no partial list without a token, also after a crash, unless a page was misread; giving up is reported; no token is sent twice in a row; the pass ends |
| `refresh_shared_cache` | 2 runs at a time, any number one after another, 1 advisory, 3 instants, all faults | the snapshot repairs itself, a truncated answer forgets nothing, unwarned results are recent, old severities need a confirmed list |
| `fan_out` | 14 tasks in waves of 6 | at most a wave in flight, every task once, the call returns |
| `license_enrichment` | 2 crates and 2 others, waves of 1, 2 attempts, deadline 1 of 2 ticks | pacing, the bounded overrun, the counters, termination under 429s |
| `observe_trace` | 3 shims, lines of 3 pieces, limit of 2 lines | locking, what an interruption costs, what exit 0 means, the rewrite, progress of every shim |
| `scan_run` | 1 code, 1 warning outside the feeds and the trace | exit code, replay of warnings, no new file beside an old SBOM |
| `lockfiles` | 16 formats; one file of up to 5 lines where the reader keeps state, else 2 entries in 2 files; limits 1 and 2 | nothing is silently dropped, no cross talk, limits are reported |
| `build_files` | 2 CMake files, 4 commands in all; 2 projects, 5 property files, 2 central ones; file limits 1, 3, 9 | agreed versions, no lost declaration, what High means |
| `build_evidence` | 2 nested components, 2 commands of 4 words together, 3 tools; images and archives whole, patched and cut | usages are observed, nothing used is dropped, names and members are there |
| `vendored_identity` | 4 vendored roots, 5 contents, 13 corpus documents, budgets 4 and 20 | every finding survives, versions are grounded, corpus claims are earned |

*Why these bounds.* `schema_migration`: three processes, for one to read a stale version while a second migrates and a
third overlaps both, and two versions for an older and a newer binary; the proofs cover the rest. `delta`: three
revisions give each list a head, a middle and a tail, and the proofs cover every length. `pagination`: two purls, so
that one can end while the other goes on; two tokens, so that a server can cycle as well as echo; two rounds, so that
the bound is met after progress. `refresh_shared_cache`: the horizons are 0 and 1 and the clock reaches 2, so an entry
can be fresh, past the first horizon and past the second; two runs overlap in every way and the cache outlives them,
so runs follow one another without end. Runs are interchangeable and the instance is checked up to their symmetry.
`license_enrichment`: two lookups per pass are the least with a predecessor, waves of one make a second wave.
`observe_trace`: three shims are one to be killed in its line, one to continue it and one to come after; the limit of
two lines is reached. `scan_run`: with one warning outside the feeds, each stage in turn is the only one to warn, next
to those of the feeds and the trace. `lockfiles`: five lines are a section or entry with its fields and the beginning
of the next; two files are the least of which the second can inherit something; a limit of 1 is met between entries
and between files, 2 at the end of a file. `UnreadableKeys` is FALSE: see 5. `build_files`: four commands are two
definitions (agreeing or not), a declaration and its confirmation, in any order and any file; the expansion bounds are
small so that each is met, the import depth is the code's. `build_evidence`: four words are a tool's option, its
value, an input and one more, in one command or two; the limits on section headers, program headers, entries, needed
names, long names and members are small enough that each is exceeded by an image or archive (one has its dynamic
section past the last header read), those on symbols are met. Images are linked to their string table, to code, to another string table and to nothing;
archives have names past their table, past their data and too long. `vendored_identity`: two copies of one library,
one under nested triggers, are what merges; three files are what `High` needs; the budget of 4 ends inside a root; the
load limits are met by one document each.

*Fairness.* `SchemaMigration`: a process inside the open sequence keeps executing (weak fairness
of its own steps); nothing waits for another process, since `BEGIN IMMEDIATE` gives up after
`kBusyTimeoutMilliseconds`. `OsvPagination`: one thread, and the HTTP transport has a timeout.
`BoundedFanOut`: threads are scheduled and a job returns. `LicenseEnrichment`: the same, and time
passes. `ObserveTrace`: the scheduler runs every shim that can run; nothing is assumed of the build
or the observer. All of it is weak fairness of single steps. The other modules are checked for safety and need
none: their loops are over files, lines and words already there.

*Deadlock* is checked in `schema_migration`, `refresh_shared_cache` and `fan_out`. The other
systems stop when their work is done and their runs say `CHECK_DEADLOCK FALSE`.

Every property of a run is paired in `PROJECT.json` with a mutant, a mistake in a definition
of the model that makes TLC find the property violated.

## 4. Proofs

The proofs hold for every value of the constants, under the named assumptions the modules declare.

**`SchemaMigration_proofs`** (assumes `Latest` is a positive integer and `NoOne` is no process). The
safety invariants are not inductive: whether a commit leaves a complete schema depends on what the
writer did since it took the lock. `IInv` adds `LockHeld` (the lock is held exactly by the process
inside its transaction), `WorkMatchesCursor` (at each point of the transaction the uncommitted
file is the complete schema of the loop variable, of the version read under the lock or of the
target) and `HandleNotNewer`. `NextIInv` has a step per action. From `Invariance` follow
`TypeCorrect`, `StampNeverLies`, `HandlesUsable` and the action property `NoDowngrade`.
`Refinement` shows that every step is a step of `SchemaStore` or a stutter, handles being the map's
only definition: `Commit` is `Upgrade`, leaving with a handle is `Grant`, leaving without one is
`Release`.

**`BoundedFanOut_proofs`** (assumes both counts are natural numbers). `Position` says where the calling
thread is and what that says of each task: before the wave joined, in the wave spawned up to
`next_task`, after it not started. It gives `WavesBounded`, by the cardinality of an interval, and
`EachRanOnce`.

**`OsvAdvisories_proofs`** is about the two passes over the advisories of a purl. The pagination (assumes `MaxRounds`
is a natural number, and `NoToken` and `Unreadable` are no tokens): neither property is inductive alone, since
`incomplete` is written in three places, long before the pass is over. `TokenInv` says what a waiting token, or none,
means for a purl: ended, recorded as incomplete, or still being asked; after the rounds every purl not ended is
recorded, or a token that is no string was passed over: that of its first page is still in the payload, that of a
follow-up page is in the history `misread`. This is `GivesUpAloud`. `PageInv` says where the pages of a purl are:
before its merge in the payload and the accumulated pages together, after it in the payload; a payload without a token
that has not been merged had its last page first, if none of its pages was misread. That is the one exception of
`PartialKeepsItsToken`, and it is per purl: without it the statement is false, see 5.1. `FreshInv` says that a token
waiting to be sent is not the one last sent, and gives the action property `AsksAnew`. The delta (assumes ids are
natural numbers and the bound on the lengths is one): `LoopInv` says that neither index has passed an id the other has
still to reach, and that each output holds exactly the ids seen so far that belong in it; together with the contract
it gives `DeltaCorrect` and `OutputsAscend` for lists of any length. `DeltaTypeCorrect` needs no contract.

**`OsvRefresh_proofs`** (assumes that `CacheMaxAge <= ConfirmedMaxAge`, which are 24 hours and 7 days in
`osv.hpp:22-36`): any number of runs over one cache file, any advisories, horizons and clock, faults or none. A run reads
rows, asks, and writes later, so the invariant is about its locals: an unwarned answer is within the horizon of the
run's own `now` at every step up to the report (`AnswerRecent`), so are the severities it reports
(`RecordsRecent`, within the outer bound), and a run that nobody disturbed still holds the rows of the snapshot
when it stores (`HoldsTheSnapshot`). It gives `UnwarnedIsRecent` and three action properties: `SnapshotHeals`,
`TruncatedNeverForgets` and `OldRecordsNeedConfirmation`.

**`LicenseEnrichment_proofs`** (assumes counts and times are natural numbers and at least one attempt): any number of
lookups in either pass, any width of the waves, interval, backoffs and deadline. `PhaseTells` says what the phase of a
lookup says of its requests and answer; `CratesInOrder` that the crates.io thread works its lookups off one after the
other and begins none past the deadline; `PacedFromLastAnswer` that a lookup sleeping out the interval began to after
the last answer; `WorkersHaveThreads` that a lookup of the other pass is at work exactly while its thread is, in which
it reuses the invariant of `BoundedFanOut_proofs` (an instance of it on the same state); `LateInOneWave` that those
which ask past the deadline are of the one wave it passed in. The bound of `OverrunBounded` is then an injection of
the late lookups into that wave. `CountedAtTheEnd` gives `CountedForTheRightReason`. `PacingCorrect` is the action
property `CratesPacedApart`, and `FanOutImplemented` the refinement `Spec => Fan!Spec`: every step of an enrichment is a
step of the fan-out or leaves it alone.

**`ObserveTrace_proofs`** (assumes the number of shims and the line budget are natural numbers, a line has at least two
pieces): any number of shims, lines and budget, killed anywhere. The invariant has four parts. `ShimFacts`: what a shim
has written follows from its phase, and the holder of a lock is inside its critical section. `FileFacts`, for the trace
and, from the moment it is written until it fails, for its sorted copy: pieces are in order and none is there twice
(`Shape`), each is there because a shim or the rewrite wrote it (`Accounted`), in one block (`InBlocks`); the shim in its
critical section is at the end (`AtTheEnd`); a record that begins in the middle of a line continues what an interrupted
shim left there (`Continues`), and a file that does not end in a newline ends in such a part (`EndsOpen`).
`RewriteFacts`: what was read is kept in the one file until it is whole in the other. `UnwarnedFacts`: as long as nothing
was warned of, nothing is missing. They give `InterruptionCostsOne` (no two records continue the same part),
`RewriteKeepsRecords` and `CleanMeansWhole`, each under the hypothesis `~FlushFails`: the last flush of the sorted trace
must not fail unseen, since otherwise all three are false, see 5.3.

Its second part is about what is then read out of the trace, `BuildEvidence`: any disk and links, roots, vocabulary,
number and length of commands, images. It assumes `RootsAssumption` (no root is empty or outside the tree), that paths
are sequences of segments (`DiskAssumption`, `LinksAssumption`, `WordsAssumption`), and two things of the options a
build uses: of a compiler's options, those that take the next word are those the code knows (`CompilersAssumption`); a
linker's option that takes the next word without the code knowing it is given no value that looks like a link input
(`LinkersAssumption`). Both are the premises of the two option tables (`compile_map.cpp:46`, `link_map.cpp:45`): a
build that breaks them is misread. Neither property is inductive alone, since the commands are read long after they
were typed. `EvidenceInv` says that each command so far is well typed, an option's value right after its option
(`Recorded`); that nobody is judged before the trim (`Unjudged`); what a judgement then means (`Judged`); and of each
output that its record names what the image declares, read where its links or DT_STRTAB lead (`Evident`). The work is
in `Judged`: the passes over a line skip exactly the values of its options (`Values`, a recursive function of the
position), so that what is left is the operands and the paths of the line; the tokens of a link line, its `-Wl` and
`-Xlinker` parts spliced in, are read in the same way; directories resolve through links as the enclosing root says;
the first directory with a match is the one `resolve_library_name` finds; and a `-l` that a cleaned tree no longer
answers is unresolved, which is warned of. It gives `EveryUsageWasObserved`, `OnlyTheUnusedIsDropped` and, of the ELF
reader whose tables may contradict each other, `OnlyDeclaredNames`. `EvidenceTypeCorrect` is its type invariant.

**`ScanRun_proofs`** (assumes `MaxWarnings` is a natural number): any set of warning codes and any number of warnings at
each stage. The promises are about the end of a run, so the invariant says what holds at each stage: nothing is
suppressed, because the recorder was made before the suppressions were read (`NothingSuppressed`, see 5.4);
an artifact is untouched up to its stage and written past it in a run that goes on (`WrittenInOrder`); the warnings of
the two feed passes are recorded once they have joined (`FeedsJoined`), and nothing is recorded after the report and
the warnings file took what there was (`HandedAll`); the natural exit code says what happened (`OutcomeRecorded`).
It gives `ExitTellsOutcome`, `ReplayIsComplete` and `NeverBesideStaleSbom`.

Its second part is about the list of components of that scan, `VendoredIdentity` (assumes `TreeAssumption`: the folders
of the tree, the files of each and the components of the other producers are sequences; a header's read window ends
inside its text; the documents' files and releases are lists, a release's count of files and the budget are natural
numbers; a component of another producer spells its version in its purl or, with a purl that is not generic,
leaves it out; and none of its evidence claims to be the heuristic's or the corpus's): any tree, any contents, any
corpus document, any budget. What holds at the end depends on every step before, so `IdentityInv` says of each component
until the merge (`Item`): its evidence is of its own root; a header and a commit it cites are there; its version is
one that root declares, or that of a release where it had none (`Grounded`); a release that differs was warned of. And of
the whole list (`Assembled`): every root is cited in it, and the components of the others are where they were, with
what the corpus may not touch (`Kept`). The recursive functions over positions (the roots met, the files under a root, the
list merged so far) are shown to exist by the well-foundedness of the naturals (`Counting`, `Folding`); the reading of
a header is followed down to the line it cites (`QuotedRow`, `DottedRow`, `SplitRow`). Of the merge, `Gathers` says at
each position of the list: the identities of the result differ, each of its pieces of evidence is of a component of that
identity, and each component so far is covered by one that cites all it cites, as confidently, in a scope no
narrower. It gives `EveryFindingSurvives` and `VersionsAreGrounded`.

The last part, `CorpusClaimsAreEarned`, rests on `ClaimsInv`. A loaded index is `Truthful`: what refers to a release
refers to one it lists, which refers to a library it lists, so that the releases of a digest are those whose files
include it. The budget is followed as a count over positions (`BudgetIsSpent`, `WithinBudget`): a root is hashed whole
unless the warning was given for it, and from that warning on the budget is spent. A match that is High is `Earned` by
the files of its root (`HighIsEarned`), and what `ApplyMatch` and the merge hand on is. For the naming of a copy the
invariant says where it is: its root `Waits` to be matched, its match is `Awaited`, or every component that cites it
is `Known` by that name (`Proper`). `CopyIsBest` and `CopyIsNamed` are about the tallies: no release explains more of
a copy's files than its own, none that explains as much lacks less of its own unless it has the same files, and so
`match_root` says the version, or none where the corpus has the same files twice. That argument needs the hypothesis
the property states: a corpus that counts no fewer files of a release than it lists, which `load_index` does not
check. The type invariant is proved with it (`IdentityTypeCorrect`).

**`LockfileScan_proofs`** (assumes `MaxFiles` and the limits are natural numbers) has two parts. `LimitsCorrect`, for
every format: of a reader it uses only that it says whether it asks the budget. `NothingDroppedCorrect` and
`NoCrossTalkCorrect`, for every lockfile parser but Maven's: npm, Cargo, Go, Gemfile.lock, yarn.lock in both formats,
Python, Composer, NuGet, and pubspec.lock and pnpm-lock.yaml when `UnreadableKeys` is FALSE (see 5.5; `Formats
\subseteq Lockfiles`). Any number of files, lines, entries and limits. `FileInv` says that what the files before this
one lock (where a reader looks, `Sought`) is in the result or told, and that of the file being read the same holds of
what its lines so far have settled. What it needs of a reader is stated apart from the readers, in `StartFits`,
`LineFits` and `EndFits`: its locals fit the lines it has read, what it says at a line is settled, and what is newly
settled is said or counted. `EntryOutcome` shows it for the eleven readers that take each entry for itself. A reader
that carries locals from line to line has an invariant of its own, `GemFits`, `ClassicFits`, `BerryFits`, `PubFits` or
`PnpmFits`: what the section, the pending name and the pending fields say of the lines read; and an operator of the
packages that no further line can change (`ClassicSettled`, `PubSettled`, `PnpmSettled`): those of an entry that a
later line has closed. A reader that gives up (`stop`: a pnpm-lock.yaml of a version it does not read) owes nothing
more and has told so. The lemmas common to them are about lines: the last line of a kind before another and the first
one after it (`Latest`, `Earliest`, from the well-foundedness of the naturals), the lines of a block and the value of
a key in it, and that a block is closed by a line no deeper than its head (`BlockGrows`, `Closed`). No such proof yet:
pom.xml, which resolves properties, and the manifests (conan, vcpkg, workflows, west, submodules).

`OutputsAscend`, `NoDowngrade` and the type invariants are proved but no run lists them; TLC agrees with each.

Only model-checked so far:

- the rest of `LockfileScan`, named above;
- `BuildFiles`: variables expand recursively and their operators are declared `RECURSIVE`, which the prover does not
  support;
- `BuildEvidence`: `MembersAreThere`, an induction over the bytes of an archive, whose cells stand in a relation to its
  members that only the instance gives;
- every liveness property (`SchemaMigration`, `OsvPagination`, `BoundedFanOut`, `LicenseEnrichment`,
  `ObserveTrace`): liveness under fairness and `ENABLED` are outside what the prover supports.

## 5. Where the code does not do what its comments say

These statements do not hold of the code. No run lists them; where a constant of a module decides, TLC
shows the violation when it is changed, and elsewhere the property names the case it excepts: the model runs
through it as the code does.

1. **A page with a field of another type makes a partial list look complete** (`osv.cpp:769`, 783, 833), against
   "rather than silently presenting a partial list as complete" (`osv.cpp:753-754`). A `vulns` that is no array is
   dropped, on any page, and the token cleared all the same. A `next_page_token` that is no string ends a follow-up
   page's list: the purl counts as done (799) and line 846 erases the token of page 1, so that a partial list is
   cached as complete. On the first page such a token is never followed (709) nor the purl listed as incomplete; there
   the payload keeps it, which line 137 counts as truncated whatever its type, so that the second
   `kVulnCoverageIncomplete` warning tells. The variable `misread` keeps which purls had such a page, and
   `NeverPartialAsComplete` and `GivingUpIsReported` except them.
2. **Severities of another advisory set are taken for confirmed** (`osv.cpp:921` against 313-314). The snapshot is
   stored before the hydration request; if that fails, the next run finds the list unchanged and trusts the
   older payload. `OsvRefresh` has these behaviours.
3. **A full disk can replace a whole trace by a cut one** (`trace_check.cpp:55` against 39-40). The stream is
   tested before its destructor flushes it. `ObserveTrace` with `FlushFails = TRUE` violates
   `RewriteKeepsRecords`, and with it `InterruptionCostsOne` and `CleanMeansWhole`; the theorems about the three
   have its negation as their hypothesis. The artifacts of a scan have the same last flush (`scan_command.cpp:1401`);
   `ExitTellsOutcome` excepts it by name.
4. **Suppressing a warning has no effect on the exit code** (`scan_command.cpp:446` against
   `docs/warning-codes.md:62-63`). The recorder copies the suppressions before `bomwerk.toml`, their only
   source, has been read. `ScanRun` has this order.
5. **A key outside the YAML subset gives its fields to the entry before** (`yaml_subset.cpp:125`). `LockfileScan`
   with `UnreadableKeys = TRUE` violates `NoCrossTalk`.
6. **A `link` or `dev` that is no boolean ends the scan** (`npm.cpp:146`, 180, against
   `docs/CONTRIBUTING.md:32`): the read throws. `LockfileScan` ends such a run in `"thrown"`, for which nothing is claimed.
7. **Which roots the hash budget reaches** (`fingerprint.cpp:553`). A root in whose middle the budget ends is still
   judged by what was hashed, while the warning names later roots only; `HighExplainsTheRoot` excepts such a root.
   Copies of one file each count as a match (`fingerprint.cpp:622`), so three copies can earn High: the
   property counts files as the code does.
8. **Names are read in another table, or not at all** (`elf_read.cpp:504-513`). The check on `sh_link` asks for a
   string table, not for the one of the dynamic section: a link to `.shstrtab` or `.strtab` is followed, and a
   DT_STRTAB to wherever it is mapped, so the names may be of other things; `NamesAreDeclared` says where they may
   come from. A position past the table, or of an unterminated name, is passed over without a warning (553-561). So is
   an archive member whose name is past or without the long-name table, or too long (`archive_read.cpp:115-136`,
   307-312), and an index spelled `#1/20` with the name `__.SYMDEF SORTED` is listed as an object, since line 108 asks
   for the raw name; `MembersAreThere` speaks of the objects that have a name and allows that index.
9. **Packages where no reader looks are dropped without a word.** In a pnpm-lock.yaml those before `lockfileVersion`
   (`pnpm.cpp:343`), against "an entry can never be dropped without being counted" (262-263); a `packages` or
   `packages-dev` that is no array in a composer.lock (`composer.cpp:368-388`, where only the absence of both is
   told); a `package` that is no array in a Cargo.lock, uv.lock or poetry.lock (`cargo.cpp:95`, `python.cpp:152`,
   214). `NothingSilentlyDropped` is about `Sought`, which leaves these out; all of them are among the files the run
   reads. A `source` of a Cargo package that is no string counts as none, so the package passes for a member of the
   workspace.
10. **A version the warning calls left out** (`cmake_deps.cpp:569-572`). An archive whose VERSION is an unresolved
   variable gets the version its URL spells, while the warning says that the version was "left out of its identity" (484-486).
   `VersionsAreAgreed` allows that version, under that warning.
11. Smaller ones, in the models as the code has them: the file limits of the lockfile parsers never make a result
   incomplete although their headers say limits do; a component whose version is a leftover `.git` commit always
   disagrees with the corpus (`scan_fingerprint.cpp:105`); the count of an archive's symbols is that of the capped
   list (`archive_read.cpp:215`); a dynamic section that lies outside the file is reported as a static image
   (`elf_read.cpp:382`); of two workflow refs that no purl spells, the merge keeps the first version and drops the
   other (`github_actions.cpp:360`, `model.cpp:89`), which `EveryFindingSurvives` excepts; a corpus release may list
   more files than it counts (`fingerprint.cpp:186-201`), and then wins ties it should lose, which `PristineIsNamed`
   excepts.

## 6. What is not modelled, and why

`PROJECT.json` lists every component with its status. In short: text readers (YAML, XML, JSON, purl) and the
CMake lexer are conversions of one string, and the models take any outcome of them; digests, UUIDs and CVSS scores
are arithmetic with published test vectors; the output writers format documents held in memory; the
HTTP transport and the file reads are input and output whose every outcome the callers' models
take. Within the modelled components:

- `OsvPagination` and `OsvRefresh` leave out batches of several requests, `OsvRefresh` the bulk feed tables of the
  cache, `LicenseEnrichment` the cache lookups before the passes, a stored payload that is malformed (it stays in the
  counter of its outcome and is counted again as unresolved, `license_enrichment.cpp:767-786`) and the width of the
  Retry-After arithmetic, `ObserveTrace` the shim directory, `ScanRun` the options and the components.
- `LockfileScan`: licence and hash fields, the spelling of purls, pom and .csproj text that is no well-formed
  XML, the owner rules of workflows, nested import keys of west. `BuildFiles`: CPM shorthands.
- `BuildEvidence`: linker map files, `--trace auto`, field offsets and byte orders, the sidecar's text.
- `VendoredIdentity`: table rows that differ from another in names alone, the README clue, percent coding.

Hazards without a property are in `PROJECT.json` with the reason; the one that matters most is
the nested observer (below, `ShimChain`).

## 7. Plan

Done, in this order: the stores, the delta, the pagination, the refresh over a shared cache, the
fan-out, the license enrichment, the build trace, the scan pipeline; then the lockfile and manifest
readers, the build files with their variables, the evidence of a build and its outputs, and the identity of
vendored sources up to the merge.

Proved since: the pipeline, the build trace, the refresh, the license enrichment and its refinement of the fan-out, the
pagination's tokens, the limits of every format, what every lockfile parser but Maven's locks, the identity of vendored
sources up to the merge, what the corpus claims of them, and what a trim and a binary scan say of a build.

Next, proofs, most important first:

1. `LockfileScan`: `LineFits` for the manifests. Workflows need an invariant of the open blocks (nothing is indented less
   than the innermost) and of block scalars; vcpkg.json and pom.xml say at their first item what holds of the document, so
   `LinesKnown` must range over more than entries; then conan, west and submodules.
2. `BuildFiles`: `VersionsAreAgreed` once the expansion of variables is a recursive function.

Then, components: `ShimChain` (what a shim finally execs when observers nest, share a shim directory or leave
stale sidecars behind), `NvdFallback` (spacing, horizons, negative answers), `FileIndex` (the walk over small trees with
links and exclusions), and `FindingMerge` (`merge_outcomes`).
