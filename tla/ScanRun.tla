-------------------------------- MODULE ScanRun --------------------------------
(***************************************************************************)
(* One `bomwerk scan` from the command line to its exit code (run_scan,    *)
(* src/src/cli/scan_command.cpp): the stages in the order of the code,     *)
(* what each does with an incomplete result, the warning recorder, the NVD *)
(* pass on its own thread beside the OSV pass, the artifacts and --fail-on.*)
(*                                                                         *)
(* A warning is the stage that raised it and its code; components and      *)
(* documents are left out. An option is chosen where it is first read.     *)
(***************************************************************************)
EXTENDS Naturals, SequencesExt

CONSTANTS
    Codes,          \* codes of warnings
    MaxWarnings     \* bound on the warnings recorded outside the feed passes

ASSUME MaxWarningsAssumption == MaxWarnings \in Nat

VARIABLES
    stage,          \* index in Order
    suppressed,     \* options.suppressed_warning_codes
    recorder,       \* the WarningRecorder
    lockfilesComplete,  \* lockfile_scan_complete
    pass,           \* the OSV pass and the NVD pass: off, running or over
    found,          \* the warnings of their outcomes
    requested,      \* artifacts the options ask for
    files,          \* what the artifact's path holds
    held,           \* the warnings the report and the warnings file were given
    natural,        \* the exit code before --fail-on, NoCode while the run is on
    failOn, exit,   \* --fail-on and the exit code, NoCode before the end
    broken          \* something asked for was not done in full (for properties)

outputs == <<requested, files, held>>
feeds == <<pass, found>>
vars == <<stage, suppressed, recorder, lockfilesComplete, feeds, outputs, natural, failOn, exit, broken>>

Clean == 0
CompletedWithWarnings == 1
Incomplete == 2
NoCode == 3

\* An incomplete result of one of these ends the run at once.
Gating == {"submodules", "file_index", "cmake", "conan", "conan_graph", "vcpkg", "github_actions",
           "west", "vendored_cpp"}

\* An incomplete result of one of these ends it as incomplete.
Lockfiles == {"npm", "python", "go", "cargo", "maven", "nuget", "composer", "rubygems",
              "yarn", "pnpm", "pub"}

\* These can only warn.
Advisers == {"name_lists", "unparsed", "fingerprint", "licenses"}

Artifacts == {"sbom", "sidecar", "coverage", "html", "warnings"}

Order == <<"arguments", "config", "submodules", "name_lists",
           "file_index", "cmake", "conan", "conan_graph", "vcpkg", "github_actions", "west",
           "vendored_cpp",
           "npm", "python", "go", "cargo", "maven", "nuget", "composer", "rubygems",
           "yarn", "pnpm", "pub",
           "unparsed", "fingerprint", "licenses", "trace", "feeds", "join",
           "sbom", "sidecar", "coverage", "html", "warnings", "exit_code">>

At(s) == stage <= Len(Order) /\ Order[stage] = s

Init ==
    /\ stage = 1
    /\ suppressed = {}
    /\ recorder = [suppressed |-> {}, collected |-> <<>>, degraded |-> FALSE]
    /\ lockfilesComplete = TRUE
    /\ pass = [osv |-> "off", nvd |-> "off"]
    /\ found = [osv |-> <<>>, nvd |-> <<>>]
    /\ requested = {}
    /\ files = [a \in Artifacts |-> "stale"]
    /\ held = [html |-> <<>>, warnings |-> <<>>]
    /\ natural = NoCode /\ failOn = "warnings" /\ exit = NoCode
    /\ broken = FALSE

------------------------------------------------------------------------------
Warning(s, c) == [from |-> s, code |-> c]

\* The warnings a stage may raise: at least one when it has to.
Raised(s, mustWarn) ==
    (IF mustWarn THEN {} ELSE {<<>>})
    \cup {<<Warning(s, c)>> : c \in IF mustWarn \/ Len(recorder.collected) < MaxWarnings
                                    THEN Codes ELSE {}}

\* record_all: every warning is kept; one that is not suppressed degrades the run.
Records(warnings) ==
    recorder' = [recorder EXCEPT
        !.collected = @ \o warnings,
        !.degraded = @ \/ \E w \in ToSet(warnings) : w.code \notin recorder.suppressed]

Advance == stage' = stage + 1 /\ UNCHANGED <<natural, broken>>

\* return kExitIncomplete.
Stop ==
    /\ natural' = Incomplete /\ broken' = TRUE
    /\ stage' = Len(Order) + 1

\* The recorder is built from the options of the command line; then the root
\* has to be a directory.
Arguments ==
    /\ At("arguments")
    /\ recorder' = [recorder EXCEPT !.suppressed = suppressed]
    /\ Advance \/ Stop
    /\ UNCHANGED <<suppressed, lockfilesComplete, feeds, outputs, failOn, exit>>

\* load_scan_config and apply_repo_config, the only source of suppressions; then
\* --all-cpes is refused for SPDX.
LoadConfig ==
    /\ At("config")
    /\ suppressed' \in SUBSET Codes
    /\ \E warnings \in Raised("config", FALSE) : Records(warnings)
    /\ Advance \/ Stop
    /\ UNCHANGED <<lockfilesComplete, feeds, outputs, failOn, exit>>

GatingProducer(s) ==
    /\ At(s)
    /\ \E warnings \in Raised(s, FALSE) : Records(warnings)
    /\ Advance \/ Stop
    /\ UNCHANGED <<suppressed, lockfilesComplete, feeds, outputs, failOn, exit>>

\* Variant for mutation: the flag is assigned from each producer in turn.
LockfileProducerAssigns(s) ==
    /\ At(s)
    /\ \E warnings \in Raised(s, FALSE) : Records(warnings)
    /\ \E complete \in BOOLEAN :
          /\ lockfilesComplete' = complete
          /\ broken' = (broken \/ ~complete)
    /\ stage' = stage + 1
    /\ UNCHANGED <<suppressed, feeds, outputs, natural, failOn, exit>>

LockfileProducer(s) ==
    /\ At(s)
    /\ \E warnings \in Raised(s, FALSE) : Records(warnings)
    /\ \E complete \in BOOLEAN :
          /\ lockfilesComplete' = (lockfilesComplete /\ complete)
          /\ broken' = (broken \/ ~complete)
    /\ stage' = stage + 1
    /\ UNCHANGED <<suppressed, feeds, outputs, natural, failOn, exit>>

Adviser(s) ==
    /\ At(s)
    /\ \E warnings \in Raised(s, FALSE) : Records(warnings)
    /\ Advance
    /\ UNCHANGED <<suppressed, lockfilesComplete, feeds, outputs, failOn, exit>>

\* The build trace: none or a usable one, which may warn; one that is not usable
\* ends the run when --trace named it and is a warning when it was found.
ApplyTrace ==
    /\ At("trace")
    /\ \/ Advance /\ \E warnings \in Raised("trace", FALSE) : Records(warnings)
       \/ Advance /\ \E warnings \in Raised("trace", TRUE) : Records(warnings)
       \/ Stop /\ \E warnings \in Raised("trace", FALSE) : Records(warnings)
    /\ UNCHANGED <<suppressed, lockfilesComplete, feeds, outputs, failOn, exit>>

------------------------------------------------------------------------------
(* The vulnerability feeds. *)

\* With --vuln the OSV pass runs here and, with --cpe-fallback, the NVD pass
\* beside it on a thread started first.
StartFeeds ==
    /\ At("feeds")
    /\ pass' \in {[osv |-> "off", nvd |-> "off"], [osv |-> "running", nvd |-> "off"],
                  [osv |-> "running", nvd |-> "running"]}
    /\ Advance
    /\ UNCHANGED <<suppressed, recorder, lockfilesComplete, found, outputs, failOn, exit>>

Outcomes(p) == {<<>>} \cup {<<Warning(p, c)>> : c \in Codes}

OsvPass ==
    /\ pass.osv = "running"
    /\ pass' = [pass EXCEPT !.osv = "over"]
    /\ \E warnings \in Outcomes("osv") : found' = [found EXCEPT !.osv = warnings]
    /\ UNCHANGED <<stage, suppressed, recorder, lockfilesComplete, outputs, natural, failOn, exit, broken>>

\* The thread body; an exception that escapes match_via_cpe is a warning.
NvdPass ==
    /\ pass.nvd = "running"
    /\ pass' = [pass EXCEPT !.nvd = "over"]
    /\ \E warnings \in Outcomes("nvd") : found' = [found EXCEPT !.nvd = warnings]
    /\ UNCHANGED <<stage, suppressed, recorder, lockfilesComplete, outputs, natural, failOn, exit, broken>>

\* Once the OSV pass returned: the join, and the warnings of both.
JoinFeeds ==
    /\ At("join")
    /\ pass.osv # "running" /\ pass.nvd # "running"
    /\ Records(found.osv \o found.nvd)
    /\ Advance
    /\ UNCHANGED <<suppressed, lockfilesComplete, feeds, outputs, failOn, exit>>

------------------------------------------------------------------------------
(* The artifacts. *)

\* Variant for mutation: the SBOM is as optional as the other artifacts.
SkipAny(a) ==
    /\ At(a)
    /\ Advance
    /\ UNCHANGED <<suppressed, recorder, lockfilesComplete, feeds, outputs, failOn, exit>>

Skip(a) ==
    /\ At(a) /\ a # "sbom"
    /\ Advance
    /\ UNCHANGED <<suppressed, recorder, lockfilesComplete, feeds, outputs, failOn, exit>>

\* Variant for mutation: the report is given the warnings before its branding is loaded.
HandedBeforeBranding(a) == recorder.collected

\* The warnings handed to an artifact that lists them.
Handed(a) == recorder'.collected

\* The report loads its branding first, which may warn. The file is opened and
\* truncated, written and tested; what the stream still buffers is flushed when
\* it goes out of scope, where a failure is not seen.
Write(a) ==
    /\ At(a)
    /\ requested' = requested \cup {a}
    /\ IF a = "html" THEN \E warnings \in Raised(a, FALSE) : Records(warnings)
                     ELSE UNCHANGED recorder
    /\ held' = IF a \in DOMAIN held THEN [held EXCEPT ![a] = Handed(a)] ELSE held
    /\ \/ Stop /\ files' = files                                      \* cannot open
       \/ Stop /\ files' = [files EXCEPT ![a] = "partial"]            \* cannot write
       \/ Advance /\ files' = [files EXCEPT ![a] = "fresh"]
       \/ Advance /\ files' = [files EXCEPT ![a] = "cut"]             \* last flush fails
    /\ UNCHANGED <<suppressed, lockfilesComplete, feeds, failOn, exit>>

NaturalExit ==
    /\ At("exit_code")
    /\ natural' = IF ~lockfilesComplete THEN Incomplete
                  ELSE IF recorder.degraded THEN CompletedWithWarnings ELSE Clean
    /\ stage' = stage + 1
    /\ UNCHANGED <<suppressed, recorder, lockfilesComplete, feeds, outputs, failOn, exit, broken>>

\* apply_fail_on_threshold.
Remapped(code, threshold) ==
    IF \/ threshold = "none"
       \/ threshold = "incomplete" /\ code = CompletedWithWarnings
    THEN Clean ELSE code

RunScan ==
    /\ natural # NoCode /\ exit = NoCode
    /\ failOn' \in {"warnings", "incomplete", "none"}
    /\ exit' = Remapped(natural, failOn')
    /\ UNCHANGED <<stage, suppressed, recorder, lockfilesComplete, feeds, outputs, natural, broken>>

Next ==
    \/ Arguments \/ LoadConfig
    \/ \E s \in Gating : GatingProducer(s)
    \/ \E s \in Lockfiles : LockfileProducer(s)
    \/ \E s \in Advisers : Adviser(s)
    \/ ApplyTrace
    \/ StartFeeds \/ OsvPass \/ NvdPass \/ JoinFeeds
    \/ \E a \in Artifacts : Skip(a) \/ Write(a)
    \/ NaturalExit \/ RunScan

Spec == Init /\ [][Next]_vars

------------------------------------------------------------------------------
Warnings == [from : ToSet(Order) \cup {"osv", "nvd"}, code : Codes]

TypeOK ==
    /\ stage \in 1 .. Len(Order) + 1
    /\ suppressed \subseteq Codes
    /\ recorder \in [suppressed : SUBSET Codes, collected : Seq(Warnings), degraded : BOOLEAN]
    /\ pass \in [osv : {"off", "running", "over"}, nvd : {"off", "running", "over"}]
    /\ found \in [osv : Seq(Warnings), nvd : Seq(Warnings)]
    /\ held \in [html : Seq(Warnings), warnings : Seq(Warnings)]
    /\ requested \subseteq Artifacts
    /\ files \in [Artifacts -> {"stale", "partial", "cut", "fresh"}]
    /\ {natural, exit} \subseteq {Clean, CompletedWithWarnings, Incomplete, NoCode}
    /\ failOn \in {"warnings", "incomplete", "none"}
    /\ lockfilesComplete \in BOOLEAN /\ broken \in BOOLEAN

\* "every warning the run produced" (scan_command.cpp:1536): whatever the report
\* and the warnings file hold when they are written stays all there is to say,
\* the warnings of both feed passes included.
ReplayIsComplete ==
    /\ \A a \in DOMAIN held :
          files[a] \in {"fresh", "cut"} => held[a] = recorder.collected
    /\ \A p \in DOMAIN found :
          files["sbom"] = "fresh" => ToSet(found[p]) \subseteq ToSet(recorder.collected)

\* A run killed, failing or stopped anywhere leaves no new sidecar, coverage file,
\* report or warnings file beside the SBOM of an earlier run.
NeverBesideStaleSbom ==
    (\E a \in DOMAIN files : files[a] # "stale") => files["sbom"] # "stale"

\* The exit code tells the outcome under every --fail-on but none: 2 exactly when
\* something asked for was not done in full, and below 2 every artifact asked for
\* was written (but for a last flush whose failure nobody sees); 0 means no
\* warning that counts unless --fail-on says warnings do not.
ExitTellsOutcome ==
    exit # NoCode /\ failOn # "none" =>
        /\ exit = Incomplete <=> broken
        /\ exit # Incomplete =>
              /\ "sbom" \in requested
              /\ \A a \in requested : files[a] \in {"fresh", "cut"}
        /\ exit = Clean /\ failOn = "warnings" =>
              \A w \in ToSet(recorder.collected) : w.code \in suppressed
        /\ exit = CompletedWithWarnings => failOn = "warnings" /\ recorder.collected # <<>>
================================================================================
