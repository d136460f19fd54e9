----------------------------- MODULE BuildEvidence -----------------------------
(***************************************************************************)
(* From a recorded build to what is said of the components: `bomwerk trim`   *)
(* (src/src/cli/trim_command.cpp, observe_trim.cpp), which drops the          *)
(* components the build never touched, and `bomwerk binscan`                  *)
(* (binscan_command.cpp, src/src/binscan/binary_map.cpp), which opens the     *)
(* outputs of the build one after the other and says what they hold. Both    *)
(* read the same trace, after the build tree may have been cleaned.           *)
(***************************************************************************)
EXTENDS TraceEvidence, BinaryFormats

CONSTANTS
    Words,        \* the words of the command lines, for each tool,
    Accepts,      \* and the values each option takes
    MaxWords,     \* bound on the words of the whole trace
    MaxRecords,   \* bound on its records
    Images,       \* what the outputs of the build may hold
    Archives,
    BaseName      \* the shared-object names without their version

\* component_roots_of has no empty root; a root does not lie outside the tree.
ASSUME RootsAssumption ==
    \A root \in Roots : root \in Seq(STRING) /\ root # <<>> /\ Head(root) # ".."
ASSUME DiskAssumption == \A p \in Disk : p \in Seq(STRING) /\ p # <<>>
ASSUME LinksAssumption == \A link \in DOMAIN Links : Links[link] \in Seq(STRING)

\* What a tool that links is given: its words, and those that are handed on.
Linkers == (CompilerTools \cup {"ld"}) \cap DOMAIN Words
Passed ==
    Accepts["-Xlinker"]
        \cup UNION {ToSet(w[2]) : w \in {v \in UNION {Words[t] : t \in Linkers} : v[1] = "-Wl"}}
AllWords == (UNION {Words[t] : t \in DOMAIN Words}) \cup UNION {Accepts[o] : o \in DOMAIN Accepts}

IsWord(word) ==
    /\ word[1] = "option" => word = Option(word[2])
    /\ word[1] \in {"operand", "-I", "-L"} => word[2] \in Seq(STRING)
    /\ word[1] = "-Wl" => word[2] \in Seq(ToSet(word[2]))
ASSUME WordsAssumption == \A word \in AllWords \cup Passed : IsWord(word)

\* The code knows every option of a compiler that takes the word after it, and no other.
ASSUME CompilersAssumption ==
    \A tool \in CompilerTools \cap DOMAIN Words : \A o \in {w[2] : w \in {v \in Words[tool] : v[1] = "option"}} :
        o \in DOMAIN Accepts <=> o \in kOptionsConsumingNextArgument \cup {"-I"}

\* Of a linker's options it knows those whose values could be taken for its inputs.
Harmless(word) == word[1] = "operand" /\ LastOf(word[2]) \notin LinkInputNames
ASSUME LinkersAssumption ==
    LET known == kLinkOptionsConsumingNextArgument \cup {"-L"}
        Options(words) == {w[2] : w \in {v \in words : v[1] = "option"}}
    IN /\ "-Xlinker" \in DOMAIN Accepts
       /\ \A o \in Options(Passed) : o # "-Xlinker" /\ (o \in DOMAIN Accepts <=> o \in known)
       /\ \A tool \in Linkers : \A o \in Options(Words[tool]) \ {"-Xlinker"} :
              /\ o \in known => o \in DOMAIN Accepts
              /\ o \in DOMAIN Accepts \ known => \A value \in Accepts[o] : Harmless(value)
       /\ \A o \in DOMAIN Accepts \ {"-Xlinker"} : \A value \in Accepts[o] : value[1] = "operand"

IsImage(image) ==
    /\ image = [file |-> image.file, relocatable |-> image.relocatable, sections |-> image.sections,
                segments |-> image.segments, dynamic |-> image.dynamic, names |-> image.names, mapped |-> image.mapped]
    /\ image.sections \in Seq(ToSet(image.sections)) /\ image.dynamic \in Seq(ToSet(image.dynamic))
ASSUME FormatsAssumption ==
    /\ MaxSectionHeaders \in Nat /\ MaxDynamicEntries \in Nat /\ MaxNeededEntries \in Nat
    /\ \A image \in Images : IsImage(image)

VARIABLES
    built,        \* the commands the build ran, the last of them still being typed
    records,      \* the records of the trace that read_trace gives back
    stage,        \* "building", "built", "scanning" the outputs, or "done"
    disk,         \* what is left of the build tree when the command runs
    warnings,     \* the warnings recorded
    usage,        \* the usage of every root by the trimmed document
    exit_code,    \* the exit code, "none" while it runs
    queue,        \* the outputs still to be opened,
    artifact,     \* the last one opened: what it holds, and its record
    seen,         \* the counters that are no longer zero,
    evidence,     \* what the outputs say of every root,
    unmatched     \* and unmatched_sonames

trim_vars == <<usage>>
binscan_vars == <<queue, artifact, seen, evidence, unmatched>>
evidence_vars == <<built, records, stage, disk, warnings, exit_code, trim_vars, binscan_vars>>

NoArtifact == [holds |-> <<>>, kind |-> "none"]
Nothing == [entry |-> FALSE, needed |-> {}, members |-> FALSE, shared |-> FALSE]

EvidenceInit ==
    /\ built = <<>> /\ records = <<>> /\ stage = "building"
    /\ disk = Disk /\ warnings = {} /\ exit_code = "none"
    /\ usage = [root \in Roots |-> "unjudged"]
    /\ queue = <<>> /\ artifact = NoArtifact
    /\ seen = {} /\ evidence = [root \in Roots |-> Nothing] /\ unmatched = {}

------------------------------------------------------------------------------
(* The build. *)

WordsTyped == FoldLeft(LAMBDA n, r : n + Len(r.arguments), 0, built)

Command(tool) ==
    /\ stage = "building" /\ Len(built) < MaxRecords /\ WordsTyped < MaxWords
    /\ built' = Append(built, [tool |-> tool, arguments |-> <<>>])
    /\ UNCHANGED <<records, stage, disk, warnings, exit_code, trim_vars, binscan_vars>>

Argument(word) ==
    LET record == Last(built)
        words == Append(record.arguments, word)
    IN /\ stage = "building" /\ built # <<>> /\ WordsTyped < MaxWords
       /\ word \in IF Len(words) \in Values(words, DOMAIN Accepts)
                   THEN Accepts[Last(record.arguments)[2]] ELSE Words[record.tool]
       /\ built' = Append(Front(built), [record EXCEPT !.arguments = words])
       /\ UNCHANGED <<records, stage, disk, warnings, exit_code, trim_vars, binscan_vars>>

\* What read_trace gives either command. Lines that were damaged, or lie past its
\* budget, are missing, with a warning; the build tree may have been cleaned.
TraceIsRead ==
    /\ stage = "building"
    /\ stage' = "built"
    /\ disk' \in {Disk, {}}
    /\ \/ records' = built /\ UNCHANGED warnings
       \/ /\ built # <<>>
          /\ records' \in {Front(built), Tail(built)}
          /\ warnings' = {"kObserveTraceMalformedLines"}
    /\ UNCHANGED <<built, exit_code, trim_vars, binscan_vars>>

------------------------------------------------------------------------------
(* bomwerk trim. *)

Ends(code) == exit_code' = code /\ stage' = "done"

\* apply_observe_trace and mark_used_in_build, then the trimmed document.
Trim ==
    LET compiles == map_compiles_to_roots(records)
        links == map_links_to_roots(records, disk)
    IN /\ stage = "built" /\ records # <<>>
       /\ usage' = mark_used_in_build(compiles, links)
       /\ warnings' = warnings \cup CompileWarnings(compiles) \cup LinkWarnings(links)
       /\ Ends(IF warnings' = {} THEN "clean" ELSE "warnings")
       /\ UNCHANGED <<built, records, disk, binscan_vars>>

------------------------------------------------------------------------------
(* bomwerk binscan. *)

longest_enclosing_root(path) == enclosing_root(Front(path))

\* The root with a file that could answer to soname, by its name or its unversioned
\* one; of several the longest.
root_for_soname(soname) ==
    LET Owners(name) == UNION {longest_enclosing_root(p) : p \in {f \in disk : LastOf(f) = name}}
        found == IF Owners(soname) # {} THEN Owners(soname)
                 ELSE UNION {Owners(BaseName[s]) : s \in {soname} \cap DOMAIN BaseName}
    IN {r \in found : \A other \in found : Len(other) <= Len(r)}

\* The trace is not looked at again.
StartBinscan ==
    LET artifacts == collect_build_artifacts(records) IN
    /\ stage = "built" /\ records # <<>>
    /\ queue' = SetToSeq(artifacts.paths)
    /\ warnings' = warnings \cup artifacts.warnings
                     \cup IF artifacts.paths = {} THEN {"kBinaryEvidenceLimited"} ELSE {}
    /\ built' = <<>> /\ records' = <<>>
    /\ stage' = "scanning"
    /\ UNCHANGED <<disk, exit_code, trim_vars, artifact, seen, evidence, unmatched>>

\* Either command ends like this: no component in the SBOM, no record in the trace, or
\* a file that cannot be written.
CommandFails ==
    /\ stage = "built" \/ (stage = "scanning" /\ queue = <<>>)
    /\ Ends("incomplete")
    /\ UNCHANGED <<built, records, disk, warnings, trim_vars, binscan_vars>>

\* The end of every artifact's turn: its record is kept and counted. In a cleaned tree
\* there is nothing to read.
Opened(holds, kind, record, counted) ==
    /\ stage = "scanning" /\ queue # <<>>
    /\ queue' = Tail(queue)
    /\ artifact' = [holds |-> holds, kind |-> kind, record |-> record]
    /\ seen' = seen \cup counted
    /\ UNCHANGED <<built, records, stage, disk, exit_code, trim_vars>>

Counted(counter, condition) == IF condition THEN {counter} ELSE {}

OpenUnreadable ==
    /\ Opened(<<>>, "unreadable", <<>>, {"unreadable"})
    /\ warnings' = warnings \cup {"kBinaryUnreadable"}
    /\ UNCHANGED <<evidence, unmatched>>

OpenUnrecognized ==
    /\ disk # {}
    /\ Opened(<<>>, "unrecognized", <<>>, {"unrecognized"})
    /\ UNCHANGED <<warnings, evidence, unmatched>>

\* The names an image declares go to the roots that hold such a file, and the image
\* itself to the root it lies in.
OpenElf(image) ==
    LET elf == read_elf(image)
        Where(soname) == root_for_soname(soname)
        dynamic == elf.shape = "Dynamic"
    IN /\ disk # {}
       /\ Opened(image, "elf", elf,
                 {"elf"} \cup Counted("static", elf.shape = "StaticExecutable")
                         \cup Counted("relocatable", elf.shape = "Relocatable")
                         \cup Counted("dynamic", dynamic)
                         \cup Counted("malformed", elf.shape \in {"NotElf", "Malformed"} \/ elf.names_unavailable)
                         \cup Counted("dynamic_without_needed",
                                      dynamic /\ ~elf.names_unavailable /\ elf.needed = {})
                         \cup Counted("truncated", elf.needed_truncated \/ elf.symbols_truncated))
       /\ warnings' = warnings \cup Counted("kBinaryMalformedHeader", elf.warned)
       /\ unmatched' = unmatched \cup {s \in elf.needed : Where(s) = {}}
       /\ evidence' = [root \in Roots |->
             LET named == {s \in elf.needed : root \in Where(s)}
                 holder == dynamic /\ root \in longest_enclosing_root(Head(queue))
             IN [evidence[root] EXCEPT !.entry = @ \/ named # {} \/ holder,
                                       !.needed = @ \cup named, !.shared = @ \/ holder]]

OpenArchive(archive) ==
    LET contents == read_archive(archive)
    IN /\ disk # {}
       /\ Opened(archive, "archive", contents,
                 {"archive"} \cup Counted("truncated", contents.members_truncated \/ contents.symbols_truncated))
       /\ warnings' = warnings \cup Counted("kBinaryMalformedHeader", contents.warned)
       /\ evidence' = [root \in Roots |->
             IF root \in longest_enclosing_root(Head(queue))
             THEN [evidence[root] EXCEPT !.entry = TRUE, !.members = @ \/ contents.members # {}]
             ELSE evidence[root]]
       /\ UNCHANGED unmatched

\* Each way of learning less than hoped is told; then the side-car, and the document
\* with the evidence of every component. used_in_build is left alone.
FinishBinscan ==
    LET limited == \/ seen \cap {"static", "relocatable", "dynamic_without_needed", "malformed",
                                 "unrecognized", "truncated"} # {}
                   \/ seen # {} /\ seen \cap {"elf", "archive"} = {}
                   \/ seen # {} /\ \A root \in Roots : ~evidence[root].entry
    IN /\ stage = "scanning" /\ queue = <<>>
       /\ warnings' = warnings \cup Counted("kBinaryEvidenceLimited", limited)
       /\ Ends(IF warnings' = {} THEN "clean" ELSE "warnings")
       /\ UNCHANGED <<built, records, disk, trim_vars, binscan_vars>>

EvidenceNext ==
    \/ \E tool \in DOMAIN Words : Command(tool)
    \/ \E word \in UNION ({Words[t] : t \in DOMAIN Words} \cup {Accepts[o] : o \in DOMAIN Accepts}) : Argument(word)
    \/ TraceIsRead \/ Trim \/ CommandFails
    \/ StartBinscan \/ OpenUnreadable \/ OpenUnrecognized \/ FinishBinscan
    \/ \E image \in Images : OpenElf(image)
    \/ \E archive \in Archives : OpenArchive(archive)

EvidenceSpec == EvidenceInit /\ [][EvidenceNext]_evidence_vars

------------------------------------------------------------------------------
(* What the commands of the build did, word by word: an operand that is not the  *)
(* value of an option is read, a directory is searched.                           *)

EvidenceTypeOK ==
    /\ stage \in {"building", "built", "scanning", "done"}
    /\ exit_code \in {"none", "clean", "warnings", "incomplete"} /\ (exit_code = "none" <=> stage # "done")
    /\ disk \in {Disk, {}} /\ DOMAIN usage = Roots /\ DOMAIN evidence = Roots

Value(words) == Values(words, DOMAIN Accepts)
Operands(words) == {words[k][2] : k \in {j \in DOMAIN words \ Value(words) : words[j][1] = "operand"}}

\* Where a directory is given to an option, joined to it or as its value.
Given(words, option) ==
    {j \in DOMAIN words :
        \/ words[j][1] = option /\ j \notin Value(words)
        \/ words[j][1] = "operand" /\ j \in Value(words) /\ words[j - 1] = Option(option)}
In(root, path) == root \in enclosing_root(DirectoryResolver(path))

Compiled(root, r) ==
    /\ r.tool \in CompilerTools
    /\ \E p \in Operands(r.arguments) : LastOf(p) \in SourceNames /\ In(root, Front(p))

Searched(root, r) ==
    r.tool \in CompilerTools /\ \E j \in Given(r.arguments, "-I") : In(root, r.arguments[j][2])

\* A -l means the file of the first directory that has one, wherever on the line that is.
Linked(root, r, files) ==
    LET words == flatten_linker_tokens(r)
        Has(j, k) == Found(words[k][2], words[j][2], files) # {}
    IN /\ is_link_mode_invocation(r)
       /\ \/ \E p \in Operands(words) : LastOf(p) \in LinkInputNames /\ In(root, Front(p))
          \/ \E j \in Given(words, "-L"), k \in DOMAIN words \ Value(words) :
                /\ words[k][1] = "-l" /\ In(root, words[j][2])
                /\ Has(j, k) /\ \A i \in Given(words, "-L") : i < j => ~Has(i, k)

Did(commands, Test(_)) == \E k \in DOMAIN commands : Test(commands[k])

\* "an unskipped value is read as a source file on the next pass, which invents usage
\* the build never had" (compile_map.cpp:301): each usage of the trimmed document
\* has a command in the trace that did what it says.
UsedIsObserved ==
    stage = "done" => \A root \in Roots :
        /\ usage[root] = "CompiledSource" => Did(records, LAMBDA r : Compiled(root, r))
        /\ usage[root] = "Linked" => Did(records, LAMBDA r : Linked(root, r, disk))
        /\ usage[root] = "IncludePath" => Did(records, LAMBDA r : Searched(root, r))

\* A component the build compiled, linked or searched for headers is dropped from the
\* trimmed document only with a warning, whatever became of the trace or the build tree.
NothingUsedIsDropped ==
    exit_code = "clean" => \A root \in Roots :
        usage[root] = "None" =>
            ~Did(built, LAMBDA r : Compiled(root, r) \/ Searched(root, r) \/ Linked(root, r, Disk))

\* Where an image says its names are: the table it was linked with (names) or, once it
\* was patched, another string table that sh_link names or whatever DT_STRTAB maps.
StringTables(image) ==
    LET linked == {s.link : s \in {t \in ToSet(image.sections) : t.type = "dynamic"}} \cap DOMAIN image.sections
    IN {image.sections[l].holds : l \in {k \in linked : image.sections[k].type = "strings"}}
       \cup {image.mapped : e \in {d \in ToSet(image.dynamic) : d[1] = "strtab"}}

\* The names at the positions it declares, in one table.
NamesIn(image, table) ==
    string_at(table, {image.dynamic[k][2] : k \in {j \in DOMAIN image.dynamic :
                          image.dynamic[j][1] = "needed" /\ \A i \in 1 .. j : image.dynamic[i][1] # "null"}})
Declared(image) == NamesIn(image, image.names)

\* "executable bytes into library names ... plausible garbage in an SBOM" (elf_read.cpp:499):
\* the record of an image names only what stands at declared positions of a table the
\* image calls its string table. If that is the one it was linked with, and nothing is
\* wrong, the record has all that can be read there; a name past its table, or without an
\* end, is passed over without a word. A name goes to a component only if the component
\* has such a file.
NamesAreDeclared ==
    /\ artifact.kind = "elf" =>
          /\ artifact.record.needed \subseteq UNION {NamesIn(artifact.holds, t) : t \in StringTables(artifact.holds)}
          /\ /\ artifact.record.shape = "Dynamic" /\ ~artifact.record.needed_truncated
             /\ ~artifact.record.names_unavailable /\ StringTables(artifact.holds) \subseteq {artifact.holds.names}
             => artifact.record.needed = Declared(artifact.holds)
    /\ \A root \in Roots : \A s \in evidence[root].needed :
          \E p \in disk : IsPrefix(root, p) /\ LastOf(p) \in {s} \cup {BaseName[b] : b \in {s} \cap DOMAIN BaseName}

\* "a walk that forgets it lands one byte into the next header and reads the whole rest
\* of the archive as garbage" (archive_read.cpp:35): the record of an intact archive has
\* all its objects that have a name; of any other some of them, and it says that it was
\* cut short. Beside them it has an index whose name is in its data, which is not known
\* for one. The symbols it lists are those of the index, unless that has more than are read.
MembersAreThere ==
    artifact.kind = "archive" =>
        /\ artifact.record.members \subseteq artifact.holds.members \cup artifact.holds.named_index
        /\ ~(artifact.holds.members \subseteq artifact.record.members) \/ artifact.record.members_truncated =>
              ~artifact.holds.intact /\ artifact.record.warned
        /\ ~artifact.record.symbols_truncated => artifact.record.symbols \subseteq artifact.holds.symbols
==============================================================================
