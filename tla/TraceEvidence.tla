----------------------------- MODULE TraceEvidence -----------------------------
(***************************************************************************)
(* What the recorded command lines of a build say of the components of the  *)
(* tree (src/src/observe/compile_map.cpp, link_map.cpp): the sources a       *)
(* compiler read, the directories it searched for headers, the inputs of a  *)
(* linker, and from them whether each is used or not.                      *)
(*                                                                         *)
(* A path is the sequence of its segments from the scanned root. An          *)
(* argument is a pair: <<"option", spelling>>, <<"-I", dir>> and <<"-L", dir>> *)
(* with the value joined, <<"-l", name>>, <<"operand", path>>, <<"response">>  *)
(* for an @file, <<"-Wl", arguments>> for what it hands to the linker.       *)
(***************************************************************************)
EXTENDS Integers, Sequences, FiniteSets, TLC, SequencesExt

CONSTANTS
    Roots,        \* the roots of the components, and
    Disk,         \* the files a -lNAME may find: root-relative paths
    Links         \* directories that are symbolic links: path |-> what they are

SourceNames == {"a.c"}
ArchiveNames == {"libz.a"}
SharedObjectNames == {"libz.so", "libz.so.1"}
LinkInputNames == {"a.o"} \cup ArchiveNames \cup SharedObjectNames
CompilerTools == {"cc", "c++"}
CompileOnly == {"-c", "-S", "-E"}

Option(spelling) == <<"option", spelling>>
LastOf(path) == path[Len(path)]

------------------------------------------------------------------------------
\* Paths. Directories are resolved through links, the last segment of a file is not.
DirectoryResolver(directory) == IF directory \in DOMAIN Links THEN Links[directory] ELSE directory
resolve_file_argument(path) == Append(DirectoryResolver(Front(path)), Last(path))

to_root_relative(path) == path = <<>> \/ Head(path) # ".."

\* The innermost root around a directory: its longest prefix that is one.
enclosing_root(directory) ==
    LET around == {root \in Roots : IsPrefix(root, directory)}
    IN {root \in around : \A other \in around : Len(other) <= Len(root)}

Attributed(paths, Directory(_)) ==
    [root \in Roots |-> {p \in paths : to_root_relative(p) /\ root \in enclosing_root(Directory(p))}]

------------------------------------------------------------------------------
\* An option list decides which words are values. Any word is skipped after one of these.
is_link_mode_invocation(record) ==
    \/ record.tool = "ld"
    \/ /\ record.tool \in CompilerTools
       /\ \A k \in DOMAIN record.arguments :
             /\ record.arguments[k][1] # "response"
             /\ \A o \in CompileOnly : record.arguments[k] # Option(o)

kOptionsConsumingNextArgument == {"-o", "-include", "-L", "-l", "-MF", "-Xlinker"}
kLinkOptionsConsumingNextArgument == {"-o", "-soname", "-T"}

\* One word of a compile line; awaits is the option whose value comes next.
NoLine == [sources |-> {}, includes |-> {}, inputs |-> {}, directories |-> <<>>, libraries |-> {},
           output |-> <<>>, responses |-> FALSE, awaits |-> ""]

CompileWord(line, word) ==
    CASE line.awaits = "-I" ->
            [line EXCEPT !.awaits = "", !.includes = IF word[1] = "operand" THEN @ \cup {word[2]} ELSE @]
      [] line.awaits \notin {"", "-I"} -> [line EXCEPT !.awaits = ""]
      [] line.awaits = "" /\ word[1] = "response" -> [line EXCEPT !.responses = TRUE]
      [] line.awaits = "" /\ word[1] = "operand" ->
            [line EXCEPT !.sources = IF LastOf(word[2]) \in SourceNames THEN @ \cup {word[2]} ELSE @]
      [] line.awaits = "" /\ word[1] = "-I" -> [line EXCEPT !.includes = @ \cup {word[2]}]
      [] line.awaits = "" /\ word[1] = "option" ->
            [line EXCEPT !.awaits =
                IF word[2] \in kOptionsConsumingNextArgument \cup {"-I"} THEN word[2] ELSE ""]
      [] OTHER -> line

\* Variant for mutation: no option takes the word after it.
ScanForgetsValues(record) ==
    FoldLeft(LAMBDA line, word : [CompileWord(line, word) EXCEPT !.awaits = ""], NoLine, record.arguments)

scan_compile_line(record) ==
    LET line[k \in 0 .. Len(record.arguments)] ==
            IF k = 0 THEN NoLine ELSE CompileWord(line[k - 1], record.arguments[k])
    IN line[Len(record.arguments)]

\* Which of the words are values of the word before them.
Values(words, takes) ==
    LET value[k \in 0 .. Len(words)] ==
            k > 1 /\ words[k - 1] \in {Option(o) : o \in takes} /\ ~value[k - 1]
    IN {k \in DOMAIN words : value[k]}

\* -Xlinker passes its one word on as it is, -Wl all of its own.
Handed(words, k) ==
    CASE k \in Values(words, {"-Xlinker"}) -> <<words[k]>>
      [] k \notin Values(words, {"-Xlinker"}) /\ words[k] = Option("-Xlinker") -> <<>>
      [] k \notin Values(words, {"-Xlinker"}) /\ words[k][1] = "-Wl" -> words[k][2]
      [] OTHER -> <<words[k]>>

flatten_linker_tokens(record) ==
    LET tokens[k \in 0 .. Len(record.arguments)] ==
            IF k = 0 THEN <<>> ELSE tokens[k - 1] \o Handed(record.arguments, k)
    IN tokens[Len(record.arguments)]

LinkWord(line, word) ==
    CASE line.awaits = "-o" ->
            [line EXCEPT !.awaits = "",
                         !.output = IF @ = <<>> /\ word[1] = "operand" THEN word[2] ELSE @]
      [] line.awaits = "-L" ->
            [line EXCEPT !.awaits = "", !.directories = IF word[1] = "operand" THEN Append(@, word[2]) ELSE @]
      [] line.awaits \notin {"", "-o", "-L"} -> [line EXCEPT !.awaits = ""]
      [] line.awaits = "" /\ word[1] = "response" -> [line EXCEPT !.responses = TRUE]
      [] line.awaits = "" /\ word[1] = "-L" -> [line EXCEPT !.directories = Append(@, word[2])]
      [] line.awaits = "" /\ word[1] = "-l" -> [line EXCEPT !.libraries = @ \cup {word[2]}]
      [] line.awaits = "" /\ word[1] = "operand" ->
            [line EXCEPT !.inputs = IF LastOf(word[2]) \in LinkInputNames THEN @ \cup {word[2]} ELSE @]
      [] line.awaits = "" /\ word[1] = "option" ->
            [line EXCEPT !.awaits =
                IF word[2] \in kLinkOptionsConsumingNextArgument \cup {"-L"} THEN word[2] ELSE ""]
      [] OTHER -> line

scan_link_line(record) ==
    LET tokens == flatten_linker_tokens(record)
        line[k \in 0 .. Len(tokens)] == IF k = 0 THEN NoLine ELSE LinkWord(line[k - 1], tokens[k])
    IN line[Len(tokens)]

\* A -lNAME stands for the two file names it may mean. Every -L counts for every -l
\* of the line; in each directory .so before .a. A guess that is not on the disk
\* proves nothing.
Found(name, directory, disk) ==
    LET File(suffix) == Append(DirectoryResolver(directory), name[suffix])
    IN {File(suffix) : suffix \in {s \in {"shared", "archive"} :
           File(s) \in disk /\ (s = "shared" \/ File("shared") \notin disk)}}

resolve_library_name(name, directories, disk) ==
    UNION {Found(name, directories[k], disk) :
              k \in {j \in DOMAIN directories : \A i \in 1 .. j - 1 : Found(name, directories[i], disk) = {}}}

\* ar [--plugin file] keys [position] archive members: some keys, counted by
\* <<"keys", n>>, take an operand of their own before the archive.
scan_archive_output(record) ==
    LET start == IF record.arguments # <<>> /\ record.arguments[1] = Option("--plugin") THEN 3 ELSE 1
        archive == start + 1 + record.arguments[start][2]
    IN IF start \in DOMAIN record.arguments /\ record.arguments[start][1] = "keys"
          /\ archive \in DOMAIN record.arguments /\ record.arguments[archive][1] = "operand"
       THEN {record.arguments[archive][2]} ELSE {}

------------------------------------------------------------------------------
Of(records, Test(_)) == {records[k] : k \in {j \in DOMAIN records : Test(records[j])}}

\* Variant for mutation: a command that also links is no compile.
CompilesWithoutLinks(records) ==
    LET lines == {scan_compile_line(r) :
                     r \in Of(records, LAMBDA r : r.tool \in CompilerTools /\ ~is_link_mode_invocation(r))}
        sources == {resolve_file_argument(s) : s \in UNION {l.sources : l \in lines}}
        includes == {DirectoryResolver(i) : i \in UNION {l.includes : l \in lines}}
    IN [sources |-> Attributed(sources, Front), includes |-> Attributed(includes, LAMBDA i : i),
        in_tree |-> {s \in sources : to_root_relative(s)}, out_of_tree |-> {s \in sources : ~to_root_relative(s)},
        responses |-> \E l \in lines : l.responses,
        invoked |-> Of(records, LAMBDA r : r.tool \in CompilerTools /\ ~is_link_mode_invocation(r)) # {}]

\* A command that compiles and links counts as a link, its sources as compiled.
map_compiles_to_roots(records) ==
    LET lines == {scan_compile_line(r) : r \in Of(records, LAMBDA r : r.tool \in CompilerTools)}
        sources == {resolve_file_argument(s) : s \in UNION {l.sources : l \in lines}}
        includes == {DirectoryResolver(i) : i \in UNION {l.includes : l \in lines}}
    IN [sources |-> Attributed(sources, Front), includes |-> Attributed(includes, LAMBDA i : i),
        in_tree |-> {s \in sources : to_root_relative(s)}, out_of_tree |-> {s \in sources : ~to_root_relative(s)},
        responses |-> \E l \in lines : l.responses,
        invoked |-> Of(records, LAMBDA r : r.tool \in CompilerTools /\ ~is_link_mode_invocation(r)) # {}]

CompileWarnings(map) ==
    {w \in {"kObserveNoCompilerInvocations", "kObserveEvidenceOutsideRoot", "kObserveResponseFilesUnexpanded"} :
        CASE w = "kObserveNoCompilerInvocations" -> ~map.invoked /\ map.in_tree = {}
          [] w = "kObserveEvidenceOutsideRoot" -> map.invoked /\ map.in_tree = {} /\ map.out_of_tree # {}
          [] OTHER -> map.responses}

\* Without any -L a -l is a library of the system, and no one is told.
map_links_to_roots(records, disk) ==
    LET lines == {scan_link_line(r) : r \in Of(records, is_link_mode_invocation)}
        Named(l) == {[name |-> n, found |-> resolve_library_name(n, l.directories, disk)] : n \in l.libraries}
        named == UNION {Named(l) : l \in {x \in lines : x.directories # <<>>}}
        inputs == {resolve_file_argument(i) : i \in UNION {l.inputs : l \in lines}}
    IN [inputs |-> Attributed(inputs \cup UNION {n.found : n \in named}, Front),
        unresolved |-> \E n \in named : n.found = {},
        responses |-> \E l \in lines : l.responses]

LinkWarnings(map) ==
    {w \in {"kObserveUnresolvedLinkArgument", "kObserveResponseFilesUnexpanded"} :
        IF w = "kObserveUnresolvedLinkArgument" THEN map.unresolved ELSE map.responses}

\* The strongest of what was seen (merge_link_evidence, then mark_used_in_build).
mark_used_in_build(compiles, links) ==
    [root \in Roots |->
        CASE compiles.sources[root] # {} -> "CompiledSource"
          [] compiles.sources[root] = {} /\ links.inputs[root] # {} -> "Linked"
          [] compiles.sources[root] = {} /\ links.inputs[root] = {} /\ compiles.includes[root] # {} ->
                "IncludePath"
          [] OTHER -> "None"]

\* What the build wrote or linked in whole, for the binary scan to open.
collect_build_artifacts(records) ==
    LET links == {scan_link_line(r) : r \in Of(records, is_link_mode_invocation)}
        outputs == {l.output : l \in links} \ {<<>>}
        archives == UNION {scan_archive_output(r) : r \in Of(records, LAMBDA r : r.tool = "ar")}
        linked == {i \in UNION {l.inputs : l \in links} : LastOf(i) \in ArchiveNames \cup SharedObjectNames}
        artifacts == {resolve_file_argument(p) : p \in outputs \cup archives \cup linked}
    IN [paths |-> {a \in artifacts : to_root_relative(a)},
        warnings |->
           {w \in {"kObserveEvidenceOutsideRoot", "kObserveResponseFilesUnexpanded"} :
              IF w = "kObserveEvidenceOutsideRoot" THEN \E a \in artifacts : ~to_root_relative(a)
              ELSE \E l \in links : l.responses}]
==============================================================================
