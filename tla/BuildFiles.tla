------------------------------ MODULE BuildFiles ------------------------------
(***************************************************************************)
(* parse() of the two parsers that read definitions and declarations from   *)
(* different files: CMake (src/src/parsers/cpp/cmake_deps.cpp), which reads  *)
(* every file before it expands a declaration, and .csproj projects         *)
(* (src/src/parsers/lockfiles/nuget.cpp), which load the property files     *)
(* their directory and their imports call for as they go, against the same  *)
(* limit on opened files as the projects themselves.                        *)
(*                                                                         *)
(* What the CMake files hold is chosen as it is read; a solution's files    *)
(* are chosen at the start, since the order they are read in is the code's. *)
(***************************************************************************)
EXTENDS BuildDeclarations

CONSTANTS
    MaxFiles,            \* CMake files in the index
    MaxCommands,         \* commands in all of them together
    Limits,              \* values of max_scanned_files
    MaxDeclarations      \* max_total_declarations

VARIABLES
    ecosystem,           \* "cmake" or "nuget"
    tree,                \* CMake: the commands read so far; NuGet: the solution
    file,                \* the last file opened
    openings,            \* files that may still be opened
    table,               \* CMake: the variables
    made_available,      \* CMake: the names made available
    declarations,        \* CMake: the declarations still to be reported
    central,             \* NuGet: directory to the version its Directory.Packages.props gives
    scopes,              \* NuGet: PropertyScopes
    components,          \* <<declaration, component>>
    warnings,
    pc                   \* "next", "reading", "declaring", "projects", "returned"

vars == <<ecosystem, tree, file, openings, table, made_available, declarations, central, scopes,
          components, warnings, pc>>

------------------------------------------------------------------------------
\* The commands of interest. One the lexer could not read to its end is not well
\* formed; the values of a variable are texts.
Sets == {[kind |-> "set", name |-> n, values |-> v, well_formed |-> TRUE] :
           n \in {"V"}, v \in {<<Lit("1")>>, <<Lit("sha")>>, <<>>, <<Ref(Lit("W"))>>}}
        \cup {[kind |-> "set", name |-> "W", values |-> <<v>>, well_formed |-> TRUE] :
                v \in {Lit("1"), Ref(Lit("V"))}}
        \cup {[kind |-> "set", name |-> n, values |-> <<Lit("1")>>, well_formed |-> n # "V"] :
                n \in {"V", "ENV{V}"}}
Binds == {[kind |-> "bind", name |-> "V", well_formed |-> TRUE]}
Availables == {[kind |-> "available", name |-> Lit("a"), well_formed |-> w] : w \in BOOLEAN}

Declaration(command, name, git, version) ==
    [kind |-> "declare", command |-> command, name |-> name, git |-> git, version |-> version,
     archive |-> <<>>, hash |-> <<>>, svn |-> <<>>, well_formed |-> TRUE]
Declarations ==
    LET fetch == Declaration("fetchcontent_declare", Lit("a"), Lit("g"), Ref(Lit("V")))
    IN {fetch, [fetch EXCEPT !.version = Lit("sha")], [fetch EXCEPT !.name = Ref(Lit("V"))],
        [fetch EXCEPT !.well_formed = FALSE, !.version = Lit("sha")],
        [fetch EXCEPT !.git = <<>>, !.svn = Lit("s"), !.version = Lit("12")],
        [Declaration("cpmaddpackage", Lit("a"), <<>>, <<>>)
            EXCEPT !.archive = Lit("u-2"), !.hash = Ref(Lit("V"))],
        [Declaration("cpmaddpackage", Lit("a"), <<>>, Ref(Lit("V"))) EXCEPT !.archive = Lit("u-2")],
        [Declaration("externalproject_add", Lit("a"), <<>>, Ref(Lit("W")))
            EXCEPT !.archive = Lit("u"), !.hash = Lit("hex")],
        Declaration("cpmdeclarepackage", Ref(Lit("V")), <<>>, <<>>)}

\* A solution: the property files, two projects and the central versions.
PropertyFiles == {"eng/Versions.props", "eng/Version.Details.props", "root/Directory.Build.props",
                  "sub/Directory.Build.props", "x.props"}
PropertyFile(definitions, imports) == [readable |-> TRUE, definitions |-> definitions, imports |-> imports]
V(value) == <<<<"V", value>>>>
Contents(name) ==
    CASE name = "eng/Versions.props" -> {PropertyFile(V(Lit("1")), <<>>), PropertyFile(<<>>, <<"x.props">>)}
      [] name = "eng/Version.Details.props" -> {PropertyFile(V(Lit("1")), <<>>)}
      [] name = "root/Directory.Build.props" ->
            {PropertyFile(V(Lit("2")), <<>>), PropertyFile(<<>>, <<"x.props">>),
             [PropertyFile(<<>>, <<>>) EXCEPT !.readable = FALSE]}
      [] name = "sub/Directory.Build.props" ->
            {PropertyFile(V(Ref(Lit("W"))), <<>>), PropertyFile(<<>>, <<"root/Directory.Build.props">>)}
      [] name = "x.props" ->
            {PropertyFile(<<<<"W", Lit("1")>>, <<"V", Lit("1")>>>>, <<"root/Directory.Build.props">>),
             PropertyFile(V(Nested), <<"x.props">>),
             [PropertyFile(<<>>, <<>>) EXCEPT !.readable = FALSE]}
PropertyTrees ==
    UNION {{f \in [present -> UNION {Contents(n) : n \in present}] :
               \A n \in present : f[n] \in Contents(n)} : present \in SUBSET PropertyFiles}
CentralVersions == [root : {NoVersion, Lit("1"), Ref(Lit("V"))},
                    sub : {NoVersion, Lit("unreadable"), Ref(Lit("V"))}]
\* A Directory.Packages.props has properties too: that of the root defines the one it uses.
CentralFile == [root |-> "root/Directory.Packages.props", sub |-> "sub/Directory.Packages.props"]
CentralFiles(versions) ==
    LET given == {d \in DOMAIN versions : versions[d] # NoVersion}
        Of(d) == [PropertyFile(IF d = "root" /\ versions[d] = Ref(Lit("V")) THEN V(Lit("1")) ELSE <<>>, <<>>)
                     EXCEPT !.readable = versions[d] # Lit("unreadable")]
    IN [file_name \in {CentralFile[d] : d \in given} |-> Of(CHOOSE d \in given : CentralFile[d] = file_name)]
FirstProjects == [definitions : {<<>>, V(Lit("1"))}, imports : {<<>>, <<"x.props">>},
                  version : {Ref(Lit("V")), NoVersion, Lit("[1]")}]
SecondProject(version) == [definitions |-> <<>>, imports |-> <<>>, version |-> version]
Directory(p) == <<"sub", "root">>[p]

Init ==
    /\ \/ /\ ecosystem = "cmake" /\ tree = <<>>
          /\ openings \in {limit \in Limits : limit <= MaxFiles + 1}   \* a higher one cuts nothing
       \/ /\ ecosystem = "nuget" /\ openings \in Limits
          /\ \E files \in PropertyTrees, versions \in CentralVersions, first \in FirstProjects,
                version \in {Ref(Lit("V")), NoVersion} :
                tree = [files |-> files @@ CentralFiles(versions), central |-> versions, projects |-> <<first, SecondProject(version)>>]
    /\ file = 0
    /\ table = NoVariables /\ made_available = {} /\ declarations = <<>>
    /\ central = <<>> /\ scopes = NewScopes(0)
    /\ components = {} /\ warnings = {} /\ pc = "next"

Warn(codes) == warnings' = warnings \cup codes

------------------------------------------------------------------------------
\* CMake. The files beyond the limit are left, with one warning.
OpenCmakeFile ==
    /\ ecosystem = "cmake" /\ pc = "next" /\ file < MaxFiles /\ openings > 0
    /\ file' = file + 1 /\ openings' = openings - 1
    /\ \E read \in {"ok", "kUnreadableFile", "kFileSizeLimitExceeded"} :
          /\ Warn({read} \ {"ok"})
          /\ pc' = IF read = "kUnreadableFile" THEN "next" ELSE "reading"
    /\ UNCHANGED <<ecosystem, tree, table, made_available, declarations, central, scopes, components>>

\* Bound: MaxCommands. A command that is not well formed is warned of by the lexer,
\* except the last one of a file that was cut.
ReadCommand ==
    /\ pc = "reading" /\ Len(tree) < MaxCommands
    /\ \E command \in Sets \cup Binds \cup Availables \cup Declarations :
          /\ tree' = Append(tree, command)
          /\ table' = CASE command.kind = "set" -> record_set_definition(table, command)
                        [] command.kind = "bind" -> mark_variable_ambiguous(table, Lit(command.name))
                        [] OTHER -> table
          /\ made_available' = IF command.kind = "available" /\ command.well_formed
                               THEN made_available \cup {command.name} ELSE made_available
          /\ declarations' = IF command.kind = "declare" /\ Len(declarations) < MaxDeclarations
                             THEN Append(declarations, command) ELSE declarations
          /\ Warn((IF command.well_formed THEN {} ELSE {"kMalformedEntrySkipped"})
                  \cup (IF command.kind = "declare" /\ Len(declarations) = MaxDeclarations
                        THEN {"kEntryLimitReached"} ELSE {}))
    /\ UNCHANGED <<ecosystem, file, openings, central, scopes, components, pc>>

EndCmakeFile ==
    /\ pc = "reading"
    /\ pc' = "next"
    /\ UNCHANGED <<ecosystem, tree, file, openings, table, made_available, declarations, central,
                   scopes, components, warnings>>

\* After the last file the names made available are expanded.
EndCmakeFiles ==
    /\ ecosystem = "cmake" /\ pc = "next" /\ (file = MaxFiles \/ openings = 0)
    /\ made_available' = {expand_variables(name, table) : name \in made_available}
    /\ Warn(IF file < MaxFiles THEN {"kFileLimitReached"} ELSE {})
    /\ pc' = "declaring"
    /\ UNCHANGED <<ecosystem, tree, file, openings, table, declarations, central, scopes, components>>

Report(origin, judged, warned) ==
    /\ components' = components \cup ({origin} \X judged.component)
    /\ Warn((IF judged.warned THEN {"kUnresolvedVariableOrInterpolation"} ELSE {}) \cup warned)

Declare ==
    /\ pc = "declaring" /\ declarations # <<>>
    /\ Report(Head(declarations),
              component_from_declaration(Head(declarations), made_available, table), {})
    /\ declarations' = Tail(declarations)
    /\ UNCHANGED <<ecosystem, tree, file, openings, table, made_available, central, scopes, pc>>

------------------------------------------------------------------------------
\* NuGet, first phase: every Directory.Packages.props; one that cannot be read is
\* no entry of the map, and so gives way to the one of a directory above.
ReadCentral ==
    /\ ecosystem = "nuget" /\ pc = "next" /\ file < 2
    /\ file' = file + 1
    /\ LET directory == <<"root", "sub">>[file + 1]
           version == tree.central[directory]
       IN IF version = NoVersion THEN UNCHANGED <<central, openings, warnings>>
          ELSE IF openings = 0
               THEN Warn({"kFileLimitReached"}) /\ UNCHANGED <<central, openings>>
          ELSE /\ openings' = openings - 1
               /\ central' = IF version = Lit("unreadable") THEN central
                             ELSE (directory :> version) @@ central
               /\ Warn(IF version = Lit("unreadable") THEN {"kUnreadableFile"} ELSE {})
    /\ UNCHANGED <<ecosystem, tree, table, made_available, declarations, scopes, components, pc>>

BeginProjects ==
    /\ ecosystem = "nuget" /\ pc = "next" /\ file = 2
    /\ file' = 0 /\ pc' = "projects"
    /\ UNCHANGED <<ecosystem, tree, openings, table, made_available, declarations, central, scopes,
                   components, warnings>>

\* Second phase: a project, whose properties are collected when its reference needs
\* them; what they open comes off the same limit.
Walk(directory, project, declared) ==
    IF contains_unexpanded_variable(declared)
    THEN table_for_project([scopes EXCEPT !.budget = openings - 1], tree.files, directory, project)
    ELSE [scopes |-> [scopes EXCEPT !.budget = openings - 1], table |-> NoVariables]

ReportReference(reference, pinned, walk) ==
    /\ scopes' = walk.scopes
    /\ openings' = walk.scopes.budget
    /\ Report(file + 1, PackageReference(reference, pinned, walk.table),
              (IF walk.scopes.limit_warned THEN {"kFileLimitReached"} ELSE {})
              \cup (IF walk.scopes.warned # {} THEN {"kUnreadableFile"} ELSE {}))

ReadProject ==
    /\ pc = "projects" /\ file < Len(tree.projects) /\ openings > 0
    /\ file' = file + 1
    /\ LET project == tree.projects[file + 1]
           directory == Directory(file + 1)
           pinned == find_nearest_directory_packages_file(directory, central)
           declared == IF project.version = NoVersion THEN pinned ELSE project.version
       IN ReportReference([name |-> Lit("a"), version |-> project.version], pinned,
                          Walk(directory, project, declared))
    /\ UNCHANGED <<ecosystem, tree, table, made_available, declarations, central, pc>>

Return ==
    /\ \/ pc = "declaring" /\ declarations = <<>> /\ UNCHANGED warnings
       \/ pc = "projects" /\ file = Len(tree.projects) /\ UNCHANGED warnings
       \/ /\ pc = "projects" /\ file < Len(tree.projects) /\ openings = 0
          /\ Warn({"kFileLimitReached"})
    /\ pc' = "returned"
    /\ UNCHANGED <<ecosystem, tree, file, openings, table, made_available, declarations, central,
                   scopes, components>>

Next == OpenCmakeFile \/ ReadCommand \/ EndCmakeFile \/ EndCmakeFiles \/ Declare
        \/ ReadCentral \/ BeginProjects \/ ReadProject \/ Return

Spec == Init /\ [][Next]_vars

------------------------------------------------------------------------------
TypeOK ==
    /\ ecosystem \in {"cmake", "nuget"}
    /\ file \in 0 .. MaxFiles /\ openings \in Nat
    /\ pc \in {"next", "reading", "declaring", "projects", "returned"}

Elements(s) == {s[k] : k \in 1 .. Len(s)}

\* What a project's properties may come from: the files of the directories down to
\* it and, over any number of imports, what they and the project name.
Reached(files) ==
    files \cup UNION {Elements(tree.files[f].imports) \cap DOMAIN tree.files : f \in files}
Closure(p) ==
    LET named == UNION {Elements(DirectoryFiles(d)) : d \in Elements(Ancestors(Directory(p)))}
                 \cup Elements(tree.projects[p].imports)
    IN Reached(Reached(Reached(Reached(named \cap DOMAIN tree.files))))

\* The definitions of a variable, as values: of all the CMake commands read, or of
\* the files a project reaches. NoVersion is one that gives no one value.
Definitions(p, variable) ==
    IF ecosystem = "cmake"
    THEN {IF c.kind = "set" /\ c.well_formed /\ Len(c.values) = 1 THEN c.values[1] ELSE NoVersion :
             c \in {x \in Elements(tree) : x.kind \in {"set", "bind"} /\ x.name = variable}}
    ELSE {IF d[2] = Nested THEN NoVersion ELSE d[2] :
             d \in {x \in Elements(tree.projects[p].definitions)
                           \cup UNION {Elements(tree.files[f].definitions) : f \in Closure(p)} :
                       x[1] = variable}}

\* The value all definitions agree on, {} if there is none.
Agreed(p, variable) ==
    IF Cardinality(Definitions(p, variable)) = 1 THEN Definitions(p, variable) \ {NoVersion} ELSE {}
Value(p, text) ==
    IF ~contains_unexpanded_variable(text) THEN {text}
    ELSE UNION {IF v = Ref(Lit("V")) THEN Agreed(p, "V") \ {Ref(Lit("W"))}
                ELSE IF v = Ref(Lit("W")) THEN Agreed(p, "W") \ {Ref(Lit("V"))}
                ELSE {v} : v \in Agreed(p, text[1][2][1][2])}

\* The version a component is to have: the one agreed on, none otherwise.
VersionOf(values) == IF values = {} THEN <<>> ELSE without_exact_version_brackets(CHOOSE v \in values : TRUE)
Unread == warnings \cap {"kUnreadableFile", "kFileLimitReached"} # {}
CentralOf(p) == LET own == tree.central[Directory(p)]
                IN IF own = NoVersion THEN tree.central["root"] ELSE own

\* The version a declaration is to have: its archive's URL may spell one when its own
\* is not known.
DeclaredIn(command) ==
    IF Value(0, command.version) = {} /\ command.git = <<>> /\ command.archive # <<>>
    THEN guess_version_from_url(command.archive) ELSE VersionOf(Value(0, command.version))

\* "guessing a value into a component identity is worse than leaving it out"
\* (cmake_deps.cpp:697): a version that is a variable is reported with the value
\* every definition in the tree agrees on, over any order of files, any imports
\* and any cycle among them. Otherwise it is left out, except that an archive then
\* has the version its URL spells (cmake_deps.cpp:569), under the warning that says
\* the version was left out.
VersionsAreAgreed ==
    \A x \in components :
        IF ecosystem = "cmake"
        THEN x[1].version # <<>> =>
                /\ x[2].version = DeclaredIn(x[1])
                /\ Value(0, x[1].version) = {} => "kUnresolvedVariableOrInterpolation" \in warnings
        ELSE LET declared == IF tree.projects[x[1]].version = NoVersion THEN CentralOf(x[1])
                             ELSE tree.projects[x[1]].version
             IN ~Unread => x[2].version = VersionOf(Value(x[1], declared))

\* A declaration with a name or a repository is reported, under a name that is no
\* reference; nothing else is lost either without a warning.
EveryDeclarationReported ==
    pc = "returned" =>
        IF ecosystem = "cmake"
        THEN \A c \in {x \in Elements(tree) : x.kind = "declare"} :
                \/ "kEntryLimitReached" \in warnings
                \/ \E x \in components :
                      x[1] = c /\ x[2].name \in IF Value(0, c.name) # {} THEN Value(0, c.name) ELSE {Lit("repo")}
                \/ Value(0, c.name) = {} /\ c.git = <<>> /\ warnings # {}
        ELSE \A p \in 1 .. 2 : (\E x \in components : x[1] = p) \/ warnings # {}

\* High confidence is for what is pinned: an object id, a checksum or an svn
\* revision, in a command read to its end, of a dependency confirmed to be built.
HighMeansPinned ==
    \A x \in components :
        x[2].confidence = "High" =>
            /\ ecosystem = "cmake" /\ x[1].well_formed
            /\ x[2].version \in {Lit("sha"), Lit("12")} \/ Value(0, x[1].hash) = {Lit("hex")}
            /\ x[1].command = "fetchcontent_declare" =>
                  [kind |-> "available", name |-> x[2].name, well_formed |-> TRUE] \in Elements(tree)
==============================================================================
