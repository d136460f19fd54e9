---------------------------- MODULE ManifestReaders ----------------------------
(***************************************************************************)
(* The manifest parsers that share the lockfile parsers' loop over the      *)
(* files: conan (src/src/parsers/cpp/conan.cpp), vcpkg, GitHub workflows    *)
(* (src/src/parsers/ci) and west (src/src/parsers/embedded). What they find *)
(* is declared more often than resolved, so a package carries the           *)
(* confidence its declaration earns. The conventions are LockfileLines'.    *)
(***************************************************************************)
EXTENDS LockfileEntries

CONSTANT
    MaxPythonContinuationLines   \* kMaxPythonContinuationLines, 50 in the code

------------------------------------------------------------------------------
\* A conan reference, by its shape: the fields parse_conan_reference finds.
parse_conan_reference(shape) ==
    [name |-> IF shape = "no name" THEN "" ELSE "a",
     version |-> CASE shape \in {"exact", "revision"} -> "1" [] shape = "range" -> "[>1]" [] OTHER -> "",
     revision |-> IF shape = "revision" THEN "r" ELSE ""]
ConanShapes == {"exact", "range", "bare", "revision", "no name"}

confidence_for_reference(reference, resolved_by_conan) ==
    CASE resolved_by_conan \/ reference.revision # "" -> "High"
      [] ~resolved_by_conan /\ reference.revision = "" /\ reference.version \in {"", "[>1]"} -> "Low"
      [] OTHER -> "Medium"

\* The budget is asked before the reference is read: one without a name costs too.
component_from_reference(s, reference, confidence) ==
    IF reference.name = "" THEN Count(Try(s))
    ELSE Emit(s, [name |-> reference.name, version |-> reference.version, confidence |-> confidence])

\* What a declaration is worth, shape by shape.
Worth(shape) ==
    [name |-> "a",
     version |-> [exact |-> "1", revision |-> "1", range |-> "[>1]", bare |-> "", interpolated |-> ""][shape],
     confidence |-> [exact |-> "Medium", revision |-> "High", range |-> "Low", bare |-> "Low",
                     interpolated |-> "Low"][shape]]

\* conanfile.txt: a header opens a section, one left open closes the section too.
ConanTxtStart == [current_section |-> ""] @@ Said
ConanTxtLine(s, line) ==
    CASE line[1] = "header" -> [s EXCEPT !.current_section = line[2]]
      [] line[1] = "open header" -> Count([s EXCEPT !.current_section = ""])
      [] line[1] = "entry" /\ s.current_section = "requires" ->
            LET reference == parse_conan_reference(line[2])
            IN component_from_reference(s, reference, confidence_for_reference(reference, FALSE))
      [] OTHER -> s
ConanTxtLines == {<<"header", "requires">>, <<"header", "options">>, <<"open header", "">>}
                 \cup {<<"entry", shape>> : shape \in ConanShapes}
ConanTxtLocked(lines) ==
    {Worth(lines[k][2]) :
        k \in {j \in 1 .. Len(lines) :
                 LET top == LastBefore(lines, j, {"header", "open header"})
                 IN /\ lines[j][1] = "entry" /\ lines[j][2] # "no name"
                    /\ top # 0 /\ lines[top] = <<"header", "requires">>}}

------------------------------------------------------------------------------
\* conanfile.py, by a scan of its text: requirement attributes, whose list may go
\* on over further lines, and self.requires() calls. A line has at most one string
\* literal; "docstring" is a line with one end of a docstring on it.
ConanPyStart == [docstring |-> FALSE, depth |-> 0, collecting_attribute |-> FALSE,
                 collecting_lines_remaining |-> 0] @@ Said

\* An interpolated name is no identity, an interpolated version no version.
emit_python_requirement(s, literal) ==
    CASE literal = "" -> s
      [] literal = "f-name" -> Count(Try(s))
      [] literal = "f-version" ->
            Count(component_from_reference(s, [name |-> "a", version |-> ""], "Low"))
      [] OTHER -> LET reference == parse_conan_reference(literal)
                  IN component_from_reference(s, reference, confidence_for_reference(reference, FALSE))

bracket_depth_delta(line) ==
    CASE line[1] = "attribute open" -> 1 [] line[1] = "close" -> -1 [] OTHER -> 0

\* A line inside the list: its literals count whatever the line is.
CollectLine(s, line) ==
    IF s.collecting_lines_remaining = 0 THEN Count([s EXCEPT !.collecting_attribute = FALSE])
    ELSE LET depth == s.depth + bracket_depth_delta(line)
         IN emit_python_requirement(
                [s EXCEPT !.depth = depth, !.collecting_attribute = depth > 0,
                          !.collecting_lines_remaining = @ - 1],
                line[2])

ConanPyLine(s, line) ==
    CASE line[1] = "docstring" /\ s.collecting_attribute ->
            CollectLine([s EXCEPT !.docstring = ~@], <<"docstring", "">>)
      [] line[1] = "docstring" /\ ~s.collecting_attribute -> [s EXCEPT !.docstring = ~@]
      [] line[1] # "docstring" /\ s.docstring ->
            IF s.collecting_attribute THEN CollectLine(s, <<"text", "">>) ELSE s
      [] line[1] # "docstring" /\ ~s.docstring /\ s.collecting_attribute -> CollectLine(s, line)
      [] ~s.docstring /\ ~s.collecting_attribute /\ line[1] \in {"attribute", "attribute open"} ->
            emit_python_requirement(
                IF line[1] = "attribute" THEN [s EXCEPT !.depth = 0]
                ELSE [s EXCEPT !.depth = 1, !.collecting_attribute = TRUE,
                               !.collecting_lines_remaining = MaxPythonContinuationLines],
                line[2])
      [] ~s.docstring /\ ~s.collecting_attribute /\ line[1] = "call" ->
            emit_python_requirement(s, line[2])
      [] OTHER -> s
ConanPyLines == {<<"attribute", "exact">>, <<"attribute", "f-version">>, <<"attribute open", "range">>,
                 <<"text", "bare">>, <<"close", "revision">>, <<"call", "exact">>, <<"call", "f-name">>,
                 <<"call", "">>, <<"docstring", "">>}

\* Code is what no docstring encloses; a list is open until it is closed there.
InCode(lines, k) ==
    /\ lines[k][1] # "docstring"
    /\ Cardinality({j \in 1 .. k - 1 : lines[j][1] = "docstring"}) % 2 = 0
InList(lines, k) ==
    \E o \in 1 .. k - 1 :
       /\ lines[o][1] = "attribute open" /\ InCode(lines, o)
       /\ \A i \in o + 1 .. k - 1 :
             LET between(kind) == {j \in o + 1 .. i : lines[j][1] = kind /\ InCode(lines, j)}
             IN Cardinality(between("close")) <= Cardinality(between("attribute open"))
ConanPyLocked(lines) ==
    {Worth(IF lines[k][2] = "f-version" THEN "interpolated" ELSE lines[k][2]) :
        k \in {j \in 1 .. Len(lines) :
                 /\ InCode(lines, j) /\ lines[j][2] \notin {"", "f-name"}
                 /\ lines[j][1] \in {"attribute", "attribute open", "call"} \/ InList(lines, j)}}

------------------------------------------------------------------------------
\* conan.lock (and `conan graph info`): the arrays of conan 2 and the nodes of
\* conan 1, of which "0" is the consumer. What conan resolved is High.
ConanLockEntries == {<<place, shape>> : place \in {"requires", "node"}, shape \in ConanShapes}
                    \cup {<<"node 0", "exact">>, <<"garbled", "">>}
ConanLockEntry(s, e) ==
    CASE e[1] = "garbled" -> Count(s)
      [] e[1] = "node 0" -> s
      [] OTHER -> LET reference == parse_conan_reference(e[2])
                  IN component_from_reference(s, reference, confidence_for_reference(reference, TRUE))
ConanLockLocked(entries) ==
    {[Worth(e[2]) EXCEPT !.confidence = "High"] :
        e \in {x \in Elements(entries) : x[1] \in {"requires", "node"} /\ x[2] # "no name"}}
ConanLockGate == {"kJsonNestingDepthExceeded", "kInvalidJson", "kMalformedEntrySkipped"}

------------------------------------------------------------------------------
\* vcpkg.json. The document comes first: whether it is a port's own manifest, and
\* its overrides, <<name, version>> in order; then its dependencies.
parse_override_versions(overrides) ==
    LET pins == {k \in 1 .. Len(overrides) : overrides[k][1] # "" /\ overrides[k][2] # ""}
    IN [name \in {overrides[k][1] : k \in pins} |->
           overrides[CHOOSE k \in pins : overrides[k][1] = name
                                         /\ \A j \in pins : overrides[j][1] = name => k <= j][2]]

VcpkgStart == [pins |-> parse_override_versions(<<>>)] @@ Said

\* A port's own identity asks no budget.
component_from_port_identity(s, port) ==
    CASE port = "none" -> s
      [] port = "nameless" -> Count(s)
      [] port = "p" -> EmitFree(s, [name |-> "p", version |-> "1", confidence |-> "High"])

\* The override's version is the only one there is: a minimum is no pin.
component_from_dependency(s, name) ==
    CASE name = "" -> Count(Try(s))
      [] name # "" /\ name \in DOMAIN s.pins ->
            Emit(s, [name |-> name, version |-> s.pins[name], confidence |-> "High"])
      [] OTHER -> Emit(s, [name |-> name, version |-> "", confidence |-> "Low"])

VcpkgEntry(s, e) ==
    IF e[1] = "document"
    THEN LET pinned == [s EXCEPT !.pins = parse_override_versions(e[3])]
         IN component_from_port_identity(
                IF \E k \in 1 .. Len(e[3]) : e[3][k][1] = "" THEN Count(pinned) ELSE pinned, e[2])
    ELSE component_from_dependency(s, e[2])

VcpkgDocuments ==
    {<<"document", port, overrides>> : port \in {"none", "nameless", "p"},
        overrides \in {<<>>, <<<<"", "3">>, <<"a", "1">>, <<"a", "2">>>>, <<<<"b", "">>, <<"b", "1">>>>}}
VcpkgDependencies == {<<"dependency", name>> : name \in {"a", "b", ""}}
VcpkgLocked(entries) ==
    IF entries = <<>> THEN {}
    ELSE LET overrides == entries[1][3]
             Pins(name) == {o \in Elements(overrides) : o[1] = name /\ o[2] # ""}
             First(name) == overrides[CHOOSE k \in 1 .. Len(overrides) :
                                 /\ overrides[k] \in Pins(name)
                                 /\ \A j \in 1 .. k - 1 : overrides[j] \notin Pins(name)][2]
         IN {IF Pins(e[2]) = {} THEN [name |-> e[2], version |-> "", confidence |-> "Low"]
             ELSE [name |-> e[2], version |-> First(e[2]), confidence |-> "High"] :
                 e \in {x \in Elements(entries) : x[1] = "dependency" /\ x[2] # ""}}
            \cup (IF entries[1][2] = "p"
                  THEN {[name |-> "p", version |-> "1", confidence |-> "High"]} ELSE {})
VcpkgGate == {"kJsonNestingDepthExceeded", "kInvalidJson"}

------------------------------------------------------------------------------
\* A workflow, line by line at its indentation: `uses:` names an action wherever
\* it stands, except in the body of a block scalar, which is a script.
WorkflowStart == [block_scalar_indentation |-> 0] @@ Said

classify_uses_target(value) ==
    CASE value = "local" -> "LocalAction" [] value = "docker" -> "DockerAction"
      [] value = "odd owner" -> "UnresolvableOwner" [] OTHER -> "GitHubAction"

component_from_uses_reference(s, value) ==
    CASE classify_uses_target(value) \in {"LocalAction", "DockerAction"} -> s
      [] classify_uses_target(value) = "UnresolvableOwner" \/ value = "no repo" -> Count(s)
      [] value = "sha" -> Emit(s, [ref |-> "sha", confidence |-> "High"])
      [] value = "tag" -> Emit(s, [ref |-> "tag", confidence |-> "Medium"])
      [] value \in {"no ref", "expression"} -> Count(Emit(s, [ref |-> "", confidence |-> "Low"]))

WorkflowLine(s, line) ==
    IF s.block_scalar_indentation # 0 /\ line[1] > s.block_scalar_indentation THEN s
    ELSE LET now == [s EXCEPT !.block_scalar_indentation = 0]
         IN CASE line[2] = "block" -> [now EXCEPT !.block_scalar_indentation = line[1]]
              [] line[2] = "" -> Count(now)
              [] OTHER -> component_from_uses_reference(Try(now), line[2])
WorkflowLines ==
    {<<indentation, value>> : indentation \in 1 .. 3, value \in {"block", "sha"}}
    \cup {<<1, value>> : value \in {"tag", "no ref", "expression", "local", "odd owner", ""}}
WorkflowLocked(lines) ==
    {[ref |-> IF lines[k][2] \in {"sha", "tag"} THEN lines[k][2] ELSE "",
      confidence |-> CASE lines[k][2] = "sha" -> "High" [] lines[k][2] = "tag" -> "Medium" [] OTHER -> "Low"] :
        k \in {j \in 1 .. Len(lines) :
                 /\ lines[j][2] \in {"sha", "tag", "no ref", "expression"}
                 /\ ~\E o \in 1 .. j - 1 : /\ lines[o][2] = "block"
                                           /\ \A i \in o + 1 .. j : lines[i][1] > lines[o][1]}}

------------------------------------------------------------------------------
\* west.yml: the whole manifest is read first, by the section a line stands in,
\* and its projects are resolved after its last line.
Project(name) == [name |-> name, url |-> "", remote |-> "", revision |-> ""]
WestStart == [section |-> "", default_remote |-> "", default_revision |-> "",
              remotes |-> <<>>, projects |-> <<>>] @@ Said

SetLast(items, field, value) == [items EXCEPT ![Len(items)] = [@ EXCEPT ![field] = value]]

read_remote_field(s, line) ==
    CASE line[1] = "- name" -> [s EXCEPT !.remotes = Append(@, [name |-> line[2], url_base |-> ""])]
      [] line[1] # "- name" /\ s.remotes = <<>> -> Count(s)
      [] line[1] = "url-base" /\ s.remotes # <<>> ->
            [s EXCEPT !.remotes = SetLast(@, "url_base", line[2])]
      [] OTHER -> s

read_project_field(s, line) ==
    CASE line[1] = "- name" -> [s EXCEPT !.projects = Append(@, Project(line[2]))]
      [] line[1] # "- name" /\ s.projects = <<>> -> Count(s)
      [] line[1] \in {"url", "remote", "revision"} /\ s.projects # <<>> ->
            [s EXCEPT !.projects = SetLast(@, line[1], line[2])]
      [] OTHER -> s

WestLine(s, line) ==
    CASE line[1] = "section" -> [s EXCEPT !.section = line[2]]
      [] line[1] # "section" /\ s.section = "defaults" ->
            (CASE line[1] = "remote" -> [s EXCEPT !.default_remote = line[2]]
              [] line[1] = "revision" -> [s EXCEPT !.default_revision = line[2]]
              [] OTHER -> s)
      [] line[1] # "section" /\ s.section = "remotes" -> read_remote_field(s, line)
      [] line[1] # "section" /\ s.section = "projects" -> read_project_field(s, line)
      [] OTHER -> s

\* The project's url, else its remote, the default remote or the one remote.
resolve_url(s, project) ==
    LET remote_name == CASE project.remote # "" -> project.remote
                         [] project.remote = "" /\ s.default_remote # "" -> s.default_remote
                         [] OTHER -> IF Len(s.remotes) = 1 THEN s.remotes[1].name ELSE ""
        found == {k \in 1 .. Len(s.remotes) : s.remotes[k].name = remote_name}
    IN IF project.url # "" THEN project.url
       ELSE IF found = {} THEN ""
       ELSE s.remotes[CHOOSE k \in found : \A j \in found : k <= j].url_base

build_component(project, revision) ==
    [name |-> project.name, version |-> revision,
     confidence |-> CASE revision = "" -> "Low" [] revision = "sha" -> "High" [] OTHER -> "Medium"]

\* One project after the other, in the order of the manifest.
WestEnd(s) ==
    IF s.projects = <<>> THEN [s EXCEPT !.ending = FALSE]
    ELSE LET project == Head(s.projects)
             rest == [s EXCEPT !.projects = Tail(@), !.ending = Len(s.projects) > 1]
             revision == IF project.revision = "" THEN s.default_revision ELSE project.revision
         IN IF project.name = "" \/ resolve_url(s, project) = "" THEN Count(rest)
            ELSE Emit(IF revision = "" THEN Count(rest) ELSE rest, build_component(project, revision))

WestLines ==
    {<<"section", "defaults">>, <<"section", "projects">>, <<"section", "remotes">>,
     <<"revision", "main">>, <<"revision", "sha">>, <<"- name", "a">>, <<"- name", "b">>,
     <<"url", "u">>, <<"url-base", "u">>, <<"remote", "a">>}
WestLocked(lines) ==
    LET In(k, section) == LET top == LastBefore(lines, k, {"section"})
                          IN top # 0 /\ lines[top][2] = section
        Items == {k \in 1 .. Len(lines) : lines[k][1] = "- name" /\ In(k, "projects")}
        Fields(k) == {j \in k + 1 .. Len(lines) :
                         In(j, "projects") /\ ~\E i \in Items : k < i /\ i <= j}
        Default == LastValue(lines, {j \in 1 .. Len(lines) : In(j, "defaults")}, "revision")
        Revision(k) == LET own == LastValue(lines, Fields(k), "revision")
                       IN IF own = "" THEN Default ELSE own
    IN {[name |-> lines[k][2], version |-> Revision(k),
         confidence |-> CASE Revision(k) = "sha" -> "High" [] Revision(k) = "" -> "Low"
                          [] OTHER -> "Medium"] : k \in Items}
==============================================================================
