--------------------------- MODULE LockfileEntries ---------------------------
(***************************************************************************)
(* The lockfile parsers that read a document into entries first: the JSON   *)
(* of package-lock.json, composer.lock and composer.json, the TOML of       *)
(* Cargo.lock, uv.lock and poetry.lock, and requirements.txt, whose lines   *)
(* are entries of their own (src/src/parsers/lockfiles). An entry stands    *)
(* for itself, so the step of each loop judges one entry.                 *)
(*                                                                         *)
(* XGate are the warnings with which a whole file is refused before its     *)
(* entries are read, XEntries the shapes an entry may have, XLocked what    *)
(* the file says the project depends on.                                    *)
(***************************************************************************)
EXTENDS LockfileLines

Elements(entries) == {entries[k] : k \in 1 .. Len(entries)}

\* The packages of some documents are listed in an array. Where something else stands
\* in its place, a table of one package, say, the document is read as if it listed none.
Listed(entries) == {e \in Elements(entries) : e.listed}

------------------------------------------------------------------------------
\* package-lock.json. `link` and `dev` are read with a default, which is used
\* when the key is absent only: a value that is no boolean makes the read throw.
NpmGate == {"kJsonNestingDepthExceeded", "kInvalidJson", "kLockfileFormatUnsupported",
            "kMalformedEntrySkipped"}
NpmEntries ==
    [key : {"installed"}, link : {"absent", "true", "odd"}, version : {TRUE}, dev : {"absent"}]
    \cup [key : {"installed"}, link : {"absent"}, version : {TRUE}, dev : {"true", "odd"}]
    \cup [key : {"root", "workspace"}, link : {"absent"}, version : BOOLEAN, dev : {"absent"}]
    \cup {[key |-> "installed", link |-> "absent", version |-> FALSE, dev |-> "absent"]}
NpmStart == Said
NpmThrows(e, budget) ==
    /\ e.key # "root"
    /\ \/ e.link = "odd"
       \/ e.link = "absent" /\ e.version /\ e.key = "installed" /\ budget > 0 /\ e.dev = "odd"
NpmEntry(s, e) ==
    CASE e.key = "root" -> s
      [] e.key # "root" /\ (e.link = "true" \/ ~e.version \/ e.key = "workspace") -> Count(s)
      [] OTHER -> Emit(s, [scope |-> IF e.dev = "true" THEN "Excluded" ELSE "Required"])
NpmLocked(entries) ==
    {[scope |-> IF e.dev = "true" THEN "Excluded" ELSE "Required"] :
        e \in {x \in Elements(entries) : x.key = "installed" /\ x.link # "true"}}

------------------------------------------------------------------------------
\* Cargo.lock: an entry without a source, or one that is no string, is a workspace
\* member. The checksum is a hash of the component only when it is shaped like one.
CargoGate == {"kInvalidToml"}
CargoEntries == [listed : {TRUE}, source : BOOLEAN, named : {TRUE}, checksum : {"sha256", "other"}]
                \cup [listed : BOOLEAN, source : BOOLEAN, named : {FALSE}, checksum : {"other"}]
                \cup [listed : {FALSE}, source : {TRUE}, named : {TRUE}, checksum : {"sha256"}]
CargoStart == Said
CargoEntry(s, e) ==
    CASE ~e.listed \/ ~e.source -> s
      [] e.listed /\ e.source /\ ~e.named -> Count(s)
      [] OTHER -> Emit(s, [hash |-> e.checksum = "sha256"])
CargoPackages(entries) == {[hash |-> e.checksum = "sha256"] : e \in {x \in entries : x.source}}
CargoLocked(entries) == CargoPackages(Elements(entries))

------------------------------------------------------------------------------
\* uv.lock: the root project and the workspace members are virtual or editable.
UvGate == {"kInvalidToml"}
UvEntries == [listed : BOOLEAN, table : {TRUE}, member : BOOLEAN, named : BOOLEAN]
             \cup {[listed |-> TRUE, table |-> FALSE, member |-> FALSE, named |-> FALSE]}
UvStart == Said
UvEntry(s, e) ==
    CASE ~e.listed \/ e.member -> s
      [] e.listed /\ ~e.member /\ ~(e.table /\ e.named) -> Count(s)
      [] OTHER -> Emit(s, [scope |-> "Required"])
UvPackages(entries) == {[scope |-> "Required"] : e \in {x \in entries : ~x.member}}
UvLocked(entries) == UvPackages(Elements(entries))

\* poetry.lock: `groups`, else the older `category`, says what is dev-only.
PoetryGate == {"kInvalidToml"}
PoetryEntries ==
    [listed : {TRUE}, named : BOOLEAN, groups : {"absent", "none", "main", "dev"}, category : {"absent", "dev"}]
    \cup [listed : {FALSE}, named : {TRUE}, groups : {"main", "dev"}, category : {"absent"}]
PoetryStart == Said
PoetryScope(e) ==
    IF e.groups = "dev" \/ (e.groups = "absent" /\ e.category = "dev") THEN "Excluded" ELSE "Required"
PoetryEntry(s, e) ==
    CASE ~e.listed -> s
      [] e.listed /\ ~e.named -> Count(s)
      [] OTHER -> Emit(s, [scope |-> PoetryScope(e)])
\* A package is a development package when it has a say on that and no say for main.
PoetryPackages(entries) ==
    {[scope |-> IF {e.groups, e.category} \cap {"main", "none"} = {} /\ "dev" \in {e.groups, e.category}
                THEN "Excluded" ELSE "Required"] : e \in entries}
PoetryLocked(entries) == PoetryPackages(Elements(entries))

\* requirements.txt: an exact pin is a version, any other specifier a constraint;
\* the name is the normalized one. Options, includes, URLs and paths are counted.
RequirementsLines == {<<"pin", "A">>, <<"pin", "a">>, <<"range", "a">>, <<"bare", "b">>,
                      <<"option", "">>, <<"extras left open", "">>}
RequirementsStart == Said
Normalized(name) == IF name = "A" THEN "a" ELSE name
RequirementsLine(s, line) ==
    IF line[1] \in {"pin", "range", "bare"}
    THEN Emit(s, [name |-> Normalized(line[2]),
                  confidence |-> IF line[1] = "pin" THEN "High" ELSE "Low"])
    ELSE Count(s)
RequirementsLocked(lines) ==
    {[name |-> Normalized(l[2]), confidence |-> IF l[1] = "pin" THEN "High" ELSE "Low"] :
        l \in {x \in Elements(lines) : x[1] \in {"pin", "range", "bare"}}}

------------------------------------------------------------------------------
\* gradle.lockfile: group:artifact:version=configurations. A package is test-only
\* when every configuration it is in says so; none at all is no such claim.
GradleLines == {<<"coordinate", c>> : c \in SUBSET {"test", "runtime"}}
               \cup {<<"empty", {"test"}>>, <<"garbled", {}>>}
GradleScope(configurations) == IF configurations = {"test"} THEN "Excluded" ELSE "Required"
GradleLine(s, line) ==
    CASE line[1] = "coordinate" -> Emit(s, [scope |-> GradleScope(line[2])])
      [] line[1] = "empty" -> s
      [] OTHER -> Count(s)
GradleLocked(lines) ==
    {[scope |-> IF l[2] # {} /\ "runtime" \notin l[2] THEN "Excluded" ELSE "Required"] :
        l \in {x \in Elements(lines) : x[1] = "coordinate"}}

\* packages.lock.json: entries per framework; a project reference is first-party.
NugetGate == {"kJsonNestingDepthExceeded", "kInvalidJson", "kMalformedEntrySkipped"}
PackagesLockEntries == [object : {TRUE}, type : {"Direct", "Project", ""}, resolved : BOOLEAN]
                       \cup {[object |-> FALSE, type |-> "", resolved |-> FALSE]}
PackagesLockEntry(s, e) ==
    CASE e.type = "Project" -> s
      [] e.type # "Project" /\ ~e.resolved -> Count(s)
      [] e.type # "Project" /\ e.resolved -> Emit(s, [type |-> e.type, confidence |-> "High"])
PackagesLockLocked(entries) ==
    {[type |-> e.type, confidence |-> "High"] : e \in {x \in Elements(entries) : x.type # "Project"}}

\* packages.config: declared, not resolved.
PackagesConfigEntries == [id : BOOLEAN, version : {"absent", "blank", "1"}]
PackagesConfigEntry(s, e) ==
    IF ~e.id \/ e.version \in {"absent", "blank"} THEN Count(s)
    ELSE Emit(s, [type |-> "Direct", confidence |-> "Medium"])
PackagesConfigLocked(entries) == {[type |-> "Direct", confidence |-> "Medium"] : e \in Elements(entries)}

------------------------------------------------------------------------------
\* pom.xml: the document gives the pom's own coordinates and its properties, then
\* come its dependencies. A text is literal ("" when absent), a whole `${name}`
\* or has one inside it.
Text(x) == <<"literal", x>>
Reference(name) == <<"reference", name>>
Partial == <<"partial", "p">>
NoText == Text("")

\* One level, and never a text that is a reference again.
resolve_property_reference(text, properties) ==
    IF /\ text[1] = "reference" /\ text[2] \in DOMAIN properties
       /\ properties[text[2]][1] = "literal" /\ properties[text[2]] # NoText
    THEN properties[text[2]] ELSE text
is_usable_literal(text) == text[1] = "literal" /\ text # NoText

PomDocuments == [group : {NoText, Text("g")}, parent : {NoText, Text("0")}, p : {NoText, Text("3"), Reference("q")},
                 version : {NoText, Text("1"), Reference("p"), Reference("project.parent.version")}]
PomDependencies ==
    [group : {Text("h"), Reference("project.groupId")}, scope : {"test", ""},
     version : {NoText, Text("1"), Partial, Reference("project.version"), Reference("p")}]
    \cup {[group |-> NoText, scope |-> "", version |-> Text("1")]}

PomStart == [properties |-> <<>>] @@ Said
Defined(name, text) == IF text = NoText THEN <<>> ELSE name :> text
Inherited(own, parents) == IF own = NoText THEN parents ELSE own
ParentGroup(d) == IF d.parent = NoText THEN NoText ELSE Text("pg")

\* The pom's own identity, outside the budget. The project.* pseudo-properties are
\* what its coordinates resolved to.
PomOwn(s, d) ==
    LET parents == Defined("project.parent.version", d.parent)
        version == resolve_property_reference(Inherited(d.version, d.parent), parents @@ Defined("p", d.p))
        group == Inherited(d.group, ParentGroup(d))
        known == [s EXCEPT !.properties =
                     (IF is_usable_literal(version) THEN "project.version" :> version ELSE <<>>)
                     @@ Defined("project.groupId", group) @@ parents @@ Defined("p", d.p)]
    IN IF is_usable_literal(version) /\ is_usable_literal(group)
       THEN EmitFree(known, [group |-> group, version |-> version, scope |-> "own"])
       ELSE Count(known)

PomDependency(s, d) ==
    LET group == resolve_property_reference(d.group, s.properties)
        version == resolve_property_reference(d.version, s.properties)
        declared == [group |-> group, version |-> version, scope |-> d.scope]
    IN IF ~is_usable_literal(group) \/ d.version = NoText THEN Count(s)
       ELSE IF is_usable_literal(version) THEN Emit(s, declared)
       ELSE Count(Emit(s, [declared EXCEPT !.version = NoText]))

PomEntry(s, x) == IF "parent" \in DOMAIN x THEN PomOwn(s, x) ELSE PomDependency(s, x)

\* Read as a whole: each name stands for what its declarations lead to.
PomLocked(x) ==
    LET d == x[1]
        Follow(t) ==
            CASE t = Reference("p") -> d.p
              [] t = Reference("project.parent.version") -> d.parent
              [] t = Reference("project.version") -> Inherited(d.version, d.parent)
              [] t = Reference("project.groupId") -> Inherited(d.group, ParentGroup(d))
              [] OTHER -> t
        Value(t) == LET v == Follow(Follow(Follow(t))) IN IF v[1] = "literal" THEN v ELSE NoText
        Package(group, version, scope) == [group |-> Value(group), version |-> Value(version), scope |-> scope]
    IN IF Len(x) = 0 THEN {}
       ELSE {Package(Reference("project.groupId"), Reference("project.version"), "own")}
            \cup {Package(e.group, e.version, e.scope) : e \in {x[k] : k \in 2 .. Len(x)}}

------------------------------------------------------------------------------
\* composer.lock: resolved packages, those of packages-dev excluded. An entry
\* that is no object, or lacks a vendor/package name or a version, is counted.
ComposerGate == {"kJsonNestingDepthExceeded", "kInvalidJson", "kMalformedEntrySkipped"}
ComposerEntries ==
    [listed : {TRUE}, array : {"packages", "packages-dev"}, name : {"a", "no slash"}, version : BOOLEAN]
    \cup [listed : {FALSE}, array : {"packages", "packages-dev"}, name : {"a"}, version : {TRUE}]
ComposerStart == Said
ArrayScope(e) == IF e.array \in {"packages-dev", "require-dev"} THEN "Excluded" ELSE "Required"
ComposerEntry(s, e) ==
    CASE ~e.listed -> s
      [] e.listed /\ (e.name = "no slash" \/ ~e.version) -> Count(s)
      [] OTHER -> Emit(s, [name |-> e.name, versioned |-> TRUE, scope |-> ArrayScope(e)])
ComposerPackages(entries) == {[name |-> e.name, versioned |-> TRUE, scope |-> ArrayScope(e)] : e \in entries}
ComposerLocked(entries) == ComposerPackages(Elements(entries))

\* composer.json, where no composer.lock is beside it: declared ranges, no version.
ManifestGate == {"kJsonNestingDepthExceeded", "kInvalidJson"}
ManifestEntries == [array : {"require", "require-dev"}, name : {"a", "php", "no slash"}]
ManifestEntry(s, e) ==
    IF e.name \in {"php", "no slash"} THEN Count(s)
    ELSE Emit(s, [name |-> e.name, versioned |-> FALSE, scope |-> ArrayScope(e)])
ManifestLocked(entries) ==
    {[name |-> e.name, versioned |-> FALSE, scope |-> ArrayScope(e)] :
        e \in {x \in Elements(entries) : x.name # "php"}}

\* A version-less component gives way to a versioned one of the same name, a
\* runtime requirement only to one that is not dev-only.
DropVersionless(components) ==
    {c \in components :
        \/ c.versioned
        \/ ~\E v \in components :
              v.versioned /\ v.name = c.name /\ (v.scope = "Required" \/ c.scope = "Excluded")}
==============================================================================
