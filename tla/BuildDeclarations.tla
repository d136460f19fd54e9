--------------------------- MODULE BuildDeclarations ---------------------------
(***************************************************************************)
(* What the parsers make of a declaration in a build file: a CMake          *)
(* dependency command (src/src/parsers/cpp/cmake_deps.cpp) and a .csproj's  *)
(* PackageReference (src/src/parsers/lockfiles/nuget.cpp). Both expand       *)
(* variables first, and leave out of an identity what stays unresolved.     *)
(***************************************************************************)
EXTENDS BuildVariables

\* What a step says: the component, and whether something was warned of.
Judged(component, warned) == [component |-> component, warned |-> warned]
Known(text) == IF contains_unexpanded_variable(text) THEN <<>> ELSE text

------------------------------------------------------------------------------
\* set(NAME value...): one value defines the name, unless the lexer could not read
\* the command to its end; any other shape makes it ambiguous.
record_set_definition(table, command) ==
    CASE command.name = "ENV{V}" -> table
      [] command.name # "ENV{V}" /\ command.well_formed /\ Len(command.values) = 1 ->
            record_variable_definition(table, Lit(command.name), command.values[1])
      [] OTHER -> mark_variable_ambiguous(table, Lit(command.name))

\* What an archive's URL says of its version.
guess_version_from_url(url) == IF url = Lit("u-2") THEN Lit("2") ELSE <<>>

Fields == {"name", "git", "version", "archive", "hash", "svn"}
Expanded(command, table) == [field \in Fields |-> expand_variables(command[field], table)]

Extracted(command, made_available, name, fields, unresolved) ==
    [name |-> name, git |-> fields["git"], version |-> fields["version"], archive |-> fields["archive"],
     hash |-> fields["hash"], svn |-> fields["svn"],
     name_unresolved |-> "name" \in unresolved, stripped |-> unresolved # {},
     declare_only |-> \/ command.command = "cpmdeclarepackage"
                      \/ command.command = "fetchcontent_declare" /\ name \notin made_available]

\* Variant for mutation: the reference stays in the identity.
ExtractKeepsReferences(command, made_available, table) ==
    Extracted(command, made_available, Expanded(command, table)["name"], Expanded(command, table), {})

\* Whatever identity field still holds a reference is emptied, and the name is then
\* the repository's, if there is one.
Stripped(command, made_available, expanded) ==
    Extracted(command, made_available,
              IF Known(expanded["name"]) = <<>> /\ Known(expanded["git"]) # <<>>
              THEN Lit("repo") ELSE Known(expanded["name"]),
              [field \in Fields |-> Known(expanded[field])],
              {field \in Fields : contains_unexpanded_variable(expanded[field])})

\* The fields of a declaration, expanded and stripped.
extract_declaration(command, made_available, table) ==
    Stripped(command, made_available, Expanded(command, table))

lowered_by_one(confidence) == IF confidence = "High" THEN "Medium" ELSE "Low"

\* Variant for mutation: any tag of a repository is taken for a pin.
SourceTrustsTags(extracted, version) ==
    IF extracted.git # <<>> /\ version # <<>> THEN "High" ELSE "Medium"

\* A repository, else an archive, else a legacy repository, else a name alone: only
\* an object id, a checksum or an svn revision is High.
SourceConfidence(extracted, version) ==
    CASE extracted.git # <<>> -> IF version = Lit("sha") THEN "High" ELSE "Medium"
      [] extracted.git = <<>> /\ extracted.archive # <<>> ->
            IF extracted.hash = Lit("hex") THEN "High" ELSE "Medium"
      [] extracted.git = <<>> /\ extracted.archive = <<>> /\ extracted.svn # <<>> ->
            IF version = Lit("12") THEN "High" ELSE "Medium"
      [] OTHER -> "Low"

DeclaredVersion(extracted) ==
    IF extracted.git = <<>> /\ extracted.archive # <<>> /\ extracted.version = <<>>
    THEN guess_version_from_url(extracted.archive) ELSE extracted.version

ComponentOf(command, extracted, version) ==
    LET sourceless == extracted.git = <<>> /\ extracted.archive = <<>> /\ extracted.svn = <<>>
        earned == IF extracted.stripped THEN "Low" ELSE SourceConfidence(extracted, version)
        built == IF extracted.declare_only THEN lowered_by_one(earned) ELSE earned
    IN IF (extracted.name_unresolved /\ extracted.git = <<>>) \/ (sourceless /\ extracted.name = <<>>)
       THEN Judged({}, TRUE)
       ELSE Judged({[name |-> extracted.name, version |-> version,
                      confidence |-> IF command.well_formed THEN built ELSE "Low"]},
                    extracted.stripped \/ sourceless \/ extracted.hash = Lit("odd"))
FromExtracted(command, extracted) == ComponentOf(command, extracted, DeclaredVersion(extracted))

component_from_declaration(command, made_available, table) ==
    FromExtracted(command, extract_declaration(command, made_available, table))

------------------------------------------------------------------------------
\* A .csproj's PackageReference: its name, and its version or NoVersion for the
\* shape whose version the nearest Directory.Packages.props gives, if one does.
NoVersion == Lit("none")

without_exact_version_brackets(version) == IF version = Lit("[1]") THEN Lit("1") ELSE version

\* The nearest Directory.Packages.props from the directory upwards that was read.
find_nearest_directory_packages_file(directory, central) ==
    LET Read(d) == d \in DOMAIN central /\ central[d] # NoVersion
    IN CASE Read(directory) -> central[directory]
         [] ~Read(directory) /\ Read("root") -> central["root"]
         [] OTHER -> NoVersion

PackageReference(reference, central, table) ==
    LET declared == IF reference.version = NoVersion THEN central ELSE reference.version
        name == expand_variables(reference.name, table)
        version == expand_variables(declared, table)
        unresolved == contains_unexpanded_variable(version)
    IN IF declared \in {NoVersion, <<>>} \/ contains_unexpanded_variable(name)
       THEN Judged({}, TRUE)
       ELSE Judged({[name |-> name, version |-> without_exact_version_brackets(Known(version)),
                      confidence |-> IF unresolved THEN "Low" ELSE "Medium"]}, unresolved)
==============================================================================
