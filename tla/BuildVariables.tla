---------------------------- MODULE BuildVariables ----------------------------
(***************************************************************************)
(* Variables of build files (src/src/core/build_variables.cpp) and the      *)
(* MSBuild property scopes that collect them over imported files            *)
(* (src/src/parsers/lockfiles/msbuild_properties.cpp).                      *)
(*                                                                         *)
(* A text is a sequence of pieces, a literal <<"lit", l>> or a reference    *)
(* <<"ref", t>> whose name is again a text. A table maps names (texts) to   *)
(* texts; Ambiguous stands for a name that has no one value.                *)
(***************************************************************************)
EXTENDS Integers, Sequences, FiniteSets, TLC, SequencesExt

CONSTANTS
    MaxExpansionDepth,   \* kMaxExpansionDepth, 8 in the code
    MaxSubstitutions,    \* kMaxSubstitutions, 256 in the code
    MaxExpandedPieces,   \* kMaxExpandedBytes, 8192 bytes in the code
    MaxImportDepth       \* kMaxImportDepth of the MSBuild imports, 16 in the code

Lit(l) == <<<<"lit", l>>>>
Ref(name) == <<<<"ref", name>>>>
Ambiguous == <<<<"ambiguous", "">>>>
Nested == <<<<"nested", "">>>>
NoVariables == [name \in {} |-> Ambiguous]

------------------------------------------------------------------------------
\* Variant for mutation: the last definition wins.
RecordLast(table, name, value) == (name :> IF value = <<>> THEN Ambiguous ELSE value) @@ table

\* An empty value makes the name ambiguous, and so does a second, other value;
\* once ambiguous a name stays so.
record_variable_definition(table, name, value) ==
    LET recorded == IF value = <<>> THEN Ambiguous
                    ELSE IF name \notin DOMAIN table \/ table[name] = value THEN value
                    ELSE Ambiguous
    IN (name :> recorded) @@ table

mark_variable_ambiguous(table, name) == (name :> Ambiguous) @@ table

\* Names are few and their order is of no account: each is merged on its own.
merge_variable_tables(destination, source) ==
    [name \in DOMAIN destination \cup DOMAIN source |->
        IF name \notin DOMAIN source THEN destination[name]
        ELSE IF source[name] = Ambiguous THEN mark_variable_ambiguous(destination, name)[name]
        ELSE record_variable_definition(destination, name, source[name])[name]]

contains_unexpanded_variable(text) == \E k \in 1 .. Len(text) : text[k][1] = "ref"

Limited(grown) == [grown EXCEPT !.budget.exceeded = @ \/ Len(grown.text) > MaxExpandedPieces]
Replaced(done, value) == [text |-> done.text \o value.text, budget |-> value.budget]

\* One pass over the pieces, with what is left of the budget. An undefined
\* reference is kept as written, a defined one is replaced by its own expansion;
\* the name of a reference is expanded first.
RECURSIVE expand_with_budget(_, _, _, _), ReplaceReference(_, _, _, _, _)
expand_with_budget(text, table, depth, budget) ==
    IF depth > MaxExpansionDepth
    THEN [text |-> text, budget |-> [budget EXCEPT !.exceeded = TRUE]]
    ELSE FoldLeft(
        LAMBDA done, piece :
            IF done.budget.exceeded THEN done
            ELSE IF piece[1] = "lit" THEN [done EXCEPT !.text = Append(@, piece)]
            ELSE ReplaceReference(done, piece, table, depth + 1,
                                  expand_with_budget(piece[2], table, depth + 1, done.budget)),
        [text |-> <<>>, budget |-> budget], text)
ReplaceReference(done, piece, table, depth, name) ==
    Limited(IF name.text \notin DOMAIN table \/ table[name.text] = Ambiguous
            THEN [text |-> Append(done.text, piece), budget |-> name.budget]
            ELSE IF name.budget.substitutions_left = 0
            THEN [done EXCEPT !.budget = [name.budget EXCEPT !.exceeded = TRUE]]
            ELSE Replaced(done, expand_with_budget(table[name.text], table, depth,
                                   [name.budget EXCEPT !.substitutions_left = @ - 1])))

\* Out of budget the text is given back as it was, whole.
Finished(done, text) == IF done.budget.exceeded THEN text ELSE done.text
expand_variables(text, table) ==
    IF DOMAIN table = {} \/ ~contains_unexpanded_variable(text) THEN text
    ELSE Finished(expand_with_budget(text, table, 0,
                     [substitutions_left |-> MaxSubstitutions, exceeded |-> FALSE]), text)

------------------------------------------------------------------------------
\* MSBuild. A file has definitions, a sequence of <<name, value>> in document
\* order whose value may be Nested (an element, not a text), and imports, the
\* files it names in order (an unresolvable import is not among them).
parse_property_groups(definitions) ==
    FoldLeft(LAMBDA table, d : IF d[2] = Nested THEN mark_variable_ambiguous(table, Lit(d[1]))
                               ELSE record_variable_definition(table, Lit(d[1]), d[2]),
             NoVariables, definitions)

\* What PropertyScopes keeps: the files it has loaded, the files it may still
\* open, whether the file limit was met, the files it warned of.
NewScopes(budget) == [loaded |-> {}, budget |-> budget, limit_warned |-> FALSE, warned |-> {}]

\* A file outside the index or the budget is not remembered; an unreadable or
\* oversized one is, as a file without content.
load(scopes, files, file) ==
    IF file \in scopes.loaded \/ file \notin DOMAIN files THEN scopes
    ELSE IF scopes.budget = 0 THEN [scopes EXCEPT !.limit_warned = TRUE]
    ELSE [scopes EXCEPT !.loaded = @ \cup {file}, !.budget = @ - 1,
                        !.warned = IF files[file].readable THEN @ ELSE @ \cup {file}]

\* The properties of a file and of what it imports, each file once per closure:
\* an import cycle ends at the file that was visited.
RECURSIVE merge_file_closure(_, _, _, _)
merge_file_closure(walk, files, file, depth) ==
    IF depth > MaxImportDepth \/ file \in walk.visited THEN walk
    ELSE LET scopes == load(walk.scopes, files, file)
             entered == [walk EXCEPT !.scopes = scopes, !.visited = @ \cup {file}]
         IN IF file \notin scopes.loaded \/ ~files[file].readable THEN entered
            ELSE FoldLeft(LAMBDA w, import : merge_file_closure(w, files, import, depth + 1),
                          [entered EXCEPT !.table = merge_variable_tables(@,
                                             parse_property_groups(files[file].definitions))],
                          files[file].imports)

\* The directories from the root down to this one; only the root and those with
\* a directory file of their own have a table, each built on the one above it.
Ancestors(directory) == IF directory = "root" THEN <<"root">> ELSE <<"root", directory>>
DirectoryFiles(directory) ==
    IF directory = "root"
    THEN <<"eng/Versions.props", "eng/Version.Details.props",
           "root/Directory.Build.props", "root/Directory.Packages.props">>
    ELSE <<"sub/Directory.Build.props", "sub/Directory.Packages.props">>

table_at(scopes, files, directory) ==
    FoldLeft(LAMBDA walk, d :
                 FoldLeft(LAMBDA w, file : merge_file_closure(w, files, file, 0),
                          [walk EXCEPT !.visited = {}], DirectoryFiles(d)),
             [scopes |-> scopes, table |-> NoVariables, visited |-> {}], Ancestors(directory))

\* The directory's table, the project's own properties and those it imports.
table_for_project(scopes, files, directory, project) ==
    LET walk == table_at(scopes, files, directory)
        own == [walk EXCEPT !.visited = {}, !.table =
                  merge_variable_tables(@, parse_property_groups(project.definitions))]
    IN FoldLeft(LAMBDA w, import : merge_file_closure(w, files, import, 0), own, project.imports)
==============================================================================
