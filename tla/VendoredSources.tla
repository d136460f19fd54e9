---------------------------- MODULE VendoredSources ----------------------------
(***************************************************************************)
(* C and C++ libraries copied into the tree without a manifest             *)
(* (src/src/heuristics/vendor_root.cpp and vendored_cpp.cpp): which         *)
(* directory is a vendored library, and what the version headers, licence   *)
(* files and leftover .git found in it say of its identity.                *)
(*                                                                         *)
(* A text is the sequence of its #define lines; a value is the sequence of  *)
(* its dotted parts, and none of them the empty string. A purl is the       *)
(* record of its type, name and what follows its "@", if there is one.      *)
(***************************************************************************)
EXTENDS Integers, SequencesExt

CONSTANT
    FolderNames           \* <<folder, library>>: the folder's name contains the library's

\* Rows of every kind of the tables: the other rows differ in the names alone.
TriggerDirNames == {"third_party", "thirdparty", "vendor", "external", "deps", "libs"}
TestOrFixtureDirNames == {"test", "tests", "testdata", "fixture", "fixtures", "__tests__", "__fixtures__"}
is_dns_namespace_container_name(name) == name \in {"github.com", "k8s.io", "gopkg.in"}

LicenseFileNames == {"LICENSE", "LICENSE.txt", "LICENSE.md", "COPYING", "COPYING.txt"}

Signature(library, header, macros) == [library |-> library, header |-> header, macros |-> macros]
VersionHeaderSignatures ==
    <<Signature("zlib", "zlib.h", <<"ZLIB_VERSION">>),
      Signature("mbedtls", "version.h", <<"MBEDTLS_VERSION_STRING">>),
      Signature("xz-liblzma", "version.h", <<"LZMA_VERSION_STRING">>)>>
BareDottedVersionSignatures == <<Signature("uthash", "uthash.h", <<"UTHASH_VERSION">>)>>
SplitVersionSignatures ==
    <<Signature("cjson", "cJSON.h", <<"CJSON_VERSION_MAJOR", "CJSON_VERSION_MINOR", "CJSON_VERSION_PATCH">>)>>

------------------------------------------------------------------------------
\* The vendored library a file in these directories belongs to: the folder under the
\* first chain of triggers, unless that chain is test data, or the folder a namespace.
NoRoot == <<>>
vendor_root_for(dirs) ==
    LET triggers == {i \in DOMAIN dirs : dirs[i] \in TriggerDirNames}
        folders == {i \in DOMAIN dirs : dirs[i] \notin TriggerDirNames /\ \E j \in triggers : j < i
                                          /\ \A k \in j .. i - 1 : k \in triggers}
    IN IF \/ folders = {}
          \/ \E i \in 1 .. Min(triggers) : dirs[i] \in TestOrFixtureDirNames
          \/ is_dns_namespace_container_name(dirs[Min(folders)])
       THEN NoRoot ELSE SubSeq(dirs, 1, Min(folders))

------------------------------------------------------------------------------
\* An optional value is a set of at most one.
FirstOf(options) ==
    LET found == {i \in DOMAIN options : options[i] # {}}
    IN IF found = {} THEN {} ELSE options[Min(found)]

\* The line the read window cut in two: what is left of its value.
CutLine(line) ==
    IF line.form = "quoted" THEN [line EXCEPT !.form = "junk"]
    ELSE [line EXCEPT !.value = IF Len(@) > 1 THEN Front(@) ELSE <<"1">>]

\* Variant for mutation: the last line of a truncated read is taken as it stands.
ReadKeepsCutLine(file) ==
    IF file.window < Len(file.text)
    THEN SubSeq(file.text, 1, file.window) \o <<CutLine(file.text[file.window + 1])>>
    ELSE file.text

\* What a bounded read gives of a header: a line that was cut is dropped.
ReadHeader(file) == SubSeq(file.text, 1, file.window)

read_quoted_value(line) == IF line.form = "quoted" THEN {line.value} ELSE {}
read_bare_dotted_value(line) == IF line.form = "bare" /\ Len(line.value) > 1 THEN {line.value} ELSE {}
read_bare_integer_value(line) == IF line.form = "bare" /\ Len(line.value) = 1 THEN {line.value} ELSE {}

\* The definitions of a macro: a comment, or a longer name, is another macro's.
for_each_define(text, macro) == {i \in DOMAIN text : text[i].macro = macro}

extract_macro_value(text, macro, Reads(_)) ==
    FirstOf([i \in DOMAIN text |-> IF i \in for_each_define(text, macro) THEN Reads(text[i]) ELSE {}])

\* The forms of a row's one macro.
QuotedString(text, row) == extract_macro_value(text, row.macros[1], read_quoted_value)
BareDotted(text, row) == extract_macro_value(text, row.macros[1], read_bare_dotted_value)

extract_sole_integer(text, macro) ==
    LET defines == for_each_define(text, macro)
    IN IF Cardinality(defines) = 1 THEN UNION {read_bare_integer_value(text[i]) : i \in defines} ELSE {}

\* All the parts of the version, or nothing.
read_split_version(text, signature) ==
    LET parts == [i \in DOMAIN signature.macros |-> extract_sole_integer(text, signature.macros[i])]
    IN IF \E i \in DOMAIN parts : parts[i] = {} THEN {}
       ELSE {[i \in DOMAIN parts |-> Head(CHOOSE part \in parts[i] : TRUE)]}

folder_names_library(folder, library) == <<folder, library>> \in FolderNames

\* The first row of a table that reads a version in this file.
match_table(table, file, folder, folder_must_name_library, Reads(_, _)) ==
    FirstOf([i \in DOMAIN table |->
        IF /\ table[i].header = file.name
           /\ folder_must_name_library => folder_names_library(folder, table[i].library)
        THEN {[library |-> table[i].library, version |-> v] : v \in Reads(ReadHeader(file), table[i])}
        ELSE {}])

\* A quoted macro names the library wherever its header lies, the others only in a
\* folder of that name. The first file in which some table reads one decides.
find_version_header_match(folder, files) ==
    LET InFile(file) ==
            IF ~file.readable THEN {}
            ELSE FirstOf(<<match_table(VersionHeaderSignatures, file, folder, FALSE, QuotedString),
                           match_table(BareDottedVersionSignatures, file, folder, TRUE, BareDotted),
                           match_table(SplitVersionSignatures, file, folder, TRUE, read_split_version)>>)
    IN FirstOf([i \in DOMAIN files |-> InFile(files[i])])

\* The first licence file that can be read; recognized or not, no other is opened.
find_license_clue(files) ==
    FirstOf([i \in DOMAIN files |->
        IF files[i].name \in LicenseFileNames /\ files[i].readable THEN {files[i].license} ELSE {}])

\* The commit HEAD resolves to, and the upstream its origin names, if there is one.
HeadCommit == <<"c0ffee">>
Spelled(version) == IF version = <<>> THEN {} ELSE {version}
find_git_clue(git, folder) ==
    IF git \notin {"commit", "origin"} THEN {}
    ELSE {[commit |-> HeadCommit,
           purl |-> IF git = "origin" THEN [type |-> "github", name |-> "owner/repo", version |-> {HeadCommit}]
                    ELSE [type |-> "generic", name |-> folder, version |-> {HeadCommit}],
           supplier |-> IF git = "origin" THEN "owner" ELSE ""]}

folder_derived_purl(root) == [type |-> "generic", name |-> Last(root), version |-> {}]

\* A commit is believed before a header, a header before the folder's name; what was
\* found and not believed stays as evidence. A header's version is spelled in the purl even
\* when the macro is the empty string, so that this purl is not the folder's.
build_component(root, files, git) ==
    LET header == find_version_header_match(Last(root), files)
        commits == find_git_clue(git, Last(root))
        licenses == find_license_clue(files)
        purls == FirstOf(<<{g.purl : g \in commits},
                           {[type |-> "generic", name |-> h.library, version |-> {h.version}] : h \in header},
                           {folder_derived_purl(root)}>>)
        purl == CHOOSE p \in purls : TRUE
        Cite(what, confidence) == [source |-> "Heuristic", detail |-> <<what, root>>, confidence |-> confidence]
    IN [purl |-> purl, version |-> IF purl.version = {} THEN <<>> ELSE CHOOSE v \in purl.version : TRUE,
        root |-> root, scope |-> "Required",
        supplier |-> IF commits = {} THEN "" ELSE (CHOOSE g \in commits : TRUE).supplier,
        license |-> IF licenses = {} THEN "" ELSE CHOOSE l \in licenses : TRUE,
        evidence |-> {Cite("directory", "Low")}
            \cup (IF header # {} THEN {Cite("header", "Medium")} ELSE {})
            \cup (IF licenses # {} THEN {Cite("license", "Low")} ELSE {})
            \cup (IF git # "none" THEN {Cite("git", IF commits # {} THEN "Medium" ELSE "Low")} ELSE {})]
==============================================================================
