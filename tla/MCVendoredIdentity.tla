-------------------------- MODULE MCVendoredIdentity --------------------------
(***************************************************************************)
(* A small tree for TLC: two copies of zlib, one under a chain of triggers,  *)
(* one library per kind of version macro, and a corpus of two libraries.    *)
(***************************************************************************)
EXTENDS VendoredIdentity

zlib == <<"third_party", "zlib">>
bundled == <<"libs", "external", "zlib">>
cjson == <<"third_party", "cjson-prebuilt">>
uthash == <<"third_party", "uthash">>
fixture == <<"tests", "libs", "zlib">>
namespace == <<"third_party", "github.com", "owner">>
sources == Append(zlib, "src")

MCDirs == <<bundled, fixture, cjson, namespace, uthash, zlib, sources>>
MCFolderNames == {<<"cjson-prebuilt", "cjson">>, <<"uthash", "uthash">>}
MCNameOrder == <<"uthash", "zlib">>

File(name, content) ==
    [name |-> name, content |-> content, text |-> <<>>, window |-> 0, license |-> "", readable |-> content # "unreadable"]
Source(content) == File("a.c", content)
Files(contents) == [k \in DOMAIN contents |-> Source(contents[k])]
Header(name, text, window) == [File(name, "own") EXCEPT !.text = text, !.window = window]
Line(macro, form, value) == [macro |-> macro, form |-> form, value |-> value]

zlib_version == Line("ZLIB_VERSION", "quoted", <<"1", "2", "11">>)
uthash_version == Line("UTHASH_VERSION", "bare", <<"2", "4", "0">>)
major == Line("CJSON_VERSION_MAJOR", "bare", <<"1">>)
minor == Line("CJSON_VERSION_MINOR", "bare", <<"7">>)
patch == Line("CJSON_VERSION_PATCH", "bare", <<"15">>)

ZlibHeaders ==
    {Header("zlib.h", <<zlib_version>>, w) : w \in 0 .. 1}
        \cup {Header("zlib.h", <<[zlib_version EXCEPT !.form = "junk"], zlib_version>>, 2),
              Header("zlib.h", <<[zlib_version EXCEPT !.value = <<>>]>>, 1)}
UthashHeaders ==
    {Header("uthash.h", <<uthash_version>>, w) : w \in 0 .. 1}
        \cup {Header("uthash.h", <<[uthash_version EXCEPT !.form = "junk"], uthash_version>>, 2)}
CjsonHeaders ==
    {Header("cJSON.h", <<major, minor, patch>>, w) : w \in {2, 3}}
        \cup {Header("cJSON.h", <<patch, minor, major>>, 3), Header("cJSON.h", <<major, minor>>, 2),
              Header("cJSON.h", <<major, minor, patch, [patch EXCEPT !.value = <<"16">>]>>, 4)}

Tree(b, c, u, z, s) ==
    bundled :> b @@ cjson :> c @@ uthash :> u @@ zlib :> z @@ sources :> s
        @@ fixture :> Files(<<"c1">>) @@ namespace :> Files(<<"c1">>)
HeaderTrees ==
    {Tree(<<b>>, <<u, c>>, <<u, [File("LICENSE", "own") EXCEPT !.license = "MIT"]>>, <<z>>, Files(<<"c1">>)) :
        b \in ZlibHeaders, z \in ZlibHeaders, u \in UthashHeaders, c \in CjsonHeaders}
Copies ==
    SeqOf({"c1", "c2", "c3", "own"}, 3)
        \cup {<<"c1", "c2", "c3", "own">>, <<"own", "c1", "c2", "c3">>, <<"c1", "c2", "c3", "c4">>,
              <<"c1", "c2", "c3", "c4", "c5">>, <<"c2", "c3", "c4">>, <<"tiny", "c1">>, <<"unreadable", "c1", "c2">>,
              <<"collides", "c2">>, <<"c1", "own", "own", "own", "own", "own", "own", "own", "own">>}
SourceTrees ==
    {Tree(Files(b), <<>>, <<>>, Files(z), Files(s)) :
        b \in {<<>>, <<"c1">>, <<"c1", "c2", "c3">>}, z \in Copies, s \in {<<>>, <<"c2">>}}

MCRoots == {bundled, cjson, uthash, zlib}
NoGit == [r \in MCRoots |-> "none"]
Gits == {NoGit, [NoGit EXCEPT ![zlib] = "origin", ![cjson] = "unresolved"], [NoGit EXCEPT ![uthash] = "commit"]}

------------------------------------------------------------------------------
Component(type, name, version, root, scope, detail, confidence) ==
    [purl |-> [type |-> type, name |-> name, version |-> Spelled(version)], version |-> version, root |-> root,
     scope |-> scope, supplier |-> "", license |-> "",
     evidence |-> {[source |-> "Manifest", detail |-> detail, confidence |-> confidence]}]
Others ==
    {<<>>,
     <<Component("github", "owner/repo", HeadCommit, zlib, "Required", <<".gitmodules", zlib>>, "High"),
       Component("npm", "a", <<"1">>, NoRoot, "Excluded", <<"a/package-lock.json", NoRoot>>, "High"),
       Component("npm", "a", <<"1">>, NoRoot, "Required", <<"b/package-lock.json", NoRoot>>, "High")>>,
     <<Component("generic", "zlib", <<>>, zlib, "Required", <<".gitmodules", zlib>>, "Low"),
       Component("npm", "a", <<"1">>, NoRoot, "Required", <<"b/package-lock.json", NoRoot>>, "High")>>,
     <<Component("github", "owner/repo", <<>>, zlib, "Required", <<".gitmodules", zlib>>, "Low"),
       [Component("github", "owner/repo", <<>>, NoRoot, "Required", <<"a.yml", NoRoot>>, "Low") EXCEPT !.version = <<"${{ a }}">>],
       [Component("github", "owner/repo", <<>>, NoRoot, "Required", <<"b.yml", NoRoot>>, "Low") EXCEPT !.version = <<"${{ b }}">>],
       Component("generic", "zlib", <<"1", "2", "11">>, NoRoot, "Required", <<"CMakeLists.txt", NoRoot>>, "Medium"),
       Component("generic", "zlib", <<"1", "2", "11">>, NoRoot, "Required", <<"CMakeLists.txt", NoRoot>>, "High")>>}

Release(library, version, count) == [library |-> library, version |-> version, file_count |-> count]
Entry(digest, releases) == [digest |-> digest, releases |-> releases]
whole ==
    [problem |-> "none", schema_version |-> 1, prefilter |-> {}, libraries |-> <<"uthash", "zlib">>,
     releases |-> <<Release(1, <<"2">>, 1), Release(2, <<"1">>, 3), Release(2, <<"2">>, 3), Release(2, <<"3">>, 5)>>,
     files |-> <<Entry("c1", {1, 2, 4}), Entry("c2", {2, 3, 4}), Entry("c3", {2, 3, 4}),
                 Entry("c4", {3, 4}), Entry("c5", {4})>>]
twins ==
    [whole EXCEPT !.releases = <<Release(1, <<"2">>, 1), Release(2, <<"1">>, 3), Release(2, <<"2">>, 3)>>,
                  !.files = <<Entry("c1", {1, 2, 3}), Entry("c2", {2, 3}), Entry("c3", {2, 3})>>]
Documents ==
    {whole, twins,
     [twins EXCEPT !.releases[3].version = <<"1">>],                       \* a release pinned twice
     [whole EXCEPT !.prefilter = {"c1", "c2", "malformed"}],
     [whole EXCEPT !.prefilter = {"c1", "c2", "c3", "c4", "c5"}],
     [whole EXCEPT !.files[2].digest = ""],
     [whole EXCEPT !.files[3].releases = {2, 5}],
     [whole EXCEPT !.files = Append(@, Entry("c6", {4})), !.releases[4].file_count = 6],   \* a digest too many
     [whole EXCEPT !.libraries[1] = ""],
     [whole EXCEPT !.releases[1].file_count = 0],
     [whole EXCEPT !.schema_version = 2],
     [whole EXCEPT !.problem = "not JSON"],
     [whole EXCEPT !.problem = "not named"]}

MCInputs ==
    [tree : HeaderTrees, git : Gits, others : Others, budget : {20}, document : {whole, [whole EXCEPT !.problem = "not named"]}]
        \cup [tree : SourceTrees, git : Gits, others : Others, budget : {20}, document : {whole, twins}]
        \cup [tree : SourceTrees, git : {NoGit}, others : {<<>>}, budget : {4, 20}, document : Documents]
===============================================================================
