------------------------------ MODULE GitSources ------------------------------
(***************************************************************************)
(* The submodules of the scanned tree (src/src/parsers/cpp/submodules.cpp): *)
(* .gitmodules is read by core/git_config.cpp, the checked-out commit of    *)
(* each by core/git_dir.cpp, from files alone, and its identity comes from  *)
(* a url that may be relative to the superproject's (core/git_url.cpp).     *)
(***************************************************************************)
EXTENDS ManifestReaders, SequencesExt

\* Bound: what can stand under a declared path. Each checkout is the .git entry of the
\* directory, what HEAD says, and what the loose and the packed ref say.
Checkout(entry, head, loose, packed) == [entry |-> entry, head |-> head, loose |-> loose, packed |-> packed]
Checkouts ==
    "detached" :> Checkout("directory", "c1", "", "")
    @@ "moved on" :> Checkout("file", "ref", "c1", "c0")
    @@ "packed" :> Checkout("file", "ref", "", "c1")
    @@ "unborn" :> Checkout("directory", "ref", "", "")
    @@ "elsewhere" :> Checkout("file outside", "c9", "", "")
    @@ "linked" :> Checkout("symlink", "c9", "", "")
    @@ "empty" :> Checkout("none", "", "", "")

\* A text is quoted by its spelling: a url is <<"absolute", host>> or <<"relative", ups>>.
Origin == <<"https:", "", "host", "owner", "repo">>

\* A .git that is a link, or names a directory outside the scanned tree, is not followed.
resolve_git_dir(path) == Checkouts[path].entry \in {"directory", "file"}

\* A commit in HEAD itself; else the loose ref, which is newer than the packed one.
read_head_commit(path) ==
    LET c == Checkouts[path]
    IN CASE c.head # "ref" -> c.head
         [] c.head = "ref" /\ c.loose # "" -> c.loose
         [] OTHER -> c.packed

is_contained_relative_path(path) == path \in DOMAIN Checkouts

\* Every leading `../` drops a segment of the base, until one without a slash is left.
resolve_relative_url(base, url) ==
    IF url[1] # "relative" \/ base = <<>> THEN url
    ELSE LET dropped == IF url[2] < Len(base) THEN url[2] ELSE Len(base) - 1
         IN <<"absolute", SubSeq(base, 1, Len(base) - dropped) \o <<"lib">> >>

\* The config's lines: an entry belongs to the section before it, unless that header
\* was one git would not accept.
NoSection == 0
GitStart == [sections |-> <<>>, current_section |-> NoSection] @@ Said
GitLine(s, line) ==
    CASE line[1] = "section" ->
            [s EXCEPT !.sections = Append(@, [name |-> line[2], path |-> <<>>, url |-> <<>>]),
                      !.current_section = Len(s.sections) + 1]
      [] line[1] = "garbled header" -> Count([s EXCEPT !.current_section = NoSection])
      [] line[1] \in {"path", "url"} /\ s.current_section = NoSection -> Count(s)
      [] line[1] \in {"path", "url"} /\ s.current_section # NoSection ->
            [s EXCEPT !.sections[s.current_section][line[1]] = Append(@, line[2])]

\* The first value of a key is the one found. One submodule after the other is made
\* a component: without its path it is skipped, without a commit it is kept, as Low.
GitSubmodule(s, section) ==
    IF section.path = <<>> THEN Count(s)
    ELSE IF ~is_contained_relative_path(section.path[1]) THEN Count(s)
    ELSE LET path == section.path[1]
             commit == IF resolve_git_dir(path) THEN read_head_commit(path) ELSE ""
             url == IF section.url = <<>> THEN <<>> ELSE resolve_relative_url(Origin, section.url[1])
             component == [root |-> path, version |-> commit, url |-> url,
                           confidence |-> IF commit = "" THEN "Low" ELSE "High"]
         IN EmitFree(IF commit = "" \/ url = <<>> THEN Count(s) ELSE s, component)

GitEnd(s) ==
    IF s.sections = <<>> THEN [s EXCEPT !.ending = FALSE]
    ELSE LET rest == [s EXCEPT !.sections = Tail(@), !.ending = Len(s.sections) > 1]
         IN IF Head(s.sections).name = "submodule" THEN GitSubmodule(rest, Head(s.sections)) ELSE rest

GitLines == {<<"section", "submodule">>, <<"section", "other">>, <<"garbled header", "">>,
             <<"url", <<"absolute", "u">>>>, <<"url", <<"relative", 1>>>>}
            \cup {<<"path", p>> : p \in DOMAIN Checkouts \cup {"../up"}}

\* What git itself has checked out of each declared submodule within the tree.
GitLocked(lines) ==
    LET Declared == {k \in 1 .. Len(lines) : lines[k] = <<"section", "submodule">>}
        Values(k, key) == SelectSeq([j \in 1 .. Len(lines) |->
            IF j \in BlockOf(lines, k, {"section", "garbled header"}) THEN lines[j] ELSE <<"", "">>],
            LAMBDA l : l[1] = key)
        Commit(p) == IF p \in {"detached", "moved on", "packed"} THEN "c1" ELSE ""
        Url(u) == IF u = <<"relative", 1>> THEN <<"absolute", <<"https:", "", "host", "owner", "lib">>>> ELSE u
        Paths == {k \in Declared : Values(k, "path") # <<>> /\ Values(k, "path")[1][2] # "../up"}
    IN {LET path == Values(k, "path")[1][2] IN
        [root |-> path, version |-> Commit(path),
         url |-> IF Values(k, "url") = <<>> THEN <<>> ELSE Url(Values(k, "url")[1][2]),
         confidence |-> IF Commit(path) = "" THEN "Low" ELSE "High"] : k \in Paths}
==============================================================================
