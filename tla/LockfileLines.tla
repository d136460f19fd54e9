---------------------------- MODULE LockfileLines ----------------------------
(***************************************************************************)
(* The line readers among the lockfile parsers (src/src/parsers/lockfiles): *)
(* go.sum, Gemfile.lock, pubspec.lock, pnpm-lock.yaml and yarn.lock in both *)
(* of its formats. Each reads one line at a time into a few locals; a       *)
(* package may be spread over several lines.                               *)
(*                                                                         *)
(* A line is a pair: what kind of line it is at its indentation, and its    *)
(* value. For each format, XStart is the state before the first line,       *)
(* XLine the body of the loop, XEnd what follows the loop. XLocked is the   *)
(* reference: what the lines lock, read as a whole and not line by line.    *)
(***************************************************************************)
EXTENDS Integers, Sequences, FiniteSets, TLC

CONSTANT
    UnreadableKeys   \* whether a YAML key may be outside the reader's subset

\* What every reader's step says: the package it wants to append, if any, whether
\* it asks the budget for it, whether something was counted for a warning, whether
\* it gave up, and whether it is past its last line with packages still to come.
Said == [emit |-> {}, tried |-> FALSE, counted |-> FALSE, stop |-> FALSE, ending |-> FALSE]

\* A reader's locals beside what its step says.
With(locals) == [v \in DOMAIN locals \cup DOMAIN Said |-> IF v \in DOMAIN locals THEN locals[v] ELSE Said[v]]

Silent(s) == [s EXCEPT !.emit = {}, !.tried = FALSE]
Try(s) == [s EXCEPT !.tried = TRUE]
Emit(s, package) == [s EXCEPT !.emit = {package}, !.tried = TRUE]
EmitFree(s, package) == [s EXCEPT !.emit = {package}]
Count(s) == [s EXCEPT !.counted = TRUE]

\* The last line before k of one of these kinds, 0 if there is none.
LastBefore(lines, k, kinds) ==
    LET those == {j \in 1 .. k - 1 : lines[j][1] \in kinds}
    IN IF those = {} THEN 0 ELSE CHOOSE j \in those : \A i \in those : i <= j

\* The lines after k up to the next line of one of these kinds.
BlockOf(lines, k, kinds) ==
    {j \in k + 1 .. Len(lines) : \A i \in k + 1 .. j : lines[i][1] \notin kinds}

\* The value of the first or the last line of a kind within a block, "" if none.
FirstValue(lines, block, kind) ==
    LET those == {j \in block : lines[j][1] = kind}
    IN IF those = {} THEN "" ELSE lines[CHOOSE j \in those : \A i \in those : j <= i][2]
LastValue(lines, block, kind) ==
    LET those == {j \in block : lines[j][1] = kind}
    IN IF those = {} THEN "" ELSE lines[CHOOSE j \in those : \A i \in those : i <= j][2]

------------------------------------------------------------------------------
\* go.sum: every line stands for itself. A `/go.mod` line is metadata.
GoStart == Said
GoLine(s, line) ==
    CASE line[1] = "zip" -> Emit(s, [name |-> line[2]])
      [] line[1] = "gomod" -> s
      [] OTHER -> Count(s)
GoEnd(s) == s
GoLines == {<<"zip", "a">>, <<"zip", "b">>, <<"gomod", "a">>, <<"garbled", "">>}
GoLocked(lines) == {[name |-> lines[k][2]] : k \in {j \in 1 .. Len(lines) : lines[j][1] = "zip"}}

------------------------------------------------------------------------------
\* Gemfile.lock: a header opens a section, `specs:` its gems, `remote:` says
\* where they come from (`revision:` is kept and cleared in the same places).
GemStart == With([section |-> "Untracked", inside_specs |-> FALSE, current_remote |-> ""])

\* Variant for mutation: a header keeps the remote of the section before it.
GemLineKeepsRemote(s, line) ==
    IF line[1] = "header"
    THEN [s EXCEPT !.section = IF line[2] \in {"GEM", "GIT", "PATH"} THEN line[2] ELSE "Untracked",
                   !.inside_specs = FALSE]
    ELSE IF s.section = "Untracked" THEN s
    ELSE CASE line[1] = "specs" -> [s EXCEPT !.inside_specs = TRUE]
           [] line[1] = "remote" -> [s EXCEPT !.current_remote = line[2]]
           [] line[1] = "gem" /\ s.inside_specs /\ s.section # "PATH" ->
                 Emit(s, [name |-> line[2], remote |-> s.current_remote])
           [] line[1] = "garbled" /\ s.inside_specs /\ s.section # "PATH" -> Count(s)
           [] OTHER -> s

GemLine(s, line) ==
    IF line[1] = "header"
    THEN [s EXCEPT !.section = IF line[2] \in {"GEM", "GIT", "PATH"} THEN line[2] ELSE "Untracked",
                   !.inside_specs = FALSE, !.current_remote = ""]
    ELSE IF s.section = "Untracked" THEN s
    ELSE CASE line[1] = "specs" -> [s EXCEPT !.inside_specs = TRUE]
           [] line[1] = "remote" -> [s EXCEPT !.current_remote = line[2]]
           [] line[1] = "gem" /\ s.inside_specs /\ s.section # "PATH" ->
                 Emit(s, [name |-> line[2], remote |-> s.current_remote])
           [] line[1] = "garbled" /\ s.inside_specs /\ s.section # "PATH" -> Count(s)
           [] OTHER -> s
GemEnd(s) == s
GemLines == {<<"header", "GEM">>, <<"header", "PATH">>, <<"header", "PLATFORMS">>,
             <<"remote", "r">>, <<"specs", "">>, <<"gem", "a">>, <<"garbled", "">>}
GemLocked(lines) ==
    {[name |-> lines[k][2],
      remote |-> LastValue(lines, LastBefore(lines, k, {"header"}) + 1 .. k - 1, "remote")] :
        k \in {j \in 1 .. Len(lines) :
                 LET h == LastBefore(lines, j, {"header"})
                 IN /\ lines[j][1] = "gem" /\ h # 0 /\ lines[h][2] \in {"GEM", "GIT"}
                    /\ \E i \in h + 1 .. j - 1 : lines[i][1] = "specs"}}

------------------------------------------------------------------------------
\* A key with an anchor, say, is skipped by the YAML reader, which counts it.
UnreadableKey == IF UnreadableKeys THEN {<<"unreadable key", "">>} ELSE {}

\* pubspec.lock: an entry is closed by the next key, the next section or the end.
NoEntry == [name |-> "", version |-> "", source |-> "", active |-> FALSE]
PubStart == With([pending |-> NoEntry, inside_packages |-> FALSE])

\* An entry with a path is first-party, one of an unknown source or without a
\* version is counted.
PubClose(s) ==
    LET entry == s.pending
        closed == [s EXCEPT !.pending = NoEntry]
    IN IF ~entry.active \/ entry.source = "path" THEN closed
       ELSE IF entry.source = "" \/ entry.version = "" THEN Count(closed)
       ELSE Emit(closed, [name |-> entry.name, version |-> entry.version])

PubLine(s, line) ==
    LET now == IF line[1] \in {"section", "key"} THEN PubClose(s) ELSE s
    IN CASE line[1] = "section" -> [now EXCEPT !.inside_packages = line[2] = "packages"]
         [] line[1] = "key" /\ now.inside_packages ->
               [now EXCEPT !.pending = [NoEntry EXCEPT !.name = line[2], !.active = TRUE]]
         [] line[1] \in {"source", "version"} /\ now.inside_packages /\ now.pending.active ->
               [now EXCEPT !.pending[line[1]] = line[2]]
         [] line[1] = "unreadable key" -> Count(now)
         [] OTHER -> now
PubEnd(s) == PubClose(s)
PubLines == {<<"section", "packages">>, <<"section", "sdks">>, <<"key", "a">>, <<"key", "b">>,
             <<"source", "hosted">>, <<"source", "path">>, <<"version", "1">>}
            \cup UnreadableKey
PubLocked(lines) ==
    LET keys == {k \in 1 .. Len(lines) :
                   LET top == LastBefore(lines, k, {"section"})
                   IN lines[k][1] = "key" /\ top # 0 /\ lines[top][2] = "packages"}
        Entry(k) == BlockOf(lines, k, {"section", "key", "unreadable key"})
    IN {[name |-> lines[k][2], version |-> LastValue(lines, Entry(k), "version")] :
           k \in {j \in keys : LastValue(lines, Entry(j), "source") # "path"}}

------------------------------------------------------------------------------
\* pnpm-lock.yaml: identity is in the key, the registry's proof in a later line. No
\* line is read as a package before the version was.
PnpmStart == With([pending |-> "", inside_packages |-> FALSE,
              version_seen |-> FALSE, version_supported |-> FALSE])

\* Called at every new entry key, at section end and at end of input.
PnpmClose(s) ==
    IF s.pending # "" THEN Count([s EXCEPT !.pending = ""]) ELSE s

\* A line of the packages section: a key, or the resolution of the pending one.
PnpmField(s, line) ==
    CASE line[1] = "key" -> [s EXCEPT !.pending = line[2]]
      [] line[1] = "garbled" -> Count(s)
      [] line[1] = "resolution" /\ s.pending # "" ->
            IF line[2] = "git" THEN Count([s EXCEPT !.pending = ""])
            ELSE Emit([s EXCEPT !.pending = ""], [name |-> s.pending, integrity |-> line[2]])
      [] OTHER -> s

PnpmLine(s, line) ==
    LET now == IF line[1] \in {"version", "section", "key", "garbled"} THEN PnpmClose(s) ELSE s
    IN CASE line[1] = "version" ->
               [now EXCEPT !.version_seen = TRUE, !.version_supported = line[2] \in {"6", "9"},
                           !.stop = line[2] \notin {"6", "9"}, !.inside_packages = FALSE,
                           !.counted = @ \/ line[2] \notin {"6", "9"}]
         [] line[1] = "section" -> [now EXCEPT !.inside_packages = line[2] = "packages"]
         [] OTHER ->
               IF line[1] = "unreadable key" THEN Count(now)
               ELSE IF ~now.inside_packages \/ ~now.version_supported THEN now
               ELSE PnpmField(now, line)
PnpmEnd(s) ==
    LET closed == PnpmClose(s)
    IN IF closed.version_seen THEN closed ELSE Count(closed)
PnpmLines == {<<"version", "5">>, <<"version", "9">>,
              <<"section", "packages">>, <<"section", "snapshots">>, <<"key", "a">>, <<"key", "b">>,
              <<"garbled", "">>, <<"resolution", "sha">>, <<"resolution", "git">>}
             \cup UnreadableKey
PnpmKeys(lines) ==
    {j \in 1 .. Len(lines) :
        LET top == LastBefore(lines, j, {"section", "version"})
        IN lines[j][1] = "key" /\ top # 0 /\ lines[top] = <<"section", "packages">>}
PnpmPackages(lines, keys) ==
    {[name |-> lines[k][2],
      integrity |-> FirstValue(lines, BlockOf(lines, k, {"version", "section", "key", "garbled",
                                                  "unreadable key"}), "resolution")] : k \in keys}
PnpmLocked(lines) == PnpmPackages(lines, PnpmKeys(lines))
\* What stands before the version is passed over, and not counted.
PnpmSought(lines) ==
    PnpmPackages(lines, {k \in PnpmKeys(lines) : LastBefore(lines, k, {"version"}) # 0})

------------------------------------------------------------------------------
\* yarn.lock, Classic: a key names the package, `version` follows in its block.
ClassicStart == With([pending_name |-> ""])
ClassicLine(s, line) ==
    LET left == IF s.pending_name # "" THEN Count(s) ELSE s
    IN CASE line[1] = "key" -> [left EXCEPT !.pending_name = line[2]]
         [] line[1] = "garbled" -> Count([left EXCEPT !.pending_name = ""])
         [] line[1] = "version" /\ s.pending_name # "" ->
               IF line[2] = "" THEN Count([s EXCEPT !.pending_name = ""])
               ELSE Emit([s EXCEPT !.pending_name = ""],
                         [name |-> s.pending_name, version |-> line[2]])
         [] OTHER -> s
ClassicEnd(s) == IF s.pending_name # "" THEN Count(s) ELSE s
ClassicLines == {<<"key", "a">>, <<"key", "b">>, <<"garbled", "">>, <<"version", "1">>,
                 <<"version", "">>, <<"edge", "2">>}
ClassicLocked(lines) ==
    {[name |-> lines[k][2],
      version |-> FirstValue(lines, BlockOf(lines, k, {"key", "garbled"}), "version")] :
        k \in {j \in 1 .. Len(lines) : lines[j][1] = "key"}}

------------------------------------------------------------------------------
\* yarn.lock, Berry: `resolution` holds a whole locator. `patch:npm` is a patch
\* locator around an npm one, which is recovered.
BerryStart == With([inside_metadata |-> FALSE, recognized_berry |-> FALSE])
BerryLine(s, line) ==
    LET known == [s EXCEPT !.recognized_berry = TRUE]
    IN CASE line[1] = "key" ->
               [s EXCEPT !.inside_metadata = line[2] = "__metadata",
                         !.recognized_berry = @ \/ line[2] = "__metadata"]
         [] line[1] = "resolution" /\ ~s.inside_metadata ->
               CASE line[2] = "workspace" -> known
                 [] line[2] \in {"npm", "patch:npm"} -> Emit(known, [locator |-> line[2]])
                 [] OTHER -> Count(known)
         [] OTHER -> s
\* A file without one Berry entry is reported as an unrecognized format.
BerryEnd(s) == IF s.recognized_berry THEN s ELSE Count(s)
BerryLines == {<<"key", "__metadata">>, <<"key", "a">>, <<"edge", "b">>} \cup
    {<<"resolution", l>> : l \in {"npm", "patch:npm", "workspace", "other"}}
BerryLocked(lines) ==
    {[locator |-> lines[k][2]] :
        k \in {j \in 1 .. Len(lines) :
                 LET top == LastBefore(lines, j, {"key"})
                 IN /\ lines[j][1] = "resolution" /\ lines[j][2] # "workspace"
                    /\ top = 0 \/ lines[top][2] # "__metadata"}}
==============================================================================
