---------------------------- MODULE MCBuildEvidence ----------------------------
(***************************************************************************)
(* A small build for TLC: zlib with a nested component, a link to it, and     *)
(* the outputs a linker or archiver writes, whole, patched or cut.           *)
(***************************************************************************)
EXTENDS BuildEvidence

zlib == <<"zlib">>
nested == <<"zlib", "sub">>
MCRoots == {zlib, nested}
MCLinks == <<"link">> :> zlib
MCDisk == {<<"zlib", "libz.so">>, <<"zlib", "sub", "libz.a">>}
MCBaseName == "libz.so.1" :> "libz.so"

operand(path) == <<"operand", path>>
sources == {operand(Append(d, "a.c")) : d \in {zlib, <<"link">>, <<"..">>}}
inputs == {operand(<<"zlib", "sub", "a.o">>), operand(<<"zlib", "libz.so">>)}
sonames == {operand(<<"zlib", "libz.so.1">>)}
outputs == {operand(<<"out", "libz.a">>)}
directories == {operand(zlib), operand(nested)}
z == <<"-l", [shared |-> "libz.so", archive |-> "libz.a"]>>

MCAccepts ==
    "-o" :> outputs @@ "-include" :> sources @@ "-soname" :> sonames @@ "-L" :> directories @@ "-Xlinker" :> sonames \cup {Option("-soname")}

outside_sources == {operand(<<"..", "a.c">>)}   \* reached as the value of an option
Shared == {Option("-o"), <<"response">>, operand(<<"zlib", "sub", "a.o">>)}
MCWords ==
    "cc" :> Shared \cup (sources \ outside_sources) \cup {<<"-I", zlib>>, Option("-c"), Option("-include"),
                Option("-Xlinker"), <<"-Wl", <<Option("-soname"), operand(<<"zlib", "libz.so.1">>)>>>>}
        @@ "ld" :> Shared \cup inputs \cup {z, <<"-L", nested>>, <<"-L", zlib>>, Option("-L"), Option("-soname")}
        @@ "ar" :> {<<"keys", 0>>, <<"keys", 1>>, Option("--plugin")} \cup outputs \cup inputs

------------------------------------------------------------------------------
Section(type, inside, link, holds) == [type |-> type, inside |-> inside, link |-> link, holds |-> holds]
Segment(type, inside) == [type |-> type, inside |-> inside]
names == <<"libz.so.1", "libc.so.6", "", "libapp.so", "deflate", "malloc">>
garbage == [k \in 1 .. 6 |-> Garbage]
exported == <<[name |-> 5, exported |-> TRUE], [name |-> 6, exported |-> FALSE]>>

\* Code, the dynamic array, its names, the symbols, and the names of the sections.
Sections(link) ==
    <<Section("text", TRUE, 0, garbage), Section("dynamic", TRUE, link, <<>>), Section("strings", TRUE, 0, names),
      Section("symbols", TRUE, 3, exported), Section("strings", TRUE, 0, <<".text", ".dynamic", ".dynstr">>)>>
outside == <<Section("outside", FALSE, 0, <<>>)>>
late == [k \in 1 .. 5 |-> Section("text", TRUE, 0, garbage)] \o <<Section("dynamic", TRUE, 3, <<>>)>>
nameless == [Sections(3) EXCEPT ![4].link = 9]   \* the table of the symbols' names is not there
Loaded == <<Segment("load", TRUE), Segment("dynamic", TRUE)>>

Arrays == {<< <<"needed", 1>>, <<"needed", 2>>, <<"soname", 4>>, <<"strtab">>, <<"null">> >>,
           << <<"needed", 1>>, <<"needed", 3>>, <<"null">>, <<"needed", 2>> >>,
           << <<"needed", 2>>, <<"needed", 9>>, <<"strtab">>, <<"soname", 4>>, <<"null">> >>}

\* More entries and more names than are read.
long == << <<"needed", 1>>, <<"needed", 2>>, <<"needed", 4>>, <<"soname", 4>>, <<"strtab">>, <<"needed", 5>>, <<"null">> >>

Whole == [file : {"whole"}, relocatable : {FALSE}, dynamic : Arrays, names : {names}, mapped : {names, garbage},
          sections : {<<>>, Sections(3), Sections(1), Sections(5), Sections(9), outside, late, nameless,
                      <<Section("dynamic", FALSE, 0, <<>>)>>},
          segments : {<<>>, Loaded}]

\* One after the other: what each way that a table can be missing does to an image.
MCImages ==
    Whole
    \cup [file : {"whole"}, relocatable : {FALSE}, dynamic : Arrays, names : {names}, mapped : {garbage},
          sections : {<<>>, Sections(3), Sections(1)},
          segments : {<<Segment("load", FALSE), Segment("dynamic", TRUE)>>, <<Segment("dynamic", FALSE)>>,
                      <<Segment("outside", FALSE)>>}]
    \cup [file : {"unreadable", "too_large", "bad_class", "cut_header"}, relocatable : {FALSE},
          dynamic : {<<>>}, names : {names}, mapped : {names}, sections : {Sections(3)}, segments : {Loaded}]
    \cup [file : {"whole"}, relocatable : {FALSE}, dynamic : {long}, names : {names}, mapped : {names},
          sections : {Sections(3)}, segments : {Loaded, Loaded \o <<Segment("load", TRUE)>>}]
    \cup [file : {"whole"}, relocatable : {TRUE}, dynamic : {<<>>}, names : {names}, mapped : {names},
          sections : {outside, <<Section("text", TRUE, 0, garbage)>>}, segments : {<<>>}]

------------------------------------------------------------------------------
\* A member as it lies in the file, and the object it is: "" if it is none, or one whose
\* name cannot be read.
Data(name, data, object) ==
    [object |-> object,
     cells |-> << <<"header", name, Len(data)>>, <<"trailer">> >> \o data
                  \o IF Len(data) % 2 = 1 THEN << <<"byte">> >> ELSE <<>>]
bytes(n) == [k \in 1 .. n |-> <<"byte">>]
SortedIndex == "__.SYMDEF SORTED"
symbol_index ==
    Data(<<"index">>, << <<"count", 2>>, <<"offset">>, <<"offset">>, <<"name", "deflate">>, <<"name", "inflate">> >>, "")
Contents ==
    {<<symbol_index, Data(<<"short", "a.o">>, bytes(1), "a.o"), Data(<<"short", "b.o">>, bytes(2), "b.o")>>,
     <<Data(<<"long_names">>, << <<"name", "a.o">>, <<"name", "b.o">> >>, ""),
       Data(<<"long", 2>>, bytes(1), "b.o"), Data(<<"long", 1>>, bytes(1), "a.o")>>,
     <<Data(<<"bsd_index">>, bytes(1), ""), Data(<<"bsd", 1>>, << <<"name", "a.o">>, <<"byte">>, <<"byte">> >>, "a.o"),
       Data(<<"bsd", 1>>, << <<"name", "b.o">> >>, "b.o"), Data(<<"short", "c.o">>, bytes(1), "c.o")>>,
     <<Data(<<"bsd", 2>>, << <<"name", SortedIndex>>, <<"byte">>, <<"byte">> >>, SortedIndex),
       Data(<<"bsd", 2>>, << <<"name", "a.o">>, <<"byte">> >>, "a.o")>>,
     <<Data(<<"long", 1>>, bytes(1), ""), Data(<<"long_names">>, << <<"name", "a.o">> >>, ""),
       Data(<<"long", 9>>, bytes(1), ""), Data(<<"long", 1>>, bytes(2), "a.o")>>,
     <<Data(<<"bsd", 3>>, << <<"name", "a.o">>, <<"byte">>, <<"byte">> >>, ""),
       Data(<<"bsd", 2>>, << <<"name", "b.o">> >>, ""), Data(<<"short", "c.o">>, bytes(1), "c.o")>>}

Archive(file, cells, held, intact) ==
    LET listed == {m.object : m \in held} \ {""}
    IN [file |-> file, cells |-> cells, members |-> listed \ {SortedIndex}, named_index |-> listed \cap {SortedIndex},
        symbols |-> {"deflate", "inflate"}, intact |-> intact /\ Cardinality(listed) <= MaxArchiveMembers]
Cells(members) == FlattenSeq([k \in DOMAIN members |-> members[k].cells])

\* Whole or with some of the members, cut in the next one, or with a size spoilt.
MCArchives ==
    UNION {LET held == SubSeq(c, 1, n)
               next == IF n = Len(c) THEN <<>> ELSE c[n + 1].cells
           IN {Archive("whole", Cells(held) \o SubSeq(next, 1, cut), ToSet(held), cut = 0)
                  : cut \in {0, 1, 2} \cap 0 .. Len(next)}
              \cup {Archive("whole", [Cells(held) EXCEPT ![1][3] = size], ToSet(held), FALSE) :
                      size \in IF n = 0 THEN {} ELSE {Unreadable, 99}}
           : <<c, n>> \in {p \in Contents \X (0 .. 4) : p[2] <= Len(p[1])}}
    \cup {Archive("too_large", <<>>, {symbol_index}, FALSE)}
==============================================================================
