----------------------------- MODULE BinaryFormats -----------------------------
(***************************************************************************)
(* What the binary scan reads out of one build output: an ELF image          *)
(* (src/src/binscan/elf_read.cpp) or an ar archive (archive_read.cpp). Both  *)
(* readers meet files that were cut, patched or never finished.              *)
(*                                                                         *)
(* An image is a record: its identification, how much of the file is there,  *)
(* the sections and segments its header declares, and the dynamic array,     *)
(* whose entries give a name as a position in a table of names. A header that *)
(* lies outside the file has the type "outside". An archive is the sequence  *)
(* of its bytes, with a member header drawn as two cells.                    *)
(***************************************************************************)
EXTENDS Integers, Sequences, FiniteSets, TLC, SequencesExt

CONSTANTS
    MaxSectionHeaders,         \* kMaxSectionHeaders
    MaxProgramHeaders,         \* kMaxProgramHeaders
    MaxStringLength,           \* kMaxStringLength, of a name in the data of a member
    MaxDynamicEntries,         \* kMaxDynamicEntries
    MaxNeededEntries,          \* kMaxNeededEntries
    MaxSymbolTableEntries,     \* kMaxSymbolTableEntries
    MaxSymbolSample,           \* kMaxSymbolSample
    MaxArchiveMembers          \* kMaxArchiveMembers

\* Bytes that were never a name, read as one.
Garbage == "garbage"

\* A sample keeps the names that sort first; here all of them, and whether it is cut.
normalize_and_cap(names, cap) == Cardinality(names) > cap

\* What there is of a sequence from one place to another.
Between(s, from, to) == SubSeq(s, from, IF to < Len(s) THEN to ELSE Len(s))

------------------------------------------------------------------------------
(* ELF. A section or segment is [type, inside, link, holds]. What bytes hold when     *)
(* they are read as names is a sequence: the name that begins at each position, "" if *)
(* none ends there; of bytes that are no table of names, Garbage.                     *)

\* Only the first header of a type is asked.
First(table, type) ==
    LET found == {k \in DOMAIN table : table[k].type = type}
    IN {k \in found : \A j \in found : k <= j}

section_contents(section) == section.inside

\* Both ways give the same bytes: the dynamic array of the image.
locate_dynamic_via_sections(image) ==
    {k \in First(image.sections, "dynamic") : section_contents(image.sections[k])}
locate_dynamic_via_segments(image) ==
    {k \in First(image.segments, "dynamic") : image.segments[k].inside}

file_offset_of_address(image) ==
    \E k \in DOMAIN image.segments : image.segments[k].type = "load" /\ image.segments[k].inside

\* Up to the terminator, or to the cap, past which nothing is looked at.
walk_dynamic_array(image) ==
    LET null == {k \in DOMAIN image.dynamic : image.dynamic[k][1] = "null"}
        last == IF null = {} THEN Len(image.dynamic) ELSE (CHOOSE k \in null : \A j \in null : k <= j) - 1
        walked == 1 .. IF last > MaxDynamicEntries THEN MaxDynamicEntries ELSE last
        Tagged(tag) == {k \in walked : image.dynamic[k][1] = tag}
        kept == {k \in Tagged("needed") : Cardinality({j \in Tagged("needed") : j < k}) < MaxNeededEntries}
    IN [needed |-> {image.dynamic[k][2] : k \in kept},
        soname |-> {image.dynamic[k][2] : k \in {i \in Tagged("soname") : \A j \in Tagged("soname") : j <= i}},
        table |-> Tagged("strtab") # {},
        truncated |-> last >= MaxDynamicEntries \/ Cardinality(Tagged("needed")) > MaxNeededEntries]

\* What the section holds that each of these links to.
LinkedFrom(image, sections) ==
    {image.sections[link].holds :
        link \in {l \in {image.sections[k].link : k \in sections} \cap DOMAIN image.sections :
                     section_contents(image.sections[l])}}

\* What lies where DT_STRTAB is mapped, whatever that is.
MappedAt(image, array) == IF array.table /\ file_offset_of_address(image) THEN {image.mapped} ELSE {}

\* Variant for mutation: whatever sh_link names is taken for the string table.
ResolveFollowsAnyLink(image, sections, array) ==
    IF LinkedFrom(image, sections) # {} THEN LinkedFrom(image, sections) ELSE MappedAt(image, array)

\* The section sh_link names, if it is a string table, and be it another one than the
\* linker's; else where DT_STRTAB is mapped.
resolve_string_table(image, sections, array) ==
    LET Named == {k \in sections : /\ image.sections[k].link \in DOMAIN image.sections
                                  /\ image.sections[image.sections[k].link].type = "strings"}
    IN IF LinkedFrom(image, Named) # {} THEN LinkedFrom(image, Named) ELSE MappedAt(image, array)

\* A position with no readable name, past the table too, is passed over.
string_at(table, positions) == {table[p] : p \in positions \cap DOMAIN table} \ {""}

\* Defined symbols that others may use; an import or a local one is none. The
\* table that names them is not asked its type.
collect_exported_symbols(image) ==
    LET tables == First(image.sections, "symbols") IN
    IF \E k \in tables : /\ section_contents(image.sections[k])
                         /\ image.sections[k].link \in DOMAIN image.sections
                         /\ section_contents(image.sections[image.sections[k].link])
    THEN LET section == image.sections[CHOOSE k \in tables : TRUE]
             walked == Between(section.holds, 1, MaxSymbolTableEntries)
             names == string_at(image.sections[section.link].holds,
                                {walked[k].name : k \in {j \in DOMAIN walked : walked[j].exported}})
         IN [available |-> TRUE, names |-> names, warned |-> FALSE,
             truncated |-> walked # section.holds \/ normalize_and_cap(names, MaxSymbolSample)]
    ELSE [available |-> FALSE, names |-> {}, warned |-> tables # {}, truncated |-> FALSE]

Shaped(shape, warned) ==
    [shape |-> shape, soname |-> {}, needed |-> {}, names_unavailable |-> FALSE, needed_truncated |-> FALSE,
     symbols |-> {}, symbols_truncated |-> FALSE, symbols_unavailable |-> FALSE, warned |-> warned]

\* Headers past the limits are not there for the reader; the image is then told of.
Followed(image) ==
    [image EXCEPT !.sections = Between(@, 1, MaxSectionHeaders), !.segments = Between(@, 1, MaxProgramHeaders)]

\* A table that is declared and not there is a contradiction, never an absence; one
\* whose dynamic part alone is not there ends up as no dynamic part at all.
read_tables(image, capped) ==
    LET unreachable(table) == table # <<>> /\ table[1].type = "outside"
        contradicts == unreachable(image.sections) \/ unreachable(image.segments)
        sections == locate_dynamic_via_sections(image)
        array == walk_dynamic_array(image)
        table == resolve_string_table(image, sections, array)
        Named(positions) == UNION {string_at(names, positions) : names \in table}
        exports == collect_exported_symbols(image)
    IN CASE contradicts -> Shaped("Malformed", TRUE)
         [] image.relocatable /\ ~contradicts -> Shaped("Relocatable", capped)
         [] OTHER ->
               IF sections = {} /\ locate_dynamic_via_segments(image) = {}
               THEN Shaped("StaticExecutable",
                           capped \/ First(image.sections, "dynamic") # {} \/ First(image.segments, "dynamic") # {})
               ELSE [Shaped("Dynamic", capped \/ array.truncated \/ table = {} \/ sections = {} \/ exports.warned) EXCEPT
                        !.needed = Named(array.needed),
                        !.soname = Named(array.soname),
                        !.names_unavailable = table = {},
                        !.needed_truncated = array.truncated,
                        !.symbols = IF sections = {} THEN {} ELSE exports.names,
                        !.symbols_truncated = sections # {} /\ exports.truncated,
                        !.symbols_unavailable = sections = {} \/ ~exports.available]

\* A file over the size limit, or cut inside its header, is refused.
read_elf(image) ==
    CASE image.file \in {"unreadable", "too_large"} -> Shaped("NotElf", TRUE)
      [] image.file \in {"bad_class", "bad_encoding", "cut_header"} -> Shaped("Malformed", TRUE)
      [] OTHER -> read_tables(Followed(image), Followed(image) # image)

------------------------------------------------------------------------------
(* ar. Cells: <<"header", name, size>>, <<"trailer">>, <<"byte">>, and those that   *)
(* hold a name: <<"name", n>> in a table of long names or in a symbol index, whose   *)
(* count is <<"count", n>> and whose member offsets are <<"offset">>.                *)
Unreadable == -1
HeaderCells == 2

\* A name is <<"short", n>>, <<"long", position>> in the table before it, <<"bsd", length>>
\* in its own data, or that of the archive's own book-keeping. One that is past its table
\* or its data, or too long, is no name, and the member then none that is listed.
resolve_member_name(raw_name, long_names, data) ==
    CASE raw_name[1] = "short" -> {raw_name[2]}
      [] raw_name[1] = "long" -> {long_names[k][2] : k \in {raw_name[2]} \cap DOMAIN long_names}
      [] raw_name[1] = "bsd" ->
            {data[k][2] : k \in IF raw_name[2] \in 1 .. Len(data) /\ raw_name[2] <= MaxStringLength THEN {1} ELSE {}}
      [] OTHER -> {}

\* The names begin where the offsets end. The offsets are as many as the count says;
\* the code passes over as many as it reads.
read_gnu_symbol_index(data) ==
    IF data = <<>> THEN [available |-> FALSE, names |-> {}, truncated |-> FALSE]
    ELSE LET capped == IF data[1][2] > MaxSymbolTableEntries THEN MaxSymbolTableEntries ELSE data[1][2]
             cells == Between(data, 2 + capped, 1 + 2 * capped)
             names == {IF cells[k][1] = "name" THEN cells[k][2] ELSE Garbage : k \in DOMAIN cells}
         IN [available |-> TRUE, names |-> names,
             truncated |-> data[1][2] > capped \/ normalize_and_cap(names, MaxSymbolSample)]

NoContents == [members |-> {}, count |-> 0, long_names |-> <<>>, symbols |-> {}, symbols_truncated |-> FALSE,
               index |-> "none", members_truncated |-> FALSE, warned |-> FALSE]
Stopped(contents) == [contents EXCEPT !.members_truncated = TRUE, !.warned = TRUE]

\* As the header spells it: an index whose name is in its data is taken for an object.
is_bookkeeping_member(name) == name[1] \in {"long_names", "index", "bsd_index"}

Member(contents, name, data) ==
    LET index == read_gnu_symbol_index(data)
        resolved == resolve_member_name(name, contents.long_names, data)
    IN CASE name[1] = "long_names" -> [contents EXCEPT !.long_names = data]
         [] name[1] = "index" ->
               [contents EXCEPT !.index = IF index.available /\ @ # "unavailable" THEN "read" ELSE "unavailable",
                                !.symbols = @ \cup index.names,
                                !.symbols_truncated = @ \/ index.truncated]
         [] name[1] = "bsd_index" -> [contents EXCEPT !.index = "unavailable"]
         [] OTHER -> [contents EXCEPT !.members = @ \cup resolved, !.count = @ + Cardinality(resolved)]

\* Variant for mutation: the byte after a member of odd size is forgotten.
PaddedNot(size) == size

\* The data of a member begin at an even offset.
padded_size(size) == size + (size % 2)

\* Member after member, until one cannot be. A step moves by a header at least, so that
\* there are fewer steps than cells.
ReadMember(cells, at) ==
    LET left == Len(cells) - at.offset + 1
        header == cells[at.offset]
        data == SubSeq(cells, at.offset + HeaderCells, at.offset + HeaderCells + header[3] - 1)
    IN CASE at.over \/ left <= 0 -> at
         [] ~at.over /\ left > 0
            /\ \/ left < HeaderCells
               \/ header[1] # "header" \/ cells[at.offset + 1] # <<"trailer">>
               \/ header[3] = Unreadable \/ header[3] > left - HeaderCells
               \/ ~is_bookkeeping_member(header[2]) /\ at.contents.count >= MaxArchiveMembers ->
               [at EXCEPT !.over = TRUE, !.contents = Stopped(@)]
         [] OTHER -> [at EXCEPT !.offset = @ + HeaderCells + padded_size(header[3]),
                                !.contents = Member(@, header[2], data)]

ReadMembers(cells) ==
    LET after[n \in 0 .. Len(cells)] ==
            IF n = 0 THEN [offset |-> 1, contents |-> NoContents, over |-> FALSE]
            ELSE ReadMember(cells, after[n - 1])
    IN after[Len(cells)].contents

\* An archive over the size limit is refused with a warning and no contents.
read_archive(archive) ==
    IF archive.file # "whole" THEN [NoContents EXCEPT !.warned = TRUE]
    ELSE ReadMembers(archive.cells)
==============================================================================
