---------------------------- MODULE AdvisoryDelta ----------------------------
(***************************************************************************)
(* diff_advisory_revisions (src/src/vuln/delta.cpp): what changed between  *)
(* the advisory list stored for a purl and the list the feed gave now, by  *)
(* one pass over both lists. An advisory id is a natural number, ordered   *)
(* as the code orders the strings.                                         *)
(***************************************************************************)
EXTENDS Integers, Sequences

CONSTANTS
    Ids,        \* advisory ids
    Stamps,     \* values of an advisory's `modified` field
    MaxLength   \* bound of the lists: the code has none

ASSUME IdsAssumption == Ids \subseteq Nat
ASSUME MaxLengthAssumption == MaxLength \in Nat

VARIABLES
    previous, current,               \* the two lists, never written
    previous_index, current_index,   \* next revision of each to look at
    removed, added, modified         \* the ids of PurlAdvisoryDelta

inputs == <<previous, current>>
delta_vars == <<previous, current, previous_index, current_index, removed, added, modified>>

AdvisoryRevision == [id : Ids, modified : Stamps]
Lists == UNION {[1 .. n -> AdvisoryRevision] : n \in 0 .. MaxLength}

\* The caller's contract: sorted by id, no id twice.
SortedUnique(list) == \A i, j \in DOMAIN list : i < j => list[i].id < list[j].id

IdsOf(list) == {list[i].id : i \in DOMAIN list}

\* previous comes from SELECT ... ORDER BY advisory_id over a primary key. The
\* feed's list is sorted and deduplicated by the caller, but a list that is not
\* must still be handled.
DeltaInit ==
    /\ previous \in Lists
    /\ current \in Lists
    /\ previous_index = 1 /\ current_index = 1
    /\ removed = <<>> /\ added = <<>> /\ modified = <<>>

MorePrevious == previous_index <= Len(previous)
MoreCurrent == current_index <= Len(current)

\* Both lists name the advisory: its `modified` tells whether it moved.
SameAdvisory ==
    /\ MorePrevious /\ MoreCurrent
    /\ previous[previous_index].id = current[current_index].id
    /\ modified' = IF previous[previous_index].modified # current[current_index].modified
                   THEN Append(modified, current[current_index].id) ELSE modified
    /\ previous_index' = previous_index + 1
    /\ current_index' = current_index + 1
    /\ UNCHANGED <<inputs, removed, added>>

\* Variant for mutation: both lists advance although only one named the advisory.
AdvisoryGoneAdvancesBoth ==
    /\ MorePrevious
    /\ MoreCurrent => previous[previous_index].id < current[current_index].id
    /\ removed' = Append(removed, previous[previous_index].id)
    /\ previous_index' = previous_index + 1
    /\ current_index' = current_index + 1
    /\ UNCHANGED <<inputs, added, modified>>

\* Known before, absent now; also every revision left after current has ended.
AdvisoryGone ==
    /\ MorePrevious
    /\ MoreCurrent => previous[previous_index].id < current[current_index].id
    /\ removed' = Append(removed, previous[previous_index].id)
    /\ previous_index' = previous_index + 1
    /\ UNCHANGED <<inputs, current_index, added, modified>>

\* Absent before, reported now; also every revision left after previous has ended.
AdvisoryNew ==
    /\ MoreCurrent
    /\ MorePrevious => previous[previous_index].id > current[current_index].id
    /\ added' = Append(added, current[current_index].id)
    /\ current_index' = current_index + 1
    /\ UNCHANGED <<inputs, previous_index, removed, modified>>

DeltaNext == SameAdvisory \/ AdvisoryGone \/ AdvisoryNew

DeltaSpec == DeltaInit /\ [][DeltaNext]_delta_vars

Returned == ~MorePrevious /\ ~MoreCurrent

------------------------------------------------------------------------------
DeltaTypeOK ==
    /\ previous \in Seq(AdvisoryRevision) /\ current \in Seq(AdvisoryRevision)
    /\ previous_index \in 1 .. Len(previous) + 1
    /\ current_index \in 1 .. Len(current) + 1
    /\ removed \in Seq(Ids) /\ added \in Seq(Ids) /\ modified \in Seq(Ids)

\* What the pass must return, in terms of the two lists alone.
ContractHolds == SortedUnique(previous) /\ SortedUnique(current)

SameIdOtherStamp ==
    {id \in IdsOf(previous) \cap IdsOf(current) :
        \E i \in DOMAIN previous, j \in DOMAIN current :
            /\ previous[i].id = id /\ current[j].id = id
            /\ previous[i].modified # current[j].modified}

Entries(ids) == {ids[i] : i \in DOMAIN ids}

Ascending(ids) == \A i, j \in DOMAIN ids : i < j => ids[i] < ids[j]

\* The single pass finds exactly the set differences, for lists that keep the
\* caller's contract.
DeltaIsExact ==
    Returned /\ ContractHolds =>
        /\ Entries(removed) = IdsOf(previous) \ IdsOf(current)
        /\ Entries(added) = IdsOf(current) \ IdsOf(previous)
        /\ Entries(modified) = SameIdOtherStamp

\* "the merge above already emits each output list in sorted order with no
\* duplicates" (delta.cpp:56): nothing is sorted afterwards.
OutputsSorted ==
    ContractHolds => Ascending(removed) /\ Ascending(added) /\ Ascending(modified)
==============================================================================
