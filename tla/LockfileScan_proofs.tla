--------------------------- MODULE LockfileScan_proofs ---------------------------
(***************************************************************************)
(* Proofs about the lockfile and manifest parsers, for any number of files  *)
(* and any limits. First the limits, for every format: nothing is used of a *)
(* reader but that it says whether it asks the budget for a package. Then   *)
(* what files lock, for the formats in Lockfiles, by what their readers owe *)
(* the loop around them (StartFits, LineFits, EndFits): each line reports   *)
(* what the lines so far have settled, or counts it for a warning. For a    *)
(* reader that carries locals from line to line, XFits says what they tell  *)
(* of the lines it has read, and XSettled what these have settled.          *)
(***************************************************************************)
EXTENDS LockfileScan, WellFoundedInduction, TLAPS

BudgetWarned == <<0, "kEntryLimitReached">> \in warnings

IInv == TypeOK /\ LimitsAreReported

------------------------------------------------------------------------------
LEMMA InitIInv == Init => IInv
<1> SUFFICES ASSUME Init PROVE IInv
    OBVIOUS
<1> USE FilesAssumption, LimitsAssumption
<1>1. budget \in Nat /\ openings \in Nat
    BY DEF Init
<1>2. TypeOK
    BY <1>1 DEF Init, TypeOK
<1>3. LimitsAreReported
    BY DEF Init, LimitsAreReported, Returned
<1> QED BY <1>2, <1>3 DEF IInv

\* What a step of a reader says is counted against the budget, and told when it is
\* the package that meets it spent.
LEMMA SaidKeeps ==
    ASSUME IInv, NEW s, NEW last, Said_(s, last)
    PROVE  /\ budget' \in Nat /\ complete' \in BOOLEAN /\ pc' \in {"next", "reading"}
           /\ complete' <=> format \in AlwaysComplete \/ <<0, "kEntryLimitReached">> \notin warnings'
<1> DEFINE over == s.tried /\ budget = 0
<1>1. /\ budget \in Nat /\ complete \in BOOLEAN
      /\ complete <=> format \in AlwaysComplete \/ ~BudgetWarned
    BY DEF IInv, TypeOK, LimitsAreReported, BudgetWarned
<1>2. /\ budget' = IF s.tried /\ ~over THEN budget - 1 ELSE budget
      /\ complete' = (complete /\ (~over \/ format \in AlwaysComplete))
      /\ pc' \in {"next", "reading"}
    BY DEF Said_
<1>3. <<0, "kEntryLimitReached">> \in warnings' <=> over \/ BudgetWarned
    BY DEF Said_, BudgetWarned
<1>4. budget' \in Nat
    BY <1>1, <1>2
<1> QED BY <1>1, <1>2, <1>3, <1>4

\* Opening a file spends an opening, and what it warns of is that file.
LEMMA OpenKeeps ==
    ASSUME IInv, PassFile \/ OpenFile
    PROVE  IInv'
<1> USE FilesAssumption
<1>1. file' \in 1 .. MaxFiles
    BY DEF PassFile, OpenFile, IInv, TypeOK
<1>2. openings' \in Nat /\ UNCHANGED <<format, budget, complete>>
    BY DEF PassFile, OpenFile, IInv, TypeOK
<1>3. /\ pc' \in {"next", "reading"}
      /\ <<0, "kEntryLimitReached">> \in warnings' <=> BudgetWarned
    <2>1. CASE PassFile
        BY <2>1 DEF PassFile, BudgetWarned
    <2>2. CASE OpenFile
        <3>1. PICK read : Warned(file', {read} \ {"ok"}) /\ pc' \in {"next", "reading"}
            BY <2>2 DEF OpenFile
        <3> QED BY <1>1, <3>1 DEF Warned, BudgetWarned
    <2> QED BY <2>1, <2>2
<1>4. TypeOK'
    BY <1>1, <1>2, <1>3 DEF IInv, TypeOK
<1>5. LimitsAreReported'
    BY <1>2, <1>3 DEF IInv, LimitsAreReported, BudgetWarned, Returned
<1> QED BY <1>4, <1>5 DEF IInv

\* Reading goes on, ends the file, or throws.
LEMMA ReadKeeps ==
    ASSUME IInv, ReadItem \/ EndFile
    PROVE  IInv'
<1>1. UNCHANGED <<format, openings, file>>
    BY DEF ReadItem, EndFile
<1>2. \/ pc' = "thrown" /\ UNCHANGED <<budget, warnings, complete>>
      \/ \E s, last : Said_(s, last)
    BY DEF ReadItem, EndFile
<1>3. /\ budget' \in Nat /\ complete' \in BOOLEAN /\ pc' \in {"next", "reading", "thrown"}
      /\ complete' <=> format \in AlwaysComplete \/ <<0, "kEntryLimitReached">> \notin warnings'
    <2>1. CASE pc' = "thrown" /\ UNCHANGED <<budget, warnings, complete>>
        BY <2>1 DEF IInv, TypeOK, LimitsAreReported
    <2>2. ASSUME NEW s, NEW last, Said_(s, last)
          PROVE  /\ budget' \in Nat /\ complete' \in BOOLEAN /\ pc' \in {"next", "reading"}
                 /\ complete' <=> format \in AlwaysComplete \/ <<0, "kEntryLimitReached">> \notin warnings'
        BY <2>2, SaidKeeps
    <2> QED BY <1>2, <2>1, <2>2
<1> QED BY <1>1, <1>3 DEF IInv, TypeOK, LimitsAreReported, Returned

\* A run that returns before its last file has met a limit and said which.
LEMMA ReturnKeeps ==
    ASSUME IInv, Return
    PROVE  IInv'
<1>1. pc' = "returned" /\ UNCHANGED <<format, budget, openings, file, complete>>
    BY DEF Return
<1>2. <<0, "kEntryLimitReached">> \in warnings' <=> BudgetWarned
    BY DEF Return, Warned, BudgetWarned
<1>3. TypeOK'
    BY <1>1 DEF IInv, TypeOK
<1>4. file < MaxFiles => \E w \in warnings' : w[1] = 0
    <2> SUFFICES ASSUME file < MaxFiles PROVE \E w \in warnings' : w[1] = 0
        OBVIOUS
    <2>1. CASE openings = 0
        <3>1. <<0, "kFileLimitReached">> \in warnings'
            BY <2>1 DEF Return, Warned
        <3> QED BY <3>1
    <2>2. CASE openings # 0
        <3>1. ~complete
            BY <2>2 DEF Return, Exhausted
        <3>2. BudgetWarned
            BY <3>1 DEF IInv, LimitsAreReported, BudgetWarned
        <3> QED BY <1>2, <3>2
    <2> QED BY <2>1, <2>2
<1>5. LimitsAreReported'
    BY <1>1, <1>2, <1>4 DEF IInv, LimitsAreReported, BudgetWarned
<1> QED BY <1>3, <1>5 DEF IInv

LEMMA NextIInv == IInv /\ [Next]_vars => IInv'
<1>1. IInv /\ UNCHANGED vars => IInv'
    BY DEF vars, IInv, TypeOK, LimitsAreReported, Returned
<1> QED BY <1>1, OpenKeeps, ReadKeeps, ReturnKeeps DEF Next

\* The budget, the openings and the completeness agree with the warnings after every
\* step of the loop over the files (walk_bounded_manifest_files, package_budget).
THEOREM Invariance == Spec => []IInv
BY InitIInv, NextIInv, PTL DEF Spec

\* The budget and the openings are never spent below nothing, whatever is read
\* (package_budget, ParseLimits).
THEOREM TypeCorrect == Spec => []TypeOK
<1>1. IInv => TypeOK
    BY DEF IInv
<1> QED BY <1>1, Invariance, PTL

\* A result that a limit cut short says so, for every format and every limit
\* (walk_bounded_manifest_files): complete is FALSE exactly when a package met a
\* spent budget, and a run that leaves files unopened has warned.
THEOREM LimitsCorrect == Spec => []LimitsAreReported
<1>1. IInv => LimitsAreReported
    BY DEF IInv
<1> QED BY <1>1, Invariance, PTL

------------------------------------------------------------------------------
(* What a reader owes the loop around it. *)

\* What it says, and what it carries to the next line when it keeps no locals.
Says(s) == s.tried \in BOOLEAN /\ s.counted \in BOOLEAN /\ s.stop \in BOOLEAN
Quiet == [emit : {{}}, tried : {FALSE}, counted : BOOLEAN, stop : {FALSE}, ending : {FALSE}]

\* What a step comes to: what it says is settled, what was settled stays so, and what
\* is settled now was before, is said, or is told of.
Reports(before, grown, told, tells, t) ==
    /\ Says(t) /\ t.emit \subseteq grown /\ before \subseteq grown
    /\ tells \/ grown \subseteq before \cup t.emit
    /\ told => tells
    /\ t.stop => t.counted

\* For most readers what is counted is told of, and nothing else.
Accounts(before, grown, s, t) == Reports(before, grown, s.counted, t.counted, t)

LEMMA SilentCounts == ASSUME NEW t, "counted" \in DOMAIN Silent(t) PROVE Silent(t).counted = t.counted
BY DEF Silent

------------------------------------------------------------------------------
(* Lines, from first to last. *)

Latest(those) == IF those = {} THEN 0 ELSE CHOOSE j \in those : \A i \in those : i <= j
Earliest(those) == CHOOSE j \in those : \A i \in those : j <= i

\* A set of positions has a first one.
LEMMA EarliestIs ==
    ASSUME NEW those, those \subseteq Nat, those # {}
    PROVE  Earliest(those) \in those /\ \A i \in those : Earliest(those) <= i
<1>1. IsWellFoundedOn(OpToRel(<, Nat), Nat)
    BY NatLessThanWellFounded
<1>2. PICK j \in those : \A i \in those : ~(<<i, j>> \in OpToRel(<, Nat))
    BY <1>1, WFMin
<1>3. ASSUME NEW i \in those PROVE j <= i
    <2>1. <<i, j>> \in OpToRel(<, Nat) <=> i < j
        BY DEF OpToRel
    <2>2. ~(i < j)
        BY <2>1, <1>2, Zenon
    <2> QED BY <2>2
<1>4. \E k \in those : \A i \in those : k <= i
    BY <1>3
<1> QED BY <1>4 DEF Earliest

\* And a bounded one a last one.
LEMMA LatestIs ==
    ASSUME NEW n \in Nat, NEW those, those \subseteq 1 .. n, those # {}
    PROVE  Latest(those) \in those /\ \A i \in those : i <= Latest(those)
<1> DEFINE left == {d \in 0 .. n : n - d \in those}
<1>1. ASSUME NEW j \in those PROVE n - j \in left
    <2>1. j \in 1 .. n
        OBVIOUS
    <2>2. n - j \in 0 .. n /\ n - (n - j) = j
        BY <2>1
    <2> QED BY <2>2
<1>2. left \subseteq Nat /\ left # {}
    <2>1. left \subseteq 0 .. n /\ 0 .. n \subseteq Nat
        OBVIOUS
    <2>2. \E d : d \in left
        BY <1>1
    <2> QED BY <2>1, <2>2
<1> HIDE DEF left
<1>3. Earliest(left) \in left /\ \A e \in left : Earliest(left) <= e
    BY <1>2, EarliestIs
<1>4. PICK j \in those : Earliest(left) = n - j /\ j \in 1 .. n
    BY <1>3 DEF left
<1>5. ASSUME NEW i \in those PROVE i <= j
    <2>1. n - j <= n - i
        BY <1>1, <1>3, <1>4
    <2>2. i \in 1 .. n
        OBVIOUS
    <2> QED BY <2>1, <2>2, <1>4
<1>6. \E k \in those : \A i \in those : i <= k
    BY <1>5
<1> QED BY <1>6 DEF Latest

LEMMA LatestOfMore ==
    ASSUME NEW n \in Nat, NEW those, those \subseteq 1 .. n
    PROVE  Latest(those \cup {n + 1}) = n + 1
<1> DEFINE more == those \cup {n + 1}
<1>1. more \subseteq 1 .. n + 1 /\ n + 1 \in more /\ n + 1 \in Nat
    <2>1. 1 .. n \subseteq 1 .. n + 1 /\ n + 1 \in 1 .. n + 1
        OBVIOUS
    <2> QED BY <2>1
<1> HIDE DEF more
<1>2. Latest(more) \in more /\ \A i \in more : i <= Latest(more)
    BY <1>1, LatestIs
<1>3. Latest(more) \in 1 .. n + 1 /\ n + 1 <= Latest(more)
    BY <1>1, <1>2
<1>4. Latest(more) = n + 1
    BY <1>3
<1> QED BY <1>4 DEF more

LEMMA EarliestOfMore ==
    ASSUME NEW n \in Nat, NEW those, those \subseteq 1 .. n
    PROVE  Earliest(those \cup {n + 1}) = IF those = {} THEN n + 1 ELSE Earliest(those)
<1> DEFINE more == those \cup {n + 1}
<1>1. more \subseteq Nat /\ n + 1 \in more
    <2>1. 1 .. n \subseteq Nat /\ n + 1 \in Nat
        OBVIOUS
    <2> QED BY <2>1
<1> HIDE DEF more
<1>2. Earliest(more) \in more /\ \A i \in more : Earliest(more) <= i
    BY <1>1, EarliestIs
<1>3. ASSUME those = {} PROVE Earliest(more) = n + 1
    BY <1>2, <1>3 DEF more
<1>4. ASSUME those # {} PROVE Earliest(more) = Earliest(those)
    <2>1. those \subseteq Nat
        BY <1>1 DEF more
    <2>2. Earliest(those) \in those /\ \A i \in those : Earliest(those) <= i
        BY <1>4, <2>1, EarliestIs
    <2>3. Earliest(those) \in more /\ Earliest(those) \in 1 .. n
        BY <2>2 DEF more
    <2>4. Earliest(more) <= Earliest(those) /\ Earliest(more) \in Nat
        BY <1>1, <1>2, <2>3
    <2>5. Earliest(more) # n + 1
        BY <2>3, <2>4
    <2>6. Earliest(more) \in those
        BY <1>2, <2>5 DEF more
    <2>7. Earliest(those) <= Earliest(more)
        BY <2>2, <2>6
    <2> QED BY <2>3, <2>4, <2>7
<1> QED BY <1>3, <1>4 DEF more

\* The two operators of the readers' references are these.
LEMMA LastBeforeIs ==
    ASSUME NEW read, NEW k, NEW kinds
    PROVE  LastBefore(read, k, kinds) = Latest({j \in 1 .. k - 1 : read[j][1] \in kinds})
BY DEF LastBefore, Latest

Those(read, block, kind) == {j \in block : read[j][1] = kind}

LEMMA ValuesAre ==
    ASSUME NEW read, NEW block, NEW kind
    PROVE  /\ FirstValue(read, block, kind) = IF Those(read, block, kind) = {} THEN ""
                                              ELSE read[Earliest(Those(read, block, kind))][2]
           /\ LastValue(read, block, kind) = IF Those(read, block, kind) = {} THEN ""
                                             ELSE read[Latest(Those(read, block, kind))][2]
BY DEF FirstValue, LastValue, Earliest, Latest, Those

\* One line more: it is the last, and the others are what they were.
LEMMA AppendIs ==
    ASSUME NEW S, NEW read \in Seq(S), NEW x \in S
    PROVE  /\ Len(Append(read, x)) = Len(read) + 1 /\ Len(read) \in Nat
           /\ Append(read, x)[Len(read) + 1] = x
           /\ \A j \in 1 .. Len(read) : Append(read, x)[j] = read[j]
OBVIOUS

LEMMA LastBeforeGrows ==
    ASSUME NEW S, NEW read \in Seq(S), NEW x \in S, NEW kinds, NEW k \in 1 .. Len(read) + 1
    PROVE  LastBefore(Append(read, x), k, kinds) = LastBefore(read, k, kinds)
<1>1. {j \in 1 .. k - 1 : Append(read, x)[j][1] \in kinds} = {j \in 1 .. k - 1 : read[j][1] \in kinds}
    BY AppendIs
<1> QED BY <1>1, LastBeforeIs

LEMMA LastBeforeNext ==
    ASSUME NEW S, NEW read \in Seq(S), NEW x \in S, NEW kinds
    PROVE  LastBefore(Append(read, x), Len(read) + 2, kinds) =
               IF x[1] \in kinds THEN Len(read) + 1 ELSE LastBefore(read, Len(read) + 1, kinds)
<1> DEFINE n == Len(read)
           before == {j \in 1 .. n : read[j][1] \in kinds}
           now == {j \in 1 .. n + 1 : Append(read, x)[j][1] \in kinds}
<1>1. now = before \cup (IF x[1] \in kinds THEN {n + 1} ELSE {})
    BY AppendIs
<1>2. /\ LastBefore(Append(read, x), n + 2, kinds) = Latest(now)
      /\ LastBefore(read, n + 1, kinds) = Latest(before)
    <2>1. (n + 2) - 1 = n + 1 /\ (n + 1) - 1 = n
        BY AppendIs
    <2> QED BY <2>1, LastBeforeIs
<1>3. n \in Nat /\ before \subseteq 1 .. n
    BY AppendIs
<1>4. x[1] \in kinds => Latest(now) = n + 1
    BY <1>1, <1>3, LatestOfMore
<1> QED BY <1>1, <1>2, <1>4

LEMMA LastBeforeIn ==
    ASSUME NEW S, NEW read \in Seq(S), NEW kinds, NEW k \in 1 .. Len(read) + 1,
           NEW h, h = LastBefore(read, k, kinds)
    PROVE  /\ h \in 0 .. k - 1
           /\ h # 0 => read[h][1] \in kinds
           /\ \A i \in 1 .. k - 1 : h < i => read[i][1] \notin kinds
<1> DEFINE those == {j \in 1 .. k - 1 : read[j][1] \in kinds}
<1>1. h = Latest(those)
    BY LastBeforeIs
<1>2. CASE those = {}
    BY <1>1, <1>2 DEF Latest
<1>3. CASE those # {}
    <2>1. k - 1 \in Nat /\ those \subseteq 1 .. k - 1
        OBVIOUS
    <2>2. h \in those /\ \A i \in those : i <= h
        BY <1>1, <1>3, <2>1, LatestIs
    <2> QED BY <2>2
<1> QED BY <1>2, <1>3

\* The values of a block of lines, and of one that grows by the line after it.
LEMMA ThoseStay ==
    ASSUME NEW S, NEW read \in Seq(S), NEW x \in S, NEW kind, NEW block \in SUBSET (1 .. Len(read))
    PROVE  /\ Those(read, block, kind) \subseteq 1 .. Len(read) /\ 1 .. Len(read) \subseteq Nat
           /\ Those(Append(read, x), block, kind) = Those(read, block, kind)
           /\ \A j \in Those(read, block, kind) : Append(read, x)[j] = read[j]
<1>1. Len(read) \in Nat /\ \A j \in 1 .. Len(read) : Append(read, x)[j] = read[j]
    BY AppendIs
<1>2. 1 .. Len(read) \subseteq Nat
    BY <1>1
<1>3. Those(read, block, kind) \subseteq 1 .. Len(read)
    BY DEF Those
<1>4. Those(Append(read, x), block, kind) = Those(read, block, kind)
    BY <1>1 DEF Those
<1> QED BY <1>1, <1>2, <1>3, <1>4

LEMMA ValuesStay ==
    ASSUME NEW S, NEW read \in Seq(S), NEW x \in S, NEW kind, NEW block \in SUBSET (1 .. Len(read))
    PROVE  /\ FirstValue(Append(read, x), block, kind) = FirstValue(read, block, kind)
           /\ LastValue(Append(read, x), block, kind) = LastValue(read, block, kind)
<1> DEFINE after == Append(read, x)
           those == Those(read, block, kind)
<1>1. /\ Len(read) \in Nat /\ those \subseteq 1 .. Len(read) /\ those \subseteq Nat
      /\ Those(after, block, kind) = those /\ \A j \in those : after[j] = read[j]
    BY ThoseStay, AppendIs
<1> HIDE DEF after, those
<1>2. those # {} => Latest(those) \in those /\ Earliest(those) \in those
    BY <1>1, LatestIs, EarliestIs
<1>3. /\ FirstValue(read, block, kind) = IF those = {} THEN "" ELSE read[Earliest(those)][2]
      /\ LastValue(read, block, kind) = IF those = {} THEN "" ELSE read[Latest(those)][2]
    BY ValuesAre DEF those
<1>4. /\ FirstValue(after, block, kind) = IF those = {} THEN "" ELSE after[Earliest(those)][2]
      /\ LastValue(after, block, kind) = IF those = {} THEN "" ELSE after[Latest(those)][2]
    <2>1. Those(after, block, kind) = those
        BY <1>1
    <2> QED BY ONLY <2>1, ValuesAre
<1>5. /\ FirstValue(after, block, kind) = FirstValue(read, block, kind)
      /\ LastValue(after, block, kind) = LastValue(read, block, kind)
    BY <1>1, <1>2, <1>3, <1>4
<1> QED BY <1>5 DEF after

Grown(read, x, kind, block) ==
    IF x[1] = kind THEN Those(read, block, kind) \cup {Len(read) + 1} ELSE Those(read, block, kind)

LEMMA ThoseGrow ==
    ASSUME NEW S, NEW read \in Seq(S), NEW x \in S, NEW kind, NEW block \in SUBSET (1 .. Len(read))
    PROVE  Those(Append(read, x), block \cup {Len(read) + 1}, kind) = Grown(read, x, kind, block)
<1> DEFINE after == Append(read, x)
           n == Len(read)
<1>1. after[n + 1] = x /\ \A j \in 1 .. n : after[j] = read[j]
    BY AppendIs
<1>2. \A j \in block : after[j] = read[j]
    BY <1>1
<1> HIDE DEF after, n
<1>3. Those(after, block \cup {n + 1}, kind) =
          IF x[1] = kind THEN Those(read, block, kind) \cup {n + 1} ELSE Those(read, block, kind)
    BY <1>1, <1>2 DEF Those
<1> QED BY <1>3 DEF after, n, Grown

LEMMA LastValueGrows ==
    ASSUME NEW S, NEW read \in Seq(S), NEW x \in S, NEW kind, NEW block \in SUBSET (1 .. Len(read))
    PROVE  LastValue(Append(read, x), block \cup {Len(read) + 1}, kind) =
               IF x[1] = kind THEN x[2] ELSE LastValue(read, block, kind)
<1> DEFINE n == Len(read)
           after == Append(read, x)
           more == block \cup {n + 1}
           those == Those(read, block, kind)
<1>1. n \in Nat /\ those \subseteq 1 .. n /\ after[n + 1] = x
    <2>1. those \subseteq 1 .. n
        BY ThoseStay
    <2>2. n \in Nat /\ after[n + 1] = x
        BY AppendIs
    <2> QED BY <2>1, <2>2
<1>2. Those(after, more, kind) = IF x[1] = kind THEN those \cup {n + 1} ELSE those
    <2>1. Those(after, more, kind) = Grown(read, x, kind, block)
        BY ThoseGrow
    <2> HIDE DEF after, more
    <2> QED BY <2>1 DEF Grown
<1>3. LastValue(after, block, kind) = LastValue(read, block, kind) /\ Those(after, block, kind) = those
    <2>1. LastValue(after, block, kind) = LastValue(read, block, kind)
        BY ValuesStay
    <2>2. Those(after, block, kind) = those
        BY ThoseStay
    <2> QED BY <2>1, <2>2
<1> HIDE DEF n, after, more, those
<1>4. CASE x[1] = kind
    <2>1. LastValue(after, more, kind) = after[Latest(those \cup {n + 1})][2]
        BY <1>2, <1>4, ValuesAre
    <2>2. Latest(those \cup {n + 1}) = n + 1
        BY <1>1, LatestOfMore
    <2>3. LastValue(after, more, kind) = x[2]
        BY <1>1, <2>1, <2>2
    <2> QED BY <1>4, <2>3 DEF after, more, n
<1>5. CASE x[1] # kind
    <2>1. Those(after, more, kind) = Those(after, block, kind)
        BY <1>2, <1>3, <1>5
    <2>2. LastValue(after, more, kind) = LastValue(after, block, kind)
        BY <2>1, ValuesAre
    <2> QED BY <1>3, <1>5, <2>2 DEF after, more, n
<1> QED BY <1>4, <1>5

LEMMA FirstValueGrows ==
    ASSUME NEW S, NEW read \in Seq(S), NEW x \in S, NEW kind, NEW block \in SUBSET (1 .. Len(read))
    PROVE  FirstValue(Append(read, x), block \cup {Len(read) + 1}, kind) =
               IF x[1] = kind /\ Those(read, block, kind) = {} THEN x[2] ELSE FirstValue(read, block, kind)
<1> DEFINE n == Len(read)
           after == Append(read, x)
           more == block \cup {n + 1}
           those == Those(read, block, kind)
<1>1. n \in Nat /\ those \subseteq 1 .. n /\ after[n + 1] = x
    <2>1. those \subseteq 1 .. n
        BY ThoseStay
    <2>2. n \in Nat /\ after[n + 1] = x
        BY AppendIs
    <2> QED BY <2>1, <2>2
<1>2. Those(after, more, kind) = IF x[1] = kind THEN those \cup {n + 1} ELSE those
    <2>1. Those(after, more, kind) = Grown(read, x, kind, block)
        BY ThoseGrow
    <2> HIDE DEF after, more
    <2> QED BY <2>1 DEF Grown
<1>3. FirstValue(after, block, kind) = FirstValue(read, block, kind) /\ Those(after, block, kind) = those
    <2>1. FirstValue(after, block, kind) = FirstValue(read, block, kind)
        BY ValuesStay
    <2>2. Those(after, block, kind) = those
        BY ThoseStay
    <2> QED BY <2>1, <2>2
<1> HIDE DEF n, after, more, those
<1>4. CASE x[1] = kind
    <2>1. FirstValue(after, more, kind) = after[Earliest(those \cup {n + 1})][2]
        BY <1>2, <1>4, ValuesAre
    <2>2. Earliest(those \cup {n + 1}) = IF those = {} THEN n + 1 ELSE Earliest(those)
        BY <1>1, EarliestOfMore
    <2>3. those # {} => FirstValue(after, block, kind) = after[Earliest(those)][2]
        BY <1>3, ValuesAre
    <2>4. FirstValue(after, more, kind) = IF those = {} THEN x[2] ELSE FirstValue(read, block, kind)
        BY <1>1, <1>3, <2>1, <2>2, <2>3
    <2> QED BY <1>4, <2>4 DEF after, more, n, those
<1>5. CASE x[1] # kind
    <2>1. Those(after, more, kind) = Those(after, block, kind)
        BY <1>2, <1>3, <1>5
    <2>2. FirstValue(after, more, kind) = FirstValue(after, block, kind)
        BY <2>1, ValuesAre
    <2> QED BY <1>3, <1>5, <2>2 DEF after, more, n
<1> QED BY <1>4, <1>5

\* No line of these kinds has followed line k.
Open(read, k, kinds) == \A i \in k + 1 .. Len(read) : read[i][1] \notin kinds

\* A block that a line of one of its kinds has closed stays; one that reaches the
\* end takes the next line unless that closes it.
LEMMA BlockGrows ==
    ASSUME NEW S, NEW read \in Seq(S), NEW x \in S, NEW kinds, NEW k \in 1 .. Len(read),
           NEW after, after = Append(read, x)
    PROVE  /\ BlockOf(read, k, kinds) \subseteq k + 1 .. Len(read)
           /\ Open(read, k, kinds) => BlockOf(read, k, kinds) = k + 1 .. Len(read)
           /\ Open(after, k, kinds) <=> Open(read, k, kinds) /\ x[1] \notin kinds
           /\ Open(after, k, kinds) => BlockOf(after, k, kinds) = BlockOf(read, k, kinds) \cup {Len(read) + 1}
           /\ ~Open(after, k, kinds) => BlockOf(after, k, kinds) = BlockOf(read, k, kinds)
<1> DEFINE n == Len(read)
<1>1. Len(after) = n + 1 /\ n \in Nat /\ after[n + 1] = x /\ \A j \in 1 .. n : after[j] = read[j]
    BY AppendIs
<1>2. BlockOf(read, k, kinds) \subseteq k + 1 .. n /\ (Open(read, k, kinds) => BlockOf(read, k, kinds) = k + 1 .. n)
    BY <1>1 DEF BlockOf, Open
<1>3. ASSUME NEW j \in k + 1 .. n PROVE j \in BlockOf(after, k, kinds) <=> j \in BlockOf(read, k, kinds)
    BY <1>1 DEF BlockOf
<1>4. Open(after, k, kinds) <=> Open(read, k, kinds) /\ x[1] \notin kinds
    BY <1>1 DEF Open
<1>5. n + 1 \in BlockOf(after, k, kinds) <=> Open(after, k, kinds)
    BY <1>1 DEF BlockOf, Open
<1>6. BlockOf(after, k, kinds) \subseteq k + 1 .. n + 1
    BY <1>1 DEF BlockOf
<1>7. k + 1 .. n + 1 = (k + 1 .. n) \cup {n + 1}
    BY <1>1
<1>8. BlockOf(after, k, kinds) = BlockOf(read, k, kinds) \cup (IF Open(after, k, kinds) THEN {n + 1} ELSE {})
    <2> HIDE DEF n
    <2> QED BY <1>2, <1>3, <1>5, <1>6, <1>7
<1> QED BY <1>2, <1>4, <1>8

\* Of some keys, those that a later line of these kinds has closed.
Closed(read, keys, kinds) == {k \in keys : ~Open(read, k, kinds)}

\* Among lines of these kinds only the last one is open.
LEMMA LastIsOpen ==
    ASSUME NEW S, NEW read \in Seq(S), NEW kinds, NEW k \in 1 .. Len(read), read[k][1] \in kinds,
           NEW c, c = LastBefore(read, Len(read) + 1, kinds)
    PROVE  Open(read, k, kinds) <=> k = c
<1>1. Len(read) \in Nat /\ Len(read) + 1 \in 1 .. Len(read) + 1
    OBVIOUS
<1>2. /\ c \in 0 .. Len(read)
      /\ c # 0 => read[c][1] \in kinds
      /\ \A i \in 1 .. Len(read) : c < i => read[i][1] \notin kinds
    <2>1. Len(read) + 1 - 1 = Len(read)
        BY <1>1
    <2> QED BY <1>1, <2>1, LastBeforeIn
<1>3. k <= c
    BY <1>1, <1>2
<1>4. k < c => ~Open(read, k, kinds)
    BY <1>1, <1>2 DEF Open
<1>5. k = c => Open(read, k, kinds)
    BY <1>1, <1>2 DEF Open
<1> QED BY <1>1, <1>2, <1>3, <1>4, <1>5

\* The key that a line of these kinds closes: the last one of them, if it is a key.
JustClosed(read, x, keys, kinds) ==
    IF x[1] \in kinds THEN {LastBefore(read, Len(read) + 1, kinds)} \cap keys ELSE {}

NowClosed(read, x, keys, kinds) == Closed(read, keys, kinds) \cup JustClosed(read, x, keys, kinds)

LEMMA ClosedGrows ==
    ASSUME NEW S, NEW read \in Seq(S), NEW x \in S, NEW kinds, NEW keys \in SUBSET (1 .. Len(read)),
           \A k \in keys : read[k][1] \in kinds,
           NEW more \in {keys, keys \cup {Len(read) + 1}}
    PROVE  Closed(Append(read, x), more, kinds) = NowClosed(read, x, keys, kinds)
<1> DEFINE n == Len(read)
           after == Append(read, x)
           c == LastBefore(read, n + 1, kinds)
<1>1. n \in Nat /\ Len(after) = n + 1
    BY AppendIs
<1>2. \A k \in keys : Open(after, k, kinds) <=> Open(read, k, kinds) /\ x[1] \notin kinds
    <2> SUFFICES ASSUME NEW k \in keys PROVE Open(after, k, kinds) <=> Open(read, k, kinds) /\ x[1] \notin kinds
        OBVIOUS
    <2>1. k \in 1 .. Len(read)
        OBVIOUS
    <2> QED BY <2>1, BlockGrows
<1>3. \A k \in keys : Open(read, k, kinds) <=> k = c
    BY LastIsOpen
<1>4. Open(after, n + 1, kinds)
    BY <1>1 DEF Open
<1> HIDE DEF n, after, c
<1>5. Closed(after, more, kinds) = {k \in keys : ~(k = c) \/ x[1] \in kinds}
    BY <1>2, <1>3, <1>4 DEF Closed, n
<1>6. Closed(read, keys, kinds) = {k \in keys : ~(k = c)}
    BY <1>3 DEF Closed
<1>7. JustClosed(read, x, keys, kinds) = IF x[1] \in kinds THEN {c} \cap keys ELSE {}
    BY DEF JustClosed, c, n
<1> QED BY <1>5, <1>6, <1>7 DEF after, NowClosed

\* At the end, what is not closed is the last one.
LEMMA AllButLast ==
    ASSUME NEW S, NEW read \in Seq(S), NEW kinds, NEW keys \in SUBSET (1 .. Len(read)),
           \A k \in keys : read[k][1] \in kinds
    PROVE  keys = Closed(read, keys, kinds) \cup ({LastBefore(read, Len(read) + 1, kinds)} \cap keys)
<1>1. \A k \in keys : Open(read, k, kinds) <=> k = LastBefore(read, Len(read) + 1, kinds)
    BY LastIsOpen
<1> QED BY <1>1 DEF Closed

\* The value of a kind that a key comes to, before lines of other kinds end its block.
KeyValue(read, k, kinds, kind) == FirstValue(read, BlockOf(read, k, kinds), kind)

\* What a closed key comes to stays.
LEMMA KeyValueStays ==
    ASSUME NEW S, NEW read \in Seq(S), NEW x \in S, NEW kinds, NEW kind, NEW k \in 1 .. Len(read),
           ~Open(read, k, kinds \cup {kind})
    PROVE  KeyValue(Append(read, x), k, kinds, kind) = KeyValue(read, k, kinds, kind)
<1> DEFINE n == Len(read)
           after == Append(read, x)
           block == BlockOf(read, k, kinds)
<1>1. n \in Nat /\ after[k] = read[k]
    BY AppendIs
<1>2. /\ block \subseteq k + 1 .. n
      /\ Open(read, k, kinds) => block = k + 1 .. n
      /\ Open(after, k, kinds) <=> Open(read, k, kinds) /\ x[1] \notin kinds
      /\ Open(after, k, kinds) => BlockOf(after, k, kinds) = block \cup {n + 1}
      /\ ~Open(after, k, kinds) => BlockOf(after, k, kinds) = block
    <2>1. k \in 1 .. Len(read)
        OBVIOUS
    <2> QED BY ONLY <2>1, read \in Seq(S), x \in S, BlockGrows
<1>3. block \in SUBSET (1 .. Len(read))
    BY <1>1, <1>2
<1>4. ASSUME ~Open(after, k, kinds) PROVE KeyValue(after, k, kinds, kind) = KeyValue(read, k, kinds, kind)
    <2>1. FirstValue(after, block, kind) = FirstValue(read, block, kind)
        BY <1>3, ValuesStay
    <2> HIDE DEF block, after
    <2> QED BY <1>2, <1>4, <2>1 DEF KeyValue, block
<1>5. ASSUME Open(after, k, kinds) PROVE KeyValue(after, k, kinds, kind) = KeyValue(read, k, kinds, kind)
    <2>1. Those(read, block, kind) # {}
        <3>1. PICK i \in k + 1 .. n : read[i][1] \in kinds \cup {kind}
            BY DEF Open
        <3>2. read[i][1] \notin kinds
            BY <1>2, <1>5, <3>1 DEF Open
        <3>3. i \in block /\ read[i][1] = kind
            BY <1>2, <1>5, <3>1, <3>2
        <3> QED BY <3>3 DEF Those
    <2>2. FirstValue(after, block \cup {n + 1}, kind) =
              IF x[1] = kind /\ Those(read, block, kind) = {} THEN x[2] ELSE FirstValue(read, block, kind)
        BY <1>3, FirstValueGrows
    <2> HIDE DEF block, after, n
    <2> QED BY <1>2, <1>5, <2>1, <2>2 DEF KeyValue, block
<1> QED BY <1>4, <1>5

\* What an open key comes to with the line that closes it.
LEMMA KeyValueNow ==
    ASSUME NEW S, NEW read \in Seq(S), NEW x \in S, NEW kinds, NEW kind, kind \notin kinds,
           NEW k \in 1 .. Len(read), Open(read, k, kinds \cup {kind}), x[1] \in kinds \cup {kind}
    PROVE  KeyValue(Append(read, x), k, kinds, kind) = IF x[1] = kind THEN x[2] ELSE ""
<1> DEFINE n == Len(read)
           after == Append(read, x)
           block == BlockOf(read, k, kinds)
<1>1. n \in Nat /\ after[k] = read[k]
    BY AppendIs
<1>2. /\ block \subseteq k + 1 .. n
      /\ Open(read, k, kinds) => block = k + 1 .. n
      /\ Open(after, k, kinds) <=> Open(read, k, kinds) /\ x[1] \notin kinds
      /\ Open(after, k, kinds) => BlockOf(after, k, kinds) = block \cup {n + 1}
      /\ ~Open(after, k, kinds) => BlockOf(after, k, kinds) = block
    <2>1. k \in 1 .. Len(read)
        OBVIOUS
    <2> QED BY ONLY <2>1, read \in Seq(S), x \in S, BlockGrows
<1>3. block = k + 1 .. n /\ Open(read, k, kinds)
    BY <1>1, <1>2 DEF Open
<1>9. block \in SUBSET (1 .. Len(read))
    BY <1>1, <1>2
<1>4. Those(read, block, kind) = {}
    BY <1>3 DEF Those, Open
<1>5. FirstValue(read, block, kind) = ""
    BY <1>4, ValuesAre
<1>6. FirstValue(after, block, kind) = FirstValue(read, block, kind)
    BY <1>9, ValuesStay
<1>7. FirstValue(after, block \cup {n + 1}, kind) =
          IF x[1] = kind /\ Those(read, block, kind) = {} THEN x[2] ELSE FirstValue(read, block, kind)
    BY ONLY <1>9, read \in Seq(S), x \in S, FirstValueGrows
<1> HIDE DEF block, after, n
<1>8. KeyValue(after, k, kinds, kind) = IF x[1] = kind THEN x[2] ELSE ""
    BY <1>2, <1>3, <1>4, <1>5, <1>6, <1>7 DEF KeyValue
<1> QED BY <1>8 DEF after

------------------------------------------------------------------------------
(* Gemfile.lock. *)

LEMMA GemStartIs ==
    GemStart = [section |-> "Untracked", inside_specs |-> FALSE, current_remote |-> "",
                emit |-> {}, tried |-> FALSE, counted |-> FALSE, stop |-> FALSE, ending |-> FALSE]
<1> DEFINE locals == [section |-> "Untracked", inside_specs |-> FALSE, current_remote |-> ""]
           whole == [section |-> "Untracked", inside_specs |-> FALSE, current_remote |-> "",
                     emit |-> {}, tried |-> FALSE, counted |-> FALSE, stop |-> FALSE, ending |-> FALSE]
<1>1. DOMAIN locals = {"section", "inside_specs", "current_remote"}
    OBVIOUS
<1>2. DOMAIN Said = {"emit", "tried", "counted", "stop", "ending"}
    BY DEF Said
<1>3. whole = [v \in DOMAIN locals \cup DOMAIN Said |-> whole[v]]
    BY <1>1, <1>2
<1>4. \A v \in DOMAIN locals \cup DOMAIN Said : whole[v] = IF v \in DOMAIN locals THEN locals[v] ELSE Said[v]
    <2>1. /\ whole["section"] = locals["section"]
          /\ whole["inside_specs"] = locals["inside_specs"]
          /\ whole["current_remote"] = locals["current_remote"]
          /\ whole["emit"] = Said["emit"] /\ whole["tried"] = Said["tried"] /\ whole["counted"] = Said["counted"]
          /\ whole["stop"] = Said["stop"] /\ whole["ending"] = Said["ending"]
        BY DEF Said
    <2> HIDE DEF locals, whole
    <2> QED BY <1>1, <1>2, <2>1
<1>5. GemStart = [v \in DOMAIN locals \cup DOMAIN Said |-> IF v \in DOMAIN locals THEN locals[v] ELSE Said[v]]
    BY DEF GemStart, With
<1> HIDE DEF locals, whole
<1>6. GemStart = whole
    BY <1>3, <1>4, <1>5
<1> QED BY <1>6 DEF whole

\* Gemfile.lock: the section, and what its lines since the header say.
GemFits(read, s) ==
    LET h == LastBefore(read, Len(read) + 1, {"header"})
        since == h + 1 .. Len(read)
    IN /\ s \in [section : {"GEM", "GIT", "PATH", "Untracked"}, inside_specs : BOOLEAN, current_remote : {"", "r"},
                 emit : {{}}, tried : {FALSE}, counted : BOOLEAN, stop : {FALSE}, ending : {FALSE}]
       /\ s.section = IF h # 0 /\ read[h][2] \in {"GEM", "GIT", "PATH"} THEN read[h][2] ELSE "Untracked"
       /\ s.section # "Untracked" => /\ s.inside_specs <=> \E i \in since : read[i][1] = "specs"
                                     /\ s.current_remote = LastValue(read, since, "remote")

LEMMA GemStartFits == GemFits(<<>>, GemStart) /\ GemLocked(<<>>) = {}
<1>1. LastBefore(<<>>, Len(<<>>) + 1, {"header"}) = 0
    BY DEF LastBefore
<1>2. GemLocked(<<>>) = {}
    BY DEF GemLocked
<1> QED BY <1>1, <1>2, GemStartIs DEF GemFits

\* What a line locks.
GemSays(read, x) ==
    LET h == LastBefore(read, Len(read) + 1, {"header"})
    IN IF /\ x[1] = "gem" /\ h # 0 /\ read[h][2] \in {"GEM", "GIT"}
          /\ \E i \in h + 1 .. Len(read) : read[i][1] = "specs"
       THEN {[name |-> x[2], remote |-> LastValue(read, h + 1 .. Len(read), "remote")]} ELSE {}

LEMMA GemGrows ==
    ASSUME NEW read \in Seq(GemLines), NEW x \in GemLines, NEW after, after = Append(read, x)
    PROVE  GemLocked(after) = GemLocked(read) \cup GemSays(read, x)
<1> DEFINE n == Len(read)
           h == LastBefore(read, n + 1, {"header"})
           Header(given, j) == LastBefore(given, j, {"header"})
           Locks(given, j) == /\ given[j][1] = "gem" /\ Header(given, j) # 0 /\ given[Header(given, j)][2] \in {"GEM", "GIT"}
                              /\ \E i \in Header(given, j) + 1 .. j - 1 : given[i][1] = "specs"
           Package(given, j) == [name |-> given[j][2],
                                 remote |-> LastValue(given, Header(given, j) + 1 .. j - 1, "remote")]
<1>1. Len(after) = n + 1 /\ n \in Nat /\ after[n + 1] = x /\ \A j \in 1 .. n : after[j] = read[j]
    BY AppendIs
<1>2. \A j \in 1 .. n + 1 : /\ Header(after, j) = Header(read, j) /\ Header(read, j) \in 0 .. j - 1
    BY LastBeforeGrows, LastBeforeIn
<1>3. \A j \in 1 .. n + 1 : LastValue(after, Header(after, j) + 1 .. j - 1, "remote") =
                            LastValue(read, Header(read, j) + 1 .. j - 1, "remote")
    <2> SUFFICES ASSUME NEW j \in 1 .. n + 1
                 PROVE  LastValue(after, Header(after, j) + 1 .. j - 1, "remote") =
                            LastValue(read, Header(read, j) + 1 .. j - 1, "remote")
        OBVIOUS
    <2>1. Header(read, j) + 1 .. j - 1 \subseteq 1 .. n
        BY <1>1, <1>2
    <2> QED BY <1>2, <2>1, ValuesStay
<1>4. ASSUME NEW j \in 1 .. n + 1
      PROVE  (\E i \in Header(after, j) + 1 .. j - 1 : after[i][1] = "specs") <=>
             (\E i \in Header(read, j) + 1 .. j - 1 : read[i][1] = "specs")
    <2>1. Header(after, j) = Header(read, j) /\ Header(read, j) \in 0 .. j - 1
        BY <1>2
    <2>2. \A i \in Header(read, j) + 1 .. j - 1 : after[i] = read[i]
        BY <1>1, <2>1
    <2> HIDE DEF Header
    <2> QED BY <2>1, <2>2
<1>5. \A j \in 1 .. n : (Locks(after, j) <=> Locks(read, j)) /\ Package(after, j) = Package(read, j)
    <2> SUFFICES ASSUME NEW j \in 1 .. n
                 PROVE  (Locks(after, j) <=> Locks(read, j)) /\ Package(after, j) = Package(read, j)
        OBVIOUS
    <2>1. j \in 1 .. n + 1 /\ after[j] = read[j] /\ Header(after, j) = Header(read, j)
        BY <1>1, <1>2
    <2>2. Header(read, j) # 0 => after[Header(read, j)] = read[Header(read, j)]
        BY <1>1, <1>2, <2>1
    <2>3. Package(after, j) = Package(read, j)
        BY <1>3, <2>1
    <2>4. Locks(after, j) <=> Locks(read, j)
        <3> HIDE DEF Header
        <3> QED BY <1>4, <2>1, <2>2
    <2> QED BY <2>3, <2>4
<1>6. /\ Locks(after, n + 1) <=> /\ x[1] = "gem" /\ h # 0 /\ read[h][2] \in {"GEM", "GIT"}
                                 /\ \E i \in h + 1 .. n : read[i][1] = "specs"
      /\ Package(after, n + 1) = [name |-> x[2], remote |-> LastValue(read, h + 1 .. n, "remote")]
    <2>1. n + 1 \in 1 .. n + 1 /\ (n + 1) - 1 = n
        BY <1>1
    <2>2. h \in 0 .. n /\ h = Header(after, n + 1) /\ (h # 0 => after[h] = read[h])
        BY <1>1, <1>2, <2>1
    <2>3. LastValue(after, Header(after, n + 1) + 1 .. n, "remote") = LastValue(read, h + 1 .. n, "remote")
        BY <1>3, <2>1, <2>2
    <2>4. (\E i \in Header(after, n + 1) + 1 .. n : after[i][1] = "specs") <=> (\E i \in h + 1 .. n : read[i][1] = "specs")
        BY <1>4, <2>1, <2>2
    <2> HIDE DEF n, h
    <2> QED BY <1>1, <2>1, <2>2, <2>3, <2>4
<1>7. /\ GemLocked(read) = {Package(read, k) : k \in {j \in 1 .. n : Locks(read, j)}}
      /\ GemLocked(after) = {Package(after, k) : k \in {j \in 1 .. n + 1 : Locks(after, j)}}
    BY <1>1 DEF GemLocked
<1> HIDE DEF Locks, n, Package
<1>8. 1 .. n + 1 = (1 .. n) \cup {n + 1}
    BY <1>1
<1>9. GemLocked(after) = GemLocked(read) \cup (IF Locks(after, n + 1) THEN {Package(after, n + 1)} ELSE {})
    BY <1>5, <1>7, <1>8
<1>10. GemSays(read, x) = IF Locks(after, n + 1) THEN {Package(after, n + 1)} ELSE {}
    BY <1>6 DEF GemSays, n
<1> QED BY <1>9, <1>10

LEMMA RemoteIs == ASSUME NEW x \in GemLines, x[1] = "remote" PROVE x[2] = "r"
<1>1. \/ x = <<"header", "GEM">> \/ x = <<"header", "PATH">> \/ x = <<"header", "PLATFORMS">>
      \/ x = <<"specs", "">> \/ x = <<"gem", "a">> \/ x = <<"garbled", "">> \/ x = <<"remote", "r">>
    BY Zenon DEF GemLines
<1>2. CASE x = <<"header", "GEM">> \/ x = <<"header", "PATH">> \/ x = <<"header", "PLATFORMS">>
    BY <1>2
<1>3. CASE x = <<"specs", "">>
    BY <1>3
<1>4. CASE x = <<"gem", "a">>
    BY <1>4
<1>5. CASE x = <<"garbled", "">>
    BY <1>5
<1>6. CASE x = <<"remote", "r">>
    BY <1>6
<1> QED BY <1>1, <1>2, <1>3, <1>4, <1>5, <1>6

LEMMA GemLineFits ==
    ASSUME NEW read \in Seq(GemLines), NEW x \in GemLines, NEW s, GemFits(read, s),
           NEW t, t = GemLine(s, x), NEW after, after = Append(read, x)
    PROVE  Accounts(GemLocked(read), GemLocked(after), s, t) /\ GemFits(after, Silent(t))
<1> DEFINE n == Len(read)
           h == LastBefore(read, n + 1, {"header"})
           now == LastBefore(after, Len(after) + 1, {"header"})
           since == h + 1 .. n
           Specs(given, block) == \E i \in block : given[i][1] = "specs"
<1>0. Len(after) = n + 1 /\ n \in Nat /\ after[n + 1] = x /\ \A j \in 1 .. n : after[j] = read[j]
    BY AppendIs
<1>1. now = IF x[1] = "header" THEN n + 1 ELSE h
    <2>1. Len(after) + 1 = n + 2
        BY <1>0
    <2> DEFINE kinds == {"header"}
    <2> HIDE DEF kinds
    <2>2. LastBefore(after, n + 2, kinds) = IF x[1] \in kinds THEN n + 1 ELSE LastBefore(read, n + 1, kinds)
        BY LastBeforeNext
    <2> QED BY <2>1, <2>2 DEF kinds
<1>2. h \in 0 .. n /\ since \subseteq 1 .. n
    BY <1>0, LastBeforeIn
<1>3. s \in [section : {"GEM", "GIT", "PATH", "Untracked"}, inside_specs : BOOLEAN, current_remote : {"", "r"},
             emit : {{}}, tried : {FALSE}, counted : BOOLEAN, stop : {FALSE}, ending : {FALSE}]
    BY DEF GemFits
<1>4. /\ s.section = IF h # 0 /\ read[h][2] \in {"GEM", "GIT", "PATH"} THEN read[h][2] ELSE "Untracked"
      /\ s.section # "Untracked" => /\ s.inside_specs <=> Specs(read, since)
                                    /\ s.current_remote = LastValue(read, since, "remote")
    BY DEF GemFits
<1>5. GemLocked(after) = GemLocked(read) \cup
          (IF x[1] = "gem" /\ s.section \notin {"Untracked", "PATH"} /\ s.inside_specs
           THEN {[name |-> x[2], remote |-> s.current_remote]} ELSE {})
    <2>1. GemLocked(after) = GemLocked(read) \cup GemSays(read, x)
        BY GemGrows
    <2>2. GemSays(read, x) = IF x[1] = "gem" /\ s.section \notin {"Untracked", "PATH"} /\ s.inside_specs
                             THEN {[name |-> x[2], remote |-> s.current_remote]} ELSE {}
        BY <1>4 DEF GemSays
    <2> QED BY <2>1, <2>2
<1>6. CASE x[1] = "header"
    <2>1. now = n + 1 /\ now # 0 /\ after[now] = x
        BY <1>0, <1>1, <1>6
    <2>2. now + 1 .. Len(after) = {}
        BY <1>0, <2>1
    <2>3. LastValue(after, {}, "remote") = ""
        BY DEF LastValue
    <2>4. GemFits(after, Silent(t))
        BY <1>3, <1>6, <2>1, <2>2, <2>3 DEF GemFits, GemLine, GemLines, Silent, now
    <2> QED BY <1>3, <1>5, <1>6, <2>4 DEF GemLine, Accounts, Reports, Says
<1>7. CASE x[1] # "header"
    <2>1. now = h /\ now + 1 .. Len(after) = since \cup {n + 1} /\ (now # 0 => after[now] = read[h])
        BY <1>0, <1>1, <1>2, <1>7
    <2>2. LastValue(after, since \cup {n + 1}, "remote") =
              IF x[1] = "remote" THEN x[2] ELSE LastValue(read, since, "remote")
        <3> HIDE DEF since
        <3> QED BY <1>2, LastValueGrows
    <2>3. Specs(after, since \cup {n + 1}) <=> x[1] = "specs" \/ Specs(read, since)
        <3> HIDE DEF since
        <3> QED BY <1>0, <1>2
    <2> HIDE DEF now, since, h, Specs, n
    <2>4. t.section = s.section /\ (s.section # "Untracked" =>
                                       /\ t.inside_specs <=> s.inside_specs \/ x[1] = "specs"
                                       /\ t.current_remote = IF x[1] = "remote" THEN x[2] ELSE s.current_remote)
        BY <1>3, <1>7 DEF GemLine, GemLines, Emit, Count
    <2>5. Silent(t) \in [section : {"GEM", "GIT", "PATH", "Untracked"}, inside_specs : BOOLEAN,
                         current_remote : {"", "r"}, emit : {{}}, tried : {FALSE}, counted : BOOLEAN,
                         stop : {FALSE}, ending : {FALSE}]
        <3>1. \/ t = s \/ t = [s EXCEPT !.inside_specs = TRUE] \/ t = [s EXCEPT !.current_remote = "r"]
              \/ t = Count(s) \/ t = Emit(s, [name |-> x[2], remote |-> s.current_remote])
            <4>1. CASE s.section = "Untracked"
                BY <1>7, <4>1 DEF GemLine
            <4>3. ASSUME s.section # "Untracked", x[1] = "specs" PROVE t = [s EXCEPT !.inside_specs = TRUE]
                BY <1>7, <4>3 DEF GemLine
            <4>4. ASSUME s.section # "Untracked", x[1] = "remote" PROVE t = [s EXCEPT !.current_remote = "r"]
                <5>1. x[2] = "r"
                    BY <4>4, RemoteIs
                <5>2. t = [s EXCEPT !.current_remote = x[2]]
                    BY <1>7, <4>4 DEF GemLine
                <5> QED BY <5>1, <5>2
            <4>2. x[1] \notin {"specs", "remote"} =>
                     t = s \/ t = Count(s) \/ t = Emit(s, [name |-> x[2], remote |-> s.current_remote])
                BY <1>7 DEF GemLine
            <4> QED BY <4>1, <4>2, <4>3, <4>4
        <3>2. CASE t = s
            BY <1>3, <3>2 DEF Silent
        <3>3. CASE t = [s EXCEPT !.inside_specs = TRUE]
            BY <1>3, <3>3 DEF Silent
        <3>4. CASE t = [s EXCEPT !.current_remote = "r"]
            BY <1>3, <3>4 DEF Silent
        <3>5. CASE t = Count(s)
            BY <1>3, <3>5 DEF Silent, Count
        <3>6. CASE t = Emit(s, [name |-> x[2], remote |-> s.current_remote])
            BY <1>3, <3>6 DEF Silent, Emit
        <3> QED BY <3>1, <3>2, <3>3, <3>4, <3>5, <3>6
    <2>6. /\ Silent(t).section = t.section /\ Silent(t).inside_specs = t.inside_specs
          /\ Silent(t).current_remote = t.current_remote
        BY <1>3, <1>7 DEF GemLine, GemLines, Emit, Count, Silent
    <2>7. GemFits(after, Silent(t))
        <3>1. Silent(t).section = IF now # 0 /\ after[now][2] \in {"GEM", "GIT", "PATH"} THEN after[now][2] ELSE "Untracked"
            BY <1>4, <2>1, <2>4, <2>6
        <3>2. Silent(t).section # "Untracked" =>
                  /\ Silent(t).inside_specs <=> Specs(after, now + 1 .. Len(after))
                  /\ Silent(t).current_remote = LastValue(after, now + 1 .. Len(after), "remote")
            BY <1>4, <2>1, <2>2, <2>3, <2>4, <2>6
        <3> QED BY <3>1, <3>2, <2>5 DEF GemFits, now, Specs
    <2>8. Accounts(GemLocked(read), GemLocked(after), s, t)
        BY <1>3, <1>5, <1>7 DEF GemLine, GemLines, Accounts, Reports, Says, Emit, Count
    <2> QED BY <2>7, <2>8
<1> QED BY <1>6, <1>7

\* At its end a Gemfile.lock has nothing pending.
LEMMA GemEndFits ==
    ASSUME NEW read, NEW s, GemFits(read, s), NEW t, t = GemEnd(s)
    PROVE  Accounts(GemLocked(read), GemLocked(read), s, t) /\ ~t.ending
<1>1. s \in [section : {"GEM", "GIT", "PATH", "Untracked"}, inside_specs : BOOLEAN, current_remote : {"", "r"},
             emit : {{}}, tried : {FALSE}, counted : BOOLEAN, stop : {FALSE}, ending : {FALSE}]
    BY DEF GemFits
<1> QED BY <1>1 DEF GemEnd, Accounts, Reports, Says

------------------------------------------------------------------------------
(* yarn.lock, Berry. *)

LEMMA BerryStartIs ==
    BerryStart = [inside_metadata |-> FALSE, recognized_berry |-> FALSE,
                emit |-> {}, tried |-> FALSE, counted |-> FALSE, stop |-> FALSE, ending |-> FALSE]
<1> DEFINE locals == [inside_metadata |-> FALSE, recognized_berry |-> FALSE]
           whole == [inside_metadata |-> FALSE, recognized_berry |-> FALSE,
                     emit |-> {}, tried |-> FALSE, counted |-> FALSE, stop |-> FALSE, ending |-> FALSE]
<1>1. DOMAIN locals = {"inside_metadata", "recognized_berry"}
    OBVIOUS
<1>2. DOMAIN Said = {"emit", "tried", "counted", "stop", "ending"}
    BY DEF Said
<1>3. whole = [v \in DOMAIN locals \cup DOMAIN Said |-> whole[v]]
    BY <1>1, <1>2
<1>4. \A v \in DOMAIN locals \cup DOMAIN Said : whole[v] = IF v \in DOMAIN locals THEN locals[v] ELSE Said[v]
    <2>1. /\ whole["inside_metadata"] = locals["inside_metadata"]
          /\ whole["recognized_berry"] = locals["recognized_berry"]
          /\ whole["emit"] = Said["emit"] /\ whole["tried"] = Said["tried"] /\ whole["counted"] = Said["counted"]
          /\ whole["stop"] = Said["stop"] /\ whole["ending"] = Said["ending"]
        BY DEF Said
    <2> HIDE DEF locals, whole
    <2> QED BY <1>1, <1>2, <2>1
<1>5. BerryStart = [v \in DOMAIN locals \cup DOMAIN Said |-> IF v \in DOMAIN locals THEN locals[v] ELSE Said[v]]
    BY DEF BerryStart, With
<1> HIDE DEF locals, whole
<1>6. BerryStart = whole
    BY <1>3, <1>4, <1>5
<1> QED BY <1>6 DEF whole

\* Berry: which entry the line is in, of which only the metadata matters.
BerryFits(read, s) ==
    LET top == LastBefore(read, Len(read) + 1, {"key"})
    IN /\ s \in [inside_metadata : BOOLEAN, recognized_berry : BOOLEAN, emit : {{}}, tried : {FALSE},
                 counted : BOOLEAN, stop : {FALSE}, ending : {FALSE}]
       /\ s.inside_metadata <=> top # 0 /\ read[top][2] = "__metadata"

LEMMA BerryStartFits == BerryFits(<<>>, BerryStart) /\ BerryLocked(<<>>) = {}
<1>1. LastBefore(<<>>, Len(<<>>) + 1, {"key"}) = 0
    BY DEF LastBefore
<1>2. BerryStart = [inside_metadata |-> FALSE, recognized_berry |-> FALSE, emit |-> {}, tried |-> FALSE,
                    counted |-> FALSE, stop |-> FALSE, ending |-> FALSE]
    BY BerryStartIs
<1>3. BerryLocked(<<>>) = {}
    BY DEF BerryLocked
<1> QED BY <1>1, <1>2, <1>3 DEF BerryFits

\* What one more line adds to the locked packages.
BerrySays(read, x) ==
    LET top == LastBefore(read, Len(read) + 1, {"key"})
    IN IF x[1] = "resolution" /\ x[2] # "workspace" /\ (top = 0 \/ read[top][2] # "__metadata")
       THEN {[locator |-> x[2]]} ELSE {}

LEMMA BerryGrows ==
    ASSUME NEW read \in Seq(BerryLines), NEW x \in BerryLines, NEW after, after = Append(read, x)
    PROVE  BerryLocked(after) = BerryLocked(read) \cup BerrySays(read, x)
<1> DEFINE n == Len(read)
           top == LastBefore(read, n + 1, {"key"})
           Top(given, j) == LastBefore(given, j, {"key"})
           Locks(given, j) == /\ given[j][1] = "resolution" /\ given[j][2] # "workspace"
                              /\ Top(given, j) = 0 \/ given[Top(given, j)][2] # "__metadata"
<1>1. Len(after) = n + 1 /\ n \in Nat /\ after[n + 1] = x /\ \A j \in 1 .. n : after[j] = read[j]
    BY AppendIs
<1>2. \A j \in 1 .. n + 1 : /\ Top(after, j) = Top(read, j) /\ Top(read, j) \in 0 .. j - 1
    BY LastBeforeGrows, LastBeforeIn
<1>3. \A j \in 1 .. n : Locks(after, j) <=> Locks(read, j)
    BY <1>1, <1>2
<1>4. Locks(after, n + 1) <=> x[1] = "resolution" /\ x[2] # "workspace" /\ (top = 0 \/ read[top][2] # "__metadata")
    BY <1>1, <1>2
<1>5. /\ BerryLocked(read) = {[locator |-> read[k][2]] : k \in {j \in 1 .. n : Locks(read, j)}}
      /\ BerryLocked(after) = {[locator |-> after[k][2]] : k \in {j \in 1 .. n + 1 : Locks(after, j)}}
    BY <1>1 DEF BerryLocked
<1>7. BerrySays(read, x) = IF Locks(after, n + 1) THEN {[locator |-> x[2]]} ELSE {}
    BY <1>4 DEF BerrySays
<1> HIDE DEF Locks, n
<1>6. 1 .. n + 1 = (1 .. n) \cup {n + 1}
    BY <1>1
<1> QED BY <1>1, <1>3, <1>5, <1>6, <1>7

LEMMA BerryLineFits ==
    ASSUME NEW read \in Seq(BerryLines), NEW x \in BerryLines, NEW s, BerryFits(read, s),
           NEW t, t = BerryLine(s, x), NEW after, after = Append(read, x)
    PROVE  Accounts(BerryLocked(read), BerryLocked(after), s, t) /\ BerryFits(after, Silent(t))
<1> DEFINE top == LastBefore(read, Len(read) + 1, {"key"})
           now == LastBefore(after, Len(after) + 1, {"key"})
<1>1. now = IF x[1] = "key" THEN Len(read) + 1 ELSE top
    <2>1. Len(after) + 1 = Len(read) + 2
        BY AppendIs
    <2> DEFINE kinds == {"key"}
    <2> HIDE DEF kinds
    <2>2. LastBefore(after, Len(read) + 2, kinds) =
              IF x[1] \in kinds THEN Len(read) + 1 ELSE LastBefore(read, Len(read) + 1, kinds)
        BY LastBeforeNext
    <2> QED BY <2>1, <2>2 DEF kinds
<1>2. top \in 0 .. Len(read) /\ after[Len(read) + 1] = x /\ \A j \in 1 .. Len(read) : after[j] = read[j]
    BY AppendIs, LastBeforeIn
<1>3. BerryLocked(after) = BerryLocked(read) \cup
          (IF x[1] = "resolution" /\ x[2] # "workspace" /\ ~s.inside_metadata THEN {[locator |-> x[2]]} ELSE {})
    <2>1. BerryLocked(after) = BerryLocked(read) \cup BerrySays(read, x)
        BY BerryGrows
    <2>2. s.inside_metadata <=> top # 0 /\ read[top][2] = "__metadata"
        BY DEF BerryFits
    <2>3. BerrySays(read, x) =
              IF x[1] = "resolution" /\ x[2] # "workspace" /\ ~s.inside_metadata THEN {[locator |-> x[2]]} ELSE {}
        BY <2>2 DEF BerrySays
    <2> QED BY <2>1, <2>3
<1>4. now # 0 /\ after[now][2] = "__metadata" <=> IF x[1] = "key" THEN x[2] = "__metadata" ELSE s.inside_metadata
    BY <1>1, <1>2 DEF BerryFits
<1>5. s \in [inside_metadata : BOOLEAN, recognized_berry : BOOLEAN, emit : {{}}, tried : {FALSE},
             counted : BOOLEAN, stop : {FALSE}, ending : {FALSE}]
    BY DEF BerryFits
<1> HIDE DEF top, now
<1>6. CASE x[1] = "key"
    BY <1>3, <1>4, <1>5, <1>6 DEF BerryLine, Accounts, Reports, Says, BerryFits, Silent, now
<1>7. CASE x[1] = "resolution" /\ ~s.inside_metadata
    BY <1>3, <1>4, <1>5, <1>7 DEF BerryLine, BerryLines, Accounts, Reports, Says, BerryFits, Silent, Emit, Count, now
<1>8. CASE x[1] # "key" /\ ~(x[1] = "resolution" /\ ~s.inside_metadata)
    BY <1>3, <1>4, <1>5, <1>8 DEF BerryLine, Accounts, Reports, Says, BerryFits, Silent, now
<1> QED BY <1>6, <1>7, <1>8

LEMMA BerryEndFits ==
    ASSUME NEW read, NEW s, BerryFits(read, s), NEW t, t = BerryEnd(s)
    PROVE  Accounts(BerryLocked(read), BerryLocked(read), s, t) /\ ~t.ending
<1>1. s \in [inside_metadata : BOOLEAN, recognized_berry : BOOLEAN, emit : {{}}, tried : {FALSE},
             counted : BOOLEAN, stop : {FALSE}, ending : {FALSE}]
    BY DEF BerryFits
<1>2. CASE s.recognized_berry
    BY <1>1, <1>2 DEF BerryEnd, Accounts, Reports, Says
<1>3. CASE ~s.recognized_berry
    BY <1>1, <1>3 DEF BerryEnd, Accounts, Reports, Says, Count
<1> QED BY <1>2, <1>3

------------------------------------------------------------------------------
(* yarn.lock, Classic. *)

LEMMA ClassicStartIs ==
    ClassicStart = [pending_name |-> "",
                emit |-> {}, tried |-> FALSE, counted |-> FALSE, stop |-> FALSE, ending |-> FALSE]
<1> DEFINE locals == [pending_name |-> ""]
           whole == [pending_name |-> "",
                     emit |-> {}, tried |-> FALSE, counted |-> FALSE, stop |-> FALSE, ending |-> FALSE]
<1>1. DOMAIN locals = {"pending_name"}
    OBVIOUS
<1>2. DOMAIN Said = {"emit", "tried", "counted", "stop", "ending"}
    BY DEF Said
<1>3. whole = [v \in DOMAIN locals \cup DOMAIN Said |-> whole[v]]
    BY <1>1, <1>2
<1>4. \A v \in DOMAIN locals \cup DOMAIN Said : whole[v] = IF v \in DOMAIN locals THEN locals[v] ELSE Said[v]
    <2>1. /\ whole["pending_name"] = locals["pending_name"]
          /\ whole["emit"] = Said["emit"] /\ whole["tried"] = Said["tried"] /\ whole["counted"] = Said["counted"]
          /\ whole["stop"] = Said["stop"] /\ whole["ending"] = Said["ending"]
        BY DEF Said
    <2> HIDE DEF locals, whole
    <2> QED BY <1>1, <1>2, <2>1
<1>5. ClassicStart = [v \in DOMAIN locals \cup DOMAIN Said |-> IF v \in DOMAIN locals THEN locals[v] ELSE Said[v]]
    BY DEF ClassicStart, With
<1> HIDE DEF locals, whole
<1>6. ClassicStart = whole
    BY <1>3, <1>4, <1>5
<1> QED BY <1>6 DEF whole

ClassicKinds == {"key", "garbled", "version"}
ClassicKeys(read) == {j \in 1 .. Len(read) : read[j][1] = "key"}
ClassicPackage(read, k) ==
    [name |-> read[k][2], version |-> KeyValue(read, k, {"key", "garbled"}, "version")]

\* A key whose version or successor has been read.
ClassicSettled(read) == {ClassicPackage(read, k) : k \in Closed(read, ClassicKeys(read), ClassicKinds)}

LEMMA ClassicLockedIs == ASSUME NEW read PROVE ClassicLocked(read) = {ClassicPackage(read, k) : k \in ClassicKeys(read)}
BY DEF ClassicLocked, ClassicPackage, ClassicKeys, KeyValue

\* The name that is pending is that of the last key, unless its version was read.
ClassicFits(read, s) ==
    LET c == LastBefore(read, Len(read) + 1, ClassicKinds)
    IN /\ s \in [pending_name : {"", "a", "b"}, emit : {{}}, tried : {FALSE}, counted : BOOLEAN,
                 stop : {FALSE}, ending : {FALSE}]
       /\ s.pending_name = IF c \in ClassicKeys(read) THEN read[c][2] ELSE ""

LEMMA ClassicStartFits == ClassicFits(<<>>, ClassicStart) /\ ClassicLocked(<<>>) = {}
<1>1. ClassicKeys(<<>>) = {}
    BY DEF ClassicKeys
<1>2. ClassicLocked(<<>>) = {}
    BY <1>1, ClassicLockedIs
<1> QED BY <1>1, <1>2, ClassicStartIs DEF ClassicFits

LEMMA ClassicKeysGrow ==
    ASSUME NEW read \in Seq(ClassicLines), NEW x \in ClassicLines
    PROVE  /\ ClassicKeys(Append(read, x)) = IF x[1] = "key" THEN ClassicKeys(read) \cup {Len(read) + 1}
                                                             ELSE ClassicKeys(read)
           /\ ClassicKeys(read) \in SUBSET (1 .. Len(read)) /\ \A k \in ClassicKeys(read) : read[k][1] \in ClassicKinds
<1> DEFINE n == Len(read)
           after == Append(read, x)
<1>1. Len(after) = n + 1 /\ n \in Nat /\ after[n + 1] = x /\ \A j \in 1 .. n : after[j] = read[j]
    BY AppendIs
<1>2. 1 .. n + 1 = (1 .. n) \cup {n + 1}
    BY <1>1
<1> HIDE DEF n, after
<1>3. ClassicKeys(after) = {j \in (1 .. n) \cup {n + 1} : after[j][1] = "key"} /\ ClassicKeys(read) = {j \in 1 .. n : read[j][1] = "key"}
    BY <1>1, <1>2 DEF ClassicKeys, n
<1>4. ClassicKeys(after) = IF x[1] = "key" THEN ClassicKeys(read) \cup {n + 1} ELSE ClassicKeys(read)
    BY <1>1, <1>3
<1>5. ClassicKeys(read) \in SUBSET (1 .. n) /\ \A k \in ClassicKeys(read) : read[k][1] \in ClassicKinds
    BY <1>3 DEF ClassicKinds
<1> QED BY <1>4, <1>5 DEF n, after

\* What a closed key stands for stays.
LEMMA ClassicPackageStays ==
    ASSUME NEW read \in Seq(ClassicLines), NEW x \in ClassicLines, NEW k \in Closed(read, ClassicKeys(read), ClassicKinds)
    PROVE  ClassicPackage(Append(read, x), k) = ClassicPackage(read, k)
<1> DEFINE after == Append(read, x)
<1>1. k \in 1 .. Len(read) /\ after[k] = read[k]
    BY AppendIs DEF Closed, ClassicKeys
<1>2. ClassicKinds = {"key", "garbled"} \cup {"version"}
    BY DEF ClassicKinds
<1>3. ~Open(read, k, {"key", "garbled"} \cup {"version"})
    BY <1>2 DEF Closed
<1>4. KeyValue(after, k, {"key", "garbled"}, "version") = KeyValue(read, k, {"key", "garbled"}, "version")
    BY <1>1, <1>3, KeyValueStays
<1> HIDE DEF after
<1>5. ClassicPackage(after, k) = ClassicPackage(read, k)
    BY <1>1, <1>4 DEF ClassicPackage
<1> QED BY <1>5 DEF after

\* What the key that is pending comes to with the line that closes it.
LEMMA ClassicPackageNow ==
    ASSUME NEW read \in Seq(ClassicLines), NEW x \in ClassicLines, x[1] \in ClassicKinds,
           NEW k \in ClassicKeys(read), Open(read, k, ClassicKinds)
    PROVE  ClassicPackage(Append(read, x), k) = [name |-> read[k][2], version |-> IF x[1] = "version" THEN x[2] ELSE ""]
<1> DEFINE after == Append(read, x)
           ends == {"key", "garbled"}
<1>1. k \in 1 .. Len(read) /\ after[k] = read[k]
    BY AppendIs DEF ClassicKeys
<1>2. ClassicKinds = ends \cup {"version"} /\ "version" \notin ends
    BY DEF ClassicKinds
<1> HIDE DEF ends
<1>5. Open(read, k, ends \cup {"version"}) /\ x[1] \in ends \cup {"version"}
    BY <1>2
<1>3. KeyValue(after, k, ends, "version") = IF x[1] = "version" THEN x[2] ELSE ""
    <2>1. k \in 1 .. Len(read) /\ "version" \notin ends
        BY <1>1, <1>2
    <2>2. PICK kind : kind = "version"
        OBVIOUS
    <2>3. kind \notin ends /\ Open(read, k, ends \cup {kind}) /\ x[1] \in ends \cup {kind} /\ k \in 1 .. Len(read)
        BY <1>5, <2>1, <2>2
    <2> USE DEF after
    <2>4. KeyValue(after, k, ends, kind) = IF x[1] = kind THEN x[2] ELSE ""
        BY <2>3, KeyValueNow, ZenonT(60)
    <2> QED BY <2>2, <2>4
<1> HIDE DEF after
<1>4. ClassicPackage(after, k) = [name |-> read[k][2], version |-> IF x[1] = "version" THEN x[2] ELSE ""]
    BY <1>1, <1>3 DEF ClassicPackage, ends
<1> QED BY <1>4 DEF after

LEMMA ClassicKeyIs == ASSUME NEW x \in ClassicLines, x[1] = "key" PROVE x[2] \in {"a", "b"}
<1>1. \/ x = <<"key", "a">> \/ x = <<"key", "b">> \/ x = <<"garbled", "">>
      \/ x = <<"version", "1">> \/ x = <<"version", "">> \/ x = <<"edge", "2">>
    BY Zenon DEF ClassicLines
<1>2. CASE x = <<"key", "a">> \/ x = <<"key", "b">>
    BY <1>2
<1>3. CASE x = <<"garbled", "">>
    BY <1>3
<1>4. CASE x = <<"version", "1">>
    BY <1>4
<1>5. CASE x = <<"version", "">>
    BY <1>5
<1>6. CASE x = <<"edge", "2">>
    BY <1>6
<1> QED BY <1>1, <1>2, <1>3, <1>4, <1>5, <1>6

\* What a line settles: the name that is pending, with the version if it is that.
ClassicSettles(s, x) ==
    IF x[1] \in ClassicKinds /\ s.pending_name # ""
    THEN {[name |-> s.pending_name, version |-> IF x[1] = "version" THEN x[2] ELSE ""]} ELSE {}

LEMMA ClassicSettledGrows ==
    ASSUME NEW read \in Seq(ClassicLines), NEW x \in ClassicLines, NEW s, ClassicFits(read, s)
    PROVE  ClassicSettled(Append(read, x)) = ClassicSettled(read) \cup ClassicSettles(s, x)
<1> DEFINE after == Append(read, x)
           keys == ClassicKeys(read)
           more == ClassicKeys(after)
           closed == Closed(read, keys, ClassicKinds)
           just == JustClosed(read, x, keys, ClassicKinds)
           c == LastBefore(read, Len(read) + 1, ClassicKinds)
<1>1. /\ more \in {keys, keys \cup {Len(read) + 1}}
      /\ keys \in SUBSET (1 .. Len(read)) /\ \A k \in keys : read[k][1] \in ClassicKinds
    BY ClassicKeysGrow
<1>2. Closed(after, more, ClassicKinds) = closed \cup just
    <2>1. Closed(after, more, ClassicKinds) = NowClosed(read, x, keys, ClassicKinds)
        BY ONLY <1>1, ClosedGrows
    <2> QED BY <2>1 DEF NowClosed
<1>3. ASSUME NEW k \in closed PROVE ClassicPackage(after, k) = ClassicPackage(read, k)
    BY <1>3, ClassicPackageStays
<1>4. just = IF x[1] \in ClassicKinds THEN {c} \cap keys ELSE {}
    BY DEF JustClosed
<1>5. c \in keys <=> s.pending_name # ""
    <2>1. ASSUME c \in keys PROVE read[c][2] \in {"a", "b"}
        <3>1. c \in 1 .. Len(read) /\ read[c][1] = "key"
            BY <2>1 DEF ClassicKeys
        <3>2. read[c] \in ClassicLines
            BY <3>1
        <3> HIDE DEF c
        <3> QED BY <3>1, <3>2, ClassicKeyIs
    <2> QED BY <2>1 DEF ClassicFits
<1>6. ASSUME c \in keys, x[1] \in ClassicKinds
      PROVE  ClassicPackage(after, c) = [name |-> s.pending_name, version |-> IF x[1] = "version" THEN x[2] ELSE ""]
    <2>1. Open(read, c, ClassicKinds)
        <3>1. c \in 1 .. Len(read) /\ read[c][1] \in ClassicKinds
            BY <1>1, <1>6
        <3> QED BY <3>1, LastIsOpen
    <2>2. s.pending_name = read[c][2]
        BY <1>6 DEF ClassicFits
    <2>3. ClassicPackage(after, c) = [name |-> read[c][2], version |-> IF x[1] = "version" THEN x[2] ELSE ""]
        <3> HIDE DEF c
        <3> QED BY <1>6, <2>1, ClassicPackageNow
    <2> QED BY <2>2, <2>3
<1> HIDE DEF after, keys, more, closed, just, c
<1>7. ClassicSettled(after) = {ClassicPackage(after, k) : k \in closed \cup just}
    BY <1>2 DEF ClassicSettled, more
<1>8. ClassicSettled(read) = {ClassicPackage(read, k) : k \in closed}
    BY DEF ClassicSettled, closed, keys
<1>9. {ClassicPackage(after, k) : k \in just} = ClassicSettles(s, x)
    BY <1>4, <1>5, <1>6 DEF ClassicSettles
<1>10. ClassicSettled(after) = ClassicSettled(read) \cup ClassicSettles(s, x)
    BY <1>3, <1>7, <1>8, <1>9
<1> QED BY <1>10 DEF after

LEMMA ClassicLineFits ==
    ASSUME NEW read \in Seq(ClassicLines), NEW x \in ClassicLines, NEW s, ClassicFits(read, s),
           NEW t, t = ClassicLine(s, x), NEW after, after = Append(read, x)
    PROVE  Accounts(ClassicSettled(read), ClassicSettled(after), s, t) /\ ClassicFits(after, Silent(t))
<1> DEFINE n == Len(read)
           c == LastBefore(read, n + 1, ClassicKinds)
           now == LastBefore(after, Len(after) + 1, ClassicKinds)
<1>0. Len(after) = n + 1 /\ n \in Nat /\ after[n + 1] = x /\ \A j \in 1 .. n : after[j] = read[j]
    BY AppendIs
<1>1. now = IF x[1] \in ClassicKinds THEN n + 1 ELSE c
    <2>1. Len(after) + 1 = n + 2
        BY <1>0
    <2>2. LastBefore(after, n + 2, ClassicKinds) = IF x[1] \in ClassicKinds THEN n + 1 ELSE c
        BY LastBeforeNext
    <2> QED BY <2>1, <2>2
<1>2. s \in [pending_name : {"", "a", "b"}, emit : {{}}, tried : {FALSE}, counted : BOOLEAN,
             stop : {FALSE}, ending : {FALSE}]
    BY DEF ClassicFits
<1>3. ClassicSettled(after) = ClassicSettled(read) \cup ClassicSettles(s, x)
    BY ClassicSettledGrows
<1>4. x[1] = "key" => x[2] \in {"a", "b"}
    BY ClassicKeyIs
<1>5. /\ ClassicKeys(after) = IF x[1] = "key" THEN ClassicKeys(read) \cup {n + 1} ELSE ClassicKeys(read)
      /\ ClassicKeys(read) \in SUBSET (1 .. n)
    BY ClassicKeysGrow
<1>6. (IF now \in ClassicKeys(after) THEN after[now][2] ELSE "") =
          IF x[1] = "key" THEN x[2] ELSE IF x[1] \in ClassicKinds THEN "" ELSE s.pending_name
    <2>1. s.pending_name = IF c \in ClassicKeys(read) THEN read[c][2] ELSE ""
        BY DEF ClassicFits
    <2>2. n + 1 \notin ClassicKeys(read) /\ (c \in ClassicKeys(read) => c # n + 1 /\ after[c] = read[c])
        BY <1>0, <1>5
    <2> HIDE DEF n, c, now
    <2>3. CASE x[1] = "key"
        BY <2>3, <1>0, <1>1, <1>5 DEF ClassicKinds
    <2>4. CASE x[1] # "key" /\ x[1] \in ClassicKinds
        BY <2>4, <1>1, <1>5, <2>2
    <2>5. CASE x[1] \notin ClassicKinds
        BY <2>5, <1>1, <1>5, <2>1, <2>2 DEF ClassicKinds
    <2> QED BY <2>3, <2>4, <2>5 DEF ClassicKinds
<1> HIDE DEF n, c, now
<1>7. CASE x[1] = "key"
    BY <1>2, <1>3, <1>4, <1>6, <1>7 DEF ClassicLine, Accounts, Reports, Says, ClassicFits, Silent, Count, now, ClassicSettles, ClassicKinds
<1>8. CASE x[1] = "garbled"
    BY <1>2, <1>3, <1>6, <1>8 DEF ClassicLine, Accounts, Reports, Says, ClassicFits, Silent, Count, now, ClassicSettles, ClassicKinds
<1>9. CASE x[1] = "version" /\ s.pending_name # ""
    BY <1>2, <1>3, <1>6, <1>9 DEF ClassicLine, Accounts, Reports, Says, ClassicFits, Silent, Count, Emit, now, ClassicSettles, ClassicKinds
<1>10. CASE x[1] \notin {"key", "garbled"} /\ ~(x[1] = "version" /\ s.pending_name # "")
    BY <1>2, <1>3, <1>6, <1>10 DEF ClassicLine, Accounts, Reports, Says, ClassicFits, Silent, now, ClassicSettles, ClassicKinds
<1> QED BY <1>7, <1>8, <1>9, <1>10

LEMMA ClassicEndFits ==
    ASSUME NEW read \in Seq(ClassicLines), NEW s, ClassicFits(read, s), NEW t, t = ClassicEnd(s)
    PROVE  Accounts(ClassicSettled(read), ClassicLocked(read), s, t) /\ ~t.ending
<1> DEFINE keys == ClassicKeys(read)
           closed == Closed(read, keys, ClassicKinds)
           c == LastBefore(read, Len(read) + 1, ClassicKinds)
<1>1. keys \in SUBSET (1 .. Len(read)) /\ \A k \in keys : read[k][1] \in ClassicKinds
    BY DEF ClassicKeys, ClassicKinds
<1>2. keys = closed \cup ({c} \cap keys)
    BY ONLY <1>1, AllButLast
<1>3. ASSUME c \in keys PROVE s.pending_name # ""
    <2>1. s.pending_name = read[c][2]
        BY <1>3 DEF ClassicFits
    <2>2. read[c] \in ClassicLines /\ read[c][1] = "key"
        BY <1>3 DEF ClassicKeys
    <2> HIDE DEF c
    <2> QED BY <2>1, <2>2, ClassicKeyIs
<1> HIDE DEF keys, closed, c
<1>4. /\ ClassicLocked(read) = {ClassicPackage(read, k) : k \in keys}
      /\ ClassicSettled(read) = {ClassicPackage(read, k) : k \in closed}
    BY ClassicLockedIs DEF ClassicSettled, closed, keys
<1>5. ClassicSettled(read) \subseteq ClassicLocked(read) /\ (c \notin keys => ClassicLocked(read) = ClassicSettled(read))
    BY <1>2, <1>4
<1>6. s \in [pending_name : {"", "a", "b"}, emit : {{}}, tried : {FALSE}, counted : BOOLEAN,
             stop : {FALSE}, ending : {FALSE}]
    BY DEF ClassicFits
<1>7. CASE s.pending_name # ""
    BY <1>5, <1>6, <1>7 DEF ClassicEnd, Accounts, Reports, Says, Count
<1>8. CASE s.pending_name = ""
    BY <1>3, <1>5, <1>6, <1>8 DEF ClassicEnd, Accounts, Reports, Says
<1> QED BY <1>7, <1>8

------------------------------------------------------------------------------
(* pubspec.lock. *)

LEMMA PubStartIs ==
    PubStart = [pending |-> NoEntry, inside_packages |-> FALSE,
                emit |-> {}, tried |-> FALSE, counted |-> FALSE, stop |-> FALSE, ending |-> FALSE]
<1> DEFINE locals == [pending |-> NoEntry, inside_packages |-> FALSE]
           whole == [pending |-> NoEntry, inside_packages |-> FALSE,
                     emit |-> {}, tried |-> FALSE, counted |-> FALSE, stop |-> FALSE, ending |-> FALSE]
<1>1. DOMAIN locals = {"pending", "inside_packages"}
    OBVIOUS
<1>2. DOMAIN Said = {"emit", "tried", "counted", "stop", "ending"}
    BY DEF Said
<1>3. whole = [v \in DOMAIN locals \cup DOMAIN Said |-> whole[v]]
    BY <1>1, <1>2
<1>4. \A v \in DOMAIN locals \cup DOMAIN Said : whole[v] = IF v \in DOMAIN locals THEN locals[v] ELSE Said[v]
    <2>1. /\ whole["pending"] = locals["pending"]
          /\ whole["inside_packages"] = locals["inside_packages"]
          /\ whole["emit"] = Said["emit"] /\ whole["tried"] = Said["tried"] /\ whole["counted"] = Said["counted"]
          /\ whole["stop"] = Said["stop"] /\ whole["ending"] = Said["ending"]
        BY DEF Said
    <2> HIDE DEF locals, whole
    <2> QED BY <1>1, <1>2, <2>1
<1>5. PubStart = [v \in DOMAIN locals \cup DOMAIN Said |-> IF v \in DOMAIN locals THEN locals[v] ELSE Said[v]]
    BY DEF PubStart, With
<1> HIDE DEF locals, whole
<1>6. PubStart = whole
    BY <1>3, <1>4, <1>5
<1> QED BY <1>6 DEF whole

PubKinds == {"section", "key", "unreadable key"}
PubKeys(read) ==
    {k \in 1 .. Len(read) :
        LET top == LastBefore(read, k, {"section"})
        IN read[k][1] = "key" /\ top # 0 /\ read[top][2] = "packages"}
PubEntry(read, k) ==
    [name |-> read[k][2], version |-> LastValue(read, BlockOf(read, k, PubKinds), "version"),
     source |-> LastValue(read, BlockOf(read, k, PubKinds), "source"), active |-> TRUE]
PubPackage(entry) == [name |-> entry.name, version |-> entry.version]

\* The packages of some keys: not those of a path.
PubPackages(read, keys) == {PubPackage(PubEntry(read, k)) : k \in {j \in keys : PubEntry(read, j).source # "path"}}

\* A key whose successor or next section has been read.
PubSettled(read) == PubPackages(read, Closed(read, PubKeys(read), PubKinds))

LEMMA PubLockedIs == ASSUME NEW read PROVE PubLocked(read) = PubPackages(read, PubKeys(read))
<1> DEFINE Source(k) == LastValue(read, BlockOf(read, k, PubKinds), "source")
           Version(k) == LastValue(read, BlockOf(read, k, PubKinds), "version")
<1>1. PubLocked(read) = {[name |-> read[k][2], version |-> Version(k)] : k \in {j \in PubKeys(read) : Source(j) # "path"}}
    BY DEF PubLocked, PubKeys, PubKinds
<1>2. \A k : PubEntry(read, k).source = Source(k) /\ PubPackage(PubEntry(read, k)) = [name |-> read[k][2], version |-> Version(k)]
    BY DEF PubEntry, PubPackage
<1> HIDE DEF Source, Version
<1> QED BY <1>1, <1>2 DEF PubPackages

\* The pending entry is what has been read of the last key of the packages.
PubValues == {"", "a", "b", "hosted", "path", "1", "packages", "sdks"}
PubShape == [pending : [name : PubValues, version : PubValues, source : PubValues, active : BOOLEAN],
             inside_packages : BOOLEAN, emit : {{}}, tried : {FALSE}, counted : BOOLEAN,
             stop : {FALSE}, ending : {FALSE}]
PubFits(read, s) ==
    LET top == LastBefore(read, Len(read) + 1, {"section"})
        c == LastBefore(read, Len(read) + 1, PubKinds)
    IN /\ s \in PubShape
       /\ s.inside_packages <=> top # 0 /\ read[top][2] = "packages"
       /\ s.pending.active => s.inside_packages
       /\ s.pending.active <=> c \in PubKeys(read)
       /\ s.pending = IF c \in PubKeys(read) THEN PubEntry(read, c) ELSE NoEntry

LEMMA PubStartFits == PubFits(<<>>, PubStart) /\ PubLocked(<<>>) = {}
<1>1. PubKeys(<<>>) = {}
    BY DEF PubKeys
<1>2. PubLocked(<<>>) = {}
    BY <1>1, PubLockedIs DEF PubPackages
<1>3. LastBefore(<<>>, Len(<<>>) + 1, {"section"}) = 0
    BY DEF LastBefore
<1>4. NoEntry \in [name : PubValues, version : PubValues, source : PubValues, active : BOOLEAN] /\ ~NoEntry.active
    BY DEF NoEntry, PubValues
<1>5. PubStart \in PubShape /\ PubStart.pending = NoEntry /\ PubStart.inside_packages = FALSE
    BY <1>4, PubStartIs DEF PubShape
<1> QED BY <1>1, <1>2, <1>3, <1>4, <1>5 DEF PubFits

LEMMA PubLineIs ==
    ASSUME ~UnreadableKeys, NEW x \in PubLines
    PROVE  x[1] \in {"section", "key", "source", "version"} /\ x[2] \in PubValues /\ x[2] # ""
<1>1. \/ x = <<"section", "packages">> \/ x = <<"section", "sdks">> \/ x = <<"key", "a">> \/ x = <<"key", "b">>
      \/ x = <<"source", "hosted">> \/ x = <<"source", "path">> \/ x = <<"version", "1">>
    BY Zenon DEF PubLines, UnreadableKey
<1> USE DEF PubValues
<1>2. CASE x = <<"section", "packages">>
    BY <1>2
<1>3. CASE x = <<"section", "sdks">>
    BY <1>3
<1>4. CASE x = <<"key", "a">>
    BY <1>4
<1>5. CASE x = <<"key", "b">>
    BY <1>5
<1>6. CASE x = <<"source", "hosted">>
    BY <1>6
<1>7. CASE x = <<"source", "path">>
    BY <1>7
<1>8. CASE x = <<"version", "1">>
    BY <1>8
<1> QED BY <1>1, <1>2, <1>3, <1>4, <1>5, <1>6, <1>7, <1>8

PubMore(read, x, inside) ==
    IF x[1] = "key" /\ inside THEN PubKeys(read) \cup {Len(read) + 1} ELSE PubKeys(read)

LEMMA PubKeysGrow ==
    ASSUME NEW read \in Seq(PubLines), NEW x \in PubLines,
           NEW inside, inside <=> LET top == LastBefore(read, Len(read) + 1, {"section"})
                                  IN top # 0 /\ read[top][2] = "packages"
    PROVE  PubKeys(Append(read, x)) = PubMore(read, x, inside)
<1> DEFINE n == Len(read)
           after == Append(read, x)
           Top(given, j) == LastBefore(given, j, {"section"})
           Key(given, j) == given[j][1] = "key" /\ Top(given, j) # 0 /\ given[Top(given, j)][2] = "packages"
<1>1. Len(after) = n + 1 /\ n \in Nat /\ after[n + 1] = x /\ \A j \in 1 .. n : after[j] = read[j]
    BY AppendIs
<1>2. \A j \in 1 .. n + 1 : /\ Top(after, j) = Top(read, j) /\ Top(read, j) \in 0 .. j - 1
    BY LastBeforeGrows, LastBeforeIn
<1>3. \A j \in 1 .. n : Key(after, j) <=> Key(read, j)
    BY <1>1, <1>2
<1>4. Key(after, n + 1) <=> x[1] = "key" /\ inside
    BY <1>1, <1>2
<1>5. 1 .. n + 1 = (1 .. n) \cup {n + 1}
    BY <1>1
<1>6. PubKeys(after) = {j \in 1 .. n + 1 : Key(after, j)} /\ PubKeys(read) = {j \in 1 .. n : Key(read, j)}
    BY <1>1 DEF PubKeys
<1> HIDE DEF n, after, Key
<1>7. PubKeys(after) = IF x[1] = "key" /\ inside THEN PubKeys(read) \cup {n + 1} ELSE PubKeys(read)
    BY <1>3, <1>4, <1>5, <1>6
<1> QED BY <1>7 DEF PubMore, n, after

LEMMA PubKeysAre ==
    ASSUME NEW read
    PROVE  PubKeys(read) \in SUBSET (1 .. Len(read)) /\ \A k \in PubKeys(read) : read[k][1] \in PubKinds
BY DEF PubKeys, PubKinds

\* What has been read of a key stays when it is closed, by this line or one before.
LEMMA PubEntryStays ==
    ASSUME NEW read \in Seq(PubLines), NEW x \in PubLines, NEW k \in PubKeys(read),
           ~Open(read, k, PubKinds) \/ x[1] \in PubKinds
    PROVE  PubEntry(Append(read, x), k) = PubEntry(read, k)
<1> DEFINE n == Len(read)
           after == Append(read, x)
           block == BlockOf(read, k, PubKinds)
<1>1. k \in 1 .. Len(read) /\ n \in Nat /\ after[k] = read[k]
    BY AppendIs DEF PubKeys
<1>2. /\ block \subseteq k + 1 .. n
      /\ Open(read, k, PubKinds) => block = k + 1 .. n
      /\ Open(after, k, PubKinds) <=> Open(read, k, PubKinds) /\ x[1] \notin PubKinds
      /\ Open(after, k, PubKinds) => BlockOf(after, k, PubKinds) = block \cup {n + 1}
      /\ ~Open(after, k, PubKinds) => BlockOf(after, k, PubKinds) = block
    <2>1. k \in 1 .. Len(read)
        BY <1>1
    <2> QED BY ONLY <2>1, BlockGrows
<1>3. block \in SUBSET (1 .. Len(read)) /\ BlockOf(after, k, PubKinds) = block
    BY <1>1, <1>2
<1>4. LastValue(after, block, "version") = LastValue(read, block, "version")
    BY <1>3, ValuesStay
<1>5. LastValue(after, block, "source") = LastValue(read, block, "source")
    BY <1>3, ValuesStay
<1> HIDE DEF block, after, n
<1>6. PubEntry(after, k) = PubEntry(read, k)
    BY <1>1, <1>3, <1>4, <1>5 DEF PubEntry, block
<1> QED BY <1>6 DEF after

\* And takes the line while it is open.
LEMMA PubEntryGrows ==
    ASSUME NEW read \in Seq(PubLines), NEW x \in PubLines, NEW k \in PubKeys(read),
           Open(read, k, PubKinds), x[1] \notin PubKinds
    PROVE  PubEntry(Append(read, x), k) =
               [name |-> read[k][2], version |-> IF x[1] = "version" THEN x[2] ELSE PubEntry(read, k).version,
                source |-> IF x[1] = "source" THEN x[2] ELSE PubEntry(read, k).source, active |-> TRUE]
<1> DEFINE n == Len(read)
           after == Append(read, x)
           block == BlockOf(read, k, PubKinds)
<1>1. k \in 1 .. Len(read) /\ n \in Nat /\ after[k] = read[k]
    BY AppendIs DEF PubKeys
<1>2. /\ block \subseteq k + 1 .. n
      /\ Open(read, k, PubKinds) => block = k + 1 .. n
      /\ Open(after, k, PubKinds) <=> Open(read, k, PubKinds) /\ x[1] \notin PubKinds
      /\ Open(after, k, PubKinds) => BlockOf(after, k, PubKinds) = block \cup {n + 1}
      /\ ~Open(after, k, PubKinds) => BlockOf(after, k, PubKinds) = block
    <2>1. k \in 1 .. Len(read)
        BY <1>1
    <2> QED BY ONLY <2>1, BlockGrows
<1>3. block \in SUBSET (1 .. Len(read)) /\ BlockOf(after, k, PubKinds) = block \cup {Len(read) + 1}
    BY <1>1, <1>2
<1>4. LastValue(after, block \cup {Len(read) + 1}, "version") = IF x[1] = "version" THEN x[2] ELSE LastValue(read, block, "version")
    BY <1>3, LastValueGrows
<1>5. LastValue(after, block \cup {Len(read) + 1}, "source") = IF x[1] = "source" THEN x[2] ELSE LastValue(read, block, "source")
    BY <1>3, LastValueGrows
<1> HIDE DEF block, after, n
<1>6. /\ LastValue(after, BlockOf(after, k, PubKinds), "version") = IF x[1] = "version" THEN x[2] ELSE PubEntry(read, k).version
      /\ LastValue(after, BlockOf(after, k, PubKinds), "source") = IF x[1] = "source" THEN x[2] ELSE PubEntry(read, k).source
    BY <1>3, <1>4, <1>5 DEF PubEntry, block
<1>7. PubEntry(after, k) =
          [name |-> read[k][2], version |-> IF x[1] = "version" THEN x[2] ELSE PubEntry(read, k).version,
           source |-> IF x[1] = "source" THEN x[2] ELSE PubEntry(read, k).source, active |-> TRUE]
    BY <1>1, <1>6 DEF PubEntry
<1> QED BY <1>7 DEF after

\* A key is nothing but its name yet.
LEMMA PubEntryBegins ==
    ASSUME NEW read \in Seq(PubLines), NEW x \in PubLines
    PROVE  PubEntry(Append(read, x), Len(read) + 1) = [name |-> x[2], version |-> "", source |-> "", active |-> TRUE]
<1> DEFINE n == Len(read)
           after == Append(read, x)
<1>1. Len(after) = n + 1 /\ n \in Nat /\ after[n + 1] = x
    BY AppendIs
<1>2. BlockOf(after, n + 1, PubKinds) = {}
    BY <1>1 DEF BlockOf
<1>3. LastValue(after, {}, "version") = "" /\ LastValue(after, {}, "source") = ""
    BY DEF LastValue
<1> HIDE DEF n, after
<1>4. PubEntry(after, n + 1) = [name |-> x[2], version |-> "", source |-> "", active |-> TRUE]
    BY <1>1, <1>2, <1>3 DEF PubEntry
<1> QED BY <1>4 DEF n, after

\* What the entry that is closed locks.
PubSettles(entry) == IF entry.active /\ entry.source # "path" THEN {PubPackage(entry)} ELSE {}

LEMMA PubLastIs ==
    ASSUME NEW read \in Seq(PubLines), NEW s, PubFits(read, s),
           NEW c, c = LastBefore(read, Len(read) + 1, PubKinds)
    PROVE  /\ s.pending.active <=> c \in PubKeys(read)
           /\ c \in PubKeys(read) => /\ s.pending = PubEntry(read, c) /\ Open(read, c, PubKinds)
                                     /\ c \in 1 .. Len(read)
           /\ c \notin PubKeys(read) => s.pending = NoEntry
<1>1. /\ s.pending.active <=> c \in PubKeys(read)
      /\ s.pending = IF c \in PubKeys(read) THEN PubEntry(read, c) ELSE NoEntry
    BY DEF PubFits
<1>2. ASSUME c \in PubKeys(read) PROVE Open(read, c, PubKinds) /\ c \in 1 .. Len(read)
    <2>1. c \in 1 .. Len(read) /\ read[c][1] \in PubKinds
        BY <1>2, PubKeysAre
    <2> QED BY <2>1, LastIsOpen
<1> QED BY <1>1, <1>2

LEMMA PubSettledGrows ==
    ASSUME NEW read \in Seq(PubLines), NEW x \in PubLines, NEW s, PubFits(read, s)
    PROVE  PubSettled(Append(read, x)) =
               PubSettled(read) \cup (IF x[1] \in PubKinds THEN PubSettles(s.pending) ELSE {})
<1> DEFINE after == Append(read, x)
           keys == PubKeys(read)
           more == PubKeys(after)
           closed == Closed(read, keys, PubKinds)
           just == JustClosed(read, x, keys, PubKinds)
           c == LastBefore(read, Len(read) + 1, PubKinds)
<1>1. /\ more \in {keys, keys \cup {Len(read) + 1}}
      /\ keys \in SUBSET (1 .. Len(read)) /\ \A k \in keys : read[k][1] \in PubKinds
    <2>1. more = PubMore(read, x, s.inside_packages)
        <3>1. s.inside_packages <=> LET top == LastBefore(read, Len(read) + 1, {"section"})
                                    IN top # 0 /\ read[top][2] = "packages"
            BY DEF PubFits
        <3> QED BY <3>1, PubKeysGrow
    <2>2. keys \in SUBSET (1 .. Len(read)) /\ \A k \in keys : read[k][1] \in PubKinds
        BY PubKeysAre
    <2> HIDE DEF keys, more
    <2> QED BY <2>1, <2>2 DEF PubMore, keys
<1>2. Closed(after, more, PubKinds) = closed \cup just
    <2>1. Closed(after, more, PubKinds) = NowClosed(read, x, keys, PubKinds)
        BY ONLY <1>1, ClosedGrows
    <2> QED BY <2>1 DEF NowClosed
<1>3. ASSUME NEW k \in closed PROVE PubEntry(after, k) = PubEntry(read, k)
    <2>1. k \in PubKeys(read) /\ ~Open(read, k, PubKinds)
        BY <1>3 DEF Closed
    <2> QED BY <2>1, PubEntryStays
<1>4. just = IF x[1] \in PubKinds THEN {c} \cap keys ELSE {}
    BY DEF JustClosed
<1>5. /\ s.pending.active <=> c \in keys
      /\ c \in keys => s.pending = PubEntry(read, c)
    BY PubLastIs
<1>6. ASSUME c \in keys, x[1] \in PubKinds PROVE PubEntry(after, c) = s.pending
    <2>1. PubEntry(after, c) = PubEntry(read, c)
        <3> HIDE DEF c
        <3> QED BY <1>6, PubEntryStays
    <2> QED BY <1>5, <1>6, <2>1
<1> HIDE DEF after, keys, more, closed, just, c
<1>7. PubSettled(after) = PubPackages(after, closed \cup just)
    BY <1>2 DEF PubSettled, more
<1>8. PubSettled(read) = PubPackages(read, closed)
    BY DEF PubSettled, closed, keys
<1>9. PubPackages(after, closed) = PubPackages(read, closed)
    BY <1>3 DEF PubPackages
<1>10. PubPackages(after, just) = IF x[1] \in PubKinds THEN PubSettles(s.pending) ELSE {}
    <2>1. CASE x[1] \in PubKinds /\ c \in keys
        <3>1. just = {c}
            BY <1>4, <2>1
        <3> QED BY <1>5, <1>6, <2>1, <3>1 DEF PubPackages, PubSettles
    <2>2. CASE ~(x[1] \in PubKinds /\ c \in keys)
        <3>1. just = {}
            BY <1>4, <2>2
        <3> QED BY <1>5, <2>2, <3>1 DEF PubPackages, PubSettles
    <2> QED BY <2>1, <2>2
<1>11. PubPackages(after, closed \cup just) = PubPackages(after, closed) \cup PubPackages(after, just)
    BY DEF PubPackages
<1>12. PubSettled(after) = PubSettled(read) \cup (IF x[1] \in PubKinds THEN PubSettles(s.pending) ELSE {})
    BY <1>7, <1>8, <1>9, <1>10, <1>11
<1> QED BY <1>12 DEF after

\* Closing an entry says or counts what it locks.
LEMMA PubCloseSays ==
    ASSUME NEW s \in PubShape, NEW t, t = PubClose(s), NEW before, NEW grown, grown = before \cup PubSettles(s.pending)
    PROVE  /\ Accounts(before, grown, s, t) /\ Silent(t) \in PubShape /\ ~t.ending /\ ~t.stop
           /\ t.pending = NoEntry /\ t.inside_packages = s.inside_packages /\ t.counted \in BOOLEAN
<1> DEFINE entry == s.pending
           closed == [s EXCEPT !.pending = NoEntry]
<1>1. NoEntry \in [name : PubValues, version : PubValues, source : PubValues, active : BOOLEAN]
    BY DEF NoEntry, PubValues
<1>2. closed \in PubShape /\ closed.pending = NoEntry /\ closed.inside_packages = s.inside_packages /\ closed.counted = s.counted
      /\ closed.emit = {} /\ closed.tried = FALSE /\ closed.stop = FALSE /\ closed.ending = FALSE
    BY <1>1 DEF PubShape
<1>3. entry.active \in BOOLEAN /\ s.counted \in BOOLEAN
    BY DEF PubShape
<1>4. t = IF ~entry.active \/ entry.source = "path" THEN closed
          ELSE IF entry.source = "" \/ entry.version = "" THEN Count(closed)
          ELSE Emit(closed, PubPackage(entry))
    BY DEF PubClose, PubPackage
<1> HIDE DEF entry, closed
<1>5. CASE ~entry.active \/ entry.source = "path"
    <2>1. t = closed /\ grown = before
        BY <1>4, <1>5 DEF PubSettles, entry
    <2>2. Silent(closed) = closed
        BY <1>2 DEF Silent, PubShape
    <2> QED BY <1>2, <2>1, <2>2 DEF Accounts, Reports, Says, PubShape
<1>6. CASE ~(~entry.active \/ entry.source = "path") /\ (entry.source = "" \/ entry.version = "")
    <2>1. t = Count(closed) /\ before \subseteq grown
        BY <1>4, <1>6
    <2>2. /\ t.pending = NoEntry /\ t.inside_packages = s.inside_packages /\ t.counted = TRUE /\ t.emit = {}
          /\ t.tried = FALSE /\ t.stop = FALSE /\ t.ending = FALSE
        BY <1>2, <2>1 DEF Count, PubShape
    <2>3. Silent(t) \in PubShape
        BY <1>2, <2>1 DEF Silent, Count, PubShape
    <2> QED BY <2>1, <2>2, <2>3 DEF Accounts, Reports, Says
<1>7. CASE ~(~entry.active \/ entry.source = "path") /\ ~(entry.source = "" \/ entry.version = "")
    <2>1. t = Emit(closed, PubPackage(entry)) /\ grown = before \cup {PubPackage(entry)}
        BY <1>4, <1>7 DEF PubSettles, entry
    <2>2. /\ t.pending = NoEntry /\ t.inside_packages = s.inside_packages /\ t.counted = s.counted /\ t.emit = {PubPackage(entry)}
          /\ t.tried = TRUE /\ t.stop = FALSE /\ t.ending = FALSE
        BY <1>2, <2>1 DEF Emit, PubShape
    <2>3. Silent(t) \in PubShape
        BY <1>2, <2>1 DEF Silent, Emit, PubShape
    <2> QED BY <1>3, <2>1, <2>2, <2>3 DEF Accounts, Reports, Says
<1> QED BY <1>5, <1>6, <1>7

\* What a line does to the two positions, and to the keys.
PubInside(read) ==
    LET top == LastBefore(read, Len(read) + 1, {"section"}) IN top # 0 /\ read[top][2] = "packages"
PubLast(read) == LastBefore(read, Len(read) + 1, PubKinds)

LEMMA PubPositions ==
    ASSUME ~UnreadableKeys, NEW read \in Seq(PubLines), NEW x \in PubLines, NEW s, PubFits(read, s),
           NEW after, after = Append(read, x)
    PROVE  /\ PubInside(after) <=> IF x[1] = "section" THEN x[2] = "packages" ELSE s.inside_packages
           /\ PubLast(after) = IF x[1] \in {"section", "key"} THEN Len(read) + 1 ELSE PubLast(read)
           /\ PubLast(after) \in PubKeys(after) <=>
                  IF x[1] \in {"section", "key"} THEN x[1] = "key" /\ s.inside_packages
                                                 ELSE PubLast(read) \in PubKeys(read)
<1> DEFINE n == Len(read)
           c == PubLast(read)
           top == LastBefore(after, Len(after) + 1, {"section"})
           now == PubLast(after)
           was == LastBefore(read, n + 1, {"section"})
<1>1. Len(after) = n + 1 /\ n \in Nat /\ after[n + 1] = x /\ \A j \in 1 .. n : after[j] = read[j]
    BY AppendIs
<1>2. x[1] \in {"section", "key", "source", "version"}
    BY PubLineIs
<1>3. top = IF x[1] = "section" THEN n + 1 ELSE was
    <2>1. Len(after) + 1 = Len(read) + 2
        BY <1>1
    <2> DEFINE kinds == {"section"}
    <2> HIDE DEF kinds
    <2>2. LastBefore(after, Len(read) + 2, kinds) =
              IF x[1] \in kinds THEN Len(read) + 1 ELSE LastBefore(read, Len(read) + 1, kinds)
        BY LastBeforeNext
    <2> QED BY <2>1, <2>2 DEF kinds
<1>4. now = IF x[1] \in {"section", "key"} THEN n + 1 ELSE c
    <2>1. Len(after) + 1 = Len(read) + 2
        BY <1>1
    <2>2. LastBefore(after, Len(read) + 2, PubKinds) =
              IF x[1] \in PubKinds THEN Len(read) + 1 ELSE LastBefore(read, Len(read) + 1, PubKinds)
        BY LastBeforeNext
    <2> QED BY <1>2, <2>1, <2>2 DEF PubKinds, PubLast
<1>5. PubKeys(after) = PubMore(read, x, s.inside_packages) /\ PubKeys(read) \in SUBSET (1 .. n)
    <2>1. s.inside_packages <=> LET t == LastBefore(read, Len(read) + 1, {"section"})
                                IN t # 0 /\ read[t][2] = "packages"
        BY DEF PubFits
    <2>2. PubKeys(after) = PubMore(read, x, s.inside_packages)
        BY <2>1, PubKeysGrow
    <2>3. PubKeys(read) \in SUBSET (1 .. Len(read))
        BY PubKeysAre
    <2> QED BY <2>2, <2>3
<1>6. was \in 0 .. n /\ (s.inside_packages <=> was # 0 /\ read[was][2] = "packages")
    <2>1. n + 1 \in 1 .. Len(read) + 1 /\ (n + 1) - 1 = n
        BY <1>1
    <2>2. was \in 0 .. n
        BY <2>1, LastBeforeIn
    <2> QED BY <2>2 DEF PubFits
<1>7. n + 1 \notin PubKeys(read)
    BY <1>1, <1>5
<1>8. (top # 0 /\ after[top][2] = "packages") <=>
          IF x[1] = "section" THEN x[2] = "packages" ELSE s.inside_packages
    <2>1. n + 1 # 0 /\ (was # 0 => after[was] = read[was])
        BY <1>1, <1>6
    <2> HIDE DEF was, top
    <2> QED BY <1>1, <1>3, <1>6, <2>1
<1>9. now \in PubKeys(after) <=> IF x[1] \in {"section", "key"} THEN x[1] = "key" /\ s.inside_packages
                                 ELSE c \in PubKeys(read)
    <2>1. PubKeys(after) = IF x[1] = "key" /\ s.inside_packages THEN PubKeys(read) \cup {n + 1} ELSE PubKeys(read)
        BY <1>5 DEF PubMore
    <2> QED BY <1>4, <1>7, <2>1
<1> QED BY <1>4, <1>8, <1>9 DEF PubInside

PubEntries == [name : PubValues, version : PubValues, source : PubValues, active : BOOLEAN]

\* A step that has said something, and its locals.
PubSame(s, t) ==
    /\ Silent(t) \in PubShape
    /\ t.emit = s.emit /\ t.tried = s.tried /\ t.counted = s.counted /\ t.stop = s.stop

LEMMA PubDomain ==
    ASSUME NEW s, Silent(s) \in PubShape
    PROVE  DOMAIN s = {"pending", "inside_packages", "emit", "tried", "counted", "stop", "ending"}
<1>1. DOMAIN Silent(s) = DOMAIN s
    BY DEF Silent
<1> QED BY <1>1 DEF PubShape

LEMMA PubSetInside ==
    ASSUME NEW s, Silent(s) \in PubShape, NEW v \in BOOLEAN, NEW t, t = [s EXCEPT !.inside_packages = v]
    PROVE  PubSame(s, t) /\ Silent(t).inside_packages = v /\ Silent(t).pending = s.pending
<1>1. DOMAIN s = {"pending", "inside_packages", "emit", "tried", "counted", "stop", "ending"}
    BY PubDomain
<1>2. Silent(t) = [Silent(s) EXCEPT !.inside_packages = v]
    BY <1>1 DEF Silent
<1>3. Silent(t) \in PubShape
    <2> HIDE DEF Silent
    <2> QED BY <1>2 DEF PubShape
<1>4. /\ t.emit = s.emit /\ t.tried = s.tried /\ t.counted = s.counted /\ t.stop = s.stop
      /\ Silent(t).inside_packages = v /\ Silent(t).pending = s.pending
    BY <1>1 DEF Silent
<1> QED BY <1>3, <1>4 DEF PubSame

LEMMA PubSetPending ==
    ASSUME NEW s, Silent(s) \in PubShape, NEW v \in PubEntries, NEW t, t = [s EXCEPT !.pending = v]
    PROVE  PubSame(s, t) /\ Silent(t).inside_packages = s.inside_packages /\ Silent(t).pending = v
<1>1. DOMAIN s = {"pending", "inside_packages", "emit", "tried", "counted", "stop", "ending"}
    BY PubDomain
<1>2. Silent(t) = [Silent(s) EXCEPT !.pending = v]
    BY <1>1 DEF Silent
<1>3. Silent(t) \in PubShape
    <2> HIDE DEF Silent
    <2> QED BY <1>2 DEF PubShape, PubEntries
<1>4. /\ t.emit = s.emit /\ t.tried = s.tried /\ t.counted = s.counted /\ t.stop = s.stop
      /\ Silent(t).inside_packages = s.inside_packages /\ Silent(t).pending = v
    BY <1>1 DEF Silent
<1> QED BY <1>3, <1>4 DEF PubSame

\* An entry is its four fields.
LEMMA PubEntryIs ==
    ASSUME NEW e, DOMAIN e = {"name", "version", "source", "active"}, e = [f \in DOMAIN e |-> e[f]]
    PROVE  e = [name |-> e.name, version |-> e.version, source |-> e.source, active |-> e.active]
<1> DEFINE r == [name |-> e.name, version |-> e.version, source |-> e.source, active |-> e.active]
<1>1. DOMAIN r = {"name", "version", "source", "active"}
    OBVIOUS
<1>2. r.name = e.name /\ r.version = e.version /\ r.source = e.source /\ r.active = e.active
    OBVIOUS
<1>3. r = [f \in {"name", "version", "source", "active"} |-> r[f]]
    BY <1>1
<1> HIDE DEF r
<1>4. e = r
    BY <1>1, <1>2, <1>3
<1> QED BY <1>4 DEF r

LEMMA PubNamed ==
    ASSUME NEW v
    PROVE  [NoEntry EXCEPT !.name = v, !.active = TRUE] = [name |-> v, version |-> "", source |-> "", active |-> TRUE]
<1> DEFINE e == [NoEntry EXCEPT !.name = v, !.active = TRUE]
<1>1. DOMAIN e = {"name", "version", "source", "active"}
    BY DEF NoEntry
<1>2. e.name = v /\ e.version = "" /\ e.source = "" /\ e.active = TRUE
    BY DEF NoEntry
<1>3. e = [f \in DOMAIN e |-> e[f]]
    BY DEF NoEntry
<1> HIDE DEF e
<1>4. e = [name |-> e.name, version |-> e.version, source |-> e.source, active |-> e.active]
    BY <1>1, <1>3, PubEntryIs
<1>5. e = [name |-> v, version |-> "", source |-> "", active |-> TRUE]
    BY <1>2, <1>4
<1> QED BY <1>5 DEF e

\* The line of a pending entry.
PubFill(e, field, v) == [e EXCEPT ![field] = v]

LEMMA PubFilled ==
    ASSUME NEW e, e = [name |-> e.name, version |-> e.version, source |-> e.source, active |-> TRUE], NEW v,
           NEW field \in {"source", "version"}
    PROVE  PubFill(e, field, v) =
               [name |-> e.name, version |-> IF field = "version" THEN v ELSE e.version,
                source |-> IF field = "source" THEN v ELSE e.source, active |-> TRUE]
<1> DEFINE g == [e EXCEPT ![field] = v]
<1>1. DOMAIN g = {"name", "version", "source", "active"}
    OBVIOUS
<1>2. /\ g.name = e.name /\ g.version = (IF field = "version" THEN v ELSE e.version)
      /\ g.source = (IF field = "source" THEN v ELSE e.source) /\ g.active = TRUE
    OBVIOUS
<1>3. g = [f \in DOMAIN g |-> g[f]]
    OBVIOUS
<1> HIDE DEF g
<1>4. g = [name |-> g.name, version |-> g.version, source |-> g.source, active |-> g.active]
    BY <1>1, <1>3, PubEntryIs
<1>5. g = [name |-> e.name, version |-> IF field = "version" THEN v ELSE e.version,
           source |-> IF field = "source" THEN v ELSE e.source, active |-> TRUE]
    BY <1>2, <1>4
<1> QED BY <1>5 DEF g, PubFill

LEMMA PubFresh ==
    ASSUME NEW v \in PubValues, NEW e, e = [name |-> v, version |-> "", source |-> "", active |-> TRUE]
    PROVE  e \in PubEntries /\ e.active = TRUE
BY DEF PubValues, PubEntries

LEMMA PubLineFits ==
    ASSUME ~UnreadableKeys, NEW read \in Seq(PubLines), NEW x \in PubLines, NEW s, PubFits(read, s),
           NEW t, t = PubLine(s, x), NEW after, after = Append(read, x)
    PROVE  Accounts(PubSettled(read), PubSettled(after), s, t) /\ PubFits(after, Silent(t))
<1> SUFFICES ASSUME NEW n, n = Len(read), NEW c, c = PubLast(read),
                    NEW now, now = PubLast(after), NEW inside, inside = PubInside(after)
             PROVE  Accounts(PubSettled(read), PubSettled(after), s, t) /\ PubFits(after, Silent(t))
    OBVIOUS
<1> DEFINE closed == PubClose(s)
<1>1. /\ inside <=> IF x[1] = "section" THEN x[2] = "packages" ELSE s.inside_packages
      /\ now = IF x[1] \in {"section", "key"} THEN n + 1 ELSE c
      /\ now \in PubKeys(after) <=> IF x[1] \in {"section", "key"} THEN x[1] = "key" /\ s.inside_packages
                                    ELSE c \in PubKeys(read)
    BY PubPositions
<1>2. x[1] \in {"section", "key", "source", "version"} /\ x[2] \in PubValues /\ x[2] # ""
    BY PubLineIs
<1>3. PubSettled(after) = PubSettled(read) \cup (IF x[1] \in PubKinds THEN PubSettles(s.pending) ELSE {})
    BY PubSettledGrows
<1>4. /\ s.pending.active <=> c \in PubKeys(read)
      /\ c \in PubKeys(read) => /\ s.pending = PubEntry(read, c) /\ Open(read, c, PubKinds)
                                /\ c \in 1 .. Len(read)
      /\ c \notin PubKeys(read) => s.pending = NoEntry
    BY PubLastIs DEF PubLast
<1>5. s \in PubShape /\ (s.pending.active => s.inside_packages)
    BY DEF PubFits
<1>6. NoEntry \in PubEntries /\ ~NoEntry.active
    BY DEF NoEntry, PubValues, PubEntries
<1> DEFINE Is(u, active, pending) ==
               /\ u \in PubShape /\ (u.inside_packages <=> inside) /\ u.pending = pending
               /\ u.pending.active <=> active
<1>7. ASSUME NEW u, Is(u, now \in PubKeys(after), IF now \in PubKeys(after) THEN PubEntry(after, now) ELSE NoEntry),
             now \in PubKeys(after) => inside
      PROVE  PubFits(after, u)
    BY <1>7 DEF PubFits, PubInside, PubLast
<1>8. CASE x[1] \in {"section", "key"}
    <2>0. PubSettled(after) = PubSettled(read) \cup PubSettles(s.pending)
        BY <1>3, <1>8 DEF PubKinds
    <2>1. /\ Accounts(PubSettled(read), PubSettled(after), s, closed) /\ Silent(closed) \in PubShape
          /\ ~closed.ending /\ ~closed.stop
          /\ closed.pending = NoEntry /\ closed.inside_packages = s.inside_packages /\ closed.counted \in BOOLEAN
        BY <1>5, <2>0, PubCloseSays
    <2>2. ASSUME NEW u, PubSame(closed, u)
          PROVE  Accounts(PubSettled(read), PubSettled(after), s, u)
        BY <2>1, <2>2 DEF PubSame, Accounts, Reports, Says
    <2> HIDE DEF closed
    <2>3. CASE x[1] = "section"
        <3>1. t = [closed EXCEPT !.inside_packages = x[2] = "packages"]
            BY <2>3 DEF PubLine, closed
        <3>2. /\ PubSame(closed, t)
              /\ Silent(t).inside_packages = (x[2] = "packages") /\ Silent(t).pending = NoEntry
            BY <1>6, <2>1, <3>1, PubSetInside
        <3>3. PubFits(after, Silent(t))
            BY <1>1, <1>6, <1>7, <2>3, <3>2 DEF PubSame
        <3> QED BY <2>2, <3>2, <3>3
    <2>4. CASE x[1] = "key" /\ s.inside_packages
        <3>1. t = [closed EXCEPT !.pending = [NoEntry EXCEPT !.name = x[2], !.active = TRUE]]
            BY <2>1, <2>4 DEF PubLine, closed
        <3>a. PubEntry(after, n + 1) = [name |-> x[2], version |-> "", source |-> "", active |-> TRUE]
            BY PubEntryBegins
        <3>2. [NoEntry EXCEPT !.name = x[2], !.active = TRUE] = PubEntry(after, n + 1)
            BY <3>a, PubNamed
        <3>3. /\ PubEntry(after, n + 1) \in PubEntries
              /\ PubEntry(after, n + 1).active = TRUE
            BY <1>2, <3>a, PubFresh
        <3>4. /\ PubSame(closed, t)
              /\ Silent(t).inside_packages = s.inside_packages /\ Silent(t).pending = PubEntry(after, n + 1)
            BY <2>1, <3>1, <3>2, <3>3, PubSetPending
        <3>5. PubFits(after, Silent(t))
            BY <1>1, <1>7, <2>4, <3>3, <3>4 DEF PubSame
        <3> QED BY <2>2, <3>4, <3>5
    <2>5. CASE x[1] = "key" /\ ~s.inside_packages
        <3>1. t = closed
            BY <2>1, <2>5 DEF PubLine, closed
        <3>2. /\ Silent(t) \in PubShape
              /\ Silent(t).inside_packages = s.inside_packages /\ Silent(t).pending = NoEntry
            BY <2>1, <3>1 DEF Silent
        <3>3. PubFits(after, Silent(t))
            BY <1>1, <1>6, <1>7, <2>5, <3>2
        <3> QED BY <2>1, <3>1, <3>3
    <2> QED BY <1>8, <2>3, <2>4, <2>5
<1>9. CASE x[1] \in {"source", "version"}
    <2>0. PubSettled(after) = PubSettled(read) /\ x[1] \notin PubKinds
        BY <1>3, <1>9 DEF PubKinds
    <2>1. /\ now = c /\ (now \in PubKeys(after) <=> c \in PubKeys(read))
          /\ inside <=> s.inside_packages
        BY <1>1, <1>9
    <2>2. Silent(s) = s
        BY <1>5 DEF Silent, PubShape
    <2>3. ASSUME NEW u, PubSame(s, u)
          PROVE  Accounts(PubSettled(read), PubSettled(after), s, u)
        BY <1>5, <2>0, <2>3 DEF PubSame, Accounts, Reports, Says, PubShape
    <2>4. CASE s.pending.active
        <3>1. c \in PubKeys(read) /\ Open(read, c, PubKinds) /\ s.pending = PubEntry(read, c) /\ s.inside_packages
            BY <1>4, <1>5, <2>4
        <3>2. PubEntry(after, c) =
                  [name |-> read[c][2], version |-> IF x[1] = "version" THEN x[2] ELSE PubEntry(read, c).version,
                   source |-> IF x[1] = "source" THEN x[2] ELSE PubEntry(read, c).source, active |-> TRUE]
            <4> QED BY <2>0, <3>1, PubEntryGrows
        <3> HIDE DEF closed
        <3>3. [s.pending EXCEPT ![x[1]] = x[2]] = PubEntry(after, c)
            <4>1. PubEntry(read, c) = [name |-> read[c][2], version |-> PubEntry(read, c).version,
                                       source |-> PubEntry(read, c).source, active |-> TRUE]
                BY DEF PubEntry
            <4>3. /\ s.pending = [name |-> s.pending.name, version |-> s.pending.version,
                                   source |-> s.pending.source, active |-> TRUE]
                  /\ s.pending.name = read[c][2]
                BY <3>1, <4>1
            <4>2. PubFill(s.pending, x[1], x[2]) =
                      [name |-> s.pending.name, version |-> IF x[1] = "version" THEN x[2] ELSE s.pending.version,
                       source |-> IF x[1] = "source" THEN x[2] ELSE s.pending.source, active |-> TRUE]
                BY <1>9, <4>3, PubFilled
            <4> QED BY <3>1, <3>2, <4>2, <4>3 DEF PubFill
        <3>4. t = [s EXCEPT !.pending = PubEntry(after, c)]
            <4>1. t = [s EXCEPT !.pending[x[1]] = x[2]]
                BY <1>9, <2>4, <3>1 DEF PubLine
            <4>2. [s EXCEPT !.pending[x[1]] = x[2]] = [s EXCEPT !.pending = [s.pending EXCEPT ![x[1]] = x[2]]]
                BY <1>5 DEF PubShape
            <4> QED BY <3>3, <4>1, <4>2
        <3>5. /\ PubEntry(after, c) \in PubEntries
              /\ PubEntry(after, c).active = TRUE
            BY <1>2, <1>5, <1>9, <2>4, <3>3 DEF PubShape, PubEntries
        <3>6. /\ PubSame(s, t)
              /\ Silent(t).inside_packages = s.inside_packages /\ Silent(t).pending = PubEntry(after, c)
            BY <1>5, <2>2, <3>4, <3>5, PubSetPending
        <3>7. PubFits(after, Silent(t))
            BY <1>7, <2>1, <3>1, <3>5, <3>6 DEF PubSame
        <3> QED BY <2>3, <3>6, <3>7
    <2>5. CASE ~s.pending.active
        <3>1. t = s
            BY <1>9, <2>5 DEF PubLine
        <3>2. c \notin PubKeys(read) /\ s.pending = NoEntry
            BY <1>4, <2>5
        <3>3. PubFits(after, s)
            BY <1>5, <1>6, <1>7, <2>1, <3>2
        <3>4. PubSame(s, s)
            BY <1>5, <2>2 DEF PubSame
        <3> QED BY <2>2, <2>3, <3>1, <3>3, <3>4
    <2> QED BY <1>5, <2>4, <2>5 DEF PubShape
<1> QED BY <1>2, <1>8, <1>9

LEMMA PubEndFits ==
    ASSUME NEW read \in Seq(PubLines), NEW s, PubFits(read, s), NEW t, t = PubEnd(s)
    PROVE  Accounts(PubSettled(read), PubLocked(read), s, t) /\ ~t.ending
<1> DEFINE keys == PubKeys(read)
           closed == Closed(read, keys, PubKinds)
           c == LastBefore(read, Len(read) + 1, PubKinds)
<1>1. keys \in SUBSET (1 .. Len(read)) /\ \A k \in keys : read[k][1] \in PubKinds
    BY PubKeysAre
<1>2. keys = closed \cup ({c} \cap keys)
    BY ONLY <1>1, AllButLast
<1>3. /\ s.pending.active <=> c \in keys
      /\ c \in keys => s.pending = PubEntry(read, c)
    BY PubLastIs
<1> HIDE DEF keys, closed, c
<1>4. PubLocked(read) = PubPackages(read, keys) /\ PubSettled(read) = PubPackages(read, closed)
    BY PubLockedIs DEF PubSettled, keys, closed
<1>5. PubPackages(read, keys) = PubPackages(read, closed) \cup PubPackages(read, {c} \cap keys)
    <2>1. PubPackages(read, closed \cup ({c} \cap keys)) = PubPackages(read, closed) \cup PubPackages(read, {c} \cap keys)
        BY DEF PubPackages
    <2> QED BY <1>2, <2>1
<1>6. PubPackages(read, {c} \cap keys) = PubSettles(s.pending)
    <2>1. CASE c \in keys
        <3>1. {c} \cap keys = {c}
            BY <2>1
        <3> QED BY <1>3, <2>1, <3>1 DEF PubPackages, PubSettles
    <2>2. CASE c \notin keys
        <3>1. {c} \cap keys = {}
            BY <2>2
        <3> QED BY <1>3, <2>2, <3>1 DEF PubPackages, PubSettles
    <2> QED BY <2>1, <2>2
<1>7. s \in PubShape /\ t = PubClose(s) /\ PubLocked(read) = PubSettled(read) \cup PubSettles(s.pending)
    BY <1>4, <1>5, <1>6 DEF PubFits, PubEnd
<1> QED BY ONLY <1>7, PubCloseSays

------------------------------------------------------------------------------
(* pnpm-lock.yaml. *)

LEMMA PnpmStartIs ==
    PnpmStart = [pending |-> "", inside_packages |-> FALSE, version_seen |-> FALSE, version_supported |-> FALSE,
                emit |-> {}, tried |-> FALSE, counted |-> FALSE, stop |-> FALSE, ending |-> FALSE]
<1> DEFINE locals == [pending |-> "", inside_packages |-> FALSE, version_seen |-> FALSE, version_supported |-> FALSE]
           whole == [pending |-> "", inside_packages |-> FALSE, version_seen |-> FALSE, version_supported |-> FALSE,
                     emit |-> {}, tried |-> FALSE, counted |-> FALSE, stop |-> FALSE, ending |-> FALSE]
<1>1. DOMAIN locals = {"pending", "inside_packages", "version_seen", "version_supported"}
    OBVIOUS
<1>2. DOMAIN Said = {"emit", "tried", "counted", "stop", "ending"}
    BY DEF Said
<1>3. whole = [v \in DOMAIN locals \cup DOMAIN Said |-> whole[v]]
    BY <1>1, <1>2
<1>4. \A v \in DOMAIN locals \cup DOMAIN Said : whole[v] = IF v \in DOMAIN locals THEN locals[v] ELSE Said[v]
    <2>1. /\ whole["pending"] = locals["pending"]
          /\ whole["inside_packages"] = locals["inside_packages"]
          /\ whole["version_seen"] = locals["version_seen"]
          /\ whole["version_supported"] = locals["version_supported"]
          /\ whole["emit"] = Said["emit"] /\ whole["tried"] = Said["tried"] /\ whole["counted"] = Said["counted"]
          /\ whole["stop"] = Said["stop"] /\ whole["ending"] = Said["ending"]
        BY DEF Said
    <2> HIDE DEF locals, whole
    <2> QED BY <1>1, <1>2, <2>1
<1>5. PnpmStart = [v \in DOMAIN locals \cup DOMAIN Said |-> IF v \in DOMAIN locals THEN locals[v] ELSE Said[v]]
    BY DEF PnpmStart, With
<1> HIDE DEF locals, whole
<1>6. PnpmStart = whole
    BY <1>3, <1>4, <1>5
<1> QED BY <1>6 DEF whole

PnpmEnds == {"version", "section", "key", "garbled", "unreadable key"}
PnpmKinds == PnpmEnds \cup {"resolution"}
OpensPackages(line) == line = <<"section", "packages">>
PnpmTop(read) == LastBefore(read, Len(read) + 1, {"section", "version"})
PnpmInside(read) == PnpmTop(read) # 0 /\ OpensPackages(read[PnpmTop(read)])
PnpmHas(read) == LastBefore(read, Len(read) + 1, {"version"}) # 0
PnpmLast(read) == LastBefore(read, Len(read) + 1, PnpmKinds)

\* The keys of packages sections that the reader looks at: a version is before them.
PnpmSeen(read) ==
    {j \in 1 .. Len(read) :
        LET top == LastBefore(read, j, {"section", "version"})
        IN /\ read[j][1] = "key" /\ top # 0 /\ OpensPackages(read[top])
           /\ LastBefore(read, j, {"version"}) # 0}
PnpmPackage(read, k) == [name |-> read[k][2], integrity |-> KeyValue(read, k, PnpmEnds, "resolution")]

\* A key whose resolution or successor has been read.
PnpmSettled(read) == {PnpmPackage(read, k) : k \in Closed(read, PnpmSeen(read), PnpmKinds)}

LEMMA PnpmSoughtIs == ASSUME NEW read PROVE PnpmSought(read) = {PnpmPackage(read, k) : k \in PnpmSeen(read)}
<1>1. PnpmSeen(read) = {k \in PnpmKeys(read) : LastBefore(read, k, {"version"}) # 0}
    BY DEF PnpmSeen, PnpmKeys, OpensPackages
<1>2. \A keys : PnpmPackages(read, keys) = {PnpmPackage(read, k) : k \in keys}
    BY DEF PnpmPackages, PnpmPackage, KeyValue, PnpmEnds
<1> QED BY <1>1, <1>2 DEF PnpmSought

LEMMA PnpmSoughtIsLocked == ASSUME NEW read PROVE PnpmSought(read) \subseteq PnpmLocked(read)
<1>1. {k \in PnpmKeys(read) : LastBefore(read, k, {"version"}) # 0} \subseteq PnpmKeys(read)
    OBVIOUS
<1>2. \A few, keys : few \subseteq keys => PnpmPackages(read, few) \subseteq PnpmPackages(read, keys)
    BY DEF PnpmPackages
<1> QED BY <1>1, <1>2 DEF PnpmSought, PnpmLocked

\* Once a version was seen, and is supported, the name that is pending is that of the
\* last key of the packages, unless its resolution was read; without it nothing is kept.
PnpmShape == [pending : {"", "a", "b"}, inside_packages : BOOLEAN, version_seen : BOOLEAN,
              version_supported : BOOLEAN, emit : {{}}, tried : {FALSE}, counted : BOOLEAN,
              stop : {FALSE}, ending : {FALSE}]
PnpmFits(read, s) ==
    /\ s \in PnpmShape
    /\ s.version_seen <=> PnpmHas(read)
    /\ s.version_supported <=> s.version_seen
    /\ s.inside_packages <=> PnpmInside(read)
    /\ s.pending # "" => s.inside_packages /\ s.version_seen
    /\ s.pending = IF PnpmLast(read) \in PnpmSeen(read) THEN read[PnpmLast(read)][2] ELSE ""

LEMMA PnpmStartFits == PnpmFits(<<>>, PnpmStart) /\ PnpmSought(<<>>) = {}
<1>1. PnpmSeen(<<>>) = {}
    BY DEF PnpmSeen
<1>2. PnpmSought(<<>>) = {}
    BY <1>1, PnpmSoughtIs
<1>3. ~PnpmInside(<<>>)
    BY DEF PnpmInside, PnpmTop, LastBefore
<1>4. ~PnpmHas(<<>>)
    BY DEF PnpmHas, LastBefore
<1>5. /\ PnpmStart \in PnpmShape /\ PnpmStart.pending = "" /\ PnpmStart.inside_packages = FALSE
      /\ PnpmStart.version_seen = FALSE /\ PnpmStart.version_supported = FALSE
    BY PnpmStartIs DEF PnpmShape
<1> QED BY <1>1, <1>2, <1>3, <1>4, <1>5 DEF PnpmFits

LEMMA PnpmLineIs ==
    ASSUME ~UnreadableKeys, NEW x \in PnpmLines
    PROVE  /\ x[1] \in {"version", "section", "key", "garbled", "resolution"}
           /\ OpensPackages(x) <=> x[1] = "section" /\ x[2] = "packages"
           /\ x[1] = "key" => x[2] \in {"a", "b"}
<1>1. \/ x = <<"section", "packages">> \/ x = <<"section", "snapshots">> \/ x = <<"key", "a">> \/ x = <<"key", "b">>
      \/ x = <<"garbled", "">> \/ x = <<"resolution", "sha">> \/ x = <<"resolution", "git">>
      \/ x = <<"version", "5">> \/ x = <<"version", "9">>
    BY Zenon DEF PnpmLines, UnreadableKey
<1> USE DEF OpensPackages
<1>2. CASE x = <<"section", "packages">> \/ x = <<"section", "snapshots">>
    BY <1>2
<1>3. CASE x = <<"key", "a">> \/ x = <<"key", "b">>
    BY <1>3
<1>4. CASE x = <<"garbled", "">>
    BY <1>4
<1>5. CASE x = <<"resolution", "sha">> \/ x = <<"resolution", "git">>
    BY <1>5
<1>6. CASE x = <<"version", "5">> \/ x = <<"version", "9">>
    BY <1>6
<1> QED BY <1>1, <1>2, <1>3, <1>4, <1>5, <1>6

PnpmMore(read, x, inside) ==
    IF x[1] = "key" /\ inside THEN PnpmSeen(read) \cup {Len(read) + 1} ELSE PnpmSeen(read)

LEMMA PnpmSeenGrows ==
    ASSUME NEW read \in Seq(PnpmLines), NEW x \in PnpmLines
    PROVE  PnpmSeen(Append(read, x)) = PnpmMore(read, x, PnpmInside(read) /\ PnpmHas(read))
<1> DEFINE n == Len(read)
           after == Append(read, x)
           Top(given, j) == LastBefore(given, j, {"section", "version"})
           Has(given, j) == LastBefore(given, j, {"version"})
           Key(given, j) == /\ given[j][1] = "key" /\ Top(given, j) # 0 /\ OpensPackages(given[Top(given, j)])
                            /\ Has(given, j) # 0
<1>1. Len(after) = n + 1 /\ n \in Nat /\ after[n + 1] = x /\ \A j \in 1 .. n : after[j] = read[j]
    BY AppendIs
<1>2. \A j \in 1 .. n + 1 : /\ Top(after, j) = Top(read, j) /\ Top(read, j) \in 0 .. j - 1
                            /\ Has(after, j) = Has(read, j)
    BY LastBeforeGrows, LastBeforeIn
<1>3. \A j \in 1 .. n : Key(after, j) <=> Key(read, j)
    BY <1>1, <1>2
<1>4. Key(after, n + 1) <=> x[1] = "key" /\ PnpmInside(read) /\ PnpmHas(read)
    BY <1>1, <1>2 DEF PnpmInside, PnpmTop, PnpmHas
<1>5. 1 .. n + 1 = (1 .. n) \cup {n + 1}
    BY <1>1
<1>6. PnpmSeen(after) = {j \in 1 .. n + 1 : Key(after, j)} /\ PnpmSeen(read) = {j \in 1 .. n : Key(read, j)}
    BY <1>1 DEF PnpmSeen
<1> HIDE DEF n, after, Key
<1>7. PnpmSeen(after) = IF x[1] = "key" /\ PnpmInside(read) /\ PnpmHas(read) THEN PnpmSeen(read) \cup {n + 1} ELSE PnpmSeen(read)
    BY <1>3, <1>4, <1>5, <1>6
<1> QED BY <1>7 DEF PnpmMore, n, after

LEMMA PnpmSeenIs ==
    ASSUME NEW read
    PROVE  PnpmSeen(read) \in SUBSET (1 .. Len(read)) /\ \A k \in PnpmSeen(read) : read[k][1] = "key" /\ read[k][1] \in PnpmKinds
BY DEF PnpmSeen, PnpmKinds, PnpmEnds

LEMMA PnpmPackageStays ==
    ASSUME NEW read \in Seq(PnpmLines), NEW x \in PnpmLines, NEW k \in Closed(read, PnpmSeen(read), PnpmKinds)
    PROVE  PnpmPackage(Append(read, x), k) = PnpmPackage(read, k)
<1> DEFINE after == Append(read, x)
<1>1. k \in 1 .. Len(read) /\ after[k] = read[k]
    BY AppendIs DEF Closed, PnpmSeen
<1>2. ~Open(read, k, PnpmEnds \cup {"resolution"})
    BY DEF Closed, PnpmKinds
<1>3. KeyValue(after, k, PnpmEnds, "resolution") = KeyValue(read, k, PnpmEnds, "resolution")
    BY <1>1, <1>2, KeyValueStays
<1> HIDE DEF after
<1>4. PnpmPackage(after, k) = PnpmPackage(read, k)
    BY <1>1, <1>3 DEF PnpmPackage
<1> QED BY <1>4 DEF after

LEMMA PnpmPackageNow ==
    ASSUME NEW read \in Seq(PnpmLines), NEW x \in PnpmLines, x[1] \in PnpmKinds,
           NEW k \in PnpmSeen(read), Open(read, k, PnpmKinds)
    PROVE  PnpmPackage(Append(read, x), k) = [name |-> read[k][2], integrity |-> IF x[1] = "resolution" THEN x[2] ELSE ""]
<1> DEFINE after == Append(read, x)
<1>1. k \in 1 .. Len(read) /\ after[k] = read[k]
    BY AppendIs DEF PnpmSeen
<1>2. "resolution" \notin PnpmEnds
    BY DEF PnpmEnds
<1>3. Open(read, k, PnpmEnds \cup {"resolution"}) /\ x[1] \in PnpmEnds \cup {"resolution"}
    <2>1. PnpmKinds = PnpmEnds \cup {"resolution"}
        BY DEF PnpmKinds
    <2> QED BY <2>1
<1>4. KeyValue(after, k, PnpmEnds, "resolution") = IF x[1] = "resolution" THEN x[2] ELSE ""
    <2> DEFINE kind == "resolution"
    <2> HIDE DEF kind
    <2>1. kind \notin PnpmEnds /\ Open(read, k, PnpmEnds \cup {kind}) /\ x[1] \in PnpmEnds \cup {kind}
        BY <1>2, <1>3 DEF kind
    <2>2. KeyValue(after, k, PnpmEnds, kind) = IF x[1] = kind THEN x[2] ELSE ""
        BY <1>1, <2>1, KeyValueNow
    <2> QED BY <2>2 DEF kind
<1> HIDE DEF after
<1>5. PnpmPackage(after, k) = [name |-> read[k][2], integrity |-> IF x[1] = "resolution" THEN x[2] ELSE ""]
    BY <1>1, <1>4 DEF PnpmPackage
<1> QED BY <1>5 DEF after

\* What a line settles: the key that is pending, with the resolution if it is that.
PnpmSettles(read, x) ==
    IF x[1] \in PnpmKinds /\ PnpmLast(read) \in PnpmSeen(read)
    THEN {[name |-> read[PnpmLast(read)][2], integrity |-> IF x[1] = "resolution" THEN x[2] ELSE ""]} ELSE {}

LEMMA PnpmSettledGrows ==
    ASSUME NEW read \in Seq(PnpmLines), NEW x \in PnpmLines
    PROVE  PnpmSettled(Append(read, x)) = PnpmSettled(read) \cup PnpmSettles(read, x)
<1> DEFINE after == Append(read, x)
           keys == PnpmSeen(read)
           more == PnpmSeen(after)
           closed == Closed(read, keys, PnpmKinds)
           just == JustClosed(read, x, keys, PnpmKinds)
           c == LastBefore(read, Len(read) + 1, PnpmKinds)
<1>1. /\ more \in {keys, keys \cup {Len(read) + 1}}
      /\ keys \in SUBSET (1 .. Len(read)) /\ \A k \in keys : read[k][1] \in PnpmKinds
    <2>1. more = PnpmMore(read, x, PnpmInside(read) /\ PnpmHas(read))
        BY PnpmSeenGrows
    <2>2. keys \in SUBSET (1 .. Len(read)) /\ \A k \in keys : read[k][1] \in PnpmKinds
        BY PnpmSeenIs
    <2> HIDE DEF keys, more
    <2> QED BY <2>1, <2>2 DEF PnpmMore, keys
<1>2. Closed(after, more, PnpmKinds) = closed \cup just
    <2>1. Closed(after, more, PnpmKinds) = NowClosed(read, x, keys, PnpmKinds)
        BY ONLY <1>1, read \in Seq(PnpmLines), x \in PnpmLines, ClosedGrows
    <2> QED BY <2>1 DEF NowClosed
<1>3. ASSUME NEW k \in closed PROVE PnpmPackage(after, k) = PnpmPackage(read, k)
    BY <1>3, PnpmPackageStays
<1>4. just = IF x[1] \in PnpmKinds THEN {c} \cap keys ELSE {}
    BY DEF JustClosed
<1>5. ASSUME c \in keys, x[1] \in PnpmKinds
      PROVE  PnpmPackage(after, c) = [name |-> read[c][2], integrity |-> IF x[1] = "resolution" THEN x[2] ELSE ""]
    <2>1. Open(read, c, PnpmKinds)
        <3>1. c \in 1 .. Len(read) /\ read[c][1] \in PnpmKinds
            BY <1>1, <1>5
        <3> QED BY <3>1, LastIsOpen
    <2> HIDE DEF c
    <2> QED BY <1>5, <2>1, PnpmPackageNow
<1>6. c = PnpmLast(read)
    BY DEF PnpmLast
<1> HIDE DEF after, keys, more, closed, just, c
<1>7. PnpmSettled(after) = {PnpmPackage(after, k) : k \in closed \cup just}
    BY <1>2 DEF PnpmSettled, more
<1>8. PnpmSettled(read) = {PnpmPackage(read, k) : k \in closed}
    BY DEF PnpmSettled, closed, keys
<1>9. {PnpmPackage(after, k) : k \in just} = PnpmSettles(read, x)
    <2>1. CASE x[1] \in PnpmKinds /\ c \in keys
        <3>1. just = {c}
            BY <1>4, <2>1
        <3> QED BY <1>5, <1>6, <2>1, <3>1 DEF PnpmSettles, keys
    <2>2. CASE ~(x[1] \in PnpmKinds /\ c \in keys)
        <3>1. just = {}
            BY <1>4, <2>2
        <3> QED BY <1>6, <2>2, <3>1 DEF PnpmSettles, keys
    <2> QED BY <2>1, <2>2
<1>10. PnpmSettled(after) = PnpmSettled(read) \cup PnpmSettles(read, x)
    BY <1>3, <1>7, <1>8, <1>9
<1> QED BY <1>10 DEF after

\* What a line does to the two positions, and to the keys.
PnpmMoves(read, x, after) ==
    /\ x[1] \in {"section", "version"} => (PnpmInside(after) <=> OpensPackages(x))
    /\ x[1] \notin {"section", "version"} => (PnpmInside(after) <=> PnpmInside(read))
    /\ PnpmHas(after) <=> x[1] = "version" \/ PnpmHas(read)
    /\ x[1] \in PnpmKinds => /\ PnpmLast(after) \in PnpmSeen(after) <=> x[1] = "key" /\ PnpmInside(read) /\ PnpmHas(read)
                             /\ after[PnpmLast(after)] = x

LEMMA PnpmPositions ==
    ASSUME NEW read \in Seq(PnpmLines), NEW x \in PnpmLines
    PROVE  PnpmMoves(read, x, Append(read, x))
<1> DEFINE n == Len(read)
           after == Append(read, x)
<1>1. Len(after) = n + 1 /\ n \in Nat /\ after[n + 1] = x /\ \A j \in 1 .. n : after[j] = read[j]
    BY AppendIs
<1>2. PnpmTop(after) = IF x[1] \in {"section", "version"} THEN n + 1 ELSE PnpmTop(read)
    <2>1. Len(after) + 1 = Len(read) + 2
        BY <1>1
    <2>2. LastBefore(after, Len(read) + 2, {"section", "version"}) =
              IF x[1] \in {"section", "version"} THEN Len(read) + 1 ELSE LastBefore(read, Len(read) + 1, {"section", "version"})
        BY LastBeforeNext
    <2> QED BY <2>1, <2>2 DEF PnpmTop
<1>3. PnpmLast(after) = IF x[1] \in PnpmKinds THEN n + 1 ELSE PnpmLast(read)
    <2>1. Len(after) + 1 = Len(read) + 2
        BY <1>1
    <2>2. LastBefore(after, Len(read) + 2, PnpmKinds) =
              IF x[1] \in PnpmKinds THEN Len(read) + 1 ELSE LastBefore(read, Len(read) + 1, PnpmKinds)
        BY LastBeforeNext
    <2> QED BY <2>1, <2>2 DEF PnpmLast
<1>4. PnpmTop(read) \in 0 .. n
    <2>1. n + 1 \in 1 .. Len(read) + 1 /\ (n + 1) - 1 = n
        BY <1>1
    <2> QED BY <2>1, LastBeforeIn DEF PnpmTop
<1>5. PnpmSeen(after) = PnpmMore(read, x, PnpmInside(read) /\ PnpmHas(read)) /\ PnpmSeen(read) \in SUBSET (1 .. Len(read))
    BY PnpmSeenGrows, PnpmSeenIs
<1>6. /\ x[1] \in {"section", "version"} => (PnpmInside(after) <=> OpensPackages(x))
      /\ x[1] \notin {"section", "version"} => (PnpmInside(after) <=> PnpmInside(read))
    <2>1. n + 1 # 0 /\ (PnpmTop(read) # 0 => after[PnpmTop(read)] = read[PnpmTop(read)])
        BY <1>1, <1>4
    <2> QED BY <1>1, <1>2, <2>1 DEF PnpmInside
<1>7. PnpmSeen(after) = (IF x[1] = "key" /\ PnpmInside(read) /\ PnpmHas(read) THEN PnpmSeen(read) \cup {n + 1} ELSE PnpmSeen(read))
      /\ n + 1 \notin PnpmSeen(read)
    BY <1>1, <1>5 DEF PnpmMore
<1>10. PnpmHas(after) <=> x[1] = "version" \/ PnpmHas(read)
    <2>1. Len(after) + 1 = Len(read) + 2 /\ Len(read) + 1 # 0
        BY <1>1
    <2>2. LastBefore(after, Len(read) + 2, {"version"}) =
              IF x[1] \in {"version"} THEN Len(read) + 1 ELSE LastBefore(read, Len(read) + 1, {"version"})
        BY LastBeforeNext
    <2> QED BY <2>1, <2>2 DEF PnpmHas
<1> HIDE DEF n, after
<1>8. x[1] \in PnpmKinds => /\ PnpmLast(after) \in PnpmSeen(after) <=> x[1] = "key" /\ PnpmInside(read) /\ PnpmHas(read)
                            /\ after[PnpmLast(after)] = x
    BY <1>1, <1>3, <1>7
<1>9. PnpmMoves(read, x, after)
    BY <1>6, <1>8, <1>10 DEF PnpmMoves
<1> QED BY <1>9 DEF after

\* What a line leaves, unless the reader gives up.
PnpmLeft(s, x, u) ==
    /\ u.version_seen = (IF x[1] = "version" THEN TRUE ELSE s.version_seen)
    /\ u.version_supported = (IF x[1] = "version" THEN TRUE ELSE s.version_supported)
    /\ u.inside_packages = (CASE x[1] = "section" -> x[2] = "packages" [] x[1] = "version" -> FALSE
                              [] OTHER -> s.inside_packages)
    /\ u.pending = IF x[1] = "key" /\ s.inside_packages /\ s.version_seen THEN x[2] ELSE ""

LEMMA PnpmLeaves ==
    ASSUME ~UnreadableKeys, NEW read \in Seq(PnpmLines), NEW x \in PnpmLines, NEW s, PnpmFits(read, s),
           NEW after, after = Append(read, x), NEW u \in PnpmShape, PnpmLeft(s, x, u)
    PROVE  PnpmFits(after, u)
<1>1. /\ x[1] \in {"version", "section", "key", "garbled", "resolution"}
      /\ OpensPackages(x) <=> x[1] = "section" /\ x[2] = "packages"
    BY PnpmLineIs
<1>2. x[1] \in PnpmKinds
    BY <1>1 DEF PnpmKinds, PnpmEnds
<1>3. PnpmMoves(read, x, after)
    BY PnpmPositions
<1>4. u.inside_packages <=> PnpmInside(after)
    BY <1>1, <1>3 DEF PnpmMoves, PnpmFits, PnpmLeft
<1>5. u.version_seen <=> PnpmHas(after)
    BY <1>3 DEF PnpmMoves, PnpmFits, PnpmLeft
<1>6. u.pending = IF PnpmLast(after) \in PnpmSeen(after) THEN after[PnpmLast(after)][2] ELSE ""
    BY <1>2, <1>3 DEF PnpmMoves, PnpmFits, PnpmLeft
<1>7. u.pending # "" => u.inside_packages /\ u.version_seen
    BY DEF PnpmFits, PnpmLeft
<1>8. u.version_supported <=> u.version_seen
    BY DEF PnpmFits, PnpmLeft
<1> QED BY <1>4, <1>5, <1>6, <1>7, <1>8 DEF PnpmFits

LEMMA PnpmStill ==
    ASSUME NEW t \in PnpmShape PROVE Silent(t) = t /\ Says(t) /\ t.stop = FALSE /\ t.emit = {}
BY DEF PnpmShape, Silent, Says

LEMMA PnpmSpoken ==
    ASSUME NEW u \in PnpmShape, NEW package, NEW t, t = [u EXCEPT !.emit = {package}, !.tried = TRUE]
    PROVE  /\ Says(t) /\ t.stop = FALSE /\ t.counted = u.counted /\ t.emit = {package}
           /\ Silent(t) = u
BY DEF PnpmShape, Silent, Says

LEMMA PnpmLineFits ==
    ASSUME ~UnreadableKeys, NEW read \in Seq(PnpmLines), NEW x \in PnpmLines, NEW s, PnpmFits(read, s),
           NEW t, t = PnpmLine(s, x), NEW after, after = Append(read, x)
    PROVE  /\ Accounts(PnpmSettled(read), PnpmSettled(after), s, t)
           /\ t.stop \/ PnpmFits(after, Silent(t))
<1>1. x[1] \in {"version", "section", "key", "garbled", "resolution"} /\ (x[1] = "key" => x[2] \in {"a", "b"})
    BY PnpmLineIs
<1>2. /\ s \in PnpmShape /\ (s.version_supported <=> s.version_seen)
      /\ (s.pending # "" => s.inside_packages /\ s.version_seen)
    BY DEF PnpmFits
<1>3. PnpmSettled(after) = PnpmSettled(read) \cup PnpmSettles(read, x)
    BY PnpmSettledGrows
<1>5. /\ s.pending # "" <=> PnpmLast(read) \in PnpmSeen(read)
      /\ s.pending # "" => s.pending = read[PnpmLast(read)][2]
    <2>1. ASSUME PnpmLast(read) \in PnpmSeen(read) PROVE read[PnpmLast(read)][2] \in {"a", "b"}
        <3>1. PnpmLast(read) \in 1 .. Len(read) /\ read[PnpmLast(read)][1] = "key"
            BY <2>1, PnpmSeenIs
        <3>2. read[PnpmLast(read)] \in PnpmLines
            BY <3>1
        <3> QED BY <3>1, <3>2, PnpmLineIs
    <2> QED BY <2>1 DEF PnpmFits
<1>6. PnpmSettles(read, x) =
          IF s.pending # "" THEN {[name |-> s.pending, integrity |-> IF x[1] = "resolution" THEN x[2] ELSE ""]} ELSE {}
    BY <1>1, <1>5 DEF PnpmSettles, PnpmKinds, PnpmEnds
<1>7. ASSUME NEW u, Says(t), t.stop = FALSE, u = Silent(t), u \in PnpmShape,
             t.emit = {} \/ t.emit = PnpmSettles(read, x),
             s.counted => t.counted, s.pending # "" => t.counted \/ t.emit = PnpmSettles(read, x),
             PnpmLeft(s, x, u)
      PROVE  /\ Accounts(PnpmSettled(read), PnpmSettled(after), s, t)
             /\ t.stop \/ PnpmFits(after, u)
    <2>1. PnpmFits(after, u)
        BY <1>7, PnpmLeaves
    <2>2. t.counted \/ PnpmSettled(after) \subseteq PnpmSettled(read) \cup t.emit
        BY <1>3, <1>6, <1>7
    <2> QED BY <1>3, <1>7, <2>1, <2>2 DEF Accounts, Reports
<1> DEFINE closed == IF s.pending # "" THEN Count([s EXCEPT !.pending = ""]) ELSE s
<1>c. /\ closed \in PnpmShape /\ closed.pending = "" /\ closed.inside_packages = s.inside_packages
      /\ closed.version_seen = s.version_seen /\ closed.version_supported = s.version_supported
      /\ closed.counted \in BOOLEAN /\ (s.counted => closed.counted) /\ (s.pending # "" => closed.counted)
    BY <1>2 DEF PnpmShape, Count
<1>8. CASE x[1] = "section"
    <2>1. t = [closed EXCEPT !.inside_packages = x[2] = "packages"]
        BY <1>8 DEF PnpmLine, PnpmClose
    <2> HIDE DEF closed
    <2>2. t \in PnpmShape
        BY <1>c, <2>1 DEF PnpmShape
    <2>3. t.counted = closed.counted /\ PnpmLeft(s, x, t)
        BY <1>8, <1>c, <2>1 DEF PnpmShape, PnpmLeft
    <2> QED BY <1>7, <1>c, <2>2, <2>3, PnpmStill
<1>9. CASE x[1] = "key"
    <2>1. t = IF s.inside_packages /\ s.version_seen THEN [closed EXCEPT !.pending = x[2]] ELSE closed
        BY <1>2, <1>9 DEF PnpmLine, PnpmClose, PnpmField, PnpmShape, Count
    <2> HIDE DEF closed
    <2>2. t \in PnpmShape
        BY <1>1, <1>9, <1>c, <2>1 DEF PnpmShape
    <2>3. t.counted = closed.counted /\ PnpmLeft(s, x, t)
        BY <1>9, <1>c, <2>1 DEF PnpmShape, PnpmLeft
    <2> QED BY <1>7, <1>c, <2>2, <2>3, PnpmStill
<1>10. CASE x[1] = "garbled"
    <2>1. t = IF s.inside_packages /\ s.version_seen THEN Count(closed) ELSE closed
        BY <1>2, <1>10 DEF PnpmLine, PnpmClose, PnpmField, PnpmShape, Count
    <2> HIDE DEF closed
    <2>2. t \in PnpmShape
        BY <1>c, <2>1 DEF PnpmShape, Count
    <2>3. (closed.counted => t.counted) /\ PnpmLeft(s, x, t)
        BY <1>10, <1>c, <2>1 DEF PnpmShape, PnpmLeft, Count
    <2> QED BY <1>7, <1>c, <2>2, <2>3, PnpmStill
<1>11. CASE x[1] = "resolution"
    <2>1. t = IF s.pending = "" THEN s
              ELSE IF x[2] = "git" THEN Count([s EXCEPT !.pending = ""])
              ELSE Emit([s EXCEPT !.pending = ""], [name |-> s.pending, integrity |-> x[2]])
        BY <1>2, <1>5, <1>11 DEF PnpmLine, PnpmField
    <2>2. CASE s.pending = ""
        <3>1. t = s /\ PnpmLeft(s, x, t)
            BY <1>2, <1>11, <2>1, <2>2 DEF PnpmShape, PnpmLeft
        <3>2. t \in PnpmShape /\ t.counted = s.counted
            BY <1>2, <3>1
        <3> HIDE DEF closed
        <3> QED BY <1>7, <2>2, <3>1, <3>2, PnpmStill
    <2>3. CASE s.pending # "" /\ x[2] = "git"
        <3>1. t \in PnpmShape /\ t.counted = TRUE /\ PnpmLeft(s, x, t)
            BY <1>2, <1>11, <2>1, <2>3 DEF PnpmShape, PnpmLeft, Count
        <3> HIDE DEF closed
        <3> QED BY <1>7, <3>1, PnpmStill
    <2>4. CASE s.pending # "" /\ x[2] # "git"
        <3> DEFINE u == [s EXCEPT !.pending = ""]
                   package == [name |-> s.pending, integrity |-> x[2]]
        <3>1. u \in PnpmShape /\ u.counted = s.counted /\ PnpmLeft(s, x, u)
            BY <1>2, <1>11 DEF PnpmShape, PnpmLeft
        <3> HIDE DEF u
        <3>2. t = [u EXCEPT !.emit = {package}, !.tried = TRUE]
            BY <2>1, <2>4 DEF Emit, u
        <3> HIDE DEF package
        <3>3. /\ Says(t) /\ t.stop = FALSE /\ t.counted = u.counted /\ t.emit = {package}
              /\ Silent(t) = u
            BY <3>1, <3>2, PnpmSpoken
        <3>4. t.emit = PnpmSettles(read, x)
            BY <1>5, <1>6, <1>11, <2>4, <3>3 DEF package
        <3> QED BY <1>7, <3>1, <3>3, <3>4
    <2> QED BY <2>2, <2>3, <2>4
<1>12. CASE x[1] = "version"
    <2> DEFINE supported == x[2] \in {"6", "9"}
    <2>1. t = [closed EXCEPT !.version_seen = TRUE, !.version_supported = supported, !.stop = ~supported,
                             !.inside_packages = FALSE, !.counted = @ \/ ~supported]
        BY <1>12 DEF PnpmLine, PnpmClose
    <2> HIDE DEF closed, supported
    <2>2. CASE supported
        <3>1. t \in PnpmShape
            BY <1>c, <2>1, <2>2 DEF PnpmShape
        <3>2. t.counted = closed.counted /\ PnpmLeft(s, x, t)
            BY <1>12, <1>c, <2>1, <2>2 DEF PnpmShape, PnpmLeft
        <3> QED BY <1>7, <1>c, <3>1, <3>2, PnpmStill
    <2>3. CASE ~supported
        <3>1. t.emit = {} /\ t.tried = FALSE /\ t.counted = TRUE /\ t.stop = TRUE
            BY <1>c, <2>1, <2>3 DEF PnpmShape
        <3> QED BY <1>3, <3>1 DEF Accounts, Reports, Says
    <2> QED BY <2>2, <2>3
<1> QED BY <1>1, <1>8, <1>9, <1>10, <1>11, <1>12

LEMMA PnpmEndFits ==
    ASSUME ~UnreadableKeys, NEW read \in Seq(PnpmLines), NEW s, PnpmFits(read, s), NEW t, t = PnpmEnd(s)
    PROVE  Accounts(PnpmSettled(read), PnpmSought(read), s, t) /\ ~t.ending
<1> DEFINE keys == PnpmSeen(read)
           closed == Closed(read, keys, PnpmKinds)
           c == LastBefore(read, Len(read) + 1, PnpmKinds)
<1>1. keys \in SUBSET (1 .. Len(read)) /\ \A k \in keys : read[k][1] \in PnpmKinds
    BY PnpmSeenIs
<1>2. keys = closed \cup ({c} \cap keys)
    BY ONLY <1>1, read \in Seq(PnpmLines), AllButLast
<1>3. ASSUME c \in keys PROVE s.pending # ""
    <2>1. c = PnpmLast(read)
        BY DEF PnpmLast
    <2> HIDE DEF c
    <2>2. s.pending = read[c][2]
        BY <1>3, <2>1 DEF PnpmFits
    <2>3. read[c] \in PnpmLines /\ read[c][1] = "key"
        BY <1>3, PnpmSeenIs
    <2> QED BY <2>2, <2>3, PnpmLineIs
<1> HIDE DEF keys, closed, c
<1>4. /\ PnpmSought(read) = {PnpmPackage(read, k) : k \in keys}
      /\ PnpmSettled(read) = {PnpmPackage(read, k) : k \in closed}
    BY PnpmSoughtIs DEF PnpmSettled, closed, keys
<1>5. PnpmSettled(read) \subseteq PnpmSought(read) /\ (c \notin keys => PnpmSought(read) = PnpmSettled(read))
    BY <1>2, <1>4
<1>6. s \in PnpmShape
    BY DEF PnpmFits
<1>7. /\ t.emit = {} /\ t.tried = FALSE /\ t.stop = FALSE /\ t.ending = FALSE
      /\ t.counted = (s.counted \/ s.pending # "" \/ ~s.version_seen) /\ s.counted \in BOOLEAN
    BY <1>6 DEF PnpmEnd, PnpmClose, PnpmShape, Count
<1> QED BY <1>3, <1>5, <1>7 DEF Accounts, Reports, Says

------------------------------------------------------------------------------
(* Entries that stand for themselves. *)

\* The readers that keep nothing from one entry to the next.
EntryReaders == {"npm", "cargo", "go", "uv", "poetry", "requirements", "gradle", "composer.lock",
                 "composer.json", "packages.lock", "packages.config"}

\* What comes of an entry: nothing to report, counted, or the package it locks.
Outcome(before, after, s, t) ==
    \/ t = s /\ after = before
    \/ t = Count(s) /\ before \subseteq after
    \/ \E p : t = Emit(s, p) /\ after = before \cup {p}

LEMMA OutcomeSays ==
    ASSUME NEW before, NEW after, NEW s \in Quiet, NEW t, Outcome(before, after, s, t)
    PROVE  Accounts(before, after, s, t) /\ Silent(t) \in Quiet
<1>1. CASE t = s /\ after = before
    BY <1>1 DEF Quiet, Accounts, Reports, Says, Silent
<1>2. CASE t = Count(s) /\ before \subseteq after
    BY <1>2 DEF Quiet, Accounts, Reports, Says, Silent, Count
<1>3. ASSUME NEW p, t = Emit(s, p), after = before \cup {p}
      PROVE  Accounts(before, after, s, t) /\ Silent(t) \in Quiet
    BY <1>3 DEF Quiet, Accounts, Reports, Says, Silent, Emit
<1> QED BY <1>1, <1>2, <1>3 DEF Outcome

LEMMA ElementsGrow ==
    ASSUME NEW S, NEW read \in Seq(S), NEW x \in S
    PROVE  Elements(Append(read, x)) = Elements(read) \cup {x}
<1>1. /\ Len(Append(read, x)) = Len(read) + 1
      /\ \A k \in 1 .. Len(read) : Append(read, x)[k] = read[k]
      /\ Append(read, x)[Len(read) + 1] = x
    OBVIOUS
<1>2. 1 .. Len(read) + 1 = (1 .. Len(read)) \cup {Len(read) + 1}
    OBVIOUS
<1> QED BY <1>1, <1>2 DEF Elements

LEMMA NpmOutcome ==
    ASSUME NEW read \in Seq(NpmEntries), NEW x \in NpmEntries, NEW s
    PROVE  Outcome(NpmLocked(read), NpmLocked(Append(read, x)), s, NpmEntry(s, x))
<1> DEFINE Locks(e) == e.key = "installed" /\ e.link # "true"
           Package(e) == [scope |-> IF e.dev = "true" THEN "Excluded" ELSE "Required"]
<1>1. Elements(Append(read, x)) = Elements(read) \cup {x}
    BY ElementsGrow
<1>2. NpmLocked(Append(read, x)) = NpmLocked(read) \cup (IF Locks(x) THEN {Package(x)} ELSE {})
    BY <1>1 DEF NpmLocked
<1>3. x.key \in {"installed", "root", "workspace"} /\ x.version \in BOOLEAN
    <2>1. CASE x \in [key : {"installed"}, link : {"absent", "true", "odd"}, version : {TRUE}, dev : {"absent"}]
        BY <2>1
    <2>2. CASE x \in [key : {"installed"}, link : {"absent"}, version : {TRUE}, dev : {"true", "odd"}]
        BY <2>2
    <2>3. CASE x \in [key : {"root", "workspace"}, link : {"absent"}, version : BOOLEAN, dev : {"absent"}]
        BY <2>3
    <2>4. CASE x = [key |-> "installed", link |-> "absent", version |-> FALSE, dev |-> "absent"]
        BY <2>4
    <2> QED BY <2>1, <2>2, <2>3, <2>4 DEF NpmEntries
<1>4. CASE x.key = "root"
    <2>1. NpmEntry(s, x) = s /\ ~Locks(x)
        BY <1>4 DEF NpmEntry
    <2> QED BY <2>1, <1>2 DEF Outcome
<1>5. CASE x.key # "root" /\ (x.link = "true" \/ ~x.version \/ x.key = "workspace")
    <2>1. NpmEntry(s, x) = Count(s)
        BY <1>5 DEF NpmEntry
    <2> QED BY <2>1, <1>2 DEF Outcome
<1>6. CASE x.key = "installed" /\ x.link # "true" /\ x.version
    <2>1. NpmEntry(s, x) = Emit(s, Package(x)) /\ Locks(x)
        BY <1>6 DEF NpmEntry
    <2> QED BY <2>1, <1>2 DEF Outcome
<1> QED BY <1>3, <1>4, <1>5, <1>6

LEMMA ListedGrows ==
    ASSUME NEW S, NEW read \in Seq(S), NEW x \in S
    PROVE  Listed(Append(read, x)) = Listed(read) \cup (IF x.listed THEN {x} ELSE {})
<1>1. Elements(Append(read, x)) = Elements(read) \cup {x}
    BY ElementsGrow
<1> QED BY <1>1 DEF Listed

LEMMA CargoOutcome ==
    ASSUME NEW read \in Seq(CargoEntries), NEW x \in CargoEntries, NEW s
    PROVE  Outcome(CargoPackages(Listed(read)), CargoPackages(Listed(Append(read, x))), s, CargoEntry(s, x))
<1> DEFINE Package(e) == [hash |-> e.checksum = "sha256"]
<1>1. Listed(Append(read, x)) = Listed(read) \cup (IF x.listed THEN {x} ELSE {})
    BY ListedGrows
<1>2. CargoPackages(Listed(Append(read, x))) =
          CargoPackages(Listed(read)) \cup (IF x.listed /\ x.source THEN {Package(x)} ELSE {})
    BY <1>1 DEF CargoPackages
<1>3. x.listed \in BOOLEAN /\ x.source \in BOOLEAN /\ x.named \in BOOLEAN
    BY DEF CargoEntries
<1>4. \/ CargoEntry(s, x) = s /\ ~(x.listed /\ x.source)
      \/ CargoEntry(s, x) = Count(s)
      \/ CargoEntry(s, x) = Emit(s, Package(x)) /\ x.listed /\ x.source
    BY <1>3 DEF CargoEntry
<1> QED BY <1>2, <1>4 DEF Outcome

LEMMA GoOutcome ==
    ASSUME NEW read \in Seq(GoLines), NEW x \in GoLines, NEW s
    PROVE  Outcome(GoLocked(read), GoLocked(Append(read, x)), s, GoLine(s, x))
<1> DEFINE Package(l) == [name |-> l[2]]
           Of(set) == {Package(l) : l \in {e \in set : e[1] = "zip"}}
<1>1. Elements(Append(read, x)) = Elements(read) \cup {x}
    BY ElementsGrow
<1>2. GoLocked(read) = Of(Elements(read)) /\ GoLocked(Append(read, x)) = Of(Elements(Append(read, x)))
    BY DEF GoLocked, Elements
<1>3. GoLocked(Append(read, x)) = GoLocked(read) \cup (IF x[1] = "zip" THEN {Package(x)} ELSE {})
    BY <1>1, <1>2
<1>4. \/ GoLine(s, x) = s /\ x[1] # "zip"
      \/ GoLine(s, x) = Count(s)
      \/ GoLine(s, x) = Emit(s, Package(x)) /\ x[1] = "zip"
    BY DEF GoLine, GoLines
<1> QED BY <1>3, <1>4 DEF Outcome

LEMMA UvOutcome ==
    ASSUME NEW read \in Seq(UvEntries), NEW x \in UvEntries, NEW s
    PROVE  Outcome(UvPackages(Listed(read)), UvPackages(Listed(Append(read, x))), s, UvEntry(s, x))
<1> DEFINE Package(e) == [scope |-> "Required"]
<1>1. Listed(Append(read, x)) = Listed(read) \cup (IF x.listed THEN {x} ELSE {})
    BY ListedGrows
<1>2. UvPackages(Listed(Append(read, x))) =
          UvPackages(Listed(read)) \cup (IF x.listed /\ ~x.member THEN {Package(x)} ELSE {})
    <2>1. \A entries : UvPackages(entries) =
              IF \E e \in entries : ~e.member THEN {[scope |-> "Required"]} ELSE {}
        BY Zenon DEF UvPackages
    <2> QED BY <1>1, <2>1
<1>3. x.listed \in BOOLEAN /\ x.member \in BOOLEAN /\ x.table \in BOOLEAN /\ x.named \in BOOLEAN
    <2>1. CASE x \in [listed : BOOLEAN, table : {TRUE}, member : BOOLEAN, named : BOOLEAN]
        BY <2>1
    <2>2. CASE x = [listed |-> TRUE, table |-> FALSE, member |-> FALSE, named |-> FALSE]
        BY <2>2
    <2> QED BY <2>1, <2>2 DEF UvEntries
<1>4. \/ UvEntry(s, x) = s /\ ~(x.listed /\ ~x.member)
      \/ UvEntry(s, x) = Count(s)
      \/ UvEntry(s, x) = Emit(s, Package(x)) /\ x.listed /\ ~x.member
    BY <1>3 DEF UvEntry
<1> QED BY <1>2, <1>4 DEF Outcome

LEMMA PoetryOutcome ==
    ASSUME NEW read \in Seq(PoetryEntries), NEW x \in PoetryEntries, NEW s
    PROVE  Outcome(PoetryPackages(Listed(read)), PoetryPackages(Listed(Append(read, x))), s, PoetryEntry(s, x))
<1> DEFINE Said_so(e) == IF {e.groups, e.category} \cap {"main", "none"} = {} /\ "dev" \in {e.groups, e.category}
                         THEN "Excluded" ELSE "Required"
           Package(e) == [scope |-> Said_so(e)]
<1>1. Listed(Append(read, x)) = Listed(read) \cup (IF x.listed THEN {x} ELSE {})
    BY ListedGrows
<1>2. PoetryPackages(Listed(Append(read, x))) =
          PoetryPackages(Listed(read)) \cup (IF x.listed THEN {Package(x)} ELSE {})
    BY <1>1 DEF PoetryPackages
<1>3. PoetryScope(x) = Said_so(x)
    BY DEF PoetryScope, PoetryEntries
<1>4. x.listed \in BOOLEAN /\ x.named \in BOOLEAN
    BY DEF PoetryEntries
<1>5. \/ PoetryEntry(s, x) = s /\ ~x.listed
      \/ PoetryEntry(s, x) = Count(s)
      \/ PoetryEntry(s, x) = Emit(s, Package(x)) /\ x.listed
    BY <1>3, <1>4 DEF PoetryEntry
<1> QED BY <1>2, <1>5 DEF Outcome

LEMMA RequirementsOutcome ==
    ASSUME NEW read \in Seq(RequirementsLines), NEW x \in RequirementsLines, NEW s
    PROVE  Outcome(RequirementsLocked(read), RequirementsLocked(Append(read, x)), s, RequirementsLine(s, x))
<1> DEFINE Locks(l) == l[1] \in {"pin", "range", "bare"}
           Package(l) == [name |-> Normalized(l[2]), confidence |-> IF l[1] = "pin" THEN "High" ELSE "Low"]
<1>1. Elements(Append(read, x)) = Elements(read) \cup {x}
    BY ElementsGrow
<1>2. RequirementsLocked(Append(read, x)) =
          RequirementsLocked(read) \cup (IF Locks(x) THEN {Package(x)} ELSE {})
    BY <1>1 DEF RequirementsLocked
<1>3. \/ RequirementsLine(s, x) = Count(s)
      \/ RequirementsLine(s, x) = Emit(s, Package(x)) /\ Locks(x)
    BY DEF RequirementsLine
<1> QED BY <1>2, <1>3 DEF Outcome

LEMMA GradleOutcome ==
    ASSUME NEW read \in Seq(GradleLines), NEW x \in GradleLines, NEW s
    PROVE  Outcome(GradleLocked(read), GradleLocked(Append(read, x)), s, GradleLine(s, x))
<1> DEFINE Package(l) == [scope |-> IF l[2] # {} /\ "runtime" \notin l[2] THEN "Excluded" ELSE "Required"]
<1>1. Elements(Append(read, x)) = Elements(read) \cup {x}
    BY ElementsGrow
<1>2. GradleLocked(Append(read, x)) =
          GradleLocked(read) \cup (IF x[1] = "coordinate" THEN {Package(x)} ELSE {})
    BY <1>1 DEF GradleLocked
<1>3. x[1] = "coordinate" => x[2] \subseteq {"test", "runtime"}
    <2>1. CASE x \in {<<"coordinate", c>> : c \in SUBSET {"test", "runtime"}}
        <3>1. PICK c \in SUBSET {"test", "runtime"} : x = <<"coordinate", c>>
            BY <2>1
        <3> QED BY <3>1
    <2>2. CASE x \in {<<"empty", {"test"}>>, <<"garbled", {}>>}
        BY <2>2
    <2> QED BY <2>1, <2>2 DEF GradleLines
<1>4. x[1] = "coordinate" => [scope |-> GradleScope(x[2])] = Package(x)
    <2>1. x[2] \subseteq {"test", "runtime"} =>
              (x[2] = {"test"} <=> x[2] # {} /\ "runtime" \notin x[2])
        OBVIOUS
    <2> QED BY <1>3, <2>1 DEF GradleScope
<1>5. \/ GradleLine(s, x) = s /\ x[1] # "coordinate"
      \/ GradleLine(s, x) = Count(s)
      \/ GradleLine(s, x) = Emit(s, [scope |-> GradleScope(x[2])]) /\ x[1] = "coordinate"
    BY DEF GradleLine, GradleLines
<1> QED BY <1>2, <1>4, <1>5 DEF Outcome

LEMMA ComposerOutcome ==
    ASSUME NEW read \in Seq(ComposerEntries), NEW x \in ComposerEntries, NEW s
    PROVE  Outcome(ComposerPackages(Listed(read)), ComposerPackages(Listed(Append(read, x))), s, ComposerEntry(s, x))
<1> DEFINE Package(e) == [name |-> e.name, versioned |-> TRUE, scope |-> ArrayScope(e)]
<1>1. Listed(Append(read, x)) = Listed(read) \cup (IF x.listed THEN {x} ELSE {})
    BY ListedGrows
<1>2. ComposerPackages(Listed(Append(read, x))) =
          ComposerPackages(Listed(read)) \cup (IF x.listed THEN {Package(x)} ELSE {})
    BY <1>1 DEF ComposerPackages
<1>3. x.listed \in BOOLEAN /\ x.version \in BOOLEAN
    BY DEF ComposerEntries
<1>4. \/ ComposerEntry(s, x) = s /\ ~x.listed
      \/ ComposerEntry(s, x) = Count(s)
      \/ ComposerEntry(s, x) = Emit(s, Package(x)) /\ x.listed
    BY <1>3 DEF ComposerEntry
<1> QED BY <1>2, <1>4 DEF Outcome

LEMMA ManifestOutcome ==
    ASSUME NEW read \in Seq(ManifestEntries), NEW x \in ManifestEntries, NEW s
    PROVE  Outcome(ManifestLocked(read), ManifestLocked(Append(read, x)), s, ManifestEntry(s, x))
<1> DEFINE Package(e) == [name |-> e.name, versioned |-> FALSE, scope |-> ArrayScope(e)]
<1>1. Elements(Append(read, x)) = Elements(read) \cup {x}
    BY ElementsGrow
<1>2. ManifestLocked(Append(read, x)) =
          ManifestLocked(read) \cup (IF x.name # "php" THEN {Package(x)} ELSE {})
    BY <1>1 DEF ManifestLocked
<1>3. \/ ManifestEntry(s, x) = Count(s)
      \/ ManifestEntry(s, x) = Emit(s, Package(x)) /\ x.name # "php"
    BY DEF ManifestEntry
<1> QED BY <1>2, <1>3 DEF Outcome

LEMMA PackagesLockOutcome ==
    ASSUME NEW read \in Seq(PackagesLockEntries), NEW x \in PackagesLockEntries, NEW s
    PROVE  Outcome(PackagesLockLocked(read), PackagesLockLocked(Append(read, x)), s, PackagesLockEntry(s, x))
<1> DEFINE Package(e) == [type |-> e.type, confidence |-> "High"]
<1>1. Elements(Append(read, x)) = Elements(read) \cup {x}
    BY ElementsGrow
<1>2. PackagesLockLocked(Append(read, x)) =
          PackagesLockLocked(read) \cup (IF x.type # "Project" THEN {Package(x)} ELSE {})
    BY <1>1 DEF PackagesLockLocked
<1>3. \/ PackagesLockEntry(s, x) = s /\ x.type = "Project"
      \/ PackagesLockEntry(s, x) = Count(s)
      \/ PackagesLockEntry(s, x) = Emit(s, Package(x)) /\ x.type # "Project"
    BY DEF PackagesLockEntry, PackagesLockEntries
<1> QED BY <1>2, <1>3 DEF Outcome

LEMMA PackagesConfigOutcome ==
    ASSUME NEW read \in Seq(PackagesConfigEntries), NEW x \in PackagesConfigEntries, NEW s
    PROVE  Outcome(PackagesConfigLocked(read), PackagesConfigLocked(Append(read, x)), s, PackagesConfigEntry(s, x))
<1> DEFINE Package(e) == [type |-> "Direct", confidence |-> "Medium"]
<1>1. Elements(Append(read, x)) = Elements(read) \cup {x}
    BY ElementsGrow
<1>2. PackagesConfigLocked(Append(read, x)) = PackagesConfigLocked(read) \cup {Package(x)}
    BY <1>1 DEF PackagesConfigLocked
<1>3. PackagesConfigEntry(s, x) = Count(s) \/ PackagesConfigEntry(s, x) = Emit(s, Package(x))
    BY DEF PackagesConfigEntry
<1> QED BY <1>2, <1>3 DEF Outcome

LEMMA EntryOutcome ==
    ASSUME NEW f \in EntryReaders, NEW read \in Seq(Alphabet(f, 1)), NEW x \in Alphabet(f, 1), NEW s
    PROVE  Outcome(Sought(f, read), Sought(f, Append(read, x)), s, Read(f, s, x))
<1>1. CASE f = "npm" BY <1>1, NpmOutcome DEF Alphabet, Sought, Locked, Read
<1>2. CASE f = "cargo" BY <1>2, CargoOutcome DEF Alphabet, Sought, Locked, Read
<1>3. CASE f = "go" BY <1>3, GoOutcome DEF Alphabet, Sought, Locked, Read
<1>4. CASE f = "uv" BY <1>4, UvOutcome DEF Alphabet, Sought, Locked, Read
<1>5. CASE f = "poetry" BY <1>5, PoetryOutcome DEF Alphabet, Sought, Locked, Read
<1>6. CASE f = "requirements" BY <1>6, RequirementsOutcome DEF Alphabet, Sought, Locked, Read
<1>7. CASE f = "gradle" BY <1>7, GradleOutcome DEF Alphabet, Sought, Locked, Read
<1>8. CASE f = "composer.lock" BY <1>8, ComposerOutcome DEF Alphabet, Sought, Locked, Read
<1>9. CASE f = "composer.json" BY <1>9, ManifestOutcome DEF Alphabet, Sought, Locked, Read
<1>10. CASE f = "packages.lock" BY <1>10, PackagesLockOutcome DEF Alphabet, Sought, Locked, Read
<1>11. CASE f = "packages.config" BY <1>11, PackagesConfigOutcome DEF Alphabet, Sought, Locked, Read
<1> QED BY <1>1, <1>2, <1>3, <1>4, <1>5, <1>6, <1>7, <1>8, <1>9, <1>10, <1>11 DEF EntryReaders

------------------------------------------------------------------------------
(* What a file locks. *)

\* The readers. Two of those that keep something from one line to the next are at the
\* mercy of a key outside the YAML subset.
YamlReaders == {f \in {"pub", "pnpm"} : ~UnreadableKeys}
Readers == EntryReaders \cup {"rubygems", "classic", "berry"} \cup YamlReaders

\* The ecosystems that have no other reader.
Lockfiles == {"npm", "cargo", "go", "rubygems", "yarn", "python", "composer", "nuget"} \cup YamlReaders

\* The packages whose lines no further line can change.
Settled(f, read) ==
    CASE f = "classic" -> ClassicSettled(read) [] f = "pub" -> PubSettled(read)
      [] f = "pnpm" -> PnpmSettled(read) [] OTHER -> Sought(f, read)

\* What its locals say of the lines it has read.
Fits(f, read, s) ==
    CASE f = "rubygems" -> GemFits(read, s) [] f = "berry" -> BerryFits(read, s)
      [] f = "classic" -> ClassicFits(read, s) [] f = "pub" -> PubFits(read, s)
      [] f = "pnpm" -> PnpmFits(read, s) [] OTHER -> s \in Quiet

LEMMA ReadersAre ==
    ASSUME NEW f \in Readers
    PROVE  \/ f \in EntryReaders /\ f \notin {"rubygems", "berry", "classic", "pub", "pnpm"}
           \/ f \in {"rubygems", "berry", "classic"}
           \/ f \in {"pub", "pnpm"} /\ ~UnreadableKeys
BY DEF Readers, EntryReaders, YamlReaders

\* Before the first line.
LEMMA StartFits ==
    ASSUME NEW f \in Readers
    PROVE  Fits(f, <<>>, Start(f)) /\ Sought(f, <<>>) = {}
<1>1. CASE f \in EntryReaders
    <2>1. Start(f) = Said /\ f \notin {"rubygems", "berry", "classic", "pub", "pnpm"}
        BY <1>1 DEF Start, EntryReaders
    <2>2. Said \in Quiet
        BY DEF Said, Quiet
    <2>3. Elements(<<>>) = {}
        BY DEF Elements
    <2>4. GoLocked(<<>>) = {}
        BY DEF GoLocked
    <2>5. Sought(f, <<>>) = {}
        <3>1. Listed(<<>>) = {}
            BY <2>3 DEF Listed
        <3> QED BY <1>1, <2>3, <2>4, <3>1 DEF EntryReaders, Sought, Locked, NpmLocked, CargoPackages, UvPackages,
            PoetryPackages, RequirementsLocked, GradleLocked, ComposerPackages, ManifestLocked, PackagesLockLocked,
            PackagesConfigLocked
    <2> QED BY <2>1, <2>2, <2>5 DEF Fits
<1>2. CASE f = "rubygems"
    BY <1>2, GemStartFits DEF Fits, Start, Sought, Locked
<1>3. CASE f = "berry"
    BY <1>3, BerryStartFits DEF Fits, Start, Sought, Locked
<1>4. CASE f = "classic"
    BY <1>4, ClassicStartFits DEF Fits, Start, Sought, Locked
<1>5. CASE f = "pub"
    BY <1>5, PubStartFits DEF Fits, Start, Sought, Locked
<1>6. CASE f = "pnpm"
    BY <1>6, PnpmStartFits DEF Fits, Start, Sought, Locked
<1> QED BY <1>1, <1>2, <1>3, <1>4, <1>5, <1>6, ReadersAre

LEMMA FitsCounts ==
    ASSUME NEW f \in Readers, NEW read, NEW t, Fits(f, read, Silent(t))
    PROVE  Silent(t).counted = t.counted
<1> DEFINE u == Silent(t)
<1>1. "counted" \in DOMAIN u
    <2> HIDE DEF u
    <2>1. Fits(f, read, u)
        BY DEF u
    <2>2. CASE f \in EntryReaders
        BY <2>1, <2>2 DEF Fits, Quiet, EntryReaders
    <2>3. CASE f = "rubygems"
        BY <2>1, <2>3 DEF Fits, GemFits
    <2>4. CASE f = "berry"
        BY <2>1, <2>4 DEF Fits, BerryFits
    <2>5. CASE f = "classic"
        BY <2>1, <2>5 DEF Fits, ClassicFits
    <2>6. CASE f = "pub"
        BY <2>1, <2>6 DEF Fits, PubFits, PubShape
    <2>7. CASE f = "pnpm"
        BY <2>1, <2>7 DEF Fits, PnpmFits, PnpmShape
    <2> QED BY <2>2, <2>3, <2>4, <2>5, <2>6, <2>7, ReadersAre
<1> QED BY <1>1, SilentCounts

\* At each line: it reports what it settles, and its locals say what the lines so far
\* do, unless the reader gives up.
LEMMA LineFits ==
    ASSUME NEW f \in Readers, NEW read \in Seq(Alphabet(f, 1)), NEW x \in Alphabet(f, Len(read) + 1), NEW s,
           Fits(f, read, s),
           NEW t, t = Read(f, s, x), NEW after, after = Append(read, x)
    PROVE  /\ Accounts(Settled(f, read), Settled(f, after), s, t)
           /\ t.stop \/ Fits(f, after, Silent(t))
<1>1. CASE f \in EntryReaders
    <2>1. x \in Alphabet(f, 1) /\ f \notin {"rubygems", "berry", "classic", "pub", "pnpm"}
        BY <1>1 DEF Alphabet, EntryReaders
    <2>2. Outcome(Sought(f, read), Sought(f, after), s, t)
        BY <1>1, <2>1, EntryOutcome
    <2>3. s \in Quiet
        BY <2>1 DEF Fits
    <2>4. Accounts(Sought(f, read), Sought(f, after), s, t) /\ Silent(t) \in Quiet
        BY ONLY <2>2, <2>3, OutcomeSays
    <2> QED BY <2>1, <2>4 DEF Settled, Fits
<1>2. CASE f = "rubygems"
    <2>1. read \in Seq(GemLines) /\ x \in GemLines /\ GemFits(read, s) /\ t = GemLine(s, x)
        BY <1>2 DEF Alphabet, Fits, Read
    <2>2. Accounts(GemLocked(read), GemLocked(after), s, t) /\ GemFits(after, Silent(t))
        BY ONLY <2>1, after = Append(read, x), GemLineFits
    <2> QED BY <1>2, <2>2 DEF Settled, Sought, Locked, Fits
<1>3. CASE f = "berry"
    <2>1. read \in Seq(BerryLines) /\ x \in BerryLines /\ BerryFits(read, s) /\ t = BerryLine(s, x)
        BY <1>3 DEF Alphabet, Fits, Read
    <2>2. Accounts(BerryLocked(read), BerryLocked(after), s, t) /\ BerryFits(after, Silent(t))
        BY ONLY <2>1, after = Append(read, x), BerryLineFits
    <2> QED BY <1>3, <2>2 DEF Settled, Sought, Locked, Fits
<1>4. CASE f = "classic"
    <2>1. read \in Seq(ClassicLines) /\ x \in ClassicLines /\ ClassicFits(read, s) /\ t = ClassicLine(s, x)
        BY <1>4 DEF Alphabet, Fits, Read
    <2>2. Accounts(ClassicSettled(read), ClassicSettled(after), s, t) /\ ClassicFits(after, Silent(t))
        BY ONLY <2>1, after = Append(read, x), ClassicLineFits
    <2> QED BY <1>4, <2>2 DEF Settled, Fits
<1>5. CASE f = "pub"
    <2>1. ~UnreadableKeys /\ read \in Seq(PubLines) /\ x \in PubLines /\ PubFits(read, s) /\ t = PubLine(s, x)
        BY <1>5, ReadersAre DEF Alphabet, Fits, Read
    <2>2. Accounts(PubSettled(read), PubSettled(after), s, t) /\ PubFits(after, Silent(t))
        BY ONLY <2>1, after = Append(read, x), PubLineFits
    <2> QED BY <1>5, <2>2 DEF Settled, Fits
<1>6. CASE f = "pnpm"
    <2>1. ~UnreadableKeys /\ read \in Seq(PnpmLines) /\ x \in PnpmLines /\ PnpmFits(read, s) /\ t = PnpmLine(s, x)
        BY <1>6, ReadersAre DEF Alphabet, Fits, Read
    <2>2. Accounts(PnpmSettled(read), PnpmSettled(after), s, t) /\ (t.stop \/ PnpmFits(after, Silent(t)))
        BY ONLY <2>1, after = Append(read, x), PnpmLineFits
    <2> QED BY <1>6, <2>2 DEF Settled, Fits
<1> QED BY <1>1, <1>2, <1>3, <1>4, <1>5, <1>6, ReadersAre

\* After the last line.
LEMMA EndFits ==
    ASSUME NEW f \in Readers, NEW read \in Seq(Alphabet(f, 1)), NEW s,
           Fits(f, read, s),
           NEW t, t = Ended(f, s)
    PROVE  Accounts(Settled(f, read), Sought(f, read), s, t) /\ ~t.ending
<1>1. CASE f \in EntryReaders
    <2>1. t = s /\ s \in Quiet /\ f \notin {"rubygems", "berry", "classic", "pub", "pnpm"}
        BY <1>1 DEF Ended, EntryReaders, Fits
    <2> QED BY <2>1 DEF Quiet, Accounts, Reports, Says, Settled
<1>2. CASE f = "rubygems"
    <2>1. GemFits(read, s) /\ t = GemEnd(s)
        BY <1>2 DEF Fits, Ended, GemEnd
    <2>2. Accounts(GemLocked(read), GemLocked(read), s, t) /\ ~t.ending
        BY ONLY <2>1, GemEndFits
    <2> QED BY <1>2, <2>2 DEF Accounts, Settled, Sought, Locked
<1>3. CASE f = "berry"
    <2>1. BerryFits(read, s) /\ t = BerryEnd(s)
        BY <1>3 DEF Fits, Ended
    <2>2. Accounts(BerryLocked(read), BerryLocked(read), s, t) /\ ~t.ending
        BY ONLY <2>1, BerryEndFits
    <2> QED BY <1>3, <2>2 DEF Accounts, Settled, Sought, Locked
<1>4. CASE f = "classic"
    <2>1. read \in Seq(ClassicLines) /\ ClassicFits(read, s) /\ t = ClassicEnd(s)
        BY <1>4 DEF Alphabet, Fits, Ended
    <2>2. Accounts(ClassicSettled(read), ClassicLocked(read), s, t) /\ ~t.ending
        BY ONLY <2>1, ClassicEndFits
    <2> QED BY <1>4, <2>2 DEF Accounts, Settled, Sought, Locked
<1>5. CASE f = "pub"
    <2>1. read \in Seq(PubLines) /\ PubFits(read, s) /\ t = PubEnd(s)
        BY <1>5 DEF Alphabet, Fits, Ended
    <2>2. Accounts(PubSettled(read), PubLocked(read), s, t) /\ ~t.ending
        BY ONLY <2>1, PubEndFits
    <2> QED BY <1>5, <2>2 DEF Accounts, Settled, Sought, Locked
<1>6. CASE f = "pnpm"
    <2>1. ~UnreadableKeys /\ read \in Seq(PnpmLines) /\ PnpmFits(read, s) /\ t = PnpmEnd(s)
        BY <1>6, ReadersAre DEF Alphabet, Fits, Ended
    <2>2. Accounts(PnpmSettled(read), PnpmSought(read), s, t) /\ ~t.ending
        BY ONLY <2>1, PnpmEndFits
    <2> QED BY <1>6, <2>2 DEF Settled, Sought
<1> QED BY <1>1, <1>2, <1>3, <1>4, <1>5, <1>6, ReadersAre

\* What may come first may come anywhere.
LEMMA AlphabetOfLines ==
    ASSUME NEW f \in Readers, NEW k
    PROVE  Alphabet(f, k) \subseteq Alphabet(f, 1)
BY ReadersAre DEF Alphabet, EntryReaders

\* What is settled is sought, and what is sought is locked.
LEMMA SettledIsSought ==
    ASSUME NEW f \in Readers, NEW read
    PROVE  Settled(f, read) \subseteq Sought(f, read)
<1>1. CASE f = "classic"
    BY <1>1, ClassicLockedIs DEF Settled, Sought, Locked, ClassicSettled, Closed
<1>2. CASE f = "pub"
    BY <1>2, PubLockedIs DEF Settled, Sought, Locked, PubSettled, PubPackages, Closed
<1>3. CASE f = "pnpm"
    BY <1>3, PnpmSoughtIs DEF Settled, Sought, PnpmSettled, Closed
<1>4. CASE f \notin {"classic", "pub", "pnpm"}
    BY <1>4 DEF Settled
<1> QED BY <1>1, <1>2, <1>3, <1>4

LEMMA SoughtIsLocked ==
    ASSUME NEW f, NEW read
    PROVE  Sought(f, read) \subseteq Locked(f, read)
<1>1. Listed(read) \subseteq Elements(read)
    BY DEF Listed
<1>2. CASE f = "pnpm"
    BY <1>2, PnpmSoughtIsLocked DEF Sought, Locked
<1>3. CASE f = "cargo"
    BY <1>1, <1>3 DEF Sought, Locked, CargoLocked, CargoPackages
<1>4. CASE f = "uv"
    BY <1>1, <1>4 DEF Sought, Locked, UvLocked, UvPackages
<1>5. CASE f = "poetry"
    BY <1>1, <1>5 DEF Sought, Locked, PoetryLocked, PoetryPackages
<1>6. CASE f = "composer.lock"
    BY <1>1, <1>6 DEF Sought, Locked, ComposerLocked, ComposerPackages
<1>7. CASE f \notin {"pnpm", "cargo", "uv", "poetry", "composer.lock"}
    BY <1>7 DEF Sought
<1> QED BY <1>2, <1>3, <1>4, <1>5, <1>6, <1>7

------------------------------------------------------------------------------
(* The invariant of the files. *)

IndexKnown ==
    /\ index \in [1 .. MaxFiles -> [name : Readers, dir : {"d", "e"}]]
    /\ \A k \in 1 .. MaxFiles : index[k].name \in Files(format).names

LinesKnown ==
    /\ DOMAIN lines = 1 .. MaxFiles
    /\ \A k \in 1 .. MaxFiles :
          /\ lines[k] \in Seq(Alphabet(index[k].name, 1))
          /\ k > file => lines[k] = <<>>

ReaderFits ==
    pc = "reading" => /\ file > 0
                      /\ Fits(index[file].name, lines[file], reader)

\* A component is a package of a file that was opened, and will stay one.
PackagesOf(k) == IF k = file /\ pc = "reading" THEN Settled(index[k].name, lines[k])
                                              ELSE Sought(index[k].name, lines[k])
FromItsFile ==
    \A c \in components : c = <<c[1], c[2]>> /\ c[1] \in 1 .. file /\ c[2] \in PackagesOf(c[1])

Told(k) == \E w \in warnings : w[1] \in {0, k}

\* What a file locks where its reader looks is there, or a warning tells.
Covered(k) == Told(k) \/ \A p \in Sought(index[k].name, lines[k]) : <<k, p>> \in components

\* What the file being read has locked so far is there, or a warning tells or will.
CoveredSoFar ==
    \/ Told(file) \/ reader.counted
    \/ \A p \in Settled(index[file].name, lines[file]) : <<file, p>> \in components

FilesCovered ==
    pc \in {"next", "reading"} =>
        \A k \in 1 .. file : IF k = file /\ pc = "reading" THEN CoveredSoFar ELSE Covered(k)

FileInv == IndexKnown /\ LinesKnown /\ ReaderFits /\ FromItsFile /\ FilesCovered /\ NothingSilentlyDropped
------------------------------------------------------------------------------
LEMMA NamesAreReaders ==
    ASSUME NEW f \in Lockfiles
    PROVE  Files(f).names \subseteq Readers
<1>1. CASE f \in YamlReaders
    BY <1>1 DEF Files, Readers, YamlReaders, PubFiles, PnpmFiles
<1>2. CASE f \notin YamlReaders
    BY <1>2 DEF Lockfiles, Files, Readers, EntryReaders, NpmFiles, CargoFiles, GoFiles, GemFiles, YarnFiles, PythonFiles,
        ComposerFiles, NugetFiles
<1> QED BY <1>1, <1>2

LEMMA FileInit ==
    ASSUME Formats \subseteq Lockfiles, Init
    PROVE  FileInv
<1>1. Files(format).names \subseteq Readers
    BY NamesAreReaders DEF Init
<1>2. IndexKnown
    BY <1>1 DEF Init, IndexKnown
<1>3. LinesKnown
    BY DEF Init, LinesKnown
<1>4. ReaderFits /\ FromItsFile /\ FilesCovered /\ NothingSilentlyDropped
    BY DEF Init, ReaderFits, FromItsFile, FilesCovered, NothingSilentlyDropped, Returned
<1> QED BY <1>2, <1>3, <1>4 DEF FileInv

\* Of the lines, those of the file that is read are new, and only those.
ReadsOnly(after) ==
    /\ lines'[file] = after /\ DOMAIN lines' = DOMAIN lines
    /\ \A k \in DOMAIN lines \ {file} : lines'[k] = lines[k]

\* A component of another file is of that file still.
LEMMA OthersFromTheirFile ==
    ASSUME IInv, FileInv, pc = "reading", UNCHANGED <<index, file>>, NEW after, ReadsOnly(after),
           NEW c \in components, c[1] # file
    PROVE  c = <<c[1], c[2]>> /\ c[1] \in 1 .. file /\ c[2] \in Sought(index[c[1]].name, lines'[c[1]])
<1>1. c = <<c[1], c[2]>> /\ c[1] \in 1 .. file /\ c[2] \in Sought(index[c[1]].name, lines[c[1]])
    BY DEF FileInv, FromItsFile, PackagesOf
<1>2. lines'[c[1]] = lines[c[1]]
    BY <1>1, FilesAssumption DEF ReadsOnly, IInv, TypeOK, FileInv, LinesKnown
<1> QED BY <1>1, <1>2

\* What a step of a reader says changes the file that is read and no other.
LEMMA SaidKeepsFiles ==
    ASSUME IInv, FileInv, pc = "reading", UNCHANGED <<format, index, openings, file>>,
           NEW name, name = index[file].name,
           NEW after \in Seq(Alphabet(name, 1)), ReadsOnly(after),
           NEW t, NEW last \in BOOLEAN, Said_(t, last), Says(t),
           ~last /\ ~t.stop => Fits(name, after, Silent(t)),
           t.emit \subseteq (IF last THEN Sought(name, after) ELSE Settled(name, after)),
           Settled(name, lines[file]) \subseteq Settled(name, after),
           \/ t.counted
           \/ /\ (IF last THEN Sought(name, after) ELSE Settled(name, after))
                    \subseteq Settled(name, lines[file]) \cup t.emit
              /\ ~reader.counted,
           t.stop => t.counted
    PROVE  FileInv'
<1> DEFINE over == t.tried /\ budget = 0
           leaves == over \/ t.stop \/ last
<1>1. /\ file \in 1 .. MaxFiles /\ name \in Readers /\ name \notin ReadsOn
      /\ DOMAIN lines = 1 .. MaxFiles
    BY DEF IInv, TypeOK, FileInv, ReaderFits, IndexKnown, LinesKnown, Readers, EntryReaders, YamlReaders, ReadsOn
<1>2. /\ components' = IF over THEN components ELSE components \cup ({file} \X t.emit)
      /\ warnings' = warnings \cup (IF over THEN {<<0, "kEntryLimitReached">>} ELSE {})
                              \cup (IF leaves /\ t.counted THEN {<<file, "skipped">>} ELSE {})
      /\ reader' = IF leaves THEN Said ELSE Silent(t)
      /\ pc' = IF leaves THEN "next" ELSE "reading"
    BY <1>1 DEF Said_
<1>3. lines'[file] = after /\ DOMAIN lines' = 1 .. MaxFiles /\ \A k \in 1 .. MaxFiles \ {file} : lines'[k] = lines[k]
    BY <1>1 DEF ReadsOnly
<1>4. IndexKnown'
    BY DEF FileInv, IndexKnown
<1>5. LinesKnown'
    BY <1>1, <1>3 DEF FileInv, LinesKnown
<1>6. ReaderFits'
    BY <1>1, <1>2, <1>3 DEF ReaderFits
<1>7. FromItsFile'
    <2> DEFINE packages == IF leaves THEN Sought(name, after) ELSE Settled(name, after)
    <2>1. Settled(name, after) \subseteq Sought(name, after)
        BY <1>1, SettledIsSought
    <2>2. Settled(name, lines[file]) \subseteq packages /\ (~over => t.emit \subseteq packages)
        BY <2>1
    <2>3. /\ PackagesOf(file)' = packages
          /\ \A k \in 1 .. file \ {file} : PackagesOf(k)' = Sought(index[k].name, lines'[k])
        BY <1>2, <1>3 DEF PackagesOf
    <2>4. ASSUME NEW c \in components, c[1] # file
          PROVE  c = <<c[1], c[2]>> /\ c[1] \in 1 .. file /\ c[2] \in PackagesOf(c[1])'
        BY <2>3, <2>4, OthersFromTheirFile
    <2>5. ASSUME NEW c \in components, c[1] = file
          PROVE  c = <<c[1], c[2]>> /\ c[1] \in 1 .. file /\ c[2] \in PackagesOf(c[1])'
        <3>1. c = <<c[1], c[2]>> /\ c[1] \in 1 .. file /\ c[2] \in Settled(name, lines[file])
            BY <2>5 DEF FileInv, FromItsFile, PackagesOf
        <3> HIDE DEF packages
        <3> QED BY <2>5, <3>1, <2>2, <2>3
    <2>6. ASSUME NEW c \in components', c \notin components
          PROVE  c = <<c[1], c[2]>> /\ c[1] \in 1 .. file /\ c[2] \in PackagesOf(c[1])'
        <3>1. ~over /\ \E p \in t.emit : c = <<file, p>>
            BY <2>6, <1>2
        <3> HIDE DEF packages
        <3> QED BY <3>1, <2>2, <2>3, <1>1
    <2> QED BY <2>4, <2>5, <2>6 DEF FromItsFile
<1>8. ASSUME NEW k, Told(k) PROVE Told(k)'
    BY <1>2, <1>8 DEF Told
<1>9. components \subseteq components'
    BY <1>2
<1>10. ASSUME NEW k \in 1 .. file, k # file PROVE Covered(k)'
    <2>1. Covered(k)
        BY <1>10 DEF FileInv, FilesCovered
    <2>2. lines'[k] = lines[k]
        BY <1>1, <1>3, <1>10, FilesAssumption
    <2> QED BY <2>1, <2>2, <1>8, <1>9 DEF Covered
<1>11. CoveredSoFar
    BY <1>1 DEF FileInv, FilesCovered
<1>12. ASSUME leaves PROVE Covered(file)'
    <2>1. CASE over
        <3>1. <<0, "kEntryLimitReached">> \in warnings'
            BY <2>1, <1>2
        <3> QED BY <3>1 DEF Covered, Told
    <2>2. CASE t.counted
        <3>1. <<file, "skipped">> \in warnings'
            BY <2>2, <1>2, <1>12
        <3>2. <<file, "skipped">>[1] = file'
            OBVIOUS
        <3> QED BY <3>1, <3>2 DEF Covered, Told
    <2>3. CASE ~over /\ ~t.counted
        <3>1. /\ last /\ Sought(name, after) \subseteq Settled(name, lines[file]) \cup t.emit
              /\ ~reader.counted
            BY <2>3, <1>12
        <3>2. CASE Told(file)
            BY <3>2, <1>8 DEF Covered
        <3>3. CASE \A p \in Settled(name, lines[file]) : <<file, p>> \in components
            <4>1. \A p \in Sought(name, after) : <<file, p>> \in components'
                BY <3>1, <3>3, <2>3, <1>2
            <4> QED BY <4>1, <1>3 DEF Covered
        <3> QED BY <3>1, <3>2, <3>3, <1>11 DEF CoveredSoFar
    <2> QED BY <2>1, <2>2, <2>3 DEF Says
<1>13. ASSUME ~leaves PROVE CoveredSoFar'
    <2>1. reader' = Silent(t)
        BY <1>2, <1>13
    <2>2. CASE t.counted
        <3>1. Silent(t).counted = t.counted
            BY <1>1, <1>13, FitsCounts
        <3> QED BY <2>1, <2>2, <3>1 DEF CoveredSoFar
    <2>3. CASE Told(file)
        BY <2>3, <1>8 DEF CoveredSoFar
    <2>4. CASE /\ ~t.counted
               /\ \A p \in Settled(name, lines[file]) : <<file, p>> \in components
        <3>1. \A p \in Settled(name, after) : <<file, p>> \in components'
            BY <2>4, <1>2, <1>13
        <3> QED BY <3>1, <1>3 DEF CoveredSoFar
    <2> QED BY <2>2, <2>3, <2>4, <1>11, <1>13 DEF CoveredSoFar
<1>14. FilesCovered'
    BY <1>2, <1>10, <1>12, <1>13 DEF FilesCovered
<1>15. NothingSilentlyDropped'
    BY <1>2 DEF NothingSilentlyDropped, Returned
<1> QED BY <1>4, <1>5, <1>6, <1>7, <1>14, <1>15 DEF FileInv

\* A file that is passed over or opened has nothing read of it yet.
LEMMA OpenKeepsFiles ==
    ASSUME IInv, FileInv, PassFile \/ OpenFile
    PROVE  FileInv'
<1>1. /\ pc = "next" /\ file' = file + 1 /\ file' \in 1 .. MaxFiles
      /\ UNCHANGED <<format, index, lines, components>>
    BY FilesAssumption DEF PassFile, OpenFile, IInv, TypeOK
<1>2. index[file'].name \in Readers /\ lines[file'] = <<>>
    BY <1>1, FilesAssumption DEF FileInv, IndexKnown, LinesKnown, IInv, TypeOK
<1>3. Fits(index[file'].name, <<>>, Start(index[file'].name)) /\ Sought(index[file'].name, <<>>) = {}
    BY <1>2, StartFits
<1>4. /\ pc' \in {"next", "reading"} /\ warnings \subseteq warnings'
      /\ pc' = "reading" => reader' = Start(index[file'].name)
    <2>1. CASE PassFile
        BY <1>1, <2>1 DEF PassFile
    <2>2. CASE OpenFile
        BY <2>2 DEF OpenFile, Warned
    <2> QED BY <2>1, <2>2
<1>5. IndexKnown' /\ LinesKnown' /\ ReaderFits'
    BY <1>1, <1>2, <1>3, <1>4, FilesAssumption DEF FileInv, IndexKnown, LinesKnown, ReaderFits, IInv, TypeOK
<1>6. FromItsFile'
    <2>1. \A k \in 1 .. file : PackagesOf(k) = Sought(index[k].name, lines[k]) /\ PackagesOf(k)' = PackagesOf(k)
        BY <1>1, FilesAssumption DEF PackagesOf, IInv, TypeOK
    <2>2. 1 .. file \subseteq 1 .. file'
        BY <1>1, FilesAssumption DEF IInv, TypeOK
    <2> QED BY <1>1, <2>1, <2>2 DEF FileInv, FromItsFile
<1>7. ASSUME NEW k \in 1 .. file PROVE Covered(k)'
    <2>1. Covered(k)
        BY <1>1 DEF FileInv, FilesCovered
    <2> QED BY <1>1, <1>4, <2>1 DEF Covered, Told
<1>8. Covered(file)' /\ (pc' = "reading" => CoveredSoFar')
    BY <1>1, <1>2, <1>3, SettledIsSought DEF Covered, CoveredSoFar
<1>9. FilesCovered'
    <2> SUFFICES ASSUME NEW k \in 1 .. file'
                 PROVE  IF k = file' /\ pc' = "reading" THEN CoveredSoFar' ELSE Covered(k)'
        BY DEF FilesCovered
    <2>1. k = file' \/ k \in 1 .. file
        BY <1>1, FilesAssumption DEF IInv, TypeOK
    <2> QED BY <2>1, <1>7, <1>8
<1>10. NothingSilentlyDropped'
    BY <1>4 DEF NothingSilentlyDropped, Returned
<1> QED BY <1>5, <1>6, <1>9, <1>10 DEF FileInv

\* The next line of a file: its reader's outcome, or the read that throws.
LEMMA ItemKeepsFiles ==
    ASSUME IInv, FileInv, ReadItem
    PROVE  FileInv'
<1> DEFINE name == index[file].name
<1>1. /\ pc = "reading" /\ file \in 1 .. MaxFiles /\ name \in Readers
      /\ lines[file] \in Seq(Alphabet(name, 1)) /\ DOMAIN lines = 1 .. MaxFiles
      /\ Fits(name, lines[file], reader)
    <2>1. pc = "reading"
        BY DEF ReadItem
    <2> QED BY <2>1, FilesAssumption DEF IInv, TypeOK, FileInv, ReaderFits, IndexKnown, LinesKnown
<1>2. PICK x \in Alphabet(name, Len(lines[file]) + 1) :
          /\ lines' = [lines EXCEPT ![file] = Append(@, x)]
          /\ IF format = "npm" /\ NpmThrows(x, budget)
             THEN pc' = "thrown" /\ UNCHANGED <<budget, reader, components, warnings, complete>>
             ELSE Said_(Read(name, reader, x), FALSE)
    BY DEF ReadItem
<1>3. x \in Alphabet(name, 1)
    BY <1>1, <1>2, AlphabetOfLines
<1> DEFINE after == Append(lines[file], x)
           t == Read(name, reader, x)
<1>4. /\ after \in Seq(Alphabet(name, 1)) /\ ReadsOnly(after)
      /\ UNCHANGED <<format, index, openings, file>>
    <2>1. after \in Seq(Alphabet(name, 1))
        BY <1>1, <1>3
    <2>2. UNCHANGED <<format, index, openings, file>>
        BY DEF ReadItem
    <2> HIDE DEF name
    <2> QED BY <1>1, <1>2, <2>1, <2>2 DEF ReadsOnly
<1>5. /\ Accounts(Settled(name, lines[file]), Settled(name, after), reader, t)
      /\ t.stop \/ Fits(name, after, Silent(t))
    BY <1>1, <1>2, LineFits
<1> HIDE DEF t, after, name
<1>6. CASE Said_(t, FALSE)
    BY <1>1, <1>4, <1>5, <1>6, SaidKeepsFiles DEF Accounts, Reports, name
<1>7. CASE pc' = "thrown" /\ UNCHANGED <<budget, reader, components, warnings, complete>>
    <2>1. lines'[file] = after /\ DOMAIN lines' = 1 .. MaxFiles /\ \A k \in 1 .. MaxFiles \ {file} : lines'[k] = lines[k]
        BY <1>1, <1>4 DEF ReadsOnly
    <2>2. IndexKnown' /\ LinesKnown' /\ ReaderFits' /\ FilesCovered' /\ NothingSilentlyDropped'
        BY <1>1, <1>4, <1>7, <2>1
        DEF FileInv, IndexKnown, LinesKnown, ReaderFits, FilesCovered, NothingSilentlyDropped, Returned, name
    <2>3. FromItsFile'
        <3>1. \A k \in 1 .. file : PackagesOf(k)' = Sought(index[k].name, lines'[k])
            BY <1>4, <1>7 DEF PackagesOf
        <3>2. ASSUME NEW c \in components, c[1] = file
              PROVE  c = <<c[1], c[2]>> /\ c[1] \in 1 .. file /\ c[2] \in Sought(name, after)
            <4>1. c = <<c[1], c[2]>> /\ c[1] \in 1 .. file /\ c[2] \in Settled(name, lines[file])
                BY <3>2, <1>1 DEF FileInv, FromItsFile, PackagesOf, name
            <4>2. Settled(name, after) \subseteq Sought(name, after)
                BY <1>1, SettledIsSought
            <4> QED BY <4>1, <4>2, <1>5 DEF Accounts, Reports
        <3> QED BY <1>1, <1>4, <1>7, <2>1, <3>1, <3>2, OthersFromTheirFile DEF FromItsFile, name
    <2> QED BY <2>2, <2>3 DEF FileInv
<1> QED BY <1>2, <1>6, <1>7 DEF t, name

LEMMA EndKeepsFiles ==
    ASSUME IInv, FileInv, EndFile
    PROVE  FileInv'
<1> DEFINE name == index[file].name
           t == Ended(name, reader)
<1>1. /\ pc = "reading" /\ file \in 1 .. MaxFiles /\ name \in Readers
      /\ lines[file] \in Seq(Alphabet(name, 1)) /\ DOMAIN lines = 1 .. MaxFiles
      /\ Fits(name, lines[file], reader)
    BY DEF EndFile, IInv, TypeOK, FileInv, ReaderFits, IndexKnown, LinesKnown
<1>2. /\ Accounts(Settled(name, lines[file]), Sought(name, lines[file]), reader, t)
      /\ ~t.ending
    BY <1>1, EndFits
<1>3. Said_(t, TRUE) /\ UNCHANGED <<format, index, openings, file, lines>>
    BY <1>2 DEF EndFile
<1>4. ReadsOnly(lines[file])
    BY <1>3 DEF ReadsOnly
<1> HIDE DEF t, name
<1> QED BY <1>1, <1>2, <1>3, <1>4, SaidKeepsFiles DEF Accounts, Reports, name

\* What composer leaves out gives way to a versioned package of that name, which
\* stays.
LEMMA DroppedGivesWay ==
    ASSUME IInv, FileInv, Return, format = "composer",
           NEW k \in 1 .. file, NEW p, <<k, p>> \in components, <<k, p>> \notin components'
    PROVE  /\ index[k].name = "composer.json"
           /\ \E c \in components' :
                 c[2].versioned /\ c[2].name = p.name /\ (p.scope = "Required" => c[2].scope = "Required")
<1> DEFINE packages == {c[2] : c \in components}
<1>1. components' = {c \in components : c[2] \in DropVersionless(packages)}
    BY DEF Return
<1>2. p \in packages /\ p \notin DropVersionless(packages)
    <2>1. <<k, p>>[2] = p
        OBVIOUS
    <2> QED BY <1>1, <2>1
<1>3. /\ ~p.versioned
      /\ \E v \in packages : v.versioned /\ v.name = p.name /\ (v.scope = "Required" \/ p.scope = "Excluded")
    BY <1>2 DEF DropVersionless
<1>4. PICK v \in packages : v.versioned /\ v.name = p.name /\ (v.scope = "Required" \/ p.scope = "Excluded")
    BY <1>3
<1>5. v \in DropVersionless(packages)
    BY <1>4 DEF DropVersionless
<1>6. PICK c \in components : c[2] = v
    BY <1>4
<1>7. c \in components'
    BY <1>1, <1>5, <1>6
<1>8. index[k].name = "composer.json"
    <2>1. index[k].name \in {"composer.json", "composer.lock"}
        BY FilesAssumption DEF IInv, TypeOK, FileInv, IndexKnown, Files, ComposerFiles
    <2>2. p \in Sought(index[k].name, lines[k])
        <3>1. <<k, p>>[1] = k /\ <<k, p>>[2] = p
            OBVIOUS
        <3> QED BY <3>1 DEF FileInv, FromItsFile, PackagesOf, Return
    <2>3. ASSUME index[k].name = "composer.lock" PROVE FALSE
        BY <2>2, <2>3, <1>3 DEF Sought, ComposerPackages
    <2> QED BY <2>1, <2>3
<1> QED BY <1>4, <1>6, <1>7, <1>8

LEMMA ReturnKeepsFiles ==
    ASSUME IInv, FileInv, Return
    PROVE  FileInv'
<1>1. /\ pc = "next" /\ pc' = "returned" /\ warnings \subseteq warnings' /\ components' \subseteq components
      /\ UNCHANGED <<format, index, file, lines>>
      /\ format # "composer" => components' = components
    BY DEF Return, Warned
<1>2. IndexKnown' /\ LinesKnown' /\ ReaderFits' /\ FromItsFile' /\ FilesCovered'
    BY <1>1 DEF FileInv, IndexKnown, LinesKnown, ReaderFits, FromItsFile, PackagesOf, FilesCovered
<1>3. NothingSilentlyDropped'
    <2> SUFFICES ASSUME NEW k \in 1 .. file, ~(\E w \in warnings' : w[1] \in {0, k}),
                        NEW q \in Sought(index[k].name, lines[k]), <<k, q>> \notin components'
                 PROVE  /\ index[k].name = "composer.json"
                        /\ \A p \in Sought(index[k].name, lines[k]) : <<k, p>> \notin components' =>
                              \E c \in components' :
                                 /\ c[2].versioned /\ c[2].name = p.name
                                 /\ p.scope = "Required" => c[2].scope = "Required"
        BY <1>1 DEF NothingSilentlyDropped, Missing
    <2>1. Covered(k) /\ ~Told(k)
        BY <1>1 DEF FileInv, FilesCovered, Told
    <2>2. ASSUME NEW p \in Sought(index[k].name, lines[k]) PROVE <<k, p>> \in components
        BY <2>1 DEF Covered
    <2>3. format = "composer"
        BY <1>1, <2>2
    <2> QED BY <2>2, <2>3, DroppedGivesWay
<1> QED BY <1>2, <1>3 DEF FileInv

LEMMA NextFileInv == IInv /\ FileInv /\ [Next]_vars => FileInv'
<1>1. FileInv /\ UNCHANGED vars => FileInv'
    <2> SUFFICES ASSUME FileInv, UNCHANGED vars PROVE FileInv'
        OBVIOUS
    <2>1. IndexKnown' /\ LinesKnown'
        BY DEF vars, FileInv, IndexKnown, LinesKnown
    <2>2. ReaderFits'
        BY DEF vars, FileInv, ReaderFits
    <2>3. FromItsFile'
        BY DEF vars, FileInv, FromItsFile, PackagesOf
    <2>4. FilesCovered'
        BY DEF vars, FileInv, FilesCovered, CoveredSoFar, Covered, Told
    <2>5. NothingSilentlyDropped'
        BY DEF vars, FileInv, NothingSilentlyDropped, Missing, Returned
    <2> QED BY <2>1, <2>2, <2>3, <2>4, <2>5 DEF FileInv
<1> QED BY <1>1, OpenKeepsFiles, ItemKeepsFiles, EndKeepsFiles, ReturnKeepsFiles DEF Next

\* Wherever the loop over a file's entries stands, its components are of the files
\* opened so far, and what these lock is there or told (parse() of npm.cpp, cargo.cpp,
\* go.cpp, rubygems.cpp, yarn.cpp, pub.cpp, pnpm.cpp, python.cpp, composer.cpp, nuget.cpp).
THEOREM FilesInvariance == Formats \subseteq Lockfiles => (Spec => [](IInv /\ FileInv))
<1> SUFFICES ASSUME Formats \subseteq Lockfiles PROVE Spec => [](IInv /\ FileInv)
    OBVIOUS
<1>1. Init => IInv /\ FileInv
    BY InitIInv, FileInit
<1>2. IInv /\ FileInv /\ [Next]_vars => (IInv /\ FileInv)'
    BY NextIInv, NextFileInv
<1> QED BY <1>1, <1>2, PTL DEF Spec

\* "degrades to a skip counted in one summary warning" (nuget.cpp): whatever the
\* files hold, how many they are and where a limit is met, a package they lock where
\* their reader looks is in the result or a warning names its file or the limit: not
\* those before the lockfileVersion of a pnpm-lock.yaml (pnpm.cpp:343), and not those
\* in no array of a document (cargo.cpp:95, python.cpp:152, composer.cpp:368). For every
\* lockfile parser but that of Maven; for the YAML ones, of keys within the subset their
\* reader knows.
THEOREM NothingDroppedCorrect == Formats \subseteq Lockfiles => (Spec => []NothingSilentlyDropped)
<1>1. FileInv => NothingSilentlyDropped
    BY DEF FileInv
<1> QED BY <1>1, FilesInvariance, PTL

\* No component of such a file is another file's, or of no entry of it: what a line
\* left in the reader's locals is gone when the entry, the section or the file is
\* (close_pending_entry of pub.cpp and pnpm.cpp, pending_name of yarn.cpp).
THEOREM NoCrossTalkCorrect == Formats \subseteq Lockfiles => (Spec => []NoCrossTalk)
<1>1. IInv /\ FileInv => NoCrossTalk
    <2> SUFFICES ASSUME IInv, FileInv, NEW c \in components
                 PROVE  c[2] \in Sought(index[c[1]].name, lines[c[1]])
        BY SoughtIsLocked DEF NoCrossTalk
    <2>1. c[1] \in 1 .. file /\ c[2] \in PackagesOf(c[1])
        BY DEF FileInv, FromItsFile
    <2>2. CASE c[1] = file /\ pc = "reading"
        <3>1. index[file].name \in Readers
            BY <2>1, <2>2, FilesAssumption DEF FileInv, IndexKnown, IInv, TypeOK
        <3> QED BY <2>1, <2>2, <3>1, SettledIsSought DEF PackagesOf
    <2>3. CASE ~(c[1] = file /\ pc = "reading")
        BY <2>1, <2>3 DEF PackagesOf
    <2> QED BY <2>2, <2>3
<1> QED BY <1>1, FilesInvariance, PTL
==================================================================================
