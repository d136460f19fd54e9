-------------------------- MODULE ObserveTrace_proofs --------------------------
(***************************************************************************)
(* Proofs about the build trace. First how it is recorded (ObserveTrace), for *)
(* every number of shims, every length of a line and every line budget: the   *)
(* order of the pieces in a file (Shape), whose they are (FileFacts), and how *)
(* far the rewrite has come (RewriteFacts). Then what a trim and a binary     *)
(* scan say of the build it records (BuildEvidence).                          *)
(***************************************************************************)
EXTENDS ObserveTrace, BuildEvidence, FiniteSetTheorems, SequenceTheorems,
        WellFoundedInduction, TLAPS

Pieces == Invocations \X (1 .. LineLength)

------------------------------------------------------------------------------
(* The shape of a file. *)

\* No piece is in the file twice.
WrittenOnce(c) == \A k, l \in 1 .. Len(c) : c[k] = c[l] => k = l

\* Every piece but the first of its line follows the one before it.
PiecesInOrder(c) ==
    \A k \in 1 .. Len(c) :
        c[k][2] > 1 => k > 1 /\ c[k - 1] = Piece(c[k][1], c[k][2] - 1)

\* Every position is on a line that begins somewhere.
OnALine(c) ==
    \A k \in 1 .. Len(c) : \E m \in 1 .. k :
        StartsLine(c, m) /\ \A l \in m .. k - 1 : ~IsNewline(c[l])

Shape(c) == WrittenOnce(c) /\ PiecesInOrder(c) /\ OnALine(c)

\* The whole line of invocation i, its newline included, at position k.
LineAt(c, i, k) ==
    /\ k + LineLength - 1 <= Len(c)
    /\ \A n \in 1 .. LineLength : c[k + n - 1] = Piece(i, n)

\* A whole line that begins where a line begins. Nothing appended can spoil it.
Kept(c, i) == \E k \in 1 .. Len(c) : StartsLine(c, k) /\ LineAt(c, i, k)

------------------------------------------------------------------------------
(* The inductive invariant. *)

\* What each shim has done follows from its phase, and the lock is held by the shim
\* that is in its critical section and by no other.
ShimFact(i) ==
    /\ written[i] > 0 => phase[i] \in {"locked", "exec", "killed"}
    /\ phase[i] = "locked" => lock[file[i]] = i
    /\ i \in appended => phase[i] = "exec" /\ written[i] = LineLength
    /\ i \in interrupted => phase[i] \in {"exec", "killed"} /\ LeavesPart(i)
    /\ trace_path = "recorded" => file[i] = "recorded"

HolderIsInside(f) == lock[f] # 0 => phase[lock[f]] = "locked" /\ file[lock[f]] = f

ShimFacts ==
    /\ \A i \in Invocations : ShimFact(i)
    /\ \A f \in Files : HolderIsInside(f)

\* A piece is there because the shim that opened the file has written it, or because
\* the rewrite has.
Accounted(f) ==
    \A k \in 1 .. Len(content[f]) :
        LET p == content[f][k] IN
        IF file[p[1]] = f THEN p[2] <= written[p[1]]
                          ELSE f = "sorted" /\ p[1] \in read \ unwritten

\* What a shim has written is there, in one block.
InBlocks(f) ==
    \A i \in Invocations :
        file[i] = f /\ written[i] > 0 =>
            \E s \in 1 .. Len(content[f]) :
                /\ s + written[i] - 1 <= Len(content[f])
                /\ \A n \in 1 .. written[i] : content[f][s + n - 1] = Piece(i, n)

\* A shim in its critical section is at the end of the file.
AtTheEnd(f) ==
    \A i \in Invocations :
        phase[i] = "locked" /\ file[i] = f /\ written[i] > 0 =>
            /\ Len(content[f]) > 0
            /\ content[f][Len(content[f])] = Piece(i, written[i])

\* The last piece of a shim that was interrupted, or is being written.
LastPiece(f, p) == file[p[1]] = f /\ p[2] = written[p[1]]

\* A line that does not begin at the start of a line continues what an interrupted
\* shim left.
Continues(f) ==
    \A k \in 2 .. Len(content[f]) :
        LET p == content[f][k - 1] IN
        content[f][k][2] = 1 /\ ~IsNewline(p) => p[1] \in interrupted /\ LastPiece(f, p)

\* A file that does not end in a newline ends in such a part.
EndsOpen(f) ==
    LET p == content[f][Len(content[f])] IN
    Len(content[f]) > 0 /\ ~IsNewline(p) =>
        LastPiece(f, p) /\ (p[1] \in interrupted \/ lock[f] = p[1])

FileFacts(f) ==
    /\ Shape(content[f]) /\ Accounted(f) /\ InBlocks(f)
    /\ AtTheEnd(f) /\ Continues(f) /\ EndsOpen(f)

\* The temporary file counts from the moment the rewrite begins until it fails; a
\* flush that fails unseen may leave it in any state.
InUse(f) ==
    \/ f = "recorded"
    \/ ~FlushFails /\ (trace_path = "sorted" \/ pc \in {"rewrite", "rename"})

\* The pieces of the lines that were read come first.
ReadComesFirst ==
    \A k, l \in 1 .. Len(content["sorted"]) :
        k <= l /\ content["sorted"][l][1] \in read => content["sorted"][k][1] \in read

BeforeReading ==
    pc \in {"ready", "building", "built"} =>
        /\ content["sorted"] = <<>> /\ read = {} /\ in_time = {} /\ exit = "none"
        /\ trace_path = "recorded"

ReadFromRecorded ==
    /\ pc \in {"rewrite", "rename"} => trace_path = "recorded"
    /\ \A i \in read : file[i] = "recorded" /\ written[i] > 0

KeptInRecorded == \A i \in in_time \cap read : Kept(content["recorded"], i)

KeptInSorted ==
    InUse("sorted") =>
        /\ ReadComesFirst
        /\ \A i \in read \ unwritten : Kept(content["sorted"], i)
        /\ pc = "rename" \/ trace_path = "sorted" => unwritten = {}

RewriteFacts == BeforeReading /\ ReadFromRecorded /\ KeptInRecorded /\ KeptInSorted

\* As long as nothing was warned of, nothing is missing.
UnwarnedFacts ==
    /\ exit = "clean" => ~warned /\ pc = "done"
    /\ ~warned /\ (pc \in {"rewrite", "rename", "report"} \/ exit = "clean") =>
        /\ in_time \subseteq read
        /\ Cardinality(read) <= MaxTraceLines
        /\ pc \in {"report", "done"} => trace_path = "sorted"

IInv ==
    /\ TypeOK
    /\ ShimFacts
    /\ \A f \in Files : InUse(f) => FileFacts(f)
    /\ RewriteFacts
    /\ UnwarnedFacts

------------------------------------------------------------------------------
(* Files that grow. *)

\* What append_trace_line leaves of the lines that are there: everything.
Grows(c, d) == Len(c) <= Len(d) /\ \A k \in 1 .. Len(c) : d[k] = c[k]

\* The line of an invocation is its pieces, one after the other.
LEMMA LineOfPieces ==
    ASSUME NEW i \in Invocations
    PROVE  /\ Line(i) \in Seq(Pieces)
           /\ Len(Line(i)) = LineLength
           /\ \A n \in 1 .. LineLength : Line(i)[n] = Piece(i, n)
<1>1. Line(i) \in [1 .. LineLength -> Pieces]
  BY LineLengthAssumption DEF Line, Piece, Pieces
<1>2. Line(i) \in Seq(Pieces) /\ Len(Line(i)) = LineLength
  <2> HIDE DEF Line, Pieces
  <2> QED BY <1>1, LineLengthAssumption
<1>3. QED BY <1>2 DEF Line

\* An append changes nothing of what is in the file (O_APPEND of append_trace_line).
LEMMA AppendGrows ==
    ASSUME NEW c \in Seq(Pieces), NEW p \in Pieces
    PROVE  /\ Append(c, p) \in Seq(Pieces) /\ Grows(c, Append(c, p))
           /\ Len(Append(c, p)) = Len(c) + 1 /\ Append(c, p)[Len(c) + 1] = p
<1> HIDE DEF Pieces
<1> QED BY DEF Grows

\* Nor does the next line of rewrite_trace.
LEMMA ConcatGrows ==
    ASSUME NEW c \in Seq(Pieces), NEW i \in Invocations
    PROVE  /\ c \o Line(i) \in Seq(Pieces) /\ Grows(c, c \o Line(i))
           /\ Len(c \o Line(i)) = Len(c) + LineLength
           /\ \A n \in 1 .. LineLength : (c \o Line(i))[Len(c) + n] = Piece(i, n)
<1> DEFINE d == Line(i)
<1>1. d \in Seq(Pieces) /\ Len(d) = LineLength
  BY LineOfPieces
<1>2. \A n \in 1 .. LineLength : d[n] = Piece(i, n)
  BY LineOfPieces
<1> HIDE DEF d, Pieces
<1>3. /\ c \o d \in Seq(Pieces) /\ Grows(c, c \o d) /\ Len(c \o d) = Len(c) + LineLength
      /\ \A n \in 1 .. LineLength : (c \o d)[Len(c) + n] = d[n]
  BY <1>1, LineLengthAssumption DEF Grows
<1>4. QED BY <1>2, <1>3 DEF d

\* A whole line stays one whatever follows it.
LEMMA KeptGrows ==
    ASSUME NEW c \in Seq(Pieces), NEW d \in Seq(Pieces), Grows(c, d),
           NEW i \in Invocations, Kept(c, i)
    PROVE  Kept(d, i)
<1>1. PICK k \in 1 .. Len(c) : StartsLine(c, k) /\ LineAt(c, i, k)
  BY DEF Kept
<1>2. k \in 1 .. Len(d) /\ StartsLine(d, k)
  BY <1>1 DEF Grows, StartsLine, IsNewline
<1>3. LineAt(d, i, k)
  BY <1>1, LineLengthAssumption DEF Grows, LineAt
<1>4. QED BY <1>2, <1>3 DEF Kept

\* is_trace_record accepts a whole line.
LEMMA KeptIsRecord ==
    ASSUME NEW c \in Seq(Pieces), NEW i \in Invocations, Kept(c, i)
    PROVE  HasRecord(c, i)
<1>1. PICK k \in 1 .. Len(c) : StartsLine(c, k) /\ LineAt(c, i, k)
  BY DEF Kept
<1>2. /\ k + LineLength - 2 <= Len(c)
      /\ \A n \in 1 .. LineLength - 1 : c[k + n - 1] = Piece(i, n)
  BY <1>1, LineLengthAssumption DEF LineAt
<1>3. c[k + LineLength - 1] = Piece(i, LineLength)
  BY <1>1, LineLengthAssumption DEF LineAt
<1>4. IsNewline(c[(k + LineLength - 2) + 1])
  BY <1>3, LineLengthAssumption DEF IsNewline, Piece
<1>5. QED BY <1>1, <1>2, <1>4 DEF HasRecord

\* A shim appends the next piece of its line: the file keeps its shape.
LEMMA AppendKeepsShape ==
    ASSUME NEW c \in Seq(Pieces), Shape(c), NEW p \in Pieces,
           \A k \in 1 .. Len(c) : c[k] # p,
           p[2] > 1 => Len(c) > 0 /\ c[Len(c)] = Piece(p[1], p[2] - 1)
    PROVE  Shape(Append(c, p))
<1> DEFINE d == Append(c, p)
<1>1. /\ d \in Seq(Pieces) /\ Len(d) = Len(c) + 1 /\ d[Len(c) + 1] = p
      /\ \A k \in 1 .. Len(c) : d[k] = c[k]
  BY AppendGrows DEF Grows
<1> HIDE DEF d, Pieces
<1>2. WrittenOnce(d)
  BY <1>1 DEF Shape, WrittenOnce
<1>3. PiecesInOrder(d)
  <2> SUFFICES ASSUME NEW k \in 1 .. Len(d), d[k][2] > 1
               PROVE  k > 1 /\ d[k - 1] = Piece(d[k][1], d[k][2] - 1)
    BY DEF PiecesInOrder
  <2>1. CASE k \in 1 .. Len(c)
    BY <2>1, <1>1 DEF Shape, PiecesInOrder
  <2>2. CASE k = Len(c) + 1
    BY <2>2, <1>1
  <2>3. QED BY <2>1, <2>2, <1>1
<1>4. OnALine(d)
  <2> SUFFICES ASSUME NEW k \in 1 .. Len(d)
               PROVE  \E m \in 1 .. k : StartsLine(d, m) /\ \A l \in m .. k - 1 : ~IsNewline(d[l])
    BY DEF OnALine
  <2>1. ASSUME NEW j \in 1 .. Len(c)
        PROVE  \E m \in 1 .. j : StartsLine(d, m) /\ \A l \in m .. j - 1 : ~IsNewline(d[l])
    <3>1. PICK m \in 1 .. j : StartsLine(c, m) /\ \A l \in m .. j - 1 : ~IsNewline(c[l])
      BY DEF Shape, OnALine
    <3>2. StartsLine(d, m) /\ \A l \in m .. j - 1 : ~IsNewline(d[l])
      BY SMTT(60), <3>1, <1>1 DEF StartsLine, IsNewline
    <3>3. QED BY <3>2
  <2>2. CASE k \in 1 .. Len(c)
    BY <2>1, <2>2
  <2>3. CASE k = Len(c) + 1 /\ StartsLine(d, k)
    BY <2>3, <1>1
  <2>4. CASE k = Len(c) + 1 /\ ~StartsLine(d, k)
    <3>1. k > 1 /\ k - 1 \in 1 .. Len(c) /\ ~IsNewline(d[k - 1])
      BY <2>4, <1>1 DEF StartsLine
    <3>2. PICK m \in 1 .. k - 1 : StartsLine(d, m) /\ \A l \in m .. (k - 1) - 1 : ~IsNewline(d[l])
      BY <2>1, <3>1
    <3>3. \A l \in m .. k - 1 : ~IsNewline(d[l])
      BY <3>1, <3>2
    <3>4. QED BY <3>1, <3>2, <3>3
  <2>5. QED BY <2>2, <2>3, <2>4, <1>1
<1>5. QED BY <1>2, <1>3, <1>4 DEF Shape, d

\* rewrite_trace adds a line that is not in the file, after a newline.
LEMMA ConcatKeepsShape ==
    ASSUME NEW c \in Seq(Pieces), Shape(c), NEW i \in Invocations,
           \A k \in 1 .. Len(c) : c[k][1] # i,
           Len(c) > 0 => IsNewline(c[Len(c)])
    PROVE  /\ Shape(c \o Line(i))
           /\ StartsLine(c \o Line(i), Len(c) + 1) /\ LineAt(c \o Line(i), i, Len(c) + 1)
<1> DEFINE d == c \o Line(i)
<1>1. /\ d \in Seq(Pieces) /\ Len(d) = Len(c) + LineLength
      /\ \A n \in 1 .. LineLength : d[Len(c) + n] = Piece(i, n)
      /\ \A k \in 1 .. Len(c) : d[k] = c[k]
  BY ConcatGrows DEF Grows
<1>2. Len(c) \in Nat /\ LineLength \in Nat \ {0, 1} /\ Len(d) \in Nat
  BY <1>1, LineLengthAssumption
<1> HIDE DEF d, Pieces
<1>3. ASSUME NEW k \in 1 .. Len(d), k \notin 1 .. Len(c)
      PROVE  k - Len(c) \in 1 .. LineLength /\ d[k] = <<i, k - Len(c)>>
  <2>1. k - Len(c) \in 1 .. LineLength /\ Len(c) + (k - Len(c)) = k
    BY <1>1, <1>2, <1>3
  <2>2. QED BY <2>1, <1>1 DEF Piece
<1>4. WrittenOnce(d)
  <2> SUFFICES ASSUME NEW k \in 1 .. Len(d), NEW l \in 1 .. Len(d), d[k] = d[l]
               PROVE  k = l
    BY DEF WrittenOnce
  <2>1. CASE k \in 1 .. Len(c) /\ l \in 1 .. Len(c)
    BY <2>1, <1>1 DEF Shape, WrittenOnce
  <2>2. CASE k \in 1 .. Len(c) /\ l \notin 1 .. Len(c)
    BY <2>2, <1>1, <1>3
  <2>3. CASE k \notin 1 .. Len(c) /\ l \in 1 .. Len(c)
    BY <2>3, <1>1, <1>3
  <2>4. CASE k \notin 1 .. Len(c) /\ l \notin 1 .. Len(c)
    <3>1. <<i, k - Len(c)>> = <<i, l - Len(c)>>
      BY <2>4, <1>3
    <3>2. QED BY <3>1, <1>2
  <2>5. QED BY <2>1, <2>2, <2>3, <2>4
<1>5. PiecesInOrder(d)
  <2> SUFFICES ASSUME NEW k \in 1 .. Len(d), d[k][2] > 1
               PROVE  k > 1 /\ d[k - 1] = Piece(d[k][1], d[k][2] - 1)
    BY DEF PiecesInOrder
  <2>1. CASE k \in 1 .. Len(c)
    BY <2>1, <1>1 DEF Shape, PiecesInOrder
  <2>2. CASE k \notin 1 .. Len(c)
    <3> DEFINE n == k - Len(c)
    <3>1. n \in 1 .. LineLength /\ d[k] = <<i, n>> /\ n > 1
      BY <2>2, <1>3
    <3>2. n - 1 \in 1 .. LineLength /\ Len(c) + (n - 1) = k - 1 /\ k > 1
      BY <3>1, <1>2
    <3>3. d[k - 1] = Piece(i, n - 1)
      BY <3>2, <1>1
    <3>4. QED BY <3>1, <3>2, <3>3
  <2>3. QED BY <2>1, <2>2
<1>6. StartsLine(d, Len(c) + 1)
  BY <1>1, <1>2 DEF StartsLine, IsNewline
<1>7. OnALine(d)
  <2> SUFFICES ASSUME NEW k \in 1 .. Len(d)
               PROVE  \E m \in 1 .. k : StartsLine(d, m) /\ \A l \in m .. k - 1 : ~IsNewline(d[l])
    BY DEF OnALine
  <2>1. CASE k \in 1 .. Len(c)
    <3>1. PICK m \in 1 .. k : StartsLine(c, m) /\ \A l \in m .. k - 1 : ~IsNewline(c[l])
      BY <2>1 DEF Shape, OnALine
    <3>2. StartsLine(d, m)
      <4>1. m # 1 => m - 1 \in 1 .. Len(c) /\ d[m - 1] = c[m - 1]
        BY <2>1, <1>1, <1>2
      <4>2. QED BY <4>1, <3>1 DEF StartsLine
    <3>3. ASSUME NEW l \in m .. k - 1
          PROVE  ~IsNewline(d[l])
      <4>1. l \in 1 .. Len(c) /\ d[l] = c[l]
        BY <2>1, <1>1, <1>2
      <4>2. QED BY <4>1, <3>1 DEF IsNewline
    <3>4. QED BY <3>2, <3>3
  <2>2. CASE k \notin 1 .. Len(c)
    <3>1. Len(c) + 1 \in 1 .. k
      BY <2>2, <1>2
    <3>2. ASSUME NEW l \in Len(c) + 1 .. k - 1
          PROVE  ~IsNewline(d[l])
      <4>1. l \in 1 .. Len(d) /\ l \notin 1 .. Len(c) /\ l - Len(c) < LineLength
        BY <1>1, <1>2
      <4>2. QED BY <4>1, <1>2, <1>3 DEF IsNewline
    <3>3. QED BY <1>6, <3>1, <3>2
  <2>3. QED BY <2>1, <2>2
<1>8. LineAt(d, i, Len(c) + 1)
  <2>1. ASSUME NEW n \in 1 .. LineLength
        PROVE  d[(Len(c) + 1) + n - 1] = Piece(i, n)
    BY <1>1, <1>2
  <2>2. QED BY <2>1, <1>1, <1>2 DEF LineAt
<1>9. QED BY <1>4, <1>5, <1>6, <1>7, <1>8 DEF Shape, d

------------------------------------------------------------------------------
(* What the reading loop of validate_and_sort_trace makes of a file. *)

LineStarts(c) == {k \in 1 .. Len(c) : StartsLine(c, k) /\ ~IsNewline(c[k])}
Owners(c) == {i \in Invocations : \E k \in LineStarts(c) : c[k] = Piece(i, 1)}

\* A line begins with the first piece of some record.
LEMMA LineStartsWithItsOwner ==
    ASSUME NEW c \in Seq(Pieces), Shape(c), NEW k \in LineStarts(c)
    PROVE  /\ k \in 1 .. Len(c) /\ c[k][1] \in Invocations
           /\ c[k] = Piece(c[k][1], 1)
<1>1. k \in 1 .. Len(c) /\ StartsLine(c, k)
  BY DEF LineStarts
<1>2. c[k] \in Pieces
  BY <1>1
<1>3. c[k][1] \in Invocations /\ c[k][2] \in 1 .. LineLength /\ c[k] = <<c[k][1], c[k][2]>>
  BY <1>2 DEF Pieces
<1>4. ~(c[k][2] > 1)
  <2> SUFFICES ASSUME c[k][2] > 1
               PROVE  FALSE
    OBVIOUS
  <2>1. k > 1 /\ c[k - 1] = <<c[k][1], c[k][2] - 1>>
    BY <1>1 DEF Shape, PiecesInOrder, Piece
  <2>2. c[k - 1][2] = LineLength
    BY <1>1, <2>1 DEF StartsLine, IsNewline
  <2>3. QED BY <2>1, <2>2, <1>3, LineLengthAssumption
<1>5. c[k][2] = 1
  BY <1>3, <1>4, LineLengthAssumption
<1>6. QED BY <1>1, <1>3, <1>5 DEF Piece

\* is_trace_record accepts the line that begins with the first piece of the record.
LEMMA RecordsAreOwners ==
    ASSUME NEW c \in Seq(Pieces)
    PROVE  Records(c) \subseteq Owners(c)
<1> SUFFICES ASSUME NEW i \in Records(c)
             PROVE  i \in Owners(c)
  OBVIOUS
<1>1. i \in Invocations
  BY DEF Records
<1>2. PICK k \in 1 .. Len(c) :
          /\ StartsLine(c, k)
          /\ \A n \in 1 .. LineLength - 1 : c[k + n - 1] = Piece(i, n)
  BY DEF Records, HasRecord
<1>3. 1 \in 1 .. LineLength - 1 /\ k + 1 - 1 = k
  BY LineLengthAssumption
<1>4. c[k] = Piece(i, 1)
  BY <1>2, <1>3
<1>5. ~IsNewline(c[k])
  BY <1>4, LineLengthAssumption DEF IsNewline, Piece
<1>6. QED BY <1>1, <1>2, <1>4, <1>5 DEF Owners, LineStarts

\* total_lines, of which malformed_lines is a part: no line is malformed when every
\* one is a record.
LEMMA MalformedCounts ==
    ASSUME NEW c \in Seq(Pieces), Shape(c)
    PROVE  /\ LinesIn(c) - Cardinality(Records(c)) \in 0 .. MaxInvocations
           /\ LinesIn(c) - Cardinality(Records(c)) = 0 => Owners(c) = Records(c)
<1> DEFINE first == [k \in LineStarts(c) |-> c[k][1]]
<1>1. first \in [LineStarts(c) -> Owners(c)]
  <2> SUFFICES ASSUME NEW k \in LineStarts(c)
               PROVE  c[k][1] \in Owners(c)
    OBVIOUS
  <2>1. QED BY LineStartsWithItsOwner DEF Owners
<1>2. \A k, l \in LineStarts(c) : first[k] = first[l] => k = l
  <2> SUFFICES ASSUME NEW k \in LineStarts(c), NEW l \in LineStarts(c), c[k][1] = c[l][1]
               PROVE  k = l
    OBVIOUS
  <2>1. c[k] = c[l] /\ k \in 1 .. Len(c) /\ l \in 1 .. Len(c)
    BY LineStartsWithItsOwner
  <2>2. QED BY <2>1 DEF Shape, WrittenOnce
<1>3. \A i \in Owners(c) : \E k \in LineStarts(c) : first[k] = i
  <2> SUFFICES ASSUME NEW i \in Owners(c)
               PROVE  \E k \in LineStarts(c) : c[k][1] = i
    OBVIOUS
  <2>1. QED BY DEF Owners, Piece
<1>4. first \in Injection(LineStarts(c), Owners(c)) /\ first \in Surjection(LineStarts(c), Owners(c))
  <2> HIDE DEF first
  <2> QED BY <1>1, <1>2, <1>3 DEF Injection, Surjection, IsInjective
<1>5. /\ IsFiniteSet(Invocations) /\ Cardinality(Invocations) = MaxInvocations
  BY FS_Interval, InvocationsAssumption DEF Invocations
<1>6. /\ IsFiniteSet(Owners(c)) /\ Cardinality(Owners(c)) <= MaxInvocations
  BY <1>5, FS_Subset DEF Owners
<1>7. LinesIn(c) = Cardinality(Owners(c))
  <2>1. Cardinality(LineStarts(c)) = Cardinality(Owners(c))
    BY <1>4, <1>6, FS_Injection
  <2>2. QED BY <2>1 DEF LinesIn, LineStarts
<1>8. /\ IsFiniteSet(Records(c)) /\ Cardinality(Records(c)) <= Cardinality(Owners(c))
      /\ Cardinality(Owners(c)) = Cardinality(Records(c)) => Owners(c) = Records(c)
  BY <1>6, RecordsAreOwners, FS_Subset
<1>9. Cardinality(Owners(c)) \in Nat /\ Cardinality(Records(c)) \in Nat
  BY <1>6, <1>8, FS_CardinalityType
<1>10. QED BY <1>6, <1>7, <1>8, <1>9, InvocationsAssumption

\* When every line is a record, a record that is there in full is a line of its own:
\* had it continued a line, that line would be longer than a record.
LEMMA WholeTraceHoldsAll ==
    ASSUME NEW c \in Seq(Pieces), Shape(c), Owners(c) \subseteq Records(c),
           NEW i \in Invocations, NEW s \in 1 .. Len(c), LineAt(c, i, s)
    PROVE  i \in Records(c)
<1>1. c[s] = Piece(i, 1)
  <2>1. 1 \in 1 .. LineLength /\ s + 1 - 1 = s
    BY LineLengthAssumption
  <2>2. QED BY <2>1 DEF LineAt
<1>2. ~IsNewline(c[s])
  BY <1>1, LineLengthAssumption DEF IsNewline, Piece
<1>3. PICK m \in 1 .. s : StartsLine(c, m) /\ \A l \in m .. s - 1 : ~IsNewline(c[l])
  BY DEF Shape, OnALine
<1>4. m \in LineStarts(c)
  <2>1. m \in 1 .. Len(c)
    OBVIOUS
  <2>2. ~IsNewline(c[m])
    BY <1>2, <1>3
  <2>3. QED BY <1>3, <2>1, <2>2 DEF LineStarts
<1> DEFINE j == c[m][1]
<1>5. j \in Invocations /\ c[m] = Piece(j, 1)
  BY <1>4, LineStartsWithItsOwner
<1>6. j \in Records(c)
  BY <1>4, <1>5 DEF Owners
<1>7. PICK k \in 1 .. Len(c) :
          LET last == k + LineLength - 2 IN
          /\ last <= Len(c)
          /\ \A n \in 1 .. LineLength - 1 : c[k + n - 1] = Piece(j, n)
          /\ last = Len(c) \/ IsNewline(c[last + 1])
  BY <1>6 DEF Records, HasRecord
<1>8. k = m
  <2>1. 1 \in 1 .. LineLength - 1 /\ k + 1 - 1 = k
    BY LineLengthAssumption
  <2>2. c[k] = c[m] /\ m \in 1 .. Len(c)
    BY <1>5, <1>7, <2>1
  <2>3. QED BY <2>2 DEF Shape, WrittenOnce
<1> DEFINE last == m + LineLength - 2
<1>9. CASE s <= last
  <2>1. s - m + 1 \in 1 .. LineLength - 1 /\ m + (s - m + 1) - 1 = s
    BY <1>9, LineLengthAssumption
  <2>2. c[s] = Piece(j, s - m + 1)
    BY <1>7, <1>8, <2>1
  <2>3. i = j
    BY <1>1, <2>2 DEF Piece
  <2>4. QED BY <1>6, <2>3
<1>10. CASE s > last
  <2>1. last + 1 \in m .. s /\ last # Len(c)
    BY <1>10, LineLengthAssumption
  <2>2. IsNewline(c[last + 1])
    BY <1>7, <1>8, <2>1
  <2>3. last + 1 \in m .. s - 1
    BY <1>2, <2>1, <2>2
  <2>4. QED BY <1>3, <2>2, <2>3
<1>11. QED BY <1>9, <1>10, LineLengthAssumption

------------------------------------------------------------------------------
(* How the steps change a file. *)

LEMMA WellTyped ==
    ASSUME TypeOK
    PROVE  /\ \A f \in Files : content[f] \in Seq(Pieces)
           /\ \A f \in Files : \A k \in 1 .. Len(content[f]) :
                 /\ content[f][k][1] \in Invocations
                 /\ content[f][k][2] \in 1 .. LineLength
                 /\ content[f][k] = <<content[f][k][1], content[f][k][2]>>
<1>1. \A f \in Files : content[f] \in Seq(Pieces)
  BY DEF TypeOK, Pieces
<1>2. \A f \in Files : \A k \in 1 .. Len(content[f]) : content[f][k] \in Pieces
  <2> HIDE DEF Pieces
  <2> QED BY <1>1
<1>3. QED BY <1>1, <1>2 DEF Pieces

\* A step that leaves a file alone, takes no shim away from its end, and counts those
\* that leave their line half written.
LEMMA QuietKeepsFile ==
    ASSUME TypeOK, NEW f \in Files, FileFacts(f),
           content'[f] = content[f], file' = file, written' = written,
           f = "sorted" => read' = read /\ unwritten' = unwritten,
           interrupted \subseteq interrupted',
           \A j \in Invocations :
               phase'[j] = "locked" /\ written[j] > 0 => phase[j] = "locked",
           \A j \in Invocations :
               lock[f] = j /\ file[j] = f /\ LeavesPart(j) => lock'[f] = j \/ j \in interrupted'
    PROVE  FileFacts(f)'
<1>1. Shape(content[f])'
  BY DEF FileFacts
<1>2. Accounted(f)'
  <2>1. CASE f = "sorted"
    BY <2>1 DEF FileFacts, Accounted
  <2>2. CASE f # "sorted"
    BY <2>2 DEF FileFacts, Accounted
  <2>3. QED BY <2>1, <2>2
<1>3. InBlocks(f)'
  BY DEF FileFacts, InBlocks
<1>4. AtTheEnd(f)'
  BY DEF FileFacts, AtTheEnd
<1>5. Continues(f)'
  BY DEF FileFacts, Continues, LastPiece
<1>6. EndsOpen(f)'
  <2> DEFINE p == content[f][Len(content[f])]
  <2> SUFFICES ASSUME Len(content[f]) > 0, ~IsNewline(p)
               PROVE  LastPiece(f, p)' /\ (p[1] \in interrupted' \/ lock'[f] = p[1])
    BY DEF EndsOpen
  <2>1. LastPiece(f, p) /\ (p[1] \in interrupted \/ lock[f] = p[1])
    BY DEF FileFacts, EndsOpen
  <2>2. Len(content[f]) \in 1 .. Len(content[f])
    BY WellTyped
  <2>3. p[1] \in Invocations /\ p[2] \in 1 .. LineLength
    BY <2>2, WellTyped
  <2>4. LeavesPart(p[1])
    BY <2>1, <2>3, LineLengthAssumption DEF LastPiece, LeavesPart, IsNewline
  <2>5. p[1] \in interrupted' \/ lock'[f] = p[1]
    BY <2>1, <2>3, <2>4 DEF LastPiece
  <2>6. LastPiece(f, p)'
    BY <2>1 DEF LastPiece
  <2>7. QED BY <2>5, <2>6
<1>7. QED BY <1>1, <1>2, <1>3, <1>4, <1>5, <1>6 DEF FileFacts

\* An invocation that has not begun has left nothing anywhere.
LEMMA NothingYet ==
    ASSUME TypeOK, RewriteFacts, NEW f \in Files, FileFacts(f),
           NEW i \in Invocations, written[i] = 0, NEW k \in 1 .. Len(content[f])
    PROVE  content[f][k][1] # i
<1> SUFFICES ASSUME content[f][k][1] = i
             PROVE  FALSE
  OBVIOUS
<1>1. content[f][k][2] >= 1
  BY WellTyped, LineLengthAssumption
<1>2. file[i] = f => content[f][k][2] <= written[i]
  BY DEF FileFacts, Accounted
<1>3. file[i] # f => i \in read
  BY DEF FileFacts, Accounted
<1>4. i \in read => written[i] > 0
  BY DEF RewriteFacts, BeforeReading, ReadFromRecorded
<1>5. content[f][k][2] \in Nat
  BY WellTyped, LineLengthAssumption
<1>6. QED BY <1>1, <1>2, <1>3, <1>4, <1>5

\* Opening the trace puts nothing in it.
LEMMA OpenKeepsFile ==
    ASSUME TypeOK, ShimFacts, RewriteFacts, NEW f \in Files, FileFacts(f),
           NEW i \in Invocations, Open(i)
    PROVE  FileFacts(f)'
<1>1. written[i] = 0
  <2>1. phase[i] = "not started"
    BY DEF Open, Goes
  <2>2. ~(written[i] > 0)
    BY <2>1 DEF ShimFacts, ShimFact, HolderIsInside
  <2>3. written[i] \in 0 .. LineLength
    BY DEF TypeOK
  <2>4. QED BY <2>2, <2>3, LineLengthAssumption
<1>2. /\ content' = content /\ written' = written /\ read' = read /\ unwritten' = unwritten
      /\ interrupted' = interrupted /\ lock' = lock
      /\ phase'[i] = "opened" /\ \A j \in Invocations \ {i} : phase'[j] = phase[j] /\ file'[j] = file[j]
  BY DEF Open, Goes, observer, TypeOK
<1>3. \A k \in 1 .. Len(content[f]) : content[f][k][1] \in Invocations \ {i}
  BY <1>1, NothingYet, WellTyped
<1>4. Shape(content[f])'
  BY <1>2 DEF FileFacts
<1>5. Accounted(f)'
  BY <1>2, <1>3 DEF FileFacts, Accounted
<1>6. InBlocks(f)'
  <2> SUFFICES ASSUME NEW j \in Invocations, file'[j] = f, written[j] > 0
               PROVE  \E s \in 1 .. Len(content[f]) :
                          /\ s + written[j] - 1 <= Len(content[f])
                          /\ \A n \in 1 .. written[j] : content[f][s + n - 1] = Piece(j, n)
    BY <1>2 DEF InBlocks
  <2>1. file[j] = f
    BY <1>1, <1>2
  <2>2. QED BY <2>1 DEF FileFacts, InBlocks
<1>7. AtTheEnd(f)'
  BY <1>1, <1>2 DEF FileFacts, AtTheEnd
<1>8. Continues(f)'
  <2> SUFFICES ASSUME NEW k \in 2 .. Len(content[f]),
                      content[f][k][2] = 1, ~IsNewline(content[f][k - 1])
               PROVE  content[f][k - 1][1] \in interrupted /\ LastPiece(f, content[f][k - 1])'
    BY <1>2 DEF Continues
  <2>1. k - 1 \in 1 .. Len(content[f])
    BY WellTyped
  <2>2. content[f][k - 1][1] \in interrupted /\ LastPiece(f, content[f][k - 1])
    BY DEF FileFacts, Continues
  <2>3. QED BY <2>1, <2>2, <1>2, <1>3 DEF LastPiece
<1>9. EndsOpen(f)'
  <2>1. Len(content[f]) > 0 => Len(content[f]) \in 1 .. Len(content[f])
    BY WellTyped
  <2>2. QED BY <2>1, <1>2, <1>3 DEF FileFacts, EndsOpen, LastPiece
<1>10. QED BY <1>4, <1>5, <1>6, <1>7, <1>8, <1>9 DEF FileFacts

\* One write() of the shim that holds the lock of the file.
LEMMA WriteKeepsItsFile ==
    ASSUME TypeOK, ShimFacts, NEW i \in Invocations, NEW f \in Files, file[i] = f,
           FileFacts(f), Write(i)
    PROVE  FileFacts(f)'
<1> DEFINE c == content[f]
           d == content'[f]
           p == Piece(i, written[i] + 1)
<1>1. /\ written[i] \in 0 .. LineLength /\ written[i] < LineLength
      /\ phase[i] = "locked" /\ lock[f] = i
  BY DEF TypeOK, ShimFacts, ShimFact, Write
<1>2. /\ file' = file /\ phase' = phase /\ lock' = lock /\ interrupted' = interrupted
      /\ read' = read /\ unwritten' = unwritten
      /\ written'[i] = written[i] + 1
      /\ \A j \in Invocations \ {i} : written'[j] = written[j]
      /\ d = Append(c, p)
  BY <1>1 DEF Write, TypeOK, observer
<1>3. c \in Seq(Pieces) /\ Len(c) \in Nat
  BY <1>1, WellTyped
<1>4. p \in Pieces /\ p[1] = i /\ p[2] = written[i] + 1
  BY <1>1, LineLengthAssumption DEF Pieces, Piece
<1>5. \A k \in 1 .. Len(c) :
          /\ c[k][1] \in Invocations /\ c[k][2] \in 1 .. LineLength
          /\ c[k] = <<c[k][1], c[k][2]>>
  BY <1>1, WellTyped
<1>6. \A k \in 1 .. Len(c) : file[c[k][1]] = f => c[k][2] <= written[c[k][1]]
  BY <1>1 DEF FileFacts, Accounted
<1>7. written[i] > 0 => Len(c) > 0 /\ c[Len(c)] = Piece(i, written[i])
  BY <1>1 DEF FileFacts, AtTheEnd
<1> DEFINE q == c[Len(c)]
<1>8. Len(c) > 0 /\ ~IsNewline(q) /\ written[i] = 0 => q[1] \in interrupted /\ LastPiece(f, q)
  <2> SUFFICES ASSUME Len(c) > 0, ~IsNewline(q), written[i] = 0
               PROVE  q[1] \in interrupted /\ LastPiece(f, q)
    OBVIOUS
  <2>1. LastPiece(f, q) /\ (q[1] \in interrupted \/ lock[f] = q[1])
    BY DEF FileFacts, EndsOpen
  <2>2. Len(c) \in 1 .. Len(c)
    BY <1>3
  <2>3. q[2] \in 1 .. LineLength
    BY <1>5, <2>2
  <2>4. q[1] # i
    BY <2>1, <2>3, LineLengthAssumption DEF LastPiece
  <2>5. QED BY <1>1, <2>1, <2>4
<1>9. \A j \in interrupted : j # i
  BY <1>1 DEF ShimFacts, ShimFact, HolderIsInside
<1>10. Shape(c)
  BY DEF FileFacts
<1>11. /\ d \in Seq(Pieces) /\ Len(d) = Len(c) + 1 /\ d[Len(c) + 1] = p
       /\ \A k \in 1 .. Len(c) : d[k] = c[k]
  BY <1>2, <1>3, <1>4, AppendGrows DEF Grows
<1> HIDE DEF p, q, c, d
<1>12. Shape(d)
  <2>1. \A k \in 1 .. Len(c) : c[k] # p
    <3> SUFFICES ASSUME NEW k \in 1 .. Len(c), c[k] = p
                 PROVE  FALSE
      OBVIOUS
    <3>1. c[k][2] <= written[i]
      BY <1>4, <1>6
    <3>2. QED BY <3>1, <1>1, <1>4
  <2>2. p[2] > 1 => Len(c) > 0 /\ c[Len(c)] = Piece(p[1], p[2] - 1)
    <3>1. p[2] > 1 => written[i] > 0 /\ p[2] - 1 = written[i]
      BY <1>1, <1>4
    <3>2. QED BY <3>1, <1>4, <1>7
  <2>3. Shape(Append(c, p))
    BY <1>3, <1>4, <1>10, <2>1, <2>2, AppendKeepsShape
  <2>4. QED BY <2>3, <1>2
<1>13. \A k \in 1 .. Len(d) : k \in 1 .. Len(c) \/ k = Len(c) + 1
  BY <1>3, <1>11
<1>14. Accounted(f)'
  <2> SUFFICES ASSUME NEW k \in 1 .. Len(d)
               PROVE  IF file[d[k][1]] = f THEN d[k][2] <= written'[d[k][1]]
                                           ELSE f = "sorted" /\ d[k][1] \in read \ unwritten
    BY <1>2 DEF Accounted, d
  <2>1. CASE k = Len(c) + 1
    BY <2>1, <1>1, <1>2, <1>4, <1>11
  <2>2. CASE k \in 1 .. Len(c) /\ c[k][1] = i
    <3>1. c[k][2] <= written[i] /\ c[k][2] \in Nat
      BY <2>2, <1>5, <1>6, LineLengthAssumption
    <3>2. QED BY <2>2, <3>1, <1>1, <1>2, <1>11
  <2>3. CASE k \in 1 .. Len(c) /\ c[k][1] # i
    <3>1. d[k] = c[k] /\ written'[c[k][1]] = written[c[k][1]]
      BY <2>3, <1>2, <1>5, <1>11
    <3>2. QED BY <2>3, <3>1 DEF FileFacts, Accounted, c
  <2>4. QED BY <2>1, <2>2, <2>3, <1>13
<1>15. InBlocks(f)'
  <2> SUFFICES ASSUME NEW j \in Invocations, file[j] = f, written'[j] > 0
               PROVE  \E s \in 1 .. Len(d) :
                          /\ s + written'[j] - 1 <= Len(d)
                          /\ \A n \in 1 .. written'[j] : d[s + n - 1] = Piece(j, n)
    BY <1>2 DEF InBlocks, d
  <2>1. CASE j = i /\ written[i] = 0
    <3>1. written'[j] = 1 /\ p = Piece(j, 1)
      BY <2>1, <1>2 DEF p
    <3>2. /\ Len(c) + 1 \in 1 .. Len(d) /\ (Len(c) + 1) + 1 - 1 <= Len(d)
          /\ d[(Len(c) + 1) + 1 - 1] = Piece(j, 1)
      BY <3>1, <1>3, <1>11
    <3>3. QED BY <3>1, <3>2
  <2>2. ASSUME written[j] > 0
        PROVE  \E s \in 1 .. Len(c) :
                   /\ s + written[j] - 1 <= Len(c)
                   /\ \A n \in 1 .. written[j] : c[s + n - 1] = Piece(j, n)
    BY <2>2 DEF FileFacts, InBlocks, c
  <2>3. CASE j # i
    <3>1. written'[j] = written[j] /\ written[j] \in Nat
      <4>1. written[j] \in 0 .. LineLength
        BY DEF TypeOK
      <4>2. QED BY <4>1, <2>3, <1>2, LineLengthAssumption
    <3>2. PICK s \in 1 .. Len(c) :
              /\ s + written[j] - 1 <= Len(c)
              /\ \A n \in 1 .. written[j] : c[s + n - 1] = Piece(j, n)
      BY <2>2, <3>1
    <3>3. ASSUME NEW n \in 1 .. written[j]
          PROVE  d[s + n - 1] = Piece(j, n)
      <4>1. s + n - 1 \in 1 .. Len(c)
        BY <1>3, <3>1, <3>2
      <4>2. QED BY <4>1, <3>2, <1>11
    <3>4. s \in 1 .. Len(d) /\ s + written[j] - 1 <= Len(d)
      BY <1>3, <1>11, <3>1, <3>2
    <3>5. QED BY <3>1, <3>3, <3>4
  <2>4. CASE j = i /\ written[i] > 0
    <3>1. PICK s \in 1 .. Len(c) :
              /\ s + written[i] - 1 <= Len(c)
              /\ \A n \in 1 .. written[i] : c[s + n - 1] = Piece(i, n)
      BY <2>2, <2>4
    <3>2. s + written[i] - 1 = Len(c)
      <4>1. written[i] \in 1 .. written[i] /\ s + written[i] - 1 \in 1 .. Len(c)
        BY <2>4, <3>1, <1>1, <1>3
      <4>2. c[s + written[i] - 1] = c[Len(c)] /\ Len(c) \in 1 .. Len(c)
        BY <2>4, <3>1, <4>1, <1>3, <1>7
      <4>3. QED BY <4>1, <4>2, <1>10 DEF Shape, WrittenOnce
    <3>3. ASSUME NEW n \in 1 .. written[i] + 1
          PROVE  d[s + n - 1] = Piece(i, n)
      <4>1. CASE n \in 1 .. written[i]
        <5>1. s + n - 1 \in 1 .. Len(c)
          BY <4>1, <3>1, <1>1, <1>3
        <5>2. QED BY <4>1, <5>1, <3>1, <1>11
      <4>2. CASE n = written[i] + 1
        <5>1. s + n - 1 = Len(c) + 1
          <6>1. PICK w, z : w = written[i] /\ z = Len(c)
            OBVIOUS
          <6>2. w \in Int /\ z \in Int /\ s \in Int
            BY <6>1, <3>1, <1>1, <1>3
          <6>3. s + w - 1 = z /\ n = w + 1
            BY <6>1, <4>2, <3>2
          <6>4. s + n - 1 = z + 1
            BY <6>2, <6>3
          <6>5. QED BY <6>1, <6>4
        <5>2. QED BY <4>2, <5>1, <1>11 DEF p
      <4>3. QED BY <4>1, <4>2, <1>1
    <3>4. s \in 1 .. Len(d) /\ s + (written[i] + 1) - 1 <= Len(d)
      BY <3>1, <3>2, <1>1, <1>3, <1>11
    <3>5. QED BY <2>4, <3>3, <3>4, <1>2
  <2>5. written[i] = 0 \/ written[i] > 0
    BY <1>1
  <2>6. QED BY <2>1, <2>3, <2>4, <2>5
<1>16. AtTheEnd(f)'
  <2> SUFFICES ASSUME NEW j \in Invocations, phase[j] = "locked", file[j] = f
               PROVE  Len(d) > 0 /\ d[Len(d)] = Piece(j, written'[j])
    BY <1>2 DEF AtTheEnd, d
  <2>1. j = i
    BY <1>1 DEF ShimFacts, ShimFact, HolderIsInside
  <2>2. QED BY <2>1, <1>2, <1>3, <1>11 DEF p
<1>17. Continues(f)'
  <2> SUFFICES ASSUME NEW k \in 2 .. Len(d), d[k][2] = 1, ~IsNewline(d[k - 1])
               PROVE  /\ d[k - 1][1] \in interrupted
                      /\ file[d[k - 1][1]] = f /\ d[k - 1][2] = written'[d[k - 1][1]]
    BY <1>2 DEF Continues, LastPiece, d
  <2>1. k - 1 \in 1 .. Len(c) /\ d[k - 1] = c[k - 1]
    BY <1>3, <1>11
  <2>2. c[k - 1][1] \in interrupted /\ LastPiece(f, c[k - 1])
    <3>1. CASE k \in 1 .. Len(c)
      <4>1. k \in 2 .. Len(c) /\ c[k][2] = 1 /\ ~IsNewline(c[k - 1])
        BY <3>1, <2>1, <1>11
      <4>2. QED BY <4>1 DEF FileFacts, Continues, c
    <3>2. CASE k = Len(c) + 1
      <4>1. written[i] = 0 /\ k - 1 = Len(c) /\ Len(c) > 0
        BY <3>2, <2>1, <1>1, <1>3, <1>4, <1>11
      <4>2. QED BY <4>1, <2>1, <1>8 DEF q
    <3>3. QED BY <3>1, <3>2, <1>13
  <2>3. c[k - 1][1] # i /\ c[k - 1][1] \in Invocations
    BY <2>1, <2>2, <1>5, <1>9
  <2>4. QED BY <2>1, <2>2, <2>3, <1>2 DEF LastPiece
<1>18. EndsOpen(f)'
  <2>1. d[Len(d)] = p
    BY <1>3, <1>11
  <2>2. file'[p[1]] = f /\ p[2] = written'[p[1]] /\ lock'[f] = p[1]
    BY <1>1, <1>2, <1>4
  <2>3. QED BY <2>1, <2>2 DEF EndsOpen, LastPiece, d
<1>19. QED BY <1>12, <1>14, <1>15, <1>16, <1>17, <1>18 DEF FileFacts, d

\* A shim that writes to one of the files leaves the other as it is.
LEMMA WriteKeepsOtherFile ==
    ASSUME TypeOK, ShimFacts, NEW i \in Invocations, NEW f \in Files, file[i] # f,
           FileFacts(f), Write(i)
    PROVE  FileFacts(f)'
<1>1. /\ content'[f] = content[f] /\ file' = file /\ phase' = phase /\ lock' = lock
      /\ interrupted' = interrupted /\ read' = read /\ unwritten' = unwritten
      /\ \A j \in Invocations \ {i} : written'[j] = written[j]
  BY DEF Write, TypeOK, observer
<1>2. \A j \in Invocations : file[j] = f => written'[j] = written[j]
  BY <1>1
<1>3. \A k \in 1 .. Len(content[f]) : content[f][k][1] \in Invocations
  BY WellTyped
<1>4. Shape(content[f])'
  BY <1>1 DEF FileFacts
<1>5. Accounted(f)'
  BY <1>1, <1>2, <1>3 DEF FileFacts, Accounted
<1>6. InBlocks(f)'
  <2> SUFFICES ASSUME NEW j \in Invocations, file[j] = f, written[j] > 0
               PROVE  \E s \in 1 .. Len(content[f]) :
                          /\ s + written[j] - 1 <= Len(content[f])
                          /\ \A n \in 1 .. written[j] : content[f][s + n - 1] = Piece(j, n)
    BY <1>1, <1>2 DEF InBlocks
  <2>1. QED BY DEF FileFacts, InBlocks
<1>7. AtTheEnd(f)'
  BY <1>1, <1>2 DEF FileFacts, AtTheEnd
<1>8. Continues(f)'
  <2> SUFFICES ASSUME NEW k \in 2 .. Len(content[f]),
                      content[f][k][2] = 1, ~IsNewline(content[f][k - 1])
               PROVE  content[f][k - 1][1] \in interrupted /\ LastPiece(f, content[f][k - 1])'
    BY <1>1 DEF Continues
  <2>1. k - 1 \in 1 .. Len(content[f])
    BY WellTyped
  <2>2. content[f][k - 1][1] \in interrupted /\ LastPiece(f, content[f][k - 1])
    BY DEF FileFacts, Continues
  <2>3. QED BY <2>1, <2>2, <1>1, <1>2, <1>3 DEF LastPiece
<1>9. EndsOpen(f)'
  <2>1. Len(content[f]) > 0 => Len(content[f]) \in 1 .. Len(content[f])
    BY WellTyped
  <2>2. QED BY <2>1, <1>1, <1>2, <1>3 DEF FileFacts, EndsOpen, LastPiece
<1>10. QED BY <1>4, <1>5, <1>6, <1>7, <1>8, <1>9 DEF FileFacts

\* While the observer rewrites the trace, the temporary file holds whole lines of it
\* and nothing else: no shim has it open.
LEMMA TemporaryIsOurs ==
    ASSUME TypeOK, ShimFacts, RewriteFacts, FileFacts("sorted"), pc = "rewrite"
    PROVE  LET c == content["sorted"] IN
           /\ \A k \in 1 .. Len(c) : c[k][1] \in read \ unwritten
           /\ Len(c) > 0 => IsNewline(c[Len(c)])
           /\ \A j \in Invocations : file[j] = "recorded"
<1> DEFINE c == content["sorted"]
<1>1. \A j \in Invocations : file[j] = "recorded"
  BY DEF RewriteFacts, BeforeReading, ReadFromRecorded, ShimFacts, ShimFact
<1>2. \A k \in 1 .. Len(c) : c[k][1] \in Invocations
  BY WellTyped DEF Files
<1>3. \A k \in 1 .. Len(c) : c[k][1] \in read \ unwritten
  BY <1>1, <1>2 DEF FileFacts, Accounted
<1>4. Len(c) > 0 => IsNewline(c[Len(c)])
  <2>1. Len(c) > 0 => Len(c) \in 1 .. Len(c)
    BY WellTyped DEF Files
  <2>2. QED BY <2>1, <1>1, <1>2 DEF FileFacts, EndsOpen, LastPiece
<1>5. QED BY <1>1, <1>3, <1>4

\* The next line of rewrite_trace.
LEMMA WriteLineKeepsSorted ==
    ASSUME TypeOK, ShimFacts, RewriteFacts, FileFacts("sorted"), WriteLine
    PROVE  FileFacts("sorted")'
<1> DEFINE c == content["sorted"]
           d == content'["sorted"]
<1>1. PICK i \in unwritten :
          /\ content' = [content EXCEPT !["sorted"] = @ \o Line(i)]
          /\ unwritten' = unwritten \ {i}
  BY DEF WriteLine
<1>2. /\ d = c \o Line(i) /\ c \in Seq(Pieces) /\ i \in Invocations /\ i \in read
      /\ Len(c) \in Nat /\ LineLength \in Nat \ {0, 1}
  <2>1. i \in read /\ i \in Invocations /\ "sorted" \in DOMAIN content
    BY <1>1 DEF TypeOK, Files
  <2>2. c \in Seq(Pieces)
    BY WellTyped DEF Files
  <2>3. Len(c) \in Nat
    BY <2>2
  <2>4. d = c \o Line(i)
    BY <1>1, <2>1
  <2>5. QED BY <2>1, <2>2, <2>3, <2>4, LineLengthAssumption
<1>3. /\ file' = file /\ written' = written /\ phase' = phase /\ lock' = lock
      /\ interrupted' = interrupted /\ read' = read
  BY DEF WriteLine, shims
<1>4. /\ \A k \in 1 .. Len(c) : c[k][1] \in read \ unwritten
      /\ Len(c) > 0 => IsNewline(c[Len(c)])
      /\ \A j \in Invocations : file[j] = "recorded"
  BY TemporaryIsOurs DEF WriteLine
<1>5. /\ d \in Seq(Pieces) /\ Len(d) = Len(c) + LineLength
      /\ \A n \in 1 .. LineLength : d[Len(c) + n] = Piece(i, n)
      /\ \A k \in 1 .. Len(c) : d[k] = c[k]
  BY SMTT(60), <1>2, ConcatGrows DEF Grows
<1>6. Shape(d)
  <2>1. Shape(c) /\ \A k \in 1 .. Len(c) : c[k][1] # i
    BY <1>4 DEF FileFacts
  <2>2. Shape(c \o Line(i))
    BY <1>2, <1>4, <2>1, ConcatKeepsShape
  <2>3. QED BY <2>2, <1>2
<1> HIDE DEF c, d
<1>7. ASSUME NEW k \in 1 .. Len(d)
      PROVE  \/ k \in 1 .. Len(c) /\ d[k] = c[k]
             \/ k - Len(c) \in 1 .. LineLength /\ d[k] = Piece(i, k - Len(c))
  <2>1. k \in 1 .. Len(c) \/ (k - Len(c) \in 1 .. LineLength /\ Len(c) + (k - Len(c)) = k)
    BY <1>2, <1>5
  <2>2. QED BY <2>1, <1>5
<1>8. Accounted("sorted")'
  <2>1. ASSUME NEW k \in 1 .. Len(d)
        PROVE  d[k][1] \in read \ (unwritten \ {i}) /\ file[d[k][1]] = "recorded"
    <3>1. d[k][1] \in read \ (unwritten \ {i})
      BY <1>2, <1>4, <1>7 DEF Piece
    <3>2. QED BY <3>1, <1>4 DEF TypeOK
  <2>2. QED BY <2>1, <1>1, <1>3 DEF Accounted, d
<1>9. InBlocks("sorted")'
  BY <1>3, <1>4 DEF InBlocks
<1>10. AtTheEnd("sorted")'
  BY <1>3, <1>4 DEF AtTheEnd
<1>11. IsNewline(d[Len(d)])
  <2>1. LineLength \in 1 .. LineLength
    BY <1>2
  <2>2. QED BY <2>1, <1>2, <1>5 DEF IsNewline, Piece
<1>12. Continues("sorted")'
  <2>1. ASSUME NEW k \in 2 .. Len(d), d[k][2] = 1, ~IsNewline(d[k - 1])
        PROVE  /\ d[k - 1][1] \in interrupted
               /\ file[d[k - 1][1]] = "sorted" /\ d[k - 1][2] = written[d[k - 1][1]]
    <3>1. CASE k \in 1 .. Len(c)
      <4>1. k \in 2 .. Len(c) /\ d[k] = c[k] /\ d[k - 1] = c[k - 1]
        BY <3>1, <1>2, <1>5
      <4>2. QED BY <4>1, <2>1 DEF FileFacts, Continues, LastPiece, c
    <3>2. CASE k \notin 1 .. Len(c)
      <4>1. k - Len(c) = 1
        BY <3>2, <2>1, <1>7 DEF Piece
      <4>2. k - 1 = Len(c) /\ Len(c) > 0 /\ Len(c) \in 1 .. Len(c)
        BY <4>1, <1>2
      <4>3. d[k - 1] = c[Len(c)]
        BY <4>2, <1>5
      <4>4. QED BY <4>2, <4>3, <2>1, <1>4
    <3>3. QED BY <3>1, <3>2
  <2>2. QED BY <2>1, <1>3 DEF Continues, LastPiece, IsNewline, d
<1>13. EndsOpen("sorted")'
  BY <1>11 DEF EndsOpen, d, IsNewline
<1>14. QED BY <1>6, <1>8, <1>9, <1>10, <1>12, <1>13 DEF FileFacts, d

------------------------------------------------------------------------------
(* Every step keeps the invariant, one part of it after the other. *)

\* The observer does not touch the shims, nor does it go back to the recorded trace.
LEMMA ObserverLeavesShims ==
    ASSUME ObserverStep \/ KillObserver
    PROVE  /\ lock' = lock /\ phase' = phase /\ file' = file /\ written' = written
           /\ appended' = appended /\ interrupted' = interrupted
           /\ flock_works' = flock_works
           /\ trace_path' = trace_path \/ (trace_path' = "sorted" /\ pc = "rename")
<1>1. CASE RunFails \/ Spawn \/ BuildEnds \/ ReadFails
  BY <1>1 DEF RunFails, Spawn, BuildEnds, ReadFails, shims
<1>2. CASE ReadTrace \/ WriteLine \/ CloseSorted \/ WriteSortedFails
  BY <1>2 DEF ReadTrace, WriteLine, CloseSorted, WriteSortedFails, shims
<1>3. CASE Rename \/ RenameFails \/ Report \/ KillObserver
  BY <1>3 DEF Rename, RenameFails, Report, KillObserver, shims
<1>4. QED BY <1>1, <1>2, <1>3 DEF ObserverStep

\* The shims do not touch the observer.
ShimMoves(i) == Open(i) \/ OpenFails(i) \/ ShimStep(i) \/ KillShim(i)

LEMMA ShimsLeaveObserver ==
    ASSUME NEW i \in Invocations, ShimMoves(i)
    PROVE  /\ pc' = pc /\ build' = build /\ read' = read /\ unwritten' = unwritten
           /\ malformed' = malformed /\ warned' = warned /\ exit' = exit /\ in_time' = in_time
           /\ trace_path' = trace_path /\ flock_works' = flock_works
           /\ content' = content \/ Write(i)
<1>1. CASE Open(i) \/ OpenFails(i) \/ KillShim(i)
  BY <1>1 DEF Open, OpenFails, KillShim, observer
<1>2. CASE ShimStep(i)
  BY <1>2 DEF ShimStep, Lock, LockFails, Write, Unlock, observer
<1>3. QED BY <1>1, <1>2 DEF ShimMoves

\* What the observer does to the two files.
LEMMA ObserverWrites ==
    ASSUME TypeOK, ObserverStep \/ KillObserver
    PROVE  /\ content'["recorded"] = content["recorded"]
           /\ \/ content' = content
              \/ WriteLine
              \/ pc = "rewrite" /\ FlushFails /\ CloseSorted
              \/ pc = "rewrite" /\ pc' = "report" /\ trace_path' = trace_path
              \/ pc = "rename" /\ pc' = "report" /\ trace_path' = trace_path
<1>1. CASE RunFails \/ Spawn \/ BuildEnds \/ ReadFails \/ ReadTrace
  BY <1>1 DEF RunFails, Spawn, BuildEnds, ReadFails, ReadTrace
<1>2. CASE Rename \/ Report \/ KillObserver
  BY <1>2 DEF Rename, Report, KillObserver
<1>3. CASE WriteLine
  BY <1>3 DEF WriteLine, TypeOK, Files
<1>4. CASE CloseSorted
  <2>1. PICK pieces \in Flushed : content' = [content EXCEPT !["sorted"] = pieces]
    BY <1>4 DEF CloseSorted
  <2>2. content'["recorded"] = content["recorded"]
    BY <2>1 DEF TypeOK, Files
  <2>3. CASE unwritten = {}
    <3>1. pieces = content["sorted"]
      BY <2>3 DEF Flushed
    <3>2. content' = content
      BY <2>1, <3>1 DEF TypeOK, Files
    <3>3. QED BY <3>2
  <2>4. CASE unwritten # {}
    <3>1. pc = "rewrite" /\ FlushFails
      BY <1>4, <2>4 DEF CloseSorted
    <3>2. QED BY <1>4, <2>2, <3>1
  <2>5. QED BY <2>3, <2>4
<1>5. CASE WriteSortedFails
  BY <1>5 DEF WriteSortedFails, TypeOK, Files
<1>6. CASE RenameFails
  BY <1>6 DEF RenameFails, TypeOK, Files
<1>7. QED BY <1>1, <1>2, <1>3, <1>4, <1>5, <1>6 DEF ObserverStep

LEMMA FilesStep ==
    ASSUME IInv, Next
    PROVE  \A f \in Files : InUse(f)' => FileFacts(f)'
<1> SUFFICES ASSUME NEW f \in Files, InUse(f)'
             PROVE  FileFacts(f)'
  OBVIOUS
<1>1. /\ TypeOK /\ ShimFacts /\ RewriteFacts
      /\ InUse(f) => FileFacts(f)
  BY DEF IInv
<1>2. ASSUME NEW i \in Invocations, ShimMoves(i)
      PROVE  FileFacts(f)'
  <2>1. InUse(f) /\ FileFacts(f) /\ read' = read /\ unwritten' = unwritten
    BY <1>1, <1>2, ShimsLeaveObserver DEF InUse
  <2>2. CASE Open(i)
    BY <1>1, <2>1, <2>2, OpenKeepsFile
  <2>3. CASE Write(i)
    BY <1>1, <2>1, <2>3, WriteKeepsItsFile, WriteKeepsOtherFile
  <2>4. CASE OpenFails(i)
    <3>1. /\ content' = content /\ file' = file /\ written' = written /\ lock' = lock
          /\ interrupted' = interrupted
          /\ \A j \in Invocations : phase'[j] = "locked" => phase[j] = "locked"
      BY <1>1, <2>4 DEF OpenFails, Goes, TypeOK
    <3>2. QED BY <1>1, <2>1, <3>1, QuietKeepsFile
  <2>5. CASE LockFails(i)
    <3>1. /\ content' = content /\ file' = file /\ written' = written /\ lock' = lock
          /\ interrupted' = interrupted
          /\ \A j \in Invocations : phase'[j] = "locked" => phase[j] = "locked"
      BY <1>1, <2>5 DEF LockFails, Goes, TypeOK
    <3>2. QED BY <1>1, <2>1, <3>1, QuietKeepsFile
  <2>6. CASE Lock(i)
    <3>1. /\ content' = content /\ file' = file /\ written' = written
          /\ interrupted' = interrupted
      BY <2>6 DEF Lock
    <3>2. \A j \in Invocations : phase'[j] = "locked" /\ written[j] > 0 => phase[j] = "locked"
      <4>1. phase[i] = "opened" /\ phase' = [phase EXCEPT ![i] = "locked"]
        BY <2>6 DEF Lock, Goes
      <4>2. ~(written[i] > 0)
        BY <1>1, <4>1 DEF ShimFacts, ShimFact, HolderIsInside
      <4>3. \A j \in Invocations \ {i} : phase'[j] = phase[j]
        BY <1>1, <4>1 DEF TypeOK
      <4>4. QED BY <4>2, <4>3
    <3>3. \A j \in Invocations : lock[f] = j => lock'[f] = j
      <4>1. 0 \notin Invocations
        BY DEF Invocations
      <4>2. QED BY <4>1, <1>1, <2>6 DEF Lock, TypeOK
    <3>4. QED BY <1>1, <2>1, <3>1, <3>2, <3>3, QuietKeepsFile
  <2>7. CASE Unlock(i) \/ KillShim(i)
    <3>1. /\ content' = content /\ file' = file /\ written' = written
          /\ interrupted' = IF LeavesPart(i) THEN interrupted \cup {i} ELSE interrupted
          /\ \A j \in Invocations : phase'[j] = "locked" => phase[j] = "locked"
      BY <1>1, <2>7 DEF Unlock, KillShim, Goes, TypeOK
    <3>2. \A j \in Invocations : lock[f] = j /\ LeavesPart(j) => lock'[f] = j \/ j \in interrupted'
      BY <2>7, <3>1 DEF Unlock, KillShim, Release
    <3>3. interrupted \subseteq interrupted'
      BY <3>1
    <3>4. QED BY <1>1, <2>1, <3>1, <3>2, <3>3, QuietKeepsFile
  <2>8. QED BY <1>2, <2>2, <2>3, <2>4, <2>5, <2>6, <2>7 DEF ShimMoves, ShimStep
<1>3. ASSUME ObserverStep \/ KillObserver
      PROVE  FileFacts(f)'
  <2>1. /\ lock' = lock /\ phase' = phase /\ file' = file /\ written' = written
        /\ interrupted' = interrupted
        /\ trace_path' = trace_path \/ (trace_path' = "sorted" /\ pc = "rename")
    BY <1>3, ObserverLeavesShims
  <2>2. CASE f = "recorded"
    <3>1. FileFacts(f) /\ content'[f] = content[f]
      BY <1>1, <1>3, <2>2, ObserverWrites DEF InUse
    <3>2. QED BY <1>1, <2>1, <2>2, <3>1, QuietKeepsFile
  <2>3. CASE f = "sorted" /\ ReadTrace
    <3>1. Len(content'[f]) = 0
      BY <1>1, <2>3 DEF ReadTrace, RewriteFacts, BeforeReading, ReadFromRecorded
    <3>2. \A j \in Invocations : file'[j] # f
      BY <1>1, <2>1, <2>3 DEF ReadTrace, RewriteFacts, BeforeReading, ReadFromRecorded, ShimFacts, ShimFact
    <3>3. Shape(content[f])' /\ Accounted(f)' /\ Continues(f)' /\ EndsOpen(f)'
      BY <3>1 DEF Shape, WrittenOnce, PiecesInOrder, OnALine, Accounted, Continues, EndsOpen
    <3>4. InBlocks(f)' /\ AtTheEnd(f)'
      BY <3>2 DEF InBlocks, AtTheEnd
    <3>5. QED BY <3>3, <3>4 DEF FileFacts
  <2>4. CASE f = "sorted" /\ WriteLine
    BY <1>1, <2>4, WriteLineKeepsSorted DEF InUse, WriteLine
  <2>5. CASE f = "sorted" /\ ~ReadTrace /\ ~WriteLine
    <3>1. InUse(f) /\ content'[f] = content[f]
      <4>1. ~FlushFails /\ (trace_path' = "sorted" \/ pc' \in {"rewrite", "rename"})
        BY <2>5 DEF InUse
      <4>2. trace_path = "sorted" \/ pc \in {"rewrite", "rename"}
        BY <1>3, <2>1, <2>5, <4>1
           DEF ObserverStep, RunFails, Finish, Spawn, BuildEnds, ReadFails, CloseSorted,
               WriteSortedFails, Rename, RenameFails, Report, KillObserver
      <4>3. pc \in {"rewrite", "rename"} => trace_path = "recorded"
        BY <1>1 DEF RewriteFacts, BeforeReading, ReadFromRecorded
      <4>4. content' = content
        BY <1>1, <1>3, <2>5, <4>1, <4>3, ObserverWrites
      <4>5. QED BY <4>1, <4>2, <4>4 DEF InUse
    <3>2. read' = read /\ unwritten' = unwritten
      BY <1>3, <2>5
         DEF ObserverStep, RunFails, Spawn, BuildEnds, ReadFails, CloseSorted,
             WriteSortedFails, Rename, RenameFails, Report, KillObserver
    <3>3. QED BY <1>1, <2>1, <3>1, <3>2, QuietKeepsFile
  <2>6. QED BY <2>2, <2>3, <2>4, <2>5 DEF Files
<1>4. QED BY <1>2, <1>3 DEF Next, ShimMoves

LEMMA ShimFactsStep ==
    ASSUME IInv, Next
    PROVE  ShimFacts'
<1>1. TypeOK /\ ShimFacts /\ RewriteFacts
  BY DEF IInv
<1>2. 0 \notin Invocations /\ \A f \in Files : lock[f] # 0 => lock[f] \in Invocations
  <2>1. \A f \in Files : lock[f] \in 0 .. MaxInvocations
    BY <1>1 DEF TypeOK
  <2>2. QED BY <2>1, InvocationsAssumption DEF Invocations
<1>3. CASE ObserverStep \/ KillObserver
  <2>1. /\ lock' = lock /\ phase' = phase /\ file' = file /\ written' = written
        /\ appended' = appended /\ interrupted' = interrupted
        /\ trace_path' = trace_path \/ trace_path' = "sorted"
    BY <1>3, ObserverLeavesShims
  <2>2. \A i \in Invocations : ShimFact(i)'
    BY <1>1, <2>1 DEF ShimFacts, ShimFact, LeavesPart
  <2>3. \A f \in Files : HolderIsInside(f)'
    BY <1>1, <2>1 DEF ShimFacts, HolderIsInside
  <2>4. QED BY <2>2, <2>3 DEF ShimFacts
<1>4. ASSUME NEW i \in Invocations, ShimMoves(i)
      PROVE  ShimFacts'
  <2>1. trace_path' = trace_path
    BY <1>4, ShimsLeaveObserver
  <2>2. phase[i] # "locked" => \A f \in Files : lock[f] # i
    BY <1>1, <1>2 DEF ShimFacts, ShimFact, HolderIsInside
  <2>3. CASE Open(i)
    <3>1. /\ phase[i] = "not started" /\ phase' = [phase EXCEPT ![i] = "opened"]
          /\ file' = [file EXCEPT ![i] = trace_path] /\ lock' = lock /\ written' = written
          /\ appended' = appended /\ interrupted' = interrupted
      BY <2>3 DEF Open, Goes
    <3>2. ~(written[i] > 0) /\ i \notin appended /\ i \notin interrupted
      BY <1>1, <3>1 DEF ShimFacts, ShimFact, HolderIsInside
    <3>3. /\ phase'[i] = "opened" /\ file'[i] = trace_path
          /\ \A j \in Invocations \ {i} : phase'[j] = phase[j] /\ file'[j] = file[j]
      BY <1>1, <3>1 DEF TypeOK
    <3>4. \A j \in Invocations : ShimFact(j)'
      BY <1>1, <2>1, <3>1, <3>2, <3>3 DEF ShimFacts, ShimFact, LeavesPart
    <3>5. \A f \in Files : HolderIsInside(f)'
      <4>1. \A f \in Files : lock[f] # 0 => lock[f] \in Invocations \ {i}
        BY <1>2, <2>2, <3>1
      <4>2. ASSUME NEW f \in Files, lock[f] # 0 PROVE HolderIsInside(f)'
        <5>1. /\ lock[f] \in Invocations \ {i} /\ lock'[f] = lock[f]
              /\ phase'[lock[f]] = phase[lock[f]] /\ file'[lock[f]] = file[lock[f]]
          BY <4>1, <4>2, <3>1, <3>3
        <5>2. QED BY <1>1, <4>2, <5>1 DEF ShimFacts, HolderIsInside
      <4>3. ASSUME NEW f \in Files, lock[f] = 0 PROVE HolderIsInside(f)'
        BY <4>3, <3>1 DEF HolderIsInside
      <4>4. QED BY <4>2, <4>3
    <3>6. QED BY <3>4, <3>5 DEF ShimFacts
  <2>4. CASE OpenFails(i) \/ LockFails(i)
    <3>1. /\ phase[i] \in {"not started", "opened"} /\ phase' = [phase EXCEPT ![i] = "exec"]
          /\ file' = file /\ lock' = lock /\ written' = written
          /\ appended' = appended /\ interrupted' = interrupted
      BY <2>4 DEF OpenFails, LockFails, Goes
    <3>2. ~(written[i] > 0) /\ i \notin appended /\ i \notin interrupted
      BY <1>1, <3>1 DEF ShimFacts, ShimFact, HolderIsInside
    <3>3. /\ phase'[i] = "exec"
          /\ \A j \in Invocations \ {i} : phase'[j] = phase[j]
      BY <1>1, <3>1 DEF TypeOK
    <3>4. \A j \in Invocations : ShimFact(j)'
      BY <1>1, <2>1, <3>1, <3>2, <3>3 DEF ShimFacts, ShimFact, LeavesPart
    <3>5. \A f \in Files : HolderIsInside(f)'
      <4>1. \A f \in Files : lock[f] # 0 => lock[f] \in Invocations \ {i}
        BY <1>2, <2>2, <3>1
      <4>2. ASSUME NEW f \in Files, lock[f] # 0 PROVE HolderIsInside(f)'
        <5>1. /\ lock[f] \in Invocations \ {i} /\ lock'[f] = lock[f]
              /\ phase'[lock[f]] = phase[lock[f]] /\ file'[lock[f]] = file[lock[f]]
          BY <4>1, <4>2, <3>1, <3>3
        <5>2. QED BY <1>1, <4>2, <5>1 DEF ShimFacts, HolderIsInside
      <4>3. ASSUME NEW f \in Files, lock[f] = 0 PROVE HolderIsInside(f)'
        BY <4>3, <3>1 DEF HolderIsInside
      <4>4. QED BY <4>2, <4>3
    <3>6. QED BY <3>4, <3>5 DEF ShimFacts
  <2>5. CASE Lock(i)
    <3>1. /\ phase[i] = "opened" /\ phase' = [phase EXCEPT ![i] = "locked"]
          /\ lock[file[i]] = 0 /\ lock' = [lock EXCEPT ![file[i]] = i]
          /\ file' = file /\ written' = written
          /\ appended' = appended /\ interrupted' = interrupted
      BY <2>5 DEF Lock, Goes
    <3>2. ~(written[i] > 0) /\ i \notin appended /\ i \notin interrupted
      BY <1>1, <3>1 DEF ShimFacts, ShimFact, HolderIsInside
    <3>3. /\ phase'[i] = "locked" /\ lock'[file[i]] = i /\ file[i] \in Files
          /\ \A j \in Invocations \ {i} : phase'[j] = phase[j]
          /\ \A f \in Files \ {file[i]} : lock'[f] = lock[f]
      BY <1>1, <3>1 DEF TypeOK
    <3>4. \A j \in Invocations : phase[j] = "locked" => file[j] # file[i]
      BY <1>1, <1>2, <3>1 DEF ShimFacts, ShimFact, HolderIsInside
    <3>5. \A j \in Invocations : ShimFact(j)'
      <4> SUFFICES ASSUME NEW j \in Invocations
                   PROVE  ShimFact(j)'
        OBVIOUS
      <4>1. CASE j = i
        BY <4>1, <1>1, <2>1, <3>1, <3>2, <3>3 DEF ShimFacts, ShimFact, LeavesPart
      <4>2. CASE j # i
        <5>1. phase'[j] = phase[j] /\ file[j] \in Files
          BY <4>2, <1>1, <3>3 DEF TypeOK
        <5>2. phase[j] = "locked" => lock'[file[j]] = j
          BY <5>1, <1>1, <3>3, <3>4 DEF ShimFacts, ShimFact, HolderIsInside
        <5>3. QED BY <5>1, <5>2, <1>1, <2>1, <3>1 DEF ShimFacts, ShimFact, LeavesPart
      <4>3. QED BY <4>1, <4>2
    <3>6. \A f \in Files : HolderIsInside(f)'
      <4> SUFFICES ASSUME NEW f \in Files, lock'[f] # 0
                   PROVE  phase'[lock'[f]] = "locked" /\ file[lock'[f]] = f
        BY <3>1 DEF HolderIsInside
      <4>1. CASE f = file[i]
        BY <4>1, <3>3
      <4>2. CASE f # file[i]
        <5>1. lock'[f] = lock[f] /\ lock[f] \in Invocations \ {i}
          BY <4>2, <1>2, <2>2, <3>1, <3>3
        <5>2. QED BY <5>1, <1>1, <3>3 DEF ShimFacts, ShimFact, HolderIsInside
      <4>3. QED BY <4>1, <4>2
    <3>7. QED BY <3>5, <3>6 DEF ShimFacts
  <2>6. CASE Write(i)
    <3>1. /\ phase[i] = "locked" /\ phase' = phase /\ lock' = lock /\ file' = file
          /\ written' = [written EXCEPT ![i] = @ + 1]
          /\ appended' = appended /\ interrupted' = interrupted
      BY <2>6 DEF Write
    <3>2. i \notin appended /\ i \notin interrupted
      BY <1>1, <3>1 DEF ShimFacts, ShimFact, HolderIsInside
    <3>3. \A j \in Invocations \ {i} : written'[j] = written[j]
      BY <1>1, <3>1 DEF TypeOK
    <3>4. \A j \in Invocations : ShimFact(j)'
      <4> SUFFICES ASSUME NEW j \in Invocations
                   PROVE  ShimFact(j)'
        OBVIOUS
      <4>1. CASE j = i
        BY <4>1, <1>1, <2>1, <3>1, <3>2 DEF ShimFacts, ShimFact, HolderIsInside
      <4>2. CASE j # i
        BY <4>2, <1>1, <2>1, <3>1, <3>3 DEF ShimFacts, ShimFact, LeavesPart
      <4>3. QED BY <4>1, <4>2
    <3>5. \A f \in Files : HolderIsInside(f)'
      BY <1>1, <3>1 DEF ShimFacts, HolderIsInside
    <3>6. QED BY <3>4, <3>5 DEF ShimFacts
  <2>7. CASE Unlock(i) \/ KillShim(i)
    <3>1. /\ phase[i] \in {"opened", "locked"}
          /\ \/ phase' = [phase EXCEPT ![i] = "exec"] /\ phase[i] = "locked"
             \/ phase' = [phase EXCEPT ![i] = "killed"]
          /\ lock' = [f \in Files |-> IF lock[f] = i THEN 0 ELSE lock[f]]
          /\ file' = file /\ written' = written
          /\ interrupted' = IF LeavesPart(i) THEN interrupted \cup {i} ELSE interrupted
      BY <2>7 DEF Unlock, KillShim, Goes, Release
    <3>2. phase'[i] \in {"exec", "killed"} /\ \A j \in Invocations \ {i} : phase'[j] = phase[j]
      BY <1>1, <3>1 DEF TypeOK
    <3>3. i \notin appended
      BY <1>1, <3>1 DEF ShimFacts, ShimFact, HolderIsInside
    <3>4. /\ i \in appended' => phase'[i] = "exec" /\ written[i] = LineLength
          /\ \A j \in Invocations \ {i} : j \in appended' => j \in appended
      <4>1. CASE Unlock(i)
        <5>1. phase' = [phase EXCEPT ![i] = "exec"]
          BY <4>1 DEF Unlock, Goes
        <5>2. phase'[i] = "exec"
          BY <5>1, <1>1 DEF TypeOK
        <5>3. QED BY <4>1, <5>2, <3>3 DEF Unlock
      <4>2. CASE KillShim(i)
        BY <4>2, <3>3 DEF KillShim
      <4>3. QED BY <2>7, <4>1, <4>2
    <3>5. \A j \in Invocations \ {i} : j \in interrupted' => j \in interrupted
      BY <3>1
    <3>6. i \in interrupted' => LeavesPart(i)
      BY <1>1, <3>1 DEF ShimFacts, ShimFact, HolderIsInside
    <3>7. \A j \in Invocations : ShimFact(j)'
      <4> SUFFICES ASSUME NEW j \in Invocations
                   PROVE  ShimFact(j)'
        OBVIOUS
      <4>1. CASE j = i
        BY <4>1, <1>1, <2>1, <3>1, <3>2, <3>4, <3>6 DEF ShimFacts, ShimFact, LeavesPart
      <4>2. CASE j # i
        <5>1. phase'[j] = phase[j] /\ file[j] \in Files
          BY <4>2, <1>1, <3>2 DEF TypeOK
        <5>2. phase[j] = "locked" => lock'[file[j]] = j
          BY <4>2, <5>1, <1>1, <3>1 DEF ShimFacts, ShimFact, HolderIsInside
        <5>3. QED BY <4>2, <5>1, <5>2, <1>1, <2>1, <3>1, <3>4, <3>5 DEF ShimFacts, ShimFact, LeavesPart
      <4>3. QED BY <4>1, <4>2
    <3>8. \A f \in Files : HolderIsInside(f)'
      <4> SUFFICES ASSUME NEW f \in Files, lock'[f] # 0
                   PROVE  phase'[lock'[f]] = "locked" /\ file[lock'[f]] = f
        BY <3>1 DEF HolderIsInside
      <4>1. lock'[f] = lock[f] /\ lock[f] \in Invocations \ {i}
        BY <1>2, <3>1
      <4>2. QED BY <4>1, <1>1, <3>2 DEF ShimFacts, ShimFact, HolderIsInside
    <3>9. QED BY <3>7, <3>8 DEF ShimFacts
  <2>8. QED BY <1>4, <2>3, <2>4, <2>5, <2>6, <2>7 DEF ShimMoves, ShimStep
<1>5. QED BY <1>3, <1>4 DEF Next, ShimMoves

\* What the temporary file may be left with is made of pieces as well.
LEMMA FlushedPieces ==
    ASSUME TypeOK
    PROVE  Flushed \subseteq Seq(Pieces)
<1> SUFFICES ASSUME NEW i \in unwritten, NEW n \in 1 .. LineLength - 1
             PROVE  content["sorted"] \o SubSeq(Line(i), 1, n) \in Seq(Pieces)
  <2>1. content["sorted"] \in Seq(Pieces)
    BY WellTyped DEF Files
  <2>2. ASSUME NEW pieces \in Flushed
        PROVE  pieces \in Seq(Pieces)
    <3>1. \/ pieces = content["sorted"]
          \/ \E j \in unwritten, n \in 1 .. LineLength - 1 :
                pieces = content["sorted"] \o SubSeq(Line(j), 1, n)
      BY DEF Flushed
    <3> HIDE DEF Pieces, Line
    <3>2. QED BY <2>1, <3>1
  <2>3. QED BY <2>2
<1>1. content["sorted"] \in Seq(Pieces)
  BY WellTyped DEF Files
<1>2. i \in Invocations
  BY DEF TypeOK
<1>3. Line(i) \in Seq(Pieces) /\ Len(Line(i)) = LineLength
  BY <1>2, LineOfPieces
<1> HIDE DEF Pieces, Line
<1>4. SubSeq(Line(i), 1, n) \in Seq(Pieces)
  BY <1>3, LineLengthAssumption
<1>5. QED BY <1>1, <1>4

LEMMA ContentType ==
    ASSUME TypeOK, Next
    PROVE  content' \in [Files -> Seq(Pieces)]
<1>1. content \in [Files -> Seq(Pieces)]
  BY DEF TypeOK, Pieces
<1> DEFINE Changed(f, s) == content' = [content EXCEPT ![f] = s]
<1>2. ASSUME NEW f \in Files, NEW s \in Seq(Pieces), Changed(f, s)
      PROVE  content' \in [Files -> Seq(Pieces)]
  <2> HIDE DEF Pieces
  <2> QED BY <1>1, <1>2
<1>3. ASSUME NEW i \in Invocations, Write(i)
      PROVE  content' \in [Files -> Seq(Pieces)]
  <2>1. file[i] \in Files /\ Piece(i, written[i] + 1) \in Pieces
    <3>1. file[i] \in Files /\ written[i] \in 0 .. LineLength
      BY DEF TypeOK
    <3>2. written[i] < LineLength
      BY <1>3 DEF Write
    <3>3. QED BY <3>1, <3>2, LineLengthAssumption DEF Piece, Pieces
  <2>2. Append(content[file[i]], Piece(i, written[i] + 1)) \in Seq(Pieces)
    BY <2>1, WellTyped, AppendGrows
  <2>3. Changed(file[i], Append(content[file[i]], Piece(i, written[i] + 1)))
    BY <1>3 DEF Write
  <2> HIDE DEF Changed
  <2>4. QED BY <2>1, <2>2, <2>3, <1>2
<1>4. CASE WriteLine
  <2>1. PICK i \in unwritten : Changed("sorted", content["sorted"] \o Line(i))
    BY <1>4 DEF WriteLine
  <2>2. i \in Invocations /\ content["sorted"] \in Seq(Pieces)
    BY WellTyped DEF TypeOK, Files
  <2>3. content["sorted"] \o Line(i) \in Seq(Pieces)
    BY <2>2, ConcatGrows
  <2> HIDE DEF Changed
  <2>4. QED BY <2>1, <2>3, <1>2 DEF Files
<1>5. CASE CloseSorted \/ WriteSortedFails
  <2>1. PICK pieces \in Flushed : Changed("sorted", pieces)
    BY <1>5 DEF CloseSorted, WriteSortedFails
  <2>2. pieces \in Seq(Pieces)
    BY <2>1, FlushedPieces
  <2> HIDE DEF Changed
  <2>3. QED BY <2>1, <2>2, <1>2 DEF Files
<1>6. CASE RenameFails
  <2>1. Changed("sorted", <<>>) /\ <<>> \in Seq(Pieces)
    BY <1>6 DEF RenameFails
  <2> HIDE DEF Changed
  <2>2. QED BY <2>1, <1>2 DEF Files
<1>7. CASE RunFails \/ Spawn \/ BuildEnds \/ ReadFails \/ ReadTrace \/ Rename \/ Report \/ KillObserver
  BY <1>1, <1>7 DEF RunFails, Spawn, BuildEnds, ReadFails, ReadTrace, Rename, Report, KillObserver
<1>8. CASE content' = content
  BY <1>1, <1>8
<1>9. QED
  <2>1. ASSUME NEW i \in Invocations, ShimMoves(i)
        PROVE  content' \in [Files -> Seq(Pieces)]
    BY <2>1, <1>3, <1>8, ShimsLeaveObserver
  <2>2. QED BY <2>1, <1>4, <1>5, <1>6, <1>7 DEF Next, ObserverStep, ShimMoves

LEMMA ShimTypesStep ==
    ASSUME TypeOK, NEW i \in Invocations, ShimMoves(i)
    PROVE  /\ lock' \in [Files -> 0 .. MaxInvocations]
           /\ phase' \in [Invocations -> {"not started", "opened", "locked", "exec", "killed"}]
           /\ file' \in [Invocations -> Files]
           /\ written' \in [Invocations -> 0 .. LineLength]
           /\ appended \subseteq appended' /\ appended' \subseteq Invocations
           /\ interrupted' \subseteq Invocations
<1>1. i \in 0 .. MaxInvocations /\ 0 \in 0 .. MaxInvocations
  BY InvocationsAssumption DEF Invocations
<1>2. CASE Open(i) \/ OpenFails(i) \/ LockFails(i)
  <2>1. CASE Open(i)
    BY <2>1 DEF Open, Goes, TypeOK
  <2>2. CASE OpenFails(i) \/ LockFails(i)
    BY <2>2 DEF OpenFails, LockFails, Goes, TypeOK
  <2>3. QED BY <1>2, <2>1, <2>2
<1>3. CASE Lock(i)
  BY <1>1, <1>3 DEF Lock, Goes, TypeOK
<1>4. CASE Write(i)
  <2>1. written[i] + 1 \in 0 .. LineLength
    <3>1. written[i] \in 0 .. LineLength
      BY DEF TypeOK
    <3>2. written[i] < LineLength
      BY <1>4 DEF Write
    <3>3. QED BY <3>1, <3>2, LineLengthAssumption
  <2>2. QED BY <1>4, <2>1 DEF Write, TypeOK
<1>5. CASE Unlock(i) \/ KillShim(i)
  <2>1. lock' \in [Files -> 0 .. MaxInvocations]
    BY <1>1, <1>5 DEF Unlock, KillShim, Release, TypeOK
  <2>2. phase' \in [Invocations -> {"not started", "opened", "locked", "exec", "killed"}]
    BY <1>5 DEF Unlock, KillShim, Goes, TypeOK
  <2>3. QED BY <1>5, <2>1, <2>2 DEF Unlock, KillShim, TypeOK
<1>6. QED BY <1>2, <1>3, <1>4, <1>5 DEF ShimMoves, ShimStep

LEMMA TypeStep ==
    ASSUME IInv, Next
    PROVE  TypeOK'
<1>1. TypeOK /\ RewriteFacts
  BY DEF IInv
<1>2. content' \in [Files -> Seq(Invocations \X (1 .. LineLength))]
  BY <1>1, ContentType DEF Pieces
<1>3. ASSUME NEW i \in Invocations, ShimMoves(i)
      PROVE  TypeOK'
  <2>1. /\ pc' = pc /\ build' = build /\ read' = read /\ unwritten' = unwritten
        /\ malformed' = malformed /\ warned' = warned /\ exit' = exit /\ in_time' = in_time
        /\ trace_path' = trace_path /\ flock_works' = flock_works
    BY <1>3, ShimsLeaveObserver
  <2>2. QED BY <1>1, <1>2, <1>3, <2>1, ShimTypesStep DEF TypeOK
<1>4. ASSUME ObserverStep \/ KillObserver
      PROVE  TypeOK'
  <2>1. /\ lock' = lock /\ phase' = phase /\ file' = file /\ written' = written
        /\ appended' = appended /\ interrupted' = interrupted /\ flock_works' = flock_works
        /\ trace_path' \in Files
    BY <1>1, <1>4, ObserverLeavesShims DEF TypeOK, Files
  <2>2. /\ warned' \in BOOLEAN
        /\ pc' \in {"ready", "building", "built", "rewrite", "rename", "report", "done", "dead"}
        /\ build' \in {"none", "exited 0", "failed"}
        /\ read' \subseteq Invocations /\ unwritten' \subseteq read' /\ malformed' \in 0 .. MaxInvocations
        /\ exit' \in {"none", "incomplete", "warnings", "clean"}
        /\ in_time' \subseteq appended
    <3>1. CASE RunFails \/ Spawn \/ BuildEnds \/ ReadFails
      BY <1>1, <3>1 DEF RunFails, Finish, Spawn, BuildEnds, ReadFails, TypeOK
    <3>2. CASE ReadTrace
      <4>1. trace_path = "recorded" /\ FileFacts("recorded")
        BY <1>1, <3>2 DEF ReadTrace, RewriteFacts, BeforeReading, ReadFromRecorded, IInv, InUse, Files
      <4>2. malformed' \in 0 .. MaxInvocations
        BY <1>1, <3>2, <4>1, WellTyped, MalformedCounts DEF ReadTrace, FileFacts, Files
      <4>3. warned' \in BOOLEAN /\ pc' \in {"report", "rewrite"}
        BY <3>2 DEF ReadTrace
      <4>4. QED BY <1>1, <3>2, <4>2, <4>3 DEF ReadTrace, Records, TypeOK
    <3>3. CASE WriteLine \/ CloseSorted \/ WriteSortedFails
      BY <1>1, <3>3 DEF WriteLine, CloseSorted, WriteSortedFails, TypeOK
    <3>4. CASE Rename \/ RenameFails \/ KillObserver
      BY <1>1, <3>4 DEF Rename, RenameFails, KillObserver, TypeOK
    <3>5. CASE Report
      <4>1. exit' \in {"incomplete", "warnings", "clean"} /\ pc' = "done"
        BY <3>5 DEF Report, Finish
      <4>2. QED BY <1>1, <3>5, <4>1 DEF Report, TypeOK
    <3>6. QED BY <1>4, <3>1, <3>2, <3>3, <3>4, <3>5 DEF ObserverStep
  <2>3. QED BY <1>1, <1>2, <2>1, <2>2 DEF TypeOK
<1>5. QED BY <1>3, <1>4 DEF Next, ShimMoves

\* The shims add to the files, and to the temporary one only after it took the place
\* of the trace.
LEMMA ShimsKeepRewrite ==
    ASSUME IInv, NEW i \in Invocations, ShimMoves(i)
    PROVE  RewriteFacts'
<1>1. /\ TypeOK /\ ShimFacts /\ ShimFact(i)
      /\ BeforeReading /\ ReadFromRecorded /\ KeptInRecorded /\ KeptInSorted
  BY DEF IInv, ShimFacts, RewriteFacts
<1>2. /\ pc' = pc /\ read' = read /\ unwritten' = unwritten /\ exit' = exit
      /\ in_time' = in_time /\ trace_path' = trace_path
      /\ content' = content \/ Write(i)
  BY ShimsLeaveObserver
<1>3. \A f \in Files : content[f] \in Seq(Pieces) /\ content'[f] \in Seq(Pieces)
  <2>1. content' \in [Files -> Seq(Pieces)]
    BY <1>1, ContentType DEF Next, ShimMoves
  <2> HIDE DEF Pieces
  <2>2. QED BY <2>1, <1>1, WellTyped
<1>4. Write(i) => \A f \in Files : IF f = file[i] THEN content'[f] = Append(content[f], Piece(i, written[i] + 1))
                                                  ELSE content'[f] = content[f]
  BY <1>1 DEF Write, TypeOK
<1>5. Write(i) => Piece(i, written[i] + 1) \in Pieces
  <2>1. written[i] \in 0 .. LineLength
    BY <1>1 DEF TypeOK
  <2>2. Write(i) => written[i] < LineLength
    BY DEF Write
  <2>3. QED BY <2>1, <2>2, LineLengthAssumption DEF Piece, Pieces
<1>6. \A f \in Files : Grows(content[f], content'[f])
  <2>1. \A f \in Files : Grows(content[f], content[f])
    BY <1>3 DEF Grows
  <2>2. CASE content' = content
    BY <2>1, <2>2
  <2>3. CASE Write(i)
    <3> SUFFICES ASSUME NEW f \in Files
                 PROVE  Grows(content[f], content'[f])
      OBVIOUS
    <3>1. CASE f = file[i]
      BY <2>3, <3>1, <1>3, <1>4, <1>5, AppendGrows
    <3>2. CASE f # file[i]
      BY <2>1, <2>3, <3>2, <1>4
    <3>3. QED BY <3>1, <3>2
  <2>4. QED BY <1>2, <2>2, <2>3
<1>7. trace_path = "recorded" => content'["sorted"] = content["sorted"]
  BY <1>1, <1>2, <1>4 DEF ShimFact, Files
<1>8. BeforeReading'
  BY <1>1, <1>2, <1>7 DEF BeforeReading
<1>9. ReadFromRecorded'
  <2>1. ASSUME NEW j \in read
        PROVE  file'[j] = "recorded" /\ written'[j] > 0
    <3> j \in Invocations
      BY <1>1 DEF TypeOK
    <3>1. file[j] = "recorded" /\ written[j] > 0 /\ written[j] \in Int
      <4>1. written[j] \in 0 .. LineLength
        BY <1>1 DEF TypeOK
      <4>2. file[j] = "recorded" /\ written[j] > 0
        BY <1>1 DEF ReadFromRecorded
      <4>3. QED BY <4>1, <4>2, LineLengthAssumption
    <3>2. CASE Open(i)
      <4>1. j # i
        BY <3>1, <3>2, <1>1 DEF Open, Goes, ShimFact
      <4>2. QED BY <3>1, <3>2, <4>1, <1>1 DEF Open, TypeOK
    <3>3. CASE Write(i)
      <4>1. file' = file /\ written' = [written EXCEPT ![i] = @ + 1]
        BY <3>3 DEF Write
      <4>2. written'[j] = written[j] \/ written'[j] = written[j] + 1
        BY <4>1, <1>1 DEF TypeOK
      <4>3. QED BY <3>1, <4>1, <4>2
    <3>4. CASE OpenFails(i) \/ Lock(i) \/ LockFails(i) \/ Unlock(i) \/ KillShim(i)
      BY <3>1, <3>4 DEF OpenFails, Lock, LockFails, Unlock, KillShim
    <3>5. QED BY <3>2, <3>3, <3>4 DEF ShimMoves, ShimStep
  <2>2. QED BY <2>1, <1>1, <1>2 DEF ReadFromRecorded
<1>10. KeptInRecorded'
  <2>1. ASSUME NEW j \in in_time \cap read
        PROVE  Kept(content'["recorded"], j)
    <3>1. Kept(content["recorded"], j) /\ j \in Invocations
      BY <1>1 DEF KeptInRecorded, TypeOK
    <3>2. QED BY <3>1, <1>3, <1>6, KeptGrows DEF Files
  <2>2. QED BY <2>1, <1>2 DEF KeptInRecorded
<1>11. KeptInSorted'
  <2> SUFFICES ASSUME InUse("sorted")'
               PROVE  /\ ReadComesFirst'
                      /\ \A j \in read \ unwritten : Kept(content'["sorted"], j)
                      /\ pc = "rename" \/ trace_path = "sorted" => unwritten = {}
    BY <1>2 DEF KeptInSorted
  <2>1. /\ ReadComesFirst
        /\ \A j \in read \ unwritten : Kept(content["sorted"], j)
        /\ pc = "rename" \/ trace_path = "sorted" => unwritten = {}
    BY <1>1, <1>2 DEF KeptInSorted, InUse
  <2>2. \A j \in read \ unwritten : Kept(content'["sorted"], j)
    <3> SUFFICES ASSUME NEW j \in read \ unwritten
                 PROVE  Kept(content'["sorted"], j)
      OBVIOUS
    <3>1. Kept(content["sorted"], j) /\ j \in Invocations
      BY <1>1, <2>1 DEF TypeOK
    <3>2. QED BY <3>1, <1>3, <1>6, KeptGrows DEF Files
  <2>3. ReadComesFirst'
    <3>1. CASE content'["sorted"] = content["sorted"]
      BY <2>1, <3>1, <1>2 DEF ReadComesFirst
    <3>2. CASE Write(i) /\ file[i] = "sorted"
      <4> DEFINE c == content["sorted"]
                 d == content'["sorted"]
      <4>1. /\ c \in Seq(Pieces) /\ Len(d) = Len(c) + 1 /\ d[Len(c) + 1][1] = i
            /\ \A k \in 1 .. Len(c) : d[k] = c[k]
        BY <3>2, <1>3, <1>4, <1>5, AppendGrows DEF Grows, Files, Piece
      <4>2. i \notin read
        BY <3>2, <1>1 DEF ReadFromRecorded
      <4> HIDE DEF d
      <4>3. ASSUME NEW k \in 1 .. Len(d), NEW l \in 1 .. Len(d), k <= l, d[l][1] \in read
            PROVE  d[k][1] \in read
        <5>1. l \in 1 .. Len(c) /\ k \in 1 .. Len(c)
          BY <4>1, <4>2, <4>3
        <5>2. QED BY <4>1, <4>3, <5>1, <2>1 DEF ReadComesFirst
      <4>4. QED BY <4>3, <1>2 DEF ReadComesFirst, d
    <3>3. QED BY <3>1, <3>2, <1>2, <1>4 DEF Files
  <2>4. QED BY <2>1, <2>2, <2>3
<1>12. QED BY <1>8, <1>9, <1>10, <1>11 DEF RewriteFacts

\* What is read as a record and was appended in full is a line of its own.
LEMMA ReadAndWholeIsKept ==
    ASSUME TypeOK, ShimFacts, FileFacts("recorded"), trace_path = "recorded",
           NEW i \in Records(content["recorded"]), i \in appended
    PROVE  Kept(content["recorded"], i)
<1> DEFINE c == content["recorded"]
<1>1. i \in Invocations /\ file[i] = "recorded" /\ written[i] = LineLength
  BY DEF Records, ShimFacts, ShimFact
<1>2. PICK s \in 1 .. Len(c) :
          /\ s + LineLength - 1 <= Len(c)
          /\ \A n \in 1 .. LineLength : c[s + n - 1] = Piece(i, n)
  <2>1. written[i] > 0
    BY <1>1, LineLengthAssumption
  <2>2. PICK s \in 1 .. Len(c) :
            /\ s + written[i] - 1 <= Len(c)
            /\ \A n \in 1 .. written[i] : c[s + n - 1] = Piece(i, n)
    BY <1>1, <2>1 DEF FileFacts, InBlocks
  <2>3. QED BY <1>1, <2>2
<1>3. PICK k \in 1 .. Len(c) :
          /\ StartsLine(c, k)
          /\ \A n \in 1 .. LineLength - 1 : c[k + n - 1] = Piece(i, n)
  BY DEF Records, HasRecord
<1>4. k = s
  <2>1. 1 \in 1 .. LineLength - 1 /\ 1 \in 1 .. LineLength /\ s + 1 - 1 = s /\ k + 1 - 1 = k
    BY LineLengthAssumption
  <2>2. c[k] = c[s]
    BY <1>2, <1>3, <2>1
  <2>3. QED BY <2>2 DEF FileFacts, Shape, WrittenOnce
<1>5. QED BY <1>2, <1>3, <1>4 DEF Kept, LineAt

LEMMA ObserverKeepsRewrite ==
    ASSUME IInv, ObserverStep \/ KillObserver
    PROVE  RewriteFacts'
<1>1. /\ TypeOK /\ ShimFacts
      /\ BeforeReading /\ ReadFromRecorded /\ KeptInRecorded /\ KeptInSorted
      /\ FileFacts("recorded") /\ (InUse("sorted") => FileFacts("sorted"))
  BY DEF IInv, RewriteFacts, InUse, Files
<1>2. /\ file' = file /\ written' = written
      /\ trace_path' = trace_path \/ (trace_path' = "sorted" /\ pc = "rename")
  BY ObserverLeavesShims
<1>3. content'["recorded"] = content["recorded"]
  BY <1>1, ObserverWrites
<1>4. CASE ReadTrace
  <2>1. /\ pc = "built" /\ pc' \in {"report", "rewrite"} /\ content' = content
        /\ trace_path' = trace_path /\ trace_path = "recorded"
        /\ read' = Records(content["recorded"]) /\ unwritten' = read' /\ in_time' = appended
        /\ content["sorted"] = <<>>
    BY <1>1, <1>4 DEF ReadTrace, BeforeReading
  <2>2. BeforeReading'
    BY <2>1 DEF BeforeReading
  <2>3. ASSUME NEW j \in read'
        PROVE  file[j] = "recorded" /\ written[j] > 0
    <3>1. j \in Invocations
      BY <2>1, <2>3 DEF Records
    <3>2. PICK k \in 1 .. Len(content["recorded"]) : content["recorded"][k + 1 - 1] = Piece(j, 1)
      <4>1. 1 \in 1 .. LineLength - 1
        BY LineLengthAssumption
      <4>2. QED BY <2>1, <2>3, <4>1 DEF Records, HasRecord
    <3>3. content["recorded"][k][1] = j /\ content["recorded"][k][2] = 1
      BY <3>2 DEF Piece
    <3>4. /\ file[j] = "recorded" => 1 <= written[j]
          /\ file[j] = "recorded"
      BY <1>1, <3>3 DEF FileFacts, Accounted
    <3>5. written[j] \in 0 .. LineLength
      BY <1>1, <3>1 DEF TypeOK
    <3>6. QED BY <3>4, <3>5, LineLengthAssumption
  <2>4. ReadFromRecorded'
    BY <1>2, <2>1, <2>3 DEF ReadFromRecorded
  <2>5. ASSUME NEW j \in in_time' \cap read'
        PROVE  Kept(content["recorded"], j)
    BY <1>1, <2>1, <2>5, ReadAndWholeIsKept
  <2>6. KeptInRecorded'
    BY <2>1, <2>5 DEF KeptInRecorded
  <2>7. KeptInSorted'
    <3>1. ReadComesFirst'
      BY <2>1 DEF ReadComesFirst
    <3>2. pc' # "rename" /\ trace_path' # "sorted" /\ read' \ unwritten' = {}
      BY <2>1
    <3>3. QED BY <3>1, <3>2 DEF KeptInSorted
  <2>8. QED BY <2>2, <2>4, <2>6, <2>7 DEF RewriteFacts
<1>5. CASE WriteLine
  <2> DEFINE c == content["sorted"]
             d == content'["sorted"]
  <2>1. PICK i \in unwritten :
            /\ content' = [content EXCEPT !["sorted"] = @ \o Line(i)]
            /\ unwritten' = unwritten \ {i}
    BY <1>5 DEF WriteLine
  <2>2. /\ pc = "rewrite" /\ pc' = "rewrite" /\ trace_path' = trace_path
        /\ trace_path = "recorded" /\ read' = read /\ in_time' = in_time /\ exit' = exit
    BY <1>1, <1>5 DEF WriteLine, ReadFromRecorded
  <2>3. /\ i \in read /\ i \in Invocations /\ c \in Seq(Pieces) /\ d = c \o Line(i)
    <3>1. "sorted" \in DOMAIN content /\ i \in read /\ i \in Invocations
      BY <1>1, <2>1 DEF TypeOK, Files
    <3>2. c \in Seq(Pieces)
      BY <1>1, WellTyped DEF Files
    <3>3. QED BY <2>1, <3>1, <3>2
  <2>4. BeforeReading'
    BY <2>2 DEF BeforeReading
  <2>5. ReadFromRecorded'
    BY <1>1, <1>2, <2>2 DEF ReadFromRecorded
  <2>6. KeptInRecorded'
    BY <1>1, <1>3, <2>2 DEF KeptInRecorded
  <2>7. KeptInSorted'
    <3> SUFFICES ASSUME InUse("sorted")'
                 PROVE  /\ ReadComesFirst'
                        /\ \A j \in read \ (unwritten \ {i}) : Kept(d, j)
      BY <2>1, <2>2 DEF KeptInSorted
    <3>1. InUse("sorted")
      BY <2>2 DEF InUse
    <3>2. /\ ReadComesFirst
          /\ \A j \in read \ unwritten : Kept(c, j)
          /\ FileFacts("sorted")
      BY <1>1, <3>1 DEF KeptInSorted
    <3>3. /\ \A k \in 1 .. Len(c) : c[k][1] \in read \ unwritten
          /\ Len(c) > 0 => IsNewline(c[Len(c)])
      BY <1>1, <2>2, <3>2, TemporaryIsOurs DEF RewriteFacts
    <3>4. /\ d \in Seq(Pieces) /\ Grows(c, d) /\ Len(d) = Len(c) + LineLength
          /\ \A n \in 1 .. LineLength : d[Len(c) + n] = Piece(i, n)
      BY <2>3, ConcatGrows
    <3>5. StartsLine(d, Len(c) + 1) /\ LineAt(d, i, Len(c) + 1)
      <4>1. Shape(c) /\ \A k \in 1 .. Len(c) : c[k][1] # i
        BY <3>2, <3>3 DEF FileFacts
      <4>2. QED BY <2>3, <3>3, <4>1, ConcatKeepsShape
    <3>6. Len(c) \in Nat /\ LineLength \in Nat \ {0, 1}
      BY <2>3, LineLengthAssumption
    <3> HIDE DEF c, d
    <3>7. Kept(d, i)
      BY <3>4, <3>5, <3>6 DEF Kept
    <3>8. ASSUME NEW j \in read \ (unwritten \ {i})
          PROVE  Kept(d, j)
      <4>1. CASE j = i
        BY <3>7, <4>1
      <4>2. CASE j # i
        <5>1. Kept(c, j) /\ j \in Invocations
          BY <4>2, <1>1, <3>2 DEF TypeOK
        <5>2. QED BY <5>1, <2>3, <3>4, KeptGrows
      <4>3. QED BY <4>1, <4>2
    <3>9. ASSUME NEW k \in 1 .. Len(d)
          PROVE  d[k][1] \in read
      <4>1. CASE k \in 1 .. Len(c)
        BY <4>1, <3>3, <3>4 DEF Grows
      <4>2. CASE k \notin 1 .. Len(c)
        <5>1. k - Len(c) \in 1 .. LineLength /\ Len(c) + (k - Len(c)) = k
          BY <4>2, <3>4, <3>6
        <5>2. d[k] = Piece(i, k - Len(c))
          BY <3>4, <5>1
        <5>3. QED BY <5>2, <2>3 DEF Piece
      <4>3. QED BY <4>1, <4>2
    <3>10. ReadComesFirst'
      BY <3>9, <2>2 DEF ReadComesFirst, d
    <3>11. QED BY <3>8, <3>10
  <2>8. QED BY <2>4, <2>5, <2>6, <2>7 DEF RewriteFacts
<1>6. CASE ~ReadTrace /\ ~WriteLine
  <2>1. read' = read /\ unwritten' = unwritten /\ in_time' = in_time
    BY <1>6
       DEF ObserverStep, RunFails, Spawn, BuildEnds, ReadFails, CloseSorted,
           WriteSortedFails, Rename, RenameFails, Report, KillObserver
  <2>2. /\ pc' \in {"ready", "building", "built"} =>
              pc \in {"ready", "building", "built"} /\ exit' = exit /\ content' = content
                  /\ trace_path' = trace_path
        /\ pc' \in {"rewrite", "rename"} => pc = "rewrite" /\ trace_path' = trace_path
        /\ trace_path' = "sorted" => trace_path = "sorted" \/ pc = "rename"
    BY <1>6
       DEF ObserverStep, RunFails, Finish, Spawn, BuildEnds, ReadFails, CloseSorted,
           WriteSortedFails, Rename, RenameFails, Report, KillObserver
  <2>3. BeforeReading'
    BY <1>1, <2>1, <2>2 DEF BeforeReading
  <2>4. ReadFromRecorded'
    BY <1>1, <1>2, <2>1, <2>2 DEF ReadFromRecorded
  <2>5. KeptInRecorded'
    BY <1>1, <1>3, <2>1 DEF KeptInRecorded
  <2>6. KeptInSorted'
    <3> SUFFICES ASSUME InUse("sorted")'
                 PROVE  /\ ReadComesFirst'
                        /\ \A j \in read \ unwritten : Kept(content'["sorted"], j)
                        /\ pc' = "rename" \/ trace_path' = "sorted" => unwritten = {}
      BY <2>1 DEF KeptInSorted
    <3>1. ~FlushFails /\ (trace_path' = "sorted" \/ pc' \in {"rewrite", "rename"})
      BY DEF InUse
    <3>2. InUse("sorted")
      BY <2>2, <3>1 DEF InUse
    <3>3. content' = content
      <4>1. ~(pc = "rewrite" /\ FlushFails)
        BY <3>1
      <4>2. ~(pc \in {"rewrite", "rename"} /\ pc' = "report" /\ trace_path' = trace_path)
        BY <3>1, <1>1 DEF ReadFromRecorded
      <4>3. QED BY <1>1, <1>6, <4>1, <4>2, ObserverWrites
    <3>4. /\ ReadComesFirst
          /\ \A j \in read \ unwritten : Kept(content["sorted"], j)
          /\ pc = "rename" \/ trace_path = "sorted" => unwritten = {}
      BY <1>1, <3>2 DEF KeptInSorted
    <3>5. ReadComesFirst'
      BY <2>1, <3>3, <3>4 DEF ReadComesFirst
    <3>6. pc' = "rename" => unwritten = {}
      BY <1>6, <3>1
         DEF ObserverStep, RunFails, Finish, Spawn, BuildEnds, ReadFails, CloseSorted,
             WriteSortedFails, Rename, RenameFails, Report, KillObserver
    <3>7. QED BY <2>2, <3>3, <3>4, <3>5, <3>6
  <2>7. QED BY <2>3, <2>4, <2>5, <2>6 DEF RewriteFacts
<1>7. QED BY <1>4, <1>5, <1>6

\* When no line of the trace was malformed, what was appended in time was read.
LEMMA CleanReadIsWhole ==
    ASSUME TypeOK, ShimFacts, FileFacts("recorded"), trace_path = "recorded",
           LinesIn(content["recorded"]) = Cardinality(Records(content["recorded"]))
    PROVE  appended \subseteq Records(content["recorded"])
<1> DEFINE c == content["recorded"]
<1>1. c \in Seq(Pieces) /\ Shape(c)
  BY WellTyped DEF FileFacts, Files
<1>2. LinesIn(c) - Cardinality(Records(c)) = 0
  <2>1. Cardinality(Records(c)) \in Int
    <3>1. Records(c) \subseteq Invocations /\ IsFiniteSet(Invocations)
      BY FS_Interval, InvocationsAssumption DEF Records, Invocations
    <3>2. QED BY <3>1, FS_Subset, FS_CardinalityType
  <2>2. QED BY <2>1
<1>3. Owners(c) = Records(c)
  BY <1>1, <1>2, MalformedCounts
<1>4. ASSUME NEW i \in appended
      PROVE  i \in Records(c)
  <2>1. i \in Invocations /\ file[i] = "recorded" /\ written[i] = LineLength
    BY DEF TypeOK, ShimFacts, ShimFact
  <2>2. written[i] > 0
    BY <2>1, LineLengthAssumption
  <2>3. PICK s \in 1 .. Len(c) :
            /\ s + written[i] - 1 <= Len(c)
            /\ \A n \in 1 .. written[i] : c[s + n - 1] = Piece(i, n)
    BY <2>1, <2>2 DEF FileFacts, InBlocks
  <2>4. LineAt(c, i, s)
    BY <2>1, <2>3 DEF LineAt
  <2>5. QED BY <1>1, <1>3, <2>1, <2>4, WholeTraceHoldsAll
<1>5. QED BY <1>4

LEMMA UnwarnedStep ==
    ASSUME IInv, Next
    PROVE  UnwarnedFacts'
<1>1. TypeOK /\ ShimFacts /\ RewriteFacts /\ UnwarnedFacts /\ FileFacts("recorded")
  BY DEF IInv, InUse, Files
<1>2. ASSUME NEW i \in Invocations, ShimMoves(i)
      PROVE  UnwarnedFacts'
  <2>1. /\ pc' = pc /\ read' = read /\ warned' = warned /\ exit' = exit
        /\ in_time' = in_time /\ trace_path' = trace_path
    BY <1>2, ShimsLeaveObserver
  <2>2. QED BY <1>1, <2>1 DEF UnwarnedFacts
<1>3. CASE ReadTrace
  <2>1. /\ pc = "built" /\ exit' = exit /\ in_time' = appended /\ trace_path = "recorded"
        /\ read' = Records(content["recorded"])
        /\ malformed' = LinesIn(content["recorded"]) - Cardinality(Records(content["recorded"]))
        /\ pc' \in {"report", "rewrite"}
    BY <1>1, <1>3 DEF ReadTrace, RewriteFacts, BeforeReading
  <2>2. exit' # "clean"
    BY <1>1, <2>1 DEF UnwarnedFacts
  <2>3. ASSUME ~warned'
        PROVE  /\ in_time' \subseteq read' /\ Cardinality(read') <= MaxTraceLines
               /\ pc' = "rewrite"
    <3>1. ~(malformed' > 0) /\ ~(Cardinality(read') > MaxTraceLines)
      BY <1>3, <2>3 DEF ReadTrace
    <3>2. /\ malformed' \in 0 .. MaxInvocations
      BY <1>1, <2>1, WellTyped, MalformedCounts DEF FileFacts, Files
    <3>3. Cardinality(read') \in Nat /\ LinesIn(content["recorded"]) \in Int
      <4>1. /\ read' \subseteq Invocations /\ IsFiniteSet(Invocations)
            /\ {k \in 1 .. Len(content["recorded"]) :
                  StartsLine(content["recorded"], k) /\ ~IsNewline(content["recorded"][k])}
                  \subseteq 1 .. Len(content["recorded"])
        <5>1. read' \subseteq Invocations
          BY <2>1 DEF Records
        <5>2. IsFiniteSet(Invocations)
          BY FS_Interval, InvocationsAssumption DEF Invocations
        <5>3. QED BY <5>1, <5>2
      <4>2. content["recorded"] \in Seq(Pieces)
        BY <1>1, WellTyped DEF Files
      <4>3. IsFiniteSet(1 .. Len(content["recorded"]))
        BY <4>2, FS_Interval
      <4>4. QED BY <4>1, <4>3, FS_Subset, FS_CardinalityType DEF LinesIn
    <3>4. LinesIn(content["recorded"]) = Cardinality(Records(content["recorded"]))
      BY <2>1, <3>1, <3>2, <3>3
    <3>5. in_time' \subseteq read'
      BY <1>1, <2>1, <3>4, CleanReadIsWhole
    <3>6. Cardinality(read') <= MaxTraceLines
      BY <3>1, <3>3, MaxTraceLinesAssumption
    <3>7. pc' = "rewrite"
      BY <1>3, <3>1 DEF ReadTrace
    <3>8. QED BY <3>5, <3>6, <3>7
  <2>4. QED BY <2>1, <2>2, <2>3 DEF UnwarnedFacts
<1>4. CASE RunFails \/ Spawn \/ BuildEnds \/ ReadFails \/ KillObserver
  <2>1. exit' # "clean"
    BY <1>1, <1>4 DEF UnwarnedFacts, RunFails, Finish, Spawn, BuildEnds, ReadFails, KillObserver
  <2>2. warned' \/ pc' \notin {"rewrite", "rename", "report"}
    BY <1>4 DEF RunFails, Finish, Spawn, BuildEnds, ReadFails, KillObserver
  <2>3. QED BY <2>1, <2>2 DEF UnwarnedFacts
<1>5. CASE WriteSortedFails \/ RenameFails
  <2>1. exit' # "clean" /\ warned'
    BY <1>1, <1>5 DEF UnwarnedFacts, WriteSortedFails, RenameFails
  <2>2. QED BY <2>1 DEF UnwarnedFacts
<1>6. CASE WriteLine \/ CloseSorted
  <2>1. /\ pc = "rewrite" /\ pc' \in {"rewrite", "rename"} /\ warned' = warned /\ exit' = exit
        /\ read' = read /\ in_time' = in_time
    BY <1>6 DEF WriteLine, CloseSorted
  <2>2. QED BY <1>1, <2>1 DEF UnwarnedFacts
<1>7. CASE Rename
  <2>1. /\ pc = "rename" /\ pc' = "report" /\ warned' = warned /\ exit' = exit
        /\ read' = read /\ in_time' = in_time /\ trace_path' = "sorted"
    BY <1>7 DEF Rename
  <2>2. QED BY <1>1, <2>1 DEF UnwarnedFacts
<1>8. CASE Report
  <2>1. /\ pc = "report" /\ pc' = "done" /\ warned' = warned
        /\ read' = read /\ in_time' = in_time /\ trace_path' = trace_path
    BY <1>8 DEF Report, Finish
  <2>2. exit' = "clean" => ~warned
    BY <1>8 DEF Report, Finish
  <2>3. QED BY <1>1, <2>1, <2>2 DEF UnwarnedFacts
<1>9. QED
  BY <1>2, <1>3, <1>4, <1>5, <1>6, <1>7, <1>8 DEF Next, ObserverStep, ShimMoves

------------------------------------------------------------------------------
LEMMA InitHolds == Init => IInv
<1> SUFFICES ASSUME Init
             PROVE  IInv
  OBVIOUS
<1>1. TypeOK
  <2>1. content \in [Files -> Seq(Invocations \X (1 .. LineLength))]
    <3> DEFINE S == Seq(Invocations \X (1 .. LineLength))
    <3>1. <<>> \in S
      OBVIOUS
    <3>2. content = [f \in Files |-> <<>>]
      BY DEF Init
    <3> HIDE DEF S
    <3>3. QED BY <3>1, <3>2
  <2>2. /\ lock \in [Files -> 0 .. MaxInvocations] /\ written \in [Invocations -> 0 .. LineLength]
        /\ malformed \in 0 .. MaxInvocations
    <3>1. 0 \in 0 .. MaxInvocations /\ 0 \in 0 .. LineLength
      BY InvocationsAssumption, LineLengthAssumption
    <3>2. QED BY <3>1 DEF Init
  <2>3. QED BY <2>1, <2>2 DEF Init, TypeOK, Files
<1>2. ShimFacts
  <2>1. ASSUME NEW i \in Invocations
        PROVE  ShimFact(i)
    <3>1. /\ phase[i] # "locked" /\ file[i] = "recorded"
          /\ i \notin appended /\ i \notin interrupted
      BY DEF Init
    <3>2. ~(written[i] > 0)
      <4>1. written[i] = 0
        BY DEF Init
      <4>2. QED BY <4>1
    <3>3. QED BY <3>1, <3>2 DEF ShimFact
  <2>2. ASSUME NEW f \in Files
        PROVE  HolderIsInside(f)
    BY DEF Init, HolderIsInside
  <2>3. QED BY <2>1, <2>2 DEF ShimFacts
<1>3. \A f \in Files : FileFacts(f)
  <2> SUFFICES ASSUME NEW f \in Files
               PROVE  FileFacts(f)
    OBVIOUS
  <2>1. content[f] = <<>> /\ Len(content[f]) = 0
    BY DEF Init
  <2>2. Shape(content[f]) /\ Accounted(f) /\ Continues(f) /\ EndsOpen(f)
    BY <2>1 DEF Shape, WrittenOnce, PiecesInOrder, OnALine, Accounted, Continues, EndsOpen
  <2>3. \A i \in Invocations : ~(written[i] > 0)
    <3>1. \A i \in Invocations : written[i] = 0
      BY DEF Init
    <3>2. QED BY <3>1
  <2>4. InBlocks(f) /\ AtTheEnd(f)
    BY <2>3 DEF InBlocks, AtTheEnd
  <2>5. QED BY <2>4, <2>2, <2>3 DEF FileFacts
<1>4. RewriteFacts
  BY DEF Init, RewriteFacts, BeforeReading, ReadFromRecorded, KeptInRecorded, KeptInSorted, InUse, Files
<1>5. UnwarnedFacts
  BY DEF Init, UnwarnedFacts
<1>6. QED BY <1>1, <1>2, <1>3, <1>4, <1>5 DEF IInv

LEMMA Step == IInv /\ [Next]_vars => IInv'
<1> SUFFICES ASSUME IInv, [Next]_vars
             PROVE  IInv'
  OBVIOUS
<1>1. CASE Next
  <2>1. RewriteFacts'
    BY <1>1, ShimsKeepRewrite, ObserverKeepsRewrite DEF Next, ShimMoves
  <2>2. QED BY <1>1, <2>1, TypeStep, ShimFactsStep, FilesStep, UnwarnedStep DEF IInv
<1>2. CASE UNCHANGED vars
  <2>1. TypeOK' /\ ShimFacts'
    BY <1>2 DEF vars, shims, observer, IInv, TypeOK, ShimFacts, ShimFact, HolderIsInside, LeavesPart
  <2>2. RewriteFacts'
    <3>1. BeforeReading' /\ ReadFromRecorded'
      BY <1>2 DEF vars, shims, observer, IInv, RewriteFacts, BeforeReading, ReadFromRecorded
    <3>2. KeptInRecorded'
      BY <1>2 DEF vars, shims, observer, IInv, RewriteFacts, KeptInRecorded
    <3>3. KeptInSorted'
      BY <1>2 DEF vars, shims, observer, IInv, RewriteFacts, KeptInSorted, ReadComesFirst, InUse
    <3>4. QED BY <3>1, <3>2, <3>3 DEF RewriteFacts
  <2>3. UnwarnedFacts'
    BY <1>2 DEF vars, shims, observer, IInv, UnwarnedFacts
  <2>4. \A f \in Files : InUse(f)' => FileFacts(f)'
    BY <1>2 DEF vars, shims, observer, IInv, InUse, FileFacts, Accounted, InBlocks, AtTheEnd,
                Continues, EndsOpen, LastPiece
  <2>5. QED BY <2>1, <2>2, <2>3, <2>4 DEF IInv
<1>3. QED BY <1>1, <1>2

\* The invariant behind everything below: the order of the pieces in the trace, whose
\* they are, and what the rewrite keeps.
THEOREM Invariance == Spec => []IInv
<1> QED BY InitHolds, Step, PTL DEF Spec

\* Every variable of the shims, the observer and the two files keeps its type.
THEOREM TypeCorrect == Spec => []TypeOK
<1>1. IInv => TypeOK
  BY DEF IInv
<1>2. QED BY <1>1, Invariance, PTL

\* The lock of append_trace_line, and O_APPEND: a record that was written in full and
\* is not a line of its own follows the part that an interrupted shim left, and no two
\* records follow the same one. The sorted trace has to be closed without an error
\* for this: a flush that fails unseen cuts a line that no shim has written.
THEOREM InterruptionCorrect == ~FlushFails => (Spec => []InterruptionCostsOne)
<1> SUFFICES ASSUME ~FlushFails
             PROVE  Spec => []InterruptionCostsOne
  OBVIOUS
<1>1. IInv => InterruptionCostsOne
  <2> SUFFICES ASSUME IInv, NEW f \in Files
               PROVE  Cardinality({i \in appended : file[i] = f} \ Records(content[f]))
                          <= Cardinality({i \in interrupted : file[i] = f})
    BY DEF InterruptionCostsOne
  <2> DEFINE c == content[f]
             lost == {i \in appended : file[i] = f} \ Records(c)
             stopped == {i \in interrupted : file[i] = f}
  <2>1. TypeOK /\ ShimFacts /\ InUse(f) => FileFacts(f)
    BY DEF IInv
  <2>2. /\ c \in Seq(Pieces) /\ Len(c) \in Nat
        /\ \A k \in 1 .. Len(c) : c[k] = <<c[k][1], c[k][2]>>
    BY WellTyped DEF IInv
  <2>3. IsFiniteSet(stopped)
    <3>1. stopped \subseteq Invocations
      BY DEF IInv, TypeOK
    <3>2. IsFiniteSet(Invocations)
      BY FS_Interval, InvocationsAssumption DEF Invocations
    <3>3. QED BY <3>1, <3>2, FS_Subset
  <2>4. CASE InUse(f)
    <3>1. FileFacts(f)
      BY <2>1, <2>4 DEF IInv
    \* The position of the first piece of a lost record.
    <3> DEFINE Begins(i, k) == k \in 2 .. Len(c) /\ c[k] = Piece(i, 1) /\ ~IsNewline(c[k - 1])
    <3>2. ASSUME NEW i \in lost
          PROVE  \E k \in 2 .. Len(c) : Begins(i, k)
      <4>1. i \in Invocations /\ file[i] = f /\ written[i] = LineLength
        BY <3>2 DEF IInv, TypeOK, ShimFacts, ShimFact
      <4>2. written[i] > 0
        BY <4>1, LineLengthAssumption
      <4>3. PICK s \in 1 .. Len(c) :
                /\ s + written[i] - 1 <= Len(c)
                /\ \A n \in 1 .. written[i] : c[s + n - 1] = Piece(i, n)
        BY <3>1, <4>1, <4>2 DEF FileFacts, InBlocks
      <4>4. LineAt(c, i, s)
        BY <4>1, <4>3 DEF LineAt
      <4>5. ~StartsLine(c, s)
        BY <2>2, <3>2, <4>1, <4>4, KeptIsRecord DEF Kept, Records
      <4>6. c[s] = Piece(i, 1)
        <5>1. 1 \in 1 .. LineLength /\ s + 1 - 1 = s
          BY LineLengthAssumption
        <5>2. QED BY <4>4, <5>1 DEF LineAt
      <4>7. s \in 2 .. Len(c) /\ ~IsNewline(c[s - 1])
        BY <2>2, <4>5 DEF StartsLine
      <4>8. QED BY <4>6, <4>7
    <3> DEFINE start == [i \in lost |-> CHOOSE k \in 2 .. Len(c) : Begins(i, k)]
               cause == [i \in lost |-> c[start[i] - 1][1]]
    <3>3. \A i \in lost : Begins(i, start[i])
      BY <3>2
    <3> HIDE DEF start
    <3>4. \A i \in lost :
              /\ start[i] \in 2 .. Len(c) /\ c[start[i]] = Piece(i, 1)
              /\ start[i] - 1 \in 1 .. Len(c)
              /\ c[start[i] - 1][1] \in interrupted /\ LastPiece(f, c[start[i] - 1])
      <4> SUFFICES ASSUME NEW i \in lost
                   PROVE  /\ start[i] \in 2 .. Len(c) /\ c[start[i]] = Piece(i, 1)
                          /\ start[i] - 1 \in 1 .. Len(c)
                          /\ c[start[i] - 1][1] \in interrupted /\ LastPiece(f, c[start[i] - 1])
        OBVIOUS
      <4>1. /\ start[i] \in 2 .. Len(c) /\ c[start[i]] = Piece(i, 1)
            /\ ~IsNewline(c[start[i] - 1])
        BY <3>3
      <4>2. c[start[i]][2] = 1
        BY <4>1 DEF Piece
      <4>3. start[i] - 1 \in 1 .. Len(c)
        BY <2>2, <4>1
      <4>4. QED BY <3>1, <4>1, <4>2, <4>3 DEF FileFacts, Continues
    <3>5. cause \in [lost -> stopped]
      BY <3>4 DEF LastPiece
    <3>6. ASSUME NEW i \in lost, NEW j \in lost, cause[i] = cause[j]
          PROVE  i = j
      <4>1. c[start[i] - 1][1] = c[start[j] - 1][1]
        BY <3>6
      <4>2. c[start[i] - 1] = c[start[j] - 1]
        <5> DEFINE p == c[start[i] - 1]
                   q == c[start[j] - 1]
        <5>1. p[2] = written[p[1]] /\ q[2] = written[q[1]]
          BY <3>4 DEF LastPiece
        <5>2. p = <<p[1], p[2]>> /\ q = <<q[1], q[2]>>
          BY <2>2, <3>4
        <5> HIDE DEF p, q
        <5>3. p = q
          <6>1. p[1] = q[1]
            BY <4>1 DEF p, q
          <6>2. QED BY <5>1, <5>2, <6>1
        <5>4. QED BY <5>3 DEF p, q
      <4>3. start[i] - 1 = start[j] - 1
        BY <3>1, <3>4, <4>2 DEF FileFacts, Shape, WrittenOnce
      <4>4. start[i] = start[j]
        BY <2>2, <3>4, <4>3
      <4>5. QED BY <3>4, <4>4 DEF Piece
    <3>7. cause \in Injection(lost, stopped)
      <4> HIDE DEF cause, lost, stopped
      <4> QED BY <3>5, <3>6 DEF Injection, IsInjective
    <3> HIDE DEF cause, lost, stopped
    <3>8. Cardinality(lost) <= Cardinality(stopped)
      BY <2>3, <3>7, FS_Injection
    <3>9. QED BY <3>8 DEF lost, stopped
  <2>5. CASE ~InUse(f)
    <3>1. f = "sorted" /\ trace_path = "recorded"
      BY <2>5 DEF InUse, IInv, TypeOK, Files
    <3>2. lost = {}
      <4>1. \A i \in appended : i \in Invocations /\ file[i] = "recorded"
        BY <3>1 DEF IInv, TypeOK, ShimFacts, ShimFact
      <4>2. QED BY <3>1, <4>1
    <3>3. Cardinality(lost) = 0 /\ Cardinality(stopped) \in Nat
      BY <2>3, <3>2, FS_EmptySet, FS_CardinalityType
    <3>4. QED BY <3>3
  <2>6. QED BY <2>4, <2>5
<1>2. QED BY <1>1, Invariance, PTL

\* rewrite_trace: whatever fails, and whoever is killed, the records that were read
\* are in the file of that name. With the exception of the last flush.
THEOREM RewriteCorrect == ~FlushFails => (Spec => []RewriteKeepsRecords)
<1> SUFFICES ASSUME ~FlushFails
             PROVE  Spec => []RewriteKeepsRecords
  OBVIOUS
<1>1. IInv => RewriteKeepsRecords
  <2> SUFFICES ASSUME IInv, NEW i \in in_time \cap read
               PROVE  i \in Records(content[trace_path])
    BY DEF RewriteKeepsRecords
  <2>1. trace_path \in Files /\ i \in Invocations /\ content[trace_path] \in Seq(Pieces)
    BY WellTyped DEF IInv, TypeOK
  <2>2. Kept(content[trace_path], i)
    <3>1. CASE trace_path = "recorded"
      BY <3>1 DEF IInv, RewriteFacts, KeptInRecorded
    <3>2. CASE trace_path = "sorted"
      BY <3>2 DEF IInv, RewriteFacts, KeptInSorted, InUse
    <3>3. QED BY <2>1, <3>1, <3>2 DEF Files
  <2>3. QED BY <2>1, <2>2, KeptIsRecord DEF Records
<1>2. QED BY <1>1, Invariance, PTL

\* Exit code 0 of observe: the trace was whole when it was read, it was replaced, and
\* its records are within the budget of read_trace, whatever is appended later.
THEOREM CleanCorrect == ~FlushFails => (Spec => []CleanMeansWhole)
<1> SUFFICES ASSUME ~FlushFails
             PROVE  Spec => []CleanMeansWhole
  OBVIOUS
<1>1. IInv => CleanMeansWhole
  <2> SUFFICES ASSUME IInv, exit = "clean", NEW i \in in_time
               PROVE  i \in Loaded(content[trace_path])
    BY DEF CleanMeansWhole
  <2> DEFINE c == content["sorted"]
  <2>1. /\ trace_path = "sorted" /\ i \in read /\ read \subseteq Invocations
        /\ Cardinality(read) <= MaxTraceLines
    BY DEF IInv, UnwarnedFacts, TypeOK
  <2>2. /\ ReadComesFirst /\ FileFacts("sorted")
        /\ \A j \in read : Kept(c, j)
    BY <2>1 DEF IInv, RewriteFacts, KeptInSorted, InUse, Files
  <2>3. c \in Seq(Pieces) /\ i \in Invocations
    BY <2>1, WellTyped DEF IInv, Files
  <2>4. i \in Records(c)
    BY <2>1, <2>2, <2>3, KeptIsRecord DEF Records
  <2> DEFINE before == {j \in Records(c) :
                           \E k, l \in 1 .. Len(c) :
                               k < l /\ c[k] = Piece(j, 1) /\ c[l] = Piece(i, 1)}
  <2>5. before \subseteq read \ {i}
    <3> SUFFICES ASSUME NEW j \in before
                 PROVE  j \in read /\ j # i
      OBVIOUS
    <3>1. PICK k \in 1 .. Len(c), l \in 1 .. Len(c) :
              k < l /\ c[k] = Piece(j, 1) /\ c[l] = Piece(i, 1)
      OBVIOUS
    <3>2. c[k][1] = j /\ c[l][1] = i /\ k <= l /\ k # l
      BY <3>1 DEF Piece
    <3>3. j \in read
      BY <2>1, <2>2, <3>2 DEF ReadComesFirst
    <3>4. j # i
      BY <2>2, <3>1, <3>2 DEF FileFacts, Shape, WrittenOnce
    <3>5. QED BY <3>3, <3>4
  <2>6. IsFiniteSet(read) /\ Cardinality(read) \in Nat
    <3>1. IsFiniteSet(Invocations)
      BY FS_Interval, InvocationsAssumption DEF Invocations
    <3>2. QED BY <2>1, <3>1, FS_Subset, FS_CardinalityType
  <2>7. IsFiniteSet(read \ {i}) /\ Cardinality(read \ {i}) = Cardinality(read) - 1
    BY <2>1, <2>6, FS_RemoveElement
  <2>8. Cardinality(before) <= Cardinality(read) - 1 /\ Cardinality(before) \in Nat
    <3> HIDE DEF before
    <3>1. IsFiniteSet(before) /\ Cardinality(before) <= Cardinality(read \ {i})
      BY <2>5, <2>7, FS_Subset
    <3>2. Cardinality(before) \in Nat
      BY <3>1, FS_CardinalityType
    <3>3. QED BY <2>7, <3>1, <3>2
  <2>9. Cardinality(before) < MaxTraceLines
    <3> HIDE DEF before
    <3> QED BY <2>1, <2>6, <2>8, MaxTraceLinesAssumption
  <2>10. QED BY <2>1, <2>4, <2>9 DEF Loaded
<1>2. QED BY <1>1, Invariance, PTL

------------------------------------------------------------------------------
(* What the trace says: BuildEvidence, for every disk, every build and every root. *)

\* What holds at 0 and goes on holding is true of every position.
LEMMA Counting ==
    ASSUME NEW N \in Nat, NEW P, 0 \in P, \A n \in 1 .. N : n - 1 \in P => n \in P
    PROVE  0 .. N \subseteq P
<1> SUFFICES ASSUME (0 .. N) \ P # {} PROVE FALSE
    OBVIOUS
<1> DEFINE those == (0 .. N) \ P
<1>1. IsWellFoundedOn(OpToRel(<, Nat), Nat)
    BY NatLessThanWellFounded
<1>2. those \subseteq Nat
    OBVIOUS
<1>3. PICK j \in those : \A i \in those : ~(<<i, j>> \in OpToRel(<, Nat))
    BY <1>1, <1>2, WFMin
<1>4. j \in 1 .. N /\ j \notin P
    OBVIOUS
<1>5. j - 1 \in those
    BY <1>4
<1>6. <<j - 1, j>> \in OpToRel(<, Nat)
    BY <1>4 DEF OpToRel
<1> QED BY <1>3, <1>5, <1>6

\* A function of position that is defined by the one before: it exists, and stays in S.
Steps(step, N, S) == step \in [1 .. N -> [S -> S]]
Folds(g, N, S, base, step) ==
    /\ g \in [0 .. N -> S] /\ g[0] = base
    /\ \A n \in 1 .. N : g[n] = step[n][g[n - 1]]

LEMMA Folding ==
    ASSUME NEW N \in Nat, NEW S, NEW base \in S, NEW step, Steps(step, N, S)
    PROVE  \E g : Folds(g, N, S, base, step)
<1> USE DEF Steps, Folds
<1> DEFINE Upto(m) == \E g \in [0 .. m -> S] : g[0] = base /\ \A n \in 1 .. m : g[n] = step[n][g[n - 1]]
           P == {m \in 0 .. N : Upto(m)}
<1>1. 0 \in P
    <2> DEFINE h == [n \in 0 .. 0 |-> base]
    <2>1. h \in [0 .. 0 -> S] /\ h[0] = base /\ \A n \in 1 .. 0 : h[n] = step[n][h[n - 1]]
        OBVIOUS
    <2> HIDE DEF h
    <2> QED BY <2>1
<1>2. ASSUME NEW m \in 1 .. N, m - 1 \in P PROVE m \in P
    <2>1. PICK g \in [0 .. m - 1 -> S] : g[0] = base /\ \A n \in 1 .. m - 1 : g[n] = step[n][g[n - 1]]
        BY <1>2
    <2> DEFINE h == [n \in 0 .. m |-> IF n = m THEN step[m][g[m - 1]] ELSE g[n]]
    <2>2. g[m - 1] \in S /\ step[m][g[m - 1]] \in S
        BY <2>1
    <2>3. h \in [0 .. m -> S]
        BY <2>1, <2>2
    <2>4. h[0] = base
        BY <2>1
    <2>5. ASSUME NEW n \in 1 .. m PROVE h[n] = step[n][h[n - 1]]
        <3>1. n - 1 \in 0 .. m /\ n - 1 # m /\ n \in 0 .. m
            OBVIOUS
        <3>2. h[n - 1] = g[n - 1]
            BY <3>1
        <3>3. CASE n = m
            BY <3>1, <3>2, <3>3
        <3>4. CASE n # m
            <4>1. n \in 1 .. m - 1
                BY <3>4
            <4>2. h[n] = g[n]
                BY <3>1, <3>4
            <4> QED BY <2>1, <3>2, <4>1, <4>2
        <3> QED BY <3>3, <3>4
    <2> HIDE DEF h
    <2>6. m \in 0 .. N
        OBVIOUS
    <2> QED BY <2>3, <2>4, <2>5, <2>6
<1> HIDE DEF P
<1>3. 0 .. N \subseteq P
    BY <1>1, <1>2, Counting
<1> QED BY <1>3 DEF P
------------------------------------------------------------------------------
(* Paths. *)

LEMMA FrontIs ==
    ASSUME NEW S, NEW p \in Seq(S)
    PROVE  /\ Front(p) \in Seq(S)
           /\ Len(Front(p)) = IF Len(p) = 0 THEN 0 ELSE Len(p) - 1
           /\ \A i \in 1 .. Len(p) - 1 : Front(p)[i] = p[i]
<1>1. Len(p) \in Nat /\ \A i \in 1 .. Len(p) : p[i] \in S
    BY LenProperties
<1>2. \A i \in 1 .. Len(p) - 1 : p[i] \in S
    BY <1>1
<1> DEFINE n == Len(p) - 1
<1>3. 1 \in Int /\ n \in Int /\ \A i \in 1 .. n : p[i] \in S
    BY <1>1, <1>2
<1> HIDE DEF n
<1>4. /\ SubSeq(p, 1, n) \in Seq(S)
      /\ Len(SubSeq(p, 1, n)) = IF 1 <= n THEN n - 1 + 1 ELSE 0
      /\ \A i \in 1 .. n - 1 + 1 : SubSeq(p, 1, n)[i] = p[1 + i - 1]
    BY <1>3, SubSeqProperties
<1>5. \A i \in 1 .. n : i \in 1 .. n - 1 + 1 /\ 1 + i - 1 = i
    BY <1>3
<1>6. Front(p) = SubSeq(p, 1, n)
    BY DEF Front, n
<1>7. Len(Front(p)) = IF Len(p) = 0 THEN 0 ELSE Len(p) - 1
    BY <1>1, <1>3, <1>4, <1>6 DEF n
<1>8. \A i \in 1 .. n : Front(p)[i] = p[i]
    BY <1>4, <1>5, <1>6
<1> QED BY <1>4, <1>6, <1>7, <1>8 DEF n

LEMMA FrontOfAppend ==
    ASSUME NEW S, NEW p \in Seq(S), NEW x
    PROVE  Front(Append(p, x)) = p
<1> DEFINE T == S \cup {x}
           q == Append(p, x)
<1>1. p \in Seq(T)
    <2>1. S \subseteq T
        OBVIOUS
    <2> HIDE DEF T
    <2> QED BY <2>1, SeqMonotonic
<1>2. x \in T
    OBVIOUS
<1> HIDE DEF T
<1>3. /\ q \in Seq(T) /\ Len(q) = Len(p) + 1
      /\ \A i \in 1 .. Len(p) : q[i] = p[i]
    BY <1>1, <1>2, AppendProperties
<1> HIDE DEF q
<1>4. Len(p) \in Nat
    BY LenProperties
<1>5. /\ Front(q) \in Seq(T) /\ Len(Front(q)) = Len(p)
      /\ \A i \in 1 .. Len(p) : Front(q)[i] = q[i]
    BY <1>3, <1>4, FrontIs
<1>6. Front(q) = p
    BY <1>1, <1>3, <1>4, <1>5, SeqEqual
<1> QED BY <1>6 DEF q

\* A root encloses what has the same segments first.
LEMMA PrefixIs ==
    ASSUME NEW S, NEW a \in Seq(S), NEW b \in Seq(S), IsPrefix(a, b)
    PROVE  Len(a) <= Len(b) /\ \A i \in 1 .. Len(a) : a[i] = b[i]
<1>1. Len(a) \in Nat /\ Len(b) \in Nat /\ (\A i \in 1 .. Len(a) : a[i] \in S) /\ (\A i \in 1 .. Len(b) : b[i] \in S)
    BY LenProperties
<1>2. Len(a) <= Len(b) /\ SubSeq(a, 1, Len(a)) = SubSeq(b, 1, Len(a))
    BY DEF IsPrefix
<1>3. \A i \in 1 .. Len(a) : b[i] \in S
    BY <1>1, <1>2
<1>4. \A i \in 1 .. Len(a) - 1 + 1 : SubSeq(a, 1, Len(a))[i] = a[1 + i - 1]
    BY <1>1, SubSeqProperties
<1>5. \A i \in 1 .. Len(a) - 1 + 1 : SubSeq(b, 1, Len(a))[i] = b[1 + i - 1]
    BY <1>1, <1>3, SubSeqProperties
<1>6. ASSUME NEW i \in 1 .. Len(a) PROVE a[i] = b[i]
    <2>1. i \in 1 .. Len(a) - 1 + 1 /\ 1 + i - 1 = i
        BY <1>1
    <2> QED BY <1>2, <1>4, <1>5, <2>1
<1> QED BY <1>2, <1>6

LEMMA IsPrefixOf ==
    ASSUME NEW S, NEW a \in Seq(S), NEW b \in Seq(S), Len(a) <= Len(b), \A i \in 1 .. Len(a) : a[i] = b[i]
    PROVE  IsPrefix(a, b)
<1>1. Len(a) \in Nat /\ Len(b) \in Nat /\ (\A i \in 1 .. Len(a) : a[i] \in S) /\ (\A i \in 1 .. Len(b) : b[i] \in S)
    BY LenProperties
<1>3. \A i \in 1 .. Len(a) : b[i] \in S
    BY <1>1
<1> DEFINE n == Len(a)
           x == SubSeq(a, 1, n)
           y == SubSeq(b, 1, n)
<1>4. x \in Seq(S) /\ Len(x) = (IF 1 <= n THEN n - 1 + 1 ELSE 0) /\ \A i \in 1 .. n - 1 + 1 : x[i] = a[1 + i - 1]
    BY <1>1, SubSeqProperties
<1>5. y \in Seq(S) /\ Len(y) = (IF 1 <= n THEN n - 1 + 1 ELSE 0) /\ \A i \in 1 .. n - 1 + 1 : y[i] = b[1 + i - 1]
    BY <1>1, <1>3, SubSeqProperties
<1>6. n \in Nat /\ \A i \in 1 .. n : a[i] = b[i]
    BY <1>1
<1> HIDE DEF x, y, n
<1>7. Len(x) = Len(y) /\ \A i \in 1 .. Len(x) : x[i] = y[i]
    <2>1. Len(x) = n /\ Len(y) = n
        BY <1>4, <1>5, <1>6
    <2>2. ASSUME NEW i \in 1 .. n PROVE x[i] = y[i]
        <3>1. i \in 1 .. n - 1 + 1 /\ 1 + i - 1 = i
            BY <1>6
        <3> QED BY <1>4, <1>5, <1>6, <3>1
    <2> QED BY <2>1, <2>2
<1>8. x = y
    BY <1>4, <1>5, <1>7, SeqEqual
<1> QED BY <1>8 DEF IsPrefix, x, y, n

LEMMA ResolvedIsPath ==
    ASSUME NEW d \in Seq(STRING)
    PROVE  DirectoryResolver(d) \in Seq(STRING)
BY LinksAssumption DEF DirectoryResolver

\* What a root encloses lies in the tree.
LEMMA EnclosedIsInTree ==
    ASSUME NEW d \in Seq(STRING), NEW root \in enclosing_root(d), NEW x
    PROVE  /\ root \in Roots /\ IsPrefix(root, d)
           /\ to_root_relative(d) /\ to_root_relative(Append(d, x))
<1>1. root \in Roots /\ IsPrefix(root, d)
    BY DEF enclosing_root
<1>2. root \in Seq(STRING) /\ root # <<>> /\ Head(root) # ".."
    BY <1>1, RootsAssumption
<1>3. Len(root) \in Nat /\ Len(root) # 0 /\ Head(root) = root[1]
    BY <1>2, LenProperties, EmptySeq DEF Head
<1>4. Len(d) \in Nat /\ Len(root) <= Len(d) /\ root[1] = d[1]
    BY <1>1, <1>2, <1>3, PrefixIs, LenProperties
<1>5. d # <<>> /\ Head(d) # ".."
    BY <1>2, <1>3, <1>4 DEF Head
<1>6. Head(Append(d, x)) = d[1]
    <2> DEFINE T == STRING \cup {x}
               q == Append(d, x)
    <2>1. d \in Seq(T)
        <3>1. STRING \subseteq T
            OBVIOUS
        <3> HIDE DEF T
        <3> QED BY <3>1, SeqMonotonic
    <2>2. x \in T
        OBVIOUS
    <2> HIDE DEF T
    <2>3. q \in Seq(T) /\ Len(q) = Len(d) + 1 /\ \A i \in 1 .. Len(d) : q[i] = d[i]
        BY <2>1, <2>2, AppendProperties
    <2> HIDE DEF q
    <2>4. q[1] = d[1]
        BY <1>3, <1>4, <2>3
    <2>5. Head(q) = q[1]
        BY <2>3 DEF Head
    <2> QED BY <2>4, <2>5 DEF q
<1>7. Head(d) = d[1]
    BY DEF Head
<1> QED BY <1>1, <1>5, <1>6, <1>7 DEF to_root_relative

------------------------------------------------------------------------------
(* What is read of an image. *)

NeededOf(image) ==
    {image.dynamic[k][2] : k \in {j \in DOMAIN image.dynamic :
        image.dynamic[j][1] = "needed" /\ \A i \in 1 .. j : image.dynamic[i][1] # "null"}}

\* The least of some positions.
LEMMA LeastIs ==
    ASSUME NEW S, S \subseteq Nat, S # {}
    PROVE  \E k \in S : (CHOOSE i \in S : \A j \in S : i <= j) = k /\ \A j \in S : k <= j
<1>1. IsWellFoundedOn(OpToRel(<, Nat), Nat)
    BY NatLessThanWellFounded
<1>2. PICK j \in S : \A i \in S : ~(<<i, j>> \in OpToRel(<, Nat))
    BY <1>1, WFMin
<1>3. ASSUME NEW i \in S PROVE j <= i
    <2>1. <<i, j>> \in OpToRel(<, Nat) <=> i < j
        BY DEF OpToRel
    <2>2. ~(i < j)
        BY <2>1, <1>2, Zenon
    <2> QED BY <2>2
<1> QED BY <1>2, <1>3

\* The walk of the dynamic array ends at its terminator; what it keeps of the names is
\* all of them, unless it says that it was cut short (walk_dynamic_array).
LEMMA WalkIs ==
    ASSUME NEW image, IsImage(image), NEW array, array = walk_dynamic_array(image)
    PROVE  /\ array.needed \subseteq NeededOf(image)
           /\ ~array.truncated => array.needed = NeededOf(image)
<1> DEFINE d == image.dynamic
           N == Len(d)
           null == {k \in DOMAIN d : d[k][1] = "null"}
           least == CHOOSE k \in null : \A j \in null : k <= j
           last == IF null = {} THEN N ELSE least - 1
           walked == 1 .. IF last > MaxDynamicEntries THEN MaxDynamicEntries ELSE last
           tagged == {k \in walked : d[k][1] = "needed"}
           kept == {k \in tagged : Cardinality({j \in tagged : j < k}) < MaxNeededEntries}
           truncated == last >= MaxDynamicEntries \/ Cardinality(tagged) > MaxNeededEntries
           open == {j \in DOMAIN d : d[j][1] = "needed" /\ \A i \in 1 .. j : d[i][1] # "null"}
<1>1. /\ array.needed = {d[k][2] : k \in kept}
      /\ array.truncated = truncated
      /\ NeededOf(image) = {d[k][2] : k \in open}
    BY DEF walk_dynamic_array, NeededOf
<1>2. N \in Nat /\ DOMAIN d = 1 .. N
    BY LenProperties DEF IsImage
<1>3. MaxDynamicEntries \in Nat /\ MaxNeededEntries \in Nat
    BY FormatsAssumption
<1> HIDE DEF d, N
<1>4. null # {} => least \in null /\ \A j \in null : least <= j
    <2>1. null \subseteq Nat
        BY <1>2
    <2> HIDE DEF null
    <2> QED BY <2>1, LeastIs
<1>5. /\ last \in 0 .. N
      /\ \A k \in 1 .. N : k <= last <=> \A i \in 1 .. k : d[i][1] # "null"
    <2>1. CASE null = {}
        BY <1>2, <2>1
    <2>2. CASE null # {}
        <3>1. least \in 1 .. N /\ d[least][1] = "null" /\ \A j \in 1 .. N : d[j][1] = "null" => least <= j
            BY <1>2, <1>4, <2>2
        <3>2. last = least - 1
            BY <2>2
        <3> HIDE DEF null, least, last
        <3>3. \A k \in 1 .. N : \A i \in 1 .. k : i \in 1 .. N
            BY <1>2
        <3>4. ASSUME NEW k \in 1 .. N, k <= last, NEW i \in 1 .. k PROVE d[i][1] # "null"
            BY <1>2, <3>1, <3>2, <3>3, <3>4
        <3>5. ASSUME NEW k \in 1 .. N, ~(k <= last) PROVE \E i \in 1 .. k : d[i][1] = "null"
            <4>1. least \in 1 .. k
                BY <1>2, <3>1, <3>2, <3>5
            <4> QED BY <3>1, <4>1
        <3> QED BY <1>2, <3>1, <3>2, <3>4, <3>5
    <2> QED BY <2>1, <2>2
<1> HIDE DEF null, least, last
<1>6. walked \subseteq 1 .. N /\ walked \subseteq 1 .. last
    BY <1>2, <1>3, <1>5
<1>7. tagged \subseteq open
    BY <1>2, <1>5, <1>6
<1>8. kept \subseteq open
    BY <1>7
<1>9. IsFiniteSet(tagged)
    <2>1. IsFiniteSet(1 .. N)
        BY <1>2, FS_Interval
    <2>2. tagged \subseteq 1 .. N
        BY <1>6
    <2> HIDE DEF tagged
    <2> QED BY <2>1, <2>2, FS_Subset
<1>10. ASSUME ~truncated PROVE open \subseteq kept
    <2>1. walked = 1 .. last
        BY <1>2, <1>3, <1>5, <1>10
    <2>2. ASSUME NEW j \in open PROVE j \in tagged
        <3>1. j \in 1 .. N /\ d[j][1] = "needed" /\ \A i \in 1 .. j : d[i][1] # "null"
            BY <1>2
        <3>2. j <= last
            BY <1>5, <3>1
        <3>3. j \in 1 .. last
            BY <1>2, <1>5, <3>1, <3>2
        <3> QED BY <2>1, <3>1, <3>3
    <2>3. ASSUME NEW k \in tagged PROVE k \in kept
        <3> DEFINE earlier == {j \in tagged : j < k}
        <3>1. earlier \subseteq tagged /\ k \notin earlier
            BY <1>2, <1>5, <2>1
        <3> HIDE DEF tagged
        <3>2. earlier # tagged
            BY <3>1
        <3> HIDE DEF earlier
        <3>3. Cardinality(earlier) \in Nat /\ Cardinality(tagged) \in Nat
            BY <1>9, <3>1, FS_Subset, FS_CardinalityType
        <3>4. Cardinality(earlier) <= Cardinality(tagged) /\ Cardinality(earlier) # Cardinality(tagged)
            BY <1>9, <3>1, <3>2, FS_Subset
        <3>5. Cardinality(earlier) < MaxNeededEntries
            BY <1>3, <1>10, <3>3, <3>4
        <3> QED BY <3>5 DEF earlier
    <2> QED BY <2>2, <2>3
<1> HIDE DEF kept, open, truncated
<1> QED BY <1>1, <1>8, <1>10

\* The headers that are followed are the first ones, as they are (Followed).
LEMMA FollowedIs ==
    ASSUME NEW image, IsImage(image), NEW f, f = Followed(image)
    PROVE  /\ f.file = image.file /\ f.relocatable = image.relocatable
           /\ f.dynamic = image.dynamic /\ f.mapped = image.mapped
           /\ DOMAIN f.sections \subseteq DOMAIN image.sections
           /\ \A k \in DOMAIN f.sections : f.sections[k] = image.sections[k]
<1> DEFINE all == image.sections
           N == Len(all)
           to == IF MaxSectionHeaders < N THEN MaxSectionHeaders ELSE N
<1>1. N \in Nat /\ DOMAIN all = 1 .. N /\ all \in Seq(ToSet(all))
    BY LenProperties DEF IsImage
<1>2. to \in 0 .. N
    BY <1>1, FormatsAssumption
<1>3. /\ f.file = image.file /\ f.relocatable = image.relocatable
      /\ f.dynamic = image.dynamic /\ f.mapped = image.mapped
      /\ f.sections = Between(all, 1, MaxSectionHeaders)
    <2>1. PICK s, g : f = [image EXCEPT !.sections = s, !.segments = g] /\ s = Between(all, 1, MaxSectionHeaders)
        BY DEF Followed
    <2> QED BY <2>1 DEF IsImage
<1>4. f.sections = SubSeq(all, 1, to)
    BY <1>3 DEF Between
<1> HIDE DEF to, N, all
<1>5. SubSeq(all, 1, to) = [i \in 1 .. to |-> all[i]]
    <2>1. SubSeq(all, 1, to) = [i \in 1 .. (to - 1 + 1) |-> all[i + 1 - 1]]
        BY <1>1, <1>2 DEF SubSeq
    <2>2. to - 1 + 1 = to /\ \A i \in 1 .. to : i + 1 - 1 = i
        BY <1>1, <1>2
    <2> QED BY <2>1, <2>2
<1> QED BY <1>1, <1>2, <1>3, <1>4, <1>5 DEF all

\* The names are read in a table the image calls its string table, or nowhere
\* (resolve_string_table).
LEMMA TableIsOfNames ==
    ASSUME NEW image, IsImage(image), NEW f, f = Followed(image)
    PROVE  resolve_string_table(f, locate_dynamic_via_sections(f), walk_dynamic_array(f)) \subseteq StringTables(image)
<1> DEFINE sections == locate_dynamic_via_sections(f)
           array == walk_dynamic_array(f)
           strings == {k \in sections : /\ f.sections[k].link \in DOMAIN f.sections
                                        /\ f.sections[f.sections[k].link].type = "strings"}
           linked == {s.link : s \in {t \in ToSet(image.sections) : t.type = "dynamic"}} \cap DOMAIN image.sections
<1>1. /\ f.dynamic = image.dynamic /\ f.mapped = image.mapped
      /\ DOMAIN f.sections \subseteq DOMAIN image.sections
      /\ \A k \in DOMAIN f.sections : f.sections[k] = image.sections[k]
    BY FollowedIs
<1>2. LinkedFrom(f, strings) \subseteq StringTables(image)
    <2> SUFFICES ASSUME NEW t \in LinkedFrom(f, strings) PROVE t \in StringTables(image)
        OBVIOUS
    <2>1. PICK k \in strings : f.sections[k].link \in DOMAIN f.sections /\ t = f.sections[f.sections[k].link].holds
        BY DEF LinkedFrom
    <2>2. k \in DOMAIN f.sections /\ f.sections[k].type = "dynamic"
        BY <2>1 DEF locate_dynamic_via_sections, First
    <2>3. PICK l : l = f.sections[k].link
        OBVIOUS
    <2>4. l \in DOMAIN f.sections /\ f.sections[l].type = "strings" /\ t = f.sections[l].holds
        BY <2>1, <2>3
    <2>5. image.sections[k] \in ToSet(image.sections) /\ image.sections[k].type = "dynamic" /\ image.sections[k].link = l
        BY <1>1, <2>2, <2>3 DEF ToSet
    <2>6. l \in linked
        BY <1>1, <2>4, <2>5
    <2>7. image.sections[l].type = "strings" /\ t = image.sections[l].holds
        BY <1>1, <2>4
    <2> HIDE DEF strings
    <2> QED BY <2>6, <2>7 DEF StringTables
<1>3. MappedAt(f, array) \subseteq StringTables(image)
    <2>1. CASE array.table
        <3>1. PICK k \in DOMAIN f.dynamic : f.dynamic[k][1] = "strtab"
            <4> DEFINE d == f.dynamic
                       null == {k \in DOMAIN d : d[k][1] = "null"}
                       last == IF null = {} THEN Len(d) ELSE (CHOOSE k \in null : \A j \in null : k <= j) - 1
                       walked == 1 .. IF last > MaxDynamicEntries THEN MaxDynamicEntries ELSE last
            <4>1. array.table = ({k \in walked : d[k][1] = "strtab"} # {})
                BY DEF walk_dynamic_array
            <4>2. walked \subseteq DOMAIN d
                <5>1. Len(d) \in Nat /\ DOMAIN d = 1 .. Len(d)
                    BY <1>1, LenProperties DEF IsImage
                <5>2. null \subseteq Nat
                    BY <5>1
                <5>3. null # {} => \E k \in null : (CHOOSE i \in null : \A j \in null : i <= j) = k
                    <6> HIDE DEF null
                    <6> QED BY <5>2, LeastIs
                <5>4. last \in Nat /\ last <= Len(d)
                    <6>1. CASE null = {}
                        BY <5>1, <6>1
                    <6>2. CASE null # {}
                        <7>1. PICK k \in null : last = k - 1
                            BY <5>3, <6>2
                        <7>2. k \in 1 .. Len(d)
                            BY <5>1
                        <7> HIDE DEF last, null, d
                        <7> QED BY <5>1, <7>1, <7>2
                    <6> QED BY <6>1, <6>2
                <5> HIDE DEF last, null, d
                <5> QED BY <5>1, <5>4, FormatsAssumption
            <4> HIDE DEF walked
            <4> QED BY <2>1, <4>1, <4>2
        <3>2. image.dynamic[k] \in {e \in ToSet(image.dynamic) : e[1] = "strtab"}
            BY <1>1, <3>1 DEF ToSet
        <3>3. image.mapped \in StringTables(image)
            BY <3>2 DEF StringTables
        <3> QED BY <1>1, <3>3 DEF MappedAt
    <2>2. CASE ~array.table
        BY <2>2 DEF MappedAt
    <2> QED BY <2>1, <2>2
<1>4. \/ resolve_string_table(f, sections, array) = LinkedFrom(f, strings)
      \/ resolve_string_table(f, sections, array) = MappedAt(f, array)
    BY DEF resolve_string_table
<1> QED BY <1>2, <1>3, <1>4

Names(elf, image) ==
    /\ elf.needed \subseteq UNION {NamesIn(image, t) : t \in StringTables(image)}
    /\ /\ elf.shape = "Dynamic" /\ ~elf.needed_truncated
       /\ ~elf.names_unavailable /\ StringTables(image) \subseteq {image.names}
       => elf.needed = Declared(image)

LEMMA ElfIs ==
    ASSUME NEW image, IsImage(image), NEW elf, elf = read_elf(image)
    PROVE  Names(elf, image)
<1> DEFINE f == Followed(image)
<1>1. \A t : NamesIn(image, t) = string_at(t, NeededOf(image))
    BY DEF NamesIn, NeededOf
<1>2. ASSUME NEW shape \in {"Malformed", "Relocatable", "StaticExecutable", "NotElf"}, NEW told, elf = Shaped(shape, told)
      PROVE  Names(elf, image)
    BY <1>2 DEF Shaped, Names
<1>3. ASSUME NEW capped, elf = read_tables(f, capped) PROVE Names(elf, image)
    <2> DEFINE sections == locate_dynamic_via_sections(f)
               array == walk_dynamic_array(f)
               table == resolve_string_table(f, sections, array)
               exports == collect_exported_symbols(f)
               limited == capped \/ array.truncated \/ table = {} \/ sections = {} \/ exports.warned
               base == Shaped("Dynamic", limited)
               Named(positions) == UNION {string_at(names, positions) : names \in table}
    <2>1. \/ \E shape \in {"Malformed", "Relocatable", "StaticExecutable"} : \E told : elf = Shaped(shape, told)
          \/ elf = [base EXCEPT
                        !.needed = Named(array.needed),
                        !.soname = Named(array.soname),
                        !.names_unavailable = table = {},
                        !.needed_truncated = array.truncated,
                        !.symbols = IF sections = {} THEN {} ELSE exports.names,
                        !.symbols_truncated = sections # {} /\ exports.truncated,
                        !.symbols_unavailable = sections = {} \/ ~exports.available]
        BY <1>3 DEF read_tables
    <2>2. PICK b, n, t, r, w, s1, s2, s3, s4, s5, s6 :
             /\ n = Named(array.needed)
             /\ t = table /\ r = array.truncated /\ b = base /\ w = array.needed
             /\ s1 = Named(array.soname)
             /\ s2 = (table = {})
             /\ s3 = (IF sections = {} THEN {} ELSE exports.names)
             /\ s4 = (sections # {} /\ exports.truncated)
             /\ s5 = (sections = {} \/ ~exports.available)
             /\ s6 = limited
        OBVIOUS
    <2>3. w \subseteq NeededOf(image) /\ (~r => w = NeededOf(image))
        <3>1. f.dynamic = image.dynamic
            BY FollowedIs
        <3>2. array = walk_dynamic_array(image)
            BY <3>1 DEF walk_dynamic_array
        <3> QED BY <2>2, <3>2, WalkIs
    <2>4. t \subseteq StringTables(image)
        BY <2>2, TableIsOfNames
    <2>5. n = UNION {string_at(names, w) : names \in t}
        BY <2>2
    <2>6. \A names : string_at(names, w) \subseteq NamesIn(image, names) /\ (~r => string_at(names, w) = NamesIn(image, names))
        BY <1>1, <2>3 DEF string_at
    <2>7. b = Shaped("Dynamic", s6)
        BY <2>2
    <2>8. CASE elf = [b EXCEPT !.needed = n, !.soname = s1, !.names_unavailable = s2, !.needed_truncated = r,
                               !.symbols = s3, !.symbols_truncated = s4, !.symbols_unavailable = s5]
        <3>1. s2 <=> t = {}
            BY <2>2
        <3> HIDE DEF sections, array, table, exports, base, limited, Named, f
        <3>2. elf.needed = n /\ elf.needed_truncated = r /\ elf.names_unavailable = s2
            BY <2>7, <2>8 DEF Shaped
        <3>3. n \subseteq UNION {NamesIn(image, names) : names \in StringTables(image)}
            BY <2>4, <2>5, <2>6
        <3>4. ASSUME ~r, ~s2, StringTables(image) \subseteq {image.names} PROVE n = Declared(image)
            <4>1. t = {image.names}
                BY <2>4, <3>1, <3>4
            <4>2. n = string_at(image.names, w)
                BY <2>5, <4>1
            <4> QED BY <2>6, <3>4, <4>2 DEF Declared
        <3> QED BY <3>2, <3>3, <3>4 DEF Names
    <2>9. CASE \E shape \in {"Malformed", "Relocatable", "StaticExecutable"} : \E told : elf = Shaped(shape, told)
        BY <1>2, <2>9
    <2> QED BY <2>1, <2>2, <2>8, <2>9
<1>4. \/ \E capped : elf = read_tables(f, capped)
      \/ \E shape \in {"Malformed", "NotElf"} : \E told : elf = Shaped(shape, told)
    BY DEF read_elf
<1> QED BY <1>2, <1>3, <1>4

------------------------------------------------------------------------------
(* What is read of a command line. *)

IsLine(words) == words \in Seq(AllWords \cup Passed)
Taking(takes) == {Option(o) : o \in takes}

\* A word is a value exactly if the word before is an option that takes one and is
\* none itself (the skipping of both scanners, scan_compile_line and scan_link_tokens).
LEMMA ValuesAre ==
    ASSUME NEW words, NEW N \in Nat, Len(words) = N, DOMAIN words = 1 .. N, NEW takes
    PROVE  /\ Values(words, takes) \subseteq 1 .. N
           /\ \A k \in 1 .. N :
                 k \in Values(words, takes) <=>
                    k > 1 /\ words[k - 1] \in Taking(takes) /\ k - 1 \notin Values(words, takes)
<1> DEFINE Is(k, b) == k > 1 /\ words[k - 1] \in Taking(takes) /\ ~b
           step == [k \in 1 .. N |-> [b \in BOOLEAN |-> Is(k, b)]]
           value[k \in 0 .. N] == k > 1 /\ words[k - 1] \in Taking(takes) /\ ~value[k - 1]
<1>1. Values(words, takes) = {k \in 1 .. N : value[k]}
    BY DEF Values, Taking
<1>2. \A k \in 1 .. N : \A b \in BOOLEAN : Is(k, b) \in BOOLEAN
    OBVIOUS
<1>3. Steps(step, N, BOOLEAN)
    <2> HIDE DEF Is
    <2> QED BY <1>2 DEF Steps
<1>4. PICK g : Folds(g, N, BOOLEAN, FALSE, step)
    <2> HIDE DEF step
    <2> QED BY <1>3, Folding
<1>5. g \in [0 .. N -> BOOLEAN] /\ g[0] = FALSE
    BY <1>4 DEF Folds
<1>6. ASSUME NEW k \in 0 .. N PROVE g[k] = Is(k, g[k - 1])
    <2>1. CASE k = 0
        BY <1>5, <2>1
    <2>2. CASE k # 0
        <3>1. k \in 1 .. N /\ k - 1 \in 0 .. N
            BY <2>2
        <3>2. g[k] = step[k][g[k - 1]] /\ g[k - 1] \in BOOLEAN
            <4> HIDE DEF step
            <4> QED BY <1>4, <3>1 DEF Folds
        <3> HIDE DEF Is
        <3>3. step[k][g[k - 1]] = Is(k, g[k - 1])
            BY <3>1, <3>2
        <3> QED BY <3>2, <3>3
    <2> QED BY <2>1, <2>2
<1>7. value = [k \in 0 .. N |-> k > 1 /\ words[k - 1] \in Taking(takes) /\ ~value[k - 1]]
    <2>1. g = [k \in 0 .. N |-> Is(k, g[k - 1])]
        <3> HIDE DEF Is
        <3> QED BY <1>5, <1>6
    <2> QED BY <2>1
<1> HIDE DEF value
<1>8. \A k \in 1 .. N : k > 1 => k - 1 \in 1 .. N
    OBVIOUS
<1>9. ASSUME NEW k \in 1 .. N
      PROVE  value[k] <=> k > 1 /\ words[k - 1] \in Taking(takes) /\ ~value[k - 1]
    <2>1. k \in 0 .. N
        OBVIOUS
    <2> QED BY <1>7, <2>1
<1> QED BY <1>1, <1>8, <1>9

\* The words after it do not decide whether a word is a value.
LEMMA ValuesStay ==
    ASSUME NEW words, NEW N \in Nat, Len(words) = N, DOMAIN words = 1 .. N,
           NEW more, NEW M \in Nat, Len(more) = M, DOMAIN more = 1 .. M, N <= M,
           \A k \in 1 .. N : more[k] = words[k], NEW takes
    PROVE  \A k \in 1 .. N : k \in Values(more, takes) <=> k \in Values(words, takes)
<1> DEFINE P == {k \in 0 .. N : k \in Values(more, takes) <=> k \in Values(words, takes)}
<1>1. /\ Values(words, takes) \subseteq 1 .. N
      /\ \A k \in 1 .. N :
            k \in Values(words, takes) <=>
               k > 1 /\ words[k - 1] \in Taking(takes) /\ k - 1 \notin Values(words, takes)
    BY ValuesAre
<1>2. /\ Values(more, takes) \subseteq 1 .. M
      /\ \A k \in 1 .. M :
            k \in Values(more, takes) <=>
               k > 1 /\ more[k - 1] \in Taking(takes) /\ k - 1 \notin Values(more, takes)
    BY ValuesAre
<1>3. 0 \in P
    BY <1>1, <1>2
<1>4. ASSUME NEW k \in 1 .. N, k - 1 \in P PROVE k \in P
    <2>1. k \in 1 .. M /\ k \in 0 .. N
        OBVIOUS
    <2>2. k > 1 => k - 1 \in 1 .. N /\ more[k - 1] = words[k - 1]
        OBVIOUS
    <2> QED BY <1>1, <1>2, <1>4, <2>1, <2>2
<1> HIDE DEF P
<1>5. 0 .. N \subseteq P
    BY <1>3, <1>4, Counting
<1> QED BY <1>5 DEF P

\* What a scanner may gather: the values of words.
Seen == {w[2] : w \in AllWords \cup Passed} \cup {<<>>}
CompileTakes == kOptionsConsumingNextArgument \cup {"-I"}
LinkTakes == kLinkOptionsConsumingNextArgument \cup {"-L"}
Lines ==
    [sources : SUBSET Seen, includes : SUBSET Seen, inputs : SUBSET Seen, directories : Seq(Seen),
     libraries : SUBSET Seen, output : Seen, responses : BOOLEAN, awaits : CompileTakes \cup LinkTakes \cup {""}]

LEMMA NoLineIs == NoLine \in Lines
<1>1. <<>> \in Seen /\ <<>> \in Seq(Seen)
    BY EmptySeq DEF Seen
<1> QED BY <1>1 DEF NoLine, Lines

LEMMA SpellingIs == ASSUME NEW word \in AllWords \cup Passed, NEW takes PROVE word \in Taking(takes) <=> word[1] = "option" /\ word[2] \in takes
<1>1. word[1] = "option" => word = Option(word[2])
    BY WordsAssumption DEF IsWord
<1>2. \A o : Option(o)[1] = "option" /\ Option(o)[2] = o
    BY DEF Option
<1> QED BY <1>1, <1>2 DEF Taking

\* No option is awaiting its value.
Blank == ""

\* One word of a compile line (scan_compile_line).
CompilesTo(after, line, word) ==
    /\ after \in Lines
    /\ after.sources = IF line.awaits = Blank /\ word[1] = "operand" /\ LastOf(word[2]) \in SourceNames
                       THEN line.sources \cup {word[2]} ELSE line.sources
    /\ after.includes = IF \/ line.awaits = "-I" /\ word[1] = "operand"
                           \/ line.awaits = Blank /\ word[1] = "-I"
                        THEN line.includes \cup {word[2]} ELSE line.includes
    /\ after.awaits = IF line.awaits = Blank /\ word[1] = "option" /\ word[2] \in CompileTakes THEN word[2] ELSE Blank

SetsCompile(after, line, sources, includes, responses, awaits) ==
    after = [line EXCEPT !.sources = sources, !.includes = includes, !.responses = responses, !.awaits = awaits]

SetsIn(sources, includes, responses, awaits) ==
    /\ sources \in SUBSET Seen /\ includes \in SUBSET Seen
    /\ responses \in BOOLEAN /\ awaits \in CompileTakes \cup LinkTakes \cup {""}

LEMMA SetsCompileIs ==
    ASSUME NEW line \in Lines, NEW after, NEW sources, NEW includes, NEW responses, NEW awaits,
           SetsIn(sources, includes, responses, awaits),
           SetsCompile(after, line, sources, includes, responses, awaits)
    PROVE  after \in Lines /\ after.sources = sources /\ after.includes = includes /\ after.awaits = awaits
<1> DEFINE as == CompileTakes \cup LinkTakes \cup {""}
<1>1. awaits \in as
    BY DEF SetsIn
<1> QED BY <1>1 DEF SetsCompile, SetsIn, Lines

LEMMA CompileWordIs ==
    ASSUME NEW line \in Lines, NEW word \in AllWords \cup Passed, NEW after, after = CompileWord(line, word)
    PROVE  CompilesTo(after, line, word)
<1>1. word[2] \in Seen
    BY DEF Seen
<1>2. "" \notin CompileTakes
    BY DEF CompileTakes, kOptionsConsumingNextArgument
<1>a. CompileTakes = kOptionsConsumingNextArgument \cup {"-I"}
    BY DEF CompileTakes
<1> DEFINE as == CompileTakes \cup LinkTakes \cup {""}
<1>3. /\ line.sources \in SUBSET Seen /\ line.includes \in SUBSET Seen /\ line.awaits \in as
      /\ line.responses \in BOOLEAN
    BY DEF Lines
<1>5. ASSUME NEW sources \in SUBSET Seen, NEW includes \in SUBSET Seen, NEW responses \in BOOLEAN, NEW awaits \in as
      PROVE  /\ line = [line EXCEPT !.sources = line.sources, !.includes = line.includes,
                                    !.responses = line.responses, !.awaits = line.awaits]
             /\ [line EXCEPT !.awaits = awaits, !.includes = includes]
                   = [line EXCEPT !.sources = line.sources, !.includes = includes,
                                  !.responses = line.responses, !.awaits = awaits]
             /\ [line EXCEPT !.awaits = awaits]
                   = [line EXCEPT !.sources = line.sources, !.includes = line.includes,
                                  !.responses = line.responses, !.awaits = awaits]
             /\ [line EXCEPT !.responses = responses]
                   = [line EXCEPT !.sources = line.sources, !.includes = line.includes,
                                  !.responses = responses, !.awaits = line.awaits]
             /\ [line EXCEPT !.sources = sources]
                   = [line EXCEPT !.sources = sources, !.includes = line.includes,
                                  !.responses = line.responses, !.awaits = line.awaits]
             /\ [line EXCEPT !.includes = includes]
                   = [line EXCEPT !.sources = line.sources, !.includes = includes,
                                  !.responses = line.responses, !.awaits = line.awaits]
    BY DEF Lines
<1>6. CASE line.awaits = "-I"
    <2>1. PICK includes \in SUBSET Seen : includes = IF word[1] = "operand" THEN line.includes \cup {word[2]} ELSE line.includes
        BY <1>1, <1>3
    <2>2. after = [line EXCEPT !.awaits = "", !.includes = includes]
        BY <1>6, <2>1 DEF CompileWord
    <2>3. "" \in as
        OBVIOUS
    <2>4. after = [line EXCEPT !.sources = line.sources, !.includes = includes, !.responses = line.responses, !.awaits = ""]
        BY <1>3, <1>5, <2>2, <2>3
    <2>5. after \in Lines /\ after.sources = line.sources /\ after.includes = includes /\ after.awaits = ""
        <3>1. SetsCompile(after, line, line.sources, includes, line.responses, "")
            BY <2>4 DEF SetsCompile
        <3>2. SetsIn(line.sources, includes, line.responses, "")
            BY <1>3 DEF SetsIn
        <3> QED BY <3>1, <3>2, SetsCompileIs
    <2> QED BY <1>6, <2>1, <2>5 DEF CompilesTo, Blank
<1>7. CASE line.awaits \notin {"", "-I"}
    <2>1. after = [line EXCEPT !.awaits = ""] /\ "" \in as
        BY <1>7 DEF CompileWord
    <2>2. PICK sources, includes, responses :
              sources = line.sources /\ includes = line.includes /\ responses = line.responses
        OBVIOUS
    <2>3. SetsCompile(after, line, sources, includes, responses, "")
        BY <1>3, <1>5, <2>1, <2>2 DEF SetsCompile
    <2>4. SetsIn(sources, includes, responses, "")
        BY <1>3, <2>2 DEF SetsIn
    <2>5. after \in Lines /\ after.sources = sources /\ after.includes = includes /\ after.awaits = ""
        BY <2>3, <2>4, SetsCompileIs
    <2> QED BY <1>7, <2>2, <2>5 DEF CompilesTo, Blank
<1>8. CASE line.awaits = ""
    <2>1. PICK sources \in SUBSET Seen : sources = IF word[1] = "operand" /\ LastOf(word[2]) \in SourceNames
                                                   THEN line.sources \cup {word[2]} ELSE line.sources
        BY <1>1, <1>3
    <2>2. PICK includes \in SUBSET Seen : includes = IF word[1] = "-I" THEN line.includes \cup {word[2]} ELSE line.includes
        BY <1>1, <1>3
    <2>3. PICK awaits \in as : awaits = IF word[1] = "option" /\ word[2] \in CompileTakes THEN word[2] ELSE ""
        OBVIOUS
    <2>4. PICK responses \in BOOLEAN : responses = IF word[1] = "response" THEN TRUE ELSE line.responses
        BY <1>3
    <2>5. after = [line EXCEPT !.sources = sources, !.includes = includes, !.responses = responses, !.awaits = awaits]
        <3>1. CASE word[1] = "response"
            <4>1. after = [line EXCEPT !.responses = responses]
                BY <1>8, <2>4, <3>1 DEF CompileWord
            <4>2. sources = line.sources /\ includes = line.includes /\ awaits = line.awaits
                BY <1>8, <2>1, <2>2, <2>3, <3>1
            <4> QED BY <1>3, <1>5, <4>1, <4>2
        <3>2. CASE word[1] = "operand"
            <4>1. after = [line EXCEPT !.sources = sources]
                BY <1>8, <2>1, <3>2 DEF CompileWord
            <4>2. responses = line.responses /\ includes = line.includes /\ awaits = line.awaits
                BY <1>8, <2>2, <2>3, <2>4, <3>2
            <4> QED BY <1>3, <1>5, <4>1, <4>2
        <3>3. CASE word[1] = "-I"
            <4>1. after = [line EXCEPT !.includes = includes]
                BY <1>8, <2>2, <3>3 DEF CompileWord
            <4>2. responses = line.responses /\ sources = line.sources /\ awaits = line.awaits
                BY <1>8, <2>1, <2>3, <2>4, <3>3
            <4> QED BY <1>3, <1>5, <4>1, <4>2
        <3>4. CASE word[1] = "option"
            <4>1. after = [line EXCEPT !.awaits = awaits]
                BY <1>a, <1>8, <2>3, <3>4 DEF CompileWord
            <4>2. responses = line.responses /\ sources = line.sources /\ includes = line.includes
                BY <2>1, <2>2, <2>4, <3>4
            <4> HIDE DEF as
            <4> QED BY <1>3, <1>5, <4>1, <4>2
        <3>5. CASE word[1] \notin {"response", "operand", "-I", "option"}
            <4>1. after = line
                BY <1>8, <3>5 DEF CompileWord
            <4>2. responses = line.responses /\ sources = line.sources /\ includes = line.includes /\ awaits = line.awaits
                BY <1>8, <2>1, <2>2, <2>3, <2>4, <3>5
            <4> QED BY <1>3, <1>5, <4>1, <4>2
        <3> QED BY <3>1, <3>2, <3>3, <3>4, <3>5
    <2>6. after \in Lines /\ after.sources = sources /\ after.includes = includes /\ after.awaits = awaits
        <3>1. SetsCompile(after, line, sources, includes, responses, awaits)
            BY <2>5 DEF SetsCompile
        <3>2. SetsIn(sources, includes, responses, awaits)
            BY DEF SetsIn
        <3> QED BY <3>1, <3>2, SetsCompileIs
    <2> QED BY <1>8, <2>1, <2>2, <2>3, <2>6 DEF CompilesTo, Blank
<1> QED BY <1>6, <1>7, <1>8

\* Where the operands and the directories are, among the first k words.
OperandsUpto(words, values, names, k) ==
    {words[j][2] : j \in {i \in 1 .. k : i \notin values /\ words[i][1] = "operand" /\ LastOf(words[i][2]) \in names}}
GivenUpto(words, values, option, k) ==
    {j \in 1 .. k :
        \/ words[j][1] = option /\ j \notin values
        \/ words[j][1] = "operand" /\ j \in values /\ words[j - 1] = Option(option)}
ValuesOf(words, places) == {words[j][2] : j \in places}

Awaited(words, values, takes, k) ==
    IF k > 0 /\ k \notin values /\ words[k] \in Taking(takes) THEN words[k][2] ELSE Blank

\* What the scanner has gathered after k words.
CompileFits(line, words, values, k) ==
    /\ line \in Lines
    /\ line.awaits = Awaited(words, values, CompileTakes, k)
    /\ line.sources = OperandsUpto(words, values, SourceNames, k)
    /\ line.includes = ValuesOf(words, GivenUpto(words, values, "-I", k))

\* The word is a value exactly if one is awaited.
LEMMA AwaitsIs ==
    ASSUME NEW words, NEW N \in Nat, Len(words) = N, DOMAIN words = 1 .. N,
           NEW takes, \A o \in takes : o # Blank, NEW values, values = Values(words, takes), NEW k \in 1 .. N, NEW awaits,
           awaits = Awaited(words, values, takes, k - 1)
    PROVE  /\ k \in values <=> awaits # Blank
           /\ \A o \in takes : awaits = o <=> k \in values /\ words[k - 1] = Option(o)
<1>1. k \in values <=> k > 1 /\ words[k - 1] \in Taking(takes) /\ k - 1 \notin values
    <2>1. \A i \in 1 .. N : i \in Values(words, takes) <=>
             i > 1 /\ words[i - 1] \in Taking(takes) /\ i - 1 \notin Values(words, takes)
        BY ValuesAre
    <2> QED BY <2>1
<1>2. PICK before : before = words[k - 1]
    OBVIOUS
<1>3. before \in Taking(takes) => before[2] \in takes /\ \A o : before[2] = o <=> before = Option(o)
    BY DEF Taking, Option
<1>4. awaits = IF k > 1 /\ k - 1 \notin values /\ before \in Taking(takes) THEN before[2] ELSE Blank
    BY <1>2 DEF Awaited
<1> QED BY <1>1, <1>2, <1>3, <1>4

LEMMA CompileStep ==
    ASSUME NEW words, NEW N \in Nat, Len(words) = N, DOMAIN words = 1 .. N,
           \A k \in 1 .. N : words[k] \in AllWords \cup Passed,
           NEW values, values = Values(words, CompileTakes), NEW k \in 1 .. N,
           NEW line, CompileFits(line, words, values, k - 1), NEW after, after = CompileWord(line, words[k])
    PROVE  CompileFits(after, words, values, k)
<1>1. PICK word : word = words[k] /\ word \in AllWords \cup Passed
    OBVIOUS
<1>2. line \in Lines
    BY DEF CompileFits
<1>3. CompilesTo(after, line, word)
    BY <1>1, <1>2, CompileWordIs
<1>4. (\A o \in CompileTakes : o # Blank) /\ "-I" \in CompileTakes
    BY DEF CompileTakes, kOptionsConsumingNextArgument, Blank
<1>5. PICK awaits : awaits = line.awaits /\ awaits = Awaited(words, values, CompileTakes, k - 1)
    BY DEF CompileFits
<1>6. /\ k \in values <=> awaits # Blank
      /\ \A o \in CompileTakes : awaits = o <=> k \in values /\ words[k - 1] = Option(o)
    BY <1>4, <1>5, AwaitsIs
<1>7. /\ k \in values <=> awaits # Blank
      /\ awaits = "-I" <=> k \in values /\ words[k - 1] = Option("-I")
    BY <1>4, <1>6
<1>8. after.awaits = Awaited(words, values, CompileTakes, k)
    <2>1. word \in Taking(CompileTakes) <=> word[1] = "option" /\ word[2] \in CompileTakes
        BY <1>1, SpellingIs
    <2>2. after.awaits = IF awaits = Blank /\ word[1] = "option" /\ word[2] \in CompileTakes THEN word[2] ELSE Blank
        BY <1>3, <1>5 DEF CompilesTo
    <2>3. Awaited(words, values, CompileTakes, k) =
             IF awaits = Blank /\ word[1] = "option" /\ word[2] \in CompileTakes THEN word[2] ELSE Blank
        BY <1>1, <1>7, <2>1 DEF Awaited
    <2> QED BY <2>2, <2>3
<1>9. \A j : j \in 1 .. k <=> j \in 1 .. k - 1 \/ j = k
    OBVIOUS
<1>10. after.sources = OperandsUpto(words, values, SourceNames, k)
    <2>1. line.sources = OperandsUpto(words, values, SourceNames, k - 1)
        BY DEF CompileFits
    <2>2. OperandsUpto(words, values, SourceNames, k) =
             IF k \notin values /\ word[1] = "operand" /\ LastOf(word[2]) \in SourceNames
             THEN OperandsUpto(words, values, SourceNames, k - 1) \cup {word[2]}
             ELSE OperandsUpto(words, values, SourceNames, k - 1)
        BY <1>1, <1>9 DEF OperandsUpto
    <2> QED BY <1>3, <1>5, <1>7, <2>1, <2>2 DEF CompilesTo
<1>11. after.includes = ValuesOf(words, GivenUpto(words, values, "-I", k))
    <2>1. line.includes = ValuesOf(words, GivenUpto(words, values, "-I", k - 1))
        BY DEF CompileFits
    <2>2. ValuesOf(words, GivenUpto(words, values, "-I", k)) =
             IF \/ word[1] = "-I" /\ k \notin values
                \/ word[1] = "operand" /\ k \in values /\ words[k - 1] = Option("-I")
             THEN ValuesOf(words, GivenUpto(words, values, "-I", k - 1)) \cup {word[2]}
             ELSE ValuesOf(words, GivenUpto(words, values, "-I", k - 1))
        BY <1>1, <1>9 DEF GivenUpto, ValuesOf
    <2> QED BY <1>3, <1>5, <1>7, <2>1, <2>2 DEF CompilesTo
<1> QED BY <1>3, <1>8, <1>10, <1>11 DEF CompileFits, CompilesTo

\* The whole of a compile line (scan_compile_line).
LEMMA CompileLineIs ==
    ASSUME NEW r, NEW N \in Nat, Len(r.arguments) = N, DOMAIN r.arguments = 1 .. N,
           \A k \in 1 .. N : r.arguments[k] \in AllWords \cup Passed,
           NEW values, values = Values(r.arguments, CompileTakes)
    PROVE  CompileFits(scan_compile_line(r), r.arguments, values, N)
<1> DEFINE words == r.arguments
           step == [k \in 1 .. N |-> [l \in Lines |-> CompileWord(l, words[k])]]
           line[k \in 0 .. N] == IF k = 0 THEN NoLine ELSE CompileWord(line[k - 1], words[k])
<1>1. scan_compile_line(r) = line[N]
    BY DEF scan_compile_line
<1>2. ASSUME NEW k \in 1 .. N, NEW l \in Lines PROVE CompileWord(l, words[k]) \in Lines
    <2>1. words[k] \in AllWords \cup Passed
        OBVIOUS
    <2> QED BY <2>1, CompileWordIs DEF CompilesTo
<1>3. Steps(step, N, Lines)
    BY <1>2 DEF Steps
<1>4. PICK g : Folds(g, N, Lines, NoLine, step)
    <2> HIDE DEF step
    <2> QED BY <1>3, NoLineIs, Folding
<1>5. g \in [0 .. N -> Lines] /\ g[0] = NoLine
    BY <1>4 DEF Folds
<1>6. ASSUME NEW k \in 0 .. N PROVE g[k] = IF k = 0 THEN NoLine ELSE CompileWord(g[k - 1], words[k])
    <2>1. CASE k = 0
        BY <1>5, <2>1
    <2>2. CASE k # 0
        <3>1. k \in 1 .. N /\ k - 1 \in 0 .. N
            BY <2>2
        <3>2. g[k] = step[k][g[k - 1]] /\ g[k - 1] \in Lines
            <4> HIDE DEF step
            <4> QED BY <1>4, <3>1 DEF Folds
        <3> QED BY <2>2, <3>1, <3>2
    <2> QED BY <2>1, <2>2
<1>7. line = [k \in 0 .. N |-> IF k = 0 THEN NoLine ELSE CompileWord(line[k - 1], words[k])]
    <2>1. g = [k \in 0 .. N |-> IF k = 0 THEN NoLine ELSE CompileWord(g[k - 1], words[k])]
        BY <1>5, <1>6
    <2> QED BY <2>1
<1> HIDE DEF line
<1> DEFINE P == {k \in 0 .. N : CompileFits(line[k], words, values, k)}
<1>8. 0 \in P
    <2>1. line[0] = NoLine
        BY <1>7
    <2>2. NoLine.sources = {} /\ NoLine.includes = {} /\ NoLine.awaits = Blank
        BY DEF NoLine, Blank
    <2>3. CompileFits(NoLine, words, values, 0)
        BY <2>2, NoLineIs DEF CompileFits, OperandsUpto, GivenUpto, ValuesOf, Awaited
    <2> QED BY <2>1, <2>3
<1>9. ASSUME NEW k \in 1 .. N, k - 1 \in P PROVE k \in P
    <2>1. k \in 0 .. N /\ k # 0
        OBVIOUS
    <2>2. line[k] = CompileWord(line[k - 1], words[k])
        BY <1>7, <2>1
    <2>3. CompileFits(line[k - 1], words, values, k - 1)
        BY <1>9
    <2>4. CompileFits(line[k], words, values, k)
        BY <2>2, <2>3, CompileStep
    <2> QED BY <2>1, <2>4
<1> HIDE DEF P
<1>10. 0 .. N \subseteq P
    BY <1>8, <1>9, Counting
<1> QED BY <1>1, <1>10 DEF P

\* One word of a link line (scan_link_tokens).
LinksTo(after, line, word) ==
    /\ after \in Lines
    /\ after.inputs = IF line.awaits = Blank /\ word[1] = "operand" /\ LastOf(word[2]) \in LinkInputNames
                      THEN line.inputs \cup {word[2]} ELSE line.inputs
    /\ after.libraries = IF line.awaits = Blank /\ word[1] = "-l" THEN line.libraries \cup {word[2]} ELSE line.libraries
    /\ after.directories = IF \/ line.awaits = "-L" /\ word[1] = "operand"
                              \/ line.awaits = Blank /\ word[1] = "-L"
                           THEN Append(line.directories, word[2]) ELSE line.directories
    /\ after.awaits = IF line.awaits = Blank /\ word[1] = "option" /\ word[2] \in LinkTakes THEN word[2] ELSE Blank

SetsLink(after, line, inputs, directories, libraries, output, responses, awaits) ==
    after = [line EXCEPT !.inputs = inputs, !.directories = directories, !.libraries = libraries, !.output = output,
                         !.responses = responses, !.awaits = awaits]
LinkIn(inputs, directories, libraries, output, responses, awaits) ==
    /\ inputs \in SUBSET Seen /\ directories \in Seq(Seen) /\ libraries \in SUBSET Seen /\ output \in Seen
    /\ responses \in BOOLEAN /\ awaits \in CompileTakes \cup LinkTakes \cup {""}

LEMMA SetsLinkIs ==
    ASSUME NEW line \in Lines, NEW after, NEW inputs, NEW directories, NEW libraries, NEW output, NEW responses, NEW awaits,
           LinkIn(inputs, directories, libraries, output, responses, awaits),
           SetsLink(after, line, inputs, directories, libraries, output, responses, awaits)
    PROVE  /\ after \in Lines
           /\ after.inputs = inputs /\ after.directories = directories
           /\ after.libraries = libraries /\ after.awaits = awaits
<1> DEFINE as == CompileTakes \cup LinkTakes \cup {""}
<1>1. awaits \in as
    BY DEF LinkIn
<1> QED BY <1>1 DEF SetsLink, LinkIn, Lines

LEMMA LinkWordIs ==
    ASSUME NEW line \in Lines, NEW word \in AllWords \cup Passed, NEW after, after = LinkWord(line, word)
    PROVE  LinksTo(after, line, word)
<1>1. word[2] \in Seen
    BY DEF Seen
<1>2. /\ "" \notin LinkTakes /\ LinkTakes = kLinkOptionsConsumingNextArgument \cup {"-L"}
      /\ "-o" \in LinkTakes /\ "-L" \in LinkTakes
    BY DEF LinkTakes, kLinkOptionsConsumingNextArgument
<1> DEFINE as == CompileTakes \cup LinkTakes \cup {""}
<1>3. /\ line.inputs \in SUBSET Seen /\ line.directories \in Seq(Seen) /\ line.libraries \in SUBSET Seen
      /\ line.output \in Seen /\ line.responses \in BOOLEAN /\ line.awaits \in as
    BY DEF Lines
<1>4. Append(line.directories, word[2]) \in Seq(Seen)
    BY <1>1, <1>3, AppendProperties
<1>5. PICK i, d, l, o, r, a :
         i = line.inputs /\ d = line.directories /\ l = line.libraries /\ o = line.output /\ r = line.responses /\ a = line.awaits
    OBVIOUS
<1>6. /\ LinkIn(i, d, l, o, r, a)
      /\ \A x \in SUBSET Seen : LinkIn(x, d, l, o, r, a) /\ LinkIn(i, d, x, o, r, a)
      /\ \A x \in Seq(Seen) : LinkIn(i, x, l, o, r, a) /\ LinkIn(i, x, l, o, r, "")
      /\ \A x \in Seen : LinkIn(i, d, l, x, r, "")
      /\ \A x \in as : LinkIn(i, d, l, o, r, x)
      /\ LinkIn(i, d, l, o, TRUE, a) /\ LinkIn(i, d, l, o, r, "")
    BY <1>3, <1>5 DEF LinkIn
<1>7. \A x : /\ SetsLink([line EXCEPT !.inputs = x], line, x, d, l, o, r, a)
            /\ SetsLink([line EXCEPT !.directories = x], line, i, x, l, o, r, a)
            /\ SetsLink([line EXCEPT !.libraries = x], line, i, d, x, o, r, a)
            /\ SetsLink([line EXCEPT !.responses = x], line, i, d, l, o, x, a)
            /\ SetsLink([line EXCEPT !.awaits = x], line, i, d, l, o, r, x)
            /\ SetsLink([line EXCEPT !.awaits = "", !.directories = x], line, i, x, l, o, r, "")
            /\ SetsLink([line EXCEPT !.awaits = "", !.output = x], line, i, d, l, x, r, "")
    <2>1. \A x : SetsLink([line EXCEPT !.inputs = x], line, x, d, l, o, r, a)
        BY <1>5 DEF SetsLink, Lines
    <2>2. \A x : SetsLink([line EXCEPT !.directories = x], line, i, x, l, o, r, a)
        BY <1>5 DEF SetsLink, Lines
    <2>3. \A x : SetsLink([line EXCEPT !.libraries = x], line, i, d, x, o, r, a)
        BY <1>5 DEF SetsLink, Lines
    <2>4. \A x : SetsLink([line EXCEPT !.responses = x], line, i, d, l, o, x, a)
        BY <1>5 DEF SetsLink, Lines
    <2>5. \A x : SetsLink([line EXCEPT !.awaits = x], line, i, d, l, o, r, x)
        BY <1>5 DEF SetsLink, Lines
    <2>6. \A x : SetsLink([line EXCEPT !.awaits = "", !.directories = x], line, i, x, l, o, r, "")
        BY <1>5 DEF SetsLink, Lines
    <2>7. \A x : SetsLink([line EXCEPT !.awaits = "", !.output = x], line, i, d, l, x, r, "")
        BY <1>5 DEF SetsLink, Lines
    <2> QED BY <2>1, <2>2, <2>3, <2>4, <2>5, <2>6, <2>7
<1>8. CASE line.awaits = "-o"
    <2>1. PICK x \in Seen : x = IF line.output = <<>> /\ word[1] = "operand" THEN word[2] ELSE line.output
        BY <1>1, <1>3
    <2>2. after = [line EXCEPT !.awaits = "", !.output = x]
        BY <1>8, <2>1 DEF LinkWord
    <2>3. SetsLink(after, line, i, d, l, x, r, "")
        BY <1>7, <2>2
    <2>4. LinkIn(i, d, l, x, r, "")
        BY <1>6
    <2>5. after \in Lines /\ after.inputs = i /\ after.directories = d /\ after.libraries = l /\ after.awaits = ""
        BY <2>3, <2>4, SetsLinkIs
    <2> QED BY <1>5, <1>8, <2>5 DEF LinksTo, Blank
<1>9. CASE line.awaits = "-L"
    <2>1. PICK x \in Seq(Seen) : x = IF word[1] = "operand" THEN Append(line.directories, word[2]) ELSE line.directories
        BY <1>3, <1>4
    <2>2. after = [line EXCEPT !.awaits = "", !.directories = x]
        BY <1>9, <2>1 DEF LinkWord
    <2>3. SetsLink(after, line, i, x, l, o, r, "")
        BY <1>7, <2>2
    <2>4. LinkIn(i, x, l, o, r, "")
        BY <1>6
    <2>5. after \in Lines /\ after.inputs = i /\ after.directories = x /\ after.libraries = l /\ after.awaits = ""
        BY <2>3, <2>4, SetsLinkIs
    <2> QED BY <1>5, <1>9, <2>1, <2>5 DEF LinksTo, Blank
<1>10. CASE line.awaits \notin {"", "-o", "-L"}
    <2>1. after = [line EXCEPT !.awaits = ""]
        BY <1>10 DEF LinkWord
    <2>2. SetsLink(after, line, i, d, l, o, r, "")
        BY <1>7, <2>1
    <2>3. LinkIn(i, d, l, o, r, "")
        BY <1>6
    <2>4. after \in Lines /\ after.inputs = i /\ after.directories = d /\ after.libraries = l /\ after.awaits = ""
        BY <2>2, <2>3, SetsLinkIs
    <2> QED BY <1>5, <1>10, <2>4 DEF LinksTo, Blank
<1>11. CASE line.awaits = ""
    <2>1. CASE word[1] = "response"
        <3>1. after = [line EXCEPT !.responses = TRUE]
            BY <1>11, <2>1 DEF LinkWord
        <3>2. SetsLink(after, line, i, d, l, o, TRUE, a)
            BY <1>7, <3>1
        <3>3. after \in Lines /\ after.inputs = i /\ after.directories = d /\ after.libraries = l /\ after.awaits = a
            BY <1>6, <3>2, SetsLinkIs
        <3> QED BY <1>5, <1>11, <2>1, <3>3 DEF LinksTo, Blank
    <2>2. CASE word[1] = "-L"
        <3>1. PICK x \in Seq(Seen) : x = Append(line.directories, word[2])
            BY <1>4
        <3>2. after = [line EXCEPT !.directories = x]
            BY <1>11, <2>2, <3>1 DEF LinkWord
        <3>3. SetsLink(after, line, i, x, l, o, r, a)
            BY <1>7, <3>2
        <3>4. LinkIn(i, x, l, o, r, a)
            BY <1>6
        <3>5. after \in Lines /\ after.inputs = i /\ after.directories = x /\ after.libraries = l /\ after.awaits = a
            BY <3>3, <3>4, SetsLinkIs
        <3> QED BY <1>5, <1>11, <2>2, <3>1, <3>5 DEF LinksTo, Blank
    <2>3. CASE word[1] = "-l"
        <3>1. PICK x \in SUBSET Seen : x = line.libraries \cup {word[2]}
            BY <1>1, <1>3
        <3>2. after = [line EXCEPT !.libraries = x]
            BY <1>11, <2>3, <3>1 DEF LinkWord
        <3>3. SetsLink(after, line, i, d, x, o, r, a)
            BY <1>7, <3>2
        <3>4. LinkIn(i, d, x, o, r, a)
            BY <1>6
        <3>5. after \in Lines /\ after.inputs = i /\ after.directories = d /\ after.libraries = x /\ after.awaits = a
            BY <3>3, <3>4, SetsLinkIs
        <3> QED BY <1>5, <1>11, <2>3, <3>1, <3>5 DEF LinksTo, Blank
    <2>4. CASE word[1] = "operand"
        <3>1. PICK x \in SUBSET Seen : x = IF LastOf(word[2]) \in LinkInputNames THEN line.inputs \cup {word[2]} ELSE line.inputs
            BY <1>1, <1>3
        <3>2. after = [line EXCEPT !.inputs = x]
            BY <1>11, <2>4, <3>1 DEF LinkWord
        <3>3. SetsLink(after, line, x, d, l, o, r, a)
            BY <1>7, <3>2
        <3>4. LinkIn(x, d, l, o, r, a)
            BY <1>6
        <3>5. after \in Lines /\ after.inputs = x /\ after.directories = d /\ after.libraries = l /\ after.awaits = a
            BY <3>3, <3>4, SetsLinkIs
        <3> QED BY <1>5, <1>11, <2>4, <3>1, <3>5 DEF LinksTo, Blank
    <2>5. CASE word[1] = "option"
        <3>1. PICK x \in as : x = IF word[2] \in LinkTakes THEN word[2] ELSE ""
            OBVIOUS
        <3>2. after = [line EXCEPT !.awaits = x]
            BY <1>2, <1>11, <2>5, <3>1 DEF LinkWord
        <3>3. SetsLink(after, line, i, d, l, o, r, x)
            BY <1>7, <3>2
        <3>4. LinkIn(i, d, l, o, r, x)
            BY <1>6
        <3>5. after \in Lines /\ after.inputs = i /\ after.directories = d /\ after.libraries = l /\ after.awaits = x
            BY <3>3, <3>4, SetsLinkIs
        <3> QED BY <1>5, <1>11, <2>5, <3>1, <3>5 DEF LinksTo, Blank
    <2>6. CASE word[1] \notin {"response", "-L", "-l", "operand", "option"}
        <3>1. after = line
            BY <1>11, <2>6 DEF LinkWord
        <3> QED BY <1>11, <2>6, <3>1 DEF LinksTo, Blank
    <2> QED BY <2>1, <2>2, <2>3, <2>4, <2>5, <2>6
<1> QED BY <1>8, <1>9, <1>10, <1>11

\* The file of the first of some directories that has one.
FirstIn(words, places, name, files) ==
    UNION {Found(name, words[j][2], files) :
              j \in {i \in places : \A h \in places : h < i => Found(name, words[h][2], files) = {}}}

DirectoriesFit(directories, words, places) ==
    /\ directories # <<>> <=> places # {}
    /\ \A name, files :
          /\ resolve_library_name(name, directories, files) = FirstIn(words, places, name, files)
          /\ (\A i \in DOMAIN directories : Found(name, directories[i], files) = {})
                <=> \A j \in places : Found(name, words[j][2], files) = {}

LEMMA NoDirectories == ASSUME NEW words PROVE DirectoriesFit(<<>>, words, {})
<1>1. DOMAIN <<>> = {}
    BY EmptySeq
<1> QED BY <1>1 DEF DirectoriesFit, resolve_library_name, FirstIn

\* A directory more is searched after the others (resolve_library_name).
LEMMA DirectoryAdded ==
    ASSUME NEW before \in Seq(Seen), NEW words, NEW k \in Nat \ {0}, NEW places, places \subseteq 1 .. k - 1,
           DirectoriesFit(before, words, places), words[k][2] \in Seen,
           NEW after, after = Append(before, words[k][2])
    PROVE  DirectoriesFit(after, words, places \cup {k})
<1> DEFINE N == Len(before)
<1>1. PICK d \in Seen : d = words[k][2]
    OBVIOUS
<1>2. N \in Nat /\ DOMAIN before = 1 .. N
    BY LenProperties
<1>3. /\ after \in Seq(Seen) /\ Len(after) = N + 1 /\ DOMAIN after = 1 .. N + 1
      /\ \A i \in 1 .. N : after[i] = before[i]
      /\ after[N + 1] = d
    BY <1>1, <1>2, AppendProperties, LenProperties
<1> HIDE DEF N
<1>4. /\ \A i \in 1 .. N + 1 : i \in 1 .. N \/ i = N + 1
      /\ N + 1 \in 1 .. N + 1 /\ \A i \in 1 .. N : i \in 1 .. N + 1 /\ i < N + 1 /\ ~(N + 1 < i)
      /\ \A i \in 1 .. N + 1 : i \in 1 .. N => ~(N + 1 < i)
      /\ \A i \in 1 .. N : 1 .. i - 1 \subseteq 1 .. N
      /\ 1 .. N + 1 - 1 = 1 .. N
    BY <1>2
<1>5. \A j \in places : j \in 1 .. k - 1 /\ j < k /\ ~(k < j) /\ j # k
    OBVIOUS
<1>6. after # <<>>
    BY <1>2, <1>3, EmptySeq
<1>7. ASSUME NEW name, NEW files
      PROVE  /\ resolve_library_name(name, after, files) = FirstIn(words, places \cup {k}, name, files)
             /\ (\A i \in DOMAIN after : Found(name, after[i], files) = {})
                   <=> \A j \in places \cup {k} : Found(name, words[j][2], files) = {}
    <2> DEFINE none == \A i \in 1 .. N : Found(name, before[i], files) = {}
               nowhere == \A j \in places : Found(name, words[j][2], files) = {}
               found == Found(name, d, files)
    <2>1. none <=> nowhere
        BY <1>2 DEF DirectoriesFit
    <2>2. resolve_library_name(name, before, files) = FirstIn(words, places, name, files)
        BY DEF DirectoriesFit
    <2>3. (\A i \in DOMAIN after : Found(name, after[i], files) = {}) <=> none /\ found = {}
        BY <1>3, <1>4
    <2>4. (\A j \in places \cup {k} : Found(name, words[j][2], files) = {}) <=> nowhere /\ found = {}
        BY <1>1
    <2>5. resolve_library_name(name, after, files) = resolve_library_name(name, before, files) \cup (IF none THEN found ELSE {})
        <3> DEFINE F == {j \in 1 .. N : \A i \in 1 .. j - 1 : Found(name, before[i], files) = {}}
                   G == {j \in 1 .. N + 1 : \A i \in 1 .. j - 1 : Found(name, after[i], files) = {}}
        <3>1. resolve_library_name(name, before, files) = UNION {Found(name, before[j], files) : j \in F}
            BY <1>2 DEF resolve_library_name
        <3>2. resolve_library_name(name, after, files) = UNION {Found(name, after[j], files) : j \in G}
            BY <1>3 DEF resolve_library_name
        <3>3. ASSUME NEW j \in 1 .. N PROVE j \in F <=> j \in G
            <4>1. \A i \in 1 .. j - 1 : after[i] = before[i]
                BY <1>3, <1>4
            <4> QED BY <1>4, <4>1
        <3>4. N + 1 \in G <=> none
            <4>1. N + 1 \in G <=> \A i \in 1 .. N : Found(name, after[i], files) = {}
                <5>1. PICK m : m = N + 1
                    OBVIOUS
                <5>2. m - 1 = N /\ m \in 1 .. N + 1
                    BY <1>2, <5>1
                <5>3. m \in G <=> \A i \in 1 .. m - 1 : Found(name, after[i], files) = {}
                    BY <5>2
                <5> HIDE DEF G
                <5> QED BY <5>1, <5>2, <5>3
            <4>2. \A i \in 1 .. N : Found(name, after[i], files) = Found(name, before[i], files)
                BY <1>3
            <4> HIDE DEF G
            <4> QED BY <4>1, <4>2
        <3>5. G \subseteq 1 .. N + 1 /\ F \subseteq 1 .. N
            OBVIOUS
        <3> HIDE DEF F, G, none
        <3>6. ASSUME NEW x, NEW j \in G, x \in Found(name, after[j], files)
              PROVE  (\E i \in F : x \in Found(name, before[i], files)) \/ (none /\ x \in found)
            <4>1. CASE j = N + 1
                BY <1>3, <3>4, <3>6, <4>1
            <4>2. CASE j \in 1 .. N
                BY <1>3, <3>3, <3>6, <4>2
            <4> QED BY <1>4, <3>5, <4>1, <4>2
        <3>7. ASSUME NEW x, NEW j \in F, x \in Found(name, before[j], files)
              PROVE  \E i \in G : x \in Found(name, after[i], files)
            BY <1>3, <3>3, <3>5, <3>7
        <3>8. ASSUME none, NEW x \in found PROVE \E i \in G : x \in Found(name, after[i], files)
            BY <1>3, <3>4, <3>8
        <3> HIDE DEF found
        <3> DEFINE A == UNION {Found(name, after[j], files) : j \in G}
                   B == UNION {Found(name, before[j], files) : j \in F}
        <3>9. A \subseteq B \cup (IF none THEN found ELSE {})
            BY <3>6
        <3>10. B \subseteq A
            BY <3>7
        <3>11. none => found \subseteq A
            BY <3>8
        <3> HIDE DEF A, B
        <3>12. A = B \cup (IF none THEN found ELSE {})
            BY <3>9, <3>10, <3>11
        <3> QED BY <3>1, <3>2, <3>12 DEF A, B
    <2>6. FirstIn(words, places \cup {k}, name, files) = FirstIn(words, places, name, files) \cup (IF nowhere THEN found ELSE {})
        <3> DEFINE F == {i \in places : \A h \in places : h < i => Found(name, words[h][2], files) = {}}
                   G == {i \in places \cup {k} : \A h \in places \cup {k} : h < i => Found(name, words[h][2], files) = {}}
        <3>1. FirstIn(words, places, name, files) = UNION {Found(name, words[j][2], files) : j \in F}
            BY DEF FirstIn
        <3>2. FirstIn(words, places \cup {k}, name, files) = UNION {Found(name, words[j][2], files) : j \in G}
            BY DEF FirstIn
        <3>3. \A j \in places : j \in F <=> j \in G
            BY <1>5
        <3>4. k \in G <=> nowhere
            <4>1. k \in G <=> \A h \in places \cup {k} : h < k => Found(name, words[h][2], files) = {}
                OBVIOUS
            <4>2. ~(k < k)
                OBVIOUS
            <4> HIDE DEF G
            <4> QED BY <1>5, <4>1, <4>2
        <3>5. G \subseteq places \cup {k} /\ F \subseteq places
            OBVIOUS
        <3> HIDE DEF F, G, nowhere
        <3>6. \A x : (\E j \in G : x \in Found(name, words[j][2], files)) <=>
                        (\E j \in F : x \in Found(name, words[j][2], files)) \/ (nowhere /\ x \in found)
            BY <1>1, <3>3, <3>4, <3>5
        <3> QED BY <3>1, <3>2, <3>6
    <2> HIDE DEF none, nowhere, found
    <2> QED BY <2>1, <2>2, <2>3, <2>4, <2>5, <2>6
<1> QED BY <1>6, <1>7 DEF DirectoriesFit

\* What the link scanner has gathered after k tokens.
LibrariesUpto(words, values, k) == {words[j][2] : j \in {i \in 1 .. k : words[i][1] = "-l" /\ i \notin values}}
LinkFits(line, words, values, k) ==
    /\ line \in Lines
    /\ line.awaits = Awaited(words, values, LinkTakes, k)
    /\ line.inputs = OperandsUpto(words, values, LinkInputNames, k)
    /\ line.libraries = LibrariesUpto(words, values, k)
    /\ DirectoriesFit(line.directories, words, GivenUpto(words, values, "-L", k))

LEMMA LinkStep ==
    ASSUME NEW words, NEW N \in Nat, Len(words) = N, DOMAIN words = 1 .. N,
           \A k \in 1 .. N : words[k] \in AllWords \cup Passed,
           NEW values, values = Values(words, LinkTakes), NEW k \in 1 .. N,
           NEW line, LinkFits(line, words, values, k - 1), NEW after, after = LinkWord(line, words[k])
    PROVE  LinkFits(after, words, values, k)
<1>1. PICK word : word = words[k] /\ word \in AllWords \cup Passed
    OBVIOUS
<1>2. line \in Lines
    BY DEF LinkFits
<1>3. LinksTo(after, line, word)
    BY <1>1, <1>2, LinkWordIs
<1>4. (\A o \in LinkTakes : o # Blank) /\ "-L" \in LinkTakes
    BY DEF LinkTakes, kLinkOptionsConsumingNextArgument, Blank
<1>5. PICK awaits : awaits = line.awaits /\ awaits = Awaited(words, values, LinkTakes, k - 1)
    BY DEF LinkFits
<1>6. /\ k \in values <=> awaits # Blank
      /\ \A o \in LinkTakes : awaits = o <=> k \in values /\ words[k - 1] = Option(o)
    BY <1>4, <1>5, AwaitsIs
<1>7. /\ k \in values <=> awaits # Blank
      /\ awaits = "-L" <=> k \in values /\ words[k - 1] = Option("-L")
    BY <1>4, <1>6
<1>8. after.awaits = Awaited(words, values, LinkTakes, k)
    <2>1. word \in Taking(LinkTakes) <=> word[1] = "option" /\ word[2] \in LinkTakes
        BY <1>1, SpellingIs
    <2>2. after.awaits = IF awaits = Blank /\ word[1] = "option" /\ word[2] \in LinkTakes THEN word[2] ELSE Blank
        BY <1>3, <1>5 DEF LinksTo
    <2>3. Awaited(words, values, LinkTakes, k) =
             IF awaits = Blank /\ word[1] = "option" /\ word[2] \in LinkTakes THEN word[2] ELSE Blank
        BY <1>1, <1>7, <2>1 DEF Awaited
    <2> QED BY <2>2, <2>3
<1>9. \A j : j \in 1 .. k <=> j \in 1 .. k - 1 \/ j = k
    OBVIOUS
<1>10. after.inputs = OperandsUpto(words, values, LinkInputNames, k)
    <2>1. line.inputs = OperandsUpto(words, values, LinkInputNames, k - 1)
        BY DEF LinkFits
    <2>2. OperandsUpto(words, values, LinkInputNames, k) =
             IF k \notin values /\ word[1] = "operand" /\ LastOf(word[2]) \in LinkInputNames
             THEN OperandsUpto(words, values, LinkInputNames, k - 1) \cup {word[2]}
             ELSE OperandsUpto(words, values, LinkInputNames, k - 1)
        BY <1>1, <1>9 DEF OperandsUpto
    <2> QED BY <1>3, <1>5, <1>7, <2>1, <2>2 DEF LinksTo
<1>11. after.libraries = LibrariesUpto(words, values, k)
    <2>1. line.libraries = LibrariesUpto(words, values, k - 1)
        BY DEF LinkFits
    <2>2. LibrariesUpto(words, values, k) =
             IF k \notin values /\ word[1] = "-l"
             THEN LibrariesUpto(words, values, k - 1) \cup {word[2]} ELSE LibrariesUpto(words, values, k - 1)
        BY <1>1, <1>9 DEF LibrariesUpto
    <2> QED BY <1>3, <1>5, <1>7, <2>1, <2>2 DEF LinksTo
<1>12. DirectoriesFit(after.directories, words, GivenUpto(words, values, "-L", k))
    <2> DEFINE places == GivenUpto(words, values, "-L", k - 1)
               given == \/ word[1] = "-L" /\ k \notin values
                        \/ word[1] = "operand" /\ k \in values /\ words[k - 1] = Option("-L")
    <2>1. DirectoriesFit(line.directories, words, places)
        BY DEF LinkFits
    <2>2. GivenUpto(words, values, "-L", k) = IF given THEN places \cup {k} ELSE places
        BY <1>1, <1>9 DEF GivenUpto
    <2>3. places \subseteq 1 .. k - 1
        BY DEF GivenUpto
    <2>4. after.directories = IF given THEN Append(line.directories, words[k][2]) ELSE line.directories
        BY <1>1, <1>3, <1>5, <1>7 DEF LinksTo
    <2>5. PICK before : before = line.directories /\ before \in Seq(Seen)
        BY <1>2 DEF Lines
    <2>6. words[k][2] \in Seen
        BY <1>1 DEF Seen
    <2>7. k \in Nat \ {0}
        OBVIOUS
    <2> HIDE DEF places, given
    <2>8. CASE given
        <3>1. DirectoriesFit(Append(before, words[k][2]), words, places \cup {k})
            BY <2>1, <2>3, <2>5, <2>6, <2>7, DirectoryAdded
        <3> QED BY <2>2, <2>4, <2>5, <2>8, <3>1
    <2>9. CASE ~given
        BY <2>1, <2>2, <2>4, <2>9
    <2> QED BY <2>8, <2>9
<1> QED BY <1>3, <1>8, <1>10, <1>11, <1>12 DEF LinkFits, LinksTo

\* The whole of a link line, once -Wl and -Xlinker are taken apart (scan_link_line).
LEMMA LinkLineIs ==
    ASSUME NEW r, NEW words, words = flatten_linker_tokens(r), NEW N \in Nat, Len(words) = N, DOMAIN words = 1 .. N,
           \A k \in 1 .. N : words[k] \in AllWords \cup Passed,
           NEW values, values = Values(words, LinkTakes)
    PROVE  LinkFits(scan_link_line(r), words, values, N)
<1> DEFINE step == [k \in 1 .. N |-> [l \in Lines |-> LinkWord(l, words[k])]]
           line[k \in 0 .. N] == IF k = 0 THEN NoLine ELSE LinkWord(line[k - 1], words[k])
<1>1. scan_link_line(r) = line[N]
    BY DEF scan_link_line
<1>2. ASSUME NEW k \in 1 .. N, NEW l \in Lines PROVE LinkWord(l, words[k]) \in Lines
    <2>1. words[k] \in AllWords \cup Passed
        OBVIOUS
    <2> QED BY <2>1, LinkWordIs DEF LinksTo
<1>3. Steps(step, N, Lines)
    BY <1>2 DEF Steps
<1>4. PICK g : Folds(g, N, Lines, NoLine, step)
    <2> HIDE DEF step
    <2> QED BY <1>3, NoLineIs, Folding
<1>5. g \in [0 .. N -> Lines] /\ g[0] = NoLine
    BY <1>4 DEF Folds
<1>6. ASSUME NEW k \in 0 .. N PROVE g[k] = IF k = 0 THEN NoLine ELSE LinkWord(g[k - 1], words[k])
    <2>1. CASE k = 0
        BY <1>5, <2>1
    <2>2. CASE k # 0
        <3>1. k \in 1 .. N /\ k - 1 \in 0 .. N
            BY <2>2
        <3>2. g[k] = step[k][g[k - 1]] /\ g[k - 1] \in Lines
            <4> HIDE DEF step
            <4> QED BY <1>4, <3>1 DEF Folds
        <3> QED BY <2>2, <3>1, <3>2
    <2> QED BY <2>1, <2>2
<1>7. line = [k \in 0 .. N |-> IF k = 0 THEN NoLine ELSE LinkWord(line[k - 1], words[k])]
    <2>1. g = [k \in 0 .. N |-> IF k = 0 THEN NoLine ELSE LinkWord(g[k - 1], words[k])]
        BY <1>5, <1>6
    <2> QED BY <2>1
<1> HIDE DEF line
<1> DEFINE P == {k \in 0 .. N : LinkFits(line[k], words, values, k)}
<1>8. 0 \in P
    <2>1. line[0] = NoLine
        BY <1>7
    <2>2. NoLine.inputs = {} /\ NoLine.libraries = {} /\ NoLine.directories = <<>> /\ NoLine.awaits = Blank
        BY DEF NoLine, Blank
    <2>3. GivenUpto(words, values, "-L", 0) = {}
        BY DEF GivenUpto
    <2>4. DirectoriesFit(NoLine.directories, words, GivenUpto(words, values, "-L", 0))
        BY <2>2, <2>3, NoDirectories
    <2>5. LinkFits(NoLine, words, values, 0)
        BY <2>2, <2>4, NoLineIs DEF LinkFits, OperandsUpto, LibrariesUpto, Awaited
    <2> QED BY <2>1, <2>5
<1>9. ASSUME NEW k \in 1 .. N, k - 1 \in P PROVE k \in P
    <2>1. k \in 0 .. N /\ k # 0
        OBVIOUS
    <2>2. line[k] = LinkWord(line[k - 1], words[k])
        BY <1>7, <2>1
    <2>3. LinkFits(line[k - 1], words, values, k - 1)
        BY <1>9
    <2>4. LinkFits(line[k], words, values, k)
        BY <2>2, <2>3, LinkStep
    <2> QED BY <2>1, <2>4
<1> HIDE DEF P
<1>10. 0 .. N \subseteq P
    BY <1>8, <1>9, Counting
<1> QED BY <1>1, <1>10 DEF P

------------------------------------------------------------------------------
(* The grammar of the build: what each list of options takes. *)

\* Two lists that agree on the options of a line skip the same words.
LEMMA SameValues ==
    ASSUME NEW words, NEW N \in Nat, Len(words) = N, DOMAIN words = 1 .. N, NEW few, NEW many,
           NEW S, S = Values(words, few), NEW L, L = Values(words, many),
           \A k \in 1 .. N : k \notin L => (words[k] \in Taking(few) <=> words[k] \in Taking(many))
    PROVE  S = L
<1> DEFINE P == {k \in 0 .. N : k \in S <=> k \in L}
<1>1. /\ S \subseteq 1 .. N
      /\ \A k \in 1 .. N : k \in S <=> k > 1 /\ words[k - 1] \in Taking(few) /\ k - 1 \notin S
    BY ValuesAre
<1>2. /\ L \subseteq 1 .. N
      /\ \A k \in 1 .. N : k \in L <=> k > 1 /\ words[k - 1] \in Taking(many) /\ k - 1 \notin L
    BY ValuesAre
<1>3. 0 \in P
    BY <1>1, <1>2
<1>4. ASSUME NEW k \in 1 .. N, k - 1 \in P PROVE k \in P
    <2>1. k > 1 => k - 1 \in 1 .. N
        OBVIOUS
    <2> QED BY <1>1, <1>2, <1>4, <2>1
<1> HIDE DEF P
<1>5. 0 .. N \subseteq P
    BY <1>3, <1>4, Counting
<1>6. \A k \in 1 .. N : k \in S <=> k \in L
    <2>1. \A k \in 1 .. N : k \in P
        BY <1>5
    <2> QED BY <2>1 DEF P
<1> QED BY <1>1, <1>2, <1>6

\* If what the longer list takes besides is no option, the shorter one takes no other word.
Covers(words, N, few, many, values) ==
    /\ \A k \in 1 .. N : words[k] \in Taking(few) => words[k] \in Taking(many)
    /\ \A k \in 1 .. N : k > 1 /\ k \in values /\ words[k - 1] \notin Taking(few) => words[k][1] # "option"

LEMMA FewerValues ==
    ASSUME NEW words, NEW N \in Nat, Len(words) = N, DOMAIN words = 1 .. N, NEW few, NEW many,
           NEW S, S = Values(words, few), NEW L, L = Values(words, many),
           Covers(words, N, few, many, L)
    PROVE  /\ S \subseteq L
           /\ \A k \in L \ S : words[k - 1] \in Taking(many) \ Taking(few)
<1> USE DEF Covers
<1> DEFINE P == {k \in 0 .. N : (k \in S => k \in L) /\ (k \in L \ S => words[k][1] # "option")}
<1>1. /\ S \subseteq 1 .. N
      /\ \A k \in 1 .. N : k \in S <=> k > 1 /\ words[k - 1] \in Taking(few) /\ k - 1 \notin S
    BY ValuesAre
<1>2. /\ L \subseteq 1 .. N
      /\ \A k \in 1 .. N : k \in L <=> k > 1 /\ words[k - 1] \in Taking(many) /\ k - 1 \notin L
    BY ValuesAre
<1>3. \A k \in 1 .. N : k > 1 => k - 1 \in 1 .. N
    OBVIOUS
<1>4. \A k \in 1 .. N : words[k] \in Taking(few) => words[k][1] = "option"
    BY DEF Taking, Option
<1>5. 0 \in P
    BY <1>1, <1>2
<1>6. ASSUME NEW k \in 1 .. N, k - 1 \in P PROVE k \in P
    <2>1. ASSUME k \in S PROVE k \in L
        <3>1. k > 1 /\ k - 1 \in 1 .. N /\ words[k - 1] \in Taking(few) /\ k - 1 \notin S
            BY <1>1, <1>3, <2>1
        <3>2. words[k - 1][1] = "option"
            BY <1>4, <3>1
        <3>3. k - 1 \notin L
            BY <1>6, <3>1, <3>2
        <3> QED BY <1>2, <3>1, <3>3
    <2>2. ASSUME k \in L, k \notin S PROVE words[k][1] # "option"
        <3>1. k > 1 /\ k - 1 \in 1 .. N /\ k - 1 \notin L
            BY <1>2, <1>3, <2>2
        <3>2. k - 1 \notin S
            BY <1>6, <3>1
        <3>3. words[k - 1] \notin Taking(few)
            BY <1>1, <2>2, <3>1, <3>2
        <3> QED BY <2>2, <3>1, <3>3
    <2> QED BY <2>1, <2>2
<1> HIDE DEF P
<1>7. 0 .. N \subseteq P
    BY <1>5, <1>6, Counting
<1>8. \A k \in 1 .. N : k \in S => k \in L
    <2>1. \A k \in 1 .. N : k \in P
        BY <1>7
    <2> QED BY <2>1 DEF P
<1> QED BY <1>1, <1>2, <1>3, <1>8

\* A command of the build as far as it is typed: a value fits the option before it,
\* any other word is one of the tool.
IsCommand(r) ==
    /\ r.tool \in DOMAIN Words
    /\ r.arguments \in Seq(AllWords)
    /\ \A k \in DOMAIN r.arguments :
          r.arguments[k] \in IF k \in Value(r.arguments) THEN Accepts[r.arguments[k - 1][2]] ELSE Words[r.tool]

LEMMA ArgumentsAre ==
    ASSUME NEW r, IsCommand(r), NEW words, words = r.arguments, NEW N, N = Len(words)
    PROVE  /\ N \in Nat /\ DOMAIN words = 1 .. N
           /\ \A k \in 1 .. N : words[k] \in AllWords
BY LenProperties DEF IsCommand

\* What is not a value, is spelled by the tool; what is, by the option before it.
LEMMA WordIs ==
    ASSUME NEW r, IsCommand(r), NEW words, words = r.arguments, NEW N, N = Len(words), NEW k \in 1 .. N
    PROVE  /\ k \notin Value(words) => words[k] \in Words[r.tool]
           /\ k \in Value(words) =>
                 /\ k > 1 /\ k - 1 \in 1 .. N /\ k - 1 \notin Value(words)
                 /\ words[k - 1][1] = "option" /\ words[k - 1] = Option(words[k - 1][2])
                 /\ words[k - 1][2] \in DOMAIN Accepts /\ words[k] \in Accepts[words[k - 1][2]]
<1>1. /\ N \in Nat /\ DOMAIN words = 1 .. N
      /\ \A i \in 1 .. N : words[i] \in AllWords
    BY ArgumentsAre
<1>2. words[k] \in IF k \in Value(words) THEN Accepts[words[k - 1][2]] ELSE Words[r.tool]
    BY <1>1 DEF IsCommand
<1>3. ASSUME k \in Value(words)
      PROVE  k > 1 /\ words[k - 1] \in Taking(DOMAIN Accepts) /\ k - 1 \notin Value(words)
    <2>1. \A i \in 1 .. N : i \in Values(words, DOMAIN Accepts) <=>
             i > 1 /\ words[i - 1] \in Taking(DOMAIN Accepts) /\ i - 1 \notin Values(words, DOMAIN Accepts)
        BY <1>1, ValuesAre
    <2> QED BY <1>3, <2>1 DEF Value
<1>4. \A w : w \in Taking(DOMAIN Accepts) => w[1] = "option" /\ w = Option(w[2]) /\ w[2] \in DOMAIN Accepts
    BY DEF Taking, Option
<1>5. k > 1 => k - 1 \in 1 .. N
    BY <1>1
<1> QED BY <1>2, <1>3, <1>4, <1>5

\* The compiler's list has the options that take a value, so the scanner skips the
\* values and no other word (kOptionsConsumingNextArgument).
LEMMA CompilerValues ==
    ASSUME NEW r, IsCommand(r), r.tool \in CompilerTools
    PROVE  Values(r.arguments, CompileTakes) = Value(r.arguments)
<1> DEFINE words == r.arguments
           N == Len(words)
<1>1. /\ N \in Nat /\ DOMAIN words = 1 .. N
      /\ \A i \in 1 .. N : words[i] \in AllWords
    BY ArgumentsAre
<1>2. ASSUME NEW k \in 1 .. N, k \notin Value(words)
      PROVE  words[k] \in Taking(CompileTakes) <=> words[k] \in Taking(DOMAIN Accepts)
    <2>1. words[k] \in Words[r.tool] /\ r.tool \in CompilerTools \cap DOMAIN Words
        BY <1>2, WordIs DEF IsCommand
    <2>2. words[k] \in AllWords \cup Passed
        BY <1>1
    <2>3. PICK w : w = words[k]
        OBVIOUS
    <2>4. w[1] = "option" => (w[2] \in DOMAIN Accepts <=> w[2] \in CompileTakes)
        BY <2>1, <2>3, CompilersAssumption DEF CompileTakes
    <2>5. /\ w \in Taking(CompileTakes) <=> w[1] = "option" /\ w[2] \in CompileTakes
          /\ w \in Taking(DOMAIN Accepts) <=> w[1] = "option" /\ w[2] \in DOMAIN Accepts
        BY <2>2, <2>3, SpellingIs
    <2> QED BY <2>3, <2>4, <2>5
<1> HIDE DEF words, N
<1>3. \A k \in 1 .. N : k \notin Values(words, DOMAIN Accepts) =>
                         (words[k] \in Taking(CompileTakes) <=> words[k] \in Taking(DOMAIN Accepts))
    BY <1>2 DEF Value
<1>4. Len(words) = N
    BY DEF N
<1>5. PICK S, L : S = Values(words, CompileTakes) /\ L = Values(words, DOMAIN Accepts)
    OBVIOUS
<1>6. S = L
    BY <1>1, <1>3, <1>4, <1>5, SameValues
<1> QED BY <1>5, <1>6 DEF Value, words

\* A word that is passed on by -Xlinker is its value; of the other options every value
\* is an operand.
PassedFit(words, N, passed) ==
    /\ passed \subseteq Value(words)
    /\ \A k \in 1 .. N : k \in passed => k > 1 /\ words[k - 1] = Option("-Xlinker") /\ k - 1 \notin passed
    /\ \A k \in 1 .. N : k \in passed => words[k] \in Accepts["-Xlinker"]
    /\ \A k \in 1 .. N : k \in Value(words) \ passed => words[k - 1] # Option("-Xlinker") /\ words[k][1] = "operand"

LEMMA PassedOn ==
    ASSUME NEW r, IsCommand(r), NEW words, words = r.arguments, NEW N, N = Len(words),
           NEW passed, passed = Values(words, {"-Xlinker"})
    PROVE  PassedFit(words, N, passed)
<1> USE DEF PassedFit
<1> DEFINE x == {"-Xlinker"}
           A == DOMAIN Accepts
<1>1. /\ N \in Nat /\ DOMAIN words = 1 .. N
      /\ \A i \in 1 .. N : words[i] \in AllWords
    BY ArgumentsAre
<1>2. "-Xlinker" \in A
    BY LinkersAssumption
<1>3. \A o \in A \ {"-Xlinker"} : \A value \in Accepts[o] : value[1] = "operand"
    BY LinkersAssumption
<1>4. \A w : w \in Taking(x) <=> w = Option("-Xlinker")
    BY DEF Taking
<1>5. Option("-Xlinker") \in Taking(A)
    BY <1>2 DEF Taking
<1>6. \A w : w = Option("-Xlinker") => w[2] = "-Xlinker"
    BY DEF Option
<1>7. ASSUME NEW k \in 1 .. N, k \in Value(words), words[k - 1] # Option("-Xlinker")
      PROVE  words[k][1] = "operand"
    <2>1. /\ words[k - 1] = Option(words[k - 1][2]) /\ words[k - 1][2] \in A /\ words[k] \in Accepts[words[k - 1][2]]
        BY <1>7, WordIs
    <2>2. words[k - 1][2] # "-Xlinker"
        BY <1>7, <2>1
    <2> QED BY <1>3, <2>1, <2>2
<1> HIDE DEF x, A
<1>8. \A k \in 1 .. N : words[k] \in Taking(x) => words[k] \in Taking(A)
    BY <1>4, <1>5
<1>10. PICK L : L = Value(words) /\ L = Values(words, A)
    BY DEF Value, A
<1>9. \A k \in 1 .. N : k > 1 /\ k \in L /\ words[k - 1] \notin Taking(x) => words[k][1] # "option"
    BY <1>4, <1>7, <1>10
<1>11. /\ passed \subseteq L
       /\ \A k \in L \ passed : words[k - 1] \in Taking(A) \ Taking(x)
    <2>1. passed = Values(words, x)
        BY DEF x
    <2>2. Covers(words, N, x, A, L)
        BY <1>8, <1>9 DEF Covers
    <2> QED BY <1>1, <1>10, <2>1, <2>2, FewerValues
<1>12. \A k \in 1 .. N : k \in passed => k > 1 /\ words[k - 1] \in Taking(x) /\ k - 1 \notin passed
    <2>1. passed = Values(words, x)
        BY DEF x
    <2>2. \A k \in 1 .. N : k \in Values(words, x) =>
             k > 1 /\ words[k - 1] \in Taking(x) /\ k - 1 \notin Values(words, x)
        BY <1>1, ValuesAre
    <2> QED BY <2>1, <2>2
<1>13. ASSUME NEW k \in 1 .. N, k \in passed PROVE words[k] \in Accepts["-Xlinker"]
    <2>1. k \in Value(words) /\ words[k - 1] = Option("-Xlinker")
        BY <1>4, <1>10, <1>11, <1>12, <1>13
    <2>2. words[k] \in Accepts[words[k - 1][2]]
        BY <2>1, WordIs
    <2> QED BY <1>6, <2>1, <2>2
<1> QED BY <1>4, <1>7, <1>10, <1>11, <1>12, <1>13

\* What -Wl and -Xlinker leave is a line for the linker. The options it has that the
\* scanner does not know are followed by nothing that looks like an input of the link.
Awaiting(word) == \E o \in DOMAIN Accepts \ LinkTakes : word = Option(o)
Known(word) ==
    word[1] = "option" => word # Option("-Xlinker") /\ (word[2] \in LinkTakes => word[2] \in DOMAIN Accepts)

HandsOn(word, passes) ==
    \/ passes = <<word>> /\ word \in AllWords \cup Passed /\ Known(word)
    \/ passes \in Seq(Passed) /\ word[1] # "operand" /\ ~Awaiting(word)
    \/ passes = <<>> /\ word = Option("-Xlinker")

LEMMA PassedAreKnown ==
    ASSUME NEW word \in Passed
    PROVE  Known(word) /\ ~Awaiting(word)
<1>1. word[1] = "option" => word[2] # "-Xlinker" /\ (word[2] \in DOMAIN Accepts <=> word[2] \in LinkTakes)
    BY LinkersAssumption DEF LinkTakes
<1>2. \A o : Option(o)[1] = "option" /\ Option(o)[2] = o
    BY DEF Option
<1>3. word = Option("-Xlinker") => word[1] = "option" /\ word[2] = "-Xlinker"
    BY <1>2
<1>4. \A o \in DOMAIN Accepts \ LinkTakes : word = Option(o) => word[1] = "option" /\ word[2] = o
    BY <1>2
<1> QED BY <1>1, <1>3, <1>4 DEF Known, Awaiting

\* One word of the command, and what it hands on (flatten_linker_tokens).
LEMMA HandedIs ==
    ASSUME NEW r, IsCommand(r), r.tool \in Linkers, NEW words, words = r.arguments, NEW N, N = Len(words),
           NEW passed, passed = Values(words, {"-Xlinker"}), NEW k \in 1 .. N
    PROVE  /\ HandsOn(words[k], Handed(words, k))
           /\ k \in passed => ~Awaiting(words[k])
           /\ k \notin passed /\ words[k] # Option("-Xlinker") /\ Awaiting(words[k]) /\ k + 1 \in 1 .. N =>
                 Harmless(words[k + 1]) /\ k + 1 \notin passed
<1>1. /\ N \in Nat /\ DOMAIN words = 1 .. N
      /\ \A i \in 1 .. N : words[i] \in AllWords
    BY ArgumentsAre
<1>2. PICK word : word = words[k] /\ word \in AllWords
    BY <1>1
<1>3. /\ passed \subseteq Value(words)
      /\ \A i \in 1 .. N : i \in passed => i > 1 /\ words[i - 1] = Option("-Xlinker") /\ i - 1 \notin passed
      /\ k \in passed => word \in Accepts["-Xlinker"]
      /\ k \in Value(words) \ passed => word[1] = "operand"
    <2>1. PassedFit(words, N, passed)
        BY PassedOn
    <2> QED BY <1>2, <2>1 DEF PassedFit
<1>4. k \notin Value(words) => word \in Words[r.tool]
    BY <1>2, WordIs
<1>5. k \notin passed /\ word[1] # "operand" => k \notin Value(words) /\ word \in Words[r.tool]
    BY <1>3, <1>4
<1>6. Option("-Xlinker")[1] = "option" /\ Option("-Xlinker")[2] = "-Xlinker"
    BY DEF Option
<1>7. IsWord(word)
    BY <1>2, WordsAssumption
<1>8. Accepts["-Xlinker"] \subseteq Passed
    BY DEF Passed
<1>9. ASSUME k \in passed PROVE word \in Passed /\ Handed(words, k) = <<word>>
    <2>1. k \in Values(words, {"-Xlinker"})
        BY <1>9
    <2>2. Handed(words, k) = <<words[k]>>
        BY <2>1 DEF Handed
    <2> QED BY <1>2, <1>3, <1>8, <1>9, <2>2
<1>10. ASSUME k \notin passed, word = Option("-Xlinker") PROVE Handed(words, k) = <<>>
    <2>1. k \notin Values(words, {"-Xlinker"}) /\ words[k] = Option("-Xlinker")
        BY <1>2, <1>10
    <2> QED BY <2>1 DEF Handed, Option
<1>11. ASSUME k \notin passed, word[1] = "-Wl" PROVE Handed(words, k) = word[2] /\ word[2] \in Seq(Passed)
    <2>1. word # Option("-Xlinker")
        BY <1>6, <1>11
    <2>2. Handed(words, k) = word[2]
        BY <1>2, <1>11, <2>1 DEF Handed
    <2>3. word \in Words[r.tool] /\ r.tool \in Linkers
        BY <1>5, <1>11
    <2>4. word[2] \in Seq(ToSet(word[2]))
        BY <1>7, <1>11 DEF IsWord
    <2>5. ToSet(word[2]) \subseteq Passed
        BY <1>11, <2>3 DEF Passed
    <2>6. word[2] \in Seq(Passed)
        BY <2>4, <2>5, SeqMonotonic
    <2> QED BY <2>2, <2>6
<1>12. ASSUME k \notin passed, word # Option("-Xlinker"), word[1] # "-Wl" PROVE Handed(words, k) = <<word>>
    BY <1>2, <1>12 DEF Handed
<1>13. ASSUME k \notin passed, word # Option("-Xlinker"), word[1] = "option"
       PROVE  /\ word[2] \in LinkTakes => word[2] \in DOMAIN Accepts
              /\ word[2] \in DOMAIN Accepts \ LinkTakes => \A value \in Accepts[word[2]] : Harmless(value)
    <2>1. word \in Words[r.tool] /\ r.tool \in Linkers
        BY <1>5, <1>13
    <2>2. word[2] # "-Xlinker"
        BY <1>7, <1>13 DEF IsWord
    <2> QED BY <1>13, <2>1, <2>2, LinkersAssumption DEF LinkTakes
<1>14. ASSUME NEW o, word = Option(o) PROVE word[1] = "option" /\ word[2] = o
    BY <1>14 DEF Option
<1>15. HandsOn(word, Handed(words, k))
    <2>1. CASE k \in passed
        BY <1>9, <2>1, PassedAreKnown DEF HandsOn
    <2>2. CASE k \notin passed /\ word = Option("-Xlinker")
        BY <1>10, <2>2 DEF HandsOn
    <2>3. CASE k \notin passed /\ word[1] = "-Wl"
        <3>1. ~Awaiting(word)
            BY <1>14, <2>3 DEF Awaiting
        <3> QED BY <1>11, <2>3, <3>1 DEF HandsOn
    <2>4. CASE k \notin passed /\ word # Option("-Xlinker") /\ word[1] # "-Wl"
        BY <1>2, <1>12, <1>13, <2>4 DEF HandsOn, Known
    <2> QED BY <2>1, <2>2, <2>3, <2>4
<1>16. k \in passed => ~Awaiting(word)
    BY <1>9, PassedAreKnown
<1>17. ASSUME k \notin passed, word # Option("-Xlinker"), Awaiting(word), k + 1 \in 1 .. N
       PROVE  Harmless(words[k + 1]) /\ k + 1 \notin passed
    <2>1. PICK o \in DOMAIN Accepts \ LinkTakes : word = Option(o)
        BY <1>17 DEF Awaiting
    <2>2. word[1] = "option" /\ word[2] = o
        BY <1>14, <2>1
    <2>3. \A value \in Accepts[o] : Harmless(value)
        BY <1>13, <1>17, <2>1, <2>2
    <2>4. k \notin Value(words)
        BY <1>5, <1>17, <2>2
    <2>5. PICK n : n = k + 1 /\ n \in 1 .. N /\ n > 1 /\ n - 1 = k
        BY <1>1, <1>17
    <2>6. n \in Value(words)
        <3>1. \A i \in 1 .. N : i \in Values(words, DOMAIN Accepts) <=>
                 i > 1 /\ words[i - 1] \in Taking(DOMAIN Accepts) /\ i - 1 \notin Values(words, DOMAIN Accepts)
            BY <1>1, ValuesAre
        <3>2. word \in Taking(DOMAIN Accepts)
            BY <2>1 DEF Taking
        <3> QED BY <1>2, <2>4, <2>5, <3>1, <3>2 DEF Value
    <2>7. words[n] \in Accepts[words[n - 1][2]]
        BY <2>5, <2>6, WordIs
    <2>8. words[n] \in Accepts[o]
        BY <1>2, <2>2, <2>5, <2>7
    <2>9. n \notin passed
        BY <1>2, <1>3, <1>17, <2>5
    <2> QED BY <2>3, <2>5, <2>8, <2>9
<1> QED BY <1>2, <1>15, <1>16, <1>17

TokensFit(tokens, words, passed, k) ==
    /\ IsLine(tokens)
    /\ \A j \in 1 .. Len(tokens) : Known(tokens[j])
    /\ \A j \in 1 .. Len(tokens) - 1 : Awaiting(tokens[j]) => Harmless(tokens[j + 1])
    /\ Len(tokens) > 0 /\ Awaiting(tokens[Len(tokens)]) =>
          k > 0 /\ words[k] = tokens[Len(tokens)] /\ k \notin passed

LEMMA HandedLine ==
    ASSUME NEW word, NEW more, HandsOn(word, more)
    PROVE  more \in Seq(AllWords \cup Passed)
<1> DEFINE S == AllWords \cup Passed
<1>1. Passed \subseteq S
    OBVIOUS
<1>2. \/ more = <<word>> /\ word \in S
      \/ more \in Seq(Passed)
      \/ more = <<>>
    BY DEF HandsOn
<1> SUFFICES more \in Seq(S)
    OBVIOUS
<1> HIDE DEF S
<1>3. CASE more = <<word>> /\ word \in S
    BY <1>3
<1>4. CASE more \in Seq(Passed)
    BY <1>1, <1>4, SeqMonotonic
<1>5. CASE more = <<>>
    BY <1>5, EmptySeq
<1> QED BY <1>2, <1>3, <1>4, <1>5

LEMMA JoinsOn ==
    ASSUME NEW r, IsCommand(r), r.tool \in Linkers, NEW words, words = r.arguments, NEW N, N = Len(words),
           NEW passed, passed = Values(words, {"-Xlinker"}), NEW k \in 1 .. N,
           NEW tokens, TokensFit(tokens, words, passed, k - 1), NEW more, more = Handed(words, k)
    PROVE  TokensFit(tokens \o more, words, passed, k)
<1> DEFINE S == AllWords \cup Passed
           M == Len(tokens)
           L == Len(more)
           both == tokens \o more
<1>1. N \in Nat /\ (k - 1 > 0 => k - 1 \in 1 .. N /\ k - 1 + 1 = k)
    BY ArgumentsAre
<1>2. PICK word : word = words[k]
    OBVIOUS
<1>3. HandsOn(word, more) /\ (k \in passed => ~Awaiting(word))
    BY <1>2, HandedIs
<1>4. ASSUME M > 0, Awaiting(tokens[M]) PROVE more = <<word>> /\ Harmless(word)
    <2>1. k - 1 > 0 /\ words[k - 1] = tokens[M] /\ k - 1 \notin passed
        BY <1>4 DEF TokensFit
    <2>2. PICK before : before = words[k - 1]
        OBVIOUS
    <2>3. M \in 1 .. M
        <3>1. M \in Nat
            BY LenProperties DEF TokensFit, IsLine
        <3> QED BY <1>4, <3>1
    <2>4. Known(before) /\ Awaiting(before)
        BY <1>4, <2>1, <2>2, <2>3 DEF TokensFit
    <2>5. before # Option("-Xlinker")
        <3>1. before[1] = "option"
            BY <2>4 DEF Awaiting, Option
        <3> QED BY <2>4, <3>1 DEF Known
    <2>6. PICK i : i = k - 1 /\ i \in 1 .. N /\ i + 1 = k
        BY <1>1, <2>1
    <2>7. i \notin passed /\ words[i] # Option("-Xlinker") /\ Awaiting(words[i]) /\ i + 1 \in 1 .. N =>
                 Harmless(words[i + 1]) /\ i + 1 \notin passed
        BY <2>6, HandedIs
    <2>8. Harmless(word)
        BY <1>2, <2>1, <2>2, <2>4, <2>5, <2>6, <2>7
    <2>9. word[1] = "operand"
        BY <2>8 DEF Harmless
    <2>10. word # Option("-Xlinker")
        BY <2>9 DEF Option
    <2> QED BY <1>3, <2>8, <2>9, <2>10 DEF HandsOn
<1>5. \/ more = <<word>> /\ word \in S /\ Known(word)
      \/ more \in Seq(Passed) /\ ~Awaiting(word)
      \/ more = <<>>
    BY <1>3 DEF HandsOn
<1>6. more \in Seq(S) /\ L \in Nat
    <2>1. more \in Seq(S)
        BY <1>3, HandedLine
    <2> QED BY <2>1, LenProperties
<1>7. tokens \in Seq(S) /\ M \in Nat
    <2>1. tokens \in Seq(S)
        BY DEF TokensFit, IsLine
    <2> HIDE DEF S
    <2> QED BY <2>1, LenProperties
<1>8. \A j \in 1 .. L :
          /\ Known(more[j])
          /\ Awaiting(more[j]) => L = 1 /\ more[j] = word
    <2>1. CASE more = <<word>> /\ Known(word)
        <3>1. L = 1 /\ more[1] = word
            BY <2>1
        <3> QED BY <2>1, <3>1
    <2>2. CASE more \in Seq(Passed)
        <3>1. \A j \in 1 .. L : more[j] \in Passed
            BY <2>2, ElementOfSeq
        <3> QED BY <3>1, PassedAreKnown
    <2>3. CASE more = <<>>
        <3>1. L = 0
            BY <2>3, EmptySeq
        <3> QED BY <3>1
    <2> QED BY <1>5, <2>1, <2>2, <2>3
<1>9. /\ both \in Seq(S) /\ Len(both) = M + L
      /\ \A j \in 1 .. M + L : both[j] = IF j <= M THEN tokens[j] ELSE more[j - M]
    <2> HIDE DEF S
    <2> QED BY <1>6, <1>7, ConcatProperties
<1>10. IsLine(both)
    BY <1>9 DEF IsLine
<1> HIDE DEF both, S
<1>11. /\ \A j \in 1 .. M : Known(tokens[j])
       /\ \A j \in 1 .. M - 1 : Awaiting(tokens[j]) => Harmless(tokens[j + 1])
    BY DEF TokensFit
<1>12. more = <<word>> => L = 1 /\ more[1] = word
    OBVIOUS
<1> HIDE DEF M, L
<1>13. ASSUME NEW j \in 1 .. M + L PROVE Known(both[j])
    <2>1. j <= M => j \in 1 .. M
        BY <1>7
    <2>2. ~(j <= M) => j - M \in 1 .. L
        BY <1>6, <1>7
    <2> QED BY <1>8, <1>9, <1>11, <2>1, <2>2
<1>14. ASSUME NEW j \in 1 .. M + L - 1, Awaiting(both[j]) PROVE Harmless(both[j + 1])
    <2>1. j \in 1 .. M + L /\ j + 1 \in 1 .. M + L
        BY <1>6, <1>7
    <2>2. CASE j < M
        <3>1. j \in 1 .. M - 1 /\ j <= M /\ j + 1 <= M
            BY <1>7, <2>2
        <3> QED BY <1>9, <1>11, <1>14, <2>1, <3>1
    <2>3. CASE j = M
        <3>1. M > 0 /\ j <= M /\ ~(j + 1 <= M) /\ j + 1 - M = 1
            BY <1>7, <2>3
        <3>2. both[j] = tokens[M] /\ both[j + 1] = more[1]
            BY <1>9, <2>1, <2>3, <3>1
        <3>3. more[1] = word /\ Harmless(word)
            BY <1>4, <1>12, <1>14, <3>1, <3>2
        <3> QED BY <3>2, <3>3
    <2>4. CASE M < j
        <3>1. ~(j <= M) /\ j - M \in 1 .. L /\ L # 1
            BY <1>6, <1>7, <2>4
        <3>2. both[j] = more[j - M]
            BY <1>9, <2>1, <3>1
        <3> QED BY <1>8, <1>14, <3>1, <3>2
    <2> QED BY <1>7, <2>2, <2>3, <2>4
<1>15. ASSUME M + L > 0, Awaiting(both[M + L]) PROVE k > 0 /\ word = both[M + L] /\ k \notin passed
    <2>1. M + L \in 1 .. M + L
        BY <1>6, <1>7, <1>15
    <2>2. CASE L = 0
        <3>1. M > 0 /\ M + L = M /\ M <= M
            BY <1>6, <1>7, <1>15, <2>2
        <3>2. both[M + L] = tokens[M]
            BY <1>9, <2>1, <3>1
        <3>3. L = 1
            BY <1>4, <1>12, <1>15, <3>1, <3>2
        <3> QED BY <2>2, <3>3
    <2>3. CASE L # 0
        <3>1. PICK i : i = M + L /\ i \in 1 .. M + L /\ ~(i <= M) /\ i - M = L /\ L \in 1 .. L
            BY <1>6, <1>7, <2>1, <2>3
        <3>2. both[M + L] = more[L]
            <4>1. both[i] = more[i - M]
                BY <1>9, <3>1
            <4> QED BY <3>1, <4>1
        <3>3. more[L] = word /\ k \notin passed
            BY <1>3, <1>8, <1>15, <3>1, <3>2
        <3> QED BY <3>2, <3>3
    <2> QED BY <2>2, <2>3
<1>16. PICK n : n = M + L /\ Len(both) = n
    BY <1>9
<1>17. TokensFit(both, words, passed, k)
    <2>1. \A j \in 1 .. n : Known(both[j])
        BY <1>13, <1>16
    <2>2. ASSUME NEW j \in 1 .. n - 1, Awaiting(both[j]) PROVE Harmless(both[j + 1])
        <3>1. j \in 1 .. M + L - 1
            BY <1>6, <1>7, <1>16
        <3> QED BY <1>14, <2>2, <3>1
    <2>3. n > 0 /\ Awaiting(both[n]) => k > 0 /\ words[k] = both[n] /\ k \notin passed
        BY <1>2, <1>15, <1>16
    <2> QED BY <1>10, <1>16, <2>1, <2>2, <2>3 DEF TokensFit
<1> QED BY <1>17 DEF both

\* All of them (flatten_linker_tokens).
LEMMA FlattenIs ==
    ASSUME NEW r, IsCommand(r), r.tool \in Linkers, NEW tokens, tokens = flatten_linker_tokens(r)
    PROVE  /\ IsLine(tokens)
           /\ \A j \in 1 .. Len(tokens) : Known(tokens[j])
           /\ \A j \in 1 .. Len(tokens) - 1 : Awaiting(tokens[j]) => Harmless(tokens[j + 1])
<1> DEFINE words == r.arguments
           N == Len(words)
           passed == Values(words, {"-Xlinker"})
           S == Seq(AllWords \cup Passed)
           step == [k \in 1 .. N |-> [t \in S |-> t \o Handed(words, k)]]
           line[k \in 0 .. N] == IF k = 0 THEN <<>> ELSE line[k - 1] \o Handed(words, k)
<1>1. tokens = line[N]
    BY DEF flatten_linker_tokens
<1>2. N \in Nat
    BY ArgumentsAre
<1>3. \A k \in 1 .. N : Handed(words, k) \in S
    <2> SUFFICES ASSUME NEW k \in 1 .. N PROVE Handed(words, k) \in S
        OBVIOUS
    <2>1. PICK word, more : word = words[k] /\ more = Handed(words, k)
        OBVIOUS
    <2>2. HandsOn(word, more)
        BY <2>1, HandedIs
    <2> QED BY <2>1, <2>2, HandedLine
<1>4. ASSUME NEW k \in 1 .. N, NEW t \in S PROVE t \o Handed(words, k) \in S
    BY <1>3, ConcatProperties
<1> HIDE DEF words, N, passed
<1>5. <<>> \in S
    BY EmptySeq
<1> HIDE DEF S
<1>6. Steps(step, N, S)
    BY <1>4 DEF Steps
<1>7. PICK g : Folds(g, N, S, <<>>, step)
    <2> HIDE DEF step
    <2> QED BY <1>2, <1>5, <1>6, Folding
<1>8. g \in [0 .. N -> S] /\ g[0] = <<>>
    BY <1>7 DEF Folds
<1>9. ASSUME NEW k \in 0 .. N PROVE g[k] = IF k = 0 THEN <<>> ELSE g[k - 1] \o Handed(words, k)
    <2>1. CASE k = 0
        BY <1>8, <2>1
    <2>2. CASE k # 0
        <3>1. k \in 1 .. N /\ k - 1 \in 0 .. N
            BY <1>2, <2>2
        <3>2. g[k] = step[k][g[k - 1]] /\ g[k - 1] \in S
            <4> HIDE DEF step
            <4> QED BY <1>7, <3>1 DEF Folds
        <3> QED BY <2>2, <3>1, <3>2
    <2> QED BY <2>1, <2>2
<1>10. line = [k \in 0 .. N |-> IF k = 0 THEN <<>> ELSE line[k - 1] \o Handed(words, k)]
    <2>1. g = [k \in 0 .. N |-> IF k = 0 THEN <<>> ELSE g[k - 1] \o Handed(words, k)]
        BY <1>8, <1>9
    <2> QED BY <2>1
<1> HIDE DEF line
<1> DEFINE P == {k \in 0 .. N : TokensFit(line[k], words, passed, k)}
<1>11. 0 \in P
    <2>1. line[0] = <<>>
        BY <1>2, <1>10
    <2>2. Len(<<>>) = 0 /\ IsLine(<<>>)
        BY EmptySeq DEF IsLine
    <2>3. TokensFit(<<>>, words, passed, 0)
        BY <2>2 DEF TokensFit
    <2> QED BY <1>2, <2>1, <2>3
<1>12. ASSUME NEW k \in 1 .. N, k - 1 \in P PROVE k \in P
    <2>1. k \in 0 .. N /\ k # 0
        BY <1>2
    <2>2. line[k] = line[k - 1] \o Handed(words, k)
        BY <1>10, <2>1
    <2>3. TokensFit(line[k - 1], words, passed, k - 1)
        BY <1>12
    <2>4. TokensFit(line[k], words, passed, k)
        BY <2>2, <2>3, JoinsOn DEF words, N, passed
    <2> QED BY <2>1, <2>4
<1> HIDE DEF P
<1>13. 0 .. N \subseteq P
    BY <1>2, <1>11, <1>12, Counting
<1>14. TokensFit(tokens, words, passed, N)
    BY <1>1, <1>2, <1>13 DEF P
<1> QED BY <1>14 DEF TokensFit

Sources(r) == {p \in Operands(r.arguments) : LastOf(p) \in SourceNames}
Inputs(tokens) == {p \in Operands(tokens) : LastOf(p) \in LinkInputNames}
Libraries(tokens) == {tokens[k][2] : k \in {i \in DOMAIN tokens \ Value(tokens) : tokens[i][1] = "-l"}}

\* A compile line has the operands and the directories of the command (scan_compile_line).
LEMMA CompileGathers ==
    ASSUME NEW r, IsCommand(r), r.tool \in CompilerTools, NEW line, line = scan_compile_line(r)
    PROVE  /\ line \in Lines
           /\ line.sources = Sources(r)
           /\ line.includes = ValuesOf(r.arguments, Given(r.arguments, "-I"))
<1> DEFINE words == r.arguments
           N == Len(words)
<1>1. /\ N \in Nat /\ DOMAIN words = 1 .. N
      /\ \A k \in 1 .. N : words[k] \in AllWords \cup Passed
    <2>1. N \in Nat /\ DOMAIN words = 1 .. N /\ \A k \in 1 .. N : words[k] \in AllWords
        BY ArgumentsAre
    <2> QED BY <2>1
<1>2. PICK values : values = Values(words, CompileTakes) /\ values = Value(words)
    BY CompilerValues
<1>3. CompileFits(line, words, values, N)
    BY <1>1, <1>2, CompileLineIs
<1>4. line \in Lines /\ line.sources = OperandsUpto(words, values, SourceNames, N)
         /\ line.includes = ValuesOf(words, GivenUpto(words, values, "-I", N))
    BY <1>3 DEF CompileFits
<1>5. OperandsUpto(words, values, SourceNames, N) = Sources(r)
    BY <1>1, <1>2 DEF OperandsUpto, Sources, Operands
<1>6. GivenUpto(words, values, "-I", N) = Given(words, "-I")
    BY <1>1, <1>2 DEF GivenUpto, Given
<1> QED BY <1>4, <1>5, <1>6

\* What only the linker takes as a value is no input of the link.
LEMMA TokensAgree ==
    ASSUME NEW r, IsCommand(r), r.tool \in Linkers, NEW tokens, tokens = flatten_linker_tokens(r),
           NEW N, N = Len(tokens), NEW few, few = Values(tokens, LinkTakes), NEW many, many = Value(tokens)
    PROVE  /\ IsLine(tokens) /\ few \subseteq many
           /\ \A k \in many \ few : Harmless(tokens[k]) /\ tokens[k - 1] # Option("-L")
<1>1. /\ IsLine(tokens)
      /\ \A j \in 1 .. N : Known(tokens[j])
      /\ \A j \in 1 .. N - 1 : Awaiting(tokens[j]) => Harmless(tokens[j + 1])
    BY FlattenIs
<1>2. N \in Nat /\ DOMAIN tokens = 1 .. N /\ \A k \in 1 .. N : tokens[k] \in AllWords \cup Passed
    BY <1>1, LenProperties DEF IsLine
<1>3. PICK A, all : A = DOMAIN Accepts /\ all = AllWords \cup Passed
    OBVIOUS
<1>4. many = Values(tokens, A)
    BY <1>3 DEF Value
<1>5. \A k \in 1 .. N : k \in many => k > 1 /\ tokens[k - 1] \in Taking(A) /\ k - 1 \notin many
    <2>1. \A k \in 1 .. N : k \in Values(tokens, A) <=>
             k > 1 /\ tokens[k - 1] \in Taking(A) /\ k - 1 \notin Values(tokens, A)
        BY <1>2, ValuesAre
    <2> QED BY <1>4, <2>1
<1>6. ASSUME NEW word, word \in Taking(A) \ Taking(LinkTakes) PROVE Awaiting(word)
    BY <1>3, <1>6 DEF Taking, Awaiting
<1>7. ASSUME NEW k \in 1 .. N, k > 1, tokens[k - 1] \in Taking(A) \ Taking(LinkTakes) PROVE Harmless(tokens[k])
    <2>1. PICK i : i = k - 1 /\ i \in 1 .. N - 1 /\ i + 1 = k
        BY <1>2, <1>7
    <2>2. Awaiting(tokens[i])
        BY <1>6, <1>7, <2>1
    <2> QED BY <1>1, <2>1, <2>2
<1>8. ASSUME NEW k \in 1 .. N, tokens[k] \in Taking(LinkTakes) PROVE tokens[k] \in Taking(A)
    <2>1. PICK word : word = tokens[k]
        OBVIOUS
    <2>2. PICK o \in LinkTakes : word = Option(o)
        BY <1>8, <2>1 DEF Taking
    <2>3. word[1] = "option" /\ word[2] = o
        BY <2>2 DEF Option
    <2>4. o \in A
        BY <1>1, <1>3, <2>1, <2>3 DEF Known
    <2> QED BY <2>1, <2>2, <2>4 DEF Taking
<1>9. \A word : Harmless(word) => word[1] # "option"
    BY DEF Harmless
<1>10. Covers(tokens, N, LinkTakes, A, many)
    <2>1. ASSUME NEW k \in 1 .. N, k > 1, k \in many, tokens[k - 1] \notin Taking(LinkTakes) PROVE tokens[k][1] # "option"
        BY <1>5, <1>7, <1>9, <2>1
    <2> QED BY <1>8, <2>1 DEF Covers
<1>11. /\ few \subseteq many
       /\ \A k \in many \ few : tokens[k - 1] \in Taking(A) \ Taking(LinkTakes)
    BY <1>2, <1>4, <1>10, FewerValues
<1>12. many \subseteq 1 .. N
    BY <1>2, <1>4, ValuesAre
<1>13. Option("-L") \in Taking(LinkTakes)
    BY DEF Taking, LinkTakes
<1>14. \A k \in many \ few : k \in 1 .. N /\ k > 1
    BY <1>5, <1>12
<1> QED BY <1>1, <1>7, <1>11, <1>13, <1>14

\* A link line has the inputs, the libraries and the directories of the command (scan_link_line).
LEMMA LinkGathers ==
    ASSUME NEW r, IsCommand(r), r.tool \in Linkers, NEW line, line = scan_link_line(r),
           NEW tokens, tokens = flatten_linker_tokens(r)
    PROVE  /\ line \in Lines
           /\ line.inputs = Inputs(tokens)
           /\ line.libraries = Libraries(tokens)
           /\ DirectoriesFit(line.directories, tokens, Given(tokens, "-L"))
<1>1. PICK N, few, many : N = Len(tokens) /\ few = Values(tokens, LinkTakes) /\ many = Value(tokens)
    OBVIOUS
<1>2. /\ IsLine(tokens) /\ few \subseteq many
      /\ \A k \in many \ few : Harmless(tokens[k]) /\ tokens[k - 1] # Option("-L")
    BY <1>1, TokensAgree
<1>3. N \in Nat /\ DOMAIN tokens = 1 .. N /\ \A k \in 1 .. N : tokens[k] \in AllWords \cup Passed
    BY <1>1, <1>2, LenProperties DEF IsLine
<1>4. LinkFits(line, tokens, few, N)
    BY <1>1, <1>3, LinkLineIs
<1>5. /\ line \in Lines
      /\ line.inputs = OperandsUpto(tokens, few, LinkInputNames, N)
      /\ line.libraries = LibrariesUpto(tokens, few, N)
      /\ DirectoriesFit(line.directories, tokens, GivenUpto(tokens, few, "-L", N))
    BY <1>4 DEF LinkFits
<1>6. OperandsUpto(tokens, few, LinkInputNames, N) = Inputs(tokens)
    <2>1. \A k \in 1 .. N : tokens[k][1] = "operand" /\ LastOf(tokens[k][2]) \in LinkInputNames => (k \in few <=> k \in many)
        BY <1>2 DEF Harmless
    <2> QED BY <1>1, <1>3, <2>1 DEF OperandsUpto, Inputs, Operands
<1>7. LibrariesUpto(tokens, few, N) = Libraries(tokens)
    <2>1. \A k \in 1 .. N : tokens[k][1] = "-l" => (k \in few <=> k \in many)
        BY <1>2 DEF Harmless
    <2> QED BY <1>1, <1>3, <2>1 DEF LibrariesUpto, Libraries
<1>8. GivenUpto(tokens, few, "-L", N) = Given(tokens, "-L")
    <2>1. \A k \in 1 .. N : tokens[k][1] = "-L" \/ tokens[k - 1] = Option("-L") => (k \in few <=> k \in many)
        BY <1>2 DEF Harmless
    <2> QED BY <1>1, <1>3, <2>1 DEF GivenUpto, Given
<1> QED BY <1>5, <1>6, <1>7, <1>8

------------------------------------------------------------------------------
(* From the lines to the roots. *)

Typed(commands) == \A k \in DOMAIN commands : IsCommand(commands[k])

LEMMA ResolvedIs ==
    ASSUME NEW p \in Seq(STRING), NEW root, NEW library, library = resolve_file_argument(p)
    PROVE  to_root_relative(library) /\ root \in enclosing_root(Front(library)) <=> In(root, Front(p))
<1>1. PICK d : d = DirectoryResolver(Front(p)) /\ d \in Seq(STRING)
    BY FrontIs, ResolvedIsPath
<1>2. library = Append(d, Last(p)) /\ Front(library) = d
    BY <1>1, FrontOfAppend DEF resolve_file_argument
<1>3. root \in enclosing_root(d) => to_root_relative(library)
    BY <1>1, <1>2, EnclosedIsInTree
<1> QED BY <1>1, <1>2, <1>3 DEF In

LEMMA SearchedIs ==
    ASSUME NEW p \in Seq(STRING), NEW root, NEW directory, directory = DirectoryResolver(p)
    PROVE  to_root_relative(directory) /\ root \in enclosing_root(directory) <=> In(root, p)
<1>1. directory \in Seq(STRING)
    BY ResolvedIsPath
<1>2. root \in enclosing_root(directory) => to_root_relative(directory)
    BY <1>1, EnclosedIsInTree
<1> QED BY <1>2 DEF In

LEMMA OperandIsPath ==
    ASSUME NEW words, IsLine(words)
    PROVE  /\ \A p \in Operands(words) : p \in Seq(STRING)
           /\ \A o \in {"-I", "-L"} : \A j \in Given(words, o) : words[j][2] \in Seq(STRING)
<1>1. \A k \in DOMAIN words : words[k] \in AllWords \cup Passed
    BY LenProperties, ElementOfSeq DEF IsLine
<1>2. \A k \in DOMAIN words : words[k][1] \in {"operand", "-I", "-L"} => words[k][2] \in Seq(STRING)
    BY <1>1, WordsAssumption DEF IsWord
<1> QED BY <1>2 DEF Operands, Given

LEMMA ArgumentsAreALine ==
    ASSUME NEW r, IsCommand(r)
    PROVE  IsLine(r.arguments)
<1>1. AllWords \subseteq AllWords \cup Passed /\ r.arguments \in Seq(AllWords)
    BY DEF IsCommand
<1> DEFINE S == AllWords \cup Passed
<1>2. AllWords \subseteq S
    OBVIOUS
<1> HIDE DEF S
<1>3. r.arguments \in Seq(S)
    BY <1>1, <1>2, SeqMonotonic
<1> QED BY <1>3 DEF IsLine, S

\* A component has a compiled source, or was searched, if a command of the trace did
\* that (map_compiles_to_roots).
LEMMA CompilesAre ==
    ASSUME NEW commands, Typed(commands), NEW map, map = map_compiles_to_roots(commands), NEW root \in Roots
    PROVE  /\ map.sources[root] # {} <=> \E k \in DOMAIN commands : Compiled(root, commands[k])
           /\ map.includes[root] # {} <=> \E k \in DOMAIN commands : Searched(root, commands[k])
<1> DEFINE compilers == {k \in DOMAIN commands : commands[k].tool \in CompilerTools}
           lines == {scan_compile_line(r) : r \in Of(commands, LAMBDA r : r.tool \in CompilerTools)}
           sources == {resolve_file_argument(s) : s \in UNION {l.sources : l \in lines}}
           includes == {DirectoryResolver(i) : i \in UNION {l.includes : l \in lines}}
<1>1. /\ map.sources = Attributed(sources, Front)
      /\ map.includes = Attributed(includes, LAMBDA i : i)
    BY DEF map_compiles_to_roots
<1>2. lines = {scan_compile_line(commands[k]) : k \in compilers}
    BY DEF Of
<1>3. ASSUME NEW k \in compilers
      PROVE  /\ scan_compile_line(commands[k]).sources = Sources(commands[k])
             /\ scan_compile_line(commands[k]).includes = ValuesOf(commands[k].arguments, Given(commands[k].arguments, "-I"))
             /\ IsLine(commands[k].arguments)
    BY CompileGathers, ArgumentsAreALine DEF Typed
<1> HIDE DEF lines
<1>4. \A x : x \in sources <=> \E k \in compilers : \E p \in Sources(commands[k]) : x = resolve_file_argument(p)
    BY <1>2, <1>3
<1>5. \A x : x \in includes <=>
                \E k \in compilers : \E j \in Given(commands[k].arguments, "-I") :
                    x = DirectoryResolver(commands[k].arguments[j][2])
    BY <1>2, <1>3 DEF ValuesOf
<1> HIDE DEF sources, includes
<1>6. map.sources[root] = {x \in sources : to_root_relative(x) /\ root \in enclosing_root(Front(x))}
    BY <1>1 DEF Attributed
<1>7. map.includes[root] = {x \in includes : to_root_relative(x) /\ root \in enclosing_root(x)}
    BY <1>1 DEF Attributed
<1>8. ASSUME NEW k \in compilers, NEW p \in Sources(commands[k])
      PROVE  to_root_relative(resolve_file_argument(p)) /\ root \in enclosing_root(Front(resolve_file_argument(p)))
                <=> In(root, Front(p))
    BY <1>3, OperandIsPath, ResolvedIs DEF Sources
<1>9. ASSUME NEW k \in compilers, NEW j \in Given(commands[k].arguments, "-I"),
             NEW i, i = commands[k].arguments[j][2]
      PROVE  to_root_relative(DirectoryResolver(i)) /\ root \in enclosing_root(DirectoryResolver(i)) <=> In(root, i)
    BY <1>3, <1>9, OperandIsPath, SearchedIs
<1>10. map.sources[root] # {} <=> \E k \in compilers : \E p \in Sources(commands[k]) : In(root, Front(p))
    BY <1>4, <1>6, <1>8
<1>11. map.includes[root] # {} <=>
          \E k \in compilers : \E j \in Given(commands[k].arguments, "-I") : In(root, commands[k].arguments[j][2])
    BY <1>5, <1>7, <1>9
<1> QED BY <1>10, <1>11 DEF Compiled, Searched, Sources

LEMMA LinkersLink ==
    ASSUME NEW r, IsCommand(r), is_link_mode_invocation(r)
    PROVE  r.tool \in Linkers
BY DEF IsCommand, is_link_mode_invocation, Linkers

\* The file that a -l means lies in the directory it was found in.
LEMMA FoundLiesIn ==
    ASSUME NEW directory \in Seq(STRING), NEW name, NEW files, NEW library \in Found(name, directory, files), NEW root
    PROVE  /\ to_root_relative(library) /\ root \in enclosing_root(Front(library)) <=> In(root, directory)
           /\ library \in files
<1>1. PICK d : d = DirectoryResolver(directory) /\ d \in Seq(STRING)
    BY ResolvedIsPath
<1>2. PICK x : library = Append(d, x) /\ library \in files
    BY <1>1 DEF Found
<1>3. Front(library) = d
    BY <1>1, <1>2, FrontOfAppend
<1>4. root \in enclosing_root(d) => to_root_relative(library)
    BY <1>1, <1>2, EnclosedIsInTree
<1> QED BY <1>1, <1>2, <1>3, <1>4 DEF In

LinkedAs(root, tokens, files) ==
    \/ \E p \in Inputs(tokens) : In(root, Front(p))
    \/ \E name \in Libraries(tokens) : \E library \in FirstIn(tokens, Given(tokens, "-L"), name, files) :
          to_root_relative(library) /\ root \in enclosing_root(Front(library))

LEMMA LinkedIs ==
    ASSUME NEW tokens, IsLine(tokens), NEW files, NEW root
    PROVE  LinkedAs(root, tokens, files) <=>
              \/ \E p \in Operands(tokens) : LastOf(p) \in LinkInputNames /\ In(root, Front(p))
              \/ \E j \in Given(tokens, "-L"), k \in DOMAIN tokens \ Value(tokens) :
                    /\ tokens[k][1] = "-l" /\ In(root, tokens[j][2])
                    /\ Found(tokens[k][2], tokens[j][2], files) # {}
                    /\ \A i \in Given(tokens, "-L") : i < j => ~(Found(tokens[k][2], tokens[i][2], files) # {})
<1> DEFINE places == Given(tokens, "-L")
           words == DOMAIN tokens \ Value(tokens)
<1>1. \A j \in places : tokens[j][2] \in Seq(STRING)
    BY OperandIsPath
<1>2. ASSUME NEW name, NEW j \in places, NEW library \in Found(name, tokens[j][2], files)
      PROVE  to_root_relative(library) /\ root \in enclosing_root(Front(library)) <=> In(root, tokens[j][2])
    BY <1>1, FoundLiesIn
<1>3. \A name, library : library \in FirstIn(tokens, places, name, files) <=>
         \E j \in places : /\ library \in Found(name, tokens[j][2], files)
                           /\ \A i \in places : i < j => Found(name, tokens[i][2], files) = {}
    BY DEF FirstIn
<1>4. Libraries(tokens) = {tokens[k][2] : k \in {i \in words : tokens[i][1] = "-l"}}
    BY DEF Libraries
<1> HIDE DEF places, words
<1>5. (\E name \in Libraries(tokens) : \E library \in FirstIn(tokens, places, name, files) :
            to_root_relative(library) /\ root \in enclosing_root(Front(library))) <=>
      \E j \in places, k \in words :
          /\ tokens[k][1] = "-l" /\ In(root, tokens[j][2])
          /\ Found(tokens[k][2], tokens[j][2], files) # {}
          /\ \A i \in places : i < j => ~(Found(tokens[k][2], tokens[i][2], files) # {})
    <2>1. ASSUME NEW name \in Libraries(tokens), NEW library \in FirstIn(tokens, places, name, files),
                 to_root_relative(library) /\ root \in enclosing_root(Front(library))
          PROVE  \E j \in places, k \in words :
                    /\ tokens[k][1] = "-l" /\ In(root, tokens[j][2])
                    /\ Found(tokens[k][2], tokens[j][2], files) # {}
                    /\ \A i \in places : i < j => ~(Found(tokens[k][2], tokens[i][2], files) # {})
        <3>1. PICK k \in words : tokens[k][1] = "-l" /\ name = tokens[k][2]
            BY <1>4
        <3>2. PICK j \in places : /\ library \in Found(name, tokens[j][2], files)
                                  /\ \A i \in places : i < j => Found(name, tokens[i][2], files) = {}
            BY <1>3
        <3> QED BY <1>2, <2>1, <3>1, <3>2
    <2>2. ASSUME NEW j \in places, NEW k \in words,
                 tokens[k][1] = "-l", In(root, tokens[j][2]), Found(tokens[k][2], tokens[j][2], files) # {},
                 \A i \in places : i < j => ~(Found(tokens[k][2], tokens[i][2], files) # {})
          PROVE  \E name \in Libraries(tokens) : \E library \in FirstIn(tokens, places, name, files) :
                    to_root_relative(library) /\ root \in enclosing_root(Front(library))
        <3>1. PICK name : name = tokens[k][2] /\ name \in Libraries(tokens)
            BY <1>4, <2>2
        <3>2. PICK library : library \in Found(name, tokens[j][2], files)
            BY <2>2, <3>1
        <3>3. \A i \in places : i < j => Found(name, tokens[i][2], files) = {}
            BY <2>2, <3>1
        <3>4. library \in FirstIn(tokens, places, name, files)
            BY <1>3, <3>2, <3>3
        <3> QED BY <1>2, <2>2, <3>1, <3>2, <3>4
    <2> QED BY <2>1, <2>2
<1> QED BY <1>5 DEF LinkedAs, Inputs, places, words

\* A component has an input of the link if a command of the trace linked it
\* (map_links_to_roots).
LEMMA LinksAre ==
    ASSUME NEW commands, Typed(commands), NEW files, NEW map, map = map_links_to_roots(commands, files)
    PROVE  /\ \A root \in Roots : map.inputs[root] # {} <=> \E k \in DOMAIN commands : Linked(root, commands[k], files)
           /\ \A k \in DOMAIN commands :
                 LET tokens == flatten_linker_tokens(commands[k])
                     places == Given(tokens, "-L")
                 IN is_link_mode_invocation(commands[k]) /\ places # {}
                       /\ (\E name \in Libraries(tokens) : FirstIn(tokens, places, name, files) = {})
                    => map.unresolved
<1> DEFINE links == {k \in DOMAIN commands : is_link_mode_invocation(commands[k])}
           Scanned(k) == scan_link_line(commands[k])
           Tokens(k) == flatten_linker_tokens(commands[k])
           Places(k) == Given(Tokens(k), "-L")
           lines == {scan_link_line(r) : r \in Of(commands, is_link_mode_invocation)}
           Named(l) == {[name |-> n, found |-> resolve_library_name(n, l.directories, files)] : n \in l.libraries}
           named == UNION {Named(l) : l \in {x \in lines : x.directories # <<>>}}
           inputs == {resolve_file_argument(i) : i \in UNION {l.inputs : l \in lines}}
           guesses == UNION {n.found : n \in named}
<1>1. /\ map.inputs = Attributed(inputs \cup guesses, Front)
      /\ map.unresolved = \E n \in named : n.found = {}
    BY DEF map_links_to_roots
<1>2. lines = {Scanned(k) : k \in links}
    BY DEF Of
<1>3. ASSUME NEW k \in links
      PROVE  /\ Scanned(k).inputs = Inputs(Tokens(k))
             /\ Scanned(k).libraries = Libraries(Tokens(k))
             /\ DirectoriesFit(Scanned(k).directories, Tokens(k), Places(k))
             /\ IsLine(Tokens(k))
    <2>1. IsCommand(commands[k]) /\ commands[k].tool \in Linkers
        BY LinkersLink DEF Typed
    <2> QED BY <2>1, LinkGathers, FlattenIs
<1>4. ASSUME NEW k \in links, NEW name
      PROVE  /\ Scanned(k).directories # <<>> <=> Places(k) # {}
             /\ resolve_library_name(name, Scanned(k).directories, files) = FirstIn(Tokens(k), Places(k), name, files)
    BY <1>3 DEF DirectoriesFit
<1> HIDE DEF lines, Scanned, Tokens, Places, links
<1>5. ASSUME NEW n \in named
      PROVE  \E k \in links : \E name \in Libraries(Tokens(k)) : n.found = FirstIn(Tokens(k), Places(k), name, files)
    <2>1. PICK k \in links : n \in Named(Scanned(k))
        BY <1>2
    <2>2. PICK name \in Scanned(k).libraries : n.found = resolve_library_name(name, Scanned(k).directories, files)
        BY <2>1
    <2> QED BY <1>3, <1>4, <2>2
<1>6. ASSUME NEW k \in links, NEW name \in Libraries(Tokens(k)), Places(k) # {}
      PROVE  \E n \in named : n.found = FirstIn(Tokens(k), Places(k), name, files)
    <2>1. PICK n : n = [name |-> name, found |-> resolve_library_name(name, Scanned(k).directories, files)]
        OBVIOUS
    <2>2. n \in Named(Scanned(k))
        BY <1>3, <2>1
    <2>3. Scanned(k) \in lines /\ Scanned(k).directories # <<>>
        BY <1>2, <1>4, <1>6
    <2>4. n \in named
        BY <2>2, <2>3
    <2>5. n.found = FirstIn(Tokens(k), Places(k), name, files)
        BY <1>4, <2>1
    <2> QED BY <2>4, <2>5
<1> HIDE DEF named, Named
<1>7. \A k, name : Places(k) = {} => FirstIn(Tokens(k), Places(k), name, files) = {}
    BY DEF FirstIn
<1>8. \A x : x \in guesses <=>
                \E k \in links : \E name \in Libraries(Tokens(k)) : x \in FirstIn(Tokens(k), Places(k), name, files)
    BY <1>5, <1>6, <1>7
<1>9. \A x : x \in inputs <=> \E k \in links : \E p \in Inputs(Tokens(k)) : x = resolve_file_argument(p)
    BY <1>2, <1>3
<1> HIDE DEF guesses, inputs
<1>10. ASSUME NEW root \in Roots
       PROVE  map.inputs[root] # {} <=> \E k \in DOMAIN commands : Linked(root, commands[k], files)
    <2>1. map.inputs[root] = {x \in inputs \cup guesses : to_root_relative(x) /\ root \in enclosing_root(Front(x))}
        BY <1>1 DEF Attributed
    <2>2. ASSUME NEW k \in links, NEW p \in Inputs(Tokens(k))
          PROVE  to_root_relative(resolve_file_argument(p)) /\ root \in enclosing_root(Front(resolve_file_argument(p)))
                    <=> In(root, Front(p))
        BY <1>3, OperandIsPath, ResolvedIs DEF Inputs
    <2>3. map.inputs[root] # {} <=> \E k \in links : LinkedAs(root, Tokens(k), files)
        BY <1>8, <1>9, <2>1, <2>2 DEF LinkedAs, Places
    <2>4. ASSUME NEW k \in DOMAIN commands
          PROVE  k \in links /\ LinkedAs(root, Tokens(k), files) <=> Linked(root, commands[k], files)
        <3>1. CASE k \in links
            <4>1. is_link_mode_invocation(commands[k])
                BY <3>1 DEF links
            <4> QED BY <1>3, <3>1, <4>1, LinkedIs DEF Linked, Tokens
        <3>2. CASE k \notin links
            BY <3>2 DEF Linked, links
        <3> QED BY <3>1, <3>2
    <2>5. links \subseteq DOMAIN commands
        BY DEF links
    <2> QED BY <2>3, <2>4, <2>5
<1>11. ASSUME NEW k \in DOMAIN commands, is_link_mode_invocation(commands[k]), Places(k) # {},
              NEW name \in Libraries(Tokens(k)), FirstIn(Tokens(k), Places(k), name, files) = {}
       PROVE  map.unresolved
    <2>1. k \in links
        BY <1>11 DEF links
    <2> QED BY <1>1, <1>6, <1>11, <2>1
<1> QED BY <1>10, <1>11 DEF Tokens, Places

------------------------------------------------------------------------------
(* Either command, from the build to its end. *)

Commands == {r \in [tool : DOMAIN Words, arguments : Seq(AllWords)] : IsCommand(r)}

Recorded ==
    /\ built \in Seq(Commands) /\ records \in Seq(Commands)
    /\ stage = "built" /\ warnings = {} => records = built
Unjudged == stage # "done" => usage = [root \in Roots |-> "unjudged"]
Judged == UsedIsObserved /\ NothingUsedIsDropped
Evident ==
    /\ stage = "building" => evidence = [root \in Roots |-> Nothing]
    /\ artifact.kind = "elf" => Names(artifact.record, artifact.holds)
    /\ \A root \in Roots :
          /\ \E E, N, M, S : evidence[root] \in [entry : E, needed : N, members : M, shared : S]
          /\ \A s \in evidence[root].needed :
                \E p \in disk : IsPrefix(root, p) /\ LastOf(p) \in {s} \cup {BaseName[b] : b \in {s} \cap DOMAIN BaseName}

EvidenceInv == EvidenceTypeOK /\ Recorded /\ Unjudged /\ Judged /\ Evident

\* Two maps of the same commands: what they say is what the commands did.
LEMMA MapsAre ==
    ASSUME NEW commands, Typed(commands), NEW files, NEW root \in Roots,
           NEW compiles, compiles = map_compiles_to_roots(commands),
           NEW links, links = map_links_to_roots(commands, files),
           NEW used, used = mark_used_in_build(compiles, links)[root]
    PROVE  /\ used = "CompiledSource" => \E k \in DOMAIN commands : Compiled(root, commands[k])
           /\ used = "Linked" => \E k \in DOMAIN commands : Linked(root, commands[k], files)
           /\ used = "IncludePath" => \E k \in DOMAIN commands : Searched(root, commands[k])
           /\ used = "None" => \A k \in DOMAIN commands :
                                  ~(Compiled(root, commands[k]) \/ Searched(root, commands[k]) \/ Linked(root, commands[k], files))
<1>1. /\ compiles.sources[root] # {} <=> \E k \in DOMAIN commands : Compiled(root, commands[k])
      /\ compiles.includes[root] # {} <=> \E k \in DOMAIN commands : Searched(root, commands[k])
    BY CompilesAre
<1>2. \A some \in Roots : links.inputs[some] # {} <=> \E k \in DOMAIN commands : Linked(some, commands[k], files)
    BY LinksAre
<1>3. links.inputs[root] # {} <=> \E k \in DOMAIN commands : Linked(root, commands[k], files)
    BY <1>2
<1>4. PICK s, l, i : s = compiles.sources[root] /\ l = links.inputs[root] /\ i = compiles.includes[root]
    OBVIOUS
<1>5. used = CASE s # {} -> "CompiledSource"
               [] s = {} /\ l # {} -> "Linked"
               [] s = {} /\ l = {} /\ i # {} -> "IncludePath"
               [] OTHER -> "None"
    BY <1>4 DEF mark_used_in_build
<1>6. /\ used = "CompiledSource" => s # {}
      /\ used = "Linked" => l # {}
      /\ used = "IncludePath" => i # {}
      /\ used = "None" => s = {} /\ l = {} /\ i = {}
    BY <1>5
<1> QED BY <1>1, <1>3, <1>4, <1>6

\* In a cleaned tree a library that was found before is one that is not resolved.
LEMMA CleanedTells ==
    ASSUME NEW commands, Typed(commands), NEW files, NEW root \in Roots,
           NEW k \in DOMAIN commands, Linked(root, commands[k], files),
           NEW links, links = map_links_to_roots(commands, {}), ~links.unresolved
    PROVE  Linked(root, commands[k], {})
<1> DEFINE tokens == flatten_linker_tokens(commands[k])
           places == Given(tokens, "-L")
<1>1. \A i \in DOMAIN commands :
          LET words == flatten_linker_tokens(commands[i])
              given == Given(words, "-L")
          IN is_link_mode_invocation(commands[i]) /\ given # {}
                /\ (\E name \in Libraries(words) : FirstIn(words, given, name, {}) = {})
             => links.unresolved
    BY LinksAre
<1>2. is_link_mode_invocation(commands[k])
    BY DEF Linked
<1>3. \A name, directory : Found(name, directory, {}) = {}
    BY DEF Found
<1>4. \A name : FirstIn(tokens, places, name, {}) = {}
    BY <1>3 DEF FirstIn
<1>5. places = {} \/ Libraries(tokens) = {}
    BY <1>1, <1>2, <1>4
<1>6. \E p \in Operands(tokens) : LastOf(p) \in LinkInputNames /\ In(root, Front(p))
    <2> DEFINE words == DOMAIN tokens \ Value(tokens)
    <2>1. \/ \E p \in Operands(tokens) : LastOf(p) \in LinkInputNames /\ In(root, Front(p))
          \/ \E j \in places, i \in words : tokens[i][1] = "-l"
        BY DEF Linked
    <2>2. \A i \in words : tokens[i][1] = "-l" => tokens[i][2] \in Libraries(tokens)
        BY DEF Libraries
    <2> HIDE DEF places, tokens, words
    <2> QED BY <1>5, <2>1, <2>2
<1> QED BY <1>2, <1>6 DEF Linked

LEMMA CommandsAreTyped ==
    ASSUME NEW commands \in Seq(Commands)
    PROVE  Typed(commands)
<1>1. \A k \in DOMAIN commands : commands[k] \in Commands
    BY LenProperties, ElementOfSeq
<1> QED BY <1>1 DEF Typed, Commands

\* The document says what the records say, and nothing is dropped unless a warning tells.
LEMMA TrimJudges ==
    ASSUME EvidenceInv, Trim
    PROVE  Judged'
<1> DEFINE compiles == map_compiles_to_roots(records)
           links == map_links_to_roots(records, disk)
<1>1. Typed(records)
    BY CommandsAreTyped DEF EvidenceInv, Recorded
<1>2. /\ usage' = mark_used_in_build(compiles, links)
      /\ warnings' = warnings \cup CompileWarnings(compiles) \cup LinkWarnings(links)
      /\ stage = "built" /\ records' = records /\ disk' = disk /\ built' = built
      /\ exit_code' = IF warnings' = {} THEN "clean" ELSE "warnings"
    BY DEF Trim, Ends
<1>3. PICK c, l : c = compiles /\ l = links
    OBVIOUS
<1>4. ASSUME NEW root \in Roots, NEW used, used = usage'[root]
      PROVE  /\ used = "CompiledSource" => \E k \in DOMAIN records : Compiled(root, records[k])
             /\ used = "Linked" => \E k \in DOMAIN records : Linked(root, records[k], disk)
             /\ used = "IncludePath" => \E k \in DOMAIN records : Searched(root, records[k])
             /\ used = "None" => \A k \in DOMAIN records :
                    ~(Compiled(root, records[k]) \/ Searched(root, records[k]) \/ Linked(root, records[k], disk))
    BY <1>1, <1>2, <1>3, <1>4, MapsAre
<1>5. UsedIsObserved'
    BY <1>2, <1>4 DEF UsedIsObserved, Did
<1>6. ASSUME exit_code' = "clean", NEW root \in Roots, usage'[root] = "None", NEW k \in DOMAIN built,
             Compiled(root, built[k]) \/ Searched(root, built[k]) \/ Linked(root, built[k], Disk)
      PROVE  FALSE
    <2>1. warnings = {} /\ LinkWarnings(l) = {}
        BY <1>2, <1>3, <1>6
    <2>2. records = built
        BY <1>2, <2>1 DEF EvidenceInv, Recorded
    <2>3. ~l.unresolved
        BY <2>1 DEF LinkWarnings
    <2>4. ~(Compiled(root, records[k]) \/ Searched(root, records[k]) \/ Linked(root, records[k], disk))
        BY <1>4, <1>6, <2>2
    <2>5. Linked(root, records[k], Disk) /\ disk # Disk
        BY <1>6, <2>2, <2>4
    <2>6. disk = {}
        BY <2>5 DEF EvidenceInv, EvidenceTypeOK
    <2>7. l = map_links_to_roots(records, {})
        BY <1>3, <2>6
    <2>8. Linked(root, records[k], {})
        BY <1>1, <1>6, <2>2, <2>3, <2>5, <2>7, CleanedTells
    <2> QED BY <2>4, <2>6, <2>8
<1>7. NothingUsedIsDropped'
    BY <1>2, <1>6 DEF NothingUsedIsDropped, Did
<1> QED BY <1>5, <1>7 DEF Judged

\* A command that is begun has no words yet.
LEMMA CommandBegins ==
    ASSUME NEW tool \in DOMAIN Words
    PROVE  [tool |-> tool, arguments |-> <<>>] \in Commands
<1> DEFINE r == [tool |-> tool, arguments |-> <<>>]
<1>1. r.tool = tool /\ r.arguments = <<>> /\ <<>> \in Seq(AllWords) /\ DOMAIN <<>> = {}
    BY EmptySeq
<1>2. IsCommand(r)
    BY <1>1 DEF IsCommand
<1>3. r \in [tool : DOMAIN Words, arguments : Seq(AllWords)]
    BY <1>1
<1> QED BY <1>2, <1>3 DEF Commands

\* A word that fits keeps the command one, and decides nothing of the words before it.
LEMMA CommandGoesOn ==
    ASSUME NEW r \in Commands, NEW word \in AllWords, NEW words, words = Append(r.arguments, word),
           word \in IF Len(words) \in Values(words, DOMAIN Accepts)
                    THEN Accepts[Last(r.arguments)[2]] ELSE Words[r.tool]
    PROVE  [r EXCEPT !.arguments = words] \in Commands
<1> DEFINE before == r.arguments
           N == Len(before)
           after == [r EXCEPT !.arguments = words]
<1>1. before \in Seq(AllWords) /\ r.tool \in DOMAIN Words /\ IsCommand(r) /\ N \in Nat /\ DOMAIN before = 1 .. N
    BY LenProperties DEF Commands
<1>2. /\ words \in Seq(AllWords) /\ Len(words) = N + 1 /\ DOMAIN words = 1 .. N + 1
      /\ \A k \in 1 .. N : words[k] = before[k]
      /\ words[N + 1] = word
    BY <1>1, AppendProperties, LenProperties
<1>3. after.tool = r.tool /\ after.arguments = words /\ after \in [tool : DOMAIN Words, arguments : Seq(AllWords)]
    <2>1. r \in [tool : DOMAIN Words, arguments : Seq(AllWords)]
        BY DEF Commands
    <2> QED BY <1>2, <2>1
<1>4. Last(before) = before[N]
    BY DEF Last
<1> HIDE DEF after, before, N
<1>5. PICK M : M = N + 1 /\ M \in Nat /\ N <= M /\ \A k \in 1 .. M : k \in 1 .. N \/ k = M
    BY <1>1
<1>6. \A k \in 1 .. N : k \in Value(words) <=> k \in Value(before)
    <2>1. Len(words) = M /\ DOMAIN words = 1 .. M /\ Len(before) = N
        BY <1>2, <1>5 DEF N
    <2>2. PICK A : A = DOMAIN Accepts
        OBVIOUS
    <2>3. N \in Nat /\ M \in Nat /\ N <= M /\ DOMAIN before = 1 .. N /\ \A k \in 1 .. N : words[k] = before[k]
        BY <1>1, <1>2, <1>5
    <2>4. \A k \in 1 .. N : k \in Values(words, A) <=> k \in Values(before, A)
        BY <2>1, <2>3, ValuesStay, ZenonT(60)
    <2> QED BY <2>2, <2>4 DEF Value
<1>7. ASSUME NEW k \in 1 .. N
      PROVE  words[k] \in IF k \in Value(words) THEN Accepts[words[k - 1][2]] ELSE Words[r.tool]
    <2>1. before[k] \in IF k \in Value(before) THEN Accepts[before[k - 1][2]] ELSE Words[r.tool]
        BY <1>1 DEF IsCommand, before
    <2>2. k \in Value(before) => k - 1 \in 1 .. N
        <3>1. k \in Value(before) => k > 1
            BY <1>1, WordIs DEF before, N
        <3> QED BY <1>1, <3>1
    <2> QED BY <1>2, <1>6, <2>1, <2>2
<1>8. words[M] \in IF M \in Value(words) THEN Accepts[words[M - 1][2]] ELSE Words[r.tool]
    <2>1. M \in Value(words) => M > 1
        <3>1. \A k \in 1 .. M : k \in Values(words, DOMAIN Accepts) => k > 1
            BY <1>2, <1>5, ValuesAre
        <3>2. M \in 1 .. M
            BY <1>1, <1>5
        <3> QED BY <3>1, <3>2 DEF Value
    <2>2. M > 1 => M - 1 = N /\ N \in 1 .. N
        BY <1>1, <1>5
    <2>3. words[M] = word /\ Len(words) = M
        BY <1>2, <1>5
    <2>4. word \in IF M \in Value(words) THEN Accepts[before[N][2]] ELSE Words[r.tool]
        BY <1>4, <2>3 DEF Value, before
    <2> QED BY <1>2, <2>1, <2>2, <2>3, <2>4
<1>9. IsCommand(after)
    <2>1. DOMAIN words = 1 .. M
        BY <1>2, <1>5
    <2> QED BY <1>1, <1>2, <1>3, <1>5, <1>7, <1>8, <2>1 DEF IsCommand
<1>10. after \in Commands
    BY <1>3, <1>9 DEF Commands
<1> QED BY <1>10 DEF after

LEMMA LastIs ==
    ASSUME NEW S, NEW s \in Seq(S), s # <<>>
    PROVE  Last(s) \in S
<1>1. Len(s) \in Nat \ {0}
    BY EmptySeq
<1>2. Len(s) \in 1 .. Len(s)
    BY <1>1
<1> QED BY <1>2, ElementOfSeq DEF Last

LEMMA SomeRecords ==
    ASSUME EvidenceInv, EvidenceNext
    PROVE  Recorded'
<1>1. /\ built \in Seq(Commands) /\ records \in Seq(Commands)
      /\ stage = "built" /\ warnings = {} => records = built
    BY DEF EvidenceInv, Recorded
<1>2. ASSUME NEW tool \in DOMAIN Words, Command(tool) PROVE Recorded'
    <2>1. [tool |-> tool, arguments |-> <<>>] \in Commands
        BY CommandBegins
    <2>2. PICK r \in Commands : built' = Append(built, r)
        BY <1>2, <2>1 DEF Command
    <2>3. built' \in Seq(Commands)
        BY <1>1, <2>2, AppendProperties
    <2> QED BY <1>1, <1>2, <2>3 DEF Recorded, Command
<1>3. ASSUME NEW word \in AllWords, Argument(word) PROVE Recorded'
    <2>1. built # <<>> /\ Last(built) \in Commands
        BY <1>1, <1>3, LastIs DEF Argument
    <2>2. PICK r, words :
              /\ r \in Commands /\ r = Last(built) /\ words = Append(r.arguments, word)
              /\ word \in IF Len(words) \in Values(words, DOMAIN Accepts)
                          THEN Accepts[Last(r.arguments)[2]] ELSE Words[r.tool]
              /\ built' = Append(Front(built), [r EXCEPT !.arguments = words])
        BY <1>3, <2>1 DEF Argument
    <2>3. [r EXCEPT !.arguments = words] \in Commands
        BY <2>2, CommandGoesOn
    <2>4. PICK after \in Commands : built' = Append(Front(built), after)
        BY <2>2, <2>3
    <2>5. Front(built) \in Seq(Commands)
        BY <1>1, FrontIs
    <2>6. built' \in Seq(Commands)
        BY <2>4, <2>5, AppendProperties
    <2> QED BY <1>1, <1>3, <2>6 DEF Recorded, Argument
<1>4. ASSUME TraceIsRead PROVE Recorded'
    <2>1. CASE records' = built /\ UNCHANGED warnings
        BY <1>1, <1>4, <2>1 DEF Recorded, TraceIsRead
    <2>2. CASE /\ built # <<>> /\ records' \in {Front(built), Tail(built)}
               /\ warnings' = {"kObserveTraceMalformedLines"}
        <3>1. Front(built) \in Seq(Commands) /\ Tail(built) \in Seq(Commands)
            BY <1>1, <2>2, FrontIs, HeadTailProperties
        <3> QED BY <1>1, <1>4, <2>2, <3>1 DEF Recorded, TraceIsRead
    <2> QED BY <1>4, <2>1, <2>2 DEF TraceIsRead
<1>5. ASSUME Trim \/ CommandFails \/ FinishBinscan PROVE Recorded'
    BY <1>1, <1>5 DEF Recorded, Trim, CommandFails, FinishBinscan, Ends
<1>6. ASSUME StartBinscan PROVE Recorded'
    BY <1>6, EmptySeq DEF Recorded, StartBinscan
<1>7. ASSUME NEW holds, NEW kind, NEW record, NEW counted, Opened(holds, kind, record, counted) PROVE Recorded'
    <2>1. stage' # "built" /\ built' = built /\ records' = records
        BY <1>7 DEF Opened
    <2> QED BY <1>1, <2>1 DEF Recorded
<1>8. ASSUME OpenUnreadable \/ OpenUnrecognized PROVE Recorded'
    BY <1>7, <1>8 DEF OpenUnreadable, OpenUnrecognized
<1>9. ASSUME NEW image \in Images, OpenElf(image) PROVE Recorded'
    BY <1>7, <1>9 DEF OpenElf
<1>10. ASSUME NEW archive \in Archives, OpenArchive(archive) PROVE Recorded'
    BY <1>7, <1>10 DEF OpenArchive
<1>11. UNION ({Words[t] : t \in DOMAIN Words} \cup {Accepts[o] : o \in DOMAIN Accepts}) \subseteq AllWords
    BY DEF AllWords
<1> QED BY <1>2, <1>3, <1>4, <1>5, <1>6, <1>8, <1>9, <1>10, <1>11 DEF EvidenceNext

\* A name goes to a root with a file that answers to it (root_for_soname).
LEMMA OwnerHasTheFile ==
    ASSUME disk \in {Disk, {}}, NEW s, NEW root \in root_for_soname(s)
    PROVE  \E p \in disk : IsPrefix(root, p) /\ LastOf(p) \in {s} \cup {BaseName[b] : b \in {s} \cap DOMAIN BaseName}
<1> DEFINE names == {s} \cup {BaseName[b] : b \in {s} \cap DOMAIN BaseName}
<1>1. \E name \in names : \E p \in disk : LastOf(p) = name /\ root \in longest_enclosing_root(p)
    BY DEF root_for_soname
<1>2. PICK p \in disk : LastOf(p) \in names /\ root \in longest_enclosing_root(p)
    BY <1>1
<1>3. p \in Seq(STRING) /\ root \in Roots /\ IsPrefix(root, Front(p))
    BY <1>2, DiskAssumption DEF longest_enclosing_root, enclosing_root
<1>4. PICK front : front = Front(p) /\ front \in Seq(STRING)
          /\ Len(front) = (IF Len(p) = 0 THEN 0 ELSE Len(p) - 1)
          /\ \A i \in 1 .. Len(p) - 1 : front[i] = p[i]
    BY <1>3, FrontIs
<1>5. root \in Seq(STRING)
    BY <1>3, RootsAssumption
<1>6. Len(root) <= Len(front) /\ \A i \in 1 .. Len(root) : root[i] = front[i]
    BY <1>3, <1>4, <1>5, PrefixIs
<1>7. Len(root) \in Nat /\ Len(p) \in Nat
    BY <1>3, <1>5, LenProperties
<1>8. Len(root) <= Len(p) /\ \A i \in 1 .. Len(root) : root[i] = p[i]
    <2>1. Len(root) <= Len(p) /\ \A i \in 1 .. Len(root) : i \in 1 .. Len(p) - 1
        BY <1>4, <1>6, <1>7
    <2> QED BY <1>4, <1>6, <2>1
<1>9. IsPrefix(root, p)
    BY <1>3, <1>5, <1>8, IsPrefixOf
<1> QED BY <1>2, <1>9

LEMMA TypesStay ==
    ASSUME EvidenceTypeOK, EvidenceNext
    PROVE  EvidenceTypeOK'
<1> USE DEF EvidenceTypeOK
<1>1. ASSUME NEW tool \in DOMAIN Words, Command(tool) PROVE EvidenceTypeOK'
    BY <1>1 DEF Command, trim_vars, binscan_vars
<1>2. ASSUME NEW word, Argument(word) PROVE EvidenceTypeOK'
    BY <1>2 DEF Argument, trim_vars, binscan_vars
<1>3. ASSUME TraceIsRead PROVE EvidenceTypeOK'
    BY <1>3 DEF TraceIsRead, trim_vars, binscan_vars
<1>4. ASSUME Trim PROVE EvidenceTypeOK'
    <2>1. DOMAIN usage' = Roots
        BY <1>4 DEF Trim, mark_used_in_build
    <2> QED BY <1>4, <2>1 DEF Trim, Ends, binscan_vars
<1>5. ASSUME CommandFails PROVE EvidenceTypeOK'
    BY <1>5 DEF CommandFails, Ends, trim_vars, binscan_vars
<1>6. ASSUME StartBinscan PROVE EvidenceTypeOK'
    BY <1>6 DEF StartBinscan, trim_vars
<1>7. ASSUME FinishBinscan PROVE EvidenceTypeOK'
    BY <1>7 DEF FinishBinscan, Ends, trim_vars, binscan_vars
<1>8. ASSUME NEW holds, NEW kind, NEW record, NEW counted, Opened(holds, kind, record, counted), DOMAIN evidence' = Roots
      PROVE  EvidenceTypeOK'
    BY <1>8 DEF Opened, trim_vars
<1>9. ASSUME OpenUnreadable \/ OpenUnrecognized PROVE EvidenceTypeOK'
    BY <1>8, <1>9 DEF OpenUnreadable, OpenUnrecognized
<1>10. ASSUME NEW image \in Images, OpenElf(image) PROVE EvidenceTypeOK'
    <2>1. DOMAIN evidence' = Roots
        BY <1>10 DEF OpenElf
    <2> QED BY <1>8, <1>10, <2>1 DEF OpenElf
<1>11. ASSUME NEW archive \in Archives, OpenArchive(archive) PROVE EvidenceTypeOK'
    <2>1. DOMAIN evidence' = Roots
        BY <1>11 DEF OpenArchive
    <2> QED BY <1>8, <1>11, <2>1 DEF OpenArchive
<1> QED BY <1>1, <1>2, <1>3, <1>4, <1>5, <1>6, <1>7, <1>9, <1>10, <1>11 DEF EvidenceNext

\* Only the trimmed document judges a component, at the end of its command.
LEMMA JudgesOnce ==
    ASSUME EvidenceInv, EvidenceNext
    PROVE  Unjudged' /\ Judged'
<1>1. EvidenceTypeOK'
    BY TypesStay DEF EvidenceInv
<1>2. Trim \/ (stage # "done" /\ usage' = usage)
    <2>1. ASSUME NEW holds, NEW kind, NEW record, NEW counted, Opened(holds, kind, record, counted)
          PROVE  stage # "done" /\ usage' = usage
        BY <2>1 DEF Opened, trim_vars
    <2>2. ASSUME NEW tool, Command(tool) PROVE stage # "done" /\ usage' = usage
        BY <2>2 DEF Command, trim_vars
    <2>3. ASSUME NEW word, Argument(word) PROVE stage # "done" /\ usage' = usage
        BY <2>3 DEF Argument, trim_vars
    <2>4. ASSUME TraceIsRead \/ CommandFails \/ StartBinscan \/ FinishBinscan PROVE stage # "done" /\ usage' = usage
        BY <2>4 DEF TraceIsRead, CommandFails, StartBinscan, FinishBinscan, trim_vars
    <2>5. ASSUME NEW image, OpenElf(image) PROVE stage # "done" /\ usage' = usage
        BY <2>1, <2>5 DEF OpenElf
    <2>6. ASSUME NEW archive, OpenArchive(archive) PROVE stage # "done" /\ usage' = usage
        BY <2>1, <2>6 DEF OpenArchive
    <2>7. ASSUME OpenUnreadable \/ OpenUnrecognized PROVE stage # "done" /\ usage' = usage
        BY <2>1, <2>7 DEF OpenUnreadable, OpenUnrecognized
    <2> QED BY <2>2, <2>3, <2>4, <2>5, <2>6, <2>7 DEF EvidenceNext
<1>3. CASE Trim
    <2>1. stage' = "done"
        BY <1>3 DEF Trim, Ends
    <2> QED BY <1>3, <2>1, TrimJudges DEF Unjudged
<1>4. CASE stage # "done" /\ usage' = usage
    <2>1. \A root \in Roots : usage'[root] = "unjudged"
        BY <1>4 DEF EvidenceInv, Unjudged
    <2>2. Unjudged'
        BY <1>4 DEF EvidenceInv, Unjudged
    <2>3. Judged'
        BY <2>1 DEF Judged, UsedIsObserved, NothingUsedIsDropped
    <2> QED BY <2>2, <2>3
<1> QED BY <1>2, <1>3, <1>4

\* The evidence of a root, and what is said of the names in it.
RootRecord(said) == \E E, N, M, S : said \in [entry : E, needed : N, members : M, shared : S]
Owned(root, names, files) ==
    \A s \in names : \E p \in files : IsPrefix(root, p) /\ LastOf(p) \in {s} \cup {BaseName[b] : b \in {s} \cap DOMAIN BaseName}

SetsNames(after, said, entry, needed, shared) ==
    after = [said EXCEPT !.entry = entry, !.needed = needed, !.shared = shared]
SetsMembers(after, said, entry, members) == after = [said EXCEPT !.entry = entry, !.members = members]

LEMMA RootRecordChanges ==
    ASSUME NEW said, RootRecord(said), NEW entry, NEW needed, NEW members, NEW shared, NEW after
    PROVE  /\ SetsNames(after, said, entry, needed, shared) => RootRecord(after) /\ after.needed = needed
           /\ SetsMembers(after, said, entry, members) => RootRecord(after) /\ after.needed = said.needed
<1>1. PICK E, N, M, S : said \in [entry : E, needed : N, members : M, shared : S]
    BY DEF RootRecord
<1>2. PICK E2, N2, M2, S2 : /\ E2 = E \cup {entry} /\ N2 = N \cup {needed}
                            /\ M2 = M \cup {members} /\ S2 = S \cup {shared}
    OBVIOUS
<1>3. said \in [entry : E2, needed : N2, members : M2, shared : S2]
    BY <1>1, <1>2
<1>4. entry \in E2 /\ needed \in N2 /\ members \in M2 /\ shared \in S2
    BY <1>2
<1>5. [said EXCEPT !.entry = entry, !.needed = needed, !.shared = shared] \in [entry : E2, needed : N2, members : M2, shared : S2]
    BY <1>3, <1>4
<1>6. [said EXCEPT !.entry = entry, !.members = members] \in [entry : E2, needed : N2, members : M2, shared : S2]
    BY <1>3, <1>4
<1>7. [said EXCEPT !.entry = entry, !.needed = needed, !.shared = shared].needed = needed
    BY <1>3
<1>8. [said EXCEPT !.entry = entry, !.members = members].needed = said.needed
    BY <1>3
<1> QED BY <1>5, <1>6, <1>7, <1>8 DEF RootRecord, SetsNames, SetsMembers

\* Opening an artifact only adds what was read of it.
LEMMA EvidenceGrows ==
    ASSUME EvidenceInv, EvidenceNext
    PROVE  Evident'
<1>1. /\ disk \in {Disk, {}}
      /\ stage = "building" => evidence = [root \in Roots |-> Nothing]
      /\ artifact.kind = "elf" => Names(artifact.record, artifact.holds)
      /\ \A root \in Roots : RootRecord(evidence[root]) /\ Owned(root, evidence[root].needed, disk)
    BY DEF EvidenceInv, EvidenceTypeOK, Evident, RootRecord, Owned
<1>2. ASSUME /\ stage' = "building" => evidence' = [root \in Roots |-> Nothing]
             /\ artifact'.kind = "elf" => Names(artifact'.record, artifact'.holds)
             /\ \A root \in Roots : RootRecord(evidence'[root]) /\ Owned(root, evidence'[root].needed, disk')
      PROVE  Evident'
    BY <1>2 DEF Evident, RootRecord, Owned, Names, Nothing, Declared, NamesIn, StringTables
<1>3. ASSUME stage' = "building" => stage = "building", artifact' = artifact, evidence' = evidence, disk' = disk
      PROVE  Evident'
    BY <1>1, <1>2, <1>3
<1>4. CASE TraceIsRead
    <2>1. stage' # "building" /\ artifact' = artifact /\ evidence' = [root \in Roots |-> Nothing]
        BY <1>1, <1>4 DEF TraceIsRead, binscan_vars
    <2>2. RootRecord(Nothing) /\ Nothing.needed = {}
        <3>1. Nothing \in [entry : BOOLEAN, needed : {{}}, members : BOOLEAN, shared : BOOLEAN]
            BY DEF Nothing
        <3> QED BY <3>1 DEF RootRecord
    <2>3. \A root, files : Owned(root, {}, files)
        BY DEF Owned
    <2> QED BY <1>1, <1>2, <2>1, <2>2, <2>3
<1>5. ASSUME NEW tool, Command(tool) PROVE Evident'
    BY <1>3, <1>5 DEF Command, binscan_vars
<1>6. ASSUME NEW word, Argument(word) PROVE Evident'
    BY <1>3, <1>6 DEF Argument, binscan_vars
<1>7. CASE Trim \/ CommandFails \/ FinishBinscan
    BY <1>3, <1>7 DEF Trim, CommandFails, FinishBinscan, Ends, binscan_vars
<1>8. CASE StartBinscan
    BY <1>3, <1>8 DEF StartBinscan
<1>9. ASSUME NEW holds, NEW kind, NEW record, NEW counted, Opened(holds, kind, record, counted)
      PROVE  stage' # "building" /\ disk' = disk /\ artifact' = [holds |-> holds, kind |-> kind, record |-> record]
    BY <1>9 DEF Opened
<1>10. CASE OpenUnreadable \/ OpenUnrecognized
    <2>1. PICK kind : /\ stage' # "building" /\ disk' = disk /\ evidence' = evidence /\ kind # "elf"
                      /\ artifact' = [holds |-> <<>>, kind |-> kind, record |-> <<>>]
        <3>1. CASE OpenUnreadable
            BY <1>9, <3>1 DEF OpenUnreadable
        <3>2. CASE OpenUnrecognized
            BY <1>9, <3>2 DEF OpenUnrecognized
        <3> QED BY <1>10, <3>1, <3>2
    <2>2. artifact'.kind # "elf"
        BY <2>1
    <2> QED BY <1>1, <1>2, <2>1, <2>2
<1>11. ASSUME NEW image \in Images, OpenElf(image) PROVE Evident'
    <2> DEFINE elf == read_elf(image)
               dynamic == elf.shape = "Dynamic"
               Named(root) == {s \in elf.needed : root \in root_for_soname(s)}
               Holder(root) == dynamic /\ root \in longest_enclosing_root(Head(queue))
    <2>1. /\ stage' # "building" /\ disk' = disk
          /\ artifact' = [holds |-> image, kind |-> "elf", record |-> elf]
        <3>1. PICK counted : Opened(image, "elf", elf, counted)
            BY <1>11 DEF OpenElf
        <3> QED BY <1>9, <3>1
    <2>2. Names(artifact'.record, artifact'.holds)
        <3>1. Names(elf, image)
            BY FormatsAssumption, ElfIs
        <3> QED BY <2>1, <3>1
    <2>3. evidence' = [root \in Roots |->
              [evidence[root] EXCEPT !.entry = evidence[root].entry \/ Named(root) # {} \/ Holder(root),
                                     !.needed = evidence[root].needed \cup Named(root),
                                     !.shared = evidence[root].shared \/ Holder(root)]]
        BY <1>11 DEF OpenElf
    <2>4. ASSUME NEW root \in Roots PROVE Owned(root, Named(root), disk)
        BY <1>1, OwnerHasTheFile DEF Owned
    <2> HIDE DEF Named, Holder, elf, dynamic
    <2>5. ASSUME NEW root \in Roots PROVE RootRecord(evidence'[root]) /\ Owned(root, evidence'[root].needed, disk')
        <3>1. PICK e, n, s : /\ n = evidence[root].needed \cup Named(root)
                             /\ e = (evidence[root].entry \/ Named(root) # {} \/ Holder(root))
                             /\ s = (evidence[root].shared \/ Holder(root))
            OBVIOUS
        <3>2. evidence'[root] = [evidence[root] EXCEPT !.entry = e, !.needed = n, !.shared = s]
            BY <2>3, <3>1
        <3>3. PICK before, after : before = evidence[root] /\ after = evidence'[root]
            OBVIOUS
        <3>5. SetsNames(after, before, e, n, s)
            BY <3>2, <3>3 DEF SetsNames
        <3>6. RootRecord(after) /\ after.needed = n
            BY <1>1, <3>3, <3>5, RootRecordChanges
        <3>4. Owned(root, n, disk)
            BY <1>1, <2>4, <3>1 DEF Owned
        <3> QED BY <2>1, <3>3, <3>4, <3>6
    <2> QED BY <1>2, <2>1, <2>2, <2>5
<1>12. ASSUME NEW archive \in Archives, OpenArchive(archive) PROVE Evident'
    <2> DEFINE contents == read_archive(archive)
    <2>1. /\ stage' # "building" /\ disk' = disk
          /\ artifact' = [holds |-> archive, kind |-> "archive", record |-> contents]
        BY <1>9, <1>12 DEF OpenArchive
    <2>2. evidence' = [root \in Roots |->
              IF root \in longest_enclosing_root(Head(queue))
              THEN [evidence[root] EXCEPT !.entry = TRUE, !.members = evidence[root].members \/ contents.members # {}]
              ELSE evidence[root]]
        BY <1>12 DEF OpenArchive
    <2> HIDE DEF contents
    <2>3. ASSUME NEW root \in Roots PROVE RootRecord(evidence'[root]) /\ Owned(root, evidence'[root].needed, disk')
        <3>1. PICK m, yes : m = (evidence[root].members \/ contents.members # {}) /\ yes = TRUE
            OBVIOUS
        <3>2. \/ evidence'[root] = [evidence[root] EXCEPT !.entry = yes, !.members = m]
              \/ evidence'[root] = evidence[root]
            BY <2>2, <3>1
        <3>3. PICK before, after : before = evidence[root] /\ after = evidence'[root]
            OBVIOUS
        <3>4. SetsMembers(after, before, yes, m) \/ after = before
            BY <3>2, <3>3 DEF SetsMembers
        <3>5. RootRecord(after) /\ after.needed = before.needed
            BY <1>1, <3>3, <3>4, RootRecordChanges
        <3> QED BY <1>1, <2>1, <3>3, <3>5
    <2>4. artifact'.kind # "elf"
        BY <2>1
    <2> QED BY <1>2, <2>1, <2>3, <2>4
<1> QED BY <1>4, <1>5, <1>6, <1>7, <1>8, <1>10, <1>11, <1>12 DEF EvidenceNext

LEMMA EvidenceStarts == EvidenceInit => EvidenceInv
<1> SUFFICES ASSUME EvidenceInit PROVE EvidenceInv
    OBVIOUS
<1> USE DEF EvidenceInit
<1>1. EvidenceTypeOK
    BY DEF EvidenceTypeOK
<1>2. Recorded
    BY EmptySeq DEF Recorded
<1>3. Unjudged
    BY DEF Unjudged
<1>4. Judged
    BY DEF Judged, UsedIsObserved, NothingUsedIsDropped
<1>5. Evident
    <2>1. Nothing \in [entry : BOOLEAN, needed : {{}}, members : BOOLEAN, shared : BOOLEAN] /\ Nothing.needed = {}
        BY DEF Nothing
    <2>2. artifact.kind # "elf"
        BY DEF NoArtifact
    <2>3. \A root \in Roots : evidence[root] = Nothing
        OBVIOUS
    <2>4. evidence = [root \in Roots |-> Nothing]
        OBVIOUS
    <2> HIDE DEF EvidenceInit
    <2> QED BY <2>1, <2>2, <2>3, <2>4 DEF Evident
<1> QED BY <1>1, <1>2, <1>3, <1>4, <1>5 DEF EvidenceInv

LEMMA EvidenceInductive == EvidenceInv /\ [EvidenceNext]_evidence_vars => EvidenceInv'
<1>1. ASSUME EvidenceInv, EvidenceNext PROVE EvidenceInv'
    <2>1. EvidenceTypeOK'
        BY <1>1, TypesStay DEF EvidenceInv
    <2>2. Recorded' /\ Unjudged' /\ Judged' /\ Evident'
        BY <1>1, SomeRecords, JudgesOnce, EvidenceGrows
    <2> QED BY <2>1, <2>2 DEF EvidenceInv
<1>2. ASSUME EvidenceInv, UNCHANGED evidence_vars PROVE EvidenceInv'
    <2>1. /\ built' = built /\ records' = records /\ stage' = stage /\ disk' = disk /\ warnings' = warnings
          /\ exit_code' = exit_code /\ usage' = usage /\ artifact' = artifact /\ evidence' = evidence
        BY <1>2 DEF evidence_vars, trim_vars, binscan_vars
    <2>2. EvidenceTypeOK' /\ Recorded' /\ Unjudged'
        BY <1>2, <2>1 DEF EvidenceInv, EvidenceTypeOK, Recorded, Unjudged
    <2>3. Judged'
        BY <1>2, <2>1 DEF EvidenceInv, Judged, UsedIsObserved, NothingUsedIsDropped, Did
    <2>4. Evident'
        <3>1. Evident
            BY <1>2 DEF EvidenceInv
        <3>2. artifact'.kind = "elf" => Names(artifact'.record, artifact'.holds)
            BY <2>1, <3>1 DEF Evident
        <3>3. \A root \in Roots : RootRecord(evidence'[root]) /\ Owned(root, evidence'[root].needed, disk')
            BY <2>1, <3>1 DEF Evident, RootRecord, Owned
        <3>4. stage' = "building" => evidence' = [root \in Roots |-> Nothing]
            BY <2>1, <3>1 DEF Evident
        <3> QED BY <3>2, <3>3, <3>4 DEF Evident, RootRecord, Owned, Names, Nothing, Declared, NamesIn, StringTables
    <2> QED BY <2>2, <2>3, <2>4 DEF EvidenceInv
<1> QED BY <1>1, <1>2

LEMMA EvidenceInvariant == EvidenceSpec => []EvidenceInv
<1> QED BY EvidenceStarts, EvidenceInductive, PTL DEF EvidenceSpec

\* The stages of run_trim and run_binscan, and the exit code only the last of them has.
THEOREM EvidenceTypeCorrect == EvidenceSpec => []EvidenceTypeOK
<1>1. EvidenceInv => EvidenceTypeOK
    BY DEF EvidenceInv
<1> QED BY <1>1, EvidenceInvariant, PTL

\* Whatever the build typed, left of its trace and of its tree: each usage the trimmed
\* document claims (mark_used_in_build) has a command in the trace that compiled,
\* linked or searched there. No value of an option is ever taken for a source.
THEOREM EveryUsageWasObserved == EvidenceSpec => []UsedIsObserved
<1>1. EvidenceInv => UsedIsObserved
    BY DEF EvidenceInv, Judged
<1> QED BY <1>1, EvidenceInvariant, PTL

\* A trim that ends clean has dropped no component that the build compiled, linked or
\* searched for headers (run_trim, after map_compiles_to_roots and map_links_to_roots).
THEOREM OnlyTheUnusedIsDropped == EvidenceSpec => []NothingUsedIsDropped
<1>1. EvidenceInv => NothingUsedIsDropped
    BY DEF EvidenceInv, Judged
<1> QED BY <1>1, EvidenceInvariant, PTL

\* The binary scan names only what stands at the positions an image declares, in a table
\* the image calls its string table; all that is readable there, unless it says otherwise
\* or the table is not the one the image was linked with. It gives a name only to a
\* component that has such a file (read_elf, resolve_string_table, walk_dynamic_array,
\* root_for_soname).
THEOREM OnlyDeclaredNames == EvidenceSpec => []NamesAreDeclared
<1>1. EvidenceInv => NamesAreDeclared
    <2> SUFFICES ASSUME EvidenceInv PROVE NamesAreDeclared
        OBVIOUS
    <2>1. Evident
        BY DEF EvidenceInv
    <2> QED BY <2>1 DEF Evident, NamesAreDeclared, Names
<1> QED BY <1>1, EvidenceInvariant, PTL

==============================================================================
