----------------------------- MODULE ObserveTrace -----------------------------
(***************************************************************************)
(* The build trace of `bomwerk observe`: every compiler, linker or archiver *)
(* the build runs is a shim (src/src/observe/shim_main.cpp) that appends one *)
(* JSON line to the trace under flock and then execs the real tool; when the *)
(* build command has ended, the observer (src/src/cli/observe_command.cpp)   *)
(* validates the trace and replaces it by a sorted one. Shims run             *)
(* concurrently, may be killed anywhere, and may outlive the build command.   *)
(*                                                                            *)
(* A line is LineLength pieces, the last one its newline; a write() of the    *)
(* shim appends one piece or several. An invocation is one shim process and   *)
(* the number stands for its line's place in the canonical order.             *)
(***************************************************************************)
EXTENDS Integers, FiniteSets, Sequences

CONSTANTS
    MaxInvocations,     \* bound of the shim processes of one build
    LineLength,         \* pieces of a line, the newline included
    MaxTraceLines,      \* kMaxTraceLines
    FlushFails          \* TRUE when the disk may be full while a file is being closed

ASSUME InvocationsAssumption == MaxInvocations \in Nat
ASSUME LineLengthAssumption == LineLength \in Nat \ {0, 1}
ASSUME MaxTraceLinesAssumption == MaxTraceLines \in Nat
ASSUME FlushFailsAssumption == FlushFails \in BOOLEAN

VARIABLES
    content,        \* the pieces in each of the two files
    trace_path,     \* the file the trace path names: "recorded", then maybe "sorted"
    lock,           \* the shim that holds the flock on each file, 0 when free
    flock_works,    \* FALSE on a file system where flock always fails
    phase,          \* what each shim is doing
    file,           \* the file each shim has opened
    written,        \* the pieces each shim has written (written_bytes)
    pc,             \* where the observer is
    build,          \* how the build command ended
    read,           \* well_formed_lines
    unwritten,      \* those that rewrite_trace has yet to write
    malformed,      \* malformed_lines
    warned,         \* whether validate_and_sort_trace has warned
    exit,           \* the exit code of the observer, "none" while it runs
    \* For the properties.
    appended,       \* the shims whose append_trace_line returned true
    interrupted,    \* the shims that left a part of a line behind
    in_time         \* the shims in appended when the observer read the trace

shims == <<lock, phase, file, written, appended, interrupted>>
observer == <<pc, build, read, unwritten, malformed, warned, exit, in_time>>
vars == <<content, trace_path, flock_works, shims, observer>>

Invocations == 1 .. MaxInvocations
Files == {"recorded", "sorted"}

------------------------------------------------------------------------------
(* Lines and pieces. *)

Piece(i, n) == <<i, n>>
IsNewline(piece) == piece[2] = LineLength
Line(i) == [n \in 1 .. LineLength |-> Piece(i, n)]

\* Position k begins a line: getline stopped right before it.
StartsLine(pieces, k) == k = 1 \/ IsNewline(pieces[k - 1])

\* A line that is the record of invocation i and nothing else, up to a newline
\* or the end of the file.
HasRecord(pieces, i) ==
    \E k \in 1 .. Len(pieces) :
        LET last == k + LineLength - 2 IN
        /\ StartsLine(pieces, k)
        /\ last <= Len(pieces)
        /\ \A n \in 1 .. LineLength - 1 : pieces[k + n - 1] = Piece(i, n)
        /\ last = Len(pieces) \/ IsNewline(pieces[last + 1])

\* The lines is_trace_record accepts. Each invocation writes at most one.
Records(pieces) == {i \in Invocations : HasRecord(pieces, i)}

\* The non-empty lines getline returns.
LinesIn(pieces) ==
    Cardinality({k \in 1 .. Len(pieces) : StartsLine(pieces, k) /\ ~IsNewline(pieces[k])})

\* What read_trace gives the trim commands: it stops at its line budget.
Loaded(pieces) ==
    {i \in Records(pieces) :
        Cardinality({j \in Records(pieces) :
            \E k, l \in 1 .. Len(pieces) :
                k < l /\ pieces[k] = Piece(j, 1) /\ pieces[l] = Piece(i, 1)}) < MaxTraceLines}

------------------------------------------------------------------------------
Init ==
    /\ content = [f \in Files |-> <<>>]
    /\ trace_path = "recorded"
    /\ lock = [f \in Files |-> 0]
    /\ flock_works \in BOOLEAN
    /\ phase = [i \in Invocations |-> "not started"]
    /\ file = [i \in Invocations |-> "recorded"]
    /\ written = [i \in Invocations |-> 0]
    /\ pc = "ready" /\ build = "none"
    /\ read = {} /\ unwritten = {} /\ malformed = 0
    /\ warned = FALSE /\ exit = "none"
    /\ appended = {} /\ interrupted = {} /\ in_time = {}

------------------------------------------------------------------------------
(* A shim: append_trace_line, then execv ("exec"). *)

Goes(i, from, to) == phase[i] = from /\ phase' = [phase EXCEPT ![i] = to]

\* The build, or what it left running, invokes a tool, and its shim opens the trace.
Open(i) ==
    /\ pc # "ready"
    /\ Goes(i, "not started", "opened")
    /\ file' = [file EXCEPT ![i] = trace_path]
    /\ UNCHANGED <<content, trace_path, flock_works, lock, written, appended, interrupted, observer>>

\* The trace cannot be opened: the invocation goes unrecorded.
OpenFails(i) ==
    /\ pc # "ready"
    /\ Goes(i, "not started", "exec")
    /\ UNCHANGED <<content, trace_path, flock_works, lock, file, written, appended, interrupted, observer>>

\* Variant for mutation: bare O_APPEND, the lock is not waited for.
LockTakenAnyway(i) ==
    /\ Goes(i, "opened", "locked")
    /\ lock' = [lock EXCEPT ![file[i]] = i]
    /\ UNCHANGED <<content, trace_path, flock_works, file, written, appended, interrupted, observer>>

Lock(i) ==
    /\ flock_works
    /\ Goes(i, "opened", "locked")
    /\ lock[file[i]] = 0
    /\ lock' = [lock EXCEPT ![file[i]] = i]
    /\ UNCHANGED <<content, trace_path, flock_works, file, written, appended, interrupted, observer>>

\* Variant for mutation: flock is retried after every error, not only EINTR.
LockFailsRetries(i) ==
    /\ ~flock_works /\ phase[i] = "opened"
    /\ UNCHANGED vars

LockFails(i) ==
    /\ ~flock_works
    /\ Goes(i, "opened", "exec")
    /\ UNCHANGED <<content, trace_path, flock_works, lock, file, written, appended, interrupted, observer>>

\* One write(): it may be short, and write_fully goes on from there.
Write(i) ==
    /\ phase[i] = "locked" /\ written[i] < LineLength
    /\ content' = [content EXCEPT ![file[i]] = Append(@, Piece(i, written[i] + 1))]
    /\ written' = [written EXCEPT ![i] = @ + 1]
    /\ UNCHANGED <<trace_path, flock_works, lock, phase, file, appended, interrupted, observer>>

Release(i) == lock' = [f \in Files |-> IF lock[f] = i THEN 0 ELSE lock[f]]

LeavesPart(i) == written[i] \in 1 .. LineLength - 1

\* write_fully returns, true after the whole line, false after an error; the
\* lock is released, the file closed, and execv called, which hands the process to
\* the real tool or ends it with status 127.
Unlock(i) ==
    /\ Goes(i, "locked", "exec")
    /\ Release(i)
    /\ appended' = IF written[i] = LineLength THEN appended \cup {i} ELSE appended
    /\ interrupted' = IF LeavesPart(i) THEN interrupted \cup {i} ELSE interrupted
    /\ UNCHANGED <<content, trace_path, flock_works, file, written, observer>>

\* The shim is killed; the kernel drops its lock.
KillShim(i) ==
    /\ phase[i] \in {"opened", "locked"}
    /\ phase' = [phase EXCEPT ![i] = "killed"]
    /\ Release(i)
    /\ interrupted' = IF LeavesPart(i) THEN interrupted \cup {i} ELSE interrupted
    /\ UNCHANGED <<content, trace_path, flock_works, file, written, appended, observer>>

------------------------------------------------------------------------------
(* The observer. *)

Finish(code) == pc' = "done" /\ exit' = code

\* posix_spawnp fails, or waitpid loses track of the build: the trace is left as it is.
RunFails ==
    /\ pc \in {"ready", "building"}
    /\ Finish("incomplete")
    /\ UNCHANGED <<content, trace_path, flock_works, shims, build, read, unwritten, malformed, warned, in_time>>

Spawn ==
    /\ pc = "ready"
    /\ pc' = "building"
    /\ UNCHANGED <<content, trace_path, flock_works, shims, build, read, unwritten, malformed, warned, exit, in_time>>

\* waitpid returns: the build command exited 0, or failed or was killed; what it
\* started may still run.
BuildEnds ==
    /\ pc = "building"
    /\ build' \in {"exited 0", "failed"}
    /\ pc' = "built"
    /\ UNCHANGED <<content, trace_path, flock_works, shims, read, unwritten, malformed, warned, exit, in_time>>

\* The trace cannot be opened for reading.
ReadFails ==
    /\ pc = "built"
    /\ warned' = TRUE
    /\ pc' = "report"
    /\ UNCHANGED <<content, trace_path, flock_works, shims, build, read, unwritten, malformed, exit, in_time>>

\* Variant for mutation: malformed lines are dropped without a warning.
ReadTraceSilently ==
    LET pieces == content[trace_path] IN
    /\ pc = "built"
    /\ read' = Records(pieces) /\ unwritten' = read'
    /\ malformed' = LinesIn(pieces) - Cardinality(Records(pieces))
    /\ warned' = (Cardinality(read') > MaxTraceLines)
    /\ pc' = IF Cardinality(read') > MaxTraceLines THEN "report" ELSE "rewrite"
    /\ in_time' = appended
    /\ UNCHANGED <<content, trace_path, flock_works, shims, build, exit>>

\* The reading loop of validate_and_sort_trace. No lock is taken, but the file
\* only grows, so the lines read are those it holds when end-of-file is met.
ReadTrace ==
    LET pieces == content[trace_path] IN
    /\ pc = "built"
    /\ read' = Records(pieces) /\ unwritten' = read'
    /\ malformed' = LinesIn(pieces) - Cardinality(Records(pieces))
    /\ warned' = (malformed' > 0 \/ Cardinality(read') > MaxTraceLines)
    /\ pc' = IF Cardinality(read') > MaxTraceLines THEN "report" ELSE "rewrite"
    /\ in_time' = appended
    /\ UNCHANGED <<content, trace_path, flock_works, shims, build, exit>>

\* rewrite_trace writes the lines to a temporary file in canonical order.
WriteLine ==
    /\ pc = "rewrite"
    /\ \E i \in unwritten :
          /\ \A j \in unwritten : i <= j
          /\ content' = [content EXCEPT !["sorted"] = @ \o Line(i)]
          /\ unwritten' = unwritten \ {i}
    /\ UNCHANGED <<trace_path, flock_works, shims, pc, build, read, malformed, warned, exit, in_time>>

\* What the temporary file may be left with: the next line is there in part, or not
\* at all.
Flushed ==
    {content["sorted"]} \cup
        {content["sorted"] \o SubSeq(Line(i), 1, n) :
            i \in {j \in unwritten : \A k \in unwritten : j <= k}, n \in 1 .. LineLength - 1}

\* The stream reports no error, and is closed. What it still holds in its buffer is
\* flushed by its destructor, whose failure nobody sees.
CloseSorted ==
    /\ pc = "rewrite"
    /\ unwritten # {} => FlushFails
    /\ \E pieces \in Flushed : content' = [content EXCEPT !["sorted"] = pieces]
    /\ pc' = "rename"
    /\ UNCHANGED <<trace_path, flock_works, shims, build, read, unwritten, malformed, warned, exit, in_time>>

\* Variant for mutation: the trace is rewritten in place.
WriteSortedInPlaceFails ==
    /\ pc = "rewrite"
    /\ content' = [content EXCEPT ![trace_path] = content["sorted"]]
    /\ warned' = TRUE
    /\ pc' = "report"
    /\ UNCHANGED <<trace_path, flock_works, shims, build, read, unwritten, malformed, exit, in_time>>

\* The temporary file cannot be written, or not in full; it may stay behind.
WriteSortedFails ==
    /\ pc = "rewrite"
    /\ \E pieces \in Flushed : content' = [content EXCEPT !["sorted"] = pieces]
    /\ warned' = TRUE
    /\ pc' = "report"
    /\ UNCHANGED <<trace_path, flock_works, shims, build, read, unwritten, malformed, exit, in_time>>

Rename ==
    /\ pc = "rename"
    /\ trace_path' = "sorted"
    /\ pc' = "report"
    /\ UNCHANGED <<content, flock_works, shims, build, read, unwritten, malformed, warned, exit, in_time>>

\* rename fails: the temporary file is removed.
RenameFails ==
    /\ pc = "rename"
    /\ content' = [content EXCEPT !["sorted"] = <<>>]
    /\ warned' = TRUE
    /\ pc' = "report"
    /\ UNCHANGED <<trace_path, flock_works, shims, build, read, unwritten, malformed, exit, in_time>>

\* The exit code: a build that failed is an incomplete observation; a warning, or
\* a trace without one usable line, is a warning. The preparation of the shim
\* directory may have warned as well.
Report ==
    /\ pc = "report"
    /\ \E prepare_warned \in BOOLEAN :
          Finish(CASE build # "exited 0" -> "incomplete"
                   [] build = "exited 0" /\ (warned \/ read = {} \/ prepare_warned) -> "warnings"
                   [] OTHER -> "clean")
    /\ UNCHANGED <<content, trace_path, flock_works, shims, build, read, unwritten, malformed, warned, in_time>>

KillObserver ==
    /\ pc \notin {"done", "dead"}
    /\ pc' = "dead"
    /\ UNCHANGED <<content, trace_path, flock_works, shims, build, read, unwritten, malformed, warned, exit, in_time>>

ObserverStep ==
    \/ RunFails \/ Spawn \/ BuildEnds \/ ReadFails \/ ReadTrace
    \/ WriteLine \/ CloseSorted \/ WriteSortedFails \/ Rename \/ RenameFails \/ Report

ShimStep(i) == Lock(i) \/ LockFails(i) \/ Write(i) \/ Unlock(i)

Next ==
    \/ ObserverStep \/ KillObserver
    \/ \E i \in Invocations : Open(i) \/ OpenFails(i) \/ ShimStep(i) \/ KillShim(i)

Spec == Init /\ [][Next]_vars

\* The scheduler runs every shim that can run.
FairSpec == Spec /\ \A i \in Invocations : WF_vars(ShimStep(i))

------------------------------------------------------------------------------
TypeOK ==
    /\ content \in [Files -> Seq(Invocations \X (1 .. LineLength))]
    /\ trace_path \in Files /\ flock_works \in BOOLEAN /\ warned \in BOOLEAN
    /\ lock \in [Files -> 0 .. MaxInvocations]
    /\ phase \in [Invocations -> {"not started", "opened", "locked", "exec", "killed"}]
    /\ file \in [Invocations -> Files]
    /\ written \in [Invocations -> 0 .. LineLength]
    /\ pc \in {"ready", "building", "built", "rewrite", "rename", "report", "done", "dead"}
    /\ build \in {"none", "exited 0", "failed"}
    /\ read \subseteq Invocations /\ unwritten \subseteq read /\ malformed \in 0 .. MaxInvocations
    /\ exit \in {"none", "incomplete", "warnings", "clean"}
    /\ in_time \subseteq appended /\ appended \subseteq Invocations
    /\ interrupted \subseteq Invocations

\* The lock keeps lines whole ("an unlocked append would interleave and corrupt
\* lines", trace_writer.hpp:15): a record that was written in full is only lost to a
\* shim that was stopped in the middle of its line, one record for each such shim.
InterruptionCostsOne ==
    \A f \in Files :
        LET lost == {i \in appended : file[i] = f} \ Records(content[f]) IN
        Cardinality(lost) <= Cardinality({i \in interrupted : file[i] = f})

\* Exit code 0 of `bomwerk observe`: what read_trace later gives to trim has every
\* invocation whose record was in the trace when the build command had ended.
CleanMeansWhole == exit = "clean" => in_time \subseteq Loaded(content[trace_path])

\* "an interrupted rewrite cannot leave a half-written trace where a whole one used
\* to be" (trace_check.cpp:39): whatever fails or is killed, the records validated
\* stay in the file that the trace path names.
RewriteKeepsRecords == in_time \cap read \subseteq Records(content[trace_path])

\* "Observation must never be the reason a build fails" (shim_main.cpp:133): however
\* many shims wait for the lock, are killed or fail to write, each one comes to exec.
ShimsProceed == \A i \in Invocations : phase[i] = "opened" ~> phase[i] \in {"exec", "killed"}
==============================================================================
