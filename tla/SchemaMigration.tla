--------------------------- MODULE SchemaMigration ---------------------------
(***************************************************************************)
(* Opening a SQLite-backed store (src/src/vuln/sqlite_support.cpp):        *)
(* open_and_migrate, migrate_schema and open_read_only, run by several     *)
(* bomwerk processes, of several versions, over one database file.         *)
(*                                                                         *)
(* A process reads the schema version before it holds any lock, decides    *)
(* from it whether there is anything to do, takes SQLite's write lock and  *)
(* reads the version AGAIN before it replays a migration step. Between the *)
(* two reads another process, older or newer, may have migrated the file.  *)
(*                                                                         *)
(* SQLite is external. What the code relies on is modelled: one writer at  *)
(* a time between BEGIN IMMEDIATE and COMMIT or ROLLBACK, other readers    *)
(* see the last committed file, COMMIT is atomic, a connection that goes   *)
(* away rolls back, and every statement may fail.                          *)
(***************************************************************************)
EXTENDS Integers

CONSTANTS
    Openers,    \* the processes that may open the store
    Latest,     \* the newest schema version any of them was built for
    NoOne       \* the write lock is free

ASSUME LatestAssumption == Latest \in Nat \ {0}
ASSUME NoOneAssumption == NoOne \notin Openers

VARIABLES
    version,        \* PRAGMA user_version of the committed file
    applied,        \* per migration step, how often the committed file ran it
    writer,         \* who is between BEGIN IMMEDIATE and COMMIT or ROLLBACK
    workVersion,    \* the writer's uncommitted user_version
    workApplied,    \* the writer's uncommitted tables
    target,         \* target_schema_version each process was built for
    cursor,         \* the writer's loop variable in migrate_schema
    pc              \* where each process is in open_and_migrate

file == <<version, applied>>
work == <<workVersion, workApplied>>
vars == <<version, applied, writer, workVersion, workApplied, target, cursor, pc>>

Versions == 1 .. Latest
Unreadable == -1            \* read_schema_version could not read it

InTransaction == {"locked", "apply", "commit"}
Opening == {"read", "begin"} \cup InTransaction
Done == {"closed", "ready", "readOnly", "refused", "failed"}

Shape(v) == [s \in Versions |-> IF s <= v THEN 1 ELSE 0]

------------------------------------------------------------------------------
\* A file written by any earlier bomwerk, or no file yet (version 0).
Init ==
    /\ version \in 0 .. Latest
    /\ applied = Shape(version)
    /\ writer = NoOne
    /\ workVersion = version /\ workApplied = applied
    /\ target = [p \in Openers |-> Latest]
    /\ cursor = 0
    /\ pc = [p \in Openers |-> "closed"]

\* Variant for mutation: the already-current path returns without its ROLLBACK.
LeaveInTransaction(p, outcome) ==
    /\ pc' = [pc EXCEPT ![p] = outcome]
    /\ writer' = IF writer = p /\ outcome # "ready" THEN NoOne ELSE writer
    /\ UNCHANGED <<version, applied, workVersion, workApplied, target, cursor>>

\* Leave the open sequence in state `outcome`; a transaction that was open is
\* rolled back, by the ROLLBACK of that path or by closing the connection.
Leave(p, outcome) ==
    /\ pc' = [pc EXCEPT ![p] = outcome]
    /\ writer' = IF writer = p THEN NoOne ELSE writer
    /\ UNCHANGED <<version, applied, workVersion, workApplied, target, cursor>>

\* A bomwerk built for schema t starts and opens the file; a handle it had is closed.
Open(p) ==
    /\ pc[p] \in Done
    /\ \E t \in Versions : target' = [target EXCEPT ![p] = t]
    /\ pc' = [pc EXCEPT ![p] = "read"]
    /\ UNCHANGED <<version, applied, writer, workVersion, workApplied, cursor>>

\* The directory cannot be created or sqlite3_open_v2 fails.
OpenFails(p) ==
    /\ pc[p] \in Done
    /\ Leave(p, "failed")

\* What read_schema_version returns to a reader that sees version v.
Readings(v) == {v, Unreadable}

\* The read before any lock: refuse a newer file, skip a current one.
ReadVersion(p) ==
    /\ pc[p] = "read"
    /\ \E seen \in Readings(version) :
          \/ seen > target[p] /\ Leave(p, "refused")
          \/ seen = target[p] /\ Leave(p, "ready")
          \/ /\ seen < target[p]
             /\ pc' = [pc EXCEPT ![p] = "begin"]
             /\ UNCHANGED <<version, applied, writer, workVersion, workApplied, target, cursor>>

\* BEGIN IMMEDIATE gets the write lock.
Begin(p) ==
    /\ pc[p] = "begin"
    /\ writer = NoOne
    /\ writer' = p
    /\ workVersion' = version /\ workApplied' = applied
    /\ pc' = [pc EXCEPT ![p] = "locked"]
    /\ UNCHANGED <<version, applied, target, cursor>>

\* Variant for mutation: no busy timeout is set, a BEGIN waits for the lock forever.
BeginNeverGivesUp(p) ==
    /\ pc[p] = "begin"
    /\ writer = NoOne
    /\ Leave(p, "failed")

\* BEGIN IMMEDIATE fails: the busy timeout ran out, or the file is not SQLite.
BeginFails(p) ==
    /\ pc[p] = "begin"
    /\ Leave(p, "failed")

\* Variant for mutation: an unreadable version counts as a fresh file.
RereadGuessesFresh(p) ==
    /\ pc[p] = "locked"
    /\ \E seen \in Readings(workVersion) :
          \/ seen = target[p] /\ Leave(p, "ready")
          \/ seen > target[p] /\ Leave(p, "refused")
          \/ /\ seen < target[p]
             /\ cursor' = IF seen < 0 THEN 0 ELSE seen
             /\ pc' = [pc EXCEPT ![p] = "apply"]
             /\ UNCHANGED <<version, applied, writer, workVersion, workApplied, target>>

\* The read under the write lock decides: this one, not the earlier one.
RereadVersion(p) ==
    /\ pc[p] = "locked"
    /\ \E seen \in Readings(workVersion) :
          \/ seen = target[p] /\ Leave(p, "ready")
          \/ seen > target[p] /\ Leave(p, "refused")
          \/ seen < 0 /\ Leave(p, "failed")
          \/ /\ seen \in 0 .. target[p] - 1
             /\ cursor' = seen
             /\ pc' = [pc EXCEPT ![p] = "apply"]
             /\ UNCHANGED <<version, applied, writer, workVersion, workApplied, target>>

\* migrations[cursor] brings the file from version cursor to cursor + 1.
ApplyStep(p) ==
    /\ pc[p] = "apply"
    /\ cursor < target[p]
    /\ workApplied' = [workApplied EXCEPT ![cursor + 1] = @ + 1]
    /\ cursor' = cursor + 1
    /\ UNCHANGED <<version, applied, writer, workVersion, target, pc>>

\* PRAGMA user_version = target, inside the same transaction.
Stamp(p) ==
    /\ pc[p] = "apply"
    /\ cursor >= target[p]
    /\ workVersion' = target[p]
    /\ pc' = [pc EXCEPT ![p] = "commit"]
    /\ UNCHANGED <<version, applied, writer, workApplied, target, cursor>>

Commit(p) ==
    /\ pc[p] = "commit"
    /\ version' = workVersion /\ applied' = workApplied
    /\ writer' = NoOne
    /\ pc' = [pc EXCEPT ![p] = "ready"]
    /\ UNCHANGED <<workVersion, workApplied, target, cursor>>

\* A migration step, the stamp or the COMMIT fails: rolled back, no handle.
TransactionFails(p) ==
    /\ pc[p] \in {"apply", "commit"}
    /\ Leave(p, "failed")

\* Variant for mutation: a reader accepts an older file.
OpenReadOnlyAcceptsOlder(p) ==
    /\ pc[p] \in Done
    /\ \E t \in Versions, seen \in Readings(version) :
          /\ target' = [target EXCEPT ![p] = t]
          /\ pc' = [pc EXCEPT ![p] = IF seen \in 0 .. t THEN "readOnly" ELSE "refused"]
    /\ UNCHANGED <<version, applied, writer, workVersion, workApplied, cursor>>

\* open_read_only: a handle only for a file at exactly the expected version.
OpenReadOnly(p) ==
    /\ pc[p] \in Done
    /\ \E t \in Versions, seen \in Readings(version) :
          /\ target' = [target EXCEPT ![p] = t]
          /\ pc' = [pc EXCEPT ![p] = IF seen = t THEN "readOnly" ELSE "refused"]
    /\ UNCHANGED <<version, applied, writer, workVersion, workApplied, cursor>>

\* The process ends, or is killed in the middle; SQLite rolls back for it.
Exit(p) ==
    /\ pc[p] # "closed"
    /\ Leave(p, "closed")

Step(p) ==
    \/ ReadVersion(p) \/ Begin(p) \/ BeginFails(p) \/ RereadVersion(p)
    \/ ApplyStep(p) \/ Stamp(p) \/ Commit(p) \/ TransactionFails(p)

Next ==
    \E p \in Openers :
        Step(p) \/ Open(p) \/ OpenFails(p) \/ OpenReadOnly(p) \/ Exit(p)

\* A process that is opening the store keeps executing: nothing it does waits
\* for another process, BEGIN IMMEDIATE gives up after kBusyTimeoutMilliseconds.
Fairness == \A p \in Openers : WF_vars(Step(p))

Spec == Init /\ [][Next]_vars
FairSpec == Spec /\ Fairness

------------------------------------------------------------------------------
TypeOK ==
    /\ version \in 0 .. Latest
    /\ applied \in [Versions -> Nat]
    /\ writer \in Openers \cup {NoOne}
    /\ workVersion \in 0 .. Latest
    /\ workApplied \in [Versions -> Nat]
    /\ target \in [Openers -> Versions]
    /\ cursor \in 0 .. Latest
    /\ pc \in [Openers -> Opening \cup Done]

\* The stamp never lies: a committed file ran every step up to its version
\* exactly once and no later one, so a step that drops a table is never
\* replayed over the evidence of another process (migrate_schema re-reads the
\* version under the lock).
StampMatchesShape == applied = Shape(version)

\* Whoever holds a handle holds it on a file at least as new as its binary, and
\* a handle from open_and_migrate is never handed out with the write lock still
\* held (the already-current path rolls its transaction back before it returns).
HandleIsUsable ==
    \A p \in Openers :
        /\ pc[p] \in {"ready", "readOnly"} => version >= target[p]
        /\ pc[p] \in Done => writer # p

\* An older bomwerk that raced a newer one never stamps its own version back.
NeverDowngraded == [][version' >= version]_vars

\* Opening always ends, with a handle or a warning, whoever else is opening.
OpenTerminates == \A p \in Openers : pc[p] \in Opening ~> pc[p] \in Done

\* The promise of the store, as the abstract specification states it.
Store == INSTANCE SchemaStore WITH
    granted <- [p \in Openers |-> IF pc[p] = "ready" \/ pc[p] = "readOnly"
                                  THEN target[p] ELSE 0]
ImplementsStore == Store!Spec
==============================================================================
