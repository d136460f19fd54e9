------------------------------ MODULE SchemaStore ------------------------------
(***************************************************************************)
(* What a SQLite-backed store of bomwerk promises about its schema, told   *)
(* without locks, transactions or read errors: the file only ever moves,   *)
(* in one step, from one complete schema to a later complete schema, and a *)
(* handle is granted to a process only at the moment the file is exactly   *)
(* at the version that process understands.                                *)
(*                                                                         *)
(* SchemaMigration is the detailed specification that implements this one. *)
(***************************************************************************)
EXTENDS Integers

CONSTANTS
    Openers,    \* the processes that may open the store
    Latest      \* the newest schema version any of them was built for

VARIABLES
    version,    \* the version stamped in the file (PRAGMA user_version)
    applied,    \* how many times each migration step has run on the file
    granted     \* the version each process holds a handle for, 0 for none

vars == <<version, applied, granted>>

Versions == 1 .. Latest

\* The tables of a file that went through every step up to v, once each.
Shape(v) == [s \in Versions |-> IF s <= v THEN 1 ELSE 0]

Init ==
    /\ version \in 0 .. Latest
    /\ applied = Shape(version)
    /\ granted = [p \in Openers |-> 0]

\* The file is already current for p's binary.
Grant(p) ==
    /\ version # 0
    /\ granted' = [granted EXCEPT ![p] = version]
    /\ UNCHANGED <<version, applied>>

\* p brings the file to version t and gets its handle, all at once.
Upgrade(p, t) ==
    /\ t > version
    /\ version' = t
    /\ applied' = Shape(t)
    /\ granted' = [granted EXCEPT ![p] = t]

\* p closes its handle, or dies.
Release(p) ==
    /\ granted' = [granted EXCEPT ![p] = 0]
    /\ UNCHANGED <<version, applied>>

Next ==
    \E p \in Openers :
        \/ Grant(p)
        \/ \E t \in Versions : Upgrade(p, t)
        \/ Release(p)

Spec == Init /\ [][Next]_vars
================================================================================
