------------------------ MODULE SchemaMigration_proofs ------------------------
(***************************************************************************)
(* What SchemaMigration guarantees for any number of processes and any     *)
(* schema version.                                                         *)
(*                                                                         *)
(* StampMatchesShape is not inductive: a commit copies the writer's        *)
(* uncommitted file over the committed one, so the invariant must also say *)
(* what the uncommitted file looks like at each point of the transaction,  *)
(* and that the process at that point is the one that holds the lock.      *)
(***************************************************************************)
EXTENDS SchemaMigration, TLAPS

\* The write lock is held exactly by the process inside its transaction.
LockHeld == \A p \in Openers : writer = p <=> pc[p] \in InTransaction

\* The uncommitted file at each point of the transaction.
WorkMatchesCursor ==
    \A p \in Openers :
        /\ pc[p] = "locked" => workVersion = version /\ workApplied = Shape(version)
        /\ pc[p] = "apply" =>
              /\ version < target[p] /\ cursor <= target[p]
              /\ workApplied = Shape(cursor)
        /\ pc[p] = "commit" =>
              /\ version < target[p]
              /\ workVersion = target[p] /\ workApplied = Shape(target[p])

\* No handle is older than its file.
HandleNotNewer ==
    \A p \in Openers : pc[p] \in {"ready", "readOnly"} => version >= target[p]

IInv == TypeOK /\ StampMatchesShape /\ LockHeld /\ WorkMatchesCursor /\ HandleNotNewer

------------------------------------------------------------------------------
\* Running migrations[c] on a file with the tables of version c gives those of
\* version c + 1.
LEMMA ShapeStep ==
    ASSUME NEW c \in 0 .. Latest, c + 1 \in Versions
    PROVE  [Shape(c) EXCEPT ![c + 1] = @ + 1] = Shape(c + 1)
<1> DEFINE stepped == [Shape(c) EXCEPT ![c + 1] = @ + 1]
<1>1. stepped = [s \in Versions |-> IF s = c + 1 THEN Shape(c)[s] + 1 ELSE Shape(c)[s]]
  BY DEF Shape
<1>2. ASSUME NEW s \in Versions
      PROVE  (IF s = c + 1 THEN Shape(c)[s] + 1 ELSE Shape(c)[s]) = Shape(c + 1)[s]
  BY <1>2, LatestAssumption DEF Shape, Versions
<1>3. Shape(c + 1) = [s \in Versions |-> Shape(c + 1)[s]]
  BY DEF Shape
<1> HIDE DEF stepped
<1>4. stepped = Shape(c + 1)
  BY <1>1, <1>2, <1>3
<1> QED
  BY <1>4 DEF stepped

\* Shapes are functions from the steps to how often they ran.
LEMMA ShapeType == \A v : Shape(v) \in [Versions -> Nat]
BY DEF Shape

\* Whatever process an initial file meets, nobody holds anything yet.
LEMMA InitIInv == Init => IInv
<1> SUFFICES ASSUME Init PROVE IInv
  OBVIOUS
<1> USE LatestAssumption, NoOneAssumption
<1>1. TypeOK
  BY ShapeType DEF Init, TypeOK, Done, Opening, Versions
<1>2. StampMatchesShape /\ LockHeld /\ WorkMatchesCursor /\ HandleNotNewer
  BY DEF Init, StampMatchesShape, LockHeld, WorkMatchesCursor, HandleNotNewer, InTransaction
<1> QED
  BY <1>1, <1>2 DEF IInv

\* Leaving the open sequence keeps the invariant, unless it hands out a handle
\* for a file that is too old.
LEMMA LeaveIInv ==
    ASSUME IInv, NEW p \in Openers, NEW outcome \in Done, Leave(p, outcome),
           outcome \in {"ready", "readOnly"} => version >= target[p]
    PROVE  IInv'
<1> USE NoOneAssumption DEF Leave, IInv
<1>1. TypeOK'
  BY DEF TypeOK
<1>2. StampMatchesShape'
  BY DEF StampMatchesShape, Shape
<1>3. LockHeld'
  BY DEF LockHeld, TypeOK, Done, InTransaction
<1>4. WorkMatchesCursor'
  BY DEF WorkMatchesCursor, TypeOK, Done, Shape
<1>5. HandleNotNewer'
  BY DEF HandleNotNewer, TypeOK
<1> QED
  BY <1>1, <1>2, <1>3, <1>4, <1>5

\* Every step of every process keeps the invariant.
LEMMA NextIInv == IInv /\ [Next]_vars => IInv'
<1> SUFFICES ASSUME IInv, [Next]_vars PROVE IInv'
  OBVIOUS
<1> USE LatestAssumption, NoOneAssumption
<1>1. ASSUME NEW p \in Openers, Open(p) PROVE IInv'
  <2>1. TypeOK'
    BY <1>1 DEF Open, IInv, TypeOK, Opening, Done
  <2>2. StampMatchesShape'
    BY <1>1 DEF Open, IInv, StampMatchesShape, Shape
  <2>3. LockHeld'
    BY <1>1 DEF Open, IInv, LockHeld, TypeOK, Done, InTransaction
  <2>4. WorkMatchesCursor'
    BY <1>1 DEF Open, IInv, WorkMatchesCursor, TypeOK, Done, Shape
  <2>5. HandleNotNewer'
    BY <1>1 DEF Open, IInv, HandleNotNewer, TypeOK
  <2> QED
    BY <2>1, <2>2, <2>3, <2>4, <2>5 DEF IInv
<1>2. ASSUME NEW p \in Openers, OpenFails(p) PROVE IInv'
  BY <1>2, LeaveIInv DEF OpenFails, Done
<1>3. ASSUME NEW p \in Openers, ReadVersion(p) PROVE IInv'
  <2>1. PICK seen \in Readings(version) :
           \/ seen > target[p] /\ Leave(p, "refused")
           \/ seen = target[p] /\ Leave(p, "ready")
           \/ /\ seen < target[p]
              /\ pc' = [pc EXCEPT ![p] = "begin"]
              /\ UNCHANGED <<version, applied, writer, workVersion, workApplied, target, cursor>>
    BY <1>3 DEF ReadVersion
  <2>2. CASE Leave(p, "refused")
    BY <2>2, LeaveIInv DEF Done
  <2>3. CASE seen = target[p] /\ Leave(p, "ready")
    <3>1. version >= target[p]
      BY <2>3 DEF Readings, Unreadable, IInv, TypeOK, Versions
    <3> QED
      BY <2>3, <3>1, LeaveIInv DEF Done
  <2>4. CASE /\ pc' = [pc EXCEPT ![p] = "begin"]
             /\ UNCHANGED <<version, applied, writer, workVersion, workApplied, target, cursor>>
    <3>1. pc[p] = "read"
      BY <1>3 DEF ReadVersion
    <3>2. TypeOK'
      BY <2>4 DEF IInv, TypeOK, Opening
    <3>3. StampMatchesShape' /\ HandleNotNewer'
      BY <2>4 DEF IInv, StampMatchesShape, HandleNotNewer, TypeOK, Shape
    <3>4. LockHeld' /\ WorkMatchesCursor'
      BY <2>4, <3>1 DEF IInv, LockHeld, WorkMatchesCursor, TypeOK, InTransaction, Shape
    <3> QED
      BY <3>2, <3>3, <3>4 DEF IInv
  <2> QED
    BY <2>1, <2>2, <2>3, <2>4
<1>4. ASSUME NEW p \in Openers, Begin(p) PROVE IInv'
  <2>1. TypeOK'
    BY <1>4 DEF Begin, IInv, TypeOK, Opening, InTransaction
  <2>2. StampMatchesShape' /\ HandleNotNewer'
    BY <1>4 DEF Begin, IInv, StampMatchesShape, HandleNotNewer, TypeOK, Shape
  <2>3. LockHeld'
    BY <1>4 DEF Begin, IInv, LockHeld, TypeOK, InTransaction
  <2>4. WorkMatchesCursor'
    BY <1>4 DEF Begin, IInv, LockHeld, StampMatchesShape, WorkMatchesCursor, TypeOK,
                InTransaction, Shape
  <2> QED
    BY <2>1, <2>2, <2>3, <2>4 DEF IInv
<1>5. ASSUME NEW p \in Openers, BeginFails(p) PROVE IInv'
  BY <1>5, LeaveIInv DEF BeginFails, Done
<1>6. ASSUME NEW p \in Openers, RereadVersion(p) PROVE IInv'
  <2>1. /\ pc[p] = "locked" /\ writer = p
        /\ workVersion = version /\ workApplied = Shape(version)
    BY <1>6 DEF RereadVersion, IInv, WorkMatchesCursor, LockHeld, InTransaction
  <2>2. PICK seen \in Readings(workVersion) :
           \/ seen = target[p] /\ Leave(p, "ready")
           \/ seen > target[p] /\ Leave(p, "refused")
           \/ seen < 0 /\ Leave(p, "failed")
           \/ /\ seen \in 0 .. target[p] - 1
              /\ cursor' = seen
              /\ pc' = [pc EXCEPT ![p] = "apply"]
              /\ UNCHANGED <<version, applied, writer, workVersion, workApplied, target>>
    BY <1>6 DEF RereadVersion
  <2>3. CASE seen = target[p] /\ Leave(p, "ready")
    <3>1. version >= target[p]
      BY <2>1, <2>3 DEF Readings, Unreadable, IInv, TypeOK, Versions
    <3> QED
      BY <2>3, <3>1, LeaveIInv DEF Done
  <2>4. CASE Leave(p, "refused") \/ Leave(p, "failed")
    BY <2>4, LeaveIInv DEF Done
  <2>5. CASE /\ seen \in 0 .. target[p] - 1
             /\ cursor' = seen
             /\ pc' = [pc EXCEPT ![p] = "apply"]
             /\ UNCHANGED <<version, applied, writer, workVersion, workApplied, target>>
    <3>1. seen = version /\ seen < target[p] /\ target[p] \in Versions
      BY <2>1, <2>5 DEF Readings, Unreadable, IInv, TypeOK, Versions
    <3>2. TypeOK'
      BY <2>5, <3>1 DEF IInv, TypeOK, Opening, InTransaction, Versions
    <3>3. StampMatchesShape' /\ HandleNotNewer'
      BY <2>5 DEF IInv, StampMatchesShape, HandleNotNewer, TypeOK, Shape
    <3>4. LockHeld'
      BY <2>1, <2>5 DEF IInv, LockHeld, TypeOK, InTransaction
    <3>5. WorkMatchesCursor'
      <4>1. \A q \in Openers : q # p => pc'[q] \notin InTransaction
        BY <2>1, <2>5 DEF IInv, LockHeld, TypeOK, InTransaction
      <4>2. pc'[p] = "apply" /\ cursor' <= target'[p] /\ version' < target'[p]
        BY <2>5, <3>1 DEF IInv, TypeOK, Versions
      <4>3. (workApplied = Shape(cursor))'
        BY <2>1, <2>5, <3>1 DEF Shape
      <4> QED
        BY <4>1, <4>2, <4>3 DEF WorkMatchesCursor, InTransaction
    <3> QED
      BY <3>2, <3>3, <3>4, <3>5 DEF IInv
  <2> QED
    BY <2>2, <2>3, <2>4, <2>5
<1>7. ASSUME NEW p \in Openers, ApplyStep(p) PROVE IInv'
  <2>1. /\ pc[p] = "apply" /\ writer = p /\ cursor < target[p]
        /\ workApplied = Shape(cursor) /\ version < target[p]
    BY <1>7 DEF ApplyStep, IInv, WorkMatchesCursor, LockHeld, InTransaction
  <2>2. /\ cursor \in 0 .. Latest /\ cursor + 1 \in Versions
        /\ target[p] \in Versions
    BY <2>1 DEF IInv, TypeOK, Versions
  <2>3. workApplied' = Shape(cursor + 1)
    BY <1>7, <2>1, <2>2, ShapeStep DEF ApplyStep
  <2>4. TypeOK'
    <3>1. cursor' \in 0 .. Latest
      BY <1>7, <2>2 DEF ApplyStep, Versions
    <3>2. workApplied' \in [Versions -> Nat]
      BY <2>3, ShapeType
    <3> QED
      BY <1>7, <3>1, <3>2 DEF ApplyStep, IInv, TypeOK
  <2>5. StampMatchesShape' /\ HandleNotNewer' /\ LockHeld'
    BY <1>7 DEF ApplyStep, IInv, StampMatchesShape, HandleNotNewer, LockHeld, Shape
  <2>6. WorkMatchesCursor'
    <3>1. \A q \in Openers : q # p => pc'[q] \notin InTransaction
      BY <1>7, <2>1 DEF ApplyStep, IInv, LockHeld
    <3>2. pc'[p] = "apply" /\ version' < target'[p]
      BY <1>7, <2>1 DEF ApplyStep
    <3>3. cursor + 1 <= target[p]
      BY <2>1, <2>2, LatestAssumption DEF Versions
    <3>4. cursor' <= target'[p]
      BY <1>7, <3>3 DEF ApplyStep
    <3>5. (workApplied = Shape(cursor))'
      BY <1>7, <2>3 DEF ApplyStep, Shape
    <3> QED
      BY <3>1, <3>2, <3>4, <3>5 DEF WorkMatchesCursor, InTransaction
  <2> QED
    BY <2>4, <2>5, <2>6 DEF IInv
<1>8. ASSUME NEW p \in Openers, Stamp(p) PROVE IInv'
  <2>1. /\ pc[p] = "apply" /\ writer = p /\ version < target[p]
        /\ workApplied = Shape(cursor) /\ cursor = target[p] /\ target[p] \in Versions
    BY <1>8 DEF Stamp, IInv, WorkMatchesCursor, LockHeld, InTransaction, TypeOK, Versions
  <2>2. TypeOK'
    BY <1>8, <2>1 DEF Stamp, IInv, TypeOK, Opening, InTransaction, Versions
  <2>3. StampMatchesShape' /\ HandleNotNewer'
    BY <1>8 DEF Stamp, IInv, StampMatchesShape, HandleNotNewer, TypeOK, Shape
  <2>4. LockHeld'
    BY <1>8, <2>1 DEF Stamp, IInv, LockHeld, TypeOK, InTransaction
  <2>5. WorkMatchesCursor'
    BY <1>8, <2>1 DEF Stamp, IInv, LockHeld, WorkMatchesCursor, TypeOK, InTransaction, Shape
  <2> QED
    BY <2>2, <2>3, <2>4, <2>5 DEF IInv
<1>9. ASSUME NEW p \in Openers, Commit(p) PROVE IInv'
  <2>1. /\ pc[p] = "commit" /\ writer = p /\ version < target[p]
        /\ workVersion = target[p] /\ workApplied = Shape(target[p]) /\ target[p] \in Versions
    BY <1>9 DEF Commit, IInv, WorkMatchesCursor, LockHeld, InTransaction, TypeOK
  <2>2. version' = target[p] /\ applied' = Shape(target[p])
    BY <1>9, <2>1 DEF Commit
  <2>3. TypeOK'
    BY <1>9, <2>1 DEF Commit, IInv, TypeOK, Done, Versions
  <2>4. StampMatchesShape'
    BY <2>2 DEF StampMatchesShape, Shape
  <2>5. LockHeld'
    BY <1>9, <2>1 DEF Commit, IInv, LockHeld, TypeOK, InTransaction
  <2>6. WorkMatchesCursor'
    BY <1>9, <2>5 DEF Commit, WorkMatchesCursor, LockHeld, InTransaction
  <2>7. HandleNotNewer'
    BY <1>9, <2>1, <2>2 DEF Commit, IInv, HandleNotNewer, TypeOK, Versions
  <2> QED
    BY <2>3, <2>4, <2>5, <2>6, <2>7 DEF IInv
<1>10. ASSUME NEW p \in Openers, TransactionFails(p) PROVE IInv'
  BY <1>10, LeaveIInv DEF TransactionFails, Done
<1>11. ASSUME NEW p \in Openers, OpenReadOnly(p) PROVE IInv'
  <2>1. PICK t \in Versions, seen \in Readings(version) :
           /\ target' = [target EXCEPT ![p] = t]
           /\ pc' = [pc EXCEPT ![p] = IF seen = t THEN "readOnly" ELSE "refused"]
    BY <1>11 DEF OpenReadOnly
  <2>2. seen = t => version >= t
    BY DEF Readings, Unreadable, IInv, TypeOK, Versions
  <2>3. TypeOK'
    BY <1>11, <2>1 DEF OpenReadOnly, IInv, TypeOK, Done
  <2>4. StampMatchesShape'
    BY <1>11 DEF OpenReadOnly, IInv, StampMatchesShape, Shape
  <2>5. LockHeld'
    BY <1>11, <2>1 DEF OpenReadOnly, IInv, LockHeld, TypeOK, Done, InTransaction
  <2>6. WorkMatchesCursor'
    BY <1>11, <2>1 DEF OpenReadOnly, IInv, WorkMatchesCursor, TypeOK, Done, Shape
  <2>7. HandleNotNewer'
    BY <1>11, <2>1, <2>2 DEF OpenReadOnly, IInv, HandleNotNewer, TypeOK
  <2> QED
    BY <2>3, <2>4, <2>5, <2>6, <2>7 DEF IInv
<1>12. ASSUME NEW p \in Openers, Exit(p) PROVE IInv'
  BY <1>12, LeaveIInv DEF Exit, Done
<1>13. CASE UNCHANGED vars
  BY <1>13 DEF vars, IInv, TypeOK, StampMatchesShape, LockHeld, WorkMatchesCursor,
               HandleNotNewer, Shape
<1> QED
  BY <1>1, <1>2, <1>3, <1>4, <1>5, <1>6, <1>7, <1>8, <1>9, <1>10, <1>11, <1>12, <1>13
     DEF Next, Step

------------------------------------------------------------------------------
\* IInv is an invariant of the specification.
THEOREM Invariance == Spec => []IInv
<1>1. Init => IInv
  BY InitIInv
<1>2. IInv /\ [Next]_vars => IInv'
  BY NextIInv
<1> QED
  BY <1>1, <1>2, PTL DEF Spec

\* Type correctness of open_and_migrate's state.
THEOREM TypeCorrect == Spec => []TypeOK
<1>1. IInv => TypeOK
  BY DEF IInv
<1> QED
  BY <1>1, Invariance, PTL

\* However many processes race migrate_schema, and wherever they die, a
\* committed file ran every migration up to its version exactly once.
THEOREM StampNeverLies == Spec => []StampMatchesShape
<1>1. IInv => StampMatchesShape
  BY DEF IInv
<1> QED
  BY <1>1, Invariance, PTL

\* A handle is on a file at least as new as its binary and holds no write lock.
THEOREM HandlesUsable == Spec => []HandleIsUsable
<1>1. IInv => HandleIsUsable
  BY DEF IInv, HandleIsUsable, HandleNotNewer, LockHeld, Done, InTransaction
<1> QED
  BY <1>1, Invariance, PTL

\* No step lowers the version of the file, whatever binaries overlap.
THEOREM NoDowngrade == Spec => NeverDowngraded
<1>1. IInv /\ [Next]_vars => [version' >= version]_vars
  <2> SUFFICES ASSUME IInv, Next PROVE version' >= version
    BY DEF vars
  <2> USE LatestAssumption
  <2>1. version \in Int
    BY DEF IInv, TypeOK
  <2>2. CASE version' = version
    BY <2>1, <2>2
  <2>3. ASSUME NEW p \in Openers, Commit(p) PROVE version' >= version
    BY <2>3 DEF Commit, IInv, WorkMatchesCursor, TypeOK, Versions
  <2> QED
    BY <2>2, <2>3 DEF Next, Step, Open, OpenFails, ReadVersion, Begin, BeginFails,
       RereadVersion, ApplyStep, Stamp, TransactionFails, OpenReadOnly, Exit, Leave
<1> QED
  BY <1>1, Invariance, PTL DEF Spec, NeverDowngraded

------------------------------------------------------------------------------
(* Every step maps to a step of SchemaStore or to a stutter. *)

\* Leaving without a handle is the abstract Release.
LEMMA LeaveReleases ==
    ASSUME IInv, NEW p \in Openers,
           NEW outcome \in {"closed", "refused", "failed"}, Leave(p, outcome)
    PROVE  Store!Release(p)
<1> DEFINE granted == [q \in Openers |-> IF pc[q] = "ready" \/ pc[q] = "readOnly"
                                         THEN target[q] ELSE 0]
<1>1. \A q \in Openers : pc'[q] = IF q = p THEN outcome ELSE pc[q]
  BY DEF Leave, IInv, TypeOK
<1>2. granted' = [granted EXCEPT ![p] = 0]
  BY <1>1 DEF Leave
<1> QED
  BY <1>2 DEF Leave, Store!Release

\* Leaving with a handle on a file at the version the binary wants is Grant.
LEMMA LeaveGrants ==
    ASSUME IInv, NEW p \in Openers, Leave(p, "ready"), version = target[p]
    PROVE  Store!Grant(p)
<1> DEFINE granted == [q \in Openers |-> IF pc[q] = "ready" \/ pc[q] = "readOnly"
                                         THEN target[q] ELSE 0]
<1>1. \A q \in Openers : pc'[q] = IF q = p THEN "ready" ELSE pc[q]
  BY DEF Leave, IInv, TypeOK
<1>2. granted' = [granted EXCEPT ![p] = version]
  BY <1>1 DEF Leave
<1>3. version # 0
  BY LatestAssumption DEF IInv, TypeOK, Versions
<1> QED
  BY <1>2, <1>3 DEF Leave, Store!Grant

\* A step that takes nobody's handle and leaves the file alone is a stutter.
LEMMA OpeningStutters ==
    ASSUME IInv, NEW p \in Openers, pc[p] \in Opening, NEW next \in Opening,
           pc' = [pc EXCEPT ![p] = next], UNCHANGED <<version, applied, target>>
    PROVE  UNCHANGED Store!vars
<1>1. \A q \in Openers : (pc'[q] = "ready" \/ pc'[q] = "readOnly")
                         <=> (pc[q] = "ready" \/ pc[q] = "readOnly")
  BY DEF IInv, TypeOK, Opening, InTransaction
<1> QED
  BY <1>1 DEF Store!vars

\* open_and_migrate and open_read_only implement the abstract store: complete
\* schemas only, forward only, a handle only at the exact version.
THEOREM Refinement == Spec => ImplementsStore
<1> USE LatestAssumption, NoOneAssumption
<1>1. Init => Store!Init
  BY DEF Init, Store!Init, Shape, Store!Shape, Versions, Store!Versions
<1>2. IInv /\ [Next]_vars => [Store!Next]_(Store!vars)
  <2> SUFFICES ASSUME IInv, [Next]_vars PROVE Store!Next \/ UNCHANGED Store!vars
    OBVIOUS
  <2>1. ASSUME NEW p \in Openers, Open(p) PROVE Store!Release(p)
    BY <2>1 DEF Open, Store!Release, IInv, TypeOK
  <2>2. ASSUME NEW p \in Openers, OpenFails(p) \/ BeginFails(p) \/ TransactionFails(p) \/ Exit(p)
        PROVE Store!Release(p)
    BY <2>2, LeaveReleases DEF OpenFails, BeginFails, TransactionFails, Exit
  <2>3. ASSUME NEW p \in Openers, ReadVersion(p)
        PROVE Store!Release(p) \/ Store!Grant(p) \/ UNCHANGED Store!vars
    <3>1. PICK seen \in Readings(version) :
             \/ Leave(p, "refused")
             \/ seen = target[p] /\ Leave(p, "ready")
             \/ /\ pc' = [pc EXCEPT ![p] = "begin"]
                /\ UNCHANGED <<version, applied, target>>
      BY <2>3 DEF ReadVersion
    <3>2. target[p] \in Versions /\ pc[p] = "read"
      BY <2>3 DEF IInv, TypeOK, ReadVersion
    <3>3. seen = target[p] => version = target[p]
      BY <3>2 DEF Readings, Unreadable, Versions
    <3> QED
      BY <3>1, <3>2, <3>3, LeaveReleases, LeaveGrants, OpeningStutters DEF Opening
  <2>4. ASSUME NEW p \in Openers, RereadVersion(p)
        PROVE Store!Release(p) \/ Store!Grant(p) \/ UNCHANGED Store!vars
    <3>1. PICK seen \in Readings(workVersion) :
             \/ seen = target[p] /\ Leave(p, "ready")
             \/ Leave(p, "refused")
             \/ Leave(p, "failed")
             \/ /\ pc' = [pc EXCEPT ![p] = "apply"]
                /\ UNCHANGED <<version, applied, target>>
      BY <2>4 DEF RereadVersion
    <3>2. target[p] \in Versions /\ pc[p] = "locked" /\ workVersion = version
      BY <2>4 DEF IInv, TypeOK, RereadVersion, WorkMatchesCursor
    <3>3. seen = target[p] => version = target[p]
      BY <3>2 DEF Readings, Unreadable, Versions
    <3> QED
      BY <3>1, <3>2, <3>3, LeaveReleases, LeaveGrants, OpeningStutters DEF Opening, InTransaction
  <2>5. ASSUME NEW p \in Openers, Begin(p) \/ ApplyStep(p) \/ Stamp(p)
        PROVE UNCHANGED Store!vars
    <3>1. PICK next \in Opening : pc' = [pc EXCEPT ![p] = next]
      <4>1. CASE Begin(p)
        BY <4>1 DEF Begin, Opening, InTransaction
      <4>2. CASE ApplyStep(p)
        BY <4>2 DEF ApplyStep, Opening, InTransaction, IInv, TypeOK
      <4>3. CASE Stamp(p)
        BY <4>3 DEF Stamp, Opening, InTransaction
      <4> QED
        BY <2>5, <4>1, <4>2, <4>3
    <3>2. pc[p] \in Opening /\ UNCHANGED <<version, applied, target>>
      BY <2>5 DEF Begin, ApplyStep, Stamp, Opening, InTransaction
    <3> QED
      BY <3>1, <3>2, OpeningStutters
  <2>6. ASSUME NEW p \in Openers, Commit(p) PROVE Store!Upgrade(p, target[p])
    <3>1. /\ target[p] \in Versions /\ version < target[p]
          /\ version' = target[p] /\ applied' = Shape(target[p])
      BY <2>6 DEF Commit, IInv, WorkMatchesCursor, TypeOK
    <3> QED
      BY <2>6, <3>1 DEF Commit, Store!Upgrade, IInv, TypeOK, Shape, Store!Shape,
                        Versions, Store!Versions
  <2>7. ASSUME NEW p \in Openers, OpenReadOnly(p) PROVE Store!Release(p) \/ Store!Grant(p)
    <3>1. PICK t \in Versions, seen \in Readings(version) :
             /\ target' = [target EXCEPT ![p] = t]
             /\ pc' = [pc EXCEPT ![p] = IF seen = t THEN "readOnly" ELSE "refused"]
      BY <2>7 DEF OpenReadOnly
    <3>2. CASE seen = t
      <4>1. version = t /\ t # 0
        BY <3>2 DEF Readings, Unreadable, Versions
      <4> QED
        BY <2>7, <3>1, <3>2, <4>1 DEF OpenReadOnly, Store!Grant, IInv, TypeOK
    <3>3. CASE seen # t
      BY <2>7, <3>1, <3>3 DEF OpenReadOnly, Store!Release, IInv, TypeOK
    <3> QED
      BY <3>2, <3>3
  <2>8. CASE UNCHANGED vars
    BY <2>8 DEF vars, Store!vars
  <2>9. ASSUME NEW p \in Openers, Commit(p) PROVE Store!Next
    <3>1. target[p] \in Store!Versions
      BY DEF Store!Versions, Versions, IInv, TypeOK
    <3>2. \E t \in Store!Versions : Store!Upgrade(p, t)
      BY <2>6, <2>9, <3>1 DEF Store!Upgrade
    <3> QED
      BY <3>2 DEF Store!Next
  <2>10. ASSUME NEW p \in Openers, Store!Release(p) \/ Store!Grant(p) PROVE Store!Next
    BY <2>10 DEF Store!Next
  <2>11. CASE Next
    <3>1. PICK p \in Openers : Step(p) \/ Open(p) \/ OpenFails(p) \/ OpenReadOnly(p) \/ Exit(p)
      BY <2>11 DEF Next
    <3>2. CASE Step(p)
      BY <2>2, <2>3, <2>4, <2>5, <2>9, <2>10, <3>2 DEF Step
    <3> QED
      BY <2>1, <2>2, <2>7, <2>10, <3>1, <3>2
  <2> QED
    BY <2>8, <2>11
<1> QED
  BY <1>1, <1>2, Invariance, PTL DEF Spec, ImplementsStore, Store!Spec
==============================================================================
