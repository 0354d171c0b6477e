---------------------------- MODULE TearTA_proofs ----------------------------
(***************************************************************************)
(* Proofs about the OP-TEE back end: what holds for any number of sessions *)
(* at once, and that a single session implements TrustRegistry.            *)
(***************************************************************************)
EXTENDS TearTAProps, RecordTable_proofs

-----------------------------------------------------------------------------
(* What holds however many sessions there are.                             *)

LEMMA InitBase == Init => BaseInv
BY DEF Init, BaseInv, TypeOK, SessionConsistent, OneRecordPerArtifact, OnePerArtifact

LEMMA InvokeBase ==
    ASSUME BaseInv, NEW s \in Session, NEW r \in Request, Invoke(s, r)
    PROVE  BaseInv'
<1>1. /\ r.cmd \in ManifestCommand => r.arg \in Manifest
      /\ r.cmd = "RECORD_DECISION" => r.arg \in Decision
      /\ r # None
  BY RequestArgument DEF Invoke, NeedsArgument
<1>2. \/ r.cmd = "ENROLL" /\ Entry(r) = "read"
      \/ r.cmd \in {"UPDATE", "VERIFY"} /\ Entry(r) = "find"
      \/ r.cmd = "RECORD_DECISION" /\ Entry(r) = "record"
      \/ r.cmd = "REPORT" /\ Entry(r) = "latest"
      \/ r.cmd = "REPORT_DECISION" /\ Entry(r) = "decision"
  BY RequestArgument DEF Entry
<1>3. /\ pc' = [pc EXCEPT ![s] = Entry(r)]
      /\ request' = [request EXCEPT ![s] = r]
      /\ answer' = [answer EXCEPT ![s] = None]
      /\ UNCHANGED <<db, lastDecision, found, table>>
  BY DEF Invoke, storage
<1>4. TypeOK'
  BY <1>2, <1>3 DEF BaseInv, TypeOK
<1>5. SessionConsistent'
  <2> SUFFICES ASSUME NEW t \in Session
               PROVE  SessionConsistent!(t)'
    BY DEF SessionConsistent
  <2>1. CASE t = s
    BY <1>1, <1>2, <1>3, <2>1 DEF BaseInv, TypeOK, StoreCommand, ManifestCommand
  <2>2. CASE t # s
    BY <1>3, <2>2 DEF BaseInv, TypeOK, SessionConsistent
  <2>3. QED
    BY <2>1, <2>2
<1>6. QED
  BY <1>3, <1>4, <1>5 DEF BaseInv, OneRecordPerArtifact

\* A command that returns, whatever it did to the storage.
LEMMA FinishBase ==
    ASSUME BaseInv, NEW s \in Session, NEW a \in Answer, Finish(s, a),
           pc[s] # "idle", lastDecision' \in Decision \cup {None},
           db' \in Seq(Manifest), OnePerArtifact(db')
    PROVE  BaseInv'
<1>1. /\ pc' = [pc EXCEPT ![s] = "done"]
      /\ answer' = [answer EXCEPT ![s] = a]
      /\ found' = [found EXCEPT ![s] = None]
      /\ table' = [table EXCEPT ![s] = <<>>]
      /\ UNCHANGED request
  BY DEF Finish
<1>2. TypeOK'
  BY <1>1 DEF BaseInv, TypeOK
<1>3. SessionConsistent'
  BY <1>1 DEF BaseInv, TypeOK, SessionConsistent
<1>4. \A t \in Session : OnePerArtifact(table'[t])
  <2>1. OnePerArtifact(<<>>)
    BY DEF OnePerArtifact
  <2>2. QED
    BY <1>1, <2>1 DEF BaseInv, TypeOK
<1>5. QED
  BY <1>2, <1>3, <1>4 DEF BaseInv, OneRecordPerArtifact

LEMMA CommandBase ==
    ASSUME BaseInv, NEW s \in Session, Command(s)
    PROVE  BaseInv'
<1>1. CASE FindForUpdate(s)
  <2>1. Lookup(db, request[s].arg.artifact) \in Manifest
    BY <1>1, LookupType DEF FindForUpdate, Found, BaseInv, TypeOK, OneRecordPerArtifact
  <2>2. /\ found' = [found EXCEPT ![s] = Lookup(db, request[s].arg.artifact)]
        /\ pc' = [pc EXCEPT ![s] = "read"]
        /\ pc[s] = "find"
        /\ request[s].cmd = "UPDATE"
        /\ UNCHANGED <<db, lastDecision, table, request, answer>>
    BY <1>1 DEF FindForUpdate, Found, Goto, storage
  <2>3. TypeOK'
    BY <2>1, <2>2 DEF BaseInv, TypeOK
  <2>4. SessionConsistent'
    BY <2>2 DEF BaseInv, TypeOK, SessionConsistent, StoreCommand
  <2>5. QED
    BY <2>2, <2>3, <2>4 DEF BaseInv, OneRecordPerArtifact
<1>2. CASE ReadTable(s)
  <2>1. /\ table' = [table EXCEPT ![s] = db]
        /\ pc' = [pc EXCEPT ![s] = "write"]
        /\ pc[s] = "read"
        /\ UNCHANGED <<db, lastDecision, found, request, answer>>
    BY <1>2 DEF ReadTable, Goto, storage
  <2>2. TypeOK'
    BY <2>1 DEF BaseInv, TypeOK
  <2>3. SessionConsistent'
    BY <2>1 DEF BaseInv, TypeOK, SessionConsistent
  <2>4. \A t \in Session : OnePerArtifact(table'[t])
    BY <2>1 DEF BaseInv, TypeOK, OneRecordPerArtifact
  <2>5. QED
    BY <2>1, <2>2, <2>3, <2>4 DEF BaseInv, OneRecordPerArtifact
<1>3. CASE WriteTable(s)
  <2>1. request[s].arg \in Manifest /\ table[s] \in Seq(Manifest) /\ OnePerArtifact(table[s])
    BY <1>3 DEF WriteTable, BaseInv, TypeOK, SessionConsistent
  <2>2. db' \in Seq(Manifest) /\ OnePerArtifact(db')
    BY <1>3, <2>1, UpsertType, UpsertLookup DEF WriteTable
  <2>3. QED
    BY <1>3, <2>2, FinishBase, ReplyTypes DEF WriteTable, BaseInv, TypeOK
<1>4. CASE Latest(s)
  <2>1. db # <<>> /\ db \in Seq(Manifest)
    BY <1>4 DEF Latest, Readable, BaseInv, TypeOK
  <2>2. db[Len(db)] \in Manifest
    BY <2>1
  <2>3. QED
    BY <1>4, <2>2, FinishBase, ReplyTypes DEF Latest, storage, BaseInv, TypeOK,
      OneRecordPerArtifact
<1>5. CASE RecordDecision(s)
  <2>1. lastDecision' \in Decision
    BY <1>5 DEF RecordDecision, BaseInv, SessionConsistent
  <2>2. QED
    BY <1>5, <2>1, FinishBase, ReplyTypes DEF RecordDecision, BaseInv, TypeOK,
      OneRecordPerArtifact
<1>6. CASE FindForVerify(s) \/ ReportDecision(s) \/ Fail(s)
  BY <1>6, FinishBase, ReplyTypes DEF FindForVerify, ReportDecision, Fail,
    storage, BaseInv, TypeOK, OneRecordPerArtifact
<1>7. CASE Return(s)
  <2>1. /\ pc' = [pc EXCEPT ![s] = "idle"]
        /\ request' = [request EXCEPT ![s] = None]
        /\ UNCHANGED <<db, lastDecision, found, table, answer>>
    BY <1>7 DEF Return, storage
  <2>2. TypeOK' /\ SessionConsistent'
    BY <2>1 DEF BaseInv, TypeOK, SessionConsistent
  <2>3. QED
    BY <2>1, <2>2 DEF BaseInv, OneRecordPerArtifact
<1>8. QED
  BY <1>1, <1>2, <1>3, <1>4, <1>5, <1>6, <1>7 DEF Command

LEMMA PowerLossBase ==
    ASSUME BaseInv, PowerLoss
    PROVE  BaseInv'
<1>1. TypeOK'
  BY ReplyTypes DEF BaseInv, TypeOK, PowerLoss, storage
<1>2. QED
  BY <1>1 DEF BaseInv, PowerLoss, storage, SessionConsistent,
    OneRecordPerArtifact, OnePerArtifact

LEMMA NextBase ==
    ASSUME BaseInv, [Next]_vars
    PROVE  BaseInv'
<1>1. CASE UNCHANGED vars
  BY <1>1 DEF vars, storage, BaseInv, TypeOK, SessionConsistent, OneRecordPerArtifact
<1>2. QED
  BY <1>1, InvokeBase, CommandBase, PowerLossBase DEF Next

LEMMA BaseInvariant == Spec => []BaseInv
<1>1. Init => BaseInv
  BY InitBase
<1>2. BaseInv /\ [Next]_vars => BaseInv'
  BY NextBase
<1>3. QED
  BY <1>1, <1>2, PTL DEF Spec

\* Every reachable state of the application is well-typed, its answers
\* included, however many sessions overlap.
THEOREM TypeCorrect == Spec => []TypeOK
<1>1. BaseInv => TypeOK
  BY DEF BaseInv
<1>2. QED
  BY <1>1, BaseInvariant, PTL

\* The persistent table has one record per artifact however many sessions
\* overlap: a lost update loses a record, it never duplicates one.
THEOREM OneRecord == Spec => []OneRecordPerArtifact
<1>1. BaseInv => OneRecordPerArtifact
  BY DEF BaseInv
<1>2. QED
  BY <1>1, BaseInvariant, PTL

\* What is written can be read back: the limits of append_record and of
\* read_trusted_state_db agree, for every length of record and every size of
\* the buffer.
THEOREM StaysReadable == Spec => []TableStaysReadable
<1>1. Init => TableStaysReadable
  BY DEF Init, TableStaysReadable
<1>2. TableStaysReadable /\ BaseInv /\ [Next]_vars => TableStaysReadable'
  <2> SUFFICES ASSUME TableStaysReadable, BaseInv, [Next]_vars
               PROVE  TableStaysReadable'
    OBVIOUS
  <2>1. CASE \E s \in Session : WriteTable(s)
    <3>1. PICK s \in Session : WriteTable(s)
      BY <2>1
    <3>2. Bytes(db') < DbMax
      BY <3>1 DEF WriteTable, Writable
    <3>3. QED
      BY <3>2 DEF TableStaysReadable, Readable, Bytes
  <2>2. CASE ~ \E s \in Session : WriteTable(s)
    <3>1. UNCHANGED db
      BY <2>2 DEF Next, vars, storage, Invoke, Command, FindForUpdate,
        FindForVerify, ReadTable, Latest, RecordDecision, ReportDecision, Fail,
        Return, PowerLoss
    <3>2. QED
      BY <3>1 DEF TableStaysReadable, Readable, Bytes
  <2>3. QED
    BY <2>1, <2>2
<1>3. QED
  BY <1>1, <1>2, BaseInvariant, PTL DEF Spec

-----------------------------------------------------------------------------
\* An UPDATE that was not checked never reaches the write, whoever runs beside
\* it: the record it was checked against stays with the session.
LEMMA CommandCheck ==
    ASSUME BaseInv, UpdateChecked, NEW s \in Session, Command(s)
    PROVE  UpdateChecked'
<1>1. CASE FindForUpdate(s)
  <2>1. Lookup(db, request[s].arg.artifact) \in Manifest
    BY <1>1, LookupType DEF FindForUpdate, Found, BaseInv, TypeOK, OneRecordPerArtifact
  <2>2. /\ found' = [found EXCEPT ![s] = Lookup(db, request[s].arg.artifact)]
        /\ pc' = [pc EXCEPT ![s] = "read"]
        /\ UpdateAllowed(Lookup(db, request[s].arg.artifact), request[s].arg)
        /\ UNCHANGED request
    BY <1>1 DEF FindForUpdate, Found, Goto
  <2>3. QED
    BY <2>1, <2>2 DEF UpdateChecked, BaseInv, TypeOK
<1>2. CASE ReadTable(s)
  BY <1>2 DEF ReadTable, Goto, UpdateChecked, BaseInv, TypeOK
<1>3. CASE \E a : Finish(s, a)
  BY <1>3 DEF Finish, UpdateChecked, BaseInv, TypeOK
<1>4. CASE Return(s)
  BY <1>4 DEF Return, UpdateChecked, BaseInv, TypeOK
<1>5. QED
  BY <1>1, <1>2, <1>3, <1>4 DEF Command, FindForVerify, WriteTable, Latest,
    RecordDecision, ReportDecision, Fail

LEMMA NextCheck ==
    ASSUME BaseInv, UpdateChecked, [Next]_vars
    PROVE  UpdateChecked'
<1>1. ASSUME NEW s \in Session, NEW r \in Request, Invoke(s, r)
      PROVE  UpdateChecked'
  <2>1. /\ pc' = [pc EXCEPT ![s] = Entry(r)]
        /\ request' = [request EXCEPT ![s] = r]
        /\ UNCHANGED found
    BY <1>1 DEF Invoke
  <2>2. Entry(r) # "write" /\ (Entry(r) = "read" => r.cmd = "ENROLL")
    BY RequestArgument DEF Entry
  <2>3. QED
    BY <2>1, <2>2 DEF UpdateChecked, BaseInv, TypeOK
<1>2. CASE PowerLoss
  BY <1>2 DEF PowerLoss, UpdateChecked
<1>3. CASE UNCHANGED vars
  BY <1>3 DEF vars, UpdateChecked
<1>4. QED
  BY <1>1, <1>2, <1>3, CommandCheck DEF Next

\* However many sessions overlap, a record goes back or away only when an
\* ENROLL of it is written, or by the write of a command during which another
\* session has written: without overlap the application enforces the policy.
THEOREM RollbackOverlap == Spec => RollbackNeedsOverlap
<1> DEFINE Kept(a) == Lookup(db, a) # None /\ Lookup(db', a) # Lookup(db, a) =>
               \/ Lookup(db', a) # None /\ UpdateAllowed(Lookup(db, a), Lookup(db', a))
               \/ \E s \in Session :
                   /\ pc[s] = "write"
                   /\ pc'[s] = "done"
                   /\ \/ request[s].cmd = "ENROLL" /\ request[s].arg.artifact = a
                      \/ Overlapped(s)
<1>1. ASSUME BaseInv, UpdateChecked, Next, NEW a \in Artifact
      PROVE  Kept(a)
  <2>1. CASE UNCHANGED db
    BY <2>1
  <2>2. ASSUME NEW s \in Session, WriteTable(s)
        PROVE  Kept(a)
    <3> DEFINE m == request[s].arg
    <3>1. pc[s] = "write" /\ pc'[s] = "done"
      BY <1>1, <2>2 DEF WriteTable, Finish, BaseInv, TypeOK
    <3>2. CASE Overlapped(s)
      BY <3>1, <3>2
    <3>3. CASE ~Overlapped(s)
      <4>1. /\ m \in Manifest /\ request[s].cmd \in StoreCommand
            /\ db \in Seq(Manifest) /\ OnePerArtifact(db)
            /\ db' = Upsert(db, m)
        BY <1>1, <2>2, <3>1, <3>3 DEF WriteTable, Overlapped, BaseInv, TypeOK,
          SessionConsistent, OneRecordPerArtifact
      <4>2. m # None /\ Lookup(db', a) = IF a = m.artifact THEN m ELSE Lookup(db, a)
        BY <4>1, UpsertLookup, NoneAssumption
      <4>3. request[s].cmd = "UPDATE" => UpdateAllowed(Lookup(db, m.artifact), m)
        BY <1>1, <3>1, <3>3 DEF UpdateChecked, Overlapped
      <4> HIDE DEF m
      <4>4. CASE a # m.artifact
        BY <4>2, <4>4
      <4>5. CASE a = m.artifact /\ request[s].cmd = "ENROLL"
        BY <3>1, <4>5 DEF m
      <4>6. CASE a = m.artifact /\ request[s].cmd = "UPDATE"
        BY <4>2, <4>3, <4>6
      <4>7. QED
        BY <4>1, <4>4, <4>5, <4>6 DEF StoreCommand
    <3>4. QED
      BY <3>2, <3>3
  <2>3. QED
    BY <1>1, <2>1, <2>2 DEF Next, Command, Invoke, FindForUpdate, FindForVerify, ReadTable,
      Latest, RecordDecision, ReportDecision, Fail, Return, PowerLoss, storage
<1>2. BaseInv /\ UpdateChecked /\ [Next]_vars => [\A a \in Artifact : Kept(a)]_vars
  BY <1>1
<1>3. Init => UpdateChecked
  BY DEF Init, UpdateChecked
<1>4. BaseInv /\ UpdateChecked /\ [Next]_vars => UpdateChecked'
  BY NextCheck
<1>5. QED
  BY <1>2, <1>3, <1>4, BaseInvariant, PTL DEF Spec, RollbackNeedsOverlap

-----------------------------------------------------------------------------
(* What holds when commands do not overlap: trustd is the only client and  *)
(* serves one request at a time.                                           *)

OneSession == \A s, t \in Session : s = t

LEMMA CommandSerial ==
    ASSUME OneSession, SerialInv, NEW s \in Session, Command(s)
    PROVE  NothingBetween'
<1>1. \A t \in Session : t = s
  BY DEF OneSession
<1>2. CASE FindForUpdate(s)
  BY <1>1, <1>2 DEF FindForUpdate, Found, Goto, storage, SerialInv, NothingBetween,
    BaseInv, TypeOK
<1>3. CASE ReadTable(s)
  BY <1>1, <1>3 DEF ReadTable, Goto, storage, SerialInv, NothingBetween, BaseInv, TypeOK
<1>4. CASE \E a : Finish(s, a)
  BY <1>1, <1>4 DEF Finish, SerialInv, NothingBetween, BaseInv, TypeOK
<1>5. CASE Return(s)
  BY <1>1, <1>5 DEF Return, SerialInv, NothingBetween, BaseInv, TypeOK
<1>6. QED
  BY <1>2, <1>3, <1>4, <1>5 DEF Command, FindForVerify, WriteTable, Latest,
    RecordDecision, ReportDecision, Fail

LEMMA NextSerial ==
    ASSUME OneSession, SerialInv, [Next]_vars
    PROVE  SerialInv'
<1>1. BaseInv' /\ UpdateChecked'
  BY NextBase, NextCheck DEF SerialInv
<1>2. ASSUME NEW s \in Session, NEW r \in Request, Invoke(s, r)
      PROVE  NothingBetween'
  <2>1. /\ pc' = [pc EXCEPT ![s] = Entry(r)]
        /\ request' = [request EXCEPT ![s] = r]
        /\ UNCHANGED <<db, found, table>>
    BY <1>2 DEF Invoke, storage
  <2>2. Entry(r) # "write" /\ (Entry(r) = "read" => r.cmd = "ENROLL")
    BY RequestArgument DEF Entry
  <2>3. QED
    BY <2>1, <2>2 DEF SerialInv, NothingBetween, BaseInv, TypeOK
<1>3. PowerLoss => NothingBetween'
  BY DEF PowerLoss, NothingBetween
<1>4. UNCHANGED vars => NothingBetween'
  BY DEF vars, storage, SerialInv, NothingBetween
<1>5. NothingBetween'
  BY <1>2, <1>3, <1>4, CommandSerial DEF Next
<1>6. QED
  BY <1>1, <1>5 DEF SerialInv

LEMMA SerialInvariant ==
    ASSUME OneSession
    PROVE  Spec => []SerialInv
<1>1. Init => SerialInv
  BY InitBase DEF Init, SerialInv, UpdateChecked, NothingBetween
<1>2. SerialInv /\ [Next]_vars => SerialInv'
  BY NextSerial
<1>3. QED
  BY <1>1, <1>2, PTL DEF Spec

\* A command changes the record of one artifact, the one it is about: with one
\* session it writes the table it has read.
LEMMA WritesOneRecord ==
    ASSUME SerialInv, NEW s \in Session, WriteTable(s)
    PROVE  LET m == request[s].arg IN
           /\ m \in Manifest /\ request[s].cmd \in StoreCommand
           /\ \A a : Lookup(db', a) = IF a = m.artifact THEN m ELSE Lookup(db, a)
<1>1. /\ request[s].arg \in Manifest /\ request[s].cmd \in StoreCommand
      /\ db \in Seq(Manifest) /\ OnePerArtifact(db)
      /\ db' = Upsert(db, request[s].arg)
  BY DEF WriteTable, SerialInv, NothingBetween, BaseInv, TypeOK, SessionConsistent,
    OneRecordPerArtifact
<1>2. QED
  BY <1>1, UpsertLookup

\* With one session, the version that the application trusts for an artifact is
\* lowered, or its back end changed, only by the ENROLL of a record for it.
THEOREM RollbackNeedsEnroll ==
    ASSUME OneSession
    PROVE  Spec => RollbackOnlyByEnroll
<1> DEFINE Kept(a) == Lookup(db, a) # None /\ Lookup(db', a) # Lookup(db, a) =>
               \/ Lookup(db', a) # None /\ UpdateAllowed(Lookup(db, a), Lookup(db', a))
               \/ \E s \in Session :
                   /\ pc[s] = "write"
                   /\ pc'[s] = "done"
                   /\ request[s].cmd = "ENROLL"
                   /\ request[s].arg.artifact = a
<1>1. ASSUME SerialInv, Next, NEW a \in Artifact
      PROVE  Kept(a)
  <2>1. CASE UNCHANGED db
    BY <2>1
  <2>2. ASSUME NEW s \in Session, WriteTable(s)
        PROVE  Kept(a)
    <3> DEFINE m == request[s].arg
    <3>1. /\ m \in Manifest /\ m # None /\ request[s].cmd \in StoreCommand
          /\ Lookup(db', a) = IF a = m.artifact THEN m ELSE Lookup(db, a)
      BY <1>1, <2>2, WritesOneRecord, NoneAssumption DEF Manifest
    <3>2. pc[s] = "write" /\ pc'[s] = "done"
      BY <1>1, <2>2 DEF WriteTable, Finish, SerialInv, BaseInv, TypeOK
    <3>3. request[s].cmd = "UPDATE" => UpdateAllowed(Lookup(db, m.artifact), m)
      BY <1>1, <3>2 DEF SerialInv, UpdateChecked, NothingBetween
    <3> HIDE DEF m
    <3>4. CASE a # m.artifact
      BY <3>1, <3>4
    <3>5. CASE a = m.artifact /\ request[s].cmd = "ENROLL"
      BY <3>2, <3>5 DEF m
    <3>6. CASE a = m.artifact /\ request[s].cmd = "UPDATE"
      BY <3>1, <3>3, <3>6
    <3>7. QED
      BY <3>1, <3>4, <3>5, <3>6 DEF StoreCommand
  <2>3. QED
    BY <1>1, <2>1, <2>2 DEF Next, Command, Invoke, FindForUpdate, FindForVerify, ReadTable,
      Latest, RecordDecision, ReportDecision, Fail, Return, PowerLoss, storage
<1>2. SerialInv /\ [Next]_vars => [\A a \in Artifact : Kept(a)]_vars
  BY <1>1
<1>3. QED
  BY <1>2, SerialInvariant, PTL DEF Spec, RollbackOnlyByEnroll

\* With one session every artifact keeps its place in the table, so what REPORT
\* is about changes only when a new artifact is enrolled.
THEOREM OrderKept ==
    ASSUME OneSession
    PROVE  Spec => StoresKeepOrder
<1>1. ASSUME SerialInv, Next
      PROVE  SamePlaces(db, db')
  <2>1. CASE UNCHANGED db
    BY <2>1 DEF SamePlaces
  <2>2. ASSUME NEW s \in Session, WriteTable(s)
        PROVE  SamePlaces(db, db')
    <3>1. /\ request[s].arg \in Manifest /\ db \in Seq(Manifest)
          /\ db' = Upsert(db, request[s].arg)
      BY <1>1, <2>2 DEF WriteTable, SerialInv, NothingBetween, BaseInv, TypeOK, SessionConsistent
    <3>2. QED
      BY <3>1, UpsertKeepsPlaces
  <2>3. QED
    BY <1>1, <2>1, <2>2 DEF Next, Command, Invoke, FindForUpdate, FindForVerify, ReadTable,
      Latest, RecordDecision, ReportDecision, Fail, Return, PowerLoss, storage
<1>2. SerialInv /\ [Next]_vars => [SamePlaces(db, db')]_vars
  BY <1>1
<1>3. QED
  BY <1>2, SerialInvariant, PTL DEF Spec, StoresKeepOrder

-----------------------------------------------------------------------------
(* The refinement.                                                         *)

\* A command that settles a result.
LEMMA FinishServes ==
    ASSUME BaseInv, NEW s \in Session, NEW a, Finish(s, a), pc[s] \notin {"idle", "done"}
    PROVE  stageBar[s] = "pending" /\ Registry!Served(s, a)
<1>1. /\ pc' = [pc EXCEPT ![s] = "done"]
      /\ answer' = [answer EXCEPT ![s] = a]
      /\ UNCHANGED request
  BY DEF Finish
<1>2. stageBar[s] = "pending"
  BY DEF stageBar
<1>3. stageBar' = [stageBar EXCEPT ![s] = "served"]
  BY <1>1 DEF stageBar, BaseInv, TypeOK
<1>4. QED
  BY <1>1, <1>2, <1>3 DEF Registry!Served

LEMMA RefinesInvoke ==
    ASSUME BaseInv, NEW s \in Session, NEW r \in Request, Invoke(s, r)
    PROVE  Registry!Next
<1>1. /\ pc[s] = "idle"
      /\ pc' = [pc EXCEPT ![s] = Entry(r)]
      /\ request' = [request EXCEPT ![s] = r]
      /\ answer' = [answer EXCEPT ![s] = None]
      /\ UNCHANGED <<db, lastDecision>>
  BY DEF Invoke, storage
<1>2. Entry(r) \in {"read", "find", "record", "latest", "decision"}
  BY RequestArgument DEF Entry
<1>3. stageBar[s] = "idle" /\ stageBar' = [stageBar EXCEPT ![s] = "pending"]
  BY <1>1, <1>2 DEF stageBar, BaseInv, TypeOK
<1>4. UNCHANGED <<trustedBar, lastDecision>>
  BY <1>1 DEF trustedBar
<1>5. Registry!Call(s, r)
  BY <1>1, <1>3, <1>4 DEF Registry!Call
<1>6. QED
  BY <1>5 DEF Registry!Next, Registry!Request, Request, Registry!ManifestCommand,
    ManifestCommand, Registry!StoreCommand, StoreCommand, Registry!Manifest, Manifest

LEMMA RefinesCommand ==
    ASSUME SerialInv, NEW s \in Session, Command(s)
    PROVE  Registry!Next \/ UNCHANGED Registry!vars
<1> DEFINE m == request[s].arg
<1>0. BaseInv
  BY DEF SerialInv
<1>1. CASE FindForUpdate(s) \/ ReadTable(s)
  <2>1. stageBar' = stageBar
    BY <1>0, <1>1 DEF FindForUpdate, ReadTable, Goto, stageBar, BaseInv, TypeOK
  <2>2. UNCHANGED <<trustedBar, lastDecision, request, answer>>
    BY <1>1 DEF FindForUpdate, ReadTable, Goto, storage, trustedBar
  <2>3. QED
    BY <2>1, <2>2 DEF Registry!vars
<1>2. CASE Fail(s)
  <2>1. stageBar[s] = "pending" /\ Registry!Served(s, Reply("ERR"))
    BY <1>0, <1>2, FinishServes DEF Fail
  <2>2. UNCHANGED <<trustedBar, lastDecision>>
    BY <1>2 DEF Fail, storage, trustedBar
  <2>3. QED
    BY <2>1, <2>2 DEF Registry!Next, Registry!Serve, Registry!Deny,
      Registry!Reply, Reply
<1>3. CASE FindForVerify(s)
  <2>1. stageBar[s] = "pending" /\ Registry!Served(s, Reply("OK"))
    BY <1>0, <1>3, FinishServes DEF FindForVerify
  <2>2. UNCHANGED <<trustedBar, lastDecision>> /\ request[s].cmd = "VERIFY"
    BY <1>3 DEF FindForVerify, storage, trustedBar
  <2>3. m \in Manifest /\ Lookup(db, m.artifact) \in Manifest
    BY <1>0, <1>3, LookupType DEF FindForVerify, Found, BaseInv, TypeOK,
      SessionConsistent, OneRecordPerArtifact
  <2>4. Lookup(db, m.artifact) = m
    BY <1>3, <2>3 DEF FindForVerify, Found, SameManifest, Manifest
  <2>5. trustedBar[m.artifact] = m /\ m # None
    BY <2>3, <2>4, NoneAssumption DEF trustedBar, Manifest
  <2>6. QED
    BY <2>1, <2>2, <2>5 DEF Registry!Next, Registry!Serve, Registry!Verify,
      Registry!Reply, Reply
<1>4. CASE WriteTable(s)
  <2>1. stageBar[s] = "pending" /\ Registry!Served(s, Reply("OK"))
    BY <1>0, <1>4, FinishServes DEF WriteTable
  <2>2. UNCHANGED lastDecision
    BY <1>4 DEF WriteTable
  <2>3. /\ m \in Manifest /\ request[s].cmd \in {"ENROLL", "UPDATE"}
        /\ \A a : Lookup(db', a) = IF a = m.artifact THEN m ELSE Lookup(db, a)
    BY <1>4, WritesOneRecord DEF StoreCommand
  <2>4. m.artifact \in Artifact /\ m # None
    BY <2>3, NoneAssumption DEF Manifest
  <2>5. trustedBar' = [trustedBar EXCEPT ![m.artifact] = m]
    BY <2>3, <2>4 DEF trustedBar
  <2>6. request[s].cmd = "UPDATE" =>
            /\ trustedBar[m.artifact] # None
            /\ UpdateAllowed(trustedBar[m.artifact], m)
    <3>1. request[s].cmd = "UPDATE" =>
            /\ found[s] \in Manifest
            /\ Lookup(db, m.artifact) = found[s]
            /\ UpdateAllowed(found[s], m)
      BY <1>4 DEF WriteTable, SerialInv, UpdateChecked, NothingBetween
    <3>2. QED
      BY <2>4, <3>1, NoneAssumption DEF trustedBar
  <2>7. Registry!Store(s)
    BY <2>1, <2>2, <2>3, <2>4, <2>5, <2>6 DEF Registry!Store, Registry!StoreCommand,
      Registry!Reply, Reply, Registry!UpdateAllowed, UpdateAllowed
  <2>8. QED
    BY <2>1, <2>7 DEF Registry!Next, Registry!Serve
<1>5. CASE Latest(s)
  <2>1. db # <<>> /\ db \in Seq(Manifest) /\ OnePerArtifact(db)
    BY <1>0, <1>5 DEF Latest, Readable, BaseInv, TypeOK, OneRecordPerArtifact
  <2>2. Len(db) \in DOMAIN db /\ db[Len(db)] \in Manifest
    BY <2>1
  <2> DEFINE a == db[Len(db)].artifact
  <2>3. Lookup(db, a) = db[Len(db)]
    BY <2>1, <2>2, LookupFinds
  <2>4. a \in Artifact /\ trustedBar[a] = db[Len(db)] /\ db[Len(db)] # None
    BY <2>2, <2>3, NoneAssumption DEF trustedBar, Manifest
  <2>5. stageBar[s] = "pending" /\ Registry!Served(s, StateReply(trustedBar[a]))
    BY <1>0, <1>5, <2>4, FinishServes DEF Latest
  <2>6. UNCHANGED <<trustedBar, lastDecision>> /\ request[s].cmd = "REPORT"
    BY <1>0, <1>5 DEF Latest, storage, trustedBar, BaseInv, SessionConsistent
  <2>7. QED
    BY <2>4, <2>5, <2>6 DEF Registry!Next, Registry!Serve, Registry!Report,
      Registry!StateReply, StateReply
<1>6. CASE RecordDecision(s)
  <2>1. stageBar[s] = "pending" /\ Registry!Served(s, Reply("OK"))
    BY <1>0, <1>6, FinishServes DEF RecordDecision
  <2>2. /\ request[s].cmd = "RECORD_DECISION"
        /\ request[s].arg # None
        /\ lastDecision' = request[s].arg
        /\ UNCHANGED trustedBar
    BY <1>0, <1>6, NoneAssumption DEF RecordDecision, BaseInv,
      SessionConsistent, trustedBar
  <2>3. QED
    BY <2>1, <2>2 DEF Registry!Next, Registry!Serve, Registry!RecordDecision,
      Registry!Reply, Reply
<1>7. CASE ReportDecision(s)
  <2>1. stageBar[s] = "pending" /\ Registry!Served(s, DecisionReply(lastDecision))
    BY <1>0, <1>7, FinishServes DEF ReportDecision
  <2>2. /\ request[s].cmd = "REPORT_DECISION"
        /\ lastDecision # None
        /\ UNCHANGED <<trustedBar, lastDecision>>
    BY <1>0, <1>7 DEF ReportDecision, storage, BaseInv, SessionConsistent, trustedBar
  <2>3. QED
    BY <2>1, <2>2 DEF Registry!Next, Registry!Serve, Registry!ReportDecision,
      Registry!DecisionReply, DecisionReply
<1>8. CASE Return(s)
  <2>1. stageBar[s] = "served" /\ stageBar' = [stageBar EXCEPT ![s] = "idle"]
    BY <1>0, <1>8 DEF Return, stageBar, BaseInv, TypeOK
  <2>2. /\ request' = [request EXCEPT ![s] = None]
        /\ UNCHANGED <<trustedBar, lastDecision, answer>>
    BY <1>8 DEF Return, storage, trustedBar
  <2>3. QED
    BY <2>1, <2>2 DEF Registry!Next, Registry!Return
<1>9. QED
  BY <1>1, <1>2, <1>3, <1>4, <1>5, <1>6, <1>7, <1>8 DEF Command

LEMMA RefinesPowerLoss ==
    ASSUME BaseInv, PowerLoss
    PROVE  Registry!Next
<1> DEFINE S == {s \in Session : request[s] # None}
<1>1. \A s \in Session : s \in S <=> stageBar[s] # "idle"
  BY DEF BaseInv, TypeOK, SessionConsistent, stageBar
<1>2. stageBar' = [s \in Session |-> IF s \in S THEN "idle" ELSE stageBar[s]]
  <2>1. stageBar' = [s \in Session |-> "idle"]
    BY DEF PowerLoss, stageBar
  <2>2. QED
    BY <1>1, <2>1
<1>3. request' = [s \in Session |-> IF s \in S THEN None ELSE request[s]]
  BY DEF PowerLoss
<1>4. answer' = [s \in Session |-> IF s \in S THEN Reply("LOST") ELSE answer[s]]
  BY DEF PowerLoss
<1>5. UNCHANGED <<trustedBar, lastDecision>>
  BY DEF PowerLoss, storage, trustedBar
<1>6. Registry!Lose(S)
  BY <1>1, <1>2, <1>3, <1>4, <1>5 DEF Registry!Lose, Registry!Reply, Reply
<1>7. S \in SUBSET Session
  OBVIOUS
<1>8. QED
  BY <1>6, <1>7 DEF Registry!Next

\* With one session at a time the trusted application promises what
\* TrustRegistry says, through failed accesses to storage, a full table and
\* restarts of the device.
THEOREM TAImplementsRegistry ==
    ASSUME OneSession
    PROVE  Spec => ImplementsRegistry
<1>1. Init => Registry!Init
  <2> SUFFICES ASSUME Init PROVE Registry!Init
    OBVIOUS
  <2>1. trustedBar = [a \in Artifact |-> None]
    BY LookupMisses DEF Init, trustedBar
  <2>2. stageBar = [s \in Session |-> "idle"]
    BY DEF Init, stageBar
  <2>3. QED
    BY <2>1, <2>2 DEF Init, Registry!Init
<1>2. SerialInv /\ [Next]_vars => [Registry!Next]_Registry!vars
  <2> SUFFICES ASSUME SerialInv, [Next]_vars
               PROVE  Registry!Next \/ UNCHANGED Registry!vars
    OBVIOUS
  <2>1. BaseInv
    BY DEF SerialInv
  <2>2. CASE UNCHANGED vars
    BY <2>2 DEF vars, storage, Registry!vars, trustedBar, stageBar
  <2>3. QED
    BY <2>1, <2>2, RefinesInvoke, RefinesCommand, RefinesPowerLoss DEF Next
<1>3. QED
  BY <1>1, <1>2, SerialInvariant, PTL DEF Spec, ImplementsRegistry, Registry!Spec
=============================================================================
