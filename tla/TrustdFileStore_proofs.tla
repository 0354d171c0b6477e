------------------------ MODULE TrustdFileStore_proofs ------------------------
(***************************************************************************)
(* What trustd with its file back end guarantees about stored records: of  *)
(* versions whatever faults go unnoticed, and of whole records when every  *)
(* file operation that fails is noticed.  Proofs for every set of callers, *)
(* artifacts and versions.                                                 *)
(***************************************************************************)
EXTENDS TrustdFile_proofs

\* The parts of FaultInv that speak of the store under way.
CheckedInv == CheckedRecordStands /\ TmpNotOlder

-----------------------------------------------------------------------------
(* What a fault can leave in a table.                                      *)

\* Each record of a table that lost lines, or the end of one, is a record of
\* the table, but perhaps for its hash.
LEMMA TruncationsRecords ==
    ASSUME NEW file \in Seq(Manifest), NEW t \in Truncations(file),
           NEW i \in DOMAIN t
    PROVE  /\ i \in DOMAIN file
           /\ t[i].artifact = file[i].artifact
           /\ t[i].version = file[i].version
<1>1. \A k \in 0 .. Len(file) :
        /\ DOMAIN SubSeq(file, 1, k) = 1 .. k
        /\ \A j \in 1 .. k : SubSeq(file, 1, k)[j] = file[j]
  OBVIOUS
<1>2. CASE \E k \in 0 .. Len(file) - 1 : t = SubSeq(file, 1, k)
  <2>1. PICK k \in 0 .. Len(file) - 1 : t = SubSeq(file, 1, k)
    BY <1>2
  <2>2. k \in 0 .. Len(file) /\ k <= Len(file)
    BY <2>1
  <2>3. i \in 1 .. k /\ t[i] = file[i]
    BY <1>1, <2>1, <2>2
  <2>4. QED
    BY <2>2, <2>3
<1>3. CASE \E k \in DOMAIN file :
            t = [SubSeq(file, 1, k) EXCEPT ![k].hash = TornHash]
  <2>1. PICK k \in DOMAIN file :
            t = [SubSeq(file, 1, k) EXCEPT ![k].hash = TornHash]
    BY <1>3
  <2> DEFINE p == SubSeq(file, 1, k)
  <2>2. k \in 0 .. Len(file) /\ k <= Len(file)
    BY <2>1
  <2>3. DOMAIN p = 1 .. k /\ \A j \in 1 .. k : p[j] = file[j]
    BY <1>1, <2>2
  <2>4. i \in 1 .. k /\ i \in DOMAIN file
    BY <2>1, <2>2, <2>3
  <2>5. file[i] \in Manifest
    BY <2>4
  <2>6. t[i] = IF i = k THEN [p[k] EXCEPT !.hash = TornHash] ELSE p[i]
    BY <2>1, <2>3, <2>4
  <2>7. t[i].artifact = file[i].artifact /\ t[i].version = file[i].version
    BY <2>3, <2>4, <2>5, <2>6 DEF Manifest
  <2>8. QED
    BY <2>4, <2>7
<1>4. QED
  BY <1>2, <1>3 DEF Truncations

\* So a record that is read back from it has the version it had in the table.
LEMMA TruncationsVersion ==
    ASSUME NEW file \in Seq(Manifest), OnePerArtifact(file),
           NEW t \in Truncations(file), NEW a, Lookup(t, a) # None
    PROVE  /\ Lookup(file, a) # None
           /\ Lookup(t, a).version = Lookup(file, a).version
<1>1. t \in Seq(Manifest) /\ OnePerArtifact(t)
  BY TruncationsType
<1>2. PICK i \in DOMAIN t : t[i].artifact = a
  BY LookupMisses
<1>3. i \in DOMAIN file /\ file[i].artifact = a /\ t[i].version = file[i].version
  BY <1>2, TruncationsRecords
<1>4. Lookup(t, a) = t[i] /\ Lookup(file, a) = file[i]
  BY <1>1, <1>2, <1>3, LookupFinds
<1>5. file[i] \in Manifest
  BY <1>3
<1>6. QED
  BY <1>3, <1>4, <1>5, NoneAssumption

\* A record that is read back from the temporary file has the version of the
\* incoming record, or the version it has in the state file.
LEMMA WrittenVersion ==
    ASSUME BaseInv, WriteTmp, NEW a, Lookup(tmp', a) # None
    PROVE  LET m == request[cur].arg IN
           IF a = m.artifact THEN Lookup(tmp', a).version = m.version
           ELSE /\ Lookup(disk, a) # None
                /\ Lookup(tmp', a).version = Lookup(disk, a).version
<1> DEFINE m == request[cur].arg
           new == Upsert(disk, m)
<1>1. m \in Manifest /\ disk \in Seq(Manifest) /\ OnePerArtifact(disk)
  BY DEF BaseInv, TypeOK, HandlerConsistent, OneLinePerArtifact, WriteTmp
<1>2. /\ new \in Seq(Manifest) /\ OnePerArtifact(new)
      /\ Lookup(new, a) = IF a = m.artifact THEN m ELSE Lookup(disk, a)
  BY <1>1, UpsertType, UpsertLookup
<1>3. CASE tmp' = new
  BY <1>2, <1>3
<1>4. CASE tmp' = <<m>>
  <2>1. <<m>> \in Seq(Manifest) /\ OnePerArtifact(<<m>>) /\ DOMAIN <<m>> = {1}
    BY <1>1 DEF OnePerArtifact
  <2>2. a = m.artifact
    BY <1>4, <2>1, LookupMisses
  <2>3. Lookup(<<m>>, m.artifact) = m
    <3>1. 1 \in DOMAIN <<m>> /\ <<m>>[1] = m
      BY <2>1
    <3>2. Lookup(<<m>>, <<m>>[1].artifact) = <<m>>[1]
      BY <2>1, <3>1, LookupFinds
    <3>3. QED
      BY <3>1, <3>2
  <2>4. QED
    BY <1>4, <2>2, <2>3
<1>5. CASE tmp' \in Truncations(new)
  <2>1. Lookup(new, a) # None /\ Lookup(tmp', a).version = Lookup(new, a).version
    BY <1>2, <1>5, TruncationsVersion
  <2>2. QED
    BY <1>2, <2>1
<1>6. QED
  BY <1>3, <1>4, <1>5 DEF WriteTmp

-----------------------------------------------------------------------------
LEMMA InitChecked == Init => CheckedInv
BY DEF Init, CheckedInv, CheckedRecordStands, TmpNotOlder

LEMMA ClientChecked ==
    ASSUME BaseInv, CheckedInv, NEW c \in Client, ClientStep(c)
    PROVE  CheckedInv'
<1>1. UNCHANGED <<pc, cur, old, disk, tmp>>
  BY DEF ClientStep, Connect, Send, HangUp, store, daemon
<1>2. pc \in Serving \ {"read"} => request'[cur] = request[cur]
  BY DEF BaseInv, TypeOK, CallersConsistent, ServingConsistent, ClientStep,
    Connect, Send, HangUp, Serving
<1>3. QED
  BY <1>1, <1>2 DEF CheckedInv, CheckedRecordStands, TmpNotOlder, Serving

\* A step after which no store is under way, or one of an ENROLL begins.
LEMMA NoStore ==
    ASSUME \/ pc' \notin {"open", "write", "rename"}
           \/ pc' = "open" /\ request'[cur'].cmd # "UPDATE"
    PROVE  CheckedInv'
BY DEF CheckedInv, CheckedRecordStands, TmpNotOlder

LEMMA ReadChecked ==
    ASSUME BaseInv, ReadMessage
    PROVE  CheckedInv'
<1> DEFINE r == request[cur]
<1>1. r \in Request /\ UNCHANGED <<request, cur>>
  BY DEF ReadMessage, BaseInv, TypeOK, ServingConsistent, Serving, callers
<1>2. CASE Malformed(r)
  BY <1>2, NoStore DEF ReadMessage
<1>3. CASE ~Malformed(r)
  <2>1. \/ pc' \in {"load", "append", "last"}
        \/ pc' = "open" /\ r.cmd = "ENROLL"
    BY <1>1, <1>3, RequestArgument DEF ReadMessage, Dispatch
  <2>2. QED
    BY <1>1, <2>1, NoStore
<1>4. QED
  BY <1>2, <1>3

LEMMA LoadChecked ==
    ASSUME BaseInv, CheckedInv, Load
    PROVE  CheckedInv'
<1>1. CASE LoadFails \/ LoadForVerify \/ LoadForReport
  <2>1. pc' \in {"event", "reply"}
    BY <1>1 DEF LoadFails, LoadForVerify, LoadForReport, Settle
  <2>2. QED
    BY <2>1, NoStore
<1>2. CASE LoadForUpdate
  <2> DEFINE m == request[cur].arg
             trusted == Lookup(disk, m.artifact)
  <2>1. CASE UpdateAllowed(trusted, m)
    BY <1>2, <2>1 DEF LoadForUpdate, CheckedInv, CheckedRecordStands,
      TmpNotOlder, store, callers
  <2>2. CASE ~UpdateAllowed(trusted, m)
    <3>1. pc' \in {"event", "reply"}
      BY <1>2, <2>2 DEF LoadForUpdate, Settle
    <3>2. QED
      BY <3>1, NoStore
  <2>3. QED
    BY <2>1, <2>2
<1>3. QED
  BY <1>1, <1>2 DEF Load

LEMMA StoreChecked ==
    ASSUME BaseInv, CheckedInv, StoreFile
    PROVE  CheckedInv'
<1>1. CASE OpenTmp
  BY <1>1 DEF OpenTmp, callers, CheckedInv, CheckedRecordStands, TmpNotOlder
<1>2. CASE WriteTmp
  <2> DEFINE m == request[cur].arg
  <2>1. /\ pc = "write" /\ pc' = "rename"
        /\ UNCHANGED <<disk, cur, old, request>>
    BY <1>2 DEF WriteTmp, callers
  <2>2. m \in Manifest /\ request[cur].cmd \in {"ENROLL", "UPDATE"}
    BY <2>1 DEF BaseInv, HandlerConsistent, StoreCommand
  <2>3. CheckedRecordStands'
    BY <2>1 DEF CheckedInv, CheckedRecordStands
  <2>4. ASSUME NEW a \in Artifact, Lookup(disk, a) # None, Lookup(tmp', a) # None,
               Lookup(tmp', a).version < Lookup(disk, a).version
        PROVE  request[cur].cmd = "ENROLL" /\ m.artifact = a
    <3>1. disk \in Seq(Manifest) /\ OnePerArtifact(disk)
      BY DEF BaseInv, TypeOK, OneLinePerArtifact
    <3>2. Lookup(disk, a) \in Manifest
      BY <2>4, <3>1, LookupType
    <3>3. Lookup(disk, a).version \in Int /\ m.version \in Int
      BY <2>2, <3>2, VersionAssumption DEF Manifest
    <3>4. a = m.artifact /\ Lookup(tmp', a).version = m.version
      BY <1>2, <2>4, <3>3, WrittenVersion
    <3>5. request[cur].cmd = "UPDATE" => m.version > Lookup(disk, a).version
      BY <2>1, <3>4 DEF CheckedInv, CheckedRecordStands, UpdateAllowed
    <3>6. QED
      BY <2>2, <2>4, <3>3, <3>4, <3>5
  <2>5. QED
    BY <2>1, <2>3, <2>4 DEF CheckedInv, TmpNotOlder
<1>3. CASE OpenTmpFails \/ WriteTmpFails \/ Rename \/ RenameFails
  <2>1. pc' \in {"event", "reply"}
    BY <1>3 DEF OpenTmpFails, WriteTmpFails, Rename, RenameFails, Settle
  <2>2. QED
    BY <2>1, NoStore
<1>4. QED
  BY <1>1, <1>2, <1>3 DEF StoreFile

\* The steps that end a request, a daemon, or come before a request.
LEMMA OtherChecked ==
    ASSUME \/ Start \/ Accept \/ ReadNothing
           \/ Decide \/ Finish \/ Kill
    PROVE  CheckedInv'
<1>1. pc' \notin {"open", "write", "rename"}
  BY DEF Start, Accept, ReadNothing, Decide, AppendDecision, AppendFails,
    ReportDecision, ReportDecisionFails, Finish, LogManifest, LogPanics,
    SendReply, ReplyBreaks, Kill, GoDown, Settle
<1>2. QED
  BY <1>1, NoStore

LEMMA FaultInvariant == Spec => []FaultInv
<1>1. Init => FaultInv
  BY InitBase, InitChecked DEF FaultInv, CheckedInv
<1>2. ASSUME FaultInv, [Next]_vars
      PROVE  FaultInv'
  <2>1. BaseInv /\ CheckedInv
    BY <1>2 DEF FaultInv, CheckedInv
  <2>2. BaseInv'
    BY <1>2, <2>1, NextBase
  <2>3. CheckedInv'
    <3>1. CASE \E c \in Client : ClientStep(c)
      BY <2>1, <3>1, ClientChecked
    <3>2. CASE ReadMessage \/ Load \/ StoreFile
      BY <2>1, <3>2, ReadChecked, LoadChecked, StoreChecked
    <3>3. CASE Start \/ Accept \/ ReadNothing \/ Decide \/ Finish \/ Kill
      BY <3>3, OtherChecked
    <3>4. CASE UNCHANGED vars
      BY <2>1, <3>4 DEF vars, store, daemon, callers, CheckedInv,
        CheckedRecordStands, TmpNotOlder
    <3>5. QED
      BY <1>2, <3>1, <3>2, <3>3, <3>4 DEF Next, Trustd
  <2>4. QED
    BY <2>2, <2>3 DEF FaultInv, CheckedInv
<1>3. QED
  BY <1>1, <1>2, PTL DEF Spec

\* Between the version check of file_update and the rename of
\* tear_trusted_state_store, the record that was checked stays the trusted
\* one, for any number of callers and whatever faults go unnoticed.
THEOREM CheckedStands == Spec => []CheckedRecordStands
<1>1. FaultInv => CheckedRecordStands
  BY DEF FaultInv
<1>2. QED
  BY <1>1, FaultInvariant, PTL

\* A state file that does not open, and lines lost when the temporary file is
\* closed, never make an older version of a record the trusted one: only an
\* ENROLL of the artifact does.
THEOREM NoFaultRollsBack == Spec => FaultsNeverRollBack
<1> DEFINE Step ==
        \A a \in Artifact :
            LET before == Lookup(disk, a)
                after == Lookup(disk', a) IN
            before # None /\ after # None /\ after.version < before.version =>
                /\ request[cur].cmd = "ENROLL"
                /\ request[cur].arg.artifact = a
<1>1. ASSUME FaultInv, [Next]_vars
      PROVE  Step
  <2>1. CASE Rename
    <3>1. pc = "rename" /\ disk' = tmp
      BY <2>1 DEF Rename
    <3>2. QED
      BY <1>1, <3>1 DEF FaultInv, TmpNotOlder
  <2>2. CASE ~Rename
    <3>1. disk' = disk
      BY <1>1, <2>2, OnlyRenameWrites
    <3>2. ASSUME NEW a \in Artifact, Lookup(disk, a) # None
          PROVE  ~(Lookup(disk, a).version < Lookup(disk, a).version)
      <4>1. disk \in Seq(Manifest) /\ OnePerArtifact(disk)
        BY <1>1 DEF FaultInv, BaseInv, TypeOK, OneLinePerArtifact
      <4>2. Lookup(disk, a) \in Manifest
        BY <3>2, <4>1, LookupType
      <4>3. Lookup(disk, a).version \in Int
        BY <4>2, VersionAssumption DEF Manifest
      <4>4. QED
        BY <4>3
    <3>3. QED
      BY <3>1, <3>2
  <2>3. QED
    BY <2>1, <2>2
<1>2. FaultInv /\ [Next]_vars => [Step]_vars
  BY <1>1
<1>3. QED
  BY <1>2, FaultInvariant, PTL DEF Spec, FaultsNeverRollBack

-----------------------------------------------------------------------------
(* What holds besides when every fault is noticed.                         *)

\* The parts of IInv that speak of the store under way.
StoreInv == RenameInstallsUpsert /\ OkMeansStored

-----------------------------------------------------------------------------
LEMMA InitStore == Init => StoreInv
BY DEF Init, StoreInv, RenameInstallsUpsert, OkMeansStored

LEMMA ClientStore ==
    ASSUME BaseInv, StoreInv, NEW c \in Client, ClientStep(c)
    PROVE  StoreInv'
<1>1. UNCHANGED <<pc, cur, old, outcome, disk, tmp>>
  BY DEF ClientStep, Connect, Send, HangUp, store, daemon
<1>2. pc \in Serving \ {"read"} => request'[cur] = request[cur]
  BY DEF BaseInv, TypeOK, CallersConsistent, ServingConsistent, ClientStep,
    Connect, Send, HangUp, Serving
<1>3. QED
  BY <1>1, <1>2 DEF StoreInv, RenameInstallsUpsert,
    OkMeansStored, Serving

LEMMA LoopStore ==
    ASSUME BaseInv, StoreInv, Start \/ Accept \/ ReadNothing \/ ReadMessage
    PROVE  StoreInv'
<1>1. CASE Start \/ Accept \/ ReadNothing
  BY <1>1 DEF Start, Accept, ReadNothing, StoreInv, RenameInstallsUpsert, OkMeansStored
<1>2. CASE ReadMessage
  <2> DEFINE r == request[cur]
  <2>1. r \in Request /\ UNCHANGED <<request, cur>>
    BY <1>2 DEF ReadMessage, BaseInv, TypeOK, ServingConsistent, Serving, callers
  <2>2. CASE Malformed(r)
    BY <1>2, <2>2, ReplyTypes DEF ReadMessage, StoreInv, RenameInstallsUpsert, OkMeansStored
  <2>3. CASE ~Malformed(r)
    <3>1. \/ pc' \in {"load", "append", "last"}
          \/ pc' = "open" /\ r.cmd = "ENROLL"
      BY <1>2, <2>1, <2>3, RequestArgument DEF ReadMessage, Dispatch
    <3>2. QED
      BY <2>1, <3>1 DEF StoreInv, RenameInstallsUpsert,
        OkMeansStored
  <2>4. QED
    BY <2>2, <2>3
<1>3. QED
  BY <1>1, <1>2

\* Settling ERR, or any reply to a command that stores nothing.
LEMMA SettleStore ==
    ASSUME NEW a, Settle(a), UNCHANGED <<cur, callers>>,
           a # Reply("OK") \/ request[cur].cmd \notin StoreCommand
    PROVE  StoreInv'
BY DEF Settle, callers, StoreInv, RenameInstallsUpsert,
    OkMeansStored

LEMMA LoadStore ==
    ASSUME BaseInv, StoreInv, Load
    PROVE  StoreInv'
<1>1. CASE LoadFails
  BY <1>1, SettleStore, ReplyTypes DEF LoadFails
<1>2. CASE LoadForUpdate
  <2> DEFINE m == request[cur].arg
             trusted == Lookup(disk, m.artifact)
  <2>1. CASE UpdateAllowed(trusted, m)
    BY <1>2, <2>1 DEF LoadForUpdate, StoreInv, RenameInstallsUpsert, OkMeansStored, store, callers
  <2>2. CASE ~UpdateAllowed(trusted, m)
    BY <1>2, <2>2, SettleStore, ReplyTypes DEF LoadForUpdate
  <2>3. QED
    BY <2>1, <2>2
<1>3. CASE LoadForVerify
  BY <1>3, SettleStore DEF LoadForVerify, StoreCommand
<1>4. CASE LoadForReport
  BY <1>4, SettleStore DEF LoadForReport, StoreCommand
<1>5. QED
  BY <1>1, <1>2, <1>3, <1>4 DEF Load

\* What the rename makes the trusted record of each artifact.
LEMMA RenameStores ==
    ASSUME BaseInv, StoreInv, Rename
    PROVE  LET m == request[cur].arg IN
           /\ m \in Manifest
           /\ \A a : Lookup(disk', a) = IF a = m.artifact THEN m ELSE Lookup(disk, a)
<1>1. request[cur].arg \in Manifest /\ disk \in Seq(Manifest) /\ OnePerArtifact(disk)
  BY DEF Rename, BaseInv, TypeOK, HandlerConsistent, OneLinePerArtifact
<1>2. disk' = Upsert(disk, request[cur].arg)
  BY DEF Rename, StoreInv, RenameInstallsUpsert
<1>3. QED
  BY <1>1, <1>2, UpsertLookup

LEMMA StoreStore ==
    ASSUME SilentFaults = FALSE, BaseInv, StoreInv, StoreFile
    PROVE  StoreInv'
<1>1. CASE OpenTmp
  BY <1>1 DEF OpenTmp, callers, StoreInv, RenameInstallsUpsert, OkMeansStored
<1>2. CASE WriteTmp
  BY <1>2 DEF WriteTmp, callers, StoreInv, RenameInstallsUpsert, OkMeansStored
<1>3. CASE Rename
  <2>1. UNCHANGED <<request, cur>> /\ pc' \in {"event", "reply"}
    BY <1>3 DEF Rename, Settle, callers
  <2>2. Lookup(disk', request[cur].arg.artifact) = request[cur].arg
    BY <1>3, RenameStores
  <2>3. QED
    BY <2>1, <2>2 DEF StoreInv, RenameInstallsUpsert,
      OkMeansStored
<1>4. CASE OpenTmpFails \/ WriteTmpFails \/ RenameFails
  BY <1>4, SettleStore, ReplyTypes DEF OpenTmpFails, WriteTmpFails, RenameFails
<1>5. QED
  BY <1>1, <1>2, <1>3, <1>4 DEF StoreFile

LEMMA DecideStore ==
    ASSUME BaseInv, StoreInv, Decide
    PROVE  StoreInv'
<1>1. request[cur].cmd \notin StoreCommand
  BY DEF Decide, AppendDecision, AppendFails, ReportDecision,
    ReportDecisionFails, BaseInv, HandlerConsistent, StoreCommand
<1>2. UNCHANGED <<cur, callers>> /\ \E a : Settle(a)
  BY DEF Decide, AppendDecision, AppendFails, ReportDecision, ReportDecisionFails
<1>3. QED
  BY <1>1, <1>2, SettleStore

LEMMA GoDownStore ==
    ASSUME GoDown
    PROVE  StoreInv'
BY DEF GoDown, StoreInv, RenameInstallsUpsert, OkMeansStored

LEMMA FinishStore ==
    ASSUME BaseInv, StoreInv, Finish
    PROVE  StoreInv'
<1>1. CASE LogManifest
  BY <1>1 DEF LogManifest, store, callers, StoreInv, RenameInstallsUpsert, OkMeansStored
<1>2. CASE SendReply
  BY <1>2 DEF SendReply, StoreInv, RenameInstallsUpsert,
    OkMeansStored
<1>3. CASE LogPanics \/ ReplyBreaks
  BY <1>3, GoDownStore DEF LogPanics, ReplyBreaks
<1>4. QED
  BY <1>1, <1>2, <1>3 DEF Finish

-----------------------------------------------------------------------------
LEMMA NextStore ==
    ASSUME SilentFaults = FALSE, BaseInv, StoreInv, [Next]_vars
    PROVE  StoreInv'
<1>1. CASE \E c \in Client : ClientStep(c)
  BY <1>1, ClientStore
<1>2. CASE Start \/ Accept \/ ReadNothing \/ ReadMessage
  BY <1>2, LoopStore
<1>3. CASE Load \/ StoreFile \/ Decide \/ Finish
  BY <1>3, LoadStore, StoreStore, DecideStore, FinishStore
<1>4. CASE Kill
  BY <1>4, GoDownStore DEF Kill
<1>5. CASE UNCHANGED vars
  BY <1>5 DEF vars, store, daemon, callers, StoreInv, RenameInstallsUpsert, OkMeansStored
<1>6. QED
  BY <1>1, <1>2, <1>3, <1>4, <1>5 DEF Next, Trustd

LEMMA StoreInvariant ==
    ASSUME SilentFaults = FALSE
    PROVE  Spec => []IInv
<1>1. Init => StoreInv
  BY InitStore
<1>2. BaseInv /\ StoreInv /\ [Next]_vars => StoreInv'
  BY NextStore
<1>3. FaultInv /\ StoreInv => IInv
  BY DEF FaultInv, IInv, StoreInv
<1>4. QED
  BY <1>1, <1>2, <1>3, BaseInvariant, FaultInvariant, PTL DEF Spec

\* When trustd is about to answer OK to an ENROLL or an UPDATE, the record is
\* in the state file.
THEOREM OkStored ==
    ASSUME SilentFaults = FALSE
    PROVE  Spec => []OkMeansStored
<1>1. IInv => OkMeansStored
  BY DEF IInv
<1>2. QED
  BY <1>1, StoreInvariant, PTL

-----------------------------------------------------------------------------
\* A step changes the trusted record of an artifact only if it stores a
\* record of that very artifact; every other line survives the rewrite.
THEOREM OthersStay ==
    ASSUME SilentFaults = FALSE
    PROVE  Spec => OthersUntouched
<1> DEFINE Step ==
        \A a \in Artifact :
            Lookup(disk', a) # Lookup(disk, a) =>
                /\ pc = "rename"
                /\ request[cur].arg.artifact = a
<1>1. ASSUME IInv, [Next]_vars
      PROVE  Step
  <2>1. CASE Rename
    <3>1. BaseInv /\ StoreInv
      BY <1>1 DEF IInv, StoreInv
    <3>2. QED
      BY <2>1, <3>1, RenameStores DEF Rename
  <2>2. CASE ~Rename
    BY <1>1, <2>2, OnlyRenameWrites
  <2>3. QED
    BY <2>1, <2>2
<1>2. IInv /\ [Next]_vars => [Step]_vars
  BY <1>1
<1>3. QED
  BY <1>2, StoreInvariant, PTL DEF Spec, OthersUntouched

\* The version of a trusted model, and its back end, go back only when an
\* ENROLL of the artifact is stored.
THEOREM RollbackNeedsEnroll ==
    ASSUME SilentFaults = FALSE
    PROVE  Spec => RollbackOnlyByEnroll
<1> DEFINE Step ==
        \A a \in Artifact :
            LET before == Lookup(disk, a)
                after == Lookup(disk', a) IN
            before # None /\ after # before =>
                \/ after # None /\ UpdateAllowed(before, after)
                \/ /\ pc = "rename"
                   /\ request[cur].cmd = "ENROLL"
                   /\ request[cur].arg.artifact = a
<1>1. ASSUME IInv, [Next]_vars
      PROVE  Step
  <2>1. CASE Rename
    <3> DEFINE m == request[cur].arg
    <3>1. BaseInv /\ StoreInv
      BY <1>1 DEF IInv, StoreInv
    <3>2. /\ m \in Manifest
          /\ \A a : Lookup(disk', a) = IF a = m.artifact THEN m ELSE Lookup(disk, a)
      BY <2>1, <3>1, RenameStores
    <3>3. pc = "rename" /\ request[cur].cmd \in {"ENROLL", "UPDATE"}
      BY <2>1, <3>1 DEF Rename, BaseInv, HandlerConsistent, StoreCommand
    <3>4. request[cur].cmd = "UPDATE" => UpdateAllowed(Lookup(disk, m.artifact), m)
      BY <1>1, <3>3 DEF IInv, CheckedRecordStands
    <3>5. m # None
      BY <3>2, NoneAssumption
    <3>6. QED
      BY <3>2, <3>3, <3>4, <3>5
  <2>2. CASE ~Rename
    BY <1>1, <2>2, OnlyRenameWrites
  <2>3. QED
    BY <2>1, <2>2
<1>2. IInv /\ [Next]_vars => [Step]_vars
  BY <1>1
<1>3. QED
  BY <1>2, StoreInvariant, PTL DEF Spec, RollbackOnlyByEnroll
-----------------------------------------------------------------------------
\* Every artifact keeps its line in the state file, so REPORT is about the
\* first artifact that was enrolled, for ever.
THEOREM OrderKept ==
    ASSUME SilentFaults = FALSE
    PROVE  Spec => StoresKeepOrder
<1>1. ASSUME IInv, [Next]_vars
      PROVE  SamePlaces(disk, disk')
  <2>1. CASE Rename
    <3>1. /\ request[cur].arg \in Manifest /\ disk \in Seq(Manifest)
          /\ disk' = Upsert(disk, request[cur].arg)
      BY <1>1, <2>1 DEF Rename, IInv, RenameInstallsUpsert, BaseInv, TypeOK, HandlerConsistent
    <3>2. QED
      BY <3>1, UpsertKeepsPlaces
  <2>2. CASE ~Rename
    BY <1>1, <2>2, OnlyRenameWrites DEF SamePlaces
  <2>3. QED
    BY <2>1, <2>2
<1>2. IInv /\ [Next]_vars => [SamePlaces(disk, disk')]_vars
  BY <1>1
<1>3. QED
  BY <1>2, StoreInvariant, PTL DEF Spec, StoresKeepOrder
=============================================================================
