-------------------------- MODULE TrustdFile_proofs --------------------------
(***************************************************************************)
(* Proofs about trustd with its file back end, for every set of callers,   *)
(* artifacts, versions and decisions.                                      *)
(***************************************************************************)
EXTENDS TrustdFileProps, RecordTable_proofs

-----------------------------------------------------------------------------
(* The file after a flush that failed part of the way.                     *)

\* Losing lines, or the end of a line, leaves a table of records with one
\* record per artifact.
LEMMA TruncationsType ==
    ASSUME NEW file \in Seq(Manifest), OnePerArtifact(file),
           NEW t \in Truncations(file)
    PROVE  t \in Seq(Manifest) /\ OnePerArtifact(t)
<1>1. \A k \in 0 .. Len(file) :
        /\ SubSeq(file, 1, k) \in Seq(Manifest)
        /\ Len(SubSeq(file, 1, k)) = k
        /\ \A i \in 1 .. k : SubSeq(file, 1, k)[i] = file[i]
  OBVIOUS
<1>2. CASE \E k \in 0 .. Len(file) - 1 : t = SubSeq(file, 1, k)
  <2>1. PICK k \in 0 .. Len(file) - 1 : t = SubSeq(file, 1, k)
    BY <1>2
  <2>2. k \in 0 .. Len(file) /\ k <= Len(file)
    BY <2>1
  <2>3. t \in Seq(Manifest) /\ DOMAIN t = 1 .. k /\ \A i \in 1 .. k : t[i] = file[i]
    BY <1>1, <2>1, <2>2
  <2>4. \A i \in 1 .. k : i \in DOMAIN file
    BY <2>2
  <2>5. QED
    BY <2>3, <2>4 DEF OnePerArtifact
<1>3. CASE \E k \in DOMAIN file :
            t = [SubSeq(file, 1, k) EXCEPT ![k].hash = TornHash]
  <2>1. PICK k \in DOMAIN file :
            t = [SubSeq(file, 1, k) EXCEPT ![k].hash = TornHash]
    BY <1>3
  <2> DEFINE p == SubSeq(file, 1, k)
  <2>2. k \in 0 .. Len(file) /\ k <= Len(file) /\ k \in 1 .. k
    BY <2>1
  <2>3. p \in Seq(Manifest) /\ DOMAIN p = 1 .. k /\ \A i \in 1 .. k : p[i] = file[i]
    BY <1>1, <2>1, <2>2
  <2>4. /\ DOMAIN t = 1 .. k
        /\ \A i \in 1 .. k : i # k => t[i] = p[i]
        /\ t[k] = [p[k] EXCEPT !.hash = TornHash]
    BY <2>1, <2>2, <2>3
  <2>5. p[k] \in Manifest
    BY <2>2, <2>3
  <2>6. t[k] \in Manifest /\ t[k].artifact = p[k].artifact
    BY <2>4, <2>5, TornAssumption DEF Manifest
  <2>7. \A i \in 1 .. k : t[i] \in Manifest /\ t[i].artifact = file[i].artifact
    <3>1. \A i \in 1 .. k : p[i] \in Manifest
      BY <2>3
    <3>2. QED
      BY <2>2, <2>3, <2>4, <2>6, <3>1
  <2>8. t \in Seq(Manifest)
    <3>1. t = [i \in 1 .. k |-> t[i]]
      BY <2>1, <2>3, <2>4
    <3>2. QED
      BY <2>2, <2>7, <3>1, IsASeq
  <2>9. \A i \in 1 .. k : i \in DOMAIN file
    BY <2>2
  <2>10. OnePerArtifact(t)
    BY <2>4, <2>7, <2>9 DEF OnePerArtifact
  <2>11. QED
    BY <2>8, <2>10
<1>4. QED
  BY <1>2, <1>3 DEF Truncations

\* Whatever WriteTmp leaves in the temporary file is such a table.
LEMMA WrittenType ==
    ASSUME BaseInv, WriteTmp
    PROVE  tmp' \in Seq(Manifest) /\ OnePerArtifact(tmp')
<1> DEFINE m == request[cur].arg
<1>1. m \in Manifest /\ disk \in Seq(Manifest) /\ OnePerArtifact(disk)
  BY DEF BaseInv, TypeOK, HandlerConsistent, OneLinePerArtifact, WriteTmp
<1>2. Upsert(disk, m) \in Seq(Manifest) /\ OnePerArtifact(Upsert(disk, m))
  BY <1>1, UpsertType, UpsertLookup
<1>3. <<m>> \in Seq(Manifest) /\ OnePerArtifact(<<m>>)
  BY <1>1 DEF OnePerArtifact
<1>4. \/ tmp' = Upsert(disk, m)
      \/ tmp' = <<m>>
      \/ tmp' \in Truncations(Upsert(disk, m))
  BY DEF WriteTmp
<1>5. QED
  BY <1>2, <1>3, <1>4, TruncationsType

-----------------------------------------------------------------------------
(* The invariant that holds whatever faults occur.                         *)

LEMMA InitBase == Init => BaseInv
BY ReplyTypes DEF Init, BaseInv, TypeOK, CallersConsistent, ServingConsistent,
    HandlerConsistent, TmpConsistent, OneLinePerArtifact, OnePerArtifact, Serving

\* The end of the daemon, whatever the reason.
LEMMA GoDownBase ==
    ASSUME BaseInv, GoDown
    PROVE  BaseInv'
<1>1. TypeOK'
  BY ReplyTypes DEF BaseInv, TypeOK, GoDown, store
<1>2. CallersConsistent' /\ ServingConsistent' /\ HandlerConsistent'
  BY DEF BaseInv, GoDown, CallersConsistent, ServingConsistent,
    HandlerConsistent, Serving
<1>3. TmpConsistent' /\ OneLinePerArtifact'
  BY DEF BaseInv, GoDown, store, TmpConsistent, OneLinePerArtifact
<1>4. QED
  BY <1>1, <1>2, <1>3 DEF BaseInv

\* Settling a reply, at the end of a handler that leaves the store as it is
\* or with a new table in place of the old one.
LEMMA SettleBase ==
    ASSUME BaseInv, NEW a \in Answer, Settle(a), UNCHANGED <<cur, callers>>,
           pc \in Serving \ {"read", "event", "reply"},
           disk' \in Seq(Manifest), OnePerArtifact(disk'),
           tmp' \in {tmp, None}, lastDecision' \in Decision \cup {None}
    PROVE  BaseInv'
<1>1. TypeOK'
  BY DEF BaseInv, TypeOK, Settle, callers, Serving
<1>2. CallersConsistent' /\ ServingConsistent'
  BY ReplyTypes DEF BaseInv, Settle, callers, CallersConsistent,
    ServingConsistent, Serving
<1>3. HandlerConsistent'
  BY DEF BaseInv, Settle, callers, HandlerConsistent, Serving, StoreCommand,
    ManifestCommand
<1>4. TmpConsistent' /\ OneLinePerArtifact'
  BY DEF BaseInv, Settle, TmpConsistent, OneLinePerArtifact
<1>5. QED
  BY <1>1, <1>2, <1>3, <1>4 DEF BaseInv

\* A caller connects, sends or dies: the daemon and its files are untouched.
LEMMA ClientBase ==
    ASSUME BaseInv, NEW c \in Client, ClientStep(c)
    PROVE  BaseInv'
<1>1. TypeOK'
  <2>1. CASE Connect(c)
    <3>1. queue' \in Seq(Client)
      BY <2>1 DEF BaseInv, TypeOK, Connect
    <3>2. conn' \in [Client -> {"idle", "connected", "sent", "hungup"}]
      BY <2>1 DEF BaseInv, TypeOK, Connect
    <3>3. QED
      BY <2>1, <3>1, <3>2 DEF BaseInv, TypeOK, Connect, store, daemon
  <2>2. CASE \E r \in Request : Send(c, r)
    BY <2>2 DEF BaseInv, TypeOK, Send, store, daemon
  <2>3. CASE HangUp(c)
    BY <2>3 DEF BaseInv, TypeOK, HangUp, store, daemon
  <2>4. QED
    BY <2>1, <2>2, <2>3 DEF ClientStep
<1>2. CallersConsistent'
  BY NoneIsNoMessage DEF BaseInv, TypeOK, CallersConsistent, ClientStep,
    Connect, Send, HangUp
<1>3. ServingConsistent'
  BY NoneIsNoMessage DEF BaseInv, TypeOK, ServingConsistent, ClientStep,
    Connect, Send, HangUp, daemon, Serving
<1>4. HandlerConsistent'
  <2>1. pc \in Serving \ {"read"} => request'[cur] = request[cur]
    BY DEF BaseInv, TypeOK, CallersConsistent, ServingConsistent, ClientStep,
      Connect, Send, HangUp, Serving
  <2>2. UNCHANGED <<pc, cur>>
    BY DEF ClientStep, Connect, Send, HangUp, daemon
  <2>3. QED
    BY <2>1, <2>2 DEF BaseInv, HandlerConsistent, Serving
<1>5. TmpConsistent' /\ OneLinePerArtifact'
  BY DEF BaseInv, TmpConsistent, OneLinePerArtifact, ClientStep, Connect, Send,
    HangUp, store, daemon
<1>6. QED
  BY <1>1, <1>2, <1>3, <1>4, <1>5 DEF BaseInv

\* Taking a connection off the queue and reading its message.
LEMMA LoopBase ==
    ASSUME BaseInv, Start \/ Accept \/ ReadNothing \/ ReadMessage
    PROVE  BaseInv'
<1>1. CASE Start
  BY <1>1 DEF Start, BaseInv, TypeOK, CallersConsistent, ServingConsistent,
    HandlerConsistent, TmpConsistent, OneLinePerArtifact, store, callers, Serving
<1>2. CASE Accept
  <2>1. cur' \in Client /\ queue' \in Seq(Client)
    BY <1>2 DEF Accept, BaseInv, TypeOK
  <2>2. QED
    BY <1>2, <2>1 DEF Accept, BaseInv, TypeOK, CallersConsistent,
      ServingConsistent, HandlerConsistent, TmpConsistent, OneLinePerArtifact,
      store, Serving
<1>3. CASE ReadNothing
  BY <1>3 DEF ReadNothing, BaseInv, TypeOK, CallersConsistent, ServingConsistent,
    HandlerConsistent, TmpConsistent, OneLinePerArtifact, store, Serving
<1>4. CASE ReadMessage
  <2> DEFINE r == request[cur]
  <2>1. cur \in Client /\ r \in Request
    BY <1>4 DEF ReadMessage, BaseInv, TypeOK, ServingConsistent, Serving
  <2>2. CASE Malformed(r)
    <3>1. outcome' = Reply("ERR") /\ pc' = "reply"
      BY <1>4, <2>2 DEF ReadMessage
    <3>2. QED
      BY <1>4, <2>1, <3>1, ReplyTypes DEF ReadMessage, BaseInv, TypeOK,
        CallersConsistent, ServingConsistent, HandlerConsistent, TmpConsistent,
        OneLinePerArtifact, store, callers, Serving
  <2>3. CASE ~Malformed(r)
    <3>1. pc' = Dispatch(r) /\ UNCHANGED outcome
      BY <1>4, <2>3 DEF ReadMessage
    <3>2. /\ r.cmd \in ManifestCommand => r.arg \in Manifest
          /\ r.cmd = "RECORD_DECISION" => r.arg \in Decision
      BY <2>1, <2>3, RequestArgument DEF Malformed
    <3>3. \/ r.cmd = "ENROLL" /\ pc' = "open"
          \/ r.cmd \in {"UPDATE", "VERIFY", "REPORT"} /\ pc' = "load"
          \/ r.cmd = "RECORD_DECISION" /\ pc' = "append"
          \/ r.cmd = "REPORT_DECISION" /\ pc' = "last"
      BY <2>1, <3>1, RequestArgument DEF Dispatch
    <3>4. UNCHANGED <<disk, tmp, lastDecision, cur, outcome, old, queue, conn, request, answer>>
      BY <1>4, <3>1 DEF ReadMessage, store, callers
    <3>5. TypeOK' /\ CallersConsistent' /\ TmpConsistent' /\ OneLinePerArtifact'
      BY <3>3, <3>4 DEF BaseInv, TypeOK, CallersConsistent, TmpConsistent,
        OneLinePerArtifact, Serving
    <3>6. ServingConsistent'
      BY <1>4, <2>1, <3>3, <3>4 DEF ReadMessage, BaseInv, ServingConsistent, Serving
    <3>7. HandlerConsistent'
      BY <3>2, <3>3, <3>4 DEF HandlerConsistent, StoreCommand, ManifestCommand
    <3>8. QED
      BY <3>5, <3>6, <3>7 DEF BaseInv
  <2>4. QED
    BY <2>2, <2>3
<1>5. QED
  BY <1>1, <1>2, <1>3, <1>4

\* The handlers that only read.
LEMMA LoadBase ==
    ASSUME BaseInv, Load
    PROVE  BaseInv'
<1>1. pc = "load" /\ UNCHANGED <<store, cur, callers>>
  BY DEF Load, LoadFails, LoadForUpdate, LoadForVerify, LoadForReport
<1>2. ASSUME NEW a \in Answer, Settle(a)
      PROVE  BaseInv'
  BY <1>1, <1>2, SettleBase DEF BaseInv, TypeOK, OneLinePerArtifact, store, Serving
<1>3. CASE LoadFails
  BY <1>2, <1>3, ReplyTypes DEF LoadFails
<1>4. CASE LoadForUpdate
  <2> DEFINE m == request[cur].arg
             trusted == Lookup(disk, m.artifact)
  <2>1. CASE UpdateAllowed(trusted, m)
    <3>1. pc' = "open" /\ old' = trusted /\ UNCHANGED outcome
      BY <1>4, <2>1 DEF LoadForUpdate
    <3>2. old' \in Manifest
      BY <1>4, <3>1, LookupType DEF LoadForUpdate, BaseInv, TypeOK, OneLinePerArtifact
    <3>3. QED
      BY <1>1, <1>4, <3>1, <3>2 DEF LoadForUpdate, BaseInv, TypeOK,
        CallersConsistent, ServingConsistent, HandlerConsistent, TmpConsistent,
        OneLinePerArtifact, store, callers, Serving, StoreCommand
  <2>2. CASE ~UpdateAllowed(trusted, m)
    BY <1>2, <1>4, <2>2, ReplyTypes DEF LoadForUpdate
  <2>3. QED
    BY <2>1, <2>2
<1>5. CASE LoadForVerify
  BY <1>2, <1>5, ReplyTypes DEF LoadForVerify
<1>6. CASE LoadForReport
  <2>1. disk[1] \in Manifest
    BY <1>6 DEF LoadForReport, BaseInv, TypeOK
  <2>2. QED
    BY <1>2, <1>6, <2>1, ReplyTypes DEF LoadForReport
<1>7. QED
  BY <1>3, <1>4, <1>5, <1>6 DEF Load

\* The steps of a store.
LEMMA StoreBase ==
    ASSUME BaseInv, StoreFile
    PROVE  BaseInv'
<1>1. CASE OpenTmp
  <2>1. tmp' = <<>> /\ <<>> \in Seq(Manifest) /\ OnePerArtifact(<<>>)
    BY <1>1 DEF OpenTmp, OnePerArtifact
  <2>2. QED
    BY <1>1, <2>1 DEF OpenTmp, BaseInv, TypeOK, CallersConsistent,
      ServingConsistent, HandlerConsistent, TmpConsistent, OneLinePerArtifact,
      callers, Serving
<1>2. CASE WriteTmp
  <2>1. tmp' \in Seq(Manifest) /\ OnePerArtifact(tmp') /\ tmp' # None
    BY <1>2, WrittenType, NoneIsNoTable
  <2>2. QED
    BY <1>2, <2>1 DEF WriteTmp, BaseInv, TypeOK, CallersConsistent,
      ServingConsistent, HandlerConsistent, TmpConsistent, OneLinePerArtifact,
      callers, Serving
<1>3. CASE Rename
  <2>1. disk' \in Seq(Manifest) /\ OnePerArtifact(disk')
    BY <1>3 DEF Rename, BaseInv, TypeOK, TmpConsistent
  <2>2. QED
    BY <1>3, <2>1, SettleBase, ReplyTypes DEF Rename, BaseInv, TypeOK, Serving
<1>4. CASE OpenTmpFails \/ WriteTmpFails \/ RenameFails
  BY <1>4, SettleBase, ReplyTypes DEF OpenTmpFails, WriteTmpFails, RenameFails,
    BaseInv, TypeOK, OneLinePerArtifact, store, Serving
<1>5. QED
  BY <1>1, <1>2, <1>3, <1>4 DEF StoreFile

\* The steps on the decision log.
LEMMA DecideBase ==
    ASSUME BaseInv, Decide
    PROVE  BaseInv'
<1>1. CASE AppendDecision
  <2>1. lastDecision' \in Decision \cup {None}
    BY <1>1, TornAssumption DEF AppendDecision, BaseInv, TypeOK, HandlerConsistent
  <2>2. QED
    BY <1>1, <2>1, SettleBase, ReplyTypes DEF AppendDecision, BaseInv, TypeOK,
      OneLinePerArtifact, Serving
<1>2. CASE ReportDecision
  <2>1. DecisionReply(lastDecision) \in Answer
    BY <1>2, ReplyTypes DEF ReportDecision, BaseInv, TypeOK
  <2>2. QED
    BY <1>2, <2>1, SettleBase DEF ReportDecision, BaseInv, TypeOK,
      OneLinePerArtifact, store, Serving
<1>3. CASE AppendFails \/ ReportDecisionFails
  BY <1>3, SettleBase, ReplyTypes DEF AppendFails, ReportDecisionFails, BaseInv,
    TypeOK, OneLinePerArtifact, store, Serving
<1>4. QED
  BY <1>1, <1>2, <1>3 DEF Decide

\* Logging the manifest and replying.
LEMMA FinishBase ==
    ASSUME BaseInv, Finish
    PROVE  BaseInv'
<1>1. CASE LogManifest
  BY <1>1 DEF LogManifest, BaseInv, TypeOK, CallersConsistent, ServingConsistent,
    HandlerConsistent, TmpConsistent, OneLinePerArtifact, store, callers, Serving
<1>2. CASE SendReply
  BY <1>2 DEF SendReply, BaseInv, TypeOK, CallersConsistent, ServingConsistent,
    HandlerConsistent, TmpConsistent, OneLinePerArtifact, store, Serving
<1>3. CASE LogPanics \/ ReplyBreaks
  BY <1>3, GoDownBase DEF LogPanics, ReplyBreaks
<1>4. QED
  BY <1>1, <1>2, <1>3 DEF Finish

LEMMA NextBase ==
    ASSUME BaseInv, [Next]_vars
    PROVE  BaseInv'
<1>1. CASE \E c \in Client : ClientStep(c)
  BY <1>1, ClientBase
<1>2. CASE Start \/ Accept \/ ReadNothing \/ ReadMessage
  BY <1>2, LoopBase
<1>3. CASE Load \/ StoreFile \/ Decide \/ Finish
  BY <1>3, LoadBase, StoreBase, DecideBase, FinishBase
<1>4. CASE Kill
  BY <1>4, GoDownBase DEF Kill
<1>5. CASE UNCHANGED vars
  BY <1>5 DEF vars, store, daemon, callers, BaseInv, TypeOK, CallersConsistent,
    ServingConsistent, HandlerConsistent, TmpConsistent, OneLinePerArtifact, Serving
<1>6. QED
  BY <1>1, <1>2, <1>3, <1>4, <1>5 DEF Next, Trustd

LEMMA BaseInvariant == Spec => []BaseInv
<1>1. Init => BaseInv
  BY InitBase
<1>2. BaseInv /\ [Next]_vars => BaseInv'
  BY NextBase
<1>3. QED
  BY <1>1, <1>2, PTL DEF Spec

\* Every variable of trustd, of its files and of its callers keeps its type,
\* whichever file operations fail and whoever is killed.
THEOREM TypeCorrect == Spec => []TypeOK
<1>1. BaseInv => TypeOK
  BY DEF BaseInv
<1>2. QED
  BY <1>1, BaseInvariant, PTL

\* The state file never holds two lines for one artifact, even after flushes
\* that failed unnoticed and kills in the middle of a store.
THEOREM OneLine == Spec => []OneLinePerArtifact
<1>1. BaseInv => OneLinePerArtifact
  BY DEF BaseInv
<1>2. QED
  BY <1>1, BaseInvariant, PTL

-----------------------------------------------------------------------------
(* Only the rename changes the state file.                                 *)

LEMMA OnlyRenameWrites ==
    ASSUME [Next]_vars, ~Rename
    PROVE  UNCHANGED disk
BY DEF Next, vars, store, Kill, GoDown, Start, ClientStep, Connect, Send,
    HangUp, Trustd, Accept, ReadNothing, ReadMessage, Load, LoadFails,
    LoadForUpdate, LoadForVerify, LoadForReport, StoreFile, OpenTmp,
    OpenTmpFails, WriteTmp, WriteTmpFails, RenameFails, Decide, AppendDecision,
    AppendFails, ReportDecision, ReportDecisionFails, Finish, LogManifest,
    LogPanics, SendReply, ReplyBreaks

-----------------------------------------------------------------------------
(* The callers: each has its place, and moves on.                          *)

\* What every step but those of the connections themselves leaves alone.
Handling ==
    Start \/ ReadMessage \/ Load \/ StoreFile \/ Decide \/ LogManifest

LEMMA HandlingKeepsLine ==
    ASSUME Handling
    PROVE  UNCHANGED <<cur, queue, conn>>
BY DEF Handling, callers, Start, ReadMessage, Load, LoadFails, LoadForUpdate,
    LoadForVerify, LoadForReport, StoreFile, OpenTmp, OpenTmpFails, WriteTmp,
    WriteTmpFails, Rename, RenameFails, Decide, AppendDecision, AppendFails,
    ReportDecision, ReportDecisionFails, LogManifest

\* Each step of a handler goes forward.
LEMMA HandlingAdvances ==
    ASSUME BaseInv, Handling
    PROVE  /\ pc' # "down"
           /\ pc # "down" =>
                /\ pc \in Serving /\ pc' \in Serving \ {"read"}
                /\ StepsLeft[pc'] < StepsLeft[pc]
<1>1. ASSUME NEW a, Settle(a)
      PROVE  pc' \in {"event", "reply"}
  BY <1>1 DEF Settle
<1>2. CASE Start
  BY <1>2 DEF Start
<1>3. CASE ReadMessage
  <2>1. request[cur] \in Request
    BY <1>3 DEF ReadMessage, BaseInv, TypeOK, ServingConsistent, Serving
  <2>2. Dispatch(request[cur]) \in {"open", "load", "append", "last"}
    BY <2>1, RequestArgument DEF Dispatch
  <2>3. pc = "read" /\ pc' \in {"open", "load", "append", "last", "reply"}
    BY <1>3, <2>2 DEF ReadMessage
  <2>4. QED
    BY <2>3 DEF StepsLeft, Serving
<1>4. CASE Load
  <2>1. pc = "load" /\ pc' \in {"open", "event", "reply"}
    BY <1>1, <1>4 DEF Load, LoadFails, LoadForUpdate, LoadForVerify, LoadForReport
  <2>2. QED
    BY <2>1 DEF StepsLeft, Serving
<1>5. CASE StoreFile
  <2>1. \/ pc = "open" /\ pc' \in {"write", "event", "reply"}
        \/ pc = "write" /\ pc' \in {"rename", "event", "reply"}
        \/ pc = "rename" /\ pc' \in {"event", "reply"}
    BY <1>1, <1>5 DEF StoreFile, OpenTmp, OpenTmpFails, WriteTmp, WriteTmpFails,
      Rename, RenameFails
  <2>2. QED
    BY <2>1 DEF StepsLeft, Serving
<1>6. CASE Decide
  <2>1. pc \in {"append", "last"} /\ pc' \in {"event", "reply"}
    BY <1>1, <1>6 DEF Decide, AppendDecision, AppendFails, ReportDecision,
      ReportDecisionFails
  <2>2. QED
    BY <2>1 DEF StepsLeft, Serving
<1>7. CASE LogManifest
  BY <1>7 DEF LogManifest, StepsLeft, Serving
<1>8. QED
  BY <1>2, <1>3, <1>4, <1>5, <1>6, <1>7 DEF Handling

\* Accept takes the first of the queue; the others move up.
LEMMA AcceptMovesUp ==
    ASSUME BaseInv, Accept
    PROVE  /\ cur = None /\ pc = "accept" /\ pc' = "read" /\ UNCHANGED conn
           /\ 1 \in DOMAIN queue /\ cur' = queue[1] /\ cur' \in Client
           /\ DOMAIN queue' = 1 .. Len(queue) - 1
           /\ \A i \in DOMAIN queue' : queue'[i] = queue[i + 1] /\ i + 1 \in DOMAIN queue
           /\ \A i \in DOMAIN queue : i # 1 => i - 1 \in DOMAIN queue'
<1>1. queue \in Seq(Client) /\ queue # <<>> /\ queue' = Tail(queue) /\ cur' = Head(queue)
  BY DEF Accept, BaseInv, TypeOK
<1>2. cur = None /\ pc = "accept" /\ pc' = "read" /\ UNCHANGED conn
  BY DEF Accept, BaseInv, ServingConsistent
<1>3. Len(queue) \in Nat \ {0}
  BY <1>1
<1>4. QED
  BY <1>1, <1>2, <1>3

LEMMA NextLine ==
    ASSUME BaseInv, EveryCallerInLine, [Next]_vars
    PROVE  EveryCallerInLine'
<1>1. /\ queue \in Seq(Client) /\ DOMAIN queue = 1 .. Len(queue) /\ Len(queue) \in Nat
      /\ \A i \in DOMAIN queue : queue[i] \in Client
      /\ cur \in Client \cup {None} /\ None \notin Client
      /\ conn \in [Client -> {"idle", "connected", "sent", "hungup"}]
  BY ClientAssumption DEF BaseInv, TypeOK
<1>2. /\ \A c \in Client : conn[c] # "idle" <=> c = cur \/ \E i \in DOMAIN queue : queue[i] = c
      /\ \A i \in DOMAIN queue : queue[i] # cur
      /\ \A i, j \in DOMAIN queue : queue[i] = queue[j] => i = j
      /\ pc = "down" => queue = <<>>
  BY DEF EveryCallerInLine
<1>3. ASSUME NEW d \in Client, Connect(d)
      PROVE  EveryCallerInLine'
  <2>1. /\ conn[d] = "idle" /\ conn' = [conn EXCEPT ![d] = "connected"]
        /\ queue' = Append(queue, d) /\ cur' = cur /\ pc' = pc /\ pc # "down"
    BY <1>3 DEF Connect, daemon
  <2>2. d # cur /\ \A i \in DOMAIN queue : queue[i] # d
    BY <1>2, <2>1
  <2>3. /\ DOMAIN queue' = 1 .. Len(queue) + 1 /\ queue'[Len(queue) + 1] = d
        /\ \A i \in DOMAIN queue : i \in DOMAIN queue' /\ queue'[i] = queue[i]
        /\ \A i \in DOMAIN queue' : i \in DOMAIN queue \/ i = Len(queue) + 1
    BY <1>1, <2>1
  <2>4. \A c \in Client : conn'[c] # "idle" <=> conn[c] # "idle" \/ c = d
    BY <1>1, <2>1
  <2>5. \A c \in Client : (\E i \in DOMAIN queue' : queue'[i] = c)
                            <=> (\E i \in DOMAIN queue : queue[i] = c) \/ c = d
    BY <1>1, <2>3
  <2>6. \A c \in Client : conn'[c] # "idle" <=> c = cur' \/ \E i \in DOMAIN queue' : queue'[i] = c
    BY <1>2, <2>1, <2>4, <2>5
  <2>7. QED
    BY <1>2, <2>1, <2>2, <2>3, <2>6 DEF EveryCallerInLine
<1>4. ASSUME NEW d \in Client, (\E r \in Request : Send(d, r)) \/ HangUp(d)
      PROVE  EveryCallerInLine'
  <2>1. /\ UNCHANGED <<cur, queue, pc>>
        /\ \A c \in Client : conn'[c] # "idle" <=> conn[c] # "idle"
    BY <1>1, <1>4 DEF Send, HangUp, daemon
  <2>2. QED
    BY <1>2, <2>1 DEF EveryCallerInLine
<1>5. CASE Accept
  <2>1. \A i, j \in DOMAIN queue : i # j => queue[i] # queue[j]
    BY <1>2
  <2>2. \A c \in Client : (c = cur' \/ \E i \in DOMAIN queue' : queue'[i] = c)
                            <=> \E i \in DOMAIN queue : queue[i] = c
    <3>1. ASSUME NEW i \in DOMAIN queue, i # 1
          PROVE  i - 1 \in DOMAIN queue' /\ queue'[i - 1] = queue[i]
      BY <1>1, <1>5, <3>1, AcceptMovesUp
    <3>2. QED
      BY <1>5, <3>1, AcceptMovesUp
  <2>3. \A i \in DOMAIN queue' : queue'[i] # cur'
    BY <1>1, <1>5, <2>1, AcceptMovesUp
  <2>4. \A i, j \in DOMAIN queue' : queue'[i] = queue'[j] => i = j
    BY <1>1, <1>5, <2>1, AcceptMovesUp
  <2>5. cur = None /\ UNCHANGED conn /\ pc' = "read"
    BY <1>5, AcceptMovesUp
  <2>6. QED
    BY <1>1, <1>2, <2>2, <2>3, <2>4, <2>5 DEF EveryCallerInLine
<1>6. CASE ReadNothing \/ SendReply
  <2>1. /\ cur \in Client /\ cur' = None /\ UNCHANGED queue /\ pc' = "accept"
        /\ conn' = [conn EXCEPT ![cur] = "idle"]
    BY <1>6 DEF ReadNothing, SendReply, BaseInv, ServingConsistent, Serving
  <2>2. \A c \in Client : conn'[c] # "idle" <=> conn[c] # "idle" /\ c # cur
    BY <1>1, <2>1
  <2>3. QED
    BY <1>1, <1>2, <2>1, <2>2 DEF EveryCallerInLine
<1>7. CASE GoDown
  BY <1>7, ClientAssumption DEF GoDown, EveryCallerInLine
<1>8. CASE Handling
  BY <1>2, <1>8, HandlingKeepsLine, HandlingAdvances DEF EveryCallerInLine
<1>9. CASE UNCHANGED vars
  BY <1>2, <1>9 DEF vars, daemon, callers, EveryCallerInLine
<1>10. QED
  BY <1>3, <1>4, <1>5, <1>6, <1>7, <1>8, <1>9 DEF Next, ClientStep, Trustd, Finish,
    LogPanics, ReplyBreaks, Kill, Handling

LEMMA LineInvariant == Spec => [](BaseInv /\ EveryCallerInLine)
<1>1. Init => EveryCallerInLine
  BY ClientAssumption DEF Init, EveryCallerInLine
<1>2. BaseInv /\ EveryCallerInLine /\ [Next]_vars => EveryCallerInLine'
  BY NextLine
<1>3. QED
  BY <1>1, <1>2, BaseInvariant, PTL DEF Spec

\* Whoever connects, waits, is served, hangs up or loses trustd: every open
\* connection is in one place, for any number of callers.
THEOREM CallerInLine == Spec => []EveryCallerInLine
BY LineInvariant, PTL

-----------------------------------------------------------------------------
(* What stands before a caller.                                            *)

LEMMA PlaceOf ==
    ASSUME EveryCallerInLine, NEW i \in DOMAIN queue
    PROVE  Place(queue[i]) = i
BY DEF Place, EveryCallerInLine

\* A caller that stays in the queue keeps its place when others join, and moves
\* up by one when trustd accepts.
LEMMA DistanceServes ==
    ASSUME BaseInv, EveryCallerInLine, [Next]_vars, NEW c \in Client,
           conn[c] = "sent", conn'[c] = "sent"
    PROVE  IF UNCHANGED daemon THEN Distance(c)' = Distance(c)
                               ELSE Distance(c)' < Distance(c)
<1>1. /\ queue \in Seq(Client) /\ Len(queue) \in Nat /\ DOMAIN queue = 1 .. Len(queue)
      /\ c # None /\ pc \in {"down", "accept"} \cup Serving
  BY ClientAssumption DEF BaseInv, TypeOK
<1>2. EveryCallerInLine'
  BY NextLine
<1>3. \/ c = cur
      \/ /\ c # cur
         /\ \E i \in DOMAIN queue : queue[i] = c /\ Place(c) = i
  BY PlaceOf DEF EveryCallerInLine
<1>4. pc # "down"
  BY <1>1, <1>3 DEF EveryCallerInLine, BaseInv, ServingConsistent
<1>5. ASSUME NEW i \in DOMAIN queue', queue'[i] = c
      PROVE  Place(c)' = i
  <2>1. \A j \in DOMAIN queue' : queue'[j] = c => j = i
    BY <1>2, <1>5 DEF EveryCallerInLine
  <2>2. QED
    BY <1>5, <2>1 DEF Place
<1>6. c # cur => Place(c) \in Nat \ {0}
  BY <1>1, <1>3
<1>7. CASE UNCHANGED <<pc, cur, outcome, old>>
  <2>1. c # cur => Place(c)' = Place(c)
    <3>1. SUFFICES ASSUME c # cur PROVE Place(c)' = Place(c)
      OBVIOUS
    <3>2. PICK i \in DOMAIN queue : queue[i] = c /\ Place(c) = i
      BY <1>3, <3>1
    <3>3. i \in DOMAIN queue' /\ queue'[i] = c
      <4>1. CASE UNCHANGED queue
        BY <3>2, <4>1
      <4>2. CASE \E d \in Client : Connect(d)
        BY <1>1, <3>2, <4>2 DEF Connect
      <4>3. CASE Accept
        BY <1>7, <4>3 DEF Accept
      <4>4. CASE GoDown
        BY <4>4 DEF GoDown
      <4>5. QED
        BY <4>1, <4>2, <4>3, <4>4, HandlingKeepsLine DEF Next, ClientStep, Send,
          HangUp, Trustd, Finish, ReadNothing, SendReply, LogPanics, ReplyBreaks, Kill, Handling,
          vars, callers
    <3>4. QED
      BY <1>5, <3>2, <3>3
  <2>2. QED
    BY <1>7, <2>1 DEF Distance, daemon
<1>8. CASE Handling
  <2>1. StepsLeft[pc'] < StepsLeft[pc] /\ pc' # pc
    BY <1>4, <1>8, HandlingAdvances DEF StepsLeft, Serving
  <2>2. StepsLeft[pc] \in Int /\ StepsLeft[pc'] \in Int
    BY <1>4, <1>8, HandlingAdvances DEF StepsLeft, Serving
  <2>3. cur' = cur /\ Place(c)' = Place(c)
    BY <1>8, HandlingKeepsLine DEF Place
  <2>4. QED
    BY <1>6, <2>1, <2>2, <2>3 DEF Distance, daemon
<1>9. CASE Accept
  <2>1. /\ c # cur /\ pc = "accept" /\ pc' = "read"
        /\ Distance(c) = 8 * Place(c)
    BY <1>1, <1>6, <1>9, AcceptMovesUp DEF Distance, StepsLeft
  <2>2. PICK i \in DOMAIN queue : queue[i] = c /\ Place(c) = i
    BY <1>3, <2>1
  <2>3. CASE i = 1
    <3>1. cur' = c
      BY <1>9, <2>2, <2>3, AcceptMovesUp
    <3>2. Distance(c)' = 7
      BY <2>1, <3>1 DEF Distance, StepsLeft
    <3>3. QED
      BY <2>1, <2>2, <2>3, <3>2 DEF daemon
  <2>4. CASE i # 1
    <3>1. i - 1 \in DOMAIN queue' /\ queue'[i - 1] = c
      BY <1>1, <1>9, <2>2, <2>4, AcceptMovesUp
    <3>2. Place(c)' = i - 1
      BY <1>5, <3>1
    <3>3. cur' # c
      BY <1>2, <3>1 DEF EveryCallerInLine
    <3>4. Distance(c)' = 7 + 8 * (i - 1)
      BY <2>1, <3>2, <3>3 DEF Distance, StepsLeft
    <3>5. QED
      BY <1>1, <2>1, <2>2, <3>4 DEF daemon
  <2>5. QED
    BY <2>3, <2>4
<1>10. CASE ReadNothing \/ SendReply
  <2>1. /\ cur \in Client /\ cur' = None /\ UNCHANGED queue /\ pc' = "accept"
        /\ conn' = [conn EXCEPT ![cur] = "idle"] /\ pc \in {"read", "reply"}
    BY <1>10 DEF ReadNothing, SendReply, BaseInv, ServingConsistent, Serving
  <2>2. c # cur /\ c # cur' /\ Place(c)' = Place(c)
    BY <1>1, <2>1 DEF BaseInv, TypeOK, Place
  <2>3. Distance(c)' = 8 * Place(c) /\ Distance(c) >= 1 + 8 * Place(c)
    BY <1>6, <2>1, <2>2 DEF Distance, StepsLeft
  <2>4. Place(c) \in Int /\ pc' # pc
    BY <1>6, <2>1, <2>2
  <2>5. Distance(c)' < Distance(c)
    <3> DEFINE before == Distance(c)
    <3>1. before \in Int
      BY <2>1, <2>2, <2>4 DEF Distance, StepsLeft
    <3>2. QED
      BY <2>3, <2>4, <3>1
  <2>6. QED
    BY <2>4, <2>5 DEF daemon
<1>11. CASE GoDown
  BY <1>11 DEF GoDown
<1>12. CASE (\E d \in Client : ClientStep(d)) \/ UNCHANGED vars
  BY <1>7, <1>12 DEF ClientStep, Connect, Send, HangUp, vars, daemon
<1>13. QED
  BY <1>8, <1>9, <1>10, <1>11, <1>12 DEF Next, Trustd, Finish, LogPanics, ReplyBreaks, Kill,
    Handling

\* A caller whose message was sent comes closer to its reply with every step
\* that trustd takes, and no step of another caller changes that, for any number
\* of callers: it waits for at most eight steps for each request before its own.
THEOREM StepServes == Spec => EveryStepServes
<1> DEFINE Serves == \A c \in Client :
        conn[c] = "sent" /\ conn'[c] = "sent" =>
            IF UNCHANGED daemon THEN Distance(c)' = Distance(c)
                                ELSE Distance(c)' < Distance(c)
<1>1. BaseInv /\ EveryCallerInLine /\ [Next]_vars => [Serves]_vars
  BY DistanceServes
<1>2. QED
  BY <1>1, LineInvariant, PTL DEF Spec, EveryStepServes
=============================================================================
