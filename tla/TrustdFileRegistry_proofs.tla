----------------------- MODULE TrustdFileRegistry_proofs -----------------------
(***************************************************************************)
(* trustd with its file back end implements TrustRegistry, for every set   *)
(* of callers, artifacts, versions and decisions: the refinement proof.    *)
(* Every step of the daemon is a step of the registry or a stutter; the    *)
(* step that settles a request's reply is the one at which it takes        *)
(* effect.                                                                 *)
(***************************************************************************)
EXTENDS TrustdFileStore_proofs

-----------------------------------------------------------------------------
(* What the mapping does to the variables.                                 *)

\* A caller whose reply is settled is the one being served, and waits for it.
LEMMA SettledRequest ==
    ASSUME BaseInv, NEW c \in Client, Settled(c)
    PROVE  request[c] # None /\ pc \in {"event", "reply"}
BY DEF BaseInv, ServingConsistent, Settled, Serving

LEMMA RefinesInit ==
    ASSUME Init
    PROVE  Registry!Init
<1>1. trustedBar = [a \in Artifact |-> None]
  BY LookupMisses DEF Init, trustedBar
<1>2. stageBar = [c \in Client |-> "idle"]
  BY DEF Init, stageBar
<1>3. answerBar = [c \in Client |-> None]
  BY DEF Init, answerBar, Settled
<1>4. QED
  BY <1>1, <1>2, <1>3 DEF Init, Registry!Init

-----------------------------------------------------------------------------
(* The steps that the registry does not see.                               *)

\* Nothing the mapping looks at changes.
LEMMA Stutters ==
    ASSUME UNCHANGED <<disk, lastDecision, request, answer>>,
           \A c \in Client : Settled(c)' <=> Settled(c),
           outcome' = outcome \/ \A c \in Client : ~Settled(c)
    PROVE  UNCHANGED Registry!vars
<1>1. trustedBar' = trustedBar
  BY DEF trustedBar
<1>2. stageBar' = stageBar
  BY DEF stageBar
<1>3. answerBar' = answerBar
  BY DEF answerBar
<1>4. QED
  BY <1>1, <1>2, <1>3 DEF Registry!vars

-----------------------------------------------------------------------------
(* The step that settles the reply of the caller being served.             *)

\* Such a step comes before the reply is logged and sent, once the message
\* was read.
Settles(a) ==
    /\ pc \in Serving \ {"event", "reply"}
    /\ request[cur] # None
    /\ outcome' = a
    /\ UNCHANGED <<cur, callers>>

\* The mapping of such a step: the caller's stage and answer, and no other's.
LEMMA SettleServes ==
    ASSUME BaseInv, NEW a \in Answer, Settles(a)
    PROVE  Registry!Served(cur, a) /\ stageBar[cur] = "pending" /\ cur \in Client
<1>1. cur \in Client /\ request[cur] # None /\ outcome = None
  BY DEF BaseInv, ServingConsistent, Serving, Settles
<1>2. a # None /\ outcome' = a
  BY ReplyTypes DEF Settles
<1>3. \A c \in Client : ~Settled(c)
  BY <1>1 DEF Settled
<1>4. \A c \in Client : Settled(c)' <=> c = cur
  BY <1>2 DEF Settled, Settles
<1>5. UNCHANGED <<request, answer>>
  BY DEF callers, Settles
<1>6. stageBar' = [stageBar EXCEPT ![cur] = "served"]
  BY <1>1, <1>3, <1>4, <1>5 DEF stageBar
<1>7. answerBar' = [answerBar EXCEPT ![cur] = a]
  BY <1>1, <1>2, <1>3, <1>4, <1>5 DEF answerBar
<1>8. QED
  BY <1>1, <1>3, <1>5, <1>6, <1>7 DEF stageBar, Registry!Served

\* An error reply has no effect on the registry.
LEMMA ErrDenies ==
    ASSUME BaseInv, Settles(Reply("ERR")), UNCHANGED <<disk, lastDecision>>
    PROVE  Registry!Next
<1>1. /\ Registry!Served(cur, Reply("ERR"))
      /\ stageBar[cur] = "pending"
      /\ cur \in Client
  BY SettleServes, ReplyTypes
<1>2. UNCHANGED <<trustedBar, lastDecision>>
  BY DEF trustedBar
<1>3. Registry!Serve(cur)
  BY <1>1, <1>2 DEF Registry!Serve, Registry!Deny, Registry!Reply, Reply
<1>4. QED
  BY <1>1, <1>3 DEF Registry!Next

\* A handler settles with a reply that is not None, past the read.
LEMMA HandlerSettles ==
    ASSUME BaseInv, NEW a, Settle(a), UNCHANGED <<cur, callers>>,
           pc \in Serving \ {"read", "event", "reply"}
    PROVE  Settles(a)
BY DEF BaseInv, ServingConsistent, Settle, Settles

-----------------------------------------------------------------------------
(* The callers.                                                            *)

LEMMA RefinesClient ==
    ASSUME BaseInv, NEW c \in Client, ClientStep(c)
    PROVE  Registry!Next \/ UNCHANGED Registry!vars
<1>1. UNCHANGED <<disk, lastDecision, cur, outcome>>
  BY DEF ClientStep, Connect, Send, HangUp, store, daemon
<1>2. \A d \in Client : Settled(d)' <=> Settled(d)
  BY <1>1 DEF Settled
<1>3. CASE Connect(c) \/ HangUp(c)
  BY <1>1, <1>2, <1>3, Stutters DEF Connect, HangUp
<1>4. CASE \E r \in Request : Send(c, r)
  <2>1. PICK r \in Request : Send(c, r)
    BY <1>4
  <2>2. request[c] = None
    BY <2>1 DEF Send, BaseInv, CallersConsistent
  <2>3. ~Settled(c)
    BY <2>2, SettledRequest
  <2>4. /\ request' = [request EXCEPT ![c] = r]
        /\ answer' = [answer EXCEPT ![c] = None]
        /\ request \in [Client -> Request \cup {None}]
        /\ answer \in [Client -> Answer \cup {None}]
        /\ r # None
    BY <2>1, NoneIsNoMessage DEF Send, BaseInv, TypeOK
  <2>5. stageBar[c] = "idle"
    BY <2>2 DEF stageBar
  <2>6. stageBar' = [stageBar EXCEPT ![c] = "pending"]
    BY <1>2, <2>3, <2>4 DEF stageBar
  <2>7. answerBar' = [answerBar EXCEPT ![c] = None]
    BY <1>1, <1>2, <2>3, <2>4 DEF answerBar
  <2>8. UNCHANGED <<trustedBar, lastDecision>>
    BY <1>1 DEF trustedBar
  <2>9. Registry!Call(c, r)
    BY <2>4, <2>5, <2>6, <2>7, <2>8 DEF Registry!Call
  <2>10. QED
    BY <2>9 DEF Registry!Next, Registry!Request, Request, Registry!ManifestCommand,
      ManifestCommand, Registry!StoreCommand, StoreCommand, Registry!Manifest, Manifest
<1>5. QED
  BY <1>3, <1>4 DEF ClientStep

-----------------------------------------------------------------------------
(* The accept loop.                                                        *)

LEMMA RefinesLoop ==
    ASSUME BaseInv, Start \/ Accept \/ ReadNothing \/ ReadMessage
    PROVE  Registry!Next \/ UNCHANGED Registry!vars
<1>1. outcome = None
  BY DEF BaseInv, ServingConsistent, Start, Accept, ReadNothing, ReadMessage, Serving
<1>2. CASE UNCHANGED outcome
  <2>1. UNCHANGED <<disk, lastDecision, request, answer>>
    BY DEF Start, Accept, ReadNothing, ReadMessage, store, callers
  <2>2. \A c \in Client : ~Settled(c) /\ ~Settled(c)'
    BY <1>1, <1>2 DEF Settled
  <2>3. QED
    BY <1>2, <2>1, <2>2, Stutters
<1>3. CASE ~UNCHANGED outcome
  <2>1. Settles(Reply("ERR")) /\ UNCHANGED <<disk, lastDecision>>
    BY <1>3 DEF Start, Accept, ReadNothing, ReadMessage, Settles, Serving, store
  <2>2. QED
    BY <2>1, ErrDenies
<1>4. QED
  BY <1>2, <1>3

-----------------------------------------------------------------------------
(* The handlers.                                                           *)

\* A step inside a handler that neither settles nor renames.
LEMMA RefinesInner ==
    ASSUME BaseInv, UNCHANGED <<disk, lastDecision, cur, outcome, callers>>
    PROVE  UNCHANGED Registry!vars
BY Stutters DEF callers, Settled

LEMMA RefinesLoad ==
    ASSUME BaseInv, Load
    PROVE  Registry!Next \/ UNCHANGED Registry!vars
<1> DEFINE m == request[cur].arg
<1>1. pc = "load" /\ pc \in Serving \ {"read", "event", "reply"}
  BY DEF Load, LoadFails, LoadForUpdate, LoadForVerify, LoadForReport, Serving
<1>2. UNCHANGED <<disk, lastDecision, cur, callers>>
  BY DEF Load, LoadFails, LoadForUpdate, LoadForVerify, LoadForReport, store
<1>3. CASE Settle(Reply("ERR"))
  BY <1>1, <1>2, <1>3, HandlerSettles, ErrDenies
<1>4. UNCHANGED <<trustedBar, lastDecision>>
  BY <1>2 DEF trustedBar
<1>5. CASE LoadForUpdate /\ UNCHANGED outcome
  BY <1>2, <1>5, RefinesInner
<1>6. CASE LoadForVerify /\ Settle(Reply("OK"))
  <2>1. /\ Registry!Served(cur, Reply("OK"))
        /\ stageBar[cur] = "pending"
        /\ cur \in Client
    BY <1>1, <1>2, <1>6, HandlerSettles, SettleServes, ReplyTypes
  <2>2. request[cur].cmd = "VERIFY" /\ m \in Manifest
    BY <1>1, <1>6 DEF LoadForVerify, BaseInv, HandlerConsistent
  <2>3. Lookup(disk, m.artifact) \in Manifest
    BY <1>6, LookupType DEF LoadForVerify, BaseInv, TypeOK, OneLinePerArtifact
  <2>4. SameManifest(m, Lookup(disk, m.artifact))
    BY <1>6, ReplyTypes DEF LoadForVerify, Settle
  <2>5. Lookup(disk, m.artifact) = m
    BY <2>2, <2>3, <2>4 DEF SameManifest, Manifest
  <2>6. trustedBar[m.artifact] = m /\ m # None
    BY <2>2, <2>5, NoneAssumption DEF trustedBar, Manifest
  <2>7. Registry!Verify(cur)
    BY <1>4, <2>1, <2>2, <2>6 DEF Registry!Verify, Registry!Reply, Reply
  <2>8. QED
    BY <2>1, <2>7 DEF Registry!Next, Registry!Serve
<1>7. CASE LoadForReport
  <2>1. 1 \in DOMAIN disk /\ disk[1] \in Manifest
    BY <1>7 DEF LoadForReport, BaseInv, TypeOK
  <2>2. /\ Registry!Served(cur, StateReply(disk[1]))
        /\ stageBar[cur] = "pending"
        /\ cur \in Client
    BY <1>1, <1>2, <1>7, <2>1, HandlerSettles, SettleServes, ReplyTypes
        DEF LoadForReport
  <2> DEFINE a == disk[1].artifact
  <2>3. Lookup(disk, a) = disk[1]
    BY <2>1, LookupFinds DEF BaseInv, TypeOK, OneLinePerArtifact
  <2>4. a \in Artifact /\ trustedBar[a] = disk[1] /\ disk[1] # None
    BY <2>1, <2>3, NoneAssumption DEF trustedBar, Manifest
  <2>5. Registry!Report(cur)
    BY <1>4, <1>7, <2>2, <2>4 DEF LoadForReport, Registry!Report,
      Registry!StateReply, StateReply
  <2>6. QED
    BY <2>2, <2>5 DEF Registry!Next, Registry!Serve
<1>8. QED
  BY <1>3, <1>5, <1>6, <1>7 DEF Load, LoadFails, LoadForUpdate, LoadForVerify

\* The rename is where a store takes effect.
LEMMA RefinesRename ==
    ASSUME BaseInv, StoreInv, CheckedRecordStands, Rename
    PROVE  Registry!Next
<1> DEFINE m == request[cur].arg
<1>1. /\ Registry!Served(cur, Reply("OK"))
      /\ stageBar[cur] = "pending"
      /\ cur \in Client
  BY HandlerSettles, SettleServes, ReplyTypes DEF Rename, Serving
<1>2. m \in Manifest /\ m # None /\ m.artifact \in Artifact
  BY RenameStores, NoneAssumption DEF Manifest
<1>3. trustedBar' = [trustedBar EXCEPT ![m.artifact] = m]
  BY <1>2, RenameStores DEF trustedBar
<1>4. request[cur].cmd \in {"ENROLL", "UPDATE"} /\ UNCHANGED lastDecision
  BY DEF Rename, BaseInv, HandlerConsistent, StoreCommand
<1>5. request[cur].cmd = "UPDATE" =>
        /\ trustedBar[m.artifact] # None
        /\ UpdateAllowed(trustedBar[m.artifact], m)
  <2>1. request[cur].cmd = "UPDATE" =>
            /\ old # None
            /\ Lookup(disk, m.artifact) = old
            /\ UpdateAllowed(old, m)
    BY DEF Rename, CheckedRecordStands
  <2>2. QED
    BY <1>2, <2>1 DEF trustedBar
<1>6. Registry!Store(cur)
  BY <1>1, <1>2, <1>3, <1>4, <1>5 DEF Registry!Store, Registry!StoreCommand,
    Registry!Reply, Reply, Registry!UpdateAllowed, UpdateAllowed
<1>7. QED
  BY <1>1, <1>6 DEF Registry!Next, Registry!Serve

LEMMA RefinesStore ==
    ASSUME BaseInv, StoreInv, CheckedRecordStands, StoreFile
    PROVE  Registry!Next \/ UNCHANGED Registry!vars
<1>1. CASE OpenTmp \/ WriteTmp
  BY <1>1, RefinesInner DEF OpenTmp, WriteTmp
<1>2. CASE OpenTmpFails \/ WriteTmpFails \/ RenameFails
  BY <1>2, HandlerSettles, ErrDenies DEF OpenTmpFails, WriteTmpFails, RenameFails,
    store, Serving
<1>3. CASE Rename
  BY <1>3, RefinesRename
<1>4. QED
  BY <1>1, <1>2, <1>3 DEF StoreFile

LEMMA RefinesDecide ==
    ASSUME SilentFaults = FALSE, BaseInv, Decide
    PROVE  Registry!Next
<1>1. pc \in Serving \ {"read", "event", "reply"}
  BY DEF Decide, AppendDecision, AppendFails, ReportDecision,
    ReportDecisionFails, Serving
<1>2. UNCHANGED trustedBar
  BY DEF Decide, AppendDecision, AppendFails, ReportDecision,
    ReportDecisionFails, store, trustedBar
<1>3. CASE AppendFails \/ ReportDecisionFails
  BY <1>1, <1>3, HandlerSettles, ErrDenies DEF AppendFails, ReportDecisionFails, store
<1>4. CASE AppendDecision
  <2>1. /\ Registry!Served(cur, Reply("OK"))
        /\ stageBar[cur] = "pending"
        /\ cur \in Client
    BY <1>1, <1>4, HandlerSettles, SettleServes, ReplyTypes DEF AppendDecision
  <2>2. /\ request[cur].cmd = "RECORD_DECISION"
        /\ request[cur].arg # None
        /\ lastDecision' = request[cur].arg
    BY <1>4, NoneAssumption DEF AppendDecision, BaseInv, HandlerConsistent
  <2>3. Registry!RecordDecision(cur)
    BY <1>2, <2>1, <2>2 DEF Registry!RecordDecision, Registry!Reply, Reply
  <2>4. QED
    BY <2>1, <2>3 DEF Registry!Next, Registry!Serve
<1>5. CASE ReportDecision
  <2>1. lastDecision \in Decision
    BY <1>5 DEF ReportDecision, BaseInv, TypeOK
  <2>2. /\ Registry!Served(cur, DecisionReply(lastDecision))
        /\ stageBar[cur] = "pending"
        /\ cur \in Client
    BY <1>1, <1>5, <2>1, HandlerSettles, SettleServes, ReplyTypes DEF ReportDecision
  <2>3. /\ request[cur].cmd = "REPORT_DECISION"
        /\ lastDecision # None
        /\ UNCHANGED lastDecision
    BY <1>5 DEF ReportDecision, store, BaseInv, HandlerConsistent
  <2>4. Registry!ReportDecision(cur)
    BY <1>2, <2>2, <2>3 DEF Registry!ReportDecision, Registry!DecisionReply,
      DecisionReply
  <2>5. QED
    BY <2>2, <2>4 DEF Registry!Next, Registry!Serve
<1>6. QED
  BY <1>3, <1>4, <1>5 DEF Decide

-----------------------------------------------------------------------------
(* The reply, and the end of the daemon.                                   *)

\* When trustd goes down every caller that waits loses its answer.
LEMMA RefinesGoDown ==
    ASSUME BaseInv, GoDown
    PROVE  Registry!Next
<1> DEFINE S == {c \in Client : request[c] # None}
<1>1. \A c \in Client : ~Settled(c)'
  BY DEF GoDown, Settled
<1>2. \A c \in Client : stageBar[c] = "idle" <=> c \notin S
  BY DEF stageBar
<1>3. stageBar' = [c \in Client |-> IF c \in S THEN "idle" ELSE stageBar[c]]
  <2>1. stageBar' = [c \in Client |-> "idle"]
    BY DEF GoDown, stageBar
  <2>2. QED
    BY <1>2, <2>1
<1>4. request' = [c \in Client |-> IF c \in S THEN None ELSE request[c]]
  BY DEF GoDown
<1>5. \A c \in Client : c \notin S => answerBar[c] = answer[c]
  BY SettledRequest DEF answerBar
<1>6. answerBar' = [c \in Client |-> IF c \in S THEN Reply("LOST") ELSE answerBar[c]]
  <2>1. answerBar' = answer'
    BY <1>1 DEF answerBar, GoDown
  <2>2. QED
    BY <1>5, <2>1 DEF GoDown
<1>7. UNCHANGED <<trustedBar, lastDecision>>
  BY DEF GoDown, store, trustedBar
<1>8. Registry!Lose(S)
  BY <1>2, <1>3, <1>4, <1>6, <1>7 DEF Registry!Lose, Registry!Reply, Reply
<1>9. S \in SUBSET Client
  OBVIOUS
<1>10. QED
  BY <1>8, <1>9 DEF Registry!Next

LEMMA RefinesFinish ==
    ASSUME BaseInv, Finish
    PROVE  Registry!Next \/ UNCHANGED Registry!vars
<1>1. CASE LogManifest
  BY <1>1, RefinesInner DEF LogManifest, store
<1>2. CASE LogPanics \/ ReplyBreaks
  BY <1>2, RefinesGoDown DEF LogPanics, ReplyBreaks
<1>3. CASE SendReply
  <2>1. cur \in Client /\ request[cur] # None /\ outcome # None
    BY <1>3 DEF SendReply, BaseInv, ServingConsistent, Serving
  <2>2. /\ outcome' = None
        /\ answer' = [answer EXCEPT ![cur] = outcome]
        /\ request' = [request EXCEPT ![cur] = None]
        /\ answer \in [Client -> Answer \cup {None}]
        /\ request \in [Client -> Request \cup {None}]
        /\ UNCHANGED <<disk, lastDecision>>
    BY <1>3 DEF SendReply, store, BaseInv, TypeOK
  <2>3. \A c \in Client : ~Settled(c)'
    BY <2>2 DEF Settled
  <2>4. \A c \in Client : Settled(c) <=> c = cur
    BY <2>1 DEF Settled
  <2>5. stageBar[cur] = "served" /\ stageBar' = [stageBar EXCEPT ![cur] = "idle"]
    BY <2>1, <2>2, <2>3, <2>4 DEF stageBar
  <2>6. answerBar' = answerBar
    BY <2>1, <2>2, <2>3, <2>4 DEF answerBar
  <2>7. UNCHANGED <<trustedBar, lastDecision>>
    BY <2>2 DEF trustedBar
  <2>8. Registry!Return(cur)
    BY <2>2, <2>5, <2>6, <2>7 DEF Registry!Return
  <2>9. QED
    BY <2>1, <2>8 DEF Registry!Next
<1>4. QED
  BY <1>1, <1>2, <1>3 DEF Finish

-----------------------------------------------------------------------------
LEMMA RefinesNext ==
    ASSUME SilentFaults = FALSE, IInv, [Next]_vars
    PROVE  Registry!Next \/ UNCHANGED Registry!vars
<1>1. BaseInv /\ StoreInv /\ CheckedRecordStands
  BY DEF IInv, StoreInv
<1>2. CASE \E c \in Client : ClientStep(c)
  BY <1>1, <1>2, RefinesClient
<1>3. CASE Start \/ Accept \/ ReadNothing \/ ReadMessage
  BY <1>1, <1>3, RefinesLoop
<1>4. CASE Load \/ StoreFile \/ Decide \/ Finish
  BY <1>1, <1>4, RefinesLoad, RefinesStore, RefinesDecide, RefinesFinish
<1>5. CASE Kill
  BY <1>1, <1>5, RefinesGoDown DEF Kill
<1>6. CASE UNCHANGED vars
  BY <1>1, <1>6, RefinesInner DEF vars, store, daemon
<1>7. QED
  BY <1>2, <1>3, <1>4, <1>5, <1>6 DEF Next, Trustd

\* trustd with the file back end promises its callers what TrustRegistry
\* says: each request takes effect at once, between its call and its return,
\* or not at all, through failed file operations, kills and restarts.
THEOREM FileImplementsRegistry ==
    ASSUME SilentFaults = FALSE
    PROVE  Spec => ImplementsRegistry
<1>1. Init => Registry!Init
  BY RefinesInit
<1>2. IInv /\ [Next]_vars => [Registry!Next]_Registry!vars
  BY RefinesNext
<1>3. QED
  BY <1>1, <1>2, StoreInvariant, PTL DEF Spec, ImplementsRegistry, Registry!Spec
=============================================================================
